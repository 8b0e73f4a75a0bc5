--------------------------- MODULE MCTLDumpToText ---------------------------
(***************************************************************************)
(* Schemas for TLDumpToText, in the shape of the MTProto api.tl:           *)
(*                                                                         *)
(*   peerEmpty#1 = Peer;                                                   *)
(*   peerUser#2 flags:# self:flags.0?true id:int photo:flags.1?Photo = Peer;*)
(*   photo#3 id:long = Photo;                                              *)
(*   user#4 flags:# bot:flags.0?true flags2:# premium:flags2.0?true        *)
(*          peer:flags2.1?Peer pic:flags.2?photo = User;                   *)
(*                                                                         *)
(* user has a 64-bit flag set whose words are adjacent on the wire (only   *)
(* a trivial "true" field lies between them), as in api.tl's user.         *)
(***************************************************************************)
EXTENDS TLDumpToText

MCAbstract == {"Peer", "Photo", "User"}
MCCtors == ("Peer" :> <<1, 2>>) @@ ("Photo" :> <<3>>) @@ ("User" :> <<4>>)
MCRoots == {"Peer", "User"}

MCParamsOf ==
  (1 :> << >>) @@
  (2 :> <<WordP("flags"), CondP("self", "flags", 0, TTrue), PlainP("id", TInt),
          CondP("photo", "flags", 1, Boxed("Photo"))>>) @@
  (3 :> <<PlainP("id", TLong)>>) @@
  (4 :> <<WordP("flags"), CondP("bot", "flags", 0, TTrue), WordP("flags2"),
          CondP("premium", "flags2", 0, TTrue), CondP("peer", "flags2", 1, Boxed("Peer")),
          CondP("pic", "flags", 2, Bare("Photo"))>>)
(***************************************************************************)
(* chat#5 flags:# title:flags.0?int flags2:# x:flags2.0?int = Chat;        *)
(* The second flag word is separated from the first by a field that takes *)
(* space on the wire.                                                      *)
(***************************************************************************)
SplitAbstract == {"Chat"}
SplitCtors == "Chat" :> <<5>>
SplitRoots == {"Chat"}
SplitParamsOf ==
  5 :> <<WordP("flags"), CondP("title", "flags", 0, TInt), WordP("flags2"),
         CondP("x", "flags2", 0, TInt)>>

(***************************************************************************)
(* user as above with one more flag on the high bit of the first word:     *)
(*   verified:flags.31?true, placed before flags2.                         *)
(***************************************************************************)
HighBitParamsOf ==
  [MCParamsOf EXCEPT ![4] =
     <<WordP("flags"), CondP("bot", "flags", 0, TTrue), CondP("verified", "flags", 31, TTrue),
       WordP("flags2"), CondP("premium", "flags2", 0, TTrue),
       CondP("peer", "flags2", 1, Boxed("Peer"))>>]
HighBitRoots == {"User"}

(***************************************************************************)
(* pair#6 a:# x:a.0?int b:# y:b.0?int = Pair;                              *)
(* Two flag words, the second not named a2: the analyzer makes b the      *)
(* hasFlags of the constructor (489-494).                                  *)
(***************************************************************************)
TwoWordsAbstract == {"Pair"}
TwoWordsCtors == "Pair" :> <<6>>
TwoWordsRoots == {"Pair"}
TwoWordsParamsOf ==
  6 :> <<WordP("a"), CondP("x", "a", 0, TInt), WordP("b"), CondP("y", "b", 0, TInt)>>

=============================================================================
