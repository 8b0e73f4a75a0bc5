---------------------------- MODULE TLCommentTags ----------------------------
(***************************************************************************)
(* The comment tag language of generate_tl.py: endsWithForTag and          *)
(* isBotsOnlyLine (172-193), which decide from the doc comments of a       *)
(* declaration whether it is "for bots only" and left out.                 *)
(*                                                                         *)
(* A text is a sequence of characters, each a one-character string.       *)
(* The program's string operations (str.find, slicing, strip, endswith)   *)
(* are written over those sequences, 1-based where Python counts from 0.  *)
(* The tag name "description" and the ending "for bots only" are          *)
(* constants, so that a model can give them short spellings.               *)
(***************************************************************************)
EXTENDS Integers, Sequences, SequencesExt

CONSTANTS
  DescriptionTag,   \* the characters of "description"
  BotsOnlyEnding    \* the characters of "for bots only"

Space == " "

(* The words that may follow "; <ending>" (183): ".", ";", " if", " to",  *)
(* " otherwise", " unless".                                                *)
Continuations ==
  { <<".">>, <<";">>, <<" ", "i", "f">>, <<" ", "t", "o">>,
    <<" ", "o", "t", "h", "e", "r", "w", "i", "s", "e">>,
    <<" ", "u", "n", "l", "e", "s", "s">> }

(* str.find: the position of the first occurrence of sub in s, 0 if none. *)
Find(s, sub) ==
  LET at == {i \in 1 .. Len(s) - Len(sub) + 1 : SubSeq(s, i, i + Len(sub) - 1) = sub}
  IN IF at = {} THEN 0 ELSE Min(at)

(* str.strip, for a text whose only white space is the blank. *)
Strip(s) ==
  LET ink == {i \in DOMAIN s : s[i] # Space}
  IN IF ink = {} THEN <<>> ELSE SubSeq(s, Min(ink), Max(ink))

(* Mutant: the text of the tag runs to the end of the comments, past the  *)
(* next tag.                                                               *)
EndsWithForTagNoCut(comments, tag, ending) ==
  LET position == Find(comments, <<"@">> \o tag \o <<Space>>)
      line == SubSeq(comments, position + Len(tag) + 1, Len(comments))
      stripped == Strip(line)
      fullending == <<";", Space>> \o Strip(ending)
  IN /\ position > 0
     /\ Len(stripped) >= Len(fullending)
     /\ \/ IsSuffix(fullending, stripped)
        \/ \E c \in Continuations : Find(stripped, fullending \o c) > 0

(* endsWithForTag: the text after the first "@<tag> ", up to the next "@",*)
(* says "; <ending>" at its end or before one of the continuations.  The   *)
(* warning it prints otherwise changes nothing.                            *)
EndsWithForTag(comments, tag, ending) ==
  LET position == Find(comments, <<"@">> \o tag \o <<Space>>)
      tail == SubSeq(comments, position + Len(tag) + 1, Len(comments))
      till == Find(tail, <<"@">>)
      line == IF till > 0 THEN SubSeq(tail, 1, till - 1) ELSE tail
      stripped == Strip(line)
      fullending == <<";", Space>> \o Strip(ending)
  IN /\ position > 0
     /\ Len(stripped) >= Len(fullending)
     /\ \/ IsSuffix(fullending, stripped)
        \/ \E c \in Continuations : Find(stripped, fullending \o c) > 0

IsBotsOnlyLine(comments) == EndsWithForTag(comments, DescriptionTag, BotsOnlyEnding)

-----------------------------------------------------------------------------
(***************************************************************************)
(* Reference: the comment tag language as spec 3 and 4.1 describe it.  A  *)
(* tag is "@<name> " for the name of a tag the schema uses; its text runs *)
(* to the next tag or to the end; a declaration is for bots only when the *)
(* text of its first @description tag reads "... ; for bots only", after  *)
(* which only blanks follow or one of the continuations.                   *)
(***************************************************************************)
TagAt(s, i, names) ==
  \E n \in names : /\ i + Len(n) + 1 <= Len(s)
                   /\ SubSeq(s, i, i + Len(n) + 1) = <<"@">> \o n \o <<Space>>

TagText(s, tag, names) ==
  LET from == Min({i \in 1 .. Len(s) : TagAt(s, i, {tag})}) + Len(tag) + 2
      nexts == {i \in from .. Len(s) : TagAt(s, i, names)}
  IN SubSeq(s, from, IF nexts = {} THEN Len(s) ELSE Min(nexts) - 1)

Says(text, ending) ==
  LET fe == <<";", Space>> \o ending IN
  \E i \in 1 .. Len(text) - Len(fe) + 1 :
     /\ SubSeq(text, i, i + Len(fe) - 1) = fe
     /\ LET rest == SubSeq(text, i + Len(fe), Len(text)) IN
        \/ \A k \in DOMAIN rest : rest[k] = Space
        \/ \E c \in Continuations : IsPrefix(c, rest)

DocumentedBotsOnly(comments, names) ==
  /\ \E i \in 1 .. Len(comments) : TagAt(comments, i, {DescriptionTag})
  /\ Says(TagText(comments, DescriptionTag, names), BotsOnlyEnding)

=============================================================================
