-------------------------- MODULE MCTLSchemaReader --------------------------
EXTENDS TLSchemaReader

(* a#1 = U;  the CRC of its canonical line is 1 *)
DA == Decl("a", "U", <<1>>, 1, FALSE)
(* b#01 = U;  CRC 2: a mismatch, and b#1 is in typeIdExceptions *)
DB == Decl("b", "U", <<0, 1>>, 2, FALSE)
(* c#11 = V;  CRC 1: a mismatch not listed, warned about and dropped *)
DC == Decl("c", "V", <<1, 1>>, 1, FALSE)
(* t {X:Type} q:!X = X;  a template without an id: CRC 17 is used *)
DT == Decl("t", "X", <<>>, 17, TRUE)
(* z#0 = U;  CRC 1: an id of zeros *)
DZ == Decl("z", "U", <<0>>, 1, FALSE)

MCExceptions == {<<"b", <<1>>>>}

(* Doc comment texts over a few characters: "d" spells description, "b" *)
(* the ending "for bots only"; "to" continues it.                        *)
MCDescription == <<"d">>
MCBotsOnly == <<"b">>
MCTagNames == {<<"d">>}
(* // @description ; for bots only *)
TB == <<" ", "@", "d", " ", ";", " ", "b">>
(* // @description x *)
TD == <<" ", "@", "d", " ", "x">>
(* // x ; for bots only to  -- a second line of the description's text *)
TC == <<" ", "x", " ", ";", " ", "b", " ", "t", "o">>
(* // x@x ; for bots only  -- an "@" that starts no tag, as in @BotFather *)
TS == <<" ", "x", "@", "x", " ", ";", " ", "b">>

(* Every kind of line: blank, doc comments, LAYER, section markers, skip *)
(* and bad lines, and the four declarations.                             *)
MCAlphabet ==
  {BlankL, CommentL(TB), CommentL(TD), CommentL(TC), LayerL(1), LayerL(2), TypesL, FunctionsL,
   SkipL, BadL, DeclL(DA), DeclL(DB), DeclL(DC), DeclL(DT)}

(* A doc comment, a skipped line, and a declaration. *)
SkipAlphabet == {CommentL(TB), SkipL, DeclL(DA)}

(* A declaration whose id is written as zeros. *)
ZeroAlphabet == {BlankL, DeclL(DA), DeclL(DZ)}

(* A plain description continued by a line that mentions @x. *)
AtAlphabet == {CommentL(TD), CommentL(TS), DeclL(DA)}

MCMaxLines == <<3, 2>>

=============================================================================
