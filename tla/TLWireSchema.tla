---------------------------- MODULE TLWireSchema ----------------------------
(***************************************************************************)
(* One constructor as the parameter analyzer (455-547) records it, and the *)
(* TL wire form of its objects, shared by the abstract read (TLWireRead)   *)
(* and the emitted readers and writers (TLReadWrite).                      *)
(*                                                                         *)
(* Every field is one 32-bit word: an int, or the # word.  A conditional   *)
(* field is flags.B?int, a trivial condition flags.B?true, a "bots" field  *)
(* an int whose doc comment says "for bots only".  The # word comes first, *)
(* as the analyzer (508) requires it before the conditions that name it.  *)
(***************************************************************************)
EXTENDS Naturals, Sequences, SequencesExt, FiniteSets

CONSTANTS
  Names,     \* field names
  FlagsWord, \* the name of the # field
  Vals,      \* int values, small naturals
  Bits,      \* flag bits
  MaxFields, \* fields besides the # word
  WithBots   \* schemas may tag a field "for bots only"

Kinds == {"int", "cond", "true"} \cup (IF WithBots THEN {"bots"} ELSE {})

Field == [name : Names, kind : Kinds, bit : Bits]

(* The constructors: fields with distinct names, after the # word. *)
Schemas ==
  {s \in UNION {[1 .. n -> Field] : n \in 0 .. MaxFields} :
     \A i, j \in DOMAIN s : i # j => s[i].name # s[j].name}

(* hasFlags: the constructor has a # word when a field names it. *)
HasFlags(c) == \E j \in DOMAIN c : c[j].kind \in {"cond", "true"}

(* prmsList, with the # word first. *)
PrmsList(c) == (IF HasFlags(c) THEN <<FlagsWord>> ELSE <<>>) \o [j \in DOMAIN c |-> c[j].name]

KindOf(c, k) ==
  IF k = FlagsWord THEN "flags" ELSE c[CHOOSE j \in DOMAIN c : c[j].name = k].kind

(* conditions[k]: the bit of a conditional field. *)
BitOf(c, k) == c[CHOOSE j \in DOMAIN c : c[j].name = k].bit

Trivial(c) == {k \in ToSet(PrmsList(c)) : KindOf(c, k) = "true"}
BotsOnly(c) == {k \in ToSet(PrmsList(c)) : KindOf(c, k) = "bots"}

(* The objects of a constructor: the bits of its # word, and a value for  *)
(* each of its fields.                                                     *)
Objects(c) == [bits : SUBSET Bits, val : [{c[j].name : j \in DOMAIN c} -> Vals]]

(* The value of the # word with the given bits set. *)
FlagsValue(bits) == FoldSet(LAMBDA b, acc : acc + 2^b, 0, bits)

(* A field is on the wire unless it is a trivial condition or a           *)
(* conditional field whose bit is clear.                                    *)
OnWire(c, o, k) ==
  \/ k = FlagsWord
  \/ KindOf(c, k) \in {"int", "bots"}
  \/ KindOf(c, k) = "cond" /\ BitOf(c, k) \in o.bits

(* The value a field of the object carries; a clear conditional field    *)
(* reads as the default, 0.                                                 *)
ValueOf(c, o, k) ==
  IF k = FlagsWord THEN FlagsValue(o.bits)
  ELSE IF OnWire(c, o, k) THEN o.val[k] ELSE 0

(* The TL wire form of an object: its fields in order, each that is on    *)
(* the wire as one word.                                                    *)
Encode(c, o) ==
  FoldLeft(LAMBDA acc, k : IF OnWire(c, o, k) THEN Append(acc, ValueOf(c, o, k)) ELSE acc,
           <<>>, PrmsList(c))

(* The fields an object of the constructor has values for. *)
ValueFields(c) == ToSet(PrmsList(c)) \ Trivial(c)

=============================================================================
