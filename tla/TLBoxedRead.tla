---------------------------- MODULE TLBoxedRead -----------------------------
(***************************************************************************)
(* What reading a boxed value of an abstract type promises, in one step   *)
(* (spec: "Readers", "Boxed alias"): the tag word selects a constructor   *)
(* of the type and that constructor's wire form follows.  The read        *)
(* succeeds exactly when the buffer starts with such a tag and wire form, *)
(* consumes both and reports the constructor; otherwise it fails.  The     *)
(* spec reads the tag only for a type of several constructors, and the    *)
(* one constructor of a type that owns no data is taken whatever the tag. *)
(***************************************************************************)
EXTENDS TLWireSchema

CONSTANTS
  Ids,      \* constructor ids
  Foreign,  \* a tag that is the id of no constructor
  MaxCtors  \* constructors of a type

Tags == Ids \cup {Foreign}

(* The objects a reader can meet: any word in any field, so that one      *)
(* constructor's words read as another's are an object of that one.       *)
Words == {FlagsValue(b) : b \in SUBSET Bits}
WordObjects(c) == [bits : SUBSET Bits, val : [{c[j].name : j \in DOMAIN c} -> Words]]

(* Every int value is a word of that set. *)
ASSUME Vals \subseteq Words

(* The abstract types: one to MaxCtors constructors with distinct ids. *)
Types ==
  {t \in UNION {[1 .. n -> [id : Ids, c : Schemas]] : n \in 1 .. MaxCtors} :
     \A j, k \in DOMAIN t : j # k => t[j].id # t[k].id}

(* A constructor owns data unless all its fields are trivial or bots-only. *)
OwnsData(c) == Len(PrmsList(c)) > Cardinality(Trivial(c) \cup BotsOnly(c))

(* Boxed wire forms, and every prefix of one, with any tag. *)
Boxed(t, k, tag, o) == <<tag>> \o Encode(t[k].c, o)

VARIABLES
  tctors,   \* the type's constructors (fixed)
  buf,      \* the words handed to the reader (fixed)
  result,   \* "pending", "ok" or "fail"
  consumed, \* the words the read took
  kind      \* the id of the constructor read

bvars == <<tctors, buf, result, consumed, kind>>

(* The tag and wire form of constructor k with object o head the buffer. *)
Heads(k, o) == IsPrefix(Boxed(tctors, k, tctors[k].id, o), buf)

(* The tag is not looked at. *)
Untagged == Len(tctors) = 1 /\ ~OwnsData(tctors[1].c) /\ Len(buf) >= 1

Init ==
  /\ tctors \in Types
  /\ \E k \in DOMAIN tctors, tag \in Tags : \E o \in Objects(tctors[k].c) :
       \E n \in 0 .. Len(Boxed(tctors, k, tag, o)) :
         buf = SubSeq(Boxed(tctors, k, tag, o), 1, n)
  /\ result = "pending"
  /\ consumed = 0
  /\ kind = Foreign

Read ==
  /\ result = "pending"
  /\ \/ \E k \in DOMAIN tctors : \E o \in WordObjects(tctors[k].c) :
          /\ Heads(k, o)
          /\ result' = "ok"
          /\ consumed' = 1 + Len(Encode(tctors[k].c, o))
          /\ kind' = tctors[k].id
     \/ /\ Untagged
        /\ result' = "ok" /\ consumed' = 1 /\ kind' = tctors[1].id
     \/ /\ ~Untagged
        /\ ~\E k \in DOMAIN tctors : \E o \in WordObjects(tctors[k].c) : Heads(k, o)
        /\ result' = "fail" /\ UNCHANGED <<consumed, kind>>
  /\ UNCHANGED <<tctors, buf>>

Spec == Init /\ [][Read]_bvars

=============================================================================
