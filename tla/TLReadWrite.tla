---------------------------- MODULE TLReadWrite -----------------------------
(***************************************************************************)
(* The readers and writers emitted for a constructor (scheme 'sections'   *)
(* with 'read-write').  Data::read of a data class (1004-1026) and read   *)
(* of an RPC method class (629-640) are a chain "&& _k.read(from, end)"   *)
(* over the fields, a conditional field read only when its bit is set in  *)
(* the flags word and default-constructed otherwise; the writers          *)
(* (1004-1011, 653-658) write the same fields.  The type reader that     *)
(* creates the data object and calls its read is TLTypeRead.               *)
(*                                                                         *)
(* The word reader _k.read of the tl core is not in this repository: it   *)
(* fails when the cursor is at the end and otherwise takes one word (spec: *)
(* "Readers").  The detailed reader implements TLWireRead, where the read *)
(* is one step.                                                            *)
(***************************************************************************)
EXTENDS TLWireSchema

VARIABLES
  ctor,    \* the constructor's fields after the # word (fixed)
  isFunc,  \* an RPC method class (TRUE) or a data class (fixed)
  obj,     \* the object the buffer encodes (fixed)
  buf,     \* the words handed to the reader (fixed)
  from,    \* the reader's cursor
  i,       \* the next link of the read chain
  got,     \* got[k]: the value member _k holds
  status   \* "reading", "ok" (read returned true), "fail" (false)

vars == <<ctor, isFunc, obj, buf, from, i, got, status>>

Init ==
  /\ ctor \in Schemas
  /\ isFunc \in BOOLEAN
  /\ obj \in Objects(ctor)
  /\ \E n \in 0 .. Len(Encode(ctor, obj)) : buf = SubSeq(Encode(ctor, obj), 1, n)
  /\ from = 1
  /\ i = 1
  /\ got = [k \in ValueFields(ctor) |-> 0]
  /\ status = "reading"

(* The links of a method's read chain: every field but the trivial       *)
(* conditions (629-635).  A bots-only field is a link too, though the      *)
(* method class declares no member for it (738).                          *)
MethodItems == SelectSeq(PrmsList(ctor), LAMBDA k : k \notin Trivial(ctor))

(* The fields a data class has, and reads in this order: the bots-only    *)
(* fields are left out as well (984-986).                                  *)
DataItems ==
  SelectSeq(PrmsList(ctor), LAMBDA k : k \notin Trivial(ctor) \cup BotsOnly(ctor))

ReadItems == IF isFunc THEN MethodItems ELSE DataItems
Item == ReadItems[i]

(* _flags.v & Flag::f_k, as vk() of a data class (1035-1038) and inline  *)
(* in a method's read (633).                                               *)
IsSet(k) == (got[FlagsWord] \div 2^BitOf(ctor, k)) % 2 = 1

(* _k.read(from, end) of the core: one word, or false at the end. *)
ReadWord(k) ==
  IF from <= Len(buf)
  THEN /\ got' = [got EXCEPT ![k] = buf[from]]
       /\ from' = from + 1
       /\ i' = i + 1
       /\ UNCHANGED status
  ELSE status' = "fail" /\ UNCHANGED <<got, from, i>>

(* "&& _k.read(from, end)" of a plain field (1010, 635). *)
ReadPlain ==
  /\ status = "reading" /\ i <= Len(ReadItems)
  /\ KindOf(ctor, Item) # "cond"
  /\ ReadWord(Item)
  /\ UNCHANGED <<ctor, isFunc, obj, buf>>

(* Mutant: a conditional field is read whatever its bit. *)
ReadCondAlways ==
  /\ status = "reading" /\ i <= Len(ReadItems)
  /\ KindOf(ctor, Item) = "cond"
  /\ ReadWord(Item)
  /\ UNCHANGED <<ctor, isFunc, obj, buf>>

(* "&& (vk() ? _k.read(from, end) : ((_k = T()), true))" (1007, 633). *)
ReadCond ==
  /\ status = "reading" /\ i <= Len(ReadItems)
  /\ KindOf(ctor, Item) = "cond"
  /\ IF IsSet(Item) THEN ReadWord(Item)
     ELSE /\ got' = [got EXCEPT ![Item] = 0]
          /\ i' = i + 1
          /\ UNCHANGED <<from, status>>
  /\ UNCHANGED <<ctor, isFunc, obj, buf>>

(* The end of the chain: read returns true (1023, 637; "return true" for *)
(* an empty chain, 1025, 639).                                             *)
ReadDone ==
  /\ status = "reading" /\ i > Len(ReadItems)
  /\ status' = "ok"
  /\ UNCHANGED <<ctor, isFunc, obj, buf, from, i, got>>

Stopped ==
  /\ status # "reading"
  /\ UNCHANGED vars

Next == ReadPlain \/ ReadCond \/ ReadDone \/ Stopped

Spec == Init /\ [][Next]_vars

-----------------------------------------------------------------------------
(* Mutant: "if (const auto vk = v.vk())" dropped from the writer. *)
WriteObjAllConds(o) ==
  FoldLeft(LAMBDA acc, k : Append(acc, IF k = FlagsWord THEN FlagsValue(o.bits) ELSE o.val[k]),
           <<>>, ReadItems)

(* The writer (1008, 1011; 656, 658): every link of the chain in order, a *)
(* conditional field when its bit is set.                                  *)
WriteObj(o) ==
  FoldLeft(LAMBDA acc, k :
             IF KindOf(ctor, k) = "cond" /\ BitOf(ctor, k) \notin o.bits THEN acc
             ELSE Append(acc, IF k = FlagsWord THEN FlagsValue(o.bits) ELSE o.val[k]),
           <<>>, ReadItems)

(* The reader seen as one step: pending while the chain runs, then its     *)
(* verdict, the words it took and the members' values.                     *)
W == INSTANCE TLWireRead WITH
       result <- IF status = "reading" THEN "pending" ELSE status,
       consumed <- IF status = "ok" THEN from - 1 ELSE 0,
       value <- IF status = "ok" THEN got ELSE <<>>

(* The read chain implements the wire read: it returns true exactly on a  *)
(* buffer holding the whole wire form of the object, then stands right     *)
(* after it (where the next object starts) with every field's value, and  *)
(* it returns false on a buffer cut short -- for data classes and RPC      *)
(* methods alike, whatever bits are set or shared.                         *)
ImplementsWireRead == W!Spec

(* The writer writes the wire form, so what one client writes another     *)
(* reads back.                                                             *)
WritesWireForm ==
  WriteObj(obj) = Encode(ctor, obj)

=============================================================================
