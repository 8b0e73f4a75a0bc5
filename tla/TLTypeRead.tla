----------------------------- MODULE TLTypeRead -----------------------------
(***************************************************************************)
(* The reader of an abstract type (scheme 'sections' with 'read-write'),  *)
(* reached through its boxed alias tl::boxed<T> (1325).  The boxed reader *)
(* of the tl core is not in this repository: it takes the tag word and    *)
(* calls T::read(from, end, cons) (spec: "Readers", "Boxed alias").  The  *)
(* emitted T::read (1254-1272) switches on cons for a type of several     *)
(* constructors (withType) and checks it against the one constructor      *)
(* otherwise, but only when the type owns data (1261-1263); for a         *)
(* constructor with fields it creates the data object and runs its read   *)
(* chain (1163-1173, 1181-1188), which returns false at the first field   *)
(* that runs past the end.                                                 *)
(***************************************************************************)
EXTENDS TLWireSchema

CONSTANTS
  Ids,      \* constructor ids
  Foreign,  \* a tag that is the id of no constructor
  MaxCtors  \* constructors of a type

VARIABLES
  tctors,  \* the type's constructors: v of the emitter loop (fixed)
  buf,     \* the words handed to the boxed reader (fixed)
  from,    \* the reader's cursor
  cur,     \* the constructor the switch chose
  otype,   \* _type of the type object read into (a type of several constructors)
  odata,   \* the data object it owns: [ctor |-> k (0: none), val |-> members]
  i,       \* the next link of the data object's read chain
  got,     \* got[k]: the value member _k of the data object holds
  status   \* "tag", "dispatch", "data", "ok" (true) or "fail" (false)

vars == <<tctors, buf, from, cur, otype, odata, i, got, status>>

(* type() of the type object: _type for several constructors, the id of  *)
(* the one constructor otherwise (1239-1251).                              *)
TypeOf == IF Len(tctors) > 1 THEN otype ELSE tctors[1].id

(* The boxed read seen as one step: pending until T::read returns, then   *)
(* its verdict, the words taken and the object's type().                   *)
B == INSTANCE TLBoxedRead WITH
       result <- IF status \in {"ok", "fail"} THEN status ELSE "pending",
       consumed <- IF status = "ok" THEN from - 1 ELSE 0,
       kind <- IF status = "ok" THEN TypeOf ELSE Foreign

(* The tag the boxed reader passes as cons. *)
cons == buf[1]

(* withType: the type has several constructors (808). *)
withType == Len(tctors) > 1

(* withData: some constructor has a field that is not trivial or bots-only *)
(* (913-914).                                                              *)
withData == \E k \in DOMAIN tctors : B!OwnsData(tctors[k].c)

(* The reader creates a data object when "len(prms) > len(trivialConditions)" *)
(* (1165, 1182).                                                           *)
HasData(c) == Len(PrmsList(c)) > Cardinality(Trivial(c))

(* The fields of a constructor's data class, in read order (985). *)
ItemsOf(c) == SelectSeq(PrmsList(c), LAMBDA k : k \notin Trivial(c) \cup BotsOnly(c))
Items == ItemsOf(tctors[cur].c)
Item == Items[i]

(* No data object, and a data object of constructor k as "new Data()"     *)
(* makes it, every member default-constructed.                             *)
NoData == [ctor |-> 0, val |-> <<>>]
DataOf(k) == [ctor |-> k, val |-> [f \in ValueFields(tctors[k].c) |-> 0]]

(* The default constructor: "type_owner(newFast)" for a type of one       *)
(* constructor with data, "= default" (_type = 0, no data) otherwise       *)
(* (1206-1209).                                                            *)
DefaultObject == [type |-> 0, data |-> IF withData /\ ~withType THEN DataOf(1) ELSE NoData]

(* The by-type-id constructor "_type(type)" with the switch line of k:    *)
(* "setData(new Data())" when k owns data (1297-1306, 952-961).            *)
ByTypeId(k) ==
  [type |-> tctors[k].id, data |-> IF B!OwnsData(tctors[k].c) THEN DataOf(k) ELSE NoData]

(* The by-data constructor "type_owner(data), _type(id)" (977-981). *)
ByData(k) == [type |-> IF withType THEN tctors[k].id ELSE 0, data |-> DataOf(k)]

(* The objects T::read can be called on: made by any constructor. *)
Constructed ==
  {DefaultObject}
    \cup {ByTypeId(k) : k \in IF withType THEN DOMAIN tctors ELSE {}}
    \cup {ByData(k) : k \in {k \in DOMAIN tctors : B!OwnsData(tctors[k].c)}}

Init ==
  /\ tctors \in B!Types
  /\ \E k \in DOMAIN tctors, tag \in B!Tags : \E o \in Objects(tctors[k].c) :
       \E n \in 0 .. Len(B!Boxed(tctors, k, tag, o)) :
         buf = SubSeq(B!Boxed(tctors, k, tag, o), 1, n)
  /\ from = 1
  /\ cur = 1
  /\ \E o \in Constructed : otype = o.type /\ odata = o.data
  /\ i = 1
  /\ got = <<>>
  /\ status = "tag"

(* The boxed reader of the core: the tag word, or false at the end. *)
ReadTag ==
  /\ status = "tag"
  /\ IF from <= Len(buf)
     THEN from' = from + 1 /\ status' = "dispatch"
     ELSE status' = "fail" /\ UNCHANGED from
  /\ UNCHANGED <<tctors, buf, cur, otype, odata, i, got>>

(* Mutant: the switch line without "_type = cons;". *)
SelectNoType(k) ==
  /\ cur' = k
  /\ otype' = otype
  /\ IF HasData(tctors[k].c)
     THEN status' = "data" /\ got' = [f \in ValueFields(tctors[k].c) |-> 0]
     ELSE status' = "ok" /\ UNCHANGED got

(* "case id: _type = cons;" then, for a constructor with fields, "new     *)
(* Data(); data->read(from, end)" (1164-1167, 1181-1183); without fields   *)
(* "break;" and "return true" (1180, 1271).                                *)
Select(k) ==
  /\ cur' = k
  /\ otype' = IF withType THEN tctors[k].id ELSE otype
  /\ IF HasData(tctors[k].c)
     THEN status' = "data" /\ got' = [f \in ValueFields(tctors[k].c) |-> 0]
     ELSE status' = "ok" /\ UNCHANGED got

(* Mutant: the single-constructor check of cons (1263) dropped. *)
DispatchNoIdCheck ==
  /\ status = "dispatch"
  /\ IF withType
     THEN IF \E k \in DOMAIN tctors : tctors[k].id = cons
          THEN Select(CHOOSE k \in DOMAIN tctors : tctors[k].id = cons)
          ELSE status' = "fail" /\ UNCHANGED <<cur, otype, got>>
     ELSE Select(1)
  /\ UNCHANGED <<tctors, buf, from, odata, i>>

(* T::read(from, end, cons) (1260-1272): "switch (cons)" with "default:   *)
(* return false" for several constructors, "if (cons != id) return false" *)
(* for one when the type owns data.                                        *)
Dispatch ==
  /\ status = "dispatch"
  /\ IF withType
     THEN IF \E k \in DOMAIN tctors : tctors[k].id = cons
          THEN Select(CHOOSE k \in DOMAIN tctors : tctors[k].id = cons)
          ELSE status' = "fail" /\ UNCHANGED <<cur, otype, got>>
     ELSE IF withData /\ cons # tctors[1].id
          THEN status' = "fail" /\ UNCHANGED <<cur, otype, got>>
          ELSE Select(1)
  /\ UNCHANGED <<tctors, buf, from, odata, i>>

(* _k.read(from, end) of the core: one word, or false at the end, which   *)
(* makes T::read "delete data; return false" (1169-1171).                  *)
ReadWord(k) ==
  IF from <= Len(buf)
  THEN /\ got' = [got EXCEPT ![k] = buf[from]]
       /\ from' = from + 1
       /\ i' = i + 1
       /\ UNCHANGED status
  ELSE status' = "fail" /\ UNCHANGED <<got, from, i>>

(* "&& _k.read(from, end)" of a plain field (1010). *)
ReadPlain ==
  /\ status = "data" /\ i <= Len(Items)
  /\ KindOf(tctors[cur].c, Item) # "cond"
  /\ ReadWord(Item)
  /\ UNCHANGED <<tctors, buf, cur, otype, odata>>

(* "&& (vk() ? _k.read(from, end) : ((_k = T()), true))" (1007). *)
ReadCond ==
  /\ status = "data" /\ i <= Len(Items)
  /\ KindOf(tctors[cur].c, Item) = "cond"
  /\ IF (got[FlagsWord] \div 2^BitOf(tctors[cur].c, Item)) % 2 = 1
     THEN ReadWord(Item)
     ELSE /\ got' = [got EXCEPT ![Item] = 0]
          /\ i' = i + 1
          /\ UNCHANGED <<from, status>>
  /\ UNCHANGED <<tctors, buf, cur, otype, odata>>

(* Mutant: the chain's true result without "setData(data);". *)
ReadDoneNoSetData ==
  /\ status = "data" /\ i > Len(Items)
  /\ status' = "ok"
  /\ UNCHANGED <<tctors, buf, from, cur, otype, odata, i, got>>

(* The chain returns true: "setData(data);" and "return true" (1168, 1271). *)
ReadDone ==
  /\ status = "data" /\ i > Len(Items)
  /\ status' = "ok"
  /\ odata' = [ctor |-> cur, val |-> got]
  /\ UNCHANGED <<tctors, buf, from, cur, otype, i, got>>

Stopped ==
  /\ status \in {"ok", "fail"}
  /\ UNCHANGED vars

(* Mutant: "if (const auto vk = v.vk())" dropped from the data writer. *)
WriteDataAllConds(k) ==
  FoldLeft(LAMBDA acc, f : Append(acc, odata.val[f]), <<>>, ItemsOf(tctors[k].c))

(* The data class's write (1008, 1011) on the members of the data object *)
(* the type owns, as c_k() (queryData) hands it over.                      *)
WriteData(k) ==
  LET c == tctors[k].c
      g == odata.val
  IN FoldLeft(LAMBDA acc, f :
                IF KindOf(c, f) = "cond" /\ (g[FlagsWord] \div 2^BitOf(c, f)) % 2 = 0
                THEN acc ELSE Append(acc, g[f]),
              <<>>, ItemsOf(c))


(* T::write (1273-1283): "switch (_type)" over the write switch lines of  *)
(* the constructors with data (1174-1177), or the one constructor's write *)
(* (1189-1190); a constructor without data writes nothing.                 *)
WriteType ==
  IF withType
  THEN LET ks == {k \in DOMAIN tctors : tctors[k].id = otype /\ HasData(tctors[k].c)}
       IN IF ks = {} THEN <<>> ELSE WriteData(CHOOSE k \in ks : TRUE)
  ELSE IF HasData(tctors[1].c) THEN WriteData(1) ELSE <<>>

Next == ReadTag \/ Dispatch \/ ReadPlain \/ ReadCond \/ ReadDone \/ Stopped

Spec == Init /\ [][Next]_vars

-----------------------------------------------------------------------------
(* The type reader implements the boxed read: T::read returns true        *)
(* exactly when the buffer starts with the tag of one of the type's        *)
(* constructors and that constructor's wire form, stands right after them *)
(* and reports that constructor -- whatever tag, foreign or of a sibling,  *)
(* heads the buffer and wherever it is cut.  Only the one constructor of   *)
(* a type that owns no data is taken without looking at the tag.          *)
ImplementsBoxedRead == B!Spec

(* The getters are safe whenever no T::read is running and the last one   *)
(* did not return false: for a constructor with data, when type() names   *)
(* it (so c_k()'s Expects(_type == id) passes), the object owns a data     *)
(* object of that constructor for queryData to cast -- whichever          *)
(* constructor made the object and whatever it held before the read.       *)
GettersSafe ==
  status \notin {"data", "fail"} =>
    \A k \in DOMAIN tctors :
      B!OwnsData(tctors[k].c) /\ TypeOf = tctors[k].id => odata.ctor = k

(* What a read returns true on, the type writes back: T::write on the      *)
(* object just read writes exactly the words the read took after the tag. *)
RoundTrip ==
  status = "ok" => WriteType = SubSeq(buf, 2, from - 1)

=============================================================================
