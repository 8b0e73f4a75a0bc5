--------------------------- MODULE TLConversion ----------------------------
(***************************************************************************)
(* The adapters to the external object model (scheme['conversion']): for   *)
(* one boxed type of the registry, tl_from builds our data class from an   *)
(* external object, and tl_to builds an external object from ours, one    *)
(* argument per field.  A type with several constructors gets its tl_from *)
(* from the switch before the data-class loop (lines 829-867), which reads *)
(* each registry row by index; a type with one constructor gets it inside *)
(* the data-class loop (1079-1113), where the row was unpacked by name     *)
(* (897-910), and so does every tl_to (1114-1140).  The creator of the     *)
(* data class (984-1002) is what the tl_from arguments are passed to.      *)
(*                                                                         *)
(* A registry row is the 13-tuple of line 771, 1-based here:               *)
(*   1 name, 2 typeid, 3 prmsList, 4 prms, 5 hasFlags, 6 hasFlags64,       *)
(*   7 conditionsList, 8 conditions, 9 trivialConditions, 10 isTemplate,   *)
(*   11 nullablePrms, 12 nullableVectors, 13 botsOnlyPrms.                 *)
(* A dict is its set of keys; isTemplate is '' for a type ("k in ''" is    *)
(* false for every field name, so it is the empty set here).  A field type *)
(* is one of "string", "int" (a builtin), "vector", "object" (a boxed     *)
(* type of the schema) and "flags" (the # word, 'flags<...>').             *)
(***************************************************************************)
EXTENDS Naturals, Sequences, SequencesExt

CONSTANTS
  Names,      \* field names
  FlagsWord,  \* the name of the # field
  MaxCtors,   \* constructors of the type
  MaxFields   \* fields per constructor, besides the # word

Kinds == {"string", "int", "vector", "object"}
Tags == {"none", "nullable", "nullvec", "bots"}

(* A field as the analyzer (455-547) accepts it: nullable only when not a  *)
(* vector and not conditional (510, 528, 537), vector-nullable only when a *)
(* vector and not conditional (510, 536).                                  *)
Field == {p \in [name : Names, kind : Kinds, tag : Tags, cond : BOOLEAN] :
            /\ p.tag = "nullable" => p.kind # "vector" /\ ~p.cond
            /\ p.tag = "nullvec" => p.kind = "vector" /\ ~p.cond}

FieldLists ==
  {s \in UNION {[1 .. n -> Field] : n \in 0 .. MaxFields} :
     \A i, j \in DOMAIN s : i # j => s[i].name # s[j].name}

(* The registry row the analyzer builds for a constructor with these      *)
(* fields: the # word comes first when a field is conditional.            *)
RowOf(ps) ==
  LET Named(t) == {ps[i].name : i \in {i \in DOMAIN ps : ps[i].tag = t}}
      conds == SelectSeq([i \in DOMAIN ps |-> ps[i].name],
                         LAMBDA n : \E i \in DOMAIN ps : ps[i].name = n /\ ps[i].cond)
      flags == IF conds = <<>> THEN <<>> ELSE <<FlagsWord>>
      plist == flags \o [i \in DOMAIN ps |-> ps[i].name]
      kind == [n \in ToSet(plist) |->
                 IF n = FlagsWord THEN "flags"
                 ELSE ps[CHOOSE i \in DOMAIN ps : ps[i].name = n].kind]
  IN <<"ctor", 0, plist, kind, IF conds = <<>> THEN "" ELSE FlagsWord, "",
       conds, ToSet(conds), {}, {}, Named("nullable"), Named("nullvec"), Named("bots")>>

VARIABLES
  v,      \* typesDict[restype]: the rows of the type's constructors (fixed)
  stale,  \* conditionsList as left by the last declaration analysed (fixed)
  stage,  \* "from", "to", "done", "fromError", "toError" (ValueError)
  ci,     \* the constructor being converted
  fi,     \* the index into prmsList of the next field
  from,   \* from[i]: the tl_from arguments for constructor i
  to      \* to[i]: the tl_to arguments for constructor i

vars == <<v, stale, stage, ci, fi, from, to>>

Init ==
  /\ v \in UNION {[1 .. n -> {RowOf(ps) : ps \in FieldLists}] : n \in 1 .. MaxCtors}
  /\ stale \in SUBSET Names
  /\ stage = "from"
  /\ ci = 1
  /\ fi = 1
  /\ from = [i \in DOMAIN v |-> <<>>]
  /\ to = [i \in DOMAIN v |-> <<>>]

Multi == Len(v) > 1   \* withType, len(v) > 1
Row == v[ci]
K == Row[3][fi]

(* The names the multi-constructor tl_from reads: data[7] .. data[11],    *)
(* and the conditionsList variable left from before.                       *)
MultiFields(r) ==
  [conds |-> stale, trivial |-> r[8], nprm |-> r[10], nvec |-> r[11], bots |-> r[12]]

(* Mutant: the one-constructor path unpacks the row as the switch does.   *)
SingleFieldsShifted(r) ==
  [conds |-> stale, trivial |-> r[8], nprm |-> r[10], nvec |-> r[11], bots |-> r[12]]

(* The locals of "for data in v", unpacked by name. *)
SingleFields(r) ==
  [conds |-> ToSet(r[7]), trivial |-> r[9], nprm |-> r[11], nvec |-> r[12], bots |-> r[13]]

(* One iteration of "for k in prmsList" of tl_from: "raise", "skip" or    *)
(* the form of the argument: "value", "optvec" (tl_from_vector_optional)  *)
(* or "opt" (get() ? make_optional(tl_from(..)) : nullopt).                *)
FromArg(k, kind, f) ==
  CASE k \in f.conds -> "raise"
    [] k \in f.bots -> "skip"
    [] kind \in {"string", "int"} -> "value"
    [] kind \in {"vector", "flags"} -> IF k \in f.nvec THEN "optvec" ELSE "value"
    [] OTHER -> IF k \in f.nprm THEN "opt" ELSE "value"

(* Mutant: a vector of nullable elements is converted as a plain vector. *)
ToArgVectorPlain(k, kind, f) ==
  CASE k \in f.conds -> "raise"
    [] k \in f.bots -> "default"
    [] kind \in {"string", "int", "vector", "flags"} -> "value"
    [] OTHER -> IF k \in f.nprm THEN "opt" ELSE "value"

(* One iteration of "for k in prmsList" of tl_to: a bots-only field gets  *)
(* '{}' ("default"); 'string' is a builtin there.                          *)
ToArg(k, kind, f) ==
  CASE k \in f.conds -> "raise"
    [] k \in f.bots -> "default"
    [] kind \in {"string", "int"} -> "value"
    [] kind \in {"vector", "flags"} -> IF k \in f.nvec THEN "optvec" ELSE "value"
    [] OTHER -> IF k \in f.nprm THEN "opt" ELSE "value"

(* The argument for field K, appended to the constructor's list. *)
EmitFrom(f) ==
  LET a == FromArg(K, Row[4][K], f) IN
  /\ fi <= Len(Row[3])
  /\ IF a = "raise" THEN stage' = "fromError" /\ UNCHANGED <<fi, from>>
     ELSE /\ fi' = fi + 1
          /\ from' = IF a = "skip" THEN from
                     ELSE [from EXCEPT ![ci] = Append(@, [name |-> K, form |-> a])]
          /\ UNCHANGED stage
  /\ UNCHANGED <<v, stale, ci, to>>

(* One field of tl_from: the switch before the data-class loop for a     *)
(* type of several constructors (845-865), the one-constructor function   *)
(* inside it (1091-1111); the two loops are the same text over the names  *)
(* each unpacked.                                                          *)
FromStep ==
  /\ stage = "from"
  /\ EmitFrom(IF Multi THEN MultiFields(Row) ELSE SingleFields(Row))

(* The end of a constructor's argument list; after the last constructor   *)
(* the tl_to functions follow.                                             *)
FromCtorDone ==
  /\ stage = "from" /\ fi > Len(Row[3])
  /\ fi' = 1
  /\ IF ci = Len(v) THEN stage' = "to" /\ ci' = 1
     ELSE ci' = ci + 1 /\ UNCHANGED stage
  /\ UNCHANGED <<v, stale, from, to>>

(* One field of tl_to(const data &value) (1118-1139). *)
ToStep ==
  LET a == ToArg(K, Row[4][K], SingleFields(Row)) IN
  /\ stage = "to" /\ fi <= Len(Row[3])
  /\ IF a = "raise" THEN stage' = "toError" /\ UNCHANGED <<fi, to>>
     ELSE /\ fi' = fi + 1
          /\ to' = [to EXCEPT ![ci] = Append(@, [name |-> K, form |-> a])]
          /\ UNCHANGED stage
  /\ UNCHANGED <<v, stale, ci, from>>

ToCtorDone ==
  /\ stage = "to" /\ fi > Len(Row[3])
  /\ fi' = 1
  /\ IF ci = Len(v) THEN stage' = "done" /\ UNCHANGED ci
     ELSE ci' = ci + 1 /\ UNCHANGED stage
  /\ UNCHANGED <<v, stale, from, to>>

Stopped ==
  /\ stage \in {"done", "fromError", "toError"}
  /\ UNCHANGED vars

Next == FromStep \/ FromCtorDone \/ ToStep \/ ToCtorDone \/ Stopped

Spec == Init /\ [][Next]_vars

-----------------------------------------------------------------------------
(* The parameters of the data class's constructor (984-1002): trivial     *)
(* conditions and bots-only fields are left out; a type of the by-value   *)
(* list is taken by value, a nullable vector as a vector of optionals, a  *)
(* nullable field as an optional.                                          *)
Creator(r) ==
  LET ks == SelectSeq(r[3], LAMBDA n : n \notin r[9] \cup r[13])
  IN [j \in DOMAIN ks |->
        [name |-> ks[j],
         form |-> IF r[4][ks[j]] \in {"int", "flags"} THEN "value"
                  ELSE IF ks[j] \in r[12] THEN "optvec"
                  ELSE IF ks[j] \in r[11] THEN "opt"
                  ELSE "value"]]

(* A plain string converts implicitly to an optional one; an object must  *)
(* be null-checked when the field is nullable.                             *)
Accepts(c, a, kind) ==
  /\ a.name = c.name
  /\ \/ a.form = c.form
     \/ c.form = "opt" /\ a.form = "value" /\ kind = "string"

(* Once tl_from is emitted for every constructor of the type, each        *)
(* constructor's arguments are the creator's parameters in order, with a  *)
(* null check for every nullable object and every vector of nullable      *)
(* elements -- for the switch of a multi-constructor type as much as for  *)
(* a single constructor.                                                   *)
FromMatchesCreator ==
  stage \in {"to", "done", "toError"} =>
    \A i \in DOMAIN v :
      LET c == Creator(v[i]) IN
      /\ Len(from[i]) = Len(c)
      /\ \A j \in DOMAIN c : Accepts(c[j], from[i][j], v[i][4][c[j].name])

(* tl_to, which reads the row unpacked by name for every constructor,     *)
(* passes every field of the data class in the creator's form (and '{}'   *)
(* for the bots-only ones), for multi-constructor types too.               *)
ToMatchesCreator ==
  stage = "done" =>
    \A i \in DOMAIN v :
      LET c == Creator(v[i])
          t == SelectSeq(to[i], LAMBDA a : a.form # "default")
      IN /\ Len(t) = Len(c)
         /\ \A j \in DOMAIN c : Accepts(c[j], t[j], v[i][4][c[j].name])

=============================================================================
