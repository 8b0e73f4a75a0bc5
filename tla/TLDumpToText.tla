---------------------------- MODULE TLDumpToText ----------------------------
(***************************************************************************)
(* The dump-to-text machine that generate_tl.py emits into                 *)
(* <output>-dump_to_text.cpp: the driver DumpToTextType, which keeps four  *)
(* parallel stacks (type id, vector element type, stage, flag word), and   *)
(* one stage function Serialize_<name> per constructor, generated by       *)
(* addTextSerialize from the parameter analysis of readAndGenerate.        *)
(*                                                                         *)
(* The schema is a constant: for every constructor the TL parameters as    *)
(* written in the .tl file.  Analysis(c) is what readAndGenerate derives   *)
(* from them (prmsList, hasFlags, hasFlags64, conditions), and the stage   *)
(* functions are driven by that analysis, exactly as the emitted C++ is.   *)
(* The input buffer is any TL encoding of a value of a root type, or a    *)
(* prefix of one (a buffer cut short); the encodings come from an          *)
(* independent reference encoder (EncType) that also yields the dump the   *)
(* whole buffer should produce.                                            *)
(***************************************************************************)
EXTENDS Integers, Sequences, SequencesExt, FiniteSetsExt, TLC

CONSTANTS
  Abstract,   \* boxed type names of the schema (keys of typesDict)
  Ctors,      \* Ctors[U]: constructor ids whose result type is U, in schema order
  ParamsOf,   \* ParamsOf[c]: the declared TL parameters of constructor c, in order
  Roots,      \* boxed types a dumped buffer holds at top level
  Depth,      \* bound on constructor nesting of the reference values
  IntVals,    \* int32 words used for plain int and long fields
  IntId, LongId, FlagsId, Flags64Id, \* idPrefix + int / long / flags / flags64
  RpcResultId, CoreMessageId          \* idPrefix + rpc_result / core_message

(* Field types of the schema, as the generator tells them apart. *)
TInt == [k |-> "int", of |-> "-"]
TLong == [k |-> "long", of |-> "-"]
TTrue == [k |-> "true", of |-> "-"]
Boxed(U) == [k |-> "boxed", of |-> U]   \* Uppercase reference: tag on the wire
Bare(U) == [k |-> "bare", of |-> U]     \* lowercase reference: payload only

(* Declared TL parameters: "name:#", "name:flag.bit?T", "name:T". *)
Param(n, kd, f, b, t) == [name |-> n, kind |-> kd, flag |-> f, bit |-> b, type |-> t]
WordP(n) == Param(n, "word", "-", 0, TInt)
CondP(n, f, b, t) == Param(n, "cond", f, b, t)
PlainP(n, t) == Param(n, "plain", "-", 0, t)

CtorIds == UNION {Range(Ctors[U]) : U \in Abstract}
Builtins == {IntId, LongId, FlagsId, Flags64Id}

(* Mutant: core_message's seq_no pushed as a long, like msg_id. *)
ManualSeqNoLong ==
  (RpcResultId :> <<<<"req_msg_id", LongId>>, <<"result", 0>>>>) @@
  (CoreMessageId :> <<<<"msg_id", LongId>>, <<"seq_no", LongId>>, <<"bytes", IntId>>,
                      <<"body", 0>>>>)

(* The stage functions written by hand into the dump source (1351-1400): *)
(* per stage the label printed and the type pushed, 0 for "read a tag".   *)
(* Serialize_msg_container pushes a vector, which the core dumps; it is    *)
(* not part of this model.                                                 *)
Manual ==
  (RpcResultId :> <<<<"req_msg_id", LongId>>, <<"result", 0>>>>) @@
  (CoreMessageId :> <<<<"msg_id", LongId>>, <<"seq_no", IntId>>, <<"bytes", IntId>>,
                      <<"body", 0>>>>)
ManualIds == DOMAIN Manual

ASSUME CtorIds \cap (Builtins \cup ManualIds \cup {0}) = {}
ASSUME ManualIds \cap (Builtins \cup {0}) = {}
ASSUME \A c \in CtorIds : \A i \in DOMAIN ParamsOf[c] :
         ParamsOf[c][i].type.k = "bare" => Len(Ctors[ParamsOf[c][i].type.of]) = 1

-----------------------------------------------------------------------------
(***************************************************************************)
(* Parameter analysis of readAndGenerate, one declared parameter at a time. *)
(* A second "#" word named hasFlags + "2" becomes hasFlags64 and is not a  *)
(* field; a condition on it gets its bit shifted by 32; a condition is     *)
(* recorded only the first time its name is seen.                          *)
(***************************************************************************)
NoAnalysis == [hasFlags |-> "", hasFlags64 |-> "", prmsList |-> <<>>,
               prms |-> <<>>, conditions |-> <<>>, bad |-> FALSE]

AnalyzeParam(a, p) ==
  CASE p.kind = "word" /\ a.hasFlags # "" /\ p.name = a.hasFlags \o "2" ->
         [a EXCEPT !.hasFlags64 = p.name]
    [] p.kind = "word" ->
         [a EXCEPT !.hasFlags = p.name, !.prmsList = Append(@, p.name),
                   !.prms = (p.name :> p) @@ @]
    [] p.kind = "cond" /\ p.flag \notin {a.hasFlags, a.hasFlags64} ->
         [a EXCEPT !.bad = TRUE]
    [] p.kind = "cond" ->
         [a EXCEPT !.prmsList = Append(@, p.name), !.prms = (p.name :> p) @@ @,
                   !.conditions =
                      IF p.name \in DOMAIN @ THEN @
                      ELSE (p.name :> IF p.flag = a.hasFlags64 THEN p.bit + 32
                                                               ELSE p.bit) @@ @]
    [] OTHER ->
         [a EXCEPT !.prmsList = Append(@, p.name), !.prms = (p.name :> p) @@ @]

Analysis(c) == FoldLeft(AnalyzeParam, NoAnalysis, ParamsOf[c])

(* The analysis depends on the schema only: computed once. *)
AnalysisOf == [c \in CtorIds |-> Analysis(c)]

ASSUME \A c \in CtorIds : ~AnalysisOf[c].bad

IsTrivial(an, k) == k \in DOMAIN an.conditions /\ an.prms[k].type.k = "true"

(* Mutant: every "#" field pushes the 32-bit flags type. *)
PushOfNarrow(an, k) ==
  LET p == an.prms[k] IN
  CASE p.kind = "word" -> FlagsId
    [] p.type.k = "int" -> IntId
    [] p.type.k = "long" -> LongId
    [] p.type.k = "boxed" -> 0
    [] p.type.k = "bare" -> Ctors[p.type.of][1]

(* The type id a field pushes onto the types stack (0: read a tag). *)
PushOf(an, k) ==
  LET p == an.prms[k] IN
  CASE p.kind = "word" -> IF k = an.hasFlags /\ an.hasFlags64 # ""
                          THEN Flags64Id ELSE FlagsId
    [] p.type.k = "int" -> IntId
    [] p.type.k = "long" -> LongId
    [] p.type.k = "boxed" -> 0
    [] p.type.k = "bare" -> Ctors[p.type.of][1]

-----------------------------------------------------------------------------
(***************************************************************************)
(* Words are int32 (the prime type); a flag word on the flags stack is an  *)
(* int64 kept as its two int32 halves <<low, high>>.                       *)
(***************************************************************************)
MinInt32 == -2147483647 - 1

(* Bit j of the two's complement int32 v. *)
Bit32(v, j) ==
  IF j = 31 THEN v < 0
  ELSE IF v >= 0 THEN (v \div 2^j) % 2 = 1
  ELSE ((-(v + 1)) \div 2^j) % 2 = 0

Dec32(v) == IF v = MinInt32 THEN 2147483647 ELSE v - 1

(* flags.back() = *start, an int64 made of a signed 32-bit word. *)
Flag32(lo) == <<lo, IF lo < 0 THEN -1 ELSE 0>>

(* flags.back() = int64 of start[0] + (int64 of start[1] << 32). *)
Flag64(lo, hi) == <<lo, IF lo < 0 THEN Dec32(hi) ELSE hi>>

(* flag & Flag::f_k, for the bit conditions[k]. *)
HasBit(f, b) == IF b < 32 THEN Bit32(f[1], b) ELSE Bit32(f[2], b - 32)

-----------------------------------------------------------------------------
(***************************************************************************)
(* Reference: the TL wire encoding of every value of a type, paired with   *)
(* the dump it must produce.  A constructor is its tag (when boxed) and    *)
(* its parameters in declaration order; a flag word is followed by the    *)
(* fields it enables; the first "#" word shows its value, together with    *)
(* the second one named <first>2 when there is one (bits 32-63).           *)
(***************************************************************************)
(* The TL declarations of the hand-written constructors (mtproto.tl):     *)
(*   rpc_result req_msg_id:long result:Object = RpcResult;                 *)
(*   message msg_id:long seqno:int bytes:int body:Object = Message;        *)
(* where Object is a boxed value of any constructor.                       *)
TObject == [k |-> "object", of |-> "-"]
ManualDecl ==
  (RpcResultId :> <<PlainP("req_msg_id", TLong), PlainP("result", TObject)>>) @@
  (CoreMessageId :> <<PlainP("msg_id", TLong), PlainP("seq_no", TInt), PlainP("bytes", TInt),
                      PlainP("body", TObject)>>)
DeclOf(c) == IF c \in ManualIds THEN ManualDecl[c] ELSE ParamsOf[c]

FlagWord(bits) == MapThenSumSet(LAMBDA b : IF b = 31 THEN MinInt32 ELSE 2^b, bits)

ParamSet(c) == {DeclOf(c)[i] : i \in DOMAIN DeclOf(c)}
FlagNames(c) == {p.name : p \in {q \in ParamSet(c) : q.kind = "word"}}
BitsOn(c, n) == {q.bit : q \in {r \in ParamSet(c) : r.kind = "cond" /\ r.flag = n}}
FlagValues(c) ==
  {fv \in [FlagNames(c) -> SUBSET UNION {BitsOn(c, n) : n \in FlagNames(c)}] :
     \A n \in FlagNames(c) : fv[n] \subseteq BitsOn(c, n)}
FirstWord(c) ==
  DeclOf(c)[CHOOSE i \in DOMAIN DeclOf(c) :
                 DeclOf(c)[i].kind = "word" /\
                 \A j \in 1 .. i - 1 : DeclOf(c)[j].kind # "word"].name
HighWord(c) == IF FlagNames(c) = {} THEN "-" ELSE FirstWord(c) \o "2"

Cat(S, T) == {<<s[1] \o t[1], s[2] \o t[2]>> : s \in S, t \in T}
One(ws, ts) == {<<ws, ts>>}

RECURSIVE EncType(_, _), EncCons(_, _), EncFrom(_, _, _, _)

EncParam(c, fv, d, p) ==
  LET label == <<"label", p.name>>
      lo == FlagWord(fv[FirstWord(c)])
  IN
  CASE p.kind = "word" /\ p.name = HighWord(c) -> One(<<FlagWord(fv[p.name])>>, <<>>)
    [] p.kind = "word" /\ HighWord(c) \in FlagNames(c) ->
         One(<<lo>>, <<label, <<"flags64", lo, FlagWord(fv[HighWord(c)])>>>>)
    [] p.kind = "word" -> One(<<FlagWord(fv[p.name])>>, <<label, <<"flags", FlagWord(fv[p.name])>>>>)
    [] p.kind = "cond" /\ p.bit \notin fv[p.flag] -> One(<<>>, <<label, <<"skip">>>>)
    [] p.kind = "cond" /\ p.type.k = "true" -> One(<<>>, <<label, <<"yes">>>>)
    [] OTHER -> Cat(One(<<>>, <<label>>), EncType(p.type, d - 1))

EncFrom(c, fv, d, i) ==
  IF i > Len(DeclOf(c)) THEN One(<<>>, <<>>)
  ELSE Cat(EncParam(c, fv, d, DeclOf(c)[i]), EncFrom(c, fv, d, i + 1))

EncCons(c, d) ==
  IF d = 0 THEN {}
  ELSE IF DeclOf(c) = <<>> THEN One(<<>>, <<<<"empty", c>>>>)
  ELSE UNION {Cat(Cat(One(<<>>, <<<<"open", c>>>>), EncFrom(c, fv, d, 1)),
                  One(<<>>, <<<<"close">>>>)) : fv \in FlagValues(c)}

EncType(t, d) ==
  CASE t.k = "int" -> {<<<<w>>, <<<<"int", w>>>>>> : w \in IntVals}
    [] t.k = "long" -> {<<<<w1, w2>>, <<<<"long", w1, w2>>>>>> : w1, w2 \in IntVals}
    [] t.k = "boxed" -> UNION {Cat(One(<<c>>, <<>>), EncCons(c, d)) : c \in Range(Ctors[t.of])}
    [] t.k = "bare" -> EncCons(Ctors[t.of][1], d)
    [] t.k = "object" -> UNION {Cat(One(<<c>>, <<>>), EncCons(c, d)) : c \in CtorIds \cup ManualIds}

-----------------------------------------------------------------------------
VARIABLES
  input,     \* the buffer [from, end) handed to DumpToTextType
  wire,      \* the whole encoding input was cut from (history, never changes)
  expected,  \* the dump the reference pairs with input (history, never changes)
  types,     \* Types types: constructor or builtin id per frame, 0 = read tag
  vtypes,    \* Types vtypes: vector element type per frame
  stages,    \* Stages stages: next field of the frame
  flags,     \* Flags flags: the frame's flag word, as <<low, high>>
  from,      \* the read cursor, an index into input
  out,       \* DumpToTextBuffer contents, as tokens
  status     \* "running", "done" (returned true) or "error" (returned false)

vars == <<input, wire, expected, types, vtypes, stages, flags, from, out, status>>

Top(s) == s[Len(s)]
SetTop(s, v) == [s EXCEPT ![Len(s)] = v]

Init ==
  /\ \E t \in {Boxed(r) : r \in Roots} \cup {TObject} : \E e \in EncType(t, Depth) :
       /\ wire = e[1] /\ expected = e[2]
       /\ \E n \in 0 .. Len(e[1]) : input = SubSeq(e[1], 1, n)
  /\ types = <<0>> /\ vtypes = <<0>> /\ stages = <<0>> /\ flags = <<<<0, 0>>>>
  /\ from = 1
  /\ out = <<>>
  /\ status = "running"

Running == status = "running" /\ types # <<>>

(* The tag is read from the buffer when the frame's type is still 0. *)
NeedsTag == Top(types) = 0
TagReadable == from <= Len(input) /\ Top(stages) = 0
CurType == IF NeedsTag THEN input[from] ELSE Top(types)
Start == IF NeedsTag THEN from + 1 ELSE from

(* The frame needs a tag: "insufficient data" when the buffer is used    *)
(* up, "unknown type on stage > 0" when the frame is past its first stage. *)
ReadTagFails ==
  /\ Running /\ NeedsTag /\ ~TagReadable
  /\ status' = "error"
  /\ UNCHANGED <<input, wire, expected, types, vtypes, stages, flags, from, out>>

(* Mutant: the vtypes stack is not popped with the others. *)
PopFrameKeepsVtypes ==
  /\ types' = Front(types) /\ vtypes' = vtypes
  /\ stages' = Front(stages) /\ flags' = Front(flags)

(* types.pop_back(); vtypes.pop_back(); stages.pop_back(); flags.pop_back(); *)
PopFrame ==
  /\ types' = Front(types) /\ vtypes' = Front(vtypes)
  /\ stages' = Front(stages) /\ flags' = Front(flags)

(* Serialize_<c> called on a constructor without parameters. *)
SerializeEmpty(c) ==
  /\ AnalysisOf[c].prmsList = <<>>
  /\ out' = Append(out, <<"empty", c>>)
  /\ PopFrame
  /\ from' = Start
  /\ UNCHANGED <<input, wire, expected, status>>

(* Serialize_<c>, default: every field printed, the frame is popped. *)
SerializeClose(c) ==
  /\ AnalysisOf[c].prmsList # <<>>
  /\ Top(stages) >= Len(AnalysisOf[c].prmsList)
  /\ out' = Append(out, <<"close">>)
  /\ PopFrame
  /\ from' = Start
  /\ UNCHANGED <<input, wire, expected, status>>

(* Serialize_<c>, case stage: print the label of field k and either      *)
(* print YES/SKIPPED or push the field's frame.                           *)
SerializeField(c) ==
  LET an == AnalysisOf[c]
      stage == Top(stages)
      k == an.prmsList[stage + 1]
      iflag == Top(flags)
      head == (IF stage = 0 THEN <<<<"open", c>>>> ELSE <<>>) \o <<<<"label", k>>>>
      wide == an.hasFlags64 # ""
      isWord == k = an.hasFlags
      wordsOk == IF wide THEN Start + 1 <= Len(input) ELSE Start <= Len(input)
      frameFlag == IF ~isWord THEN iflag
                   ELSE IF wide THEN Flag64(input[Start], input[Start + 1])
                   ELSE Flag32(input[Start])
      present == k \notin DOMAIN an.conditions \/ HasBit(iflag, an.conditions[k])
      tys == SetTop(types, CurType)
  IN
  /\ stage < Len(an.prmsList)
  /\ from' = Start
  /\ UNCHANGED <<input, wire, expected>>
  /\ IF isWord /\ ~wordsOk
     THEN /\ status' = "error"
          /\ out' = out \o head
          /\ UNCHANGED <<types, vtypes, stages, flags>>
     ELSE
     /\ UNCHANGED status
     /\ IF IsTrivial(an, k) \/ ~present
        THEN /\ out' = out \o head \o
                  <<IF IsTrivial(an, k) /\ present THEN <<"yes">> ELSE <<"skip">>>>
             /\ types' = tys /\ UNCHANGED vtypes
             /\ stages' = SetTop(stages, stage + 1)
             /\ flags' = SetTop(flags, frameFlag)
        ELSE /\ out' = out \o head
             /\ types' = Append(tys, PushOf(an, k))
             /\ vtypes' = Append(vtypes, 0)
             /\ stages' = Append(SetTop(stages, stage + 1), 0)
             /\ flags' = Append(SetTop(flags, frameFlag), <<0, 0>>)

Serialize ==
  /\ Running
  /\ ~NeedsTag \/ TagReadable
  /\ CurType \in CtorIds
  /\ \/ SerializeEmpty(CurType)
     \/ SerializeClose(CurType)
     \/ SerializeField(CurType)

(* Serialize_rpc_result and Serialize_core_message (1351-1400): at a      *)
(* stage below the field count, print the label and push the field's type *)
(* with a zero flag; at "default", print "}" and pop the frame.  The       *)
(* frame's own flag word is left alone.                                    *)
SerializeManual ==
  LET stage == Top(stages)
      fs == Manual[CurType]
      head == IF stage = 0 THEN <<<<"open", CurType>>>> ELSE <<>>
  IN
  /\ Running
  /\ ~NeedsTag \/ TagReadable
  /\ CurType \in ManualIds
  /\ from' = Start
  /\ IF stage < Len(fs)
     THEN /\ out' = out \o head \o <<<<"label", fs[stage + 1][1]>>>>
          /\ types' = Append(SetTop(types, CurType), fs[stage + 1][2])
          /\ vtypes' = Append(vtypes, 0)
          /\ stages' = Append(SetTop(stages, stage + 1), 0)
          /\ flags' = Append(flags, <<0, 0>>)
     ELSE /\ out' = out \o head \o <<<<"close">>>>
          /\ PopFrame
  /\ UNCHANGED <<input, wire, expected, status>>

(* DumpToTextCore: a builtin value of one or two words (its source is   *)
(* not part of this repository).                                         *)
Width(t) == IF t \in {IntId, FlagsId} THEN 1 ELSE 2
CoreToken(t, p) ==
  CASE t = IntId -> <<"int", input[p]>>
    [] t = FlagsId -> <<"flags", input[p]>>
    [] t = LongId -> <<"long", input[p], input[p + 1]>>
    [] t = Flags64Id -> <<"flags64", input[p], input[p + 1]>>

(* Mutant: DumpToTextCore returns without reading or failing on a value  *)
(* cut short, and the loop calls it again on the same frame.               *)
CoreDumpSpins ==
  /\ Running
  /\ ~NeedsTag \/ TagReadable
  /\ CurType \notin CtorIds \cup ManualIds
  /\ IF CurType \in Builtins /\ Start + Width(CurType) - 1 <= Len(input)
     THEN /\ out' = Append(out, CoreToken(CurType, Start))
          /\ from' = Start + Width(CurType)
          /\ PopFrame
          /\ UNCHANGED <<input, wire, expected, status>>
     ELSE UNCHANGED vars

CoreDump ==
  /\ Running
  /\ ~NeedsTag \/ TagReadable
  /\ CurType \notin CtorIds \cup ManualIds
  /\ IF CurType \in Builtins /\ Start + Width(CurType) - 1 <= Len(input)
     THEN /\ out' = Append(out, CoreToken(CurType, Start))
          /\ from' = Start + Width(CurType)
          /\ PopFrame
          /\ UNCHANGED <<input, wire, expected, status>>
     ELSE /\ status' = "error"
          /\ UNCHANGED <<input, wire, expected, types, vtypes, stages, flags, from, out>>

(* The while loop ends with an empty stack: return true. *)
Finish ==
  /\ status = "running" /\ types = <<>>
  /\ status' = "done"
  /\ UNCHANGED <<input, wire, expected, types, vtypes, stages, flags, from, out>>

(* After return the program has stopped. *)
Returned ==
  /\ status \in {"done", "error"}
  /\ UNCHANGED vars

Next ==
  \/ ReadTagFails
  \/ Serialize
  \/ SerializeManual
  \/ CoreDump
  \/ Finish
  \/ Returned

(* DumpToTextType is one call on one thread: while it has not returned,  *)
(* the loop takes its next iteration.                                      *)
Spec == Init /\ [][Next]_vars /\ WF_vars(Next)

-----------------------------------------------------------------------------
Int32 == MinInt32 .. 2147483647

(* Type invariant; the four stacks DumpToTextType keeps move together,    *)
(* one entry per open frame.                                               *)
TypeOK ==
  /\ types \in Seq(CtorIds \cup ManualIds \cup Builtins \cup {0})
  /\ Len(vtypes) = Len(types) /\ Len(stages) = Len(types) /\ Len(flags) = Len(types)
  /\ stages \in Seq(Nat)
  /\ flags \in Seq(Int32 \X Int32)
  /\ from \in 1 .. Len(input) + 1
  /\ status \in {"running", "done", "error"}

(* The dump of a TL buffer prints what the buffer holds field by field   *)
(* (conditional fields present iff their flag bit is set) and nothing     *)
(* else; DumpToTextType returns false only when the buffer is cut short,   *)
(* and returns true only for the whole value, having consumed all of it:  *)
(* DumpToTextType and the Serialize_* stage functions agree with the TL   *)
(* wire layout.                                                            *)
DumpFaithful ==
  /\ IsPrefix(out, expected)
  /\ status = "error" => input # wire
  /\ status = "done" => input = wire /\ out = expected /\ from = Len(input) + 1

(* DumpToTextType returns: the while loop over the stacks ends, with true *)
(* or false, for every buffer however it is cut, including values nested  *)
(* inside rpc_result and core_message.                                     *)
Terminates == <>(status \in {"done", "error"})


=============================================================================
