# TLA+ models of the TL schema compiler

The code modelled here is `src/Telegram/lib_tl/tl/generate_tl.py`, a
single-threaded batch program. It reads TL schema files and writes the C++ of
the MTProto object model:
- data and type classes;
- readers and writers;
- RPC method classes;
- a text-dump machine;
- optional adapters to an external object model.

All of the control lives in `readAndGenerate`. The emitted text-dump code is a
program too: the stage machine in `<output>-dump_to_text.cpp` runs on every TL
buffer the client logs. The modules cover both the generator's own control and
the emitted machine.

## Parts of the system and how they interact

These are the spec's components, C1 to C12:

1. Scheme config (C1): the scheme dict, read into locals, lines 262-323.
   The settings that drive control are constants of the modules that use
   them. These are `typeIdExceptions` and the skip lines (`TLSchemaReader`),
   `conversion` and `dumpToText` (`TLOutputWriter`), and `flagInheritance`
   (`TLFlagInheritance`).
2. Source reader (C2): `readInputs`, lines 9-23. It joins the files, puts a
   `---types---` marker in front of each, and takes out the `// LAYER N`
   lines. The line loop (359-388) then does the following:
   - it tracks `funcsNow`;
   - it accumulates doc comments, which a blank line resets;
   - it drops skipped lines and fails on bad ones;
   - it drops a declaration whose comments say `for bots only`.
3. Declaration parser and CRC check (C3, C4), lines 390-431. The declared
   id loses its `#` and its leading zeros. It is then compared with `hex()`
   of the CRC of the canonical form. A declaration whose id differs is
   dropped, unless `name#id` (the stripped id) is in `typeIdExceptions`. The
   code then keeps the declaration. A declaration without an id takes the
   CRC.
4. Parameter analyzer (C5), lines 455-547. It computes the following:
   - `prmsList` and `prms`;
   - `hasFlags` and `hasFlags64`;
   - `conditions` (bit per conditional field, +32 on the second word);
   - `trivialConditions` (`flags.N?true`);
   - nullability from comment tags.
5. Registry (C6). `enums` (453), `typesList`/`typesDict` and
   `funcsList`/`funcsDict` (755-771), in input order.
6. Emitters (C8 to C11) walk the registry. The dump emitter (C10):
   - `addTextSerialize` (26-138) writes one stage function per constructor;
   - the driver `DumpToTextType` is the text at 1423-1467.
7. Flag inheritance (C7). `parentFlagsCheck` is filled per data class
   (926-935). Then `flagInheritance` is walked (1329-1346).
8. Output writer (C12), lines 1613-1680. It writes each output file only if it
   changed, then the timestamp.

## Modules

| Module | Models | State and actions |
|---|---|---|
| `TLSchemaReader` | C2, and C3, C4, C6 as the line loop sees them | `lines`, `funcsNow`, `accumulated` (positions of the comment lines in `accumulatedComments`; `Comments` joins their texts as line 373 does), `enums` (name and id value), `typesList`, `typesDict`, `funcsList`, `funcsDict`, `layer`. Actions: `ReadFile` (one file of `readInputs`), `InputsRead`, and one action per kind of line: `SectionMarker`, `BlankLine`, `CommentLine`, `SkipLine`, `BadLine`, `Declaration`. `Declaration` drops a bots-only declaration (`BotsOnly`, computed by `TLCommentTags` on the joined text) and applies the id check `IdCheck` (`StripZeros`, `HexDigits`). |
| `TLCommentTags` | C3 (the comment tag language) | No state: `EndsWithForTag` and `IsBotsOnlyLine` over texts that are sequences of characters, with `Find` (`str.find`) and `Strip` (`str.strip`). It also holds the reference `DocumentedBotsOnly`, written from the tag grammar of the spec. |
| `TLDumpToText` | C5 (the parts the dump uses) and C10 | The constant schema is analysed by `AnalyzeParam`, a fold that follows the param loop. The state is the driver's four stacks `types`, `vtypes`, `stages` and `flags`, plus the cursor `from`, the printed tokens `out` and the return `status`. Actions: `ReadTagFails`, `Serialize` (a disjunction of `SerializeEmpty`, `SerializeClose` and `SerializeField`, the three shapes of an emitted `Serialize_<ctor>`), `SerializeManual` (the hand-written `Serialize_rpc_result` and `Serialize_core_message`, whose labels and pushed types are the table `Manual`), `CoreDump` and `Finish`. |
| `TLOutputWriter` | C12 | `disk` (each output old, partial or new), `ts` (timestamp stale or fresh), `pc` (the next file), `opened`. Actions: `BuildRuns` (the build, not the code), `KeepSkip` (already == text), `Open` (open 'w' truncates), `Write`, `Timestamp`, `Crash` (the environment, bounded by `MaxCrashes`). |
| `TLConversion` | C11, and the rows C5 builds | `v` (the rows of one type, built by `RowOf` as the analyzer builds them), `stale` (the `conditionsList` left from the last declaration), `stage`, the constructor `ci` and field `fi` being converted, and the argument lists `from` and `to`. Actions: `FromStep` (one field of `tl_from`: the switch of 845-865 for several constructors, the function of 1091-1111 for one), `FromCtorDone`, `ToStep` (`tl_to`, 1118-1139), `ToCtorDone`. The C++ text of an argument is its form: `value`, `opt` (a null-checked optional), `optvec` (a vector of optionals) or `default` (`{}`). |
| `TLWireSchema` | C5 (one constructor as the analyzer records it) and the TL wire form | No state: the constructor sets `Schemas` and `Objects`, the analyzer's `HasFlags`, `PrmsList`, `KindOf`, `BitOf`, `Trivial` and `BotsOnly`, and the wire form `Encode` of an object. Shared by the two modules below. |
| `TLWireRead` | the promise of a read | The abstract specification: `ctor`, `obj`, `buf` and one atomic `Read` that sets `result`, `consumed` and `value`. |
| `TLReadWrite` | C8 and C9 (readers and writers of data classes and RPC method classes) | `ctor` (the fields after the # word), `isFunc` (method or data class), `obj` (the object) and `buf` (a prefix of its wire form) are chosen in `Init`. The reader's state is `from` (the cursor), `i` (the next link of the `&&` chain, `MethodItems` or `DataItems`), `got` (the members) and `status`. Actions: `ReadPlain` (`_k.read(from, end)`), `ReadCond` (read when the bit is set, else default-construct), `ReadDone` (`return true`). The writer text is the operator `WriteObj`. The core's one-word `read` is modelled from the spec. `W` instantiates `TLWireRead` with the refinement mapping: `result` is `pending` while `status` is `reading`, and `consumed` and `value` are `from - 1` and `got` once the read returned true. |
| `TLBoxedRead` | the promise of a boxed read | The abstract specification: `tctors` (the type), `buf`, and one atomic `Read` that sets `result`, `consumed` and `kind`. |
| `TLTypeRead` | C8 (the type reader `T::read` and its dispatch) | `tctors` and `buf` (a tag and a prefix of a boxed form) are chosen in `Init`. The state is `from`, `cur` (the constructor chosen), `otype` (the object's `_type`), `odata` (the data object it owns, or none), `i`, `got` and `status`. `Init` takes the object from any of the type's constructors (`Constructed`): the default one (`DefaultObject`, which owns a fresh data object only for a one-constructor type with data), the by-type-id one (`ByTypeId`) and the by-data one (`ByData`), so a reused object is covered too. `ReadDone` includes the `setData(data)` of the switch line. `WriteType` is `T::write`, the switch on `_type` over the data class writers (`WriteData`). Actions: `ReadTag` (the core's boxed reader, from the spec), `Dispatch` (the switch on `cons`, or the single-constructor check), and the data object's chain `ReadPlain`, `ReadCond` and `ReadDone`. `B` instantiates `TLBoxedRead`: `result` is pending until `status` is `ok` or `fail`, and then `consumed` is `from - 1` and `kind` is the object's `type()` (`TypeOf`: `_type` for several constructors, the one id otherwise). The switch line sets `_type = cons` before the data read, so a false read leaves `_type` changed without its data; `GettersSafe` checks that `_type` and the owned data agree whenever no read runs and the last did not return false; the state after false is listed as a hazard, since callers drop the object. |
| `TLFlagInheritance` | C7 | `check` is `parentFlagsCheck`. `orig`, `order` and `parentOf` are the constant schema, chosen in `Init`. Actions: `Inherit` (one child of the loop), `InheritDone`. |

Abstraction choices:
- A line of a .tl file is a record of its kind.
- A declaration keeps only what the loop decides on:
  - its original name and its result type;
  - the hex digits of its declared id, and the CRC32 of its canonical line
    as a number (the CRC itself is not computed);
  - whether it is a template.
- A comment is its text after `//`, a sequence of characters. The
  reader's model spells `description` as `d` and `for bots only` as `b`. The
  continuation words (`.`, `;`, ` if`, ` to`, ` otherwise`, ` unless`) are
  spelled in full.
- In `TLDumpToText`, words are int32. The per-frame flag word is the int64 kept
  as its two int32 halves.
- The printed text is a sequence of tokens:
  - `open`, `label`, `yes` and `skip` for `YES` and `SKIPPED`;
  - `close`, `empty`, `int`, `long`, `flags` and `flags64`.

  Layout and indentation are left out.
- `DumpToTextCore` (the builtin types int, long, flags) is not in this
  repository. `Width` and `CoreToken` model it from the spec.

Each module builds its reference independently from the input:
- `TLDumpToText`: `EncType` is a TL encoder. From the schema, it builds every
  wire buffer of a root type up to nesting `Depth`, paired with the dump each
  should give. `Init` also takes every prefix of such a buffer. The roots
  include `TObject`, a boxed value of any constructor, so `rpc_result` and
  `message` (their TL declarations are `ManualDecl`) wrap any value.
- `TLSchemaReader`: `AllEntries`, `SectionOf` and `Block` compute, from the
  files, what the registry and the comments of each declaration should be.
  `DocumentedId` states the id check as spec 4.3 and 6.1 do: a declared id is
  a number equal to the CRC, or `name#<hex>` is an exception. The enum takes
  the declared id, or the CRC when none is declared. `DocumentedBotsOnly`
  (in `TLCommentTags`) states the tag language of spec 3: the text of a tag
  runs to the next tag, and a declaration is for bots only when the text of
  its first `@description` says `; for bots only`, followed by blanks or a
  continuation. The reader's properties use these definitions, not the
  code's.

## Runs

| Run | Expect | What it shows |
|---|---|---|
| `dump` | pass | The schema has Peer (`peerEmpty`; `peerUser` with flags, a trivial condition and a conditional boxed Photo), Photo (long) and User (flags, flags2 right after it, conditions on both words, a bare Photo). So is any boxed object, including `rpc_result` and `core_message` around any value. Every whole buffer is dumped exactly, and every buffer cut short ends in an error after a prefix of the right dump (`DumpFaithful`). The four stacks stay in step (`TypeOK`). The loop returns, true or false, for every buffer (`Terminates`). |
| `dump_split_flags` | violation | `chat flags:# title:flags.0?int flags2:# x:flags2.0?int`: the 64-bit flag value is read from `flags` and `title`. |
| `reader` | pass | Two files of up to 3 and 2 lines, over every kind of line: blank, three doc comment texts, two LAYER lines, both section markers, skip and bad lines, and four kinds of declaration. The comments are `@description ; for bots only`, `@description x`, and a line `x ; for bots only to` that continues a description. The declarations are an id that matches, an id with a leading zero whose mismatch is an exception, an unlisted mismatch, and a template without an id. At the end the registry holds the declarations that the tag language and the documented id check keep, and no others. Each enum constant has the declared id, or the CRC when none is declared. Types and functions are split by section, each file starts in the types section, templates are kept out of the types, and the order is the input order (`RegistryMatchesInput`). |
| `reader_comment_carry` | violation | A comment at the end of file 1 becomes the doc comment of file 2's first declaration (`CommentsOwn`). |
| `inherit` | pass | Every schema of 3 constructors with flags over {x, y} and bits {0, 1}, every inheritance table and every dict order. The map has keys for exactly the constructors with flags, each with a map of that constructor's flags (`TypeOK`). The inheritance table's deeper questions, chains and bit collisions, are the two violation runs below. |
| `writer` | pass | All eight outputs in any mix of old, truncated and current, with up to two stops at any point, including between truncation and write. A fresh timestamp always means every output is current (`FreshImpliesCurrent`). The build ends current (`Converges`). |
| `conversion` | pass | Every one-constructor type of up to two fields of any kind (string, builtin, vector, object) and tag (nullable, vector-nullable, bots-only, conditional). `tl_from` passes exactly the creator's parameters, each in the creator's form (`FromMatchesCreator`). `tl_to` passes every field of the data class in the creator's form, and `{}` for each bots-only one (`ToMatchesCreator`). |
| `readwrite` | pass | Every constructor of up to two fields (int, conditional int, trivial condition, bits 0 and 1 in any combination, shared bits included), read by a data class and by an RPC method class, every object and every prefix of its wire form. The read chain implements `TLWireRead` (`ImplementsWireRead`, the abstract `Spec` as a PROPERTY): it returns true exactly on the whole wire form, then stands right after it with every member's value, and returns false otherwise. The writer writes the wire form (`WritesWireForm`). |
| `typeread` | pass | Every abstract type of one or two constructors (ids `a`, `b`) of at most one field, every tag in front (the constructor's own, a sibling's, the foreign `z`) and every prefix of the boxed form. `T::read` behind the core's boxed reader implements `TLBoxedRead` (`ImplementsBoxedRead`). It returns true exactly on a tag of the type followed by that constructor's wire form, and stands right after it with that constructor as `type()`. It returns false for a foreign or cut tag and for a sibling's tag over data that does not parse as the sibling. The one exception is a one-constructor type without data, which is read whatever the tag. Whichever constructor made the object, after a true return (and before any read) a constructor with data that `type()` names is the one whose data the object owns, so `c_k()` passes `Expects` only when `queryData` casts the right data (`GettersSafe`). `T::write` then writes back exactly the words the read took after the tag (`RoundTrip`). |
| `conversion_multi` | violation | The same types: the `tl_from` switch reads the row one index early (lines 833-837). A bots-only field is passed, a vector of nullable elements is dropped, and a nullable object is read without a null check (`FromMatchesCreator`). |
| `inherit_chain` | violation | a -> b and c -> a, listed in that order: c's flags reach a but never b (`ChildSubsetOfParent`, the claim of the comment at line 275). |
| `inherit_collision` | violation | A child x:0 and a parent y:0 pass the check, and `mtpCastFlags` maps x onto y (`CastSafe`). |

Each property of a passing run has a mutant in `PROJECT.json`, for example:
- a `PushOf` that always pushes the 32-bit flags type;
- a `PopFrame` that leaves `vtypes` alone;
- a `DumpToTextCore` that returns without progress on a value cut short;
- a `ReadFile` without the per-file marker;
- an `EndsWithForTag` that reads a tag's text past the next `@`, and an
  `IdCheck` that keeps the leading zeros in the exception key;
- a `ReadDone` without `setData(data)`, and a data writer that writes a conditional field whatever its bit;
- an `Inherit` that creates the missing parent map.

TLC finds each mutant's property violated.

## Bounds

- `dump`: `Depth = 3` reaches a Peer inside a User inside a Peer, and a
  core_message inside an rpc_result. `IntVals =
  {0, 1}` is enough, because field values only flow through. The flag values
  range over every subset of the declared bits, which includes bit 31 in the
  high-bit schema (`MCTLDumpToText_highbit.cfg`, below). All prefixes of each buffer give every cut point, including
  one inside the two flag words.
- `reader`: 3 and 2 lines per file is the smallest bound where these all
  happen:
  - a comment, blank, declaration block;
  - a section switch followed by a declaration;
  - two LAYER lines in one file;
  - a declaration in each file;
  - two comment lines joined into one description (`@description x`, then
    the line with the ending), and two `@description` tags, where the first
    one decides.
- `writer`: three file states give every starting point. Two crashes are
  enough for a crash in a rerun that itself follows a crash.
- `conversion`: two field names give two fields with every kind and tag,
  and a leftover `conditionsList` that holds, misses or partly holds them.
  One field per constructor is enough for every effect of the index shift.
- `readwrite`: two fields and two bits give conditional fields on either bit,
  two conditions on one bit, and a trivial condition between two read fields.
  Every prefix of every wire form gives every cut point.
- `typeread`: two constructors are the fewest for the switch, and one is the
  single-constructor path. One field, of any kind and on either bit, gives a
  constructor without data, one with only a # word and a trivial condition,
  and one with data, so the 1263 check both fires and is skipped. A sibling's
  tag over the other constructor's words reads foreign data: for that reason
  `TLBoxedRead` lets fields take any word (`Words`).
- `inherit`: three constructors are the fewest for a chain. Two names and two
  bits are the fewest for both a name clash with different bits and a bit clash
  with different names.

## Fairness

`TLOutputWriter` and `TLDumpToText` have liveness properties.
`TLDumpToText` assumes weak fairness of its next-state relation.
`DumpToTextType` is one call on one thread, so it takes its next step until it
returns (`Terminates`).
`TLOutputWriter` assumes weak
fairness of the generator's steps: a running process makes progress unless it
crashes, and crashes are bounded. It also assumes weak fairness of
`BuildRuns`: the build runs the custom command again while its timestamp output
is older than the inputs.

The remaining modules have no fairness. Their properties are safety properties: invariants, and the refinement of `TLWireRead`. The generator is a sequential batch
program, so every behaviour of the model is one run of it. The models stop in a
terminal state that stutters (`Returned`, `Stopped`), so there is no deadlock to
report.

## Abstract specifications and refinement

Two readers are checked against what a read promises, not against their own
code. `TLWireRead` and `TLBoxedRead` each do a read in one atomic step.
`TLReadWrite` and `TLTypeRead` instantiate them with a refinement mapping
(`W`, `B`) and check the abstract `Spec` as a PROPERTY. So every step of the
emitted chain is a stutter of the abstract read, and the step that returns
from `read` is that read. The stutters leave the verdict pending, with nothing
consumed. The two abstract modules share the wire form (`Encode`) of
`TLWireSchema`. `TLBoxedRead` fixes no object: a sibling's tag over another
constructor's words must be judged by what the words parse as.

## Faults of the flag words

The 64-bit flag read at line 63 has two faults. `dump_split_flags` shows the
first: the high word is taken from the wrong position. The second is sign
extension: a set bit 31 in `flags` drops the high half by one. It is kept as
a hazard with a reproduction config, `MCTLDumpToText_highbit.cfg`. That config
adds `verified:flags.31?true` to `user`, and TLC then finds `DumpFaithful`
violated: `premium:flags2.0?true` prints SKIPPED.

A third fault is in the analyzer. Every `#` field not named `<hasFlags>2`
overwrites `hasFlags` (line 492). The spec (4.4) says the first `#` field is
`hasFlags`. `MCTLDumpToText_twowords.cfg` dumps
`pair#6 a:# x:a.0?int b:# y:b.0?int = Pair`. The flags stage fills
`flags.back()` only at `b`, so on the buffer `<<6, 1, 0>>` field `x` prints
SKIPPED although its bit is set, and TLC finds `DumpFaithful` violated. It is
also a hazard with a reproduction config, since `dump_split_flags` already
holds the run for this stage.

## Faults of the reader

Two reader faults have reproduction configs that TLC finds violating
`RegistryMatchesInput`. They are not runs, because every run slot is taken.
- `MCTLSchemaReader_at.cfg`: `// @description x` followed by
  `// x@x ; for bots only`. `endsWithForTag` cuts the text at any `@`
  (line 177), so the declaration is kept. By the tag language it is for bots
  only. A username such as `@BotFather` in a description does this.
- `MCTLSchemaReader_zeroid.cfg`: `z#0 = U` with CRC 1. All of the id is
  leading zeros, so the id becomes empty (line 402), and the declaration takes
  the branch for no id. It is kept with the counted CRC as its enum value, and
  no mismatch is reported.

## Not modelled, and why

- C1 is configuration only. The parts of the scheme that drive control
  (`skip`, `typeIdExceptions`, `flagInheritance`, `sections`) are constants
  of the modules that use them.
- The CRC32 itself and the canonical line (405-415) are string and checksum
  computation. A declaration carries its CRC as a number.
- The rest of C8 and C9 (class text, getters, visitors) builds C++ text
  with no control beyond the registry walk. The type's constructors are
  modelled only as the objects `T::read` may be called on (`Constructed` in
  `TLTypeRead`).
- Of the emitted readers and writers, `TLReadWrite` has the read chains and
  writers of data classes and RPC methods for one-word fields. It leaves out
  vectors, nested objects, the boxed reader and the second flags word. A
  method's chain links a bots-only field whose member the class does not
  declare (738); that code does not compile, so it is a hazard with no run. Bots-only fields are left out of the read chain (984-1011) but stay on
  the wire. With `WithBots = TRUE`, `MCTLReadWrite.cfg` shows the misparse
  this causes. It is a hazard, not a run, because the schema files are not in
  the repository.
- Of C11, only the argument lists are modelled. The rest is C++ text. The
  `tl_to` dispatch of a multi-constructor type (878-889) also reads the row one
  index early, but only to compare `len(prms)` with `len(data[7])`. Both are 0
  exactly for a constructor without fields, so the slip has no effect there.
- Not yet in the models:
  - vectors, templates and nullability tags in the analyzer and the dump;
  - the manual serializer `msg_container`, a vector of `core_message`, since
    vectors are dumped by `DumpToTextCore`, which is not in the repository.

## Plan

1. Flag enum emission: `MAX_FIELD`, bit ranges and duplicate bits.
2. Vectors (`vtypes`) and `msg_container` in `TLDumpToText`.
3. Vectors and nested objects in `TLReadWrite`.
4. The name maps of the reader (`typesDict`, `TypeConstructors`,
   `boxed`): a bare field type is resolved through `TypeConstructors`
   (line 544) only when its constructor was declared earlier, so the
   generated code depends on declaration order.
