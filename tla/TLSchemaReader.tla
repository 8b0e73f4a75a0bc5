--------------------------- MODULE TLSchemaReader ---------------------------
(***************************************************************************)
(* The front end of generate_tl.py: readInputs, which concatenates the     *)
(* input files (each preceded by a ---types--- marker) and takes out the   *)
(* "// LAYER N" lines, and the line loop of readAndGenerate, which tracks  *)
(* the section (types or functions), accumulates doc comments, drops       *)
(* skipped, bots-only and bad-id declarations and registers the rest in   *)
(* the enum list and in typesDict / funcsDict.                             *)
(*                                                                         *)
(* A line is abstracted to its kind; a declaration to a record of what the *)
(* line loop decides on (result type, whether its #id matches the CRC of   *)
(* its canonical form, whether name#id is a typeIdException, whether it    *)
(* declares a {X:Type} template).  Every line carries its position          *)
(* <<file, line>> so that properties can refer back to the input.          *)
(***************************************************************************)
EXTENDS Integers, Sequences, SequencesExt, FiniteSetsExt, TLC, TLCommentTags

CONSTANTS
  Alphabet,   \* the lines an input file is made of
  MaxLines,   \* MaxLines[i]: bound on the length of input file i
  NFiles,     \* number of input files on the command line
  TagNames,   \* the tags the doc comments use: description and the params
  TypeIdExceptions  \* scheme['typeIdExceptions']: <<name, hex digits>> keys

(* Lines of a .tl file. *)
Line(kd, a) == [kind |-> kd, arg |-> a]
BlankL == Line("blank", "-")
CommentL(text) == Line("comment", text)   \* a comment-only line "//<text>"
LayerL(n) == Line("layer", n)             \* "// LAYER n"
TypesL == Line("types", "-")              \* ---types---
FunctionsL == Line("functions", "-")      \* ---functions---
SkipL == Line("skip", "-")                \* a line listed in scheme['skip']
BadL == Line("bad", "-")                  \* a line the declaration regex rejects
DeclL(d) == Line("decl", d)

(* A declaration: its original name, result type, the hex digits of its  *)
(* "#id" (<<>> when it has none), the CRC32 of its canonical line, and     *)
(* whether it declares a {X:Type} template.                                *)
Decl(n, r, id, crc, tmpl) ==
  [name |-> n, restype |-> r, declared |-> id, crc |-> crc, template |-> tmpl]

Files == 1 .. NFiles
Pos == Files \X Nat

VARIABLES
  files,       \* the input files, fixed for a run
  phase,       \* "read" (readInputs), "gen" (the line loop), "done", "error"
  nextFile,    \* readInputs: next file to read
  lines,       \* the lines list, with their positions; the loop consumes it
  layer,       \* the LAYER value, last one wins
  funcsNow,    \* inside a ---functions--- section
  accumulated, \* accumulatedComments: positions of the comment lines in it
  attached,    \* history: comments handed to the declaration at a position
  enums,       \* enums: <<name, id>> of the registered declarations
  typesList, typesDict,  \* result types of constructors, and their constructors
  funcsList, funcsDict   \* result types of methods, and their methods

vars == <<files, phase, nextFile, lines, layer, funcsNow, accumulated, attached,
          enums, typesList, typesDict, funcsList, funcsDict>>

(* Every choice of input files within the bounds. *)
RECURSIVE Inputs(_)
Inputs(n) ==
  IF n = 0 THEN {<<>>}
  ELSE {Append(f, s) : f \in Inputs(n - 1), s \in BoundedSeq(Alphabet, MaxLines[n])}

Init ==
  /\ files \in Inputs(NFiles)
  /\ phase = "read"
  /\ nextFile = 1
  /\ lines = <<>>
  /\ layer = 0
  /\ funcsNow = FALSE
  /\ accumulated = {}
  /\ attached = <<>>
  /\ enums = <<>>
  /\ typesList = <<>> /\ typesDict = <<>>
  /\ funcsList = <<>> /\ funcsDict = <<>>

-----------------------------------------------------------------------------
(***************************************************************************)
(* readInputs: one file.  A ---types--- marker first, then every line but  *)
(* the LAYER ones, which set layer.                                        *)
(***************************************************************************)
Tagged(i) == [j \in DOMAIN files[i] |-> [line |-> files[i][j], pos |-> <<i, j>>]]
IsLayer(t) == t.line.kind = "layer"
LastLayer(i, l) ==
  LET ls == SelectSeq(files[i], LAMBDA x : x.kind = "layer") IN
  IF ls = <<>> THEN l ELSE Last(ls).arg

(* Mutants of ReadFile: the ---types--- marker not added in front of a    *)
(* file; the LAYER lines kept in the lines list.                           *)
ReadFileNoMarker ==
  /\ phase = "read"
  /\ nextFile \in Files
  /\ lines' = lines \o SelectSeq(Tagged(nextFile), LAMBDA t : ~IsLayer(t))
  /\ layer' = LastLayer(nextFile, layer)
  /\ nextFile' = nextFile + 1
  /\ UNCHANGED <<files, phase, funcsNow, accumulated, attached, enums,
                 typesList, typesDict, funcsList, funcsDict>>

ReadFileKeepsLayers ==
  /\ phase = "read"
  /\ nextFile \in Files
  /\ lines' = lines \o <<[line |-> TypesL, pos |-> <<nextFile, 0>>]>> \o Tagged(nextFile)
  /\ layer' = LastLayer(nextFile, layer)
  /\ nextFile' = nextFile + 1
  /\ UNCHANGED <<files, phase, funcsNow, accumulated, attached, enums,
                 typesList, typesDict, funcsList, funcsDict>>

ReadFile ==
  /\ phase = "read"
  /\ nextFile \in Files
  /\ lines' = lines \o <<[line |-> TypesL, pos |-> <<nextFile, 0>>]>>
                    \o SelectSeq(Tagged(nextFile), LAMBDA t : ~IsLayer(t))
  /\ layer' = LastLayer(nextFile, layer)
  /\ nextFile' = nextFile + 1
  /\ UNCHANGED <<files, phase, funcsNow, accumulated, attached, enums,
                 typesList, typesDict, funcsList, funcsDict>>

InputsRead ==
  /\ phase = "read" /\ nextFile \notin Files
  /\ phase' = "gen"
  /\ UNCHANGED <<files, nextFile, lines, layer, funcsNow, accumulated, attached,
                 enums, typesList, typesDict, funcsList, funcsDict>>

-----------------------------------------------------------------------------
(***************************************************************************)
(* The line loop of readAndGenerate, one action per kind of line.          *)
(***************************************************************************)
Cur == Head(lines)
Gen(kd) == phase = "gen" /\ lines # <<>> /\ Cur.line.kind = kd
Registry == <<enums, typesList, typesDict, funcsList, funcsDict>>

(* Mutant: a ---types--- marker does not leave the functions section. *)
SectionMarkerSticky ==
  /\ Gen("functions") \/ Gen("types")
  /\ funcsNow' = (funcsNow \/ Cur.line.kind = "functions")
  /\ lines' = Tail(lines)
  /\ UNCHANGED <<files, phase, nextFile, layer, accumulated, attached, Registry>>

SectionMarker ==
  /\ Gen("functions") \/ Gen("types")
  /\ funcsNow' = (Cur.line.kind = "functions")
  /\ lines' = Tail(lines)
  /\ UNCHANGED <<files, phase, nextFile, layer, accumulated, attached, Registry>>

(* A blank line resets the comments; a comment-only line adds to them. *)
BlankLine ==
  /\ Gen("blank")
  /\ accumulated' = {}
  /\ lines' = Tail(lines)
  /\ UNCHANGED <<files, phase, nextFile, layer, funcsNow, attached, Registry>>

CommentLine ==
  /\ Gen("comment")
  /\ accumulated' = IF Cur.line.arg = <<>> THEN accumulated ELSE accumulated \cup {Cur.pos}
  /\ lines' = Tail(lines)
  /\ UNCHANGED <<files, phase, nextFile, layer, funcsNow, attached, Registry>>

SkipLine ==
  /\ Gen("skip")
  /\ lines' = Tail(lines)
  /\ UNCHANGED <<files, phase, nextFile, layer, funcsNow, accumulated, attached, Registry>>

BadLine ==
  /\ Gen("bad")
  /\ phase' = "error"
  /\ UNCHANGED <<files, nextFile, lines, layer, funcsNow, accumulated, attached, Registry>>

(* accumulatedComments: the texts of the comment lines at the given        *)
(* positions, in input order, each after a blank.                          *)
InputOrder(a, b) == a[1] < b[1] \/ (a[1] = b[1] /\ a[2] < b[2])
Comments(ps) ==
  FoldLeft(LAMBDA acc, p : acc \o <<Space>> \o files[p[1]][p[2]].arg,
           <<>>, SetToSortSeq(ps, InputOrder))

(* The comments handed to a declaration make it "for bots only". *)
BotsOnly(ps) == IsBotsOnlyLine(Comments(ps))

(* The id check (400-428).  typeid: the declared digits after the '#' and *)
(* the leading zeros; countTypeId: hex() of the CRC without "0x".  A       *)
(* declared id that differs from the counted one keeps the declaration    *)
(* only when name#typeid is an exception; no declared id takes the count.  *)
StripZeros(s) ==
  LET nz == {i \in DOMAIN s : s[i] # 0}
  IN IF nz = {} THEN <<>> ELSE SubSeq(s, Min(nz), Len(s))
RECURSIVE HexDigits(_)
HexDigits(n) == IF n < 16 THEN <<n>> ELSE Append(HexDigits(n \div 16), n % 16)
(* The value of the literal '0x' + digits in the enum. *)
HexValue(ds) == FoldLeft(LAMBDA acc, x : 16 * acc + x, 0, ds)

(* Mutant: the leading zeros are kept, so the exception key is name#0... *)
IdCheckZeros(d) ==
  LET typeid == d.declared
      counted == HexDigits(d.crc)
  IN IF typeid = <<>> THEN [kept |-> TRUE, id |-> counted]
     ELSE [kept |-> typeid = counted \/ <<d.name, typeid>> \in TypeIdExceptions, id |-> typeid]

IdCheck(d) ==
  LET typeid == StripZeros(d.declared)
      counted == HexDigits(d.crc)
  IN IF typeid = <<>> THEN [kept |-> TRUE, id |-> counted]
     ELSE [kept |-> typeid = counted \/ <<d.name, typeid>> \in TypeIdExceptions, id |-> typeid]

AddTo(list, dict, key, entry) ==
  IF key \in DOMAIN dict
  THEN <<list, [dict EXCEPT ![key] = Append(@, entry)]>>
  ELSE <<Append(list, key), (key :> <<entry>>) @@ dict>>

Declaration ==
  LET d == Cur.line.arg
      entry == [decl |-> d, pos |-> Cur.pos]
      kept == ~BotsOnly(accumulated) /\ IdCheck(d).kept
      asType == AddTo(typesList, typesDict, d.restype, entry)
      asFunc == AddTo(funcsList, funcsDict, d.restype, entry)
  IN
  /\ Gen("decl")
  /\ accumulated' = {}
  /\ attached' = (Cur.pos :> accumulated) @@ attached
  /\ lines' = Tail(lines)
  /\ enums' = IF kept THEN Append(enums, <<d.name, HexValue(IdCheck(d).id)>>) ELSE enums
  /\ IF kept /\ funcsNow
     THEN /\ funcsList' = asFunc[1] /\ funcsDict' = asFunc[2]
          /\ UNCHANGED <<typesList, typesDict>>
     ELSE IF kept /\ ~d.template
     THEN /\ typesList' = asType[1] /\ typesDict' = asType[2]
          /\ UNCHANGED <<funcsList, funcsDict>>
     ELSE UNCHANGED <<typesList, typesDict, funcsList, funcsDict>>
  /\ UNCHANGED <<files, phase, nextFile, layer, funcsNow>>

LinesDone ==
  /\ phase = "gen" /\ lines = <<>>
  /\ phase' = "done"
  /\ UNCHANGED <<files, nextFile, lines, layer, funcsNow, accumulated, attached, Registry>>

Stopped ==
  /\ phase \in {"done", "error"}
  /\ UNCHANGED vars

Next ==
  \/ ReadFile \/ InputsRead
  \/ SectionMarker \/ BlankLine \/ CommentLine \/ SkipLine \/ BadLine
  \/ Declaration \/ LinesDone
  \/ Stopped

Spec == Init /\ [][Next]_vars

-----------------------------------------------------------------------------
(***************************************************************************)
(* Reference definitions over the input files.                             *)
(***************************************************************************)
(* The section a line of file i is in: each file starts in the types      *)
(* section; a marker line switches it.                                     *)
SectionOf(pos) ==
  LET i == pos[1]
      ms == {m \in 1 .. pos[2] - 1 : files[i][m].kind \in {"types", "functions"}}
  IN
  IF ms = {} THEN "types" ELSE files[i][Max(ms)].kind

(* The comment lines directly above the line at pos: a run of comment     *)
(* (and LAYER) lines in the same file that ends on the line before it.    *)
Block(pos) ==
  LET i == pos[1]
      CommentOrLayer(m) == files[i][m].kind \in {"comment", "layer"}
  IN {<<i, m>> : m \in {m \in 1 .. pos[2] - 1 :
                           /\ files[i][m].kind = "comment"
                           /\ files[i][m].arg # <<>>
                           /\ \A m2 \in m .. pos[2] - 1 : CommentOrLayer(m2)}}

(* Every declaration line of the input, in command line and file order. *)
AllEntries ==
  LET ds(i) == SelectSeq(Tagged(i), LAMBDA t : t.line.kind = "decl") IN
  FlattenSeq([i \in Files |->
     [k \in DOMAIN ds(i) |-> [decl |-> ds(i)[k].line.arg, pos |-> ds(i)[k].pos]]])

(* What the loop decided for a declaration, given the comments it got. *)
(* The id check as spec 4.3 and 6.1 state it: a declared id is a number  *)
(* that must equal the CRC, unless name#<its hex> is an exception; the     *)
(* enum carries the declared id, or the CRC when none is declared.         *)
DocumentedId(d) ==
  IF d.declared = <<>> THEN [kept |-> TRUE, val |-> d.crc]
  ELSE [kept |-> \/ HexValue(d.declared) = d.crc
                 \/ <<d.name, HexDigits(HexValue(d.declared))>> \in TypeIdExceptions,
        val |-> HexValue(d.declared)]

(* Bots-only as the tag language says (TLCommentTags), not as             *)
(* endsWithForTag computes it.                                             *)
Kept(e) ==
  /\ ~DocumentedBotsOnly(Comments(attached[e.pos]), TagNames)
  /\ DocumentedId(e.decl).kept
InSection(sect) ==
  SelectSeq(AllEntries, LAMBDA e : e.pos \in DOMAIN attached /\ Kept(e) /\ SectionOf(e.pos) = sect)
ExpectedTypes == SelectSeq(InSection("types"), LAMBDA e : ~e.decl.template)
ExpectedFuncs == InSection("functions")

FirstSeen(es) ==
  FoldLeft(LAMBDA acc, e : IF e.decl.restype \in Range(acc) THEN acc ELSE Append(acc, e.decl.restype),
           <<>>, es)
(* dict holds, per result type, the entries of es with that result type. *)
GroupedAs(dict, es) ==
  /\ DOMAIN dict = Range(FirstSeen(es))
  /\ \A r \in DOMAIN dict : dict[r] = SelectSeq(es, LAMBDA e : e.decl.restype = r)

-----------------------------------------------------------------------------
(* Type invariant; the lines list never holds a LAYER line, which          *)
(* readInputs consumes.                                                    *)
TypeOK ==
  /\ phase \in {"read", "gen", "done", "error"}
  /\ funcsNow \in BOOLEAN
  /\ accumulated \subseteq Pos
  /\ layer \in Nat
  /\ \A k \in DOMAIN lines : lines[k].pos \in Pos /\ ~IsLayer(lines[k])

(* When the generator finishes, typesDict holds, per result type and in   *)
(* input order, exactly the constructors of the types sections that keep  *)
(* their id (it equals the CRC, or name#id is a typeIdException), are not *)
(* for bots only by the text of their @description tag, and are not      *)
(* templates; funcsDict the same for methods of the functions sections;   *)
(* every kept declaration got one enum constant, whose value is its        *)
(* declared id (the CRC when it declares none); and each file began in    *)
(* the types section whatever section the previous file ended in.         *)
RegistryMatchesInput ==
  phase = "done" =>
    /\ typesList = FirstSeen(ExpectedTypes)
    /\ GroupedAs(typesDict, ExpectedTypes)
    /\ funcsList = FirstSeen(ExpectedFuncs)
    /\ GroupedAs(funcsDict, ExpectedFuncs)
    /\ enums = LET ks == SelectSeq(AllEntries, Kept) IN
               [k \in DOMAIN ks |-> <<ks[k].decl.name, DocumentedId(ks[k].decl).val>>]

(* Every declaration is read with the doc comments written directly above *)
(* it, and only those: spec 4.1 pairs a comment with the next non-blank   *)
(* schema line.                                                            *)
CommentsOwn ==
  \A pos \in DOMAIN attached : attached[pos] = Block(pos)

=============================================================================
