-------------------------- MODULE TLOutputWriter ---------------------------
(***************************************************************************)
(* The end of readAndGenerate: every output file is read back and written  *)
(* only when its text differs from the generated one (open(.., 'w')        *)
(* truncates, then write fills it), in a fixed order; the .timestamp file  *)
(* is written last, always.  The build reruns the generator while the      *)
(* timestamp is older than the inputs.  The process can stop at any point  *)
(* (killed, or an exception from a write), at most MaxCrashes times.       *)
(*                                                                         *)
(* A file is "old" (absent, or the text of an earlier schema), "partial"   *)
(* (truncated or partly written) or "new" (the text this schema gives).    *)
(***************************************************************************)
EXTENDS Naturals, Sequences, SequencesExt

CONSTANTS
  WriteConversion,     \* 'conversion' in scheme
  WriteSerialization,  \* 'dumpToText' in scheme
  MaxCrashes           \* bound on interrupted runs

(* The files in the order the code writes them. *)
Outputs ==
  <<"h", "cpp">>
  \o (IF WriteConversion THEN <<"conv-from.h", "conv-to.h", "conv-from.cpp", "conv-to.cpp">>
      ELSE <<>>)
  \o (IF WriteSerialization THEN <<"dump.h", "dump.cpp">> ELSE <<>>)

N == Len(Outputs)
Files == ToSet(Outputs)
Texts == {"old", "partial", "new"}
Idle == 0   \* no generator process running

VARIABLES
  disk,      \* disk[f]: what file f holds
  ts,        \* the timestamp: "stale" (older than the inputs) or "fresh"
  pc,        \* Idle, or the index of the next file, N + 1 for the timestamp
  opened,    \* file pc has been opened for writing (truncated), not yet written
  crashes    \* interrupted runs so far

vars == <<disk, ts, pc, opened, crashes>>

Init ==
  /\ disk \in [Files -> Texts]
  /\ ts = "stale"
  /\ pc = Idle
  /\ opened = FALSE
  /\ crashes = 0

Cur == Outputs[pc]
Writing == pc # Idle /\ pc <= N

(* The build runs the generator: the timestamp is older than the inputs. *)
BuildRuns ==
  /\ pc = Idle /\ ts = "stale"
  /\ pc' = 1
  /\ UNCHANGED <<disk, ts, opened, crashes>>

(* Mutant: a file that exists is left alone, whatever it holds. *)
KeepIfExistsSkip ==
  /\ Writing /\ ~opened
  /\ disk[Cur] # "old"
  /\ pc' = pc + 1
  /\ UNCHANGED <<disk, ts, opened, crashes>>

(* already == new text: the file is not opened. *)
KeepSkip ==
  /\ Writing /\ ~opened
  /\ disk[Cur] = "new"
  /\ pc' = pc + 1
  /\ UNCHANGED <<disk, ts, opened, crashes>>

(* already != new text: open(.., 'w') truncates the file. *)
Open ==
  /\ Writing /\ ~opened
  /\ disk[Cur] # "new"
  /\ disk' = [disk EXCEPT ![Cur] = "partial"]
  /\ opened' = TRUE
  /\ UNCHANGED <<ts, pc, crashes>>

(* Mutant: the file stays open after the write. *)
WriteKeepsOpen ==
  /\ Writing /\ opened
  /\ disk' = [disk EXCEPT ![Cur] = "new"]
  /\ pc' = pc + 1
  /\ UNCHANGED <<ts, crashes, opened>>

(* out.write(text) completes, and the with block closes the file. *)
Write ==
  /\ Writing /\ opened
  /\ disk' = [disk EXCEPT ![Cur] = "new"]
  /\ opened' = FALSE
  /\ pc' = pc + 1
  /\ UNCHANGED <<ts, crashes>>

(* The timestamp, written on every run that gets this far. *)
Timestamp ==
  /\ pc = N + 1
  /\ ts' = "fresh"
  /\ pc' = Idle
  /\ UNCHANGED <<disk, opened, crashes>>

(* The process stops between two steps. *)
Crash ==
  /\ pc # Idle /\ crashes < MaxCrashes
  /\ pc' = Idle
  /\ opened' = FALSE
  /\ crashes' = crashes + 1
  /\ UNCHANGED <<disk, ts>>

Done ==
  /\ pc = Idle /\ ts = "fresh"
  /\ UNCHANGED vars

Generator == KeepSkip \/ Open \/ Write \/ Timestamp

Next == BuildRuns \/ Generator \/ Crash \/ Done

(* A started process keeps running until it stops or crashes, and the     *)
(* build reruns the generator while the timestamp is stale.                *)
Spec == Init /\ [][Next]_vars /\ WF_vars(Generator) /\ WF_vars(BuildRuns)

-----------------------------------------------------------------------------
(* Type invariant; only a running generator has a file open. *)
TypeOK ==
  /\ opened => Writing
  /\ disk \in [Files -> Texts]
  /\ ts \in {"stale", "fresh"}
  /\ pc \in 0 .. N + 1
  /\ crashes \in 0 .. MaxCrashes

(* Whenever the timestamp is newer than the inputs, so that the build     *)
(* will not run the generator again, every output holds the text of the   *)
(* current schema: no crash leaves a truncated or outdated file behind a  *)
(* fresh timestamp.                                                        *)
FreshImpliesCurrent ==
  ts = "fresh" => \A f \in Files : disk[f] = "new"

(* However the runs before were interrupted, the build ends with every    *)
(* output current and a fresh timestamp.                                   *)
Converges ==
  <>[](ts = "fresh" /\ \A f \in Files : disk[f] = "new")

=============================================================================
