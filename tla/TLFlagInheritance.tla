------------------------- MODULE TLFlagInheritance --------------------------
(***************************************************************************)
(* The flag-inheritance check of readAndGenerate.  While the data classes  *)
(* are emitted, parentFlagsCheck gets, for every constructor with a "#"    *)
(* word, the map flag name -> bit of its conditional fields.  Then, for    *)
(* every entry child -> parent of scheme['flagInheritance'] in the order   *)
(* the scheme lists them, each flag of the child is compared with the      *)
(* parent's flag of the same name (a different bit raises), or copied into *)
(* the parent's map; an mtpCastFlags(child) -> parent is emitted, a        *)
(* static_cast of the child's flag bits to the parent's Flag type.         *)
(*                                                                         *)
(* The schema (which constructors have flags and with which bits, and the  *)
(* inheritance table with its order) is chosen in Init and never changes.  *)
(***************************************************************************)
EXTENDS Integers, Sequences, SequencesExt, FiniteSetsExt

CONSTANTS
  Ctors,   \* data constructor names
  Names,   \* conditional field names
  Bits     \* flag bits

(* A constructor's flags: a partial map from field name to bit. *)
FlagMaps == UNION {[D -> Bits] : D \in SUBSET Names}

VARIABLES
  orig,      \* the flags each constructor with a "#" word declares (fixed)
  order,     \* the children of flagInheritance, in dict order (fixed)
  parentOf,  \* flagInheritance[child] (fixed)
  check,     \* parentFlagsCheck
  pc,        \* index into order of the next child
  status     \* "merging", "done", "keyerror" (KeyError), "mismatch" (ValueError)

vars == <<orig, order, parentOf, check, pc, status>>

(* parentFlagsCheck[name] = {conditional field -> bit}, filled for every   *)
(* constructor that has a flags word, before the inheritance loop.         *)
Init ==
  /\ orig \in UNION {[F -> FlagMaps] : F \in SUBSET Ctors}
  /\ order \in UNION {SetToSeqs(S) : S \in SUBSET Ctors}
  /\ parentOf \in {f \in [ToSet(order) -> Ctors] : \A c \in ToSet(order) : f[c] # c}
  /\ check = orig
  /\ pc = 1
  /\ status = "merging"

Child == order[pc]
Parent == parentOf[Child]
Shared == DOMAIN check[Child] \cap DOMAIN check[Parent]

(* Mutant: a parent without a flags word gets an empty map on first use  *)
(* instead of raising.                                                     *)
InheritCreates ==
  /\ status = "merging" /\ pc <= Len(order)
  /\ pc' = pc + 1
  /\ UNCHANGED <<orig, order, parentOf>>
  /\ IF Child \notin DOMAIN check
     THEN status' = "keyerror" /\ UNCHANGED check
     ELSE LET pm == IF Parent \in DOMAIN check THEN check[Parent] ELSE <<>> IN
          IF \E f \in DOMAIN check[Child] \cap DOMAIN pm : check[Child][f] # pm[f]
          THEN status' = "mismatch" /\ UNCHANGED check
          ELSE /\ check' = (Parent :> (pm @@ check[Child])) @@ check
               /\ UNCHANGED status

(* One iteration of "for pureChildName in flagInheritance".  The child's  *)
(* map is read first (KeyError when it has no flags word); the parent's   *)
(* map only when the child has a flag (KeyError when it has none).  A     *)
(* flag of the same name with another bit raises; a missing one is copied *)
(* into the parent's map.  The emitted mtpCastFlags is not state.         *)
Inherit ==
  /\ status = "merging" /\ pc <= Len(order)
  /\ pc' = pc + 1
  /\ UNCHANGED <<orig, order, parentOf>>
  /\ IF Child \notin DOMAIN check
        \/ (DOMAIN check[Child] # {} /\ Parent \notin DOMAIN check)
     THEN status' = "keyerror" /\ UNCHANGED check
     ELSE IF DOMAIN check[Child] = {}
     THEN UNCHANGED <<check, status>>
     ELSE IF \E f \in Shared : check[Child][f] # check[Parent][f]
     THEN status' = "mismatch" /\ UNCHANGED check
     ELSE /\ check' = [check EXCEPT ![Parent] = @ @@ check[Child]]
          /\ UNCHANGED status

InheritDone ==
  /\ status = "merging" /\ pc > Len(order)
  /\ status' = "done"
  /\ UNCHANGED <<orig, order, parentOf, check, pc>>

Stopped ==
  /\ status # "merging"
  /\ UNCHANGED vars

Next == Inherit \/ InheritDone \/ Stopped

Spec == Init /\ [][Next]_vars

-----------------------------------------------------------------------------
Pairs == {<<c, parentOf[c]>> : c \in ToSet(order)}

(* Type invariant; parentFlagsCheck has a map for exactly the             *)
(* constructors that declare a flags word.                                 *)
TypeOK ==
  /\ DOMAIN check = DOMAIN orig
  /\ \A c \in DOMAIN check : check[c] \in FlagMaps
  /\ pc \in 1 .. Len(order) + 1
  /\ status \in {"merging", "done", "keyerror", "mismatch"}

(* The comment at parentFlagsCheck: "each key flag of parentFlags should  *)
(* be a subset of the value flag here" -- after the loop, the map of each *)
(* child is contained in its parent's map, also along chains.             *)
ChildSubsetOfParent ==
  status = "done" =>
    \A <<c, p>> \in Pairs : c \in DOMAIN check /\ p \in DOMAIN check =>
      \A f \in DOMAIN check[c] : f \in DOMAIN check[p] /\ check[p][f] = check[c][f]

(* The comment in the loop: "as long as flags don't collide this is not a *)
(* problem" -- when the loop passes, no bit of a child is a bit of another *)
(* flag of its parent, so mtpCastFlags never turns one flag into another. *)
CastSafe ==
  status = "done" =>
    \A <<c, p>> \in Pairs : c \in DOMAIN orig /\ p \in DOMAIN orig =>
      \A f \in DOMAIN orig[c], g \in DOMAIN orig[p] : orig[c][f] = orig[p][g] => f = g

=============================================================================
