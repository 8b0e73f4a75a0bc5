----------------------------- MODULE TLWireRead -----------------------------
(***************************************************************************)
(* What reading one object from a buffer of words promises, in one step:   *)
(* when the buffer holds the object's whole wire form, the read succeeds,  *)
(* consumes exactly that form and yields every field's value; otherwise    *)
(* it fails.  The buffer is the wire form of some object, cut anywhere.    *)
(***************************************************************************)
EXTENDS TLWireSchema

VARIABLES
  ctor,     \* the constructor (fixed)
  obj,      \* the object the buffer encodes (fixed)
  buf,      \* the words handed to the reader (fixed)
  result,   \* "pending", "ok" or "fail"
  consumed, \* the words the read took
  value     \* the field values it yields

wvars == <<ctor, obj, buf, result, consumed, value>>

Init ==
  /\ ctor \in Schemas
  /\ obj \in Objects(ctor)
  /\ \E n \in 0 .. Len(Encode(ctor, obj)) : buf = SubSeq(Encode(ctor, obj), 1, n)
  /\ result = "pending"
  /\ consumed = 0
  /\ value = <<>>

Read ==
  /\ result = "pending"
  /\ IF buf = Encode(ctor, obj)
     THEN /\ result' = "ok"
          /\ consumed' = Len(buf)
          /\ value' = [k \in ValueFields(ctor) |-> ValueOf(ctor, obj, k)]
     ELSE result' = "fail" /\ UNCHANGED <<consumed, value>>
  /\ UNCHANGED <<ctor, obj, buf>>

Spec == Init /\ [][Read]_wvars

=============================================================================
