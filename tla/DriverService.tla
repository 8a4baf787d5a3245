--------------------------- MODULE DriverService ----------------------------
(***************************************************************************)
(* The driver service: RegisterDriverHandler (driver/handlers.cpp).        *)
(***************************************************************************)
EXTENDS Requests

\* The body is no JSON (FromString throws) or lacks a field, or it is parsed.
RegisterAdmit(r) ==
    /\ At(r, "register", "admit")
    /\ \/ \E code \in {400, 500} : Answer(r, code)
       \/ Goto(r, "exec")
    /\ UNCHANGED <<db, past, cache>>

\* INSERT ... RETURNING yields the row or throws: the branch that answers 409
\* on an empty result is never taken.  The answer may be lost on its way back
\* after the row is committed.
RegisterExec(r) ==
    /\ At(r, "register", "exec")
    /\ \/ /\ RegisterDriver(req[r].user)
          /\ \/ Answer(r, 201)
             \/ Faulty /\ Answer(r, 500)
       \/ /\ DuplicateDriver(req[r].user)
          /\ Answer(r, 500)
          /\ UNCHANGED <<db, past>>
    /\ UNCHANGED cache

DriverServiceStep(r) == RegisterAdmit(r) \/ RegisterExec(r)
=============================================================================
