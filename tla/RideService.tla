---------------------------- MODULE RideService -----------------------------
(***************************************************************************)
(* The ride service: the five handlers of ride/handlers.cpp, one operator  *)
(* per await of a handler.  The rate limiter is module RateLimiter; here a *)
(* request is admitted or turned away.                                     *)
(***************************************************************************)
EXTENDS Requests

-----------------------------------------------------------------------------
\* CreateRideHandler

\* 429 from the limiter, 400 for missing addresses, 500 for a body that is no
\* JSON.
CreateAdmit(r) ==
    /\ At(r, "create", "admit")
    /\ \/ \E code \in {429, 400, 500} : Answer(r, code)
       \/ Goto(r, "exec")
    /\ UNCHANGED <<db, past, cache>>

\* Mutant: an INSERT whose answer is lost is sent again.
CreateExecRetrying(r) ==
    /\ At(r, "create", "exec")
    /\ \E i \in RideIds :
         /\ CreateRide(req[r].user, i)
         /\ \/ AnswerRide(r, 201, i)
            \/ Faulty /\ UNCHANGED req
    /\ UNCHANGED cache

\* The INSERT, and the end of the handler: no key is deleted.  The answer may
\* be lost on its way back after the row is committed.
CreateExec(r) ==
    /\ At(r, "create", "exec")
    /\ \E i \in RideIds :
         /\ CreateRide(req[r].user, i)
         /\ \/ AnswerRide(r, 201, i)
            \/ Faulty /\ Answer(r, 500)
    /\ UNCHANGED cache

-----------------------------------------------------------------------------
\* ListActiveRidesHandler

\* 400 for another status argument, 429 from the limiter.
ListAdmit(r) ==
    /\ At(r, "list", "admit")
    /\ \/ \E code \in {400, 429} : Answer(r, code)
       \/ Goto(r, "cache")
    /\ UNCHANGED <<db, past, cache>>

ListCache(r) ==
    /\ At(r, "list", "cache")
    /\ \E found \in {cache, NoList} :
         /\ Get(found)
         /\ IF found # NoList THEN AnswerWith(r, 200, found) ELSE Goto(r, "query")
    /\ UNCHANGED <<db, past>>

\* The list is read here and stored by a later step.
ListQuery(r) ==
    /\ At(r, "list", "query")
    /\ \E s \in Visible : GotoWith(r, "store", ListActiveRides(s))
    /\ UNCHANGED <<db, past, cache>>

ListStore(r) ==
    /\ At(r, "list", "store")
    /\ Set(req[r].seen)
    /\ Answer(r, 200)
    /\ UNCHANGED <<db, past>>

-----------------------------------------------------------------------------
\* AcceptRideHandler

\* Mutant: the handler does not look whether a driver was found.
AcceptDriverUnchecked(r) ==
    /\ At(r, "accept", "driver")
    /\ \E s \in Visible : GotoAs(r, "exec", GetDriverByUserId(s, req[r].user))
    /\ UNCHANGED <<db, past, cache>>

AcceptDriver(r) ==
    /\ At(r, "accept", "driver")
    /\ \E s \in Visible :
         LET driver == GetDriverByUserId(s, req[r].user) IN
         IF driver = NoId THEN Answer(r, 403) ELSE GotoAs(r, "exec", driver)
    /\ UNCHANGED <<db, past, cache>>

AcceptExec(r) ==
    /\ At(r, "accept", "exec")
    /\ \/ AcceptRide(req[r].ride, req[r].driver) /\ Goto(r, "del")
       \/ ~CanAccept(req[r].ride) /\ Answer(r, 400) /\ UNCHANGED <<db, past>>
    /\ UNCHANGED cache

\* Mutant: the key is not deleted.
AcceptNoDel(r) ==
    /\ At(r, "accept", "del")
    /\ Goto(r, "reply")
    /\ UNCHANGED <<db, past, cache>>

\* Redis runs the DEL; others may run before the handler goes on.
AcceptDel(r) ==
    /\ At(r, "accept", "del")
    /\ Del
    /\ Goto(r, "reply")
    /\ UNCHANGED <<db, past>>

AcceptReply(r) ==
    /\ At(r, "accept", "reply")
    /\ Answer(r, 200)
    /\ UNCHANGED <<db, past, cache>>

-----------------------------------------------------------------------------
\* CompleteRideHandler

CompleteDriver(r) ==
    /\ At(r, "complete", "driver")
    /\ \E s \in Visible :
         LET driver == GetDriverByUserId(s, req[r].user) IN
         IF driver = NoId THEN Answer(r, 403) ELSE GotoAs(r, "ride", driver)
    /\ UNCHANGED <<db, past, cache>>

\* Mutant: any driver passes the check.
CompleteAnyDriver(r) ==
    /\ At(r, "complete", "ride")
    /\ \E s \in Visible :
         IF GetRideById(s, req[r].ride) = NoRide THEN Answer(r, 403) ELSE Goto(r, "exec")
    /\ UNCHANGED <<db, past, cache>>

\* The check reads a slave, and the row may change before the update.
CompleteRideCheck(r) ==
    /\ At(r, "complete", "ride")
    /\ \E s \in Visible :
         LET ride == GetRideById(s, req[r].ride) IN
         IF ride = NoRide \/ ride.driver # req[r].driver
         THEN Answer(r, 403)
         ELSE Goto(r, "exec")
    /\ UNCHANGED <<db, past, cache>>

CompleteExec(r) ==
    /\ At(r, "complete", "exec")
    /\ \/ CompleteRide(req[r].ride) /\ Goto(r, "del")
       \/ ~CanComplete(req[r].ride) /\ Answer(r, 400) /\ UNCHANGED <<db, past>>
    /\ UNCHANGED cache

CompleteDel(r) ==
    /\ At(r, "complete", "del")
    /\ Del
    /\ Goto(r, "reply")
    /\ UNCHANGED <<db, past>>

CompleteReply(r) ==
    /\ At(r, "complete", "reply")
    /\ Answer(r, 200)
    /\ UNCHANGED <<db, past, cache>>

-----------------------------------------------------------------------------
\* UserRideHistoryHandler

\* 403 when the path names another user.
HistoryAdmit(r) ==
    /\ At(r, "history", "admit")
    /\ Answer(r, 403) \/ Goto(r, "query")
    /\ UNCHANGED <<db, past, cache>>

HistoryQuery(r) ==
    /\ At(r, "history", "query")
    /\ \E s \in Visible : AnswerWith(r, 200, GetUserRideHistory(s, req[r].user))
    /\ UNCHANGED <<db, past, cache>>

RideServiceStep(r) ==
    \/ CreateAdmit(r) \/ CreateExec(r)
    \/ ListAdmit(r) \/ ListCache(r) \/ ListQuery(r) \/ ListStore(r)
    \/ AcceptDriver(r) \/ AcceptExec(r) \/ AcceptDel(r) \/ AcceptReply(r)
    \/ CompleteDriver(r) \/ CompleteRideCheck(r) \/ CompleteExec(r)
    \/ CompleteDel(r) \/ CompleteReply(r)
    \/ HistoryAdmit(r) \/ HistoryQuery(r)
=============================================================================
