--------------------------- MODULE BackendProofs ----------------------------
(***************************************************************************)
(* Theorems about Backend, for any numbers of users, drivers, rides and    *)
(* requests, with or without slaves, failing commands and dying processes. *)
(***************************************************************************)
EXTENDS Backend, TLAPS

-----------------------------------------------------------------------------
(***************************************************************************)
(* Types.                                                                  *)
(***************************************************************************)

\* An empty slot is a request.
LEMMA IdleIsRequest == Idle \in Request
BY DEF Idle, Request, Ops, Pcs, Codes

\* Only the slot of r changes, to q.
Slot(r, q) ==
    /\ req' \in [Requests -> Request]
    /\ req'[r] = q
    /\ \A other \in Requests \ {r} : req'[other] = req[other]

\* What the steps of a handler leave in the slot: it goes on,
Went(r, pc) == Slot(r, [req[r] EXCEPT !.pc = pc])

\* with the driver found,
WentAs(r, pc, d) == Slot(r, [req[r] EXCEPT !.pc = pc, !.driver = d])

\* with the list read;
WentWith(r, pc, list) == Slot(r, [req[r] EXCEPT !.pc = pc, !.seen = list])

\* or it is answered,
Done(r, code) == Slot(r, [req[r] EXCEPT !.pc = "done", !.code = code])

\* with a list,
DoneWith(r, code, list) == Slot(r, [req[r] EXCEPT !.pc = "done", !.code = code, !.seen = list])

\* with the id of the ride made.
DoneRide(r, code, i) == Slot(r, [req[r] EXCEPT !.pc = "done", !.code = code, !.ride = i])

\* A request has arrived.
Arrived(r, op, u, i, pc) == Slot(r, [Idle EXCEPT !.op = op, !.user = u, !.ride = i, !.pc = pc])

\* An update of one slot with a request is a Slot step.
LEMMA SlotOf ==
    ASSUME req \in [Requests -> Request], NEW r \in Requests, NEW q \in Request,
           req' = [req EXCEPT ![r] = q]
    PROVE  Slot(r, q)
BY DEF Slot

\* Going on to the next await.
LEMMA GotoSlot ==
    ASSUME req \in [Requests -> Request], NEW r \in Requests, NEW pc \in Pcs,
           Goto(r, pc)
    PROVE  Went(r, pc)
<1>1. [req[r] EXCEPT !.pc = pc] \in Request
  BY DEF Request
<1>2. req' = [req EXCEPT ![r] = [req[r] EXCEPT !.pc = pc]]
  BY DEF Goto
<1> QED
  BY <1>1, <1>2, SlotOf DEF Went

\* Going on with a driver.
LEMMA GotoAsSlot ==
    ASSUME req \in [Requests -> Request], NEW r \in Requests, NEW pc \in Pcs, NEW d \in DriverIds,
           GotoAs(r, pc, d)
    PROVE  WentAs(r, pc, d)
<1>1. [req[r] EXCEPT !.pc = pc, !.driver = d] \in Request
  BY DEF Request
<1>2. req' = [req EXCEPT ![r] = [req[r] EXCEPT !.pc = pc, !.driver = d]]
  BY DEF GotoAs
<1> QED
  BY <1>1, <1>2, SlotOf DEF WentAs

\* Going on with a list.
LEMMA GotoWithSlot ==
    ASSUME req \in [Requests -> Request], NEW r \in Requests, NEW pc \in Pcs, NEW list \in Views,
           GotoWith(r, pc, list)
    PROVE  WentWith(r, pc, list)
<1>1. [req[r] EXCEPT !.pc = pc, !.seen = list] \in Request
  BY DEF Request
<1>2. req' = [req EXCEPT ![r] = [req[r] EXCEPT !.pc = pc, !.seen = list]]
  BY DEF GotoWith
<1> QED
  BY <1>1, <1>2, SlotOf DEF WentWith

\* Answering without a body.
LEMMA AnswerSlot ==
    ASSUME req \in [Requests -> Request], NEW r \in Requests, NEW code \in Codes,
           Answer(r, code)
    PROVE  Done(r, code)
<1>1. PICK done \in Pcs : done = "done"
  BY DEF Pcs
<1>2. [req[r] EXCEPT !.pc = done, !.code = code] \in Request
  BY DEF Request
<1>3. req' = [req EXCEPT ![r] = [req[r] EXCEPT !.pc = done, !.code = code]]
  BY <1>1 DEF Answer
<1> QED
  BY <1>1, <1>2, <1>3, SlotOf DEF Done

\* Answering with a list of rides.
LEMMA AnswerWithSlot ==
    ASSUME req \in [Requests -> Request], NEW r \in Requests, NEW code \in Codes,
           NEW list \in Views \cup {NoList},
           AnswerWith(r, code, list)
    PROVE  DoneWith(r, code, list)
<1>1. PICK done \in Pcs : done = "done"
  BY DEF Pcs
<1>2. [req[r] EXCEPT !.pc = done, !.code = code, !.seen = list] \in Request
  BY DEF Request
<1>3. req' = [req EXCEPT ![r] = [req[r] EXCEPT !.pc = done, !.code = code, !.seen = list]]
  BY <1>1 DEF AnswerWith
<1> QED
  BY <1>1, <1>2, <1>3, SlotOf DEF DoneWith

\* Answering with the id of a ride.
LEMMA AnswerRideSlot ==
    ASSUME req \in [Requests -> Request], NEW r \in Requests, NEW code \in Codes, NEW i \in RideIds,
           AnswerRide(r, code, i)
    PROVE  DoneRide(r, code, i)
<1>1. PICK done \in Pcs : done = "done"
  BY DEF Pcs
<1>2. [req[r] EXCEPT !.pc = done, !.code = code, !.ride = i] \in Request
  BY DEF Request
<1>3. req' = [req EXCEPT ![r] = [req[r] EXCEPT !.pc = done, !.code = code, !.ride = i]]
  BY <1>1 DEF AnswerRide
<1> QED
  BY <1>1, <1>2, <1>3, SlotOf DEF DoneRide

\* A new request fills its slot with what the client sent.
LEMMA ArriveSlot ==
    ASSUME req \in [Requests -> Request], NEW r \in Requests,
           NEW op, NEW u \in Users \cup {NoId}, NEW i \in RideIds \cup {NoId},
           NEW pc \in Pcs, Arrive(r, op, u, i, pc)
    PROVE  Arrived(r, op, u, i, pc) /\ op \in Ops
<1>1. op \in Ops
  BY RequestsAssumption DEF Arrive
<1>2. [Idle EXCEPT !.op = op, !.user = u, !.ride = i, !.pc = pc] \in Request
  BY <1>1, IdleIsRequest DEF Request
<1>3. req' = [req EXCEPT ![r] = [Idle EXCEPT !.op = op, !.user = u, !.ride = i, !.pc = pc]]
  BY DEF Arrive
<1> QED
  BY <1>1, <1>2, <1>3, SlotOf DEF Arrived

\* What a step does to the slot of r, field by field.
Moved(r, pc, code) ==
    /\ req' \in [Requests -> Request]
    /\ \A other \in Requests \ {r} : req'[other] = req[other]
    /\ req'[r].op = req[r].op /\ req'[r].user = req[r].user
    /\ req'[r].ride = req[r].ride \/ req[r].op = "create"
    /\ req'[r].pc = pc /\ req'[r].code = code

\* The fields after a step that only goes on.
LEMMA MovedPc ==
    ASSUME NEW r \in Requests, req[r] \in Request, NEW pc, Went(r, pc)
    PROVE  /\ Moved(r, pc, req[r].code)
           /\ req'[r].driver = req[r].driver /\ req'[r].seen = req[r].seen
           /\ req'[r].ride = req[r].ride
BY DEF Slot, Moved, Request, Went

\* The fields after an answer without a body.
LEMMA MovedDone ==
    ASSUME NEW r \in Requests, req[r] \in Request, NEW code,
           Done(r, code)
    PROVE  /\ Moved(r, "done", code)
           /\ req'[r].driver = req[r].driver /\ req'[r].seen = req[r].seen
           /\ req'[r].ride = req[r].ride
BY DEF Slot, Moved, Request, Done

\* The fields after CreateRideHandler answered 201.
LEMMA MovedDoneRide ==
    ASSUME NEW r \in Requests, req[r] \in Request, NEW code, NEW i, req[r].op = "create",
           DoneRide(r, code, i)
    PROVE  /\ Moved(r, "done", code)
           /\ req'[r].driver = req[r].driver /\ req'[r].seen = req[r].seen
BY DEF Slot, Moved, Request, DoneRide

\* The fields after a list was read and is about to be stored.
LEMMA MovedSeen ==
    ASSUME NEW r \in Requests, req[r] \in Request, NEW pc, NEW list,
           WentWith(r, pc, list)
    PROVE  /\ Moved(r, pc, req[r].code)
           /\ req'[r].driver = req[r].driver /\ req'[r].seen = list
           /\ req'[r].ride = req[r].ride
BY DEF Slot, Moved, Request, WentWith

\* The fields after an answer with a list.
LEMMA MovedDoneWith ==
    ASSUME NEW r \in Requests, req[r] \in Request, NEW code, NEW list, DoneWith(r, code, list)
    PROVE  /\ Moved(r, "done", code)
           /\ req'[r].driver = req[r].driver /\ req'[r].seen = list
           /\ req'[r].ride = req[r].ride
BY DEF Slot, Moved, Request, DoneWith

\* The fields after GetDriverByUserId found a driver.
LEMMA MovedDriver ==
    ASSUME NEW r \in Requests, req[r] \in Request, NEW pc, NEW d,
           WentAs(r, pc, d)
    PROVE  /\ Moved(r, pc, req[r].code)
           /\ req'[r].driver = d /\ req'[r].seen = req[r].seen
           /\ req'[r].ride = req[r].ride
BY DEF Slot, Moved, Request, WentAs

\* The fields of a request that has just arrived.
LEMMA ArrivedFields ==
    ASSUME NEW r \in Requests, NEW op, NEW u, NEW i, NEW pc,
           Arrived(r, op, u, i, pc)
    PROVE  /\ req'[r].op = op /\ req'[r].user = u /\ req'[r].ride = i /\ req'[r].pc = pc
           /\ req'[r].driver = NoId /\ req'[r].seen = NoList /\ req'[r].code = 0
BY DEF Slot, Idle, Arrived

\* The rows a query returns.
LEMMA QueryTypes ==
    ASSUME DatabaseTypeOK, NEW s \in Visible
    PROVE  /\ s \in Contents
           /\ \A u \in Users : GetDriverByUserId(s, u) \in DriverIds \cup {NoId}
           /\ \A i \in RideIds : GetRideById(s, i) \in RideRow
           /\ ListActiveRides(s) \in Views
           /\ \A u \in Users \cup {NoId} : GetUserRideHistory(s, u) \in Views
<1>1. s \in Contents
  BY DEF DatabaseTypeOK, Visible
<1>2. NoRide \in RideRow
  BY DEF NoRide, RideRow, Statuses
<1>3. s.drivers \in [Users -> DriverIds \cup {NoId}] /\ s.rides \in [RideIds -> RideRow]
  BY <1>1 DEF Contents
<1> QED
  BY <1>1, <1>2, <1>3 DEF GetDriverByUserId, GetRideById, ListActiveRides, GetUserRideHistory, Views

\* Statements keep the tables well typed.
LEMMA CommitType ==
    ASSUME DatabaseTypeOK, NEW new \in Contents, Commit(new)
    PROVE  DatabaseTypeOK'
BY DEF Commit, DatabaseTypeOK

\* Each statement of class Database keeps both tables well typed.
LEMMA StatementTypes ==
    ASSUME DatabaseTypeOK
    PROVE  /\ \A u \in Users : RegisterDriver(u) => DatabaseTypeOK'
           /\ \A u \in Users, i \in RideIds : CreateRide(u, i) => DatabaseTypeOK'
           /\ \A i \in RideIds, d \in DriverIds \cup {NoId} : AcceptRide(i, d) => DatabaseTypeOK'
           /\ \A i \in RideIds : CompleteRide(i) => DatabaseTypeOK'
<1>1. db.drivers \in [Users -> DriverIds \cup {NoId}] /\ db.rides \in [RideIds -> RideRow]
  BY DEF DatabaseTypeOK, Contents
<1>2. \A row \in RideRow, i \in RideIds : [db EXCEPT !.rides[i] = row] \in Contents
  BY DEF DatabaseTypeOK, Contents
<1>3. ASSUME NEW u \in Users, RegisterDriver(u)
      PROVE  DatabaseTypeOK'
  <2>1. PICK d \in DriverIds : Commit([db EXCEPT !.drivers[u] = d])
    BY <1>3 DEF RegisterDriver
  <2>2. [db EXCEPT !.drivers[u] = d] \in Contents
    BY DEF DatabaseTypeOK, Contents
  <2> QED
    BY <2>1, <2>2, CommitType
<1>4. ASSUME NEW u \in Users, NEW i \in RideIds, CreateRide(u, i)
      PROVE  DatabaseTypeOK'
  <2>1. [passenger |-> u, driver |-> NoId, status |-> "pending"] \in RideRow
    BY DEF RideRow, Statuses
  <2> QED
    BY <1>2, <1>4, <2>1, CommitType DEF CreateRide
<1>5. ASSUME NEW i \in RideIds, NEW d \in DriverIds \cup {NoId}, AcceptRide(i, d)
      PROVE  DatabaseTypeOK'
  <2>1. [passenger |-> db.rides[i].passenger, driver |-> d, status |-> "accepted"] \in RideRow
    BY <1>1 DEF RideRow, Statuses
  <2> QED
    BY <1>2, <1>5, <2>1, CommitType DEF AcceptRide
<1>6. ASSUME NEW i \in RideIds, CompleteRide(i)
      PROVE  DatabaseTypeOK'
  <2>1. [db.rides[i] EXCEPT !.status = "completed"] \in RideRow
    BY <1>1 DEF RideRow, Statuses
  <2>2. [db EXCEPT !.rides[i].status = "completed"] \in Contents
    BY <1>2, <2>1
  <2> QED
    BY <1>6, <2>2, CommitType DEF CompleteRide
<1> QED
  BY <1>3, <1>4, <1>5, <1>6

Typed == TypeOK /\ NamesFit

\* The rows of data.sql, the empty cache and idle slots are well typed.
LEMMA InitTyped == Init => Typed
<1> SUFFICES ASSUME Init PROVE Typed
  OBVIOUS
<1>1. DatabaseTypeOK
  BY DatabaseAssumption DEF Init, DatabaseInit, DatabaseTypeOK, DatabaseAssumption
<1>2. cache \in Views \cup {NoList}
  BY DEF Init, RedisInit
<1>3. req \in [Requests -> Request]
  BY IdleIsRequest DEF Init, RequestsInit
<1>4. NamesFit
  BY DEF Init, RequestsInit, Idle, NamesFit
<1> QED
  BY <1>1, <1>2, <1>3, <1>4 DEF Typed, TypeOK

-----------------------------------------------------------------------------
(***************************************************************************)
(* The kinds of steps.  The invariants below are proved kind by kind.      *)
(***************************************************************************)

Rejects(r) ==
    /\ \E code \in Codes \ {200, 201} : Done(r, code)
    /\ UNCHANGED <<db, past, cache>>

Advances(r) ==
    /\ req[r].op \notin {"accept", "complete"}
    /\ \E pc \in {"exec", "cache", "query"} : Went(r, pc)
    /\ UNCHANGED <<db, past, cache>>

Registers(r) ==
    /\ req[r].op = "register"
    /\ RegisterDriver(req[r].user)
    /\ \E code \in {201, 500} : Done(r, code)
    /\ UNCHANGED cache

Creates(r) ==
    /\ req[r].op = "create"
    /\ \E i \in RideIds :
         /\ CreateRide(req[r].user, i)
         /\ \/ DoneRide(r, 201, i)
            \/ Done(r, 500)
    /\ UNCHANGED cache

Reads(r) ==
    /\ req[r].op \in {"list", "history"}
    /\ \E s \in Visible : \E list \in {cache, ListActiveRides(s), GetUserRideHistory(s, req[r].user)} :
         \/ DoneWith(r, 200, list)
         \/ WentWith(r, "store", list)
    /\ UNCHANGED <<db, past, cache>>

Stores(r) ==
    /\ req[r].op = "list"
    /\ Done(r, 200)
    /\ cache' \in {cache, req[r].seen}
    /\ UNCHANGED <<db, past>>

FindsDriver(r) ==
    /\ \E s \in Visible :
         LET driver == GetDriverByUserId(s, req[r].user) IN
         /\ driver # NoId
         /\ \/ At(r, "accept", "driver") /\ WentAs(r, "exec", driver)
            \/ At(r, "complete", "driver") /\ WentAs(r, "ride", driver)
    /\ UNCHANGED <<db, past, cache>>

Passes(r) ==
    /\ At(r, "complete", "ride")
    /\ \E s \in Visible :
         /\ GetRideById(s, req[r].ride) # NoRide
         /\ GetRideById(s, req[r].ride).driver = req[r].driver
    /\ Went(r, "exec")
    /\ UNCHANGED <<db, past, cache>>

Accepts(r) ==
    /\ At(r, "accept", "exec")
    /\ AcceptRide(req[r].ride, req[r].driver)
    /\ Went(r, "del")
    /\ UNCHANGED cache

Completes(r) ==
    /\ At(r, "complete", "exec")
    /\ CompleteRide(req[r].ride)
    /\ Went(r, "del")
    /\ UNCHANGED cache

Deletes(r) ==
    /\ At(r, "accept", "del") \/ At(r, "complete", "del")
    /\ Went(r, "reply")
    /\ cache' \in {cache, NoList}
    /\ UNCHANGED <<db, past>>

Replies(r) ==
    /\ At(r, "accept", "reply") \/ At(r, "complete", "reply")
    /\ Done(r, 200)
    /\ UNCHANGED <<db, past, cache>>

Arrives(r) ==
    /\ \E op \in Ops, u \in Users \cup {NoId}, i \in RideIds \cup {NoId}, pc \in {"admit", "driver"} :
         /\ op \in {"register", "create", "accept", "complete", "history"} => u \in Users
         /\ op \in {"accept", "complete"} => i \in RideIds
         /\ Arrived(r, op, u, i, pc)
    /\ UNCHANGED <<db, past, cache>>

Leaves(r) == Slot(r, Idle) /\ UNCHANGED <<db, past, cache>>

Kinds(r) ==
    \/ Rejects(r) \/ Advances(r) \/ Registers(r) \/ Creates(r) \/ Reads(r) \/ Stores(r)
    \/ FindsDriver(r) \/ Passes(r) \/ Accepts(r) \/ Completes(r) \/ Deletes(r) \/ Replies(r)
    \/ Arrives(r) \/ Leaves(r)

\* The names of awaits the steps use,
LEMMA AwaitNames ==
    /\ "admit" \in Pcs /\ "driver" \in Pcs /\ "ride" \in Pcs /\ "cache" \in Pcs /\ "query" \in Pcs
    /\ "exec" \in Pcs /\ "store" \in Pcs /\ "del" \in Pcs /\ "reply" \in Pcs
    /\ "done" \in Pcs
BY DEF Pcs

\* and the codes they answer.
LEMMA CodeNames ==
    /\ 200 \in Codes /\ 201 \in Codes
    /\ {400, 403, 409, 429, 500} \subseteq Codes \ {200, 201}
BY DEF Codes

\* The commonest kinds, from the operators the handlers use.
LEMMA RejectKind ==
    ASSUME Typed, NEW r \in Requests, NEW code \in Codes \ {200, 201},
           Answer(r, code), UNCHANGED <<db, past, cache>>
    PROVE  Kinds(r)
<1>1. Done(r, code)
  BY AnswerSlot DEF Typed, TypeOK
<1>2. Rejects(r)
  BY <1>1 DEF Rejects
<1> QED
  BY <1>2 DEF Kinds

\* A request that is no accept and no complete goes on without a statement.
LEMMA AdvanceKind ==
    ASSUME Typed, NEW r \in Requests, NEW pc \in {"exec", "cache", "query"},
           req[r].op \notin {"accept", "complete"},
           Goto(r, pc), UNCHANGED <<db, past, cache>>
    PROVE  Kinds(r)
<1>1. Went(r, pc)
  BY GotoSlot, AwaitNames DEF Typed, TypeOK
<1>2. Advances(r)
  BY <1>1 DEF Advances
<1> QED
  BY <1>2 DEF Kinds

\* The steps of RegisterDriverHandler are of these kinds.
LEMMA DriverServiceKinds ==
    ASSUME Typed, NEW r \in Requests, DriverServiceStep(r)
    PROVE  Kinds(r)
<1>0. req \in [Requests -> Request]
  BY DEF Typed, TypeOK
<1>1. CASE RegisterAdmit(r)
  <2>1. ASSUME NEW code \in {400, 500}, Answer(r, code)
        PROVE  Kinds(r)
    BY <1>1, <2>1, RejectKind, CodeNames DEF RegisterAdmit
  <2>2. CASE Goto(r, "exec")
    BY <1>1, <2>2, AdvanceKind DEF RegisterAdmit, At
  <2> QED
    BY <1>1, <2>1, <2>2 DEF RegisterAdmit
<1>2. CASE RegisterExec(r)
  <2>1. CASE RegisterDriver(req[r].user)
    <3>0. ~DuplicateDriver(req[r].user)
      BY <2>1 DEF RegisterDriver
    <3>1. Answer(r, 201) \/ Answer(r, 500)
      BY <1>2, <3>0 DEF RegisterExec
    <3>2. ASSUME Answer(r, 201)
          PROVE  Done(r, 201)
      BY <1>0, <3>2, AnswerSlot, CodeNames
    <3>3. ASSUME Answer(r, 500)
          PROVE  Done(r, 500)
      BY <1>0, <3>3, AnswerSlot, CodeNames
    <3>4. \E code \in {201, 500} : Done(r, code)
      BY <3>1, <3>2, <3>3
    <3>5. Registers(r)
      BY <1>2, <2>1, <3>4 DEF RegisterExec, Registers, At
    <3> QED
      BY <3>5 DEF Kinds
  <2>2. CASE ~RegisterDriver(req[r].user)
    BY <1>2, <2>2, RejectKind, CodeNames DEF RegisterExec
  <2> QED
    BY <2>1, <2>2
<1> QED
  BY <1>1, <1>2 DEF DriverServiceStep

\* The steps of the handlers of the ride service are of these kinds.
LEMMA RideServiceKinds ==
    ASSUME Typed, NEW r \in Requests, RideServiceStep(r)
    PROVE  Kinds(r)
<1>0. req \in [Requests -> Request] /\ req[r] \in Request /\ cache \in Views \cup {NoList}
  BY DEF Typed, TypeOK
<1>1. CASE CreateAdmit(r)
  <2>1. ASSUME NEW code \in {429, 400, 500}, Answer(r, code)
        PROVE  Kinds(r)
    BY <1>1, <2>1, RejectKind, CodeNames DEF CreateAdmit
  <2>2. CASE Goto(r, "exec")
    BY <1>1, <2>2, AdvanceKind DEF CreateAdmit, At
  <2> QED
    BY <1>1, <2>1, <2>2 DEF CreateAdmit
<1>2. CASE CreateExec(r)
  <2>1. PICK i \in RideIds :
          /\ CreateRide(req[r].user, i)
          /\ \/ AnswerRide(r, 201, i)
             \/ Answer(r, 500)
    BY <1>2 DEF CreateExec
  <2>2. CASE AnswerRide(r, 201, i)
    <3>1. DoneRide(r, 201, i)
      BY <1>0, <2>2, AnswerRideSlot, CodeNames
    <3>2. Creates(r)
      BY <1>2, <2>1, <3>1 DEF CreateExec, Creates, At
    <3> QED
      BY <3>2 DEF Kinds
  <2>3. CASE Answer(r, 500)
    <3>1. Done(r, 500)
      BY <1>0, <2>3, AnswerSlot, CodeNames
    <3>2. Creates(r)
      BY <1>2, <2>1, <3>1 DEF CreateExec, Creates, At
    <3> QED
      BY <3>2 DEF Kinds
  <2> QED
    BY <2>1, <2>2, <2>3
<1>3. CASE ListAdmit(r)
  <2>1. ASSUME NEW code \in {400, 429}, Answer(r, code)
        PROVE  Kinds(r)
    BY <1>3, <2>1, RejectKind, CodeNames DEF ListAdmit
  <2>2. CASE Goto(r, "cache")
    BY <1>3, <2>2, AdvanceKind DEF ListAdmit, At
  <2> QED
    BY <1>3, <2>1, <2>2 DEF ListAdmit
<1>4. CASE ListCache(r)
  <2>1. PICK found \in {cache, NoList} :
          /\ Get(found)
          /\ IF found # NoList THEN AnswerWith(r, 200, found) ELSE Goto(r, "query")
    BY <1>4 DEF ListCache
  <2>2. CASE found # NoList
    <3>1. found = cache /\ AnswerWith(r, 200, cache)
      BY <2>1, <2>2
    <3>2. DoneWith(r, 200, cache)
      BY <1>0, <3>1, AnswerWithSlot, CodeNames
    <3>3. Reads(r)
      BY <1>4, <2>1, <3>2 DEF ListCache, Reads, At, Get, Visible
    <3> QED
      BY <3>3 DEF Kinds
  <2>3. CASE found = NoList
    BY <1>4, <2>1, <2>3, AdvanceKind DEF ListCache, At, Get
  <2> QED
    BY <2>2, <2>3
<1>5. CASE ListQuery(r)
  <2>1. PICK s \in Visible : GotoWith(r, "store", ListActiveRides(s))
    BY <1>5 DEF ListQuery
  <2>2. ListActiveRides(s) \in Views
    BY QueryTypes DEF Typed, TypeOK
  <2>3. WentWith(r, "store", ListActiveRides(s))
    BY <1>0, <2>1, <2>2, GotoWithSlot, AwaitNames
  <2>4. Reads(r)
    BY <1>5, <2>3 DEF ListQuery, Reads, At
  <2> QED
    BY <2>4 DEF Kinds
<1>6. CASE ListStore(r)
  <2>1. Done(r, 200)
    BY <1>0, <1>6, AnswerSlot, CodeNames DEF ListStore
  <2>2. Stores(r)
    BY <1>6, <2>1 DEF ListStore, Stores, At, Set
  <2> QED
    BY <2>2 DEF Kinds
<1>7. CASE AcceptDriver(r)
  <2>1. PICK s \in Visible :
          LET driver == GetDriverByUserId(s, req[r].user) IN
          IF driver = NoId THEN Answer(r, 403) ELSE GotoAs(r, "exec", driver)
    BY <1>7 DEF AcceptDriver
  <2> DEFINE driver == GetDriverByUserId(s, req[r].user)
  <2>2. CASE driver = NoId
    BY <1>7, <2>1, <2>2, RejectKind, CodeNames DEF AcceptDriver
  <2>3. CASE driver # NoId
    <3>1. req[r].user \in Users
      BY <1>7 DEF AcceptDriver, At, Typed, NamesFit
    <3>2. driver \in DriverIds
      BY <2>3, <3>1, QueryTypes DEF Typed, TypeOK
    <3>3. GotoAs(r, "exec", driver)
      BY <2>1, <2>3
    <3>4. WentAs(r, "exec", driver)
      BY <1>0, <3>2, <3>3, GotoAsSlot, AwaitNames
    <3>5. FindsDriver(r)
      BY <1>7, <2>3, <3>4 DEF AcceptDriver, FindsDriver
    <3> QED
      BY <3>5 DEF Kinds
  <2> QED
    BY <2>2, <2>3
<1>8. CASE AcceptExec(r)
  <2>1. CASE AcceptRide(req[r].ride, req[r].driver) /\ Goto(r, "del")
    <3>1. Went(r, "del")
      BY <1>0, <2>1, GotoSlot, AwaitNames
    <3>2. Accepts(r)
      BY <1>8, <2>1, <3>1 DEF AcceptExec, Accepts
    <3> QED
      BY <3>2 DEF Kinds
  <2>2. CASE ~CanAccept(req[r].ride) /\ Answer(r, 400) /\ UNCHANGED <<db, past>>
    BY <1>8, <2>2, RejectKind, CodeNames DEF AcceptExec
  <2> QED
    BY <1>8, <2>1, <2>2 DEF AcceptExec
<1>9. CASE AcceptDel(r)
  <2>1. Went(r, "reply")
    BY <1>0, <1>9, GotoSlot, AwaitNames DEF AcceptDel
  <2>2. Deletes(r)
    BY <1>9, <2>1 DEF AcceptDel, Deletes, Del
  <2> QED
    BY <2>2 DEF Kinds
<1>10. CASE CompleteDriver(r)
  <2>1. PICK s \in Visible :
          LET driver == GetDriverByUserId(s, req[r].user) IN
          IF driver = NoId THEN Answer(r, 403) ELSE GotoAs(r, "ride", driver)
    BY <1>10 DEF CompleteDriver
  <2> DEFINE driver == GetDriverByUserId(s, req[r].user)
  <2>2. CASE driver = NoId
    BY <1>10, <2>1, <2>2, RejectKind, CodeNames DEF CompleteDriver
  <2>3. CASE driver # NoId
    <3>1. req[r].user \in Users
      BY <1>10 DEF CompleteDriver, At, Typed, NamesFit
    <3>2. driver \in DriverIds
      BY <2>3, <3>1, QueryTypes DEF Typed, TypeOK
    <3>3. GotoAs(r, "ride", driver)
      BY <2>1, <2>3
    <3>4. WentAs(r, "ride", driver)
      BY <1>0, <3>2, <3>3, GotoAsSlot, AwaitNames
    <3>5. FindsDriver(r)
      BY <1>10, <2>3, <3>4 DEF CompleteDriver, FindsDriver
    <3> QED
      BY <3>5 DEF Kinds
  <2> QED
    BY <2>2, <2>3
<1>11. CASE CompleteRideCheck(r)
  <2>1. PICK s \in Visible :
          LET ride == GetRideById(s, req[r].ride) IN
          IF ride = NoRide \/ ride.driver # req[r].driver THEN Answer(r, 403) ELSE Goto(r, "exec")
    BY <1>11 DEF CompleteRideCheck
  <2> DEFINE ride == GetRideById(s, req[r].ride)
  <2>2. CASE ride = NoRide \/ ride.driver # req[r].driver
    BY <1>11, <2>1, <2>2, RejectKind, CodeNames DEF CompleteRideCheck
  <2>3. CASE ~(ride = NoRide \/ ride.driver # req[r].driver)
    <3>1. Went(r, "exec")
      BY <1>0, <2>1, <2>3, GotoSlot, AwaitNames
    <3>2. Passes(r)
      BY <1>11, <2>3, <3>1 DEF CompleteRideCheck, Passes
    <3> QED
      BY <3>2 DEF Kinds
  <2> QED
    BY <2>2, <2>3
<1>12. CASE CompleteExec(r)
  <2>1. CASE CompleteRide(req[r].ride) /\ Goto(r, "del")
    <3>1. Went(r, "del")
      BY <1>0, <2>1, GotoSlot, AwaitNames
    <3>2. Completes(r)
      BY <1>12, <2>1, <3>1 DEF CompleteExec, Completes
    <3> QED
      BY <3>2 DEF Kinds
  <2>2. CASE ~CanComplete(req[r].ride) /\ Answer(r, 400) /\ UNCHANGED <<db, past>>
    BY <1>12, <2>2, RejectKind, CodeNames DEF CompleteExec
  <2> QED
    BY <1>12, <2>1, <2>2 DEF CompleteExec
<1>13. CASE CompleteDel(r)
  <2>1. Went(r, "reply")
    BY <1>0, <1>13, GotoSlot, AwaitNames DEF CompleteDel
  <2>2. Deletes(r)
    BY <1>13, <2>1 DEF CompleteDel, Deletes, Del
  <2> QED
    BY <2>2 DEF Kinds
<1>14. CASE HistoryAdmit(r)
  <2>1. CASE Answer(r, 403)
    BY <1>14, <2>1, RejectKind, CodeNames DEF HistoryAdmit
  <2>2. CASE Goto(r, "query")
    BY <1>14, <2>2, AdvanceKind DEF HistoryAdmit, At
  <2> QED
    BY <1>14, <2>1, <2>2 DEF HistoryAdmit
<1>15. CASE HistoryQuery(r)
  <2>1. PICK s \in Visible : AnswerWith(r, 200, GetUserRideHistory(s, req[r].user))
    BY <1>15 DEF HistoryQuery
  <2>2. req[r].user \in Users
    BY <1>15 DEF HistoryQuery, At, Typed, NamesFit
  <2>3. GetUserRideHistory(s, req[r].user) \in Views
    BY <2>2, QueryTypes DEF Typed, TypeOK
  <2>4. DoneWith(r, 200, GetUserRideHistory(s, req[r].user))
    BY <1>0, <2>1, <2>3, AnswerWithSlot, CodeNames
  <2>5. Reads(r)
    BY <1>15, <2>4 DEF HistoryQuery, Reads, At
  <2> QED
    BY <2>5 DEF Kinds
<1>16. CASE AcceptReply(r)
  <2>1. Done(r, 200)
    BY <1>0, <1>16, AnswerSlot, CodeNames DEF AcceptReply
  <2>2. Replies(r)
    BY <1>16, <2>1 DEF AcceptReply, Replies
  <2> QED
    BY <2>2 DEF Kinds
<1>17. CASE CompleteReply(r)
  <2>1. Done(r, 200)
    BY <1>0, <1>17, AnswerSlot, CodeNames DEF CompleteReply
  <2>2. Replies(r)
    BY <1>17, <2>1 DEF CompleteReply, Replies
  <2> QED
    BY <2>2 DEF Kinds
<1> QED
  BY <1>1, <1>2, <1>3, <1>4, <1>5, <1>6, <1>7, <1>8, <1>9, <1>10, <1>11, <1>12, <1>13,
     <1>14, <1>15, <1>16, <1>17 DEF RideServiceStep

\* What a step does to a request is of one of the kinds.
LEMMA RequestKinds ==
    ASSUME Typed, NEW r \in Requests, Begin(r) \/ HandlerStep(r) \/ Fail(r) \/ Forget(r)
    PROVE  Kinds(r)
<1>0. req \in [Requests -> Request]
  BY DEF Typed, TypeOK
<1>1. CASE Begin(r)
  <2>1. ASSUME NEW op, NEW u \in Users \cup {NoId}, NEW i \in RideIds \cup {NoId},
               NEW pc \in {"admit", "driver"}, Arrive(r, op, u, i, pc),
               op # "list" => u \in Users,
               op \in {"accept", "complete"} => i \in RideIds
        PROVE  Kinds(r)
    <3>1. /\ op \in Ops
          /\ Arrived(r, op, u, i, pc)
      BY <1>0, <2>1, ArriveSlot, AwaitNames
    <3>2. Arrives(r)
      BY <1>1, <2>1, <3>1 DEF Arrives, Begin
    <3> QED
      BY <3>2 DEF Kinds
  <2>2. ASSUME NEW u \in Users, NEW op \in {"register", "create", "history"},
               Arrive(r, op, u, NoId, "admit")
        PROVE  Kinds(r)
    BY <2>1, <2>2
  <2>3. ASSUME NEW u \in Users, NEW i \in RideIds, NEW op \in {"accept", "complete"},
               Arrive(r, op, u, i, "driver")
        PROVE  Kinds(r)
    BY <2>1, <2>3
  <2>4. ASSUME Arrive(r, "list", NoId, NoId, "admit")
        PROVE  Kinds(r)
    BY <2>1, <2>4
  <2> QED
    BY <1>1, <2>2, <2>3, <2>4 DEF Begin
<1>2. CASE Fail(r)
  BY <1>2, RejectKind, CodeNames DEF Fail
<1>3. CASE Forget(r)
  BY <1>0, <1>3, IdleIsRequest, SlotOf DEF Forget, Leaves, Kinds
<1> QED
  BY <1>1, <1>2, <1>3, DriverServiceKinds, RideServiceKinds DEF HandlerStep

\* Every step is of one of the kinds or concerns no request.
LEMMA NextKinds ==
    ASSUME Typed, Next
    PROVE  \/ \E r \in Requests : Kinds(r)
           \/ CacheExpires
           \/ SlavesCatchUp
BY RequestKinds DEF Next

\* Without slaves no query sees an earlier state.
LEMMA NoPast ==
    ASSUME ~HasSlaves, Typed, past = {}, Next
    PROVE  past' = {}
<1>1. ASSUME NEW new, Commit(new) PROVE past' = {}
  BY <1>1 DEF Commit
<1>2. ASSUME NEW r \in Requests, Kinds(r) PROVE past' = {}
  <2>1. /\ \A u : RegisterDriver(u) => past' = {}
        /\ \A u, i : CreateRide(u, i) => past' = {}
        /\ \A i, d : AcceptRide(i, d) => past' = {}
        /\ \A i : CompleteRide(i) => past' = {}
    BY <1>1 DEF RegisterDriver, CreateRide, AcceptRide, CompleteRide
  <2>2. CASE Registers(r) \/ Creates(r) \/ Accepts(r) \/ Completes(r)
    BY <2>1, <2>2 DEF Registers, Creates, Accepts, Completes
  <2>3. CASE ~(Registers(r) \/ Creates(r) \/ Accepts(r) \/ Completes(r))
    <3>1. past' = past
      BY <1>2, <2>3 DEF Kinds, Rejects, Advances, Reads, Stores, FindsDriver, Passes, Deletes,
                        Replies, Arrives, Leaves
    <3> QED
      BY <3>1
  <2> QED
    BY <2>2, <2>3
<1> QED
  BY <1>2, NextKinds DEF CacheExpires, SlavesCatchUp, CatchUp

-----------------------------------------------------------------------------
\* No step after its arrival changes who a request is from.
LEMMA MovedNames ==
    ASSUME Typed, NEW r \in Requests, NEW pc, NEW code, Moved(r, pc, code)
    PROVE  NamesFit' /\ req' \in [Requests -> Request]
BY DEF Moved, Typed, TypeOK, NamesFit

\* Nothing a handler does with its request changes what it was asked and
\* by whom.
LEMMA SameAsker ==
    ASSUME req \in [Requests -> Request], NEW r \in Requests
    PROVE  /\ \A pc : Goto(r, pc) => req'[r].op = req[r].op /\ req'[r].user = req[r].user
           /\ \A pc, d : GotoAs(r, pc, d) => req'[r].op = req[r].op /\ req'[r].user = req[r].user
           /\ \A pc, list : GotoWith(r, pc, list) => req'[r].op = req[r].op /\ req'[r].user = req[r].user
           /\ \A code : Answer(r, code) => req'[r].op = req[r].op /\ req'[r].user = req[r].user
           /\ \A code, list : AnswerWith(r, code, list) => req'[r].op = req[r].op /\ req'[r].user = req[r].user
           /\ \A code, i : AnswerRide(r, code, i) => req'[r].op = req[r].op /\ req'[r].user = req[r].user
<1>1. req[r] \in Request
  OBVIOUS
<1>2. ASSUME NEW pc, Goto(r, pc)
      PROVE  req'[r].op = req[r].op /\ req'[r].user = req[r].user
  <2>1. req'[r] = [req[r] EXCEPT !.pc = pc]
    BY <1>2 DEF Goto
  <2> QED
    BY <1>1, <2>1 DEF Request
<1>3. ASSUME NEW pc, NEW d, GotoAs(r, pc, d)
      PROVE  req'[r].op = req[r].op /\ req'[r].user = req[r].user
  <2>1. req'[r] = [req[r] EXCEPT !.pc = pc, !.driver = d]
    BY <1>3 DEF GotoAs
  <2> QED
    BY <1>1, <2>1 DEF Request
<1>4. ASSUME NEW pc, NEW list, GotoWith(r, pc, list)
      PROVE  req'[r].op = req[r].op /\ req'[r].user = req[r].user
  <2>1. req'[r] = [req[r] EXCEPT !.pc = pc, !.seen = list]
    BY <1>4 DEF GotoWith
  <2> QED
    BY <1>1, <2>1 DEF Request
<1>5. ASSUME NEW code, Answer(r, code)
      PROVE  req'[r].op = req[r].op /\ req'[r].user = req[r].user
  <2>1. req'[r] = [req[r] EXCEPT !.pc = "done", !.code = code]
    BY <1>5 DEF Answer
  <2> QED
    BY <1>1, <2>1 DEF Request
<1>6. ASSUME NEW code, NEW list, AnswerWith(r, code, list)
      PROVE  req'[r].op = req[r].op /\ req'[r].user = req[r].user
  <2>1. req'[r] = [req[r] EXCEPT !.pc = "done", !.code = code, !.seen = list]
    BY <1>6 DEF AnswerWith
  <2> QED
    BY <1>1, <2>1 DEF Request
<1>7. ASSUME NEW code, NEW i, AnswerRide(r, code, i)
      PROVE  req'[r].op = req[r].op /\ req'[r].user = req[r].user
  <2>1. req'[r] = [req[r] EXCEPT !.pc = "done", !.code = code, !.ride = i]
    BY <1>7 DEF AnswerRide
  <2> QED
    BY <1>1, <2>1 DEF Request
<1> QED
  BY <1>2, <1>3, <1>4, <1>5, <1>6, <1>7

\* So no handler does.
LEMMA AskedKept ==
    ASSUME Typed, NEW r \in Requests, HandlerStep(r) \/ Fail(r)
    PROVE  req'[r].op = req[r].op /\ req'[r].user = req[r].user
<1>0. req \in [Requests -> Request]
  BY DEF Typed, TypeOK
<1>1. CASE DriverServiceStep(r)
  BY <1>0, <1>1, SameAsker DEF DriverServiceStep, RegisterAdmit, RegisterExec
<1>2. CASE CreateAdmit(r) \/ CreateExec(r) \/ HistoryAdmit(r) \/ HistoryQuery(r)
  BY <1>0, <1>2, SameAsker DEF CreateAdmit, CreateExec, HistoryAdmit, HistoryQuery
<1>3. CASE ListAdmit(r) \/ ListCache(r) \/ ListQuery(r) \/ ListStore(r)
  BY <1>0, <1>3, SameAsker DEF ListAdmit, ListCache, ListQuery, ListStore
<1>4. CASE AcceptDriver(r) \/ AcceptExec(r) \/ AcceptDel(r) \/ AcceptReply(r)
  BY <1>0, <1>4, SameAsker DEF AcceptDriver, AcceptExec, AcceptDel, AcceptReply
<1>5. CASE CompleteDriver(r) \/ CompleteRideCheck(r) \/ CompleteExec(r) \/ CompleteDel(r)
            \/ CompleteReply(r)
  BY <1>0, <1>5, SameAsker
  DEF CompleteDriver, CompleteRideCheck, CompleteExec, CompleteDel, CompleteReply
<1>6. CASE Fail(r)
  BY <1>0, <1>6, SameAsker DEF Fail
<1> QED
  BY <1>1, <1>2, <1>3, <1>4, <1>5, <1>6 DEF HandlerStep, RideServiceStep

\* Types are kept by every step.
LEMMA TypedStep == Typed /\ [Next]_vars => Typed'
<1> SUFFICES ASSUME Typed, [Next]_vars PROVE Typed'
  OBVIOUS
<1>0. /\ req \in [Requests -> Request] /\ cache \in Views \cup {NoList}
      /\ DatabaseTypeOK /\ NamesFit
  BY DEF Typed, TypeOK
<1>1. ASSUME DatabaseTypeOK', cache' \in Views \cup {NoList},
             req' \in [Requests -> Request], NamesFit'
      PROVE  Typed'
  BY <1>1 DEF Typed, TypeOK
<1>2. ASSUME UNCHANGED <<db, past>> PROVE DatabaseTypeOK'
  BY <1>0, <1>2 DEF DatabaseTypeOK
<1>3. ASSUME NEW r \in Requests, Kinds(r)
      PROVE  Typed'
  <2>0. req[r] \in Request
    BY <1>0
  <2>1. CASE Rejects(r)
    <3>1. PICK code \in Codes \ {200, 201} : Done(r, code)
      BY <2>1 DEF Rejects
    <3>2. NamesFit' /\ req' \in [Requests -> Request]
      BY <2>0, <3>1, MovedDone, MovedNames
    <3> QED
      BY <1>0, <1>1, <1>2, <2>1, <3>2 DEF Rejects
  <2>2. CASE Advances(r)
    <3>1. PICK pc \in {"exec", "cache", "query"} : Went(r, pc)
      BY <2>2 DEF Advances
    <3>2. NamesFit' /\ req' \in [Requests -> Request]
      BY <2>0, <3>1, MovedPc, MovedNames
    <3> QED
      BY <1>0, <1>1, <1>2, <2>2, <3>2 DEF Advances
  <2>3. CASE Registers(r)
    <3>1. PICK code : Done(r, code)
      BY <2>3 DEF Registers
    <3>2. NamesFit' /\ req' \in [Requests -> Request]
      BY <2>0, <3>1, MovedDone, MovedNames
    <3>3. DatabaseTypeOK'
      BY <1>0, <2>3, StatementTypes DEF Registers, NamesFit
    <3> QED
      BY <1>0, <1>1, <2>3, <3>2, <3>3 DEF Registers
  <2>4. CASE Creates(r)
    <3>1. PICK i \in RideIds :
            /\ CreateRide(req[r].user, i)
            /\ \/ DoneRide(r, 201, i)
               \/ Done(r, 500)
      BY <2>4 DEF Creates
    <3>2. Moved(r, "done", 201) \/ Moved(r, "done", 500)
      <4>1. ASSUME DoneRide(r, 201, i)
            PROVE  Moved(r, "done", 201)
        BY <2>0, <2>4, <4>1, MovedDoneRide DEF Creates
      <4>2. ASSUME Done(r, 500)
            PROVE  Moved(r, "done", 500)
        BY <2>0, <4>2, MovedDone
      <4> QED
        BY <3>1, <4>1, <4>2
    <3>3. NamesFit' /\ req' \in [Requests -> Request]
      BY <3>2, MovedNames
    <3>4. DatabaseTypeOK'
      BY <1>0, <2>4, <3>1, StatementTypes DEF Creates, NamesFit
    <3> QED
      BY <1>0, <1>1, <2>4, <3>3, <3>4 DEF Creates
  <2>5. CASE Reads(r)
    <3>1. PICK list :
            \/ DoneWith(r, 200, list)
            \/ WentWith(r, "store", list)
      BY <2>5 DEF Reads
    <3>2. Moved(r, "done", 200) \/ Moved(r, "store", req[r].code)
      <4>1. ASSUME DoneWith(r, 200, list)
            PROVE  Moved(r, "done", 200)
        BY <2>0, <4>1, MovedDoneWith
      <4>2. ASSUME WentWith(r, "store", list)
            PROVE  Moved(r, "store", req[r].code)
        BY <2>0, <4>2, MovedSeen
      <4> QED
        BY <3>1, <4>1, <4>2
    <3>3. NamesFit' /\ req' \in [Requests -> Request]
      BY <3>2, MovedNames
    <3> QED
      BY <1>0, <1>1, <1>2, <2>5, <3>3 DEF Reads
  <2>6. CASE Stores(r)
    <3>0. Moved(r, "done", 200)
      BY <2>0, <2>6, MovedDone DEF Stores
    <3>1. NamesFit' /\ req' \in [Requests -> Request]
      BY <3>0, MovedNames
    <3>2. req[r].seen \in Views \cup {NoList}
      BY <2>0 DEF Request
    <3> QED
      BY <1>0, <1>1, <1>2, <2>6, <3>1, <3>2 DEF Stores
  <2>7. CASE FindsDriver(r)
    <3>1. PICK pc, d : WentAs(r, pc, d)
      BY <2>7 DEF FindsDriver
    <3>2. NamesFit' /\ req' \in [Requests -> Request]
      BY <2>0, <3>1, MovedDriver, MovedNames
    <3> QED
      BY <1>0, <1>1, <1>2, <2>7, <3>2 DEF FindsDriver
  <2>8. CASE Passes(r)
    <3>0. Moved(r, "exec", req[r].code)
      BY <2>0, <2>8, MovedPc DEF Passes
    <3>1. NamesFit' /\ req' \in [Requests -> Request]
      BY <3>0, MovedNames
    <3> QED
      BY <1>0, <1>1, <1>2, <2>8, <3>1 DEF Passes
  <2>9. CASE Accepts(r)
    <3>0. Moved(r, "del", req[r].code)
      BY <2>0, <2>9, MovedPc DEF Accepts
    <3>1. NamesFit' /\ req' \in [Requests -> Request]
      BY <3>0, MovedNames
    <3>2. req[r].ride \in RideIds /\ req[r].driver \in DriverIds \cup {NoId}
      BY <1>0, <2>0, <2>9 DEF Accepts, At, NamesFit, Request
    <3>3. DatabaseTypeOK'
      BY <1>0, <2>9, <3>2, StatementTypes DEF Accepts
    <3> QED
      BY <1>0, <1>1, <2>9, <3>1, <3>3 DEF Accepts
  <2>10. CASE Completes(r)
    <3>0. Moved(r, "del", req[r].code)
      BY <2>0, <2>10, MovedPc DEF Completes
    <3>1. NamesFit' /\ req' \in [Requests -> Request]
      BY <3>0, MovedNames
    <3>2. req[r].ride \in RideIds
      BY <1>0, <2>10 DEF Completes, At, NamesFit
    <3>3. DatabaseTypeOK'
      BY <1>0, <2>10, <3>2, StatementTypes DEF Completes
    <3> QED
      BY <1>0, <1>1, <2>10, <3>1, <3>3 DEF Completes
  <2>11. CASE Deletes(r)
    <3>0. Moved(r, "reply", req[r].code)
      BY <2>0, <2>11, MovedPc DEF Deletes
    <3>1. NamesFit' /\ req' \in [Requests -> Request]
      BY <3>0, MovedNames
    <3> QED
      BY <1>0, <1>1, <1>2, <2>11, <3>1 DEF Deletes
  <2>12. CASE Arrives(r)
    <3>1. PICK op \in Ops, u \in Users \cup {NoId}, i \in RideIds \cup {NoId}, pc \in {"admit", "driver"} :
            /\ op \in {"register", "create", "accept", "complete", "history"} => u \in Users
            /\ op \in {"accept", "complete"} => i \in RideIds
            /\ Arrived(r, op, u, i, pc)
      BY <2>12 DEF Arrives
    <3>2. req'[r].op = op /\ req'[r].user = u /\ req'[r].ride = i
      BY <3>1, ArrivedFields
    <3>3. /\ req' \in [Requests -> Request]
          /\ \A other \in Requests \ {r} : req'[other] = req[other]
      BY <3>1 DEF Slot, Arrived
    <3>4. NamesFit'
      BY <1>0, <3>1, <3>2, <3>3 DEF NamesFit
    <3> QED
      BY <1>0, <1>1, <1>2, <2>12, <3>3, <3>4 DEF Arrives
  <2>13. CASE Leaves(r)
    <3>1. NamesFit' /\ req' \in [Requests -> Request]
      BY <1>0, <2>13 DEF Leaves, Slot, Idle, NamesFit
    <3> QED
      BY <1>0, <1>1, <1>2, <2>13, <3>1 DEF Leaves
  <2>14. CASE Replies(r)
    <3>0. Moved(r, "done", 200)
      BY <2>0, <2>14, MovedDone DEF Replies
    <3>1. NamesFit' /\ req' \in [Requests -> Request]
      BY <3>0, MovedNames
    <3> QED
      BY <1>0, <1>1, <1>2, <2>14, <3>1 DEF Replies
  <2> QED
    BY <1>3, <2>1, <2>2, <2>3, <2>4, <2>5, <2>6, <2>7, <2>8, <2>9, <2>10, <2>11, <2>12, <2>13,
       <2>14
    DEF Kinds
<1>4. CASE CacheExpires
  BY <1>0, <1>1, <1>2, <1>4 DEF CacheExpires, Expire, NamesFit
<1>5. CASE SlavesCatchUp
  <2>1. DatabaseTypeOK'
    BY <1>0, <1>5 DEF SlavesCatchUp, CatchUp, DatabaseTypeOK
  <2> QED
    BY <1>0, <1>1, <1>5, <2>1 DEF SlavesCatchUp, NamesFit
<1>6. CASE UNCHANGED vars
  BY <1>0, <1>1, <1>2, <1>6 DEF vars, NamesFit
<1> QED
  BY <1>3, <1>4, <1>5, <1>6, NextKinds

\* Type correctness: every variable keeps the shape the code gives it.
THEOREM TypeCorrect == Spec => []TypeOK
<1>1. Typed => TypeOK
  BY DEF Typed
<1> QED
  BY <1>1, InitTyped, TypedStep, PTL DEF Spec
=============================================================================
