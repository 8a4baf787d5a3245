---------------------------- MODULE ClientProofs ----------------------------
(***************************************************************************)
(* Theorems about what answers tell the clients of the services: modules   *)
(* RideClients and UserClients.                                            *)
(***************************************************************************)
EXTENDS RideClients, UserClients, BackendSafety, UserProofs

-----------------------------------------------------------------------------
(***************************************************************************)
(* Which step of which handler gives an answer.                            *)
(***************************************************************************)

\* The answers properties speak of, and where they come from.
Sources(r) ==
    /\ \A op : Tells(req'[r], op, 200) /\ op \in {"accept", "complete"} =>
         req[r].op = op /\ (AcceptReply(r) \/ CompleteReply(r))
    /\ Tells(req'[r], "history", 200) => HistoryQuery(r)
    /\ Tells(req'[r], "accept", 403) => AcceptDriver(r)
    /\ Tells(req'[r], "complete", 403) => CompleteDriver(r) \/ CompleteRideCheck(r)

\* A request that arrives, fails, leaves or goes on is not answered so.
LEMMA UnansweredSources ==
    ASSUME NEW r \in Requests, req'[r].pc = "done" => req'[r].code \notin {200, 403}
    PROVE  Sources(r)
BY DEF Sources, Tells

\* Nor is one that is answered another code.
LEMMA AnsweredSources ==
    ASSUME Typed, NEW r \in Requests, NEW code \in Codes \ {200, 403}, Answer(r, code)
    PROVE  Sources(r)
<1>1. req \in [Requests -> Request] /\ req[r] \in Request
  BY DEF Typed, TypeOK
<1>2. Done(r, code)
  BY <1>1, AnswerSlot
<1>3. req'[r].code = code
  BY <1>1, <1>2, MovedDone DEF Moved
<1> QED
  BY <1>3, UnansweredSources

\* Nor one that goes on.
LEMMA GoingSources ==
    ASSUME Typed, NEW r \in Requests, NEW pc \in Pcs \ {"done"},
           \/ Goto(r, pc)
           \/ \E d \in DriverIds : GotoAs(r, pc, d)
           \/ \E list \in Views : GotoWith(r, pc, list)
    PROVE  Sources(r)
<1>1. req \in [Requests -> Request] /\ req[r] \in Request
  BY DEF Typed, TypeOK
<1>2. req'[r].pc = pc
  <2>1. CASE Goto(r, pc)
    BY <1>1, <2>1, GotoSlot, MovedPc DEF Moved
  <2>2. ASSUME NEW d \in DriverIds, GotoAs(r, pc, d) PROVE req'[r].pc = pc
    <3>1. WentAs(r, pc, d)
      BY <1>1, <2>2, GotoAsSlot
    <3> QED
      BY <1>1, <3>1, MovedDriver DEF Moved
  <2>3. ASSUME NEW list \in Views, GotoWith(r, pc, list) PROVE req'[r].pc = pc
    <3>1. WentWith(r, pc, list)
      BY <1>1, <2>3, GotoWithSlot
    <3> QED
      BY <1>1, <3>1, MovedSeen DEF Moved
  <2> QED
    BY <2>1, <2>2, <2>3
<1> QED
  BY <1>2, UnansweredSources

\* Accept and complete.
LEMMA RideSources ==
    ASSUME Typed, NEW r \in Requests, HandlerStep(r), req[r].op \in {"accept", "complete"}
    PROVE  Sources(r)
<1>0. /\ req'[r].op = req[r].op /\ DatabaseTypeOK
      /\ {400, 500} \subseteq Codes \ {200, 403} /\ {"exec", "ride", "del", "reply"} \subseteq Pcs \ {"done"}
  BY AskedKept DEF Typed, TypeOK, Codes, Pcs
<1>1. \A s \in Visible : GetDriverByUserId(s, req[r].user) \in DriverIds \cup {NoId}
  <2>1. req[r].user \in Users
    BY DEF Typed, NamesFit
  <2> QED
    BY <1>0, <2>1, QueryTypes
<1>2. \/ AcceptDriver(r) \/ AcceptExec(r) \/ AcceptDel(r) \/ AcceptReply(r)
      \/ CompleteDriver(r) \/ CompleteRideCheck(r) \/ CompleteExec(r)
      \/ CompleteDel(r) \/ CompleteReply(r)
  BY DEF HandlerStep, DriverServiceStep, RideServiceStep, At, RegisterAdmit, RegisterExec,
         CreateAdmit, CreateExec, ListAdmit, ListCache, ListQuery, ListStore,
         HistoryAdmit, HistoryQuery
<1>3. ASSUME Answer(r, 403) PROVE req'[r].code = 403
  BY <1>3 DEF Answer, Typed, TypeOK, Request
<1>4. CASE AcceptDriver(r)
  <2>1. PICK s \in Visible :
          LET driver == GetDriverByUserId(s, req[r].user) IN
          IF driver = NoId THEN Answer(r, 403) ELSE GotoAs(r, "exec", driver)
    BY <1>4 DEF AcceptDriver
  <2>2. CASE Answer(r, 403)
    BY <1>0, <1>3, <1>4, <2>2 DEF Sources, Tells, AcceptDriver, At
  <2>3. CASE GetDriverByUserId(s, req[r].user) # NoId /\ GotoAs(r, "exec", GetDriverByUserId(s, req[r].user))
    BY <1>0, <1>1, <2>3, GoingSources
  <2> QED
    BY <2>1, <2>2, <2>3
<1>5. CASE CompleteDriver(r)
  <2>1. PICK s \in Visible :
          LET driver == GetDriverByUserId(s, req[r].user) IN
          IF driver = NoId THEN Answer(r, 403) ELSE GotoAs(r, "ride", driver)
    BY <1>5 DEF CompleteDriver
  <2>2. CASE Answer(r, 403)
    BY <1>0, <1>3, <1>5, <2>2 DEF Sources, Tells, CompleteDriver, At
  <2>3. CASE GetDriverByUserId(s, req[r].user) # NoId /\ GotoAs(r, "ride", GetDriverByUserId(s, req[r].user))
    BY <1>0, <1>1, <2>3, GoingSources
  <2> QED
    BY <2>1, <2>2, <2>3
<1>6. CASE CompleteRideCheck(r)
  <2>1. Answer(r, 403) \/ Goto(r, "exec")
    BY <1>6 DEF CompleteRideCheck
  <2>2. CASE Answer(r, 403)
    BY <1>0, <1>3, <1>6, <2>2 DEF Sources, Tells, CompleteRideCheck, At
  <2>3. CASE Goto(r, "exec")
    BY <1>0, <2>3, GoingSources
  <2> QED
    BY <2>1, <2>2, <2>3
<1>7. CASE AcceptExec(r) \/ CompleteExec(r)
  <2>1. Answer(r, 400) \/ Goto(r, "del")
    BY <1>7 DEF AcceptExec, CompleteExec
  <2> QED
    BY <1>0, <2>1, AnsweredSources, GoingSources
<1>8. CASE AcceptDel(r) \/ CompleteDel(r)
  BY <1>0, <1>8, GoingSources DEF AcceptDel, CompleteDel
<1>9. CASE AcceptReply(r) \/ CompleteReply(r)
  <2>1. req'[r].code = 200
    BY <1>9 DEF AcceptReply, CompleteReply, Answer, Typed, TypeOK, Request
  <2> QED
    BY <1>0, <1>9, <2>1 DEF Sources, Tells
<1> QED
  BY <1>2, <1>4, <1>5, <1>6, <1>7, <1>8, <1>9

\* The history.
LEMMA HistorySources ==
    ASSUME Typed, NEW r \in Requests, HandlerStep(r), req[r].op = "history"
    PROVE  Sources(r)
<1>0. req'[r].op = "history"
  BY AskedKept
<1>1. HistoryAdmit(r) \/ HistoryQuery(r)
  BY DEF HandlerStep, DriverServiceStep, RideServiceStep, At, RegisterAdmit, RegisterExec,
         CreateAdmit, CreateExec, ListAdmit, ListCache, ListQuery, ListStore,
         AcceptDriver, AcceptExec, AcceptDel, AcceptReply, CompleteDriver,
         CompleteRideCheck, CompleteExec, CompleteDel, CompleteReply
<1>2. CASE HistoryAdmit(r)
  <2>0. req \in [Requests -> Request]
    BY DEF Typed, TypeOK
  <2>1. CASE Answer(r, 403)
    BY <1>0, <2>0, <2>1 DEF Answer, Sources, Tells
  <2>2. CASE Goto(r, "query")
    BY <2>0, <2>2, GoingSources DEF Pcs
  <2> QED
    BY <1>2, <2>1, <2>2 DEF HistoryAdmit
<1>3. CASE HistoryQuery(r)
  BY <1>0, <1>3 DEF Sources, Tells
<1> QED
  BY <1>1, <1>2, <1>3

\* Every step of a request.
LEMMA AllSources ==
    ASSUME Typed, NEW r \in Requests, Begin(r) \/ HandlerStep(r) \/ Fail(r) \/ Forget(r)
    PROVE  Sources(r)
<1>0. req \in [Requests -> Request] /\ req[r] \in Request
  BY DEF Typed, TypeOK
<1>1. CASE Begin(r)
  <2>1. ASSUME NEW op, NEW u, NEW i, NEW pc \in {"admit", "driver"}, Arrive(r, op, u, i, pc)
        PROVE  req'[r].pc = pc
    BY <1>0, <2>1 DEF Arrive, Idle
  <2>2. req'[r].pc \in {"admit", "driver"}
    BY <1>1, <2>1 DEF Begin
  <2> QED
    BY <2>2, UnansweredSources
<1>2. CASE Fail(r)
  <2>1. 500 \in Codes \ {200, 403}
    BY DEF Codes
  <2> QED
    BY <1>2, <2>1, AnsweredSources DEF Fail
<1>3. CASE Forget(r)
  BY <1>0, <1>3, UnansweredSources DEF Forget, Idle
<1>4. CASE HandlerStep(r) /\ req[r].op \notin {"accept", "complete", "history"}
  BY <1>4, AskedKept DEF Sources, Tells
<1> QED
  BY <1>1, <1>2, <1>3, <1>4, RideSources, HistorySources

\* The step that brought the request in slot q where it is.
LEMMA Mover ==
    ASSUME Typed, Next, NEW q \in Requests, req'[q] # req[q]
    PROVE  (Begin(q) \/ HandlerStep(q) \/ Fail(q) \/ Forget(q)) /\ Kinds(q) /\ Sources(q)
<1>1. ASSUME NEW r \in Requests, Begin(r) \/ HandlerStep(r) \/ Fail(r) \/ Forget(r)
      PROVE  r = q
  BY <1>1, RequestKinds, OthersAreStill
<1>2. Begin(q) \/ HandlerStep(q) \/ Fail(q) \/ Forget(q)
  BY <1>1 DEF Next, CacheExpires, SlavesCatchUp
<1> QED
  BY <1>2, RequestKinds, AllSources

-----------------------------------------------------------------------------
(***************************************************************************)
(* What was told is so.                                                    *)
(***************************************************************************)

\* Answers with 201.
MadeFits(r) ==
    /\ Tells(req[r], "register", 201) => db.drivers[req[r].user] # NoId
    /\ Tells(req[r], "create", 201) =>
         req[r].ride \in RideIds /\ db.rides[req[r].ride].status # "absent"

\* What was told, to anybody and to the clients that wait.
ToldFits ==
    /\ told \in [RideIds -> 0 .. 3]
    /\ began \in [Requests -> [RideIds -> 0 .. 3]]
    /\ \A i \in RideIds : /\ told[i] <= Progress[db.rides[i].status]
                          /\ \A r \in Requests : /\ began[r][i] <= Progress[db.rides[i].status]
                                                 /\ Promise(req[r], i) <= told[i]

\* What was granted.
GrantedFits ==
    \A g \in granted :
        \/ \E u \in Users : \E i : g = <<"register", u, i>> /\ db.drivers[u] # NoId
        \/ \E u \in Users, i \in RideIds : g = <<"accept", u, i>> /\ Held(i, u)

\* Where a status stands.
LEMMA ProgressRange == \A status \in Statuses : Progress[status] \in 0 .. 3
BY DEF Statuses, Progress

\* A row that moves forward does not fall back.
LEMMA ProgressGrows ==
    ASSUME NEW old \in RideRow, NEW new \in RideRow, Behind(old, new)
    PROVE  Progress[old.status] <= Progress[new.status]
<1>1. old.status \in Statuses /\ new.status \in Statuses
  BY DEF RideRow
<1> QED
  BY <1>1 DEF Behind, NoRide, Statuses, Progress

\* Every step of the services moves every ride forward.
LEMMA RidesGrow ==
    ASSUME Inv, Typed', Forward, NEW i \in RideIds
    PROVE  /\ db.rides[i] \in RideRow /\ db'.rides[i] \in RideRow
           /\ Behind(db.rides[i], db'.rides[i])
           /\ Progress[db.rides[i].status] \in 0 .. 3 /\ Progress[db'.rides[i].status] \in 0 .. 3
           /\ Progress[db.rides[i].status] <= Progress[db'.rides[i].status]
<1>1. db.rides[i] \in RideRow
  BY Unfold, Tables
<1>2. db'.rides[i] \in RideRow
  BY DEF Typed, TypeOK, DatabaseTypeOK, Contents
<1>3. Behind(db.rides[i], db'.rides[i])
  BY DEF Forward, Earlier
<1>4. db.rides[i].status \in Statuses /\ db'.rides[i].status \in Statuses
  BY <1>1, <1>2 DEF RideRow
<1> QED
  BY <1>1, <1>2, <1>3, <1>4, ProgressGrows, ProgressRange

\* A promise is about a row that is that far.
LEMMA PromiseKept ==
    ASSUME NEW q, NEW i, NEW status \in Statuses,
           q.ride = i /\ Tells(q, "create", 201) => status # "absent",
           q.ride = i /\ Tells(q, "accept", 200) => status \in {"accepted", "completed"},
           q.ride = i /\ Tells(q, "complete", 200) => status = "completed"
    PROVE  Promise(q, i) \in 0 .. 3 /\ Promise(q, i) <= Progress[status]
BY DEF Promise, Progress, Statuses, Tells

\* The largest of some of four numbers.
LEMMA Largest ==
    ASSUME NEW S \in SUBSET (0 .. 3), NEW n \in S
    PROVE  Max(S) \in S /\ \A m \in S : m <= Max(S)
<1>1. \E x \in S : \A m \in S : m <= x
  <2>1. CASE 3 \in S
    BY <2>1
  <2>2. CASE 3 \notin S /\ 2 \in S
    BY <2>2
  <2>3. CASE 3 \notin S /\ 2 \notin S /\ 1 \in S
    BY <2>3
  <2>4. CASE 3 \notin S /\ 2 \notin S /\ 1 \notin S
    BY <2>4
  <2> QED
    BY <2>1, <2>2, <2>3, <2>4
<1>2. \E x \in S : \A m \in S : x >= m
  BY <1>1
<1>3. Max(S) \in S /\ \A m \in S : Max(S) >= m
  BY <1>2 DEF Max
<1> QED
  BY <1>3

\* What is made stays.
LEMMA MadeStays ==
    ASSUME Inv, Typed', Forward, NEW r \in Requests, req'[r] = req[r], MadeFits(r)
    PROVE  MadeFits(r)'
<1>1. CASE Tells(req[r], "register", 201)
  <2>1. req[r].user \in Users /\ db.drivers[req[r].user] # NoId
    BY <1>1, Unfold DEF MadeFits, NamesFit, Tells
  <2>2. db'.drivers[req[r].user] = db.drivers[req[r].user]
    BY <2>1 DEF Forward, Earlier
  <2> QED
    BY <1>1, <2>1, <2>2 DEF MadeFits, Tells
<1>2. CASE Tells(req[r], "create", 201)
  <2>1. req[r].ride \in RideIds /\ db.rides[req[r].ride].status # "absent"
    BY <1>2 DEF MadeFits
  <2>2. db'.rides[req[r].ride].status # "absent"
    BY <2>1, RidesGrow DEF Behind, NoRide
  <2> QED
    BY <1>2, <2>1, <2>2 DEF MadeFits, Tells
<1>3. CASE ~Tells(req[r], "register", 201) /\ ~Tells(req[r], "create", 201)
  BY <1>3 DEF MadeFits
<1> QED
  BY <1>1, <1>2, <1>3

\* A request is told 201 for a row it made.
LEMMA MoverMade ==
    ASSUME Inv, Typed', NEW r \in Requests, Kinds(r)
    PROVE  MadeFits(r)'
<1>0. /\ req[r] \in Request /\ db.drivers \in [Users -> DriverIds \cup {NoId}]
      /\ db.rides \in [RideIds -> RideRow] /\ db = [drivers |-> db.drivers, rides |-> db.rides]
      /\ NamesFit
  BY Unfold, Tables
<1>1. SUFFICES ASSUME req'[r].pc = "done" /\ req'[r].code = 201,
                      req'[r].op \in {"register", "create"}
               PROVE  MadeFits(r)'
  BY DEF MadeFits, Tells
<1>2. CASE Registers(r)
  <2>1. PICK code : Done(r, code)
    BY <1>2 DEF Registers
  <2>2. req'[r].op = "register" /\ req'[r].user = req[r].user /\ req[r].user \in Users
    BY <1>0, <1>2, <2>1, MovedDone DEF Moved, Registers, NamesFit
  <2>3. PICK d \in DriverIds : db' = [db EXCEPT !.drivers[req[r].user] = d]
    BY <1>2 DEF Registers, RegisterDriver, Commit
  <2>4. db'.drivers[req[r].user] = d
    BY <1>0, <2>2, <2>3
  <2> QED
    BY <2>2, <2>4, DatabaseAssumption DEF MadeFits, Tells
<1>3. CASE Creates(r)
  <2>1. PICK i \in RideIds : CreateRide(req[r].user, i) /\ (DoneRide(r, 201, i) \/ Done(r, 500))
    BY <1>3 DEF Creates
  <2>2. DoneRide(r, 201, i)
    <3>1. ~Done(r, 500)
      BY <1>0, <1>1, MovedDone DEF Moved
    <3> QED
      BY <2>1, <3>1
  <2>3. req'[r].op = "create" /\ req'[r].ride = i
    BY <1>0, <1>3, <2>2 DEF DoneRide, Slot, Creates, Request
  <2>4. db'.rides[i].status = "pending"
    BY <1>0, <2>1 DEF CreateRide, Commit
  <2> QED
    BY <2>3, <2>4 DEF MadeFits, Tells
<1>4. CASE Rejects(r)
  <2>1. PICK code \in Codes \ {200, 201} : Done(r, code)
    BY <1>4 DEF Rejects
  <2> QED
    BY <1>0, <1>1, <2>1, MovedDone DEF Moved
<1>5. CASE Stores(r) \/ Replies(r)
  BY <1>0, <1>1, <1>5, MovedDone DEF Stores, Replies, Moved
<1>6. CASE Reads(r)
  <2>1. PICK list : DoneWith(r, 200, list) \/ WentWith(r, "store", list)
    BY <1>6 DEF Reads
  <2> QED
    BY <1>0, <1>1, <2>1, MovedDoneWith, MovedSeen DEF Moved
<1>7. CASE FindsDriver(r)
  <2>1. PICK pc \in {"exec", "ride"} : \E driver : WentAs(r, pc, driver)
    BY <1>7 DEF FindsDriver
  <2>2. Moved(r, pc, req[r].code)
    BY <1>0, <2>1, MovedDriver
  <2> QED
    BY <1>1, <2>1, <2>2 DEF Moved
<1>8. CASE Advances(r) \/ Passes(r) \/ Accepts(r) \/ Completes(r) \/ Deletes(r)
  <2>1. PICK pc \in {"exec", "cache", "query", "del", "reply"} : Went(r, pc)
    BY <1>8 DEF Advances, Passes, Accepts, Completes, Deletes
  <2>2. Moved(r, pc, req[r].code)
    BY <1>0, <2>1, MovedPc
  <2> QED
    BY <1>1, <2>1, <2>2 DEF Moved
<1>9. CASE Arrives(r) \/ Leaves(r)
  <2>1. req'[r].code = 0
    <3>1. CASE Arrives(r)
      BY <3>1, ArrivedFields DEF Arrives
    <3>2. CASE Leaves(r)
      BY <3>2 DEF Leaves, Slot, Idle
    <3> QED
      BY <1>9, <3>1, <3>2
  <2> QED
    BY <1>1, <2>1
<1> QED
  BY <1>2, <1>3, <1>4, <1>5, <1>6, <1>7, <1>8, <1>9 DEF Kinds

\* So for all requests.
LEMMA MadeStep ==
    ASSUME Inv, Typed', Forward, Next, \A r \in Requests : MadeFits(r)
    PROVE  \A r \in Requests : MadeFits(r)'
<1>1. ASSUME NEW r \in Requests PROVE MadeFits(r)'
  BY <1>1, Unfold, MadeStays, MoverMade, Mover
<1> QED
  BY <1>1

\* What an answer says of a ride is so after the step that gave it.
LEMMA PromiseHolds ==
    ASSUME Inv', NEW r \in Requests, MadeFits(r)', NEW i \in RideIds
    PROVE  /\ Promise(req'[r], i) \in 0 .. 3
           /\ Promise(req'[r], i) <= Progress[db'.rides[i].status]
<1>1. KeepsRide(r)' /\ db'.rides[i].status \in Statuses
  BY DEF Inv, RidesHeld, TypeOK, DatabaseTypeOK, Contents, RideRow
<1>2. req'[r].ride = i /\ Tells(req'[r], "create", 201) => db'.rides[i].status # "absent"
  BY DEF MadeFits
<1>3. req'[r].ride = i /\ Tells(req'[r], "accept", 200)
        => db'.rides[i].status \in {"accepted", "completed"}
  BY <1>1 DEF KeepsRide, Held, Succeeded, Tells
<1>4. req'[r].ride = i /\ Tells(req'[r], "complete", 200) => db'.rides[i].status = "completed"
  BY <1>1 DEF KeepsRide, Held, Succeeded, Tells
<1> QED
  BY <1>1, <1>2, <1>3, <1>4, PromiseKept

\* What has been told grows with the answers.
LEMMA ToldGrows ==
    ASSUME ToldFits, Observe, NEW i \in RideIds,
           \A r \in Requests : Promise(req'[r], i) \in 0 .. 3
    PROVE  /\ told'[i] \in 0 .. 3 /\ told[i] <= told'[i]
           /\ \A r \in Requests : Promise(req'[r], i) <= told'[i]
           /\ told'[i] = told[i] \/ \E r \in Requests : told'[i] = Promise(req'[r], i)
<1> DEFINE S == {told[i]} \cup {Promise(req'[r], i) : r \in Requests}
<1>1. told'[i] = Max(S)
  BY DEF Observe
<1>2. S \in SUBSET (0 .. 3) /\ told[i] \in S /\ \A r \in Requests : Promise(req'[r], i) \in S
  BY DEF ToldFits
<1> HIDE DEF S
<1>3. Max(S) \in S /\ \A m \in S : m <= Max(S)
  BY <1>2, Largest
<1>4. Max(S) \in 0 .. 3
  BY <1>2, <1>3
<1> QED
  BY <1>1, <1>2, <1>3, <1>4 DEF S

\* No more is told than is so, and no client waits for more.
LEMMA ToldStep ==
    ASSUME Inv, Inv', Forward, Observe, ToldFits, \A r \in Requests : MadeFits(r)'
    PROVE  ToldFits'
<1>0. Typed'
  BY DEF Inv, Typed
<1>1. ASSUME NEW i \in RideIds
      PROVE  /\ told'[i] \in 0 .. 3 /\ told'[i] <= Progress[db'.rides[i].status]
             /\ \A r \in Requests : Promise(req'[r], i) <= told'[i]
  <2>1. \A r \in Requests : /\ Promise(req'[r], i) \in 0 .. 3
                            /\ Promise(req'[r], i) <= Progress[db'.rides[i].status]
    BY PromiseHolds
  <2>2. told[i] \in 0 .. 3 /\ told[i] <= Progress[db'.rides[i].status]
    BY <1>0, RidesGrow DEF ToldFits
  <2> QED
    BY <2>1, <2>2, ToldGrows
<1>2. told' \in [RideIds -> 0 .. 3]
  <2>1. told' = [i \in RideIds |-> told'[i]]
    BY DEF Observe
  <2> QED
    BY <1>1, <2>1
<1>3. ASSUME NEW r \in Requests
      PROVE  /\ began'[r] \in [RideIds -> 0 .. 3]
             /\ \A i \in RideIds : began'[r][i] <= Progress[db'.rides[i].status]
  <2>1. began'[r] = NothingTold \/ began'[r] = told \/ began'[r] = began[r]
    BY DEF Observe
  <2>2. \A i \in RideIds : /\ NothingTold[i] = 0
                           /\ told[i] <= Progress[db'.rides[i].status]
                           /\ began[r][i] <= Progress[db'.rides[i].status]
                           /\ 0 <= Progress[db'.rides[i].status]
    BY <1>0, RidesGrow DEF ToldFits, NothingTold, Progress
  <2>3. NothingTold \in [RideIds -> 0 .. 3]
    BY DEF NothingTold, Progress
  <2> QED
    BY <2>1, <2>2, <2>3 DEF ToldFits
<1>4. began' \in [Requests -> [RideIds -> 0 .. 3]]
  BY <1>3 DEF Observe
<1> QED
  BY <1>1, <1>2, <1>3, <1>4 DEF ToldFits

\* A registration and an accept that were granted last.
LEMMA GrantedStep ==
    ASSUME Inv, Inv', Forward, Observe, GrantedFits, \A r \in Requests : MadeFits(r)'
    PROVE  GrantedFits'
<1>0. Typed' /\ DatabaseTypeOK' /\ NamesFit'
  BY DEF Inv, Typed, TypeOK
<1>1. ASSUME NEW g \in granted
      PROVE  \/ \E u \in Users : \E i : g = <<"register", u, i>> /\ db'.drivers[u] # NoId
             \/ \E u \in Users, i \in RideIds : g = <<"accept", u, i>> /\ Held(i, u)'
  <2>1. CASE \E u \in Users : \E i : g = <<"register", u, i>> /\ db.drivers[u] # NoId
    <3>1. \A u \in Users : db.drivers[u] # NoId => db'.drivers[u] = db.drivers[u]
      BY DEF Forward, Earlier
    <3> QED
      BY <2>1, <3>1
  <2>2. CASE \E u \in Users, i \in RideIds : g = <<"accept", u, i>> /\ Held(i, u)
    BY <1>0, <2>2, HeldStays
  <2> QED
    BY <2>1, <2>2 DEF GrantedFits
<1>2. ASSUME NEW r \in Requests, Grants(req'[r]),
             NEW g, g = <<req'[r].op, req'[r].user, req'[r].ride>>
      PROVE  \/ \E u \in Users : \E i : g = <<"register", u, i>> /\ db'.drivers[u] # NoId
             \/ \E u \in Users, i \in RideIds : g = <<"accept", u, i>> /\ Held(i, u)'
  <2>1. CASE Tells(req'[r], "register", 201)
    BY <1>0, <1>2, <2>1 DEF MadeFits, Tells, NamesFit
  <2>2. CASE Tells(req'[r], "accept", 200)
    <3>1. req'[r].user \in Users /\ req'[r].ride \in RideIds /\ Held(req[r].ride, req[r].user)'
      BY <1>0, <2>2 DEF Inv, RidesHeld, KeepsRide, Succeeded, Tells, NamesFit
    <3> QED
      BY <1>2, <2>2, <3>1 DEF Tells
  <2> QED
    BY <1>2, <2>1, <2>2 DEF Grants
<1>3. granted' = granted \cup
        {<<req'[r].op, req'[r].user, req'[r].ride>> : r \in {q \in Requests : Grants(req'[q])}}
  BY DEF Observe
<1> QED
  BY <1>1, <1>2, <1>3 DEF GrantedFits

-----------------------------------------------------------------------------
(***************************************************************************)
(* The cached list, the histories and the refusals.                        *)
(***************************************************************************)

\* The inductive invariant of ClientSpec.
ClientInv ==
    /\ Inv
    /\ \A r \in Requests : MadeFits(r)
    /\ ToldFits
    /\ GrantedFits

\* It starts true.
LEMMA ClientInvInit == ClientInit => ClientInv
<1> SUFFICES ASSUME ClientInit PROVE ClientInv
  OBVIOUS
<1>1. /\ Init /\ told = NothingTold /\ granted = {}
      /\ began = [r \in Requests |-> NothingTold]
  BY DEF ClientInit
<1>2. /\ db.rides \in [RideIds -> RideRow] /\ req = [r \in Requests |-> Idle]
  BY <1>1, DatabaseAssumption DEF Init, DatabaseInit, RequestsInit, Contents
<1>3. \A r \in Requests : \A op, code : ~Tells(req[r], op, code)
  BY <1>2 DEF Tells, Idle
<1>4. ToldFits
  <2>1. /\ NothingTold \in [RideIds -> 0 .. 3]
        /\ \A i \in RideIds : NothingTold[i] = 0 /\ Progress[db.rides[i].status] \in 0 .. 3
    BY <1>2, ProgressRange DEF NothingTold, Progress, RideRow
  <2>2. \A r \in Requests, i \in RideIds : Promise(req[r], i) = 0
    BY <1>3 DEF Promise, Progress
  <2> QED
    BY <1>1, <2>1, <2>2 DEF ToldFits
<1> QED
  BY <1>1, <1>3, <1>4, InitInv DEF ClientInv, MadeFits, GrantedFits

\* Every step keeps it.
LEMMA ClientInvStep == ClientInv /\ [Next /\ Observe]_clientVars => ClientInv'
<1> SUFFICES ASSUME ClientInv, [Next /\ Observe]_clientVars PROVE ClientInv'
  OBVIOUS
<1>1. CASE Next /\ Observe
  <2>1. Inv' /\ Typed' /\ Forward
    <3>1. Inv'
      BY <1>1, InvStep DEF ClientInv
    <3> QED
      BY <1>1, <3>1, StepForward DEF ClientInv, Inv, Typed
  <2>2. \A r \in Requests : MadeFits(r)'
    BY <1>1, <2>1, MadeStep DEF ClientInv
  <2> QED
    BY <1>1, <2>1, <2>2, ToldStep, GrantedStep DEF ClientInv
<1>2. CASE UNCHANGED clientVars
  <2>1. Inv'
    BY <1>2, InvStep DEF ClientInv, clientVars, vars
  <2> QED
    BY <1>2, <2>1 DEF ClientInv, clientVars, MadeFits, ToldFits, GrantedFits, Held
<1> QED
  BY <1>1, <1>2

\* Steps of the services that leave another list in the key.
LEMMA CacheMoves ==
    ASSUME Typed, Next
    PROVE  cache' = cache \/ cache' = NoList \/ \E r \in Requests : Caches(r)
<1>1. ASSUME NEW r \in Requests, RideServiceStep(r)
      PROVE  cache' = cache \/ cache' = NoList \/ Caches(r)
  <2>1. CASE ListStore(r)
    <3>1. req'[r].pc = "done" /\ req'[r].code = 200
      BY <2>1 DEF ListStore, Answer, Typed, TypeOK, Request
    <3> QED
      BY <2>1, <3>1, AskedKept DEF ListStore, Set, Caches, HandlerStep, RideServiceStep, At, Tells
  <2>2. CASE ~ListStore(r)
    BY <1>1, <2>2 DEF RideServiceStep, CreateAdmit, CreateExec, ListAdmit, ListCache, Get, ListQuery,
       AcceptDriver, AcceptExec, AcceptDel, AcceptReply, Del, CompleteDriver, CompleteRideCheck,
       CompleteExec, CompleteDel, CompleteReply, HistoryAdmit, HistoryQuery
  <2> QED
    BY <2>1, <2>2
<1>2. ASSUME NEW r \in Requests, Begin(r) \/ DriverServiceStep(r) \/ Fail(r) \/ Forget(r)
      PROVE  cache' = cache
  BY <1>2 DEF Begin, DriverServiceStep, RegisterAdmit, RegisterExec, Fail, Forget
<1> QED
  BY <1>1, <1>2 DEF Next, HandlerStep, CacheExpires, Expire, SlavesCatchUp

\* Where a handler stands after each of its answers and awaits.
LEMMA NewPc ==
    ASSUME req \in [Requests -> Request], NEW r \in Requests
    PROVE  /\ \A pc : Goto(r, pc) => req'[r].pc = pc
           /\ \A pc, d : GotoAs(r, pc, d) => req'[r].pc = pc
           /\ \A pc, list : GotoWith(r, pc, list) => req'[r].pc = pc /\ req'[r].seen = list
           /\ \A code : Answer(r, code) =>
                req'[r].pc = "done" /\ req'[r].code = code /\ req'[r].seen = req[r].seen
           /\ \A code, list : AnswerWith(r, code, list) =>
                req'[r].pc = "done" /\ req'[r].seen = list
           /\ \A code, i : AnswerRide(r, code, i) => req'[r].pc = "done"
<1>1. req[r] \in Request
  OBVIOUS
<1>2. ASSUME NEW pc, Goto(r, pc) PROVE req'[r].pc = pc
  BY <1>1, <1>2 DEF Goto, Request
<1>3. ASSUME NEW pc, NEW d, GotoAs(r, pc, d) PROVE req'[r].pc = pc
  BY <1>1, <1>3 DEF GotoAs, Request
<1>4. ASSUME NEW pc, NEW list, GotoWith(r, pc, list)
      PROVE  req'[r].pc = pc /\ req'[r].seen = list
  BY <1>1, <1>4 DEF GotoWith, Request
<1>5. ASSUME NEW code, Answer(r, code)
      PROVE  req'[r].pc = "done" /\ req'[r].code = code /\ req'[r].seen = req[r].seen
  BY <1>1, <1>5 DEF Answer, Request
<1>6. ASSUME NEW code, NEW list, AnswerWith(r, code, list)
      PROVE  req'[r].pc = "done" /\ req'[r].seen = list
  BY <1>1, <1>6 DEF AnswerWith, Request
<1>7. ASSUME NEW code, NEW i, AnswerRide(r, code, i) PROVE req'[r].pc = "done"
  BY <1>1, <1>7 DEF AnswerRide, Request
<1> QED
  BY <1>2, <1>3, <1>4, <1>5, <1>6, <1>7

\* The steps that the theorem about lists turns on: a DEL that Redis ran, a list
\* that was read, and a list that was answered.
Turns(r) ==
    /\ req'[r].pc = "reply" => AcceptDel(r) \/ CompleteDel(r)
    /\ req'[r].op = "list" /\ req'[r].pc = "store" => ListQuery(r)
    /\ Tells(req'[r], "list", 200) => ListCache(r) \/ ListStore(r)

LEMMA HandlerTurns ==
    ASSUME Typed, NEW r \in Requests, HandlerStep(r)
    PROVE  Turns(r)
<1>0. req \in [Requests -> Request] /\ req'[r].op = req[r].op
  BY AskedKept DEF Typed, TypeOK
<1>1. CASE DriverServiceStep(r)
  BY <1>0, <1>1, NewPc DEF DriverServiceStep, RegisterAdmit, RegisterExec, Turns, Tells, At
<1>2. CASE CreateAdmit(r) \/ CreateExec(r) \/ HistoryAdmit(r) \/ HistoryQuery(r)
  BY <1>0, <1>2, NewPc
  DEF CreateAdmit, CreateExec, HistoryAdmit, HistoryQuery, Turns, Tells, At
<1>3. CASE ListAdmit(r)
  BY <1>0, <1>3, NewPc DEF ListAdmit, Turns, Tells
<1>4. CASE ListCache(r)
  BY <1>0, <1>4, NewPc DEF ListCache, Turns, Tells
<1>5. CASE ListQuery(r) \/ ListStore(r)
  BY <1>0, <1>5, NewPc DEF ListQuery, ListStore, Turns, Tells
<1>6. CASE AcceptDriver(r) \/ AcceptExec(r) \/ AcceptDel(r) \/ AcceptReply(r)
  BY <1>0, <1>6, NewPc
  DEF AcceptDriver, AcceptExec, AcceptDel, AcceptReply, Turns, Tells, At
<1>7. CASE CompleteDriver(r) \/ CompleteRideCheck(r) \/ CompleteExec(r) \/ CompleteDel(r)
            \/ CompleteReply(r)
  BY <1>0, <1>7, NewPc
  DEF CompleteDriver, CompleteRideCheck, CompleteExec, CompleteDel, CompleteReply,
      Turns, Tells, At
<1> QED
  BY <1>1, <1>2, <1>3, <1>4, <1>5, <1>6, <1>7 DEF HandlerStep, RideServiceStep

LEMMA AllTurns ==
    ASSUME Typed, NEW r \in Requests, Begin(r) \/ HandlerStep(r) \/ Fail(r) \/ Forget(r)
    PROVE  Turns(r)
<1>0. req \in [Requests -> Request] /\ req[r] \in Request
  BY DEF Typed, TypeOK
<1>1. CASE Begin(r)
  <2>1. ASSUME NEW op, NEW u, NEW i, NEW pc \in {"admit", "driver"}, Arrive(r, op, u, i, pc)
        PROVE  req'[r].pc = pc
    BY <1>0, <2>1 DEF Arrive, Idle
  <2>2. req'[r].pc \in {"admit", "driver"}
    BY <1>1, <2>1 DEF Begin
  <2> QED
    BY <2>2 DEF Turns, Tells
<1>2. CASE Fail(r)
  BY <1>0, <1>2, NewPc DEF Fail, Turns, Tells
<1>3. CASE Forget(r)
  BY <1>0, <1>3 DEF Forget, Idle, Turns, Tells
<1> QED
  BY <1>1, <1>2, <1>3, HandlerTurns

\* The request that changed is the one a step is of, and no other changed.
LEMMA TheMover ==
    ASSUME Typed, Next, NEW q \in Requests, req'[q] # req[q]
    PROVE  Turns(q) /\ Sources(q) /\ \A r \in Requests : req'[r] # req[r] => r = q
BY Mover, AllTurns, OthersAreStill

\* Ride i is in the list as far as n at least, if at all.
Shows(list, i, n) == list[i] # NoRide => Progress[list[i].status] >= n

\* The list shows all that was told, and all that is about to be told.
UpToDate(list) ==
    /\ ShowsAtLeast(list, told)
    /\ \A q \in Requests :
         /\ At(q, "accept", "reply") => Shows(list, req[q].ride, Progress.accepted)
         /\ At(q, "complete", "reply") => Shows(list, req[q].ride, Progress.completed)

\* What is told grows, and what a client waits for with it.
BeganFits == \A r \in Requests, i \in RideIds : began[r][i] <= told[i]

\* Only lists that a Del has overtaken are behind.
EntryFits == cache # NoList /\ ~late => UpToDate(cache)

CarriedFits(r) ==
    At(r, "list", "store") =>
        /\ req[r].seen \in Views
        /\ ShowsAtLeast(req[r].seen, began[r])
        /\ r \notin overtaken => UpToDate(req[r].seen)

ListInv ==
    /\ ClientInv
    /\ past = {}
    /\ BeganFits
    /\ EntryFits
    /\ \A r \in Requests : CarriedFits(r)

\* What is told grows.
LEMMA BeganStep ==
    ASSUME ListInv, ClientInv', Observe
    PROVE  BeganFits' /\ \A i \in RideIds : told[i] <= told'[i]
<1>0. told \in [RideIds -> 0 .. 3] /\ began \in [Requests -> [RideIds -> 0 .. 3]]
  BY DEF ListInv, ClientInv, ToldFits
<1>1. ASSUME NEW i \in RideIds PROVE told'[i] \in 0 .. 3 /\ told[i] <= told'[i]
  <2>1. \A r \in Requests : Promise(req'[r], i) \in 0 .. 3
    BY PromiseHolds DEF ClientInv
  <2> QED
    BY <2>1, ToldGrows DEF ListInv, ClientInv
<1>2. ASSUME NEW r \in Requests, NEW i \in RideIds PROVE began'[r][i] <= told'[i]
  <2>1. began'[r] = NothingTold \/ began'[r] = told \/ began'[r] = began[r]
    BY DEF Observe
  <2>2. NothingTold[i] = 0
    BY DEF NothingTold, Progress
  <2>3. told[i] \in 0 .. 3 /\ began[r][i] \in 0 .. 3 /\ began[r][i] <= told[i]
    BY <1>0 DEF ListInv, BeganFits
  <2> QED
    BY <1>1, <2>1, <2>2, <2>3
<1> QED
  BY <1>1, <1>2 DEF BeganFits

\* A list that shows so much shows any less.
LEMMA ShowsLess ==
    ASSUME NEW more \in [RideIds -> 0 .. 3], NEW less \in [RideIds -> 0 .. 3],
           \A i \in RideIds : less[i] <= more[i],
           NEW list \in Views, ShowsAtLeast(list, more)
    PROVE  ShowsAtLeast(list, less)
<1> SUFFICES ASSUME NEW i \in RideIds, list[i] # NoRide, less[i] > Progress.pending
             PROVE  Progress[list[i].status] >= less[i]
  BY DEF ShowsAtLeast
<1>1. /\ more[i] \in 0 .. 3 /\ less[i] \in 0 .. 3 /\ less[i] <= more[i]
      /\ Progress[list[i].status] \in 0 .. 3 /\ Progress.pending = 1
  BY ProgressRange DEF Views, RideRow, Progress
<1>2. Progress[list[i].status] >= more[i]
  BY <1>1 DEF ShowsAtLeast
<1> QED
  BY <1>1, <1>2

\* A list read from the master is up to date.
LEMMA QueryIsUpToDate ==
    ASSUME ClientInv', NEW list, list = ListActiveRides(db')
    PROVE  list \in Views /\ UpToDate(list)'
<1>0. /\ Typed' /\ NamesFit' /\ RidesHeld' /\ db'.rides \in [RideIds -> RideRow]
      /\ told' \in [RideIds -> 0 .. 3]
      /\ \A i \in RideIds : told'[i] <= Progress[db'.rides[i].status]
  BY DEF ClientInv, Inv, Typed, TypeOK, DatabaseTypeOK, Contents, ToldFits
<1>1. NoRide \in RideRow
  BY DEF NoRide, RideRow, Statuses
<1>2. list \in Views
  BY <1>0, <1>1 DEF ListActiveRides, Views
<1>3. ASSUME NEW i \in RideIds, list[i] # NoRide
      PROVE  list[i] = db'.rides[i] /\ db'.rides[i].status # "completed"
  BY <1>3 DEF ListActiveRides
<1>4. ShowsAtLeast(list, told')
  <2>1. ASSUME NEW i \in RideIds, list[i] # NoRide PROVE Progress[list[i].status] >= told'[i]
    <3>1. /\ Progress[db'.rides[i].status] \in 0 .. 3 /\ told'[i] \in 0 .. 3
          /\ told'[i] <= Progress[db'.rides[i].status]
      BY <1>0, ProgressRange DEF RideRow
    <3> QED
      BY <1>3, <2>1, <3>1
  <2> QED
    BY <2>1 DEF ShowsAtLeast
<1>5. ASSUME NEW q \in Requests
      PROVE  /\ At(q, "accept", "reply")' => Shows(list, req'[q].ride, Progress.accepted)
             /\ At(q, "complete", "reply")' => Shows(list, req'[q].ride, Progress.completed)
  <2>1. ASSUME At(q, "accept", "reply")'
        PROVE  Shows(list, req'[q].ride, Progress.accepted)
    <3>1. /\ req'[q].ride \in RideIds
          /\ db'.rides[req'[q].ride].status \in {"accepted", "completed"}
      BY <1>0, <2>1 DEF NamesFit, RidesHeld, KeepsRide, Succeeded, Held, At
    <3> QED
      BY <1>3, <3>1 DEF Shows, Progress
  <2>2. ASSUME At(q, "complete", "reply")'
        PROVE  Shows(list, req'[q].ride, Progress.completed)
    <3>1. req'[q].ride \in RideIds /\ db'.rides[req'[q].ride].status = "completed"
      BY <1>0, <2>2 DEF NamesFit, RidesHeld, KeepsRide, Succeeded, At
    <3> QED
      BY <1>3, <3>1 DEF Shows
  <2> QED
    BY <2>1, <2>2
<1> QED
  BY <1>2, <1>4, <1>5 DEF UpToDate

\* A list stays up to date until the next Del: what is told by then was about to
\* be told before.
LEMMA UpToDateStays ==
    ASSUME ListInv, ClientInv', Next, Observe, ~\E q \in Requests : RunsDel(q),
           NEW list \in Views, UpToDate(list)
    PROVE  UpToDate(list)'
<1>0. /\ Typed /\ NamesFit /\ req \in [Requests -> Request] /\ Typed'
      /\ \A i \in RideIds : Progress[list[i].status] \in 0 .. 3
  BY Unfold, ProgressRange DEF ListInv, ClientInv, Inv, Typed, Views, RideRow
<1>1. ASSUME NEW i \in RideIds, list[i] # NoRide, told'[i] > Progress.pending
      PROVE  Progress[list[i].status] >= told'[i]
  <2>0. \A r \in Requests : Promise(req'[r], i) \in 0 .. 3
    BY PromiseHolds DEF ClientInv
  <2>1. CASE told'[i] = told[i]
    BY <1>1, <2>1 DEF UpToDate, ShowsAtLeast
  <2>2. CASE told'[i] # told[i]
    <3>1. PICK r \in Requests : told'[i] = Promise(req'[r], i)
      BY <2>0, <2>2, ToldGrows DEF ListInv, ClientInv
    <3>2. req'[r] # req[r]
      <4>1. /\ told[i] \in 0 .. 3 /\ told[i] <= told'[i] /\ told'[i] \in 0 .. 3
            /\ Promise(req[r], i) <= told[i]
        BY <2>0, ToldGrows DEF ListInv, ClientInv, ToldFits
      <4> QED
        BY <2>2, <3>1, <4>1
    <3>3. Sources(r)
      BY <1>0, <3>2, TheMover
    <3>4. req'[r].ride = i
      BY <1>1, <3>1 DEF Promise, Progress
    <3>5. AcceptReply(r) \/ CompleteReply(r)
      BY <1>1, <3>1, <3>3 DEF Promise, Progress, Sources
    <3>6. req'[r].ride = req[r].ride /\ req'[r].op = req[r].op
      BY <1>0, <3>5 DEF AcceptReply, CompleteReply, Answer, Request
    <3>7. CASE AcceptReply(r)
      <4>1. At(r, "accept", "reply") /\ told'[i] = Progress.accepted
        BY <1>1, <3>1, <3>6, <3>7 DEF AcceptReply, At, Promise, Tells, Progress
      <4> QED
        BY <1>1, <3>4, <3>6, <4>1 DEF UpToDate, Shows
    <3>8. CASE CompleteReply(r)
      <4>1. At(r, "complete", "reply") /\ told'[i] = Progress.completed
        BY <1>1, <3>1, <3>6, <3>8 DEF CompleteReply, At, Promise, Tells, Progress
      <4> QED
        BY <1>1, <3>4, <3>6, <4>1 DEF UpToDate, Shows
    <3> QED
      BY <3>5, <3>7, <3>8
  <2> QED
    BY <2>1, <2>2
<1>2. ASSUME NEW q \in Requests, req'[q].pc = "reply"
      PROVE  req'[q] = req[q]
  <2> SUFFICES ASSUME req'[q] # req[q] PROVE FALSE
    OBVIOUS
  <2>1. AcceptDel(q) \/ CompleteDel(q)
    BY <1>0, <1>2, TheMover DEF Turns
  <2> QED
    BY <1>2, <2>1 DEF AcceptDel, CompleteDel, At, RunsDel
<1>3. ASSUME NEW q \in Requests
      PROVE  /\ At(q, "accept", "reply")' => Shows(list, req'[q].ride, Progress.accepted)
             /\ At(q, "complete", "reply")' => Shows(list, req'[q].ride, Progress.completed)
  BY <1>2 DEF At, UpToDate
<1> QED
  BY <1>1, <1>3 DEF UpToDate, ShowsAtLeast

\* The entry that a step leaves.
LEMMA EntryStep ==
    ASSUME ~RedisMayFail, ListInv, ClientInv', Next, Observe
    PROVE  EntryFits'
<1> SUFFICES ASSUME cache' # NoList, ~late' PROVE UpToDate(cache)'
  BY DEF EntryFits
<1>0. /\ Typed /\ req \in [Requests -> Request]
      /\ cache \in Views \cup {NoList}
  BY Unfold DEF ListInv, ClientInv
<1>1. ~IF \E r \in Requests : Caches(r) THEN \E r \in overtaken : Caches(r) ELSE late
  <2>1. late' = /\ cache' # NoList
                /\ IF \E r \in Requests : Caches(r) THEN \E r \in overtaken : Caches(r) ELSE late
    BY DEF Observe
  <2> QED
    BY <2>1, Zenon
<1>2. ~\E q \in Requests : RunsDel(q)
  <2> SUFFICES ASSUME NEW q \in Requests, RunsDel(q) PROVE FALSE
    OBVIOUS
  <2>1. AcceptDel(q) \/ CompleteDel(q)
    BY <1>0, TheMover DEF RunsDel, Turns
  <2> QED
    BY <2>1 DEF AcceptDel, CompleteDel, Del
<1>3. CASE \E r \in Requests : Caches(r)
  <2>1. PICK r \in Requests : Caches(r)
    BY <1>3
  <2>2. r \notin overtaken
    BY <1>1, <1>3, <2>1
  <2>3. ListStore(r)
    <3>1. req'[r] # req[r] /\ ~ListCache(r)
      BY <2>1 DEF Caches, ListCache, At, Tells
    <3> QED
      BY <1>0, <2>1, <3>1, TheMover DEF Turns, Caches
  <2>4. cache' = req[r].seen
    BY <2>3 DEF ListStore, Set
  <2>5. req[r].seen \in Views /\ UpToDate(req[r].seen)
    BY <2>1, <2>2 DEF Caches, ListInv, CarriedFits
  <2>6. ASSUME NEW l \in Views, UpToDate(l), cache' = l PROVE UpToDate(cache)'
    BY <1>2, <2>6, UpToDateStays DEF UpToDate
  <2> QED
    BY <2>4, <2>5, <2>6
<1>4. CASE ~\E r \in Requests : Caches(r)
  <2>1. cache' = cache /\ ~late
    BY <1>0, <1>4, <1>1, CacheMoves
  <2>2. cache \in Views /\ UpToDate(cache)
    BY <1>0, <2>1 DEF ListInv, EntryFits
  <2>3. ASSUME NEW l \in Views, UpToDate(l), cache' = l PROVE UpToDate(cache)'
    BY <1>2, <2>3, UpToDateStays DEF UpToDate
  <2> QED
    BY <2>1, <2>2, <2>3
<1> QED
  BY <1>3, <1>4

\* The list a request carries to the SETEX.
LEMMA CarriedStep ==
    ASSUME ListInv, ClientInv', BeganFits', Next, Observe, NEW r \in Requests
    PROVE  CarriedFits(r)'
<1> SUFFICES ASSUME At(r, "list", "store")'
             PROVE  /\ req'[r].seen \in Views
                    /\ ShowsAtLeast(req'[r].seen, began'[r])
                    /\ r \notin overtaken' => UpToDate(req[r].seen)'
  BY DEF CarriedFits
<1>0. Typed /\ req \in [Requests -> Request] /\ past = {} /\ Visible = {db}
  BY Unfold DEF ListInv, ClientInv, Visible
<1>1. CASE req'[r] = req[r]
  <2>1. At(r, "list", "store") /\ CarriedFits(r)
    BY <1>1 DEF At, ListInv
  <2>2. began'[r] = began[r]
    BY <1>1, <2>1 DEF Observe, At
  <2>3. ASSUME r \notin overtaken' PROVE UpToDate(req[r].seen)'
    <3>1. r \notin overtaken /\ ~\E q \in Requests : RunsDel(q)
      BY <1>1, <2>1, <2>3 DEF Observe, At
    <3>2. ASSUME NEW l \in Views, UpToDate(l), req'[r].seen = l PROVE UpToDate(req[r].seen)'
      BY <3>1, <3>2, UpToDateStays DEF UpToDate
    <3> QED
      BY <1>1, <2>1, <3>1, <3>2 DEF CarriedFits
  <2> QED
    BY <1>1, <2>1, <2>2, <2>3 DEF CarriedFits
<1>2. CASE req'[r] # req[r]
  <2>1. ListQuery(r)
    BY <1>0, <1>2, TheMover DEF Turns, At
  <2>2. PICK list : list = ListActiveRides(db')
    OBVIOUS
  <2>3. req'[r].seen = list
    BY <1>0, <2>1, <2>2, NewPc DEF ListQuery
  <2>4. list \in Views /\ UpToDate(list)'
    BY <2>2, QueryIsUpToDate
  <2>5. UpToDate(req[r].seen)' /\ ShowsAtLeast(list, told')
    BY <2>3, <2>4 DEF UpToDate
  <2>6. ShowsAtLeast(list, began'[r])
    <3>1. /\ told' \in [RideIds -> 0 .. 3] /\ began'[r] \in [RideIds -> 0 .. 3]
          /\ \A i \in RideIds : began'[r][i] <= told'[i]
      BY DEF ClientInv, ToldFits, BeganFits
    <3> QED
      BY <2>4, <2>5, <3>1, ShowsLess
  <2> QED
    BY <2>3, <2>4, <2>5, <2>6
<1> QED
  BY <1>1, <1>2

\* It starts true.
LEMMA ListInvInit == ClientInit => ListInv
<1> SUFFICES ASSUME ClientInit PROVE ListInv
  OBVIOUS
<1>1. /\ past = {} /\ cache = NoList /\ req = [r \in Requests |-> Idle]
      /\ told = NothingTold /\ began = [r \in Requests |-> NothingTold]
  BY DEF ClientInit, Init, DatabaseInit, RedisInit, RequestsInit
<1>2. BeganFits
  BY <1>1 DEF BeganFits, NothingTold, Progress
<1>3. EntryFits /\ \A r \in Requests : CarriedFits(r)
  BY <1>1 DEF EntryFits, CarriedFits, At, Idle
<1> QED
  BY <1>1, <1>2, <1>3, ClientInvInit DEF ListInv

\* Every step keeps it.
LEMMA ListInvStep ==
    ASSUME ~HasSlaves, ~RedisMayFail, ListInv, [Next /\ Observe]_clientVars
    PROVE  ListInv'
<1>1. ClientInv'
  BY ClientInvStep DEF ListInv
<1>2. CASE Next /\ Observe
  <2>1. past' = {}
    BY <1>2, Unfold, NoPast DEF ListInv, ClientInv
  <2>2. BeganFits'
    BY <1>1, <1>2, BeganStep
  <2>3. EntryFits' /\ \A r \in Requests : CarriedFits(r)'
    BY <1>1, <1>2, <2>2, EntryStep, CarriedStep
  <2> QED
    BY <1>1, <2>1, <2>2, <2>3 DEF ListInv
<1>3. CASE UNCHANGED clientVars
  BY <1>1, <1>3 DEF clientVars, ListInv, BeganFits, EntryFits, CarriedFits, UpToDate, At
<1> QED
  BY <1>2, <1>3

\* An answer with a list shows what its client waits for, or comes from a late
\* entry.
LEMMA AnswersShow ==
    ASSUME ListInv, Next, NEW r \in Requests, ListAnswered(r), ~(At(r, "list", "cache") /\ late)
    PROVE  ShowsAtLeast(req'[r].seen, began[r])
<1>0. Typed /\ req \in [Requests -> Request] /\ cache \in Views \cup {NoList}
  BY Unfold DEF ListInv, ClientInv
<1>1. ListCache(r) \/ ListStore(r)
  BY <1>0, TheMover DEF ListAnswered, Tells, Turns
<1>2. CASE ListCache(r)
  <2>1. cache # NoList /\ req'[r].seen = cache /\ ~late
    <3>1. PICK found \in {cache, NoList} :
            IF found # NoList THEN AnswerWith(r, 200, found) ELSE Goto(r, "query")
      BY <1>2 DEF ListCache
    <3> QED
      BY <1>0, <1>2, <3>1, NewPc DEF ListCache, ListAnswered, Tells
  <2>2. ShowsAtLeast(cache, told)
    BY <2>1 DEF ListInv, EntryFits, UpToDate
  <2>3. /\ told \in [RideIds -> 0 .. 3] /\ began[r] \in [RideIds -> 0 .. 3]
        /\ \A i \in RideIds : began[r][i] <= told[i]
    BY DEF ListInv, ClientInv, ToldFits, BeganFits
  <2> QED
    BY <1>0, <2>1, <2>2, <2>3, ShowsLess
<1>3. CASE ListStore(r)
  BY <1>0, <1>3, NewPc DEF ListStore, ListInv, CarriedFits
<1> QED
  BY <1>1, <1>2, <1>3

\* AcceptRideHandler and CompleteRideHandler delete the key after the update and
\* before the answer.  So a list that was asked for after the answer shows the
\* update, whatever requests race, fail or die, unless some request read the
\* rows before a Del, stored them after it, and this list is the one it stored.
THEOREM OnlyLateEntriesAreBehind ==
    ASSUME ~HasSlaves, ~RedisMayFail
    PROVE  ClientSpec => OnlyLateEntriesMislead
<1>1. ListInv /\ [Next /\ Observe]_clientVars => ListInv'
  BY ListInvStep
<1>2. ListInv /\ [Next /\ Observe]_clientVars =>
        [\A r \in Requests : ListAnswered(r) =>
           \/ At(r, "list", "cache") /\ late
           \/ ShowsAtLeast(req'[r].seen, began[r])]_clientVars
  BY AnswersShow
<1> QED
  BY <1>1, <1>2, ListInvInit, PTL DEF ClientSpec, OnlyLateEntriesMislead

\* A history that was answered was read.
HistoriesRead == \A r \in Requests : Tells(req[r], "history", 200) => req[r].seen \in Views

LEMMA ReadStep ==
    ASSUME ClientInv, HistoriesRead, Next
    PROVE  HistoriesRead'
<1> SUFFICES ASSUME NEW r \in Requests, Tells(req'[r], "history", 200), req'[r] # req[r]
             PROVE  req'[r].seen \in Views
  BY DEF HistoriesRead
<1>0. Typed /\ DatabaseTypeOK /\ req \in [Requests -> Request]
  BY Unfold DEF ClientInv
<1>1. HistoryQuery(r)
  BY <1>0, Mover DEF Sources
<1>2. PICK s \in Visible : AnswerWith(r, 200, GetUserRideHistory(s, req[r].user))
  BY <1>1 DEF HistoryQuery
<1>3. req'[r].seen = GetUserRideHistory(s, req[r].user) /\ req[r].user \in Users \cup {NoId}
  BY <1>0, <1>2 DEF AnswerWith, Request
<1> QED
  BY <1>0, <1>3, QueryTypes

\* A history that is read, or the one a client already has.
LEMMA HistoryStep ==
    ASSUME ClientInv, ClientInv', past = {}, HistoriesRead, HistoryKeepsUp, Next, Observe
    PROVE  HistoryKeepsUp'
<1> SUFFICES ASSUME NEW r \in Requests, Tells(req'[r], "history", 200),
                    NEW i \in RideIds, db'.rides[i].passenger = req'[r].user
             PROVE  Progress[req'[r].seen[i].status] >= began'[r][i]
  BY DEF HistoryKeepsUp, Shown
<1>0. /\ Inv /\ Typed' /\ Forward /\ req \in [Requests -> Request]
      /\ began[r][i] \in 0 .. 3 /\ began[r][i] <= Progress[db.rides[i].status]
      /\ \A status \in Statuses : Progress[status] \in 0 .. 3
  BY StepForward, ProgressRange, Unfold DEF ClientInv, Inv, Typed, ToldFits
<1>1. began'[r] \in {began[r], told} /\ (req[r].pc # "idle" => began'[r] = began[r])
  BY DEF Observe, Tells
<1>2. CASE req'[r] = req[r]
  <2>1. began'[r] = began[r]
    BY <1>1, <1>2 DEF Tells
  <2>2. CASE db.rides[i].passenger = req[r].user
    BY <1>2, <2>1, <2>2 DEF HistoryKeepsUp, Shown
  <2>3. CASE db.rides[i].passenger # req[r].user
    <3>1. db.rides[i] = NoRide
      BY <1>0, <1>2, <2>3, RidesGrow DEF Behind
    <3>2. began[r][i] = 0
      BY <1>0, <3>1 DEF NoRide, Progress
    <3>3. Progress[req[r].seen[i].status] \in 0 .. 3
      <4>1. req[r].seen \in Views
        BY <1>2 DEF HistoriesRead
      <4> QED
        BY <1>0, <4>1 DEF Views, RideRow
    <3> QED
      BY <1>2, <2>1, <3>2, <3>3
  <2> QED
    BY <2>2, <2>3
<1>3. CASE req'[r] # req[r]
  <2>1. HistoryQuery(r)
    BY <1>0, <1>3, Unfold, Mover DEF Sources
  <2>2. /\ req[r].pc = "query" /\ UNCHANGED db
        /\ req'[r].user = req[r].user
        /\ req'[r].seen = GetUserRideHistory(db, req[r].user)
    BY <1>0, <2>1 DEF HistoryQuery, At, Visible, AnswerWith, Request
  <2>3. req'[r].seen[i] = db.rides[i]
    BY <2>2 DEF GetUserRideHistory
  <2> QED
    BY <1>0, <1>1, <2>2, <2>3
<1> QED
  BY <1>2, <1>3

\* A passenger's history is up to date: nothing told before it was asked for is
\* missing from what UserRideHistoryHandler answers.
THEOREM HistoriesKeepUp ==
    ASSUME ~HasSlaves
    PROVE  ClientSpec => []HistoryKeepsUp
<1> DEFINE Together == ClientInv /\ past = {} /\ HistoriesRead /\ HistoryKeepsUp
<1>1. ClientInit => Together
  <2>1. ClientInit => past = {} /\ HistoriesRead /\ HistoryKeepsUp
    BY DEF ClientInit, Init, DatabaseInit, RequestsInit, Idle, HistoriesRead, HistoryKeepsUp,
           Shown, Tells
  <2> QED
    BY <2>1, ClientInvInit
<1>2. Together /\ [Next /\ Observe]_clientVars => Together'
  <2> SUFFICES ASSUME Together, [Next /\ Observe]_clientVars PROVE Together'
    OBVIOUS
  <2>1. ClientInv'
    BY ClientInvStep
  <2>2. CASE Next /\ Observe
    <3>1. past' = {} /\ HistoriesRead'
      BY <2>2, Unfold, NoPast, ReadStep DEF ClientInv
    <3> QED
      BY <2>1, <2>2, <3>1, HistoryStep
  <2>3. CASE UNCHANGED clientVars
    BY <2>1, <2>3 DEF clientVars, HistoriesRead, HistoryKeepsUp, Shown
  <2> QED
    BY <2>2, <2>3
<1>3. Together => HistoryKeepsUp
  OBVIOUS
<1> QED
  BY <1>1, <1>2, <1>3, PTL DEF ClientSpec

\* What the look-ups of accept and complete rest on.
LEMMA GrantsHold ==
    ASSUME GrantedFits, NEW u
    PROVE  /\ <<"register", u, NoId>> \in granted => u \in Users /\ db.drivers[u] # NoId
           /\ \A i : <<"accept", u, i>> \in granted => u \in Users /\ i \in RideIds /\ Held(i, u)
BY DEF GrantedFits

\* No answer of 403 takes back what was granted.
LEMMA ForbidsNothingGranted ==
    ASSUME ClientInv, past = {}, Next, NEW r \in Requests, Forbids(r)
    PROVE  /\ req[r].op = "accept" => <<"register", req[r].user, NoId>> \notin granted
           /\ req[r].op = "complete" => <<"accept", req[r].user, req[r].ride>> \notin granted
<1>0. /\ Typed /\ RowsFit /\ req \in [Requests -> Request] /\ NamesFit
      /\ KnowsDriver(r) /\ GrantedFits /\ req'[r] # req[r] /\ Visible = {db}
      /\ db.drivers \in [Users -> DriverIds \cup {NoId}]
  BY Unfold, Tables DEF ClientInv, DriverIsTheirs, Forbids, Visible
<1>1. (Begin(r) \/ HandlerStep(r) \/ Fail(r) \/ Forget(r)) /\ Sources(r)
  BY <1>0, Mover
<1>2. req'[r].op = req[r].op \/ req[r].op \notin {"accept", "complete"}
  <2>1. Begin(r) => req[r].op = "none"
    <3>1. \A op, u, i, pc : Arrive(r, op, u, i, pc) => req[r] = Idle
      BY DEF Arrive
    <3> QED
      BY <3>1 DEF Begin, Idle
  <2>2. ~Fail(r) /\ ~Forget(r)
    <3>1. Fail(r) => req'[r].code = 500
      BY <1>0 DEF Fail, Answer, Request
    <3>2. Forget(r) => req'[r].pc = "idle"
      BY <1>0 DEF Forget, Idle
    <3> QED
      BY <3>1, <3>2 DEF Forbids
  <2> QED
    BY <1>0, <1>1, <2>1, <2>2, AskedKept
<1>3. CASE req[r].op = "accept"
  <2>1. AcceptDriver(r)
    BY <1>1, <1>2, <1>3 DEF Sources, Tells, Forbids
  <2>2. db.drivers[req[r].user] = NoId
    <3>1. CASE Answer(r, 403) /\ GetDriverByUserId(db, req[r].user) = NoId
      BY <3>1 DEF GetDriverByUserId
    <3>2. CASE GotoAs(r, "exec", GetDriverByUserId(db, req[r].user))
      BY <1>0, <3>2 DEF GotoAs, Forbids, Request
    <3> QED
      BY <1>0, <2>1, <3>1, <3>2 DEF AcceptDriver
  <2> QED
    BY <1>0, <1>3, <2>2, GrantsHold
<1>4. CASE req[r].op = "complete"
  <2> SUFFICES ASSUME <<"accept", req[r].user, req[r].ride>> \in granted
               PROVE  FALSE
    BY <1>4
  <2>1. req[r].user \in Users /\ req[r].ride \in RideIds /\ Held(req[r].ride, req[r].user)
    BY <1>0, GrantsHold
  <2>2. db.drivers[req[r].user] # NoId /\ db.rides[req[r].ride] # NoRide
    BY <1>0, <2>1 DEF Held, RowsFit, Fits, NoRide
  <2>3. CASE CompleteDriver(r)
    <3>1. GotoAs(r, "ride", GetDriverByUserId(db, req[r].user))
      BY <1>0, <2>2, <2>3 DEF CompleteDriver, GetDriverByUserId
    <3> QED
      BY <1>0, <3>1 DEF GotoAs, Forbids, Request
  <2>4. CASE CompleteRideCheck(r)
    <3>1. req[r].driver = db.rides[req[r].ride].driver
      BY <1>0, <2>1, <2>4 DEF CompleteRideCheck, KnowsDriver, Held, At
    <3>2. Goto(r, "exec")
      BY <1>0, <2>2, <2>4, <3>1 DEF CompleteRideCheck, GetRideById
    <3> QED
      BY <1>0, <3>2 DEF Goto, Forbids, Request
  <2> QED
    BY <1>1, <1>2, <1>4, <2>3, <2>4 DEF Sources, Tells, Forbids
<1> QED
  BY <1>3, <1>4

\* AcceptRideHandler and CompleteRideHandler know every driver and every accept
\* their clients were told of.
THEOREM GrantsAreKept ==
    ASSUME ~HasSlaves
    PROVE  ClientSpec => GrantedIsNotForbidden
<1> DEFINE Together == ClientInv /\ past = {}
<1>1. ClientInit => Together
  <2>1. ClientInit => past = {}
    BY DEF ClientInit, Init, DatabaseInit
  <2> QED
    BY <2>1, ClientInvInit
<1>2. Together /\ [Next /\ Observe]_clientVars => Together'
  <2>1. Together /\ [Next /\ Observe]_clientVars => past' = {}
    BY Unfold, NoPast DEF ClientInv, clientVars
  <2> QED
    BY <2>1, ClientInvStep
<1>3. Together /\ [Next /\ Observe]_clientVars =>
        [\A r \in Requests : Forbids(r) =>
           /\ req[r].op = "accept" => <<"register", req[r].user, NoId>> \notin granted
           /\ req[r].op = "complete" =>
                <<"accept", req[r].user, req[r].ride>> \notin granted]_clientVars
  BY ForbidsNothingGranted
<1> QED
  BY <1>1, <1>2, <1>3, PTL DEF ClientSpec, GrantedIsNotForbidden

-----------------------------------------------------------------------------
(***************************************************************************)
(* The clients of the user service.                                        *)
(***************************************************************************)

\* What a handler does to its slot: the arguments stay.
Keeps(c) ==
    /\ call'[c].op = call[c].op
    /\ call'[c].login = call[c].login
    /\ call'[c].password = call[c].password
    /\ call'[c].mask = call[c].mask

\* The operators the handlers use.
LEMMA KeepingForms ==
    ASSUME UserInv, NEW c \in Calls
    PROVE  /\ \A pc : Advance(c, pc) => Keeps(c) /\ call'[c].code = call[c].code
           /\ \A code : Reply(c, code) => Keeps(c) /\ call'[c].code = code
           /\ \A found : ReplyUsers(c, found) =>
                Keeps(c) /\ call'[c].code = 200 /\ call'[c].seen = found
           /\ \A id : ReplyToken(c, id) => Keeps(c) /\ call'[c].code = 200
           /\ \A d : Keep(c, d) => Keeps(c) /\ call'[c].code = call[c].code
<1>1. call \in [Calls -> Call] /\ call[c] \in Call
  BY DEF UserInv, UsersTypeOK
<1>2. ASSUME NEW pc, Advance(c, pc) PROVE Keeps(c) /\ call'[c].code = call[c].code
  BY <1>1, <1>2 DEF Advance, Keeps, Call
<1>3. ASSUME NEW code, Reply(c, code) PROVE Keeps(c) /\ call'[c].code = code
  BY <1>1, <1>3 DEF Reply, Keeps, Call
<1>4. ASSUME NEW found, ReplyUsers(c, found)
      PROVE  Keeps(c) /\ call'[c].code = 200 /\ call'[c].seen = found
  BY <1>1, <1>4 DEF ReplyUsers, Keeps, Call
<1>5. ASSUME NEW id, ReplyToken(c, id) PROVE Keeps(c) /\ call'[c].code = 200
  BY <1>1, <1>5 DEF ReplyToken, Keeps, Call
<1>6. ASSUME NEW d, Keep(c, d) PROVE Keeps(c) /\ call'[c].code = call[c].code
  BY <1>1, <1>6 DEF Keep, Keeps, Call
<1> QED
  BY <1>2, <1>3, <1>4, <1>5, <1>6

\* The answers the properties speak of.
Telling(c) ==
    /\ call[c].op = "create" /\ call'[c].code = 201 /\ call[c].code # 201 =>
         Insert(c) /\ ~DuplicateKey(New(c)) /\ users' = users \cup {New(c)}
    /\ call[c].op = "find" /\ call'[c].code = 404 /\ call[c].code # 404 =>
         WithLogin(call[c].login) = {}
    /\ call[c].op = "login" /\ call'[c].code = 401 /\ call[c].code # 401 =>
         \/ WithLogin(call[c].login) = {}
         \/ \E d \in WithLogin(call[c].login) : ~Unreadable(d) /\ d.password # call[c].password
    /\ call[c].op = "search" /\ call'[c].code = 200 =>
         call'[c].seen = {ToJson(d) : d \in {o \in users : o.login \in call[c].mask}}

\* A handler gives them only for the reasons the code has.
LEMMA HandlersTell ==
    ASSUME UserInv, NEW c \in Calls, UserHandlerStep(c) \/ CallFails(c)
    PROVE  Keeps(c) /\ Telling(c)
<1>1. CASE Insert(c)
  <2>1. Keeps(c) /\ call'[c].code \in {201, 409, 500} /\ call[c].op = "create"
    BY <1>1, KeepingForms DEF Insert, IsAt
  <2>2. call'[c].code = 201 => ~DuplicateKey(New(c)) /\ users' = users \cup {New(c)}
    <3>1. DuplicateKey(New(c)) => call'[c].code = 409
      BY <1>1, KeepingForms DEF Insert
    <3> QED
      BY <1>1, <3>1 DEF Insert
  <2> QED
    BY <1>1, <2>1, <2>2 DEF Telling
<1>2. CASE FindCache(c) \/ FindStore(c)
  <2>1. Keeps(c) /\ call[c].op = "find" /\ call'[c].code \in {200, call[c].code}
    BY <1>2, KeepingForms DEF FindCache, FindStore, IsAt
  <2> QED
    BY <2>1 DEF Telling
<1>3. CASE FindQuery(c)
  <2>1. call[c].op = "find"
    BY <1>3 DEF FindQuery, IsAt
  <2>2. CASE WithLogin(call[c].login) = {} /\ Reply(c, 404)
    BY <2>1, <2>2, KeepingForms DEF Telling
  <2>3. ASSUME NEW d \in WithLogin(call[c].login),
               IF Unreadable(d) THEN Reply(c, 500) ELSE Keep(c, d)
        PROVE  Keeps(c) /\ call'[c].code \in {500, call[c].code}
    BY <2>3, KeepingForms
  <2> QED
    BY <1>3, <2>1, <2>2, <2>3 DEF FindQuery, Telling
<1>4. CASE SearchQuery(c)
  <2> DEFINE found == {ToJson(d) : d \in {o \in users : o.login \in call[c].mask}}
  <2>1. Reply(c, 500) \/ ReplyUsers(c, found)
    BY <1>4 DEF SearchQuery
  <2> HIDE DEF found
  <2>2. Keeps(c) /\ call[c].op = "search" /\ (call'[c].code = 200 => call'[c].seen = found)
    BY <1>4, <2>1, KeepingForms DEF SearchQuery, IsAt
  <2> QED
    BY <2>2 DEF Telling, found
<1>5. CASE LoginAdmit(c)
  <2>1. Keeps(c) /\ call[c].op = "login" /\ call'[c].code \in {429, 400, 500, call[c].code}
    BY <1>5, KeepingForms DEF LoginAdmit, IsAt
  <2> QED
    BY <2>1 DEF Telling
<1>6. CASE LoginQuery(c)
  <2>1. call[c].op = "login"
    BY <1>6 DEF LoginQuery, IsAt
  <2>2. CASE WithLogin(call[c].login) = {} /\ Reply(c, 401)
    BY <2>1, <2>2, KeepingForms DEF Telling
  <2>3. ASSUME NEW d \in WithLogin(call[c].login),
               CASE Unreadable(d) -> Reply(c, 500)
                 [] ~Unreadable(d) /\ d.password # call[c].password -> Reply(c, 401)
                 [] OTHER -> ReplyToken(c, d.id)
        PROVE  Keeps(c) /\ Telling(c)
    <3>1. CASE Unreadable(d)
      BY <2>1, <2>3, <3>1, KeepingForms DEF Telling
    <3>2. CASE ~Unreadable(d) /\ d.password # call[c].password
      BY <2>1, <2>3, <3>2, KeepingForms DEF Telling
    <3>3. CASE ~Unreadable(d) /\ d.password = call[c].password
      BY <2>1, <2>3, <3>3, KeepingForms DEF Telling
    <3> QED
      BY <3>1, <3>2, <3>3
  <2> QED
    BY <1>6, <2>2, <2>3 DEF LoginQuery
<1>7. CASE CallFails(c)
  <2>1. Keeps(c) /\ call'[c].code = 500
    BY <1>7, KeepingForms DEF CallFails
  <2> QED
    BY <2>1 DEF Telling
<1> QED
  BY <1>1, <1>2, <1>3, <1>4, <1>5, <1>6, <1>7 DEF UserHandlerStep

\* A request that has just arrived.
LEMMA ArrivalsAreOpen ==
    ASSUME UserInv, NEW c \in Calls, CallArrives(c)
    PROVE  call[c] = NoCall /\ call'[c].code \notin {200, 201, 401, 404}
<1>0. call \in [Calls -> Call] /\ NoCall.code = 0 /\ NoCall \in Call
  BY NoCallIsCall DEF UserInv, UsersTypeOK
<1>1. ASSUME NEW new, Asks(c, new) PROVE call[c] = NoCall /\ call'[c] = new
  BY <1>0, <1>1 DEF Asks
<1>2. ASSUME NEW op, NEW code \in {400, 500}, Refused(c, op, code)
      PROVE  call[c] = NoCall /\ call'[c].code \notin {200, 201, 401, 404}
  <2>1. call[c] = NoCall /\ call'[c] = [NoCall EXCEPT !.op = op, !.pc = "done", !.code = code]
    BY <1>1, <1>2 DEF Refused
  <2> QED
    BY <1>0, <2>1 DEF Call
<1>3. ASSUME NEW new, new.code = 0, Asks(c, new)
      PROVE  call[c] = NoCall /\ call'[c].code \notin {200, 201, 401, 404}
  BY <1>1, <1>3
<1>4. ASSUME NEW l, NEW e, NEW p, NEW mask
      PROVE  /\ [NoCall EXCEPT !.op = "create", !.login = l, !.email = e, !.password = p,
                               !.id = now, !.pc = "insert"].code = 0
             /\ [NoCall EXCEPT !.op = "find", !.login = l, !.pc = "cache"].code = 0
             /\ [NoCall EXCEPT !.op = "search", !.mask = mask, !.pc = "query"].code = 0
             /\ [NoCall EXCEPT !.op = "login", !.login = l, !.password = p, !.pc = "admit"].code = 0
  BY DEF NoCall
<1>5. ASSUME NEW l, NEW e, NEW p, CreateArrives(c, l, e, p)
      PROVE  call[c] = NoCall /\ call'[c].code \notin {200, 201, 401, 404}
  <2> DEFINE q == [NoCall EXCEPT !.op = "create", !.login = l, !.email = e, !.password = p,
                                 !.id = now, !.pc = "insert"]
  <2>1. q.code = 0
    BY <1>4
  <2>2. Asks(c, q) \/ \E code \in {400, 500} : Refused(c, "create", code)
    BY <1>5 DEF CreateArrives
  <2> HIDE DEF q
  <2> QED
    BY <1>2, <1>3, <2>1, <2>2
<1>6. ASSUME NEW l, FindArrives(c, l)
      PROVE  call[c] = NoCall /\ call'[c].code \notin {200, 201, 401, 404}
  <2> DEFINE q == [NoCall EXCEPT !.op = "find", !.login = l, !.pc = "cache"]
  <2>1. q.code = 0
    BY <1>4
  <2>2. Asks(c, q) \/ Refused(c, "find", 400)
    BY <1>6 DEF FindArrives
  <2> HIDE DEF q
  <2> QED
    BY <1>2, <1>3, <2>1, <2>2
<1>7. ASSUME NEW mask, SearchArrives(c, mask)
      PROVE  call[c] = NoCall /\ call'[c].code \notin {200, 201, 401, 404}
  <2> DEFINE q == [NoCall EXCEPT !.op = "search", !.mask = mask, !.pc = "query"]
  <2>1. q.code = 0
    BY <1>4
  <2>2. Asks(c, q) \/ Refused(c, "search", 400)
    BY <1>7 DEF SearchArrives
  <2> HIDE DEF q
  <2> QED
    BY <1>2, <1>3, <2>1, <2>2
<1>8. ASSUME NEW l, NEW p, LoginArrives(c, l, p)
      PROVE  call[c] = NoCall /\ call'[c].code \notin {200, 201, 401, 404}
  <2> DEFINE q == [NoCall EXCEPT !.op = "login", !.login = l, !.password = p, !.pc = "admit"]
  <2>1. q.code = 0
    BY <1>4
  <2>2. Asks(c, q)
    BY <1>8 DEF LoginArrives
  <2> HIDE DEF q
  <2> QED
    BY <1>3, <2>1, <2>2
<1> QED
  BY <1>5, <1>6, <1>7, <1>8 DEF CallArrives

\* Each step concerns one slot.
LEMMA OneSlot ==
    ASSUME UserNext, NEW c \in Calls, call'[c] # call[c], UserInv
    PROVE  CallArrives(c) \/ UserHandlerStep(c) \/ CallFails(c) \/ CallLeaves(c)
<1>0. call \in [Calls -> Call]
  BY DEF UserInv, UsersTypeOK
<1>1. ASSUME NEW x \in Calls, NEW q, call' = [call EXCEPT ![x] = q] PROVE x = c
  BY <1>0, <1>1
<1>2. ASSUME NEW x \in Calls
      PROVE  /\ \A pc : Advance(x, pc) => x = c
             /\ \A code : Reply(x, code) => x = c
             /\ \A found : ReplyUsers(x, found) => x = c
             /\ \A id : ReplyToken(x, id) => x = c
             /\ \A d : Keep(x, d) => x = c
             /\ \A new : Asks(x, new) => x = c
  BY <1>0 DEF Advance, Reply, ReplyUsers, ReplyToken, Keep, Asks
<1>3. ASSUME NEW x \in Calls, CallArrives(x) PROVE x = c
  <2>1. \A op, code : Refused(x, op, code) => \E new : Asks(x, new)
    BY DEF Refused
  <2>2. ASSUME NEW l, NEW e, NEW p, CreateArrives(x, l, e, p) PROVE \E new : Asks(x, new)
    <3> DEFINE q == [NoCall EXCEPT !.op = "create", !.login = l, !.email = e, !.password = p,
                                   !.id = now, !.pc = "insert"]
    <3>1. Asks(x, q) \/ \E code \in {400, 500} : Refused(x, "create", code)
      BY <2>2 DEF CreateArrives
    <3> HIDE DEF q
    <3> QED
      BY <2>1, <3>1
  <2>3. \A l : FindArrives(x, l) => \E new : Asks(x, new)
    BY <2>1, Zenon DEF FindArrives
  <2>4. \A mask : SearchArrives(x, mask) => \E new : Asks(x, new)
    BY <2>1, Zenon DEF SearchArrives
  <2>5. \A l, p : LoginArrives(x, l, p) => \E new : Asks(x, new)
    BY Zenon DEF LoginArrives
  <2> QED
    BY <1>2, <1>3, <2>2, <2>3, <2>4, <2>5 DEF CallArrives
<1>4. ASSUME NEW x \in Calls, UserHandlerStep(x) PROVE x = c
  <2>1. CASE Insert(x) \/ FindCache(x) \/ FindQuery(x) \/ FindStore(x)
    BY <1>2, <2>1 DEF Insert, FindCache, FindQuery, FindStore
  <2>2. CASE LoginAdmit(x) \/ LoginQuery(x)
    <3>1. LoginQuery(x) => x = c
      <4>1. ASSUME NEW d, CASE Unreadable(d) -> Reply(x, 500)
                            [] ~Unreadable(d) /\ d.password # call[x].password -> Reply(x, 401)
                            [] OTHER -> ReplyToken(x, d.id)
            PROVE  x = c
        BY <1>2, <4>1
      <4> QED
        BY <1>2, <4>1 DEF LoginQuery
    <3> QED
      BY <1>2, <2>2, <3>1 DEF LoginAdmit
  <2>3. CASE SearchQuery(x)
    <3> DEFINE found == {ToJson(d) : d \in {o \in users : o.login \in call[x].mask}}
    <3>1. Reply(x, 500) \/ ReplyUsers(x, found)
      BY <2>3 DEF SearchQuery
    <3> HIDE DEF found
    <3> QED
      BY <1>2, <3>1
  <2> QED
    BY <1>4, <2>1, <2>2, <2>3 DEF UserHandlerStep
<1>5. ASSUME NEW x \in Calls, CallFails(x) \/ CallLeaves(x) PROVE x = c
  BY <1>1, <1>2, <1>5 DEF CallFails, CallLeaves
<1>6. UNCHANGED call => FALSE
  OBVIOUS
<1> QED
  BY <1>3, <1>4, <1>5, <1>6 DEF UserNext, ProfileExpires, Tick

\* Documents are never taken away.
LEMMA UsersGrow ==
    ASSUME UserNext
    PROVE  users \subseteq users'
BY DEF UserNext, CallArrives, CreateArrives, FindArrives, SearchArrives, LoginArrives,
       UserHandlerStep, Insert, FindCache, FindQuery, FindStore, SearchQuery, LoginAdmit, LoginQuery,
       CallFails, CallLeaves, ProfileExpires, Tick

\* Whoever was told 201 has a document with their login and password.
ConfirmedFits ==
    \A account \in confirmed :
        \E d \in users : d.login = account[1] /\ d.password = account[2]

\* What a request was confirmed, and what it may count on.
AskedFits(c) ==
    /\ call[c].op = "create" /\ call[c].code = 201 =>
         \E d \in users : d.login = call[c].login /\ d.password = call[c].password
    /\ since[c] \subseteq confirmed
    /\ \A account \in since[c] :
         /\ account[1] \in Asked(call[c])
         /\ call[c].op = "find" => call[c].code # 404
         /\ call[c].op = "login" /\ call[c].password = account[2] => call[c].code # 401
         /\ call[c].op = "search" /\ call[c].code = 200 =>
              \E p \in call[c].seen : p.login = account[1]

\* The inductive invariant of UserClientSpec.
UserClientInv ==
    /\ UserInv
    /\ ConfirmedFits
    /\ \A c \in Calls : AskedFits(c)

\* It starts true.
LEMMA UserClientInvInit == UserClientInit => UserClientInv
<1> SUFFICES ASSUME UserClientInit PROVE UserClientInv
  OBVIOUS
<1>1. UserInv /\ confirmed = {} /\ since = [c \in Calls |-> {}] /\ call = [c \in Calls |-> NoCall]
  BY InitUserInv DEF UserClientInit, UserInit
<1> QED
  BY <1>1 DEF UserClientInv, ConfirmedFits, AskedFits, ConfirmedIsFound, NoCall

\* What a step does to one request and the accounts it counts on.
LEMMA AskedStep ==
    ASSUME UserClientInv, UserNext, UserObserve, NEW c \in Calls
    PROVE  AskedFits(c)'
<1>0. /\ UserInv /\ ConfirmedFits /\ AskedFits(c) /\ Distinct
      /\ call \in [Calls -> Call] /\ users \subseteq users' /\ confirmed \subseteq confirmed'
  BY UsersGrow DEF UserClientInv, UserInv, UsersTypeOK, UserObserve
<1>1. since'[c] = IF call'[c].op \notin {"find", "search", "login"} THEN {}
                  ELSE IF call[c] = NoCall
                       THEN {account \in confirmed : account[1] \in Asked(call'[c])}
                       ELSE since[c]
  BY DEF UserObserve
<1>2. CASE call[c] = NoCall
  <2>1. call'[c].code \notin {200, 201, 401, 404}
    <3>1. CASE call'[c] = call[c]
      BY <1>2, <3>1, NoCallIsCall
    <3>2. CASE CallArrives(c)
      BY <1>0, <3>2, ArrivalsAreOpen
    <3>3. CASE UserHandlerStep(c) \/ CallFails(c) \/ CallLeaves(c)
      BY <1>2, <3>3 DEF UserHandlerStep, Insert, FindCache, FindQuery, FindStore, SearchQuery,
                        LoginAdmit, LoginQuery, IsAt, CallFails, CallLeaves, NoCall
    <3> QED
      BY <1>0, <3>1, <3>2, <3>3, OneSlot
  <2>2. since'[c] \subseteq confirmed /\ \A account \in since'[c] : account[1] \in Asked(call'[c])
    BY <1>1, <1>2
  <2> QED
    BY <1>0, <2>1, <2>2 DEF AskedFits
<1>3. CASE call[c] # NoCall /\ call'[c] = call[c]
  <2>1. since'[c] \subseteq since[c]
    BY <1>1, <1>3
  <2> QED
    BY <1>0, <1>3, <2>1 DEF AskedFits
<1>4. CASE call[c] # NoCall /\ CallLeaves(c)
  <2>1. call'[c] = NoCall
    BY <1>0, <1>4 DEF CallLeaves
  <2> QED
    BY <1>1, <2>1 DEF AskedFits, NoCall
<1>5. CASE call[c] # NoCall /\ (UserHandlerStep(c) \/ CallFails(c))
  <2>1. Keeps(c) /\ Telling(c)
    BY <1>0, <1>5, HandlersTell
  <2>2. since'[c] \subseteq since[c]
    BY <1>1, <1>5
  <2>3. call[c].op # "search" =>
          \A account \in since[c] :
            \E d \in WithLogin(call[c].login) : d.password = account[2]
    BY <1>0 DEF AskedFits, ConfirmedFits, WithLogin, Asked
  <2>4. \A d, o \in WithLogin(call[c].login) : d = o
    BY <1>0 DEF Distinct, WithLogin
  <2>5. call'[c].op = "create" /\ call'[c].code = 201 =>
          \E d \in users' : d.login = call'[c].login /\ d.password = call'[c].password
    <3>1. CASE call[c].code = 201
      BY <1>0, <2>1, <3>1 DEF AskedFits, Keeps
    <3>2. CASE call[c].code # 201
      BY <2>1, <3>2 DEF Telling, Keeps, New
    <3> QED
      BY <3>1, <3>2
  <2>6. ASSUME NEW account \in since[c]
        PROVE  /\ call[c].op = "find" => call'[c].code # 404
               /\ call[c].op = "login" /\ call[c].password = account[2] => call'[c].code # 401
               /\ call[c].op = "search" /\ call'[c].code = 200 =>
                    \E p \in call'[c].seen : p.login = account[1]
    <3>1. CASE call[c].op = "find"
      BY <1>0, <2>1, <2>3, <3>1 DEF AskedFits, Telling
    <3>2. CASE call[c].op = "login" /\ call[c].password = account[2]
      BY <1>0, <2>1, <2>3, <2>4, <3>2 DEF AskedFits, Telling
    <3>3. CASE call[c].op = "search" /\ call'[c].code = 200
      <4>1. account[1] \in call[c].mask /\ account \in confirmed
        BY <1>0, <3>3 DEF AskedFits, Asked
      <4>2. PICK d \in users : d.login = account[1]
        BY <1>0, <4>1 DEF ConfirmedFits
      <4>3. ToJson(d) \in call'[c].seen
        BY <2>1, <3>3, <4>1, <4>2 DEF Telling
      <4>4. ToJson(d).login = account[1]
        BY <4>2 DEF ToJson
      <4> QED
        BY <3>3, <4>3, <4>4
    <3> QED
      BY <3>1, <3>2, <3>3
  <2> QED
    BY <1>0, <2>1, <2>2, <2>5, <2>6 DEF AskedFits, Keeps, Asked
<1> QED
  BY <1>0, <1>2, <1>3, <1>4, <1>5, OneSlot, ArrivalsAreOpen

\* Every step keeps the invariant.
LEMMA UserClientInvStep ==
    UserClientInv /\ [UserNext /\ UserObserve]_userClientVars => UserClientInv'
<1> SUFFICES ASSUME UserClientInv, [UserNext /\ UserObserve]_userClientVars PROVE UserClientInv'
  OBVIOUS
<1>1. CASE UserNext /\ UserObserve
  <2>1. UserInv' /\ users \subseteq users'
    BY <1>1, StepUserInv, UsersGrow DEF UserClientInv
  <2>2. \A c \in Calls : AskedFits(c)'
    BY <1>1, AskedStep
  <2>3. ConfirmedFits'
    <3>1. ASSUME NEW account \in confirmed
          PROVE  \E d \in users' : d.login = account[1] /\ d.password = account[2]
      BY <2>1 DEF UserClientInv, ConfirmedFits
    <3>2. ASSUME NEW c \in Calls, call'[c].op = "create", call'[c].code = 201,
                 NEW account, account = <<call'[c].login, call'[c].password>>
          PROVE  \E d \in users' : d.login = account[1] /\ d.password = account[2]
      BY <2>2, <3>2 DEF AskedFits
    <3>3. confirmed' = confirmed \cup
            {<<call'[c].login, call'[c].password>> : c \in {x \in Calls :
                 call'[x].op = "create" /\ call'[x].code = 201}}
      BY <1>1 DEF UserObserve
    <3> QED
      BY <3>1, <3>2, <3>3 DEF ConfirmedFits
  <2> QED
    BY <2>1, <2>2, <2>3 DEF UserClientInv
<1>2. CASE UNCHANGED userClientVars
  <2>1. UserInv'
    BY <1>2, StepUserInv DEF UserClientInv, userClientVars, userVars
  <2> QED
    BY <1>2, <2>1 DEF UserClientInv, userClientVars, ConfirmedFits, AskedFits
<1> QED
  BY <1>1, <1>2

\* An account that was confirmed is found by FindUserByLoginHandler and opened by
\* LoginHandler, whatever was looked up, cached, lost or expired before.
THEOREM ConfirmedAccountsAreFound == UserClientSpec => []ConfirmedIsFound
<1>1. UserClientInv => ConfirmedIsFound
  BY DEF UserClientInv, AskedFits, ConfirmedIsFound, Answered, IsAt
<1> QED
  BY <1>1, UserClientInvInit, UserClientInvStep, PTL DEF UserClientSpec

\* And listed by every SearchUsersByNameHandler that answers with a list.
THEOREM ConfirmedAccountsAreListed == UserClientSpec => []ConfirmedAreListed
<1>1. UserClientInv => ConfirmedAreListed
  BY DEF UserClientInv, AskedFits, ConfirmedAreListed, Answered, IsAt
<1> QED
  BY <1>1, UserClientInvInit, UserClientInvStep, PTL DEF UserClientSpec

\* CreateUserHandler tells one person of an account, no matter who races or tries
\* again.
THEOREM AccountsAreConfirmedOnce == UserClientSpec => ConfirmedOnce
<1>1. ASSUME UserClientInv, [UserNext /\ UserObserve]_userClientVars, NEW c \in Calls,
             call[c].op = "create", call[c].code = 0, call'[c].code = 201,
             NEW account \in confirmed, account[1] = call[c].login
      PROVE  FALSE
  <2>0. UserInv /\ UserNext /\ call'[c] # call[c]
    BY <1>1 DEF userClientVars, UserClientInv
  <2>1. UserHandlerStep(c) \/ CallFails(c)
    <3>1. ~CallArrives(c)
      BY <1>1, <2>0, ArrivalsAreOpen
    <3>2. ~CallLeaves(c)
      BY <1>1, <2>0, NoCallIsCall DEF CallLeaves, UserInv, UsersTypeOK
    <3> QED
      BY <2>0, <3>1, <3>2, OneSlot
  <2>2. ~DuplicateKey(New(c))
    BY <1>1, <2>0, <2>1, HandlersTell DEF Telling
  <2>3. PICK d \in users : d.login = account[1]
    BY <1>1 DEF UserClientInv, ConfirmedFits
  <2> QED
    BY <1>1, <2>2, <2>3 DEF DuplicateKey, New
<1>2. UserClientInv /\ [UserNext /\ UserObserve]_userClientVars =>
        [\A c \in Calls :
           /\ call[c].op = "create" /\ call[c].code = 0 /\ call'[c].code = 201
           => \A account \in confirmed : account[1] # call[c].login]_userClientVars
  BY <1>1
<1> QED
  BY <1>2, UserClientInvInit, UserClientInvStep, PTL DEF UserClientSpec, ConfirmedOnce
=============================================================================
