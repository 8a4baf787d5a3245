--------------------------- MODULE ThrottleProofs ----------------------------
(***************************************************************************)
(* CreateRideHandler behind its rate limiter.  Every step is a step of     *)
(* Backend and a step of RateLimiter, so all that is proved of either      *)
(* holds of both at once.  What is added, Links, says which call of Check  *)
(* stands behind which request and which row: it makes the limiter's bound *)
(* on calls a bound on rows.                                               *)
(***************************************************************************)
EXTENDS Throttle, BackendSafety, LimiterProofs

Passed(c) == Over(c) /\ call[c].allowed

\* A request of the passenger has a call of Check, which is over when the request
\* has left it, and has let the request pass when the request is at its INSERT.
CheckFits(r) ==
    /\ check[r] # NoCheck <=> IsThrottled(r)
    /\ check[r] \in Calls =>
         /\ call[check[r]].pc # "idle"
         /\ req[r].pc \in {"admit", "exec", "done"}
         /\ req[r].pc = "admit" => ~Over(check[r])
         /\ req[r].pc = "exec" => Passed(check[r])

\* A row of the passenger that was not there to begin with was made by a call that
\* passed, and whose request has nothing more to do.
RideFits(i) ==
    /\ db.rides[i].passenger = Passenger /\ Seed.rides[i] = NoRide => madeBy[i] \in Calls
    /\ madeBy[i] \in Calls =>
         /\ Passed(madeBy[i])
         /\ \A r \in Requests : check[r] = madeBy[i] => req[r].pc = "done"

ChecksDiffer == \A r, q \in Requests : check[r] = check[q] /\ check[r] \in Calls => r = q

MadeOnce == \A i, j \in RideIds : madeBy[i] = madeBy[j] /\ madeBy[i] \in Calls => i = j

Links ==
    /\ check \in [Requests -> Calls \cup {NoCheck}]
    /\ madeBy \in [RideIds -> Calls \cup {NoCheck}]
    /\ \A r \in Requests : CheckFits(r)
    /\ \A i \in RideIds : RideFits(i)
    /\ ChecksDiffer
    /\ MadeOnce

ThrottleInv == Inv /\ LimiterInv /\ Links

-----------------------------------------------------------------------------
(***************************************************************************)
(* Both components run.                                                    *)
(***************************************************************************)

\* What a step does to the services it could do without the limiter,
LEMMA BackendStep == [ThrottleNext]_throttleVars => [Next]_vars
<1> SUFFICES ASSUME [ThrottleNext]_throttleVars PROVE [Next]_vars
  OBVIOUS
<1>1. ASSUME NEW r \in Requests, RequestBegins(r) PROVE [Next]_vars
  BY <1>1 DEF RequestBegins, Next
<1>2. ASSUME NEW r \in Requests, Checks(r) PROVE [Next]_vars
  <2>1. Obeys(r) \/ UNCHANGED vars
    BY <1>2 DEF Checks
  <2>2. CASE Obeys(r)
    BY <2>2 DEF Obeys, RideServiceStep, HandlerStep, Next
  <2> QED
    BY <2>1, <2>2
<1>3. ASSUME NEW r \in Requests, Handles(r) PROVE [Next]_vars
  BY <1>3 DEF Handles, Next
<1>4. ASSUME NEW r \in Requests, RequestFails(r) \/ RequestEnds(r) PROVE [Next]_vars
  BY <1>4 DEF RequestFails, RequestEnds, Next
<1>5. CASE StoresStep
  BY <1>5 DEF StoresStep, Next
<1>6. CASE TimeStep
  BY <1>6 DEF TimeStep
<1>7. CASE UNCHANGED throttleVars
  BY <1>7 DEF throttleVars
<1> QED
  BY <1>1, <1>2, <1>3, <1>4, <1>5, <1>6, <1>7 DEF ThrottleNext

\* and what it does to Redis and the calls the limiter could do without them.
LEMMA CheckStep == ThrottleInv /\ [ThrottleNext]_throttleVars => [LimiterNext]_limiterVars
<1> SUFFICES ASSUME ThrottleInv, [ThrottleNext]_throttleVars PROVE [LimiterNext]_limiterVars
  OBVIOUS
<1>1. ASSUME NEW r \in Requests, RequestBegins(r) PROVE [LimiterNext]_limiterVars
  <2> DEFINE c == CHOOSE c \in Unmade : TRUE
  <2>1. CASE IsThrottled(r)'
    <3>1. ReadClock(c) /\ c \in Unmade
      BY <1>1, <2>1 DEF RequestBegins
    <3> HIDE DEF c
    <3> QED
      BY <3>1 DEF Unmade, LimiterNext
  <2>2. CASE ~IsThrottled(r)'
    BY <1>1, <2>2 DEF RequestBegins
  <2> QED
    BY <2>1, <2>2
<1>2. ASSUME NEW r \in Requests, Checks(r) PROVE [LimiterNext]_limiterVars
  BY <1>2 DEF Checks, LimiterNext
<1>3. ASSUME NEW r \in Requests, Handles(r) \/ RequestEnds(r) PROVE [LimiterNext]_limiterVars
  BY <1>3 DEF Handles, RequestEnds
<1>4. ASSUME NEW r \in Requests, RequestFails(r) PROVE [LimiterNext]_limiterVars
  <2>1. CASE InCheck(r)
    <3>1. Dies(check[r]) /\ check[r] \in Calls
      BY <1>4, <2>1 DEF RequestFails, InCheck, ThrottleInv, Links
    <3> QED
      BY <3>1 DEF LimiterNext
  <2>2. CASE ~InCheck(r)
    BY <1>4, <2>2 DEF RequestFails
  <2> QED
    BY <2>1, <2>2
<1>5. CASE StoresStep
  BY <1>5 DEF StoresStep
<1>6. CASE TimeStep
  BY <1>6 DEF TimeStep, LimiterNext
<1>7. CASE UNCHANGED throttleVars
  BY <1>7 DEF throttleVars
<1> QED
  BY <1>1, <1>2, <1>3, <1>4, <1>5, <1>6, <1>7 DEF ThrottleNext

-----------------------------------------------------------------------------
(***************************************************************************)
(* What the steps leave of the links.                                      *)
(***************************************************************************)

\* Only CreateRide makes a row, and no statement changes a passenger.
LEMMA OnlyCreateMakes ==
    ASSUME Inv, NEW r \in Requests, HandlerStep(r), ~CreateExec(r), NEW i \in RideIds
    PROVE  /\ db'.rides[i].passenger = db.rides[i].passenger
           /\ db.rides[i] = NoRide => db'.rides[i] = NoRide
<1>0. DatabaseTypeOK /\ db = [drivers |-> db.drivers, rides |-> db.rides]
      /\ db.rides \in [RideIds -> RideRow]
  BY Unfold, Tables
<1>1. Behind(db.rides[i], db'.rides[i])
  BY StepForward DEF Next, Forward, Earlier
<1>2. db.rides[i] = NoRide => db'.rides[i] = NoRide
  <2>1. CASE RegisterExec(r) /\ ~UNCHANGED db
    <3>1. PICK d \in DriverIds : Commit([db EXCEPT !.drivers[req[r].user] = d])
      BY <2>1 DEF RegisterExec, RegisterDriver
    <3>2. db'.rides = db.rides
      BY <1>0, <3>1 DEF Commit
    <3> QED
      BY <3>2
  <2>2. CASE AcceptExec(r) /\ ~UNCHANGED db
    <3> DEFINE j == req[r].ride
               row == [passenger |-> db.rides[j].passenger, driver |-> req[r].driver,
                       status |-> "accepted"]
    <3>1. Commit([db EXCEPT !.rides[j] = row]) /\ db.rides[j].status = "pending"
      BY <2>2 DEF AcceptExec, AcceptRide, CanAccept
    <3>2. db'.rides = [db.rides EXCEPT ![j] = row]
      BY <1>0, <3>1 DEF Commit
    <3> QED
      BY <1>0, <3>1, <3>2 DEF NoRide
  <2>3. CASE CompleteExec(r) /\ ~UNCHANGED db
    <3> DEFINE j == req[r].ride
               row == [db.rides[j] EXCEPT !.status = "completed"]
    <3>1. Commit([db EXCEPT !.rides[j].status = "completed"]) /\ db.rides[j].status = "accepted"
      BY <2>3 DEF CompleteExec, CompleteRide, CanComplete
    <3>2. db'.rides = [db.rides EXCEPT ![j] = row]
      BY <1>0, <3>1 DEF Commit
    <3> QED
      BY <1>0, <3>1, <3>2 DEF NoRide
  <2>4. CASE UNCHANGED db
    BY <2>4
  <2> QED
    BY <2>1, <2>2, <2>3, <2>4 DEF HandlerStep, DriverServiceStep, RideServiceStep, RegisterAdmit,
       CreateAdmit, ListAdmit, ListCache, ListQuery, ListStore, AcceptDriver, AcceptDel,
       AcceptReply, CompleteDriver, CompleteRideCheck, CompleteDel, CompleteReply,
       HistoryAdmit, HistoryQuery
<1> QED
  BY <1>1, <1>2 DEF Behind

\* A request that does not move stays linked to its call.
LEMMA LinkStands ==
    ASSUME NEW r \in Requests, CheckFits(r), req'[r] = req[r], check'[r] = check[r],
           check[r] \in Calls => call'[check[r]] = call[check[r]]
    PROVE  CheckFits(r)'
BY DEF CheckFits, IsThrottled, Over, Passed

\* So does a row.
LEMMA RideStands ==
    ASSUME NEW i \in RideIds, RideFits(i), madeBy'[i] = madeBy[i],
           db'.rides[i].passenger = db.rides[i].passenger,
           madeBy[i] \in Calls => call'[madeBy[i]] = call[madeBy[i]],
           madeBy[i] \in Calls => \A r \in Requests : check'[r] = madeBy[i] => req'[r].pc = "done"
    PROVE  RideFits(i)'
BY DEF RideFits, Passed, Over

\* What a step of request r moves besides: its own call at most, and none that is
\* over or another's.
OwnCall(r) ==
    /\ \A q \in Requests \ {r} : req'[q] = req[q] /\ check'[q] = check[q]
    /\ check' \in [Requests -> Calls \cup {NoCheck}]
    /\ check'[r] \in {check[r], NoCheck} \/ check'[r] \in Unmade
    /\ \/ UNCHANGED call
       \/ check'[r] \in Calls /\ ~Over(check'[r]) /\ OthersStand(check'[r])

\* The other requests and their calls stand by,
LEMMA OthersLinked ==
    ASSUME Links, NEW r \in Requests, OwnCall(r)
    PROVE  ChecksDiffer' /\ \A q \in Requests \ {r} : CheckFits(q)'
<1>1. ASSUME NEW q \in Requests \ {r}, check[q] \in Calls
      PROVE  check[q] # check'[r] /\ call'[check[q]] = call[check[q]]
  <2>1. call[check[q]].pc # "idle" /\ (check[q] = check[r] => q = r)
    BY <1>1 DEF Links, CheckFits, ChecksDiffer
  <2>2. check[q] # check'[r]
    BY <1>1, <2>1, ThrottleAssumption DEF OwnCall, Unmade, ThrottleAssumption
  <2> QED
    BY <1>1, <2>2 DEF OwnCall, OthersStand
<1>2. ASSUME NEW q \in Requests \ {r} PROVE CheckFits(q)'
  BY <1>1, LinkStands DEF OwnCall, Links
<1>3. ASSUME NEW q \in Requests, NEW p \in Requests, check'[q] = check'[p], check'[q] \in Calls
      PROVE  q = p
  BY <1>1, <1>3 DEF OwnCall, Links, ChecksDiffer
<1> QED
  BY <1>2, <1>3 DEF ChecksDiffer

\* and so do the rows.
LEMMA RowsLinked ==
    ASSUME Links, NEW r \in Requests, OwnCall(r), NEW i \in RideIds,
           madeBy'[i] = madeBy[i], db'.rides[i].passenger = db.rides[i].passenger,
           check'[r] \in Calls /\ req[r].pc = "done" => req'[r].pc = "done"
    PROVE  RideFits(i)'
<1>1. RideFits(i)
  BY DEF Links
<1>2. ASSUME madeBy[i] \in Calls
      PROVE  /\ call'[madeBy[i]] = call[madeBy[i]]
             /\ \A q \in Requests : check'[q] = madeBy[i] => req'[q].pc = "done"
  <2>1. Passed(madeBy[i]) /\ \A q \in Requests : check[q] = madeBy[i] => req[q].pc = "done"
    BY <1>1, <1>2 DEF RideFits
  <2>2. Over(madeBy[i]) /\ madeBy[i] \notin Unmade
    BY <2>1 DEF Passed, Over, Unmade
  <2>3. call'[madeBy[i]] = call[madeBy[i]]
    BY <1>2, <2>2 DEF OwnCall, OthersStand
  <2>4. ASSUME NEW q \in Requests, check'[q] = madeBy[i] PROVE req'[q].pc = "done"
    <3>1. CASE q = r
      BY <1>2, <2>1, <2>2, <2>4, <3>1, ThrottleAssumption DEF OwnCall, ThrottleAssumption
    <3>2. CASE q # r
      BY <2>1, <2>4, <3>2 DEF OwnCall
    <3> QED
      BY <3>1, <3>2
  <2> QED
    BY <2>3, <2>4
<1> QED
  BY <1>1, <1>2, RideStands

\* A step that makes no row keeps the links if it keeps those of its request.
LEMMA LinksKept ==
    ASSUME Links, NEW r \in Requests, OwnCall(r), CheckFits(r)', UNCHANGED madeBy,
           \A i \in RideIds : db'.rides[i].passenger = db.rides[i].passenger,
           check'[r] \in Calls /\ req[r].pc = "done" => req'[r].pc = "done"
    PROVE  Links'
<1>1. \A i \in RideIds : RideFits(i)'
  BY RowsLinked
<1>2. MadeOnce'
  BY DEF Links, MadeOnce
<1> QED
  BY <1>1, <1>2, OthersLinked DEF Links, OwnCall

\* A request arrives, with a call nobody has made if it is one of the passenger.
LEMMA BeginsKeeps ==
    ASSUME ThrottleInv, NEW r \in Requests, RequestBegins(r)
    PROVE  Links'
<1>0. /\ Typed /\ Links /\ LimiterTypeOK /\ req \in [Requests -> Request]
      /\ NoCheck \notin Calls
  BY Unfold, ThrottleAssumption DEF ThrottleInv, LimiterInv, ThrottleAssumption
<1>1. /\ Begin(r) /\ UNCHANGED <<db, madeBy>>
      /\ \A q \in Requests \ {r} : req'[q] = req[q]
  BY <1>0, RequestKinds, OthersAreStill DEF RequestBegins, Begin
<1>2. req[r] = Idle /\ (req'[r].op = "create" => req'[r].pc = "admit")
  <2>1. ASSUME NEW op, NEW u, NEW i, NEW pc, Arrive(r, op, u, i, pc), op = "create" => pc = "admit"
        PROVE  req[r] = Idle /\ (req'[r].op = "create" => req'[r].pc = "admit")
    <3>1. req'[r] = [Idle EXCEPT !.op = op, !.user = u, !.ride = i, !.pc = pc]
      BY <1>0, <2>1 DEF Arrive
    <3> QED
      BY <2>1, <3>1 DEF Arrive, Idle
  <2>2. ASSUME NEW u \in Users, NEW op \in {"register", "create", "history"},
               Arrive(r, op, u, NoId, "admit")
        PROVE  req[r] = Idle /\ (req'[r].op = "create" => req'[r].pc = "admit")
    BY <2>1, <2>2
  <2>3. ASSUME NEW u \in Users, NEW i \in RideIds, NEW op \in {"accept", "complete"},
               Arrive(r, op, u, i, "driver")
        PROVE  req[r] = Idle /\ (req'[r].op = "create" => req'[r].pc = "admit")
    BY <2>1, <2>3
  <2>4. ASSUME Arrive(r, "list", NoId, NoId, "admit")
        PROVE  req[r] = Idle /\ (req'[r].op = "create" => req'[r].pc = "admit")
    BY <2>1, <2>4
  <2> QED
    BY <1>1, <2>2, <2>3, <2>4 DEF Begin
<1>3. check[r] = NoCheck
  BY <1>0, <1>2 DEF Links, CheckFits, IsThrottled, Idle
<1>4. CASE IsThrottled(r)'
  <2>1. PICK c \in Unmade : ReadClock(c) /\ check' = [check EXCEPT ![r] = c]
    BY <1>4 DEF RequestBegins
  <2>2. c \in Calls /\ Starts(c)
    BY <1>0, <2>1, ReadClockKind DEF Unmade
  <2>3. /\ check'[r] = c /\ check' \in [Requests -> Calls \cup {NoCheck}]
        /\ \A q \in Requests \ {r} : check'[q] = check[q]
    BY <1>0, <2>1, <2>2 DEF Links
  <2>4. OwnCall(r)
    BY <1>1, <2>1, <2>2, <2>3 DEF OwnCall, Starts, Over
  <2>5. CheckFits(r)'
    BY <1>0, <1>2, <1>4, <2>2, <2>3 DEF CheckFits, IsThrottled, Starts, Over
  <2> QED
    BY <1>0, <1>1, <1>2, <2>4, <2>5, LinksKept DEF Idle
<1>5. CASE ~IsThrottled(r)'
  <2>1. UNCHANGED <<check, call>>
    BY <1>5 DEF RequestBegins, limiterVars
  <2>2. OwnCall(r)
    BY <1>0, <1>1, <2>1 DEF OwnCall, Links
  <2>3. CheckFits(r)'
    BY <1>0, <1>3, <1>5, <2>1 DEF CheckFits
  <2> QED
    BY <1>0, <1>1, <1>2, <2>2, <2>3, LinksKept DEF Idle
<1> QED
  BY <1>4, <1>5

\* The call goes on, and its request with it once it is over.
LEMMA ChecksKeeps ==
    ASSUME ThrottleInv, NEW r \in Requests, Checks(r)
    PROVE  Links'
<1>0. /\ Typed /\ Links /\ LimiterTypeOK /\ req \in [Requests -> Request] /\ req[r] \in Request
      /\ NoCheck \notin Calls
  BY Unfold, ThrottleAssumption DEF ThrottleInv, LimiterInv, ThrottleAssumption
<1>1. PICK c \in Calls :
        /\ check[r] = c
        /\ Incr(c) \/ DoExpire(c) \/ Unreachable(c)
        /\ IF Over(c)' THEN Obeys(r) ELSE UNCHANGED vars
  BY DEF Checks
<1>2. /\ req[r].op = "create" /\ req[r].pc = "admit" /\ UNCHANGED <<check, madeBy>>
      /\ IsThrottled(r) /\ ~Over(c)
  BY <1>0, <1>1 DEF Checks, At, Links, CheckFits
<1>3. OthersStand(c) /\ call'[c].pc \in {"expire", "done", "failed"}
  <2>1. CASE Incr(c)
    BY <1>0, <2>1, IncrKind DEF Takes
  <2>2. CASE DoExpire(c)
    BY <1>0, <2>2, DoExpireKind DEF Arms, Ends
  <2>3. CASE Unreachable(c)
    BY <1>0, <2>3, BrokenKind DEF Unreachable, GivesUp, Ends
  <2> QED
    BY <1>1, <2>1, <2>2, <2>3
<1>4. CASE ~Over(c)'
  <2>1. UNCHANGED <<req, db>>
    BY <1>1, <1>4 DEF vars
  <2>2. OwnCall(r) /\ CheckFits(r)'
    BY <1>0, <1>1, <1>2, <1>3, <1>4, <2>1 DEF OwnCall, Links, CheckFits, IsThrottled, Over
  <2> QED
    BY <1>0, <1>2, <2>1, <2>2, LinksKept
<1>5. CASE Over(c)'
  <2>1. CreateAdmit(r) /\ (call'[c].allowed \/ Answer(r, 429))
    BY <1>1, <1>5 DEF Obeys
  <2>2. UNCHANGED db /\ \A q \in Requests \ {r} : req'[q] = req[q]
    BY <1>0, <2>1, RequestKinds, OthersAreStill DEF CreateAdmit, HandlerStep, RideServiceStep
  <2>3. req'[r].op = req[r].op /\ req'[r].user = req[r].user
    BY <1>0, <2>1, AskedKept DEF HandlerStep, RideServiceStep
  <2>4. \/ req'[r].pc = "done"
        \/ req'[r].pc = "exec" /\ call'[c].allowed
    <3>1. ASSUME NEW code, Answer(r, code) PROVE req'[r].pc = "done"
      <4>1. req'[r] = [req[r] EXCEPT !.pc = "done", !.code = code]
        BY <1>0, <3>1 DEF Answer
      <4> QED
        BY <1>0, <4>1 DEF Request
    <3>2. ASSUME Goto(r, "exec") PROVE req'[r].pc = "exec"
      <4>1. req'[r] = [req[r] EXCEPT !.pc = "exec"]
        BY <1>0, <3>2 DEF Goto
      <4> QED
        BY <1>0, <4>1 DEF Request
    <3> QED
      BY <2>1, <3>1, <3>2 DEF CreateAdmit
  <2>5. Passed(c)' \/ ~call'[c].allowed
    BY <1>5 DEF Passed, Over
  <2>6. OwnCall(r)
    BY <1>0, <1>1, <1>2, <1>3, <2>2 DEF OwnCall, Links
  <2>7. CheckFits(r)'
    BY <1>0, <1>1, <1>2, <1>5, <2>3, <2>4, <2>5 DEF CheckFits, IsThrottled, Over
  <2> QED
    BY <1>0, <1>2, <2>2, <2>6, <2>7, LinksKept
<1> QED
  BY <1>4, <1>5

\* A row made by a request at its INSERT is made by its call, which has made none.
LEMMA InsertKeeps ==
    ASSUME ThrottleInv, NEW r \in Requests, Handles(r), CreateExec(r)
    PROVE  Links'
<1>0. /\ Typed /\ Links /\ req \in [Requests -> Request] /\ req[r] \in Request /\ DatabaseTypeOK
      /\ db = [drivers |-> db.drivers, rides |-> db.rides] /\ db.rides \in [RideIds -> RideRow]
  BY Unfold, Tables DEF ThrottleInv
<1>1. PICK i \in RideIds :
        /\ CreateRide(req[r].user, i)
        /\ AnswerRide(r, 201, i) \/ Answer(r, 500)
  BY DEF CreateExec
<1>2. req[r].op = "create" /\ req[r].pc = "exec" /\ UNCHANGED <<check, call>>
  BY DEF CreateExec, At, Handles, limiterVars
<1>3. /\ HandlerStep(r) /\ req'[r].op = req[r].op /\ req'[r].user = req[r].user
      /\ \A q \in Requests \ {r} : req'[q] = req[q]
  BY <1>0, AskedKept, RequestKinds, OthersAreStill DEF Handles
<1>4. req'[r].pc = "done"
  <2>1. CASE AnswerRide(r, 201, i)
    <3>1. req'[r] = [req[r] EXCEPT !.pc = "done", !.code = 201, !.ride = i]
      BY <1>0, <2>1 DEF AnswerRide
    <3> QED
      BY <1>0, <3>1 DEF Request
  <2>2. CASE Answer(r, 500)
    <3>1. req'[r] = [req[r] EXCEPT !.pc = "done", !.code = 500]
      BY <1>0, <2>2 DEF Answer
    <3> QED
      BY <1>0, <3>1 DEF Request
  <2> QED
    BY <1>1, <2>1, <2>2
<1>5. /\ db.rides[i] = NoRide
      /\ db'.rides[i] = [passenger |-> req[r].user, driver |-> NoId, status |-> "pending"]
      /\ \A j \in RideIds \ {i} : db'.rides[j] = db.rides[j]
  BY <1>0, <1>1 DEF CreateRide, Commit
<1>6. /\ madeBy'[i] = check[r]
      /\ \A j \in RideIds \ {i} : madeBy'[j] = madeBy[j]
      /\ madeBy' \in [RideIds -> Calls \cup {NoCheck}]
  <2>1. madeBy' = [j \in RideIds |-> IF db'.rides[j] # NoRide /\ db.rides[j] = NoRide
                                     THEN check[r] ELSE madeBy[j]]
    BY DEF Handles
  <2>2. db'.rides[i] # NoRide
    BY <1>5 DEF NoRide
  <2> QED
    BY <1>0, <1>5, <2>1, <2>2 DEF Links
<1>7. OwnCall(r) /\ CheckFits(r)
  BY <1>0, <1>2, <1>3 DEF OwnCall, Links
<1>8. CheckFits(r)'
  BY <1>2, <1>3, <1>4, <1>7 DEF CheckFits, IsThrottled
<1>9. ASSUME NEW j \in RideIds PROVE RideFits(j)'
  <2>1. CASE j # i
    BY <1>0, <1>4, <1>5, <1>6, <1>7, <2>1, RowsLinked
  <2>2. CASE j = i
    <3>1. db'.rides[i].passenger = Passenger => check[r] \in Calls
      BY <1>0, <1>2, <1>5, <1>7 DEF CheckFits, IsThrottled, Links
    <3>2. check[r] \in Calls => Passed(check[r])' /\ \A q \in Requests : check[q] = check[r] => q = r
      BY <1>0, <1>2, <1>7 DEF CheckFits, Links, ChecksDiffer, Passed, Over
    <3> QED
      BY <1>2, <1>4, <1>6, <2>2, <3>1, <3>2 DEF RideFits
  <2> QED
    BY <2>1, <2>2
<1>10. MadeOnce'
  <2>1. \A j \in RideIds : madeBy[j] = check[r] => check[r] \notin Calls
    BY <1>0, <1>2 DEF Links, RideFits
  <2> QED
    BY <1>0, <1>6, <2>1 DEF Links, MadeOnce
<1> QED
  BY <1>0, <1>6, <1>7, <1>8, <1>9, <1>10, OthersLinked DEF Links, OwnCall

\* Any other step of a handler makes no row and finds its request in no call.
LEMMA HandlesKeeps ==
    ASSUME ThrottleInv, NEW r \in Requests, Handles(r)
    PROVE  Links'
<1>0. Typed /\ Links /\ Inv
  BY Unfold DEF ThrottleInv
<1>1. CASE CreateExec(r)
  BY <1>1, InsertKeeps
<1>2. CASE ~CreateExec(r)
  <2>1. /\ HandlerStep(r) /\ req'[r].op = req[r].op /\ req'[r].user = req[r].user
        /\ UNCHANGED <<check, call>> /\ ~InCheck(r)
        /\ \A q \in Requests \ {r} : req'[q] = req[q]
    BY <1>0, AskedKept, RequestKinds, OthersAreStill DEF Handles, limiterVars
  <2>2. \A i \in RideIds : /\ db'.rides[i].passenger = db.rides[i].passenger
                           /\ db.rides[i] = NoRide => db'.rides[i] = NoRide
    BY <1>0, <1>2, <2>1, OnlyCreateMakes
  <2>3. UNCHANGED madeBy
    <3>1. madeBy' = [i \in RideIds |-> IF db'.rides[i] # NoRide /\ db.rides[i] = NoRide
                                       THEN check[r] ELSE madeBy[i]]
      BY DEF Handles
    <3>2. \A i \in RideIds : madeBy'[i] = madeBy[i]
      BY <2>2, <3>1
    <3> QED
      BY <1>0, <3>1, <3>2 DEF Links
  <2>4. req[r].op = "create" => CreateAdmit(r)
    BY <1>2, <2>1
    DEF HandlerStep, DriverServiceStep, RideServiceStep, RegisterAdmit, RegisterExec, ListAdmit,
        ListCache, ListQuery, ListStore, AcceptDriver, AcceptExec, AcceptDel, AcceptReply,
        CompleteDriver, CompleteRideCheck, CompleteExec, CompleteDel, CompleteReply,
        HistoryAdmit, HistoryQuery, At
  <2>5. check[r] = NoCheck /\ ~IsThrottled(r)
    BY <1>0, <2>1, <2>4 DEF CreateAdmit, InCheck, Links, CheckFits, IsThrottled
  <2>6. CheckFits(r)'
    BY <2>1, <2>5, ThrottleAssumption DEF CheckFits, IsThrottled, ThrottleAssumption
  <2>7. OwnCall(r)
    BY <1>0, <2>1 DEF OwnCall, Links
  <2> QED
    BY <1>0, <2>1, <2>2, <2>3, <2>5, <2>6, <2>7, LinksKept, ThrottleAssumption
    DEF ThrottleAssumption
<1> QED
  BY <1>1, <1>2

\* A request that fails leaves its call over,
LEMMA FailsKeeps ==
    ASSUME ThrottleInv, NEW r \in Requests, RequestFails(r)
    PROVE  Links'
<1>0. /\ Typed /\ Links /\ LimiterTypeOK /\ req \in [Requests -> Request] /\ req[r] \in Request
      /\ CheckFits(r)
  BY Unfold DEF ThrottleInv, LimiterInv, Links
<1>1. /\ Fail(r) /\ UNCHANGED <<db, check, madeBy>>
      /\ req'[r].op = req[r].op /\ req'[r].user = req[r].user
      /\ \A q \in Requests \ {r} : req'[q] = req[q]
  BY <1>0, AskedKept, RequestKinds, OthersAreStill DEF RequestFails, Fail
<1>2. req'[r].pc = "done"
  <2>1. req'[r] = [req[r] EXCEPT !.pc = "done", !.code = 500]
    BY <1>0, <1>1 DEF Fail, Answer
  <2> QED
    BY <1>0, <2>1 DEF Request
<1>3. OwnCall(r) /\ (check[r] \in Calls => call'[check[r]].pc # "idle")
  <2>1. CASE InCheck(r)
    <3>1. check[r] \in Calls /\ ~Over(check[r]) /\ Broken(check[r])
      BY <1>0, <2>1 DEF InCheck, At, CheckFits, Links, RequestFails, Dies
    <3>2. GivesUp(check[r])
      BY <1>0, <3>1, BrokenKind
    <3> QED
      BY <1>0, <1>1, <3>1, <3>2 DEF OwnCall, GivesUp, Ends, Links
  <2>2. CASE ~InCheck(r)
    <3>1. UNCHANGED call
      BY <2>2 DEF RequestFails, limiterVars
    <3> QED
      BY <1>0, <1>1, <3>1 DEF OwnCall, Links, CheckFits
  <2> QED
    BY <2>1, <2>2
<1>4. CheckFits(r)'
  BY <1>0, <1>1, <1>2, <1>3 DEF CheckFits, IsThrottled
<1> QED
  BY <1>0, <1>1, <1>2, <1>3, <1>4, LinksKept

\* and one that ends lets go of it.
LEMMA EndsKeeps ==
    ASSUME ThrottleInv, NEW r \in Requests, RequestEnds(r)
    PROVE  Links'
<1>0. /\ Typed /\ Links /\ req \in [Requests -> Request] /\ NoCheck \notin Calls
  BY Unfold, ThrottleAssumption DEF ThrottleInv, ThrottleAssumption
<1>1. /\ req'[r] = Idle /\ UNCHANGED <<db, call, madeBy>>
      /\ \A q \in Requests \ {r} : req'[q] = req[q]
      /\ check'[r] = NoCheck /\ check' \in [Requests -> Calls \cup {NoCheck}]
      /\ \A q \in Requests \ {r} : check'[q] = check[q]
  BY <1>0 DEF RequestEnds, Forget, limiterVars, Links
<1>2. OwnCall(r) /\ CheckFits(r)'
  BY <1>0, <1>1 DEF OwnCall, CheckFits, IsThrottled, Idle
<1> QED
  BY <1>0, <1>1, <1>2, LinksKept

\* Other steps move no request, no row and no call.
LEMMA LinksStand == Links /\ UNCHANGED <<req, db, call, check, madeBy>> => Links'
BY DEF Links, CheckFits, RideFits, ChecksDiffer, MadeOnce, IsThrottled, Over, Passed

-----------------------------------------------------------------------------
(***************************************************************************)
(* The invariant.                                                          *)
(***************************************************************************)

\* Nothing is linked at the start.
LEMMA ThrottleInitInv == ThrottleInit => ThrottleInv
<1> SUFFICES ASSUME ThrottleInit PROVE ThrottleInv
  OBVIOUS
<1>1. Inv /\ LimiterInv
  BY InitInv, LimiterInitInv DEF ThrottleInit
<1>2. /\ req = [r \in Requests |-> Idle] /\ db.rides = Seed.rides
      /\ check = [r \in Requests |-> NoCheck] /\ madeBy = [i \in RideIds |-> NoCheck]
  BY DEF ThrottleInit, Init, DatabaseInit, RequestsInit
<1>3. Passenger # NoId /\ NoCheck \notin Calls
  BY ThrottleAssumption, DatabaseAssumption DEF ThrottleAssumption, DatabaseAssumption
<1>4. \A r \in Requests : CheckFits(r)
  BY <1>2, <1>3 DEF CheckFits, IsThrottled, Idle
<1>5. \A i \in RideIds : RideFits(i)
  BY <1>2, <1>3 DEF RideFits, NoRide
<1>6. ChecksDiffer /\ MadeOnce
  BY <1>2, <1>3 DEF ChecksDiffer, MadeOnce
<1> QED
  BY <1>1, <1>2, <1>4, <1>5, <1>6 DEF ThrottleInv, Links

\* Every step keeps the links and the invariants of both components.
LEMMA ThrottleStepInv == ThrottleInv /\ [ThrottleNext]_throttleVars => ThrottleInv'
<1> SUFFICES ASSUME ThrottleInv, [ThrottleNext]_throttleVars PROVE ThrottleInv'
  OBVIOUS
<1>1. Inv'
  BY BackendStep, InvStep DEF ThrottleInv
<1>2. LimiterInv'
  BY CheckStep, LimiterStepInv DEF ThrottleInv
<1>3. Links'
  <2>1. ASSUME NEW r \in Requests,
               \/ RequestBegins(r) \/ Checks(r) \/ Handles(r)
               \/ RequestFails(r) \/ RequestEnds(r)
        PROVE  Links'
    BY <2>1, BeginsKeeps, ChecksKeeps, HandlesKeeps, FailsKeeps, EndsKeeps
  <2>2. CASE StoresStep
    <3>1. UNCHANGED <<req, db, call, check, madeBy>>
      BY <2>2 DEF StoresStep, CacheExpires, SlavesCatchUp, CatchUp, limiterVars
    <3> QED
      BY <3>1, LinksStand DEF ThrottleInv
  <2>3. CASE TimeStep
    <3>1. UNCHANGED <<req, db, call, check, madeBy>>
      BY <2>3 DEF TimeStep, Remove, Tick, vars
    <3> QED
      BY <3>1, LinksStand DEF ThrottleInv
  <2>4. CASE UNCHANGED throttleVars
    <3>1. UNCHANGED <<req, db, call, check, madeBy>>
      BY <2>4 DEF throttleVars, vars, limiterVars
    <3> QED
      BY <3>1, LinksStand DEF ThrottleInv
  <2> QED
    BY <2>1, <2>2, <2>3, <2>4 DEF ThrottleNext
<1> QED
  BY <1>1, <1>2, <1>3 DEF ThrottleInv

LEMMA ThrottleInvHolds == ThrottleSpec => []ThrottleInv
BY ThrottleInitInv, ThrottleStepInv, PTL DEF ThrottleSpec

-----------------------------------------------------------------------------
(***************************************************************************)
(* From calls to rows.                                                     *)
(***************************************************************************)

\* Two sets of calls together have no more calls than both.
LEMMA CardinalityOfUnion ==
    ASSUME NEW A \in SUBSET Calls, NEW B \in SUBSET Calls
    PROVE  /\ Cardinality(A) \in Nat /\ Cardinality(B) \in Nat
           /\ Cardinality(A \cup B) <= Cardinality(A) + Cardinality(B)
<1>1. IsFiniteSet(A) /\ IsFiniteSet(B) /\ IsFiniteSet(A \cap B)
  <2>1. A \cap B \in SUBSET Calls
    OBVIOUS
  <2> QED
    BY <2>1, FS_Subset, LimiterAssumption DEF LimiterAssumption
<1>2. Cardinality(A \cup B) = Cardinality(A) + Cardinality(B) - Cardinality(A \cap B)
  BY <1>1, FS_Union
<1>3. Cardinality(A) \in Nat /\ Cardinality(B) \in Nat /\ Cardinality(A \cap B) \in Nat
  BY <1>1, FS_CardinalityType
<1> QED
  BY <1>2, <1>3

\* As many rows as calls made them.
LEMMA RowsAreCalls ==
    ASSUME Links, NEW Rows \in SUBSET RideIds, NEW C \in SUBSET Calls,
           \A i \in Rows : madeBy[i] \in C
    PROVE  /\ IsFiniteSet(C) /\ Cardinality(C) \in Nat /\ Cardinality(Rows) \in Nat
           /\ Cardinality(Rows) <= Cardinality(C)
<1> DEFINE f == [i \in Rows |-> madeBy[i]]
<1>1. IsFiniteSet(C)
  BY FS_Subset, LimiterAssumption DEF LimiterAssumption
<1>2. f \in [Rows -> C]
  OBVIOUS
<1>3. \A i, j \in Rows : f[i] = f[j] => i = j
  BY DEF Links, MadeOnce
<1> HIDE DEF f
<1>4. f \in Injection(Rows, C)
  BY <1>2, <1>3 DEF Injection, IsInjective
<1> QED
  BY <1>1, <1>4, FS_Injection, FS_CardinalityType

\* The calls of a window that let a request pass with one of its places.
PlacedIn(w) == {c \in Calls : Passed(c) /\ Home(c) = w /\ call[c].count \in 1 .. Limit /\ Punctual(c)}

\* There are no more of them than places, for they count before the key of their
\* window is removed.
LEMMA PlacesAreLimited ==
    ASSUME LimiterInv, NEW w \in Windows
    PROVE  Cardinality(PlacedIn(w)) <= Limit
<1> DEFINE S == PlacedIn(w)
           f == [c \in S |-> call[c].count]
<1>1. \A c \in S : c \in Calls /\ Home(c) = w /\ call[c].count \in 1 .. Limit /\ Punctual(c)
  BY DEF PlacedIn
<1>2. \A c \in S : call[c].count > 0 /\ call[c].life = 0
  BY <1>1, PunctualIsFirst, LimiterAssumption DEF LimiterAssumption
<1>3. f \in [S -> 1 .. Limit] /\ Limit \in Nat
  BY <1>1, LimiterAssumption DEF LimiterAssumption
<1>4. ASSUME NEW x \in S, NEW y \in S, f[x] = f[y] PROVE x = y
  <2>1. PlacesDiffer(x, y)
    BY <1>1 DEF LimiterInv
  <2> QED
    BY <1>1, <1>2, <1>4, <2>1 DEF PlacesDiffer
<1> HIDE DEF f, S
<1> QED
  BY <1>3, <1>4, Numbered DEF S

\* Every ride was made by a call that passed, with a place or without.
LEMMA WindowsLimitRides == ThrottleInv => RidesPerWindow
<1> SUFFICES ASSUME ThrottleInv, NEW w \in Windows
             PROVE  Cardinality({i \in RideIds : madeBy[i] \in Calls /\ WindowOf(call[madeBy[i]].read) = w})
                        <= Limit + Cardinality(Unplaced(w))
  BY DEF RidesPerWindow
<1> DEFINE Rows == {i \in RideIds : madeBy[i] \in Calls /\ WindowOf(call[madeBy[i]].read) = w}
           P == PlacedIn(w)
           U == Unplaced(w)
<1>1. Links /\ Cardinality(P) <= Limit
  BY PlacesAreLimited DEF ThrottleInv
<1>2. P \in SUBSET Calls /\ U \in SUBSET Calls
  BY DEF PlacedIn, Unplaced
<1>3. Rows \in SUBSET RideIds /\ \A i \in Rows : madeBy[i] \in P \cup U
  BY <1>1 DEF Links, RideFits, Passed, PlacedIn, Unplaced, Home
<1> HIDE DEF Rows, P, U
<1>4. /\ Cardinality(P \cup U) \in Nat /\ Cardinality(Rows) \in Nat
      /\ Cardinality(Rows) <= Cardinality(P \cup U)
  <2>1. P \cup U \in SUBSET Calls
    BY <1>2
  <2> QED
    BY <1>1, <1>3, <2>1, RowsAreCalls
<1>5. Cardinality(P \cup U) <= Cardinality(P) + Cardinality(U) /\ Cardinality(U) \in Nat
      /\ Cardinality(P) \in Nat
  BY <1>2, CardinalityOfUnion
<1>6. Cardinality(Rows) <= Limit + Cardinality(U)
  BY <1>1, <1>4, <1>5, LimiterAssumption DEF LimiterAssumption
<1> QED
  BY <1>6 DEF Rows, U

\* The calls that have a place while their window lasts.
Placed == {c \in Calls : call[c].pc = "done" /\ call[c].allowed /\ Punctual(c)}

\* Their places, one window after the other.
LEMMA PlacedInBudget ==
    ASSUME LimiterInv
    PROVE  Cardinality(Placed) <= Limit * (WindowOf(now) + 1)
<1> DEFINE n == WindowOf(now) + 1
           f == [c \in Placed |-> Home(c) * Limit + call[c].count]
<1>1. WindowOf(now) \in Nat /\ n \in Nat \ {0} /\ Limit \in Nat
  <2>1. now \in Nat
    BY LimiterAssumption DEF LimiterInv, LimiterTypeOK, LimiterAssumption
  <2> QED
    BY <2>1, WindowBounds, LimiterAssumption DEF LimiterAssumption
<1>2. ASSUME NEW c \in Placed
      PROVE  /\ c \in Calls /\ call[c].count \in 1 .. Limit /\ call[c].life = 0
             /\ Home(c) \in 0 .. (n - 1)
  <2>1. c \in Calls /\ call[c].pc = "done" /\ call[c].allowed /\ Punctual(c)
    BY DEF Placed
  <2>2. /\ call[c].count \in 1 .. Limit /\ call[c].life = 0 /\ Home(c) \in Nat
        /\ call[c].read \in 0 .. MaxNow
    BY <2>1, AdmittedPlace, PunctualIsFirst
  <2>3. call[c].read <= now /\ now \in 0 .. MaxNow
    BY <2>1 DEF LimiterInv, CallFits, LimiterTypeOK
  <2>4. Home(c) <= WindowOf(now)
    BY <2>2, <2>3, LimiterAssumption DEF Home, WindowOf, LimiterAssumption
  <2> QED
    BY <1>1, <2>1, <2>2, <2>4
<1> HIDE DEF n
<1>3. Limit * n \in Nat
  BY <1>1
<1>4. f \in [Placed -> 1 .. Limit * n]
  <2> SUFFICES ASSUME NEW c \in Placed
               PROVE  Home(c) * Limit + call[c].count \in 1 .. Limit * n
    OBVIOUS
  <2> DEFINE h == Home(c)
             p == call[c].count
  <2>1. h \in 0 .. (n - 1) /\ p \in 1 .. Limit
    BY <1>2
  <2> HIDE DEF h, p
  <2>2. (h + 1) * Limit <= n * Limit
    BY <1>1, <2>1
  <2>3. /\ (h + 1) * Limit = h * Limit + Limit /\ n * Limit = Limit * n
        /\ h * Limit \in Nat
    BY <1>1, <2>1
  <2>4. h * Limit + p \in 1 .. Limit * n
    BY <1>1, <1>3, <2>1, <2>2, <2>3
  <2> QED
    BY <2>4 DEF h, p
<1>5. ASSUME NEW x \in Placed, NEW y \in Placed, f[x] = f[y] PROVE x = y
  <2> DEFINE g == Home(x)
             h == Home(y)
             p == call[x].count
             q == call[y].count
  <2>1. /\ g * Limit + p = h * Limit + q
        /\ g \in 0 .. (n - 1) /\ h \in 0 .. (n - 1) /\ p \in 1 .. Limit /\ q \in 1 .. Limit
    BY <1>2, <1>5
  <2> HIDE DEF g, h, p, q
  <2>2. g = h /\ p = q
    <3>1. /\ g * Limit \in Nat /\ h * Limit \in Nat
          /\ (g + 1) * Limit = g * Limit + Limit /\ (h + 1) * Limit = h * Limit + Limit
      BY <1>1, <2>1
    <3>2. g < h => (g + 1) * Limit <= h * Limit
      BY <1>1, <2>1
    <3>3. h < g => (h + 1) * Limit <= g * Limit
      BY <1>1, <2>1
    <3>4. ~(g < h) /\ ~(h < g)
      BY <1>1, <2>1, <3>1, <3>2, <3>3
    <3>5. g = h
      BY <1>1, <2>1, <3>4
    <3> QED
      BY <1>1, <2>1, <3>1, <3>5
  <2>3. PlacesDiffer(x, y)
    BY <1>2 DEF LimiterInv
  <2> QED
    BY <1>2, <2>2, <2>3 DEF PlacesDiffer, g, h, p, q
<1> HIDE DEF f
<1> QED
  BY <1>3, <1>4, <1>5, Numbered DEF n

\* A row of the passenger was made by a call that has a place or is exempt.
LEMMA BudgetLimitsRides == ThrottleInv => RidesInBudget
<1> SUFFICES ASSUME ThrottleInv PROVE RidesInBudget
  OBVIOUS
<1> DEFINE Rows == {i \in RideIds : db.rides[i].passenger = Passenger /\ Seed.rides[i] = NoRide}
<1>1. Links /\ LimiterInv
  BY DEF ThrottleInv
<1>2. Placed \in SUBSET Calls /\ Exempt \in SUBSET Calls
  BY DEF Placed, Exempt
<1>3. \A i \in Rows : madeBy[i] \in Placed \cup Exempt
  BY <1>1 DEF Links, RideFits, Passed, Over, Placed, Exempt
<1>4. /\ Cardinality(Rows) \in Nat /\ Cardinality(Placed \cup Exempt) \in Nat
      /\ Cardinality(Rows) <= Cardinality(Placed \cup Exempt)
  <2>1. Rows \in SUBSET RideIds /\ Placed \cup Exempt \in SUBSET Calls
    BY <1>2
  <2> HIDE DEF Rows
  <2> QED
    BY <1>1, <1>3, <2>1, RowsAreCalls
<1>5. /\ Cardinality(Placed) \in Nat /\ Cardinality(Exempt) \in Nat
      /\ Cardinality(Placed \cup Exempt) <= Cardinality(Placed) + Cardinality(Exempt)
  BY <1>2, CardinalityOfUnion
<1>6. Cardinality(Placed) <= Limit * (WindowOf(now) + 1)
  BY <1>1, PlacedInBudget
<1>7. Limit * (WindowOf(now) + 1) \in Int
  <2>1. now \in Nat /\ Limit \in Nat
    BY <1>1, LimiterAssumption DEF LimiterInv, LimiterTypeOK, LimiterAssumption
  <2>2. WindowOf(now) \in Nat
    BY <2>1, WindowBounds
  <2> QED
    BY <2>1, <2>2
<1> QED
  BY <1>4, <1>5, <1>6, <1>7 DEF RidesInBudget

-----------------------------------------------------------------------------
(***************************************************************************)
(* The composition implements both components, and bounds the rides.       *)
(***************************************************************************)

\* Behind the limiter the services still do nothing they could not do without
\* it: every invariant of Backend holds of the whole.
THEOREM ThrottledBackend == ThrottleSpec => Spec
<1>1. ThrottleInit => Init
  BY DEF ThrottleInit
<1> QED
  BY <1>1, BackendStep, PTL DEF ThrottleSpec, Spec

\* Whatever the handlers do with their verdicts, the calls of Check are calls of
\* RateLimiter: every invariant of RateLimiter holds of the whole.
THEOREM ThrottledCalls == ThrottleSpec => LimiterSpec
<1>1. ThrottleInit => LimiterInit
  BY DEF ThrottleInit
<1> QED
  BY <1>1, CheckStep, ThrottleInvHolds, PTL DEF ThrottleSpec, LimiterSpec

\* The life cycle of rides is implemented with the limiter, too.
THEOREM ThrottledLifecycle == ThrottleSpec => LifecycleSpec
BY ThrottledBackend, ImplementsLifecycle, PTL

\* For any limit and window, all the rides that requests of one window make
\* (ApplyRateLimit, CreateRideHandler), however they race, fail, die and are sent
\* again, are at most Limit, and one for every call of Check that passed without
\* one of the Limit places: one whose INCR never reached Redis, one of a higher
\* count that Redis failed afterwards, one that counted when its window was over.
\* A punctual call within the limit whose answer was lost counts as placed.
THEOREM RidesPerWindowLimited == ThrottleSpec => []RidesPerWindow
BY WindowsLimitRides, ThrottleInvHolds, PTL

\* At any time PostgreSQL holds no more rows of a passenger than the windows that
\* have begun allow, and one for every call of Check that failed or came too late.
THEOREM RidesStayInBudget == ThrottleSpec => []RidesInBudget
BY BudgetLimitsRides, ThrottleInvHolds, PTL
=============================================================================
