---------------------------- MODULE ListAgeProofs ----------------------------
(***************************************************************************)
(* Without lagging slaves a list of rides that is answered is out of date  *)
(* by no more than TTL + MaxStall.  The inductive invariant says how old   *)
(* the lists in the key and in the hands of requests may be: the one in    *)
(* the key ages as its time to live runs down.                             *)
(***************************************************************************)
EXTENDS ListAge, BackendSafety

\* The key: read MaxStall before it was stored at most, and stored TTL - left
\* ago.
CacheIsFresh == cache # NoList => Fresh(cache, TTL + MaxStall - left)

\* A list about to be stored is as old as the request says.
StoredIsFresh ==
    \A r \in Requests :
        At(r, "list", "store") => waited[r] <= MaxStall /\ Fresh(req[r].seen, waited[r])

AgedInv == Typed /\ past = {} /\ AgedTypeOK /\ CacheIsFresh /\ StoredIsFresh

-----------------------------------------------------------------------------
(***************************************************************************)
(* What a step of a request means to the lists.                            *)
(***************************************************************************)

\* None is answered or about to be stored; the key may go.
Calm(r) ==
    /\ cache' \in {cache, NoList}
    /\ ~AnswersList(r)
    /\ req'[r].pc # "store"

\* The one in the key is answered.
Hits(r) ==
    /\ UNCHANGED <<db, cache>>
    /\ cache # NoList /\ req'[r].seen = cache
    /\ req'[r].pc = "done"

\* One is read, to be stored.
Queries(r) ==
    /\ UNCHANGED <<db, cache>>
    /\ req[r].pc = "query"
    /\ \E s \in Visible : req'[r].seen = ListActiveRides(s)
    /\ req'[r].pc = "store"

\* One that was read is stored and answered.
Keeps(r) ==
    /\ UNCHANGED db
    /\ At(r, "list", "store") /\ ListStore(r)
    /\ cache' \in {cache, req[r].seen} /\ req'[r].seen = req[r].seen
    /\ req'[r].pc = "done"

\* Handlers other than ListActiveRidesHandler have nothing to do with lists but
\* to delete the key.
LEMMA OtherHandlersAreCalm ==
    ASSUME Typed, NEW r \in Requests, Kinds(r), req[r].op # "list", req[r].op # "history"
    PROVE  Calm(r)
<1>0. req[r] \in Request
  BY DEF Typed, TypeOK
<1>1. ~AnswersList(r)
  BY DEF AnswersList
<1>2. cache' \in {cache, NoList}
  BY DEF Kinds, Rejects, Advances, Registers, Creates, Reads, Stores, FindsDriver, Passes,
         Accepts, Completes, Deletes, Replies, Arrives, Leaves
<1>3. ASSUME NEW pc, Went(r, pc) PROVE req'[r].pc = pc
  BY <1>0, <1>3, MovedPc DEF Moved
<1>4. ASSUME NEW pc, NEW d, WentAs(r, pc, d) PROVE req'[r].pc = pc
  BY <1>0, <1>4, MovedDriver DEF Moved
<1>5. ASSUME NEW code, Done(r, code) PROVE req'[r].pc = "done"
  BY <1>0, <1>5, MovedDone DEF Moved
<1>6. ASSUME NEW code, NEW i, req[r].op = "create", DoneRide(r, code, i) PROVE req'[r].pc = "done"
  BY <1>0, <1>6, MovedDoneRide DEF Moved
<1>7. ASSUME Arrives(r) \/ Leaves(r) PROVE req'[r].pc \in {"admit", "driver", "idle"}
  <2>1. CASE Arrives(r)
    BY <2>1, ArrivedFields DEF Arrives
  <2>2. CASE Leaves(r)
    BY <2>2 DEF Leaves, Slot, Idle
  <2> QED
    BY <1>7, <2>1, <2>2
<1>8. req'[r].pc # "store"
  BY <1>3, <1>4, <1>5, <1>6, <1>7
  DEF Kinds, Rejects, Advances, Registers, Creates, Reads, Stores, FindsDriver, Passes,
      Accepts, Completes, Deletes, Replies
<1> QED
  BY <1>1, <1>2, <1>8 DEF Calm

\* What Fail and Forget do to any request.
LEMMA EndsAreCalm ==
    ASSUME Typed, NEW r \in Requests, Fail(r) \/ Forget(r)
    PROVE  Calm(r)
<1>0. req \in [Requests -> Request] /\ req[r] \in Request
  BY DEF Typed, TypeOK
<1>1. CASE Fail(r)
  <2>1. Done(r, 500)
    BY <1>0, <1>1, AnswerSlot, CodeNames DEF Fail
  <2>2. req'[r].pc = "done" /\ req'[r].code = 500
    BY <1>0, <2>1, MovedDone DEF Moved
  <2> QED
    BY <1>1, <2>2 DEF Fail, Calm, AnswersList
<1>2. CASE Forget(r)
  <2>1. req'[r] = Idle
    BY <1>0, <1>2, IdleIsRequest DEF Forget
  <2> QED
    BY <1>2, <2>1 DEF Forget, Calm, AnswersList, Idle
<1> QED
  BY <1>1, <1>2

\* The awaits of ListActiveRidesHandler, one by one.
LEMMA ListHandlerMoves ==
    ASSUME Typed, NEW r \in Requests, HandlerStep(r), req[r].op = "list"
    PROVE  Calm(r) \/ Hits(r) \/ Queries(r) \/ Keeps(r)
<1>0. /\ req \in [Requests -> Request] /\ req[r] \in Request
      /\ cache \in Views \cup {NoList} /\ DatabaseTypeOK
  BY DEF Typed, TypeOK
<1>1. ListAdmit(r) \/ ListCache(r) \/ ListQuery(r) \/ ListStore(r)
  BY DEF HandlerStep, DriverServiceStep, RideServiceStep, At, RegisterAdmit, RegisterExec,
         CreateAdmit, CreateExec, AcceptDriver, AcceptExec, AcceptDel, AcceptReply, CompleteDriver,
         CompleteRideCheck, CompleteExec, CompleteDel, CompleteReply, HistoryAdmit, HistoryQuery
<1>2. CASE ListAdmit(r)
  <2>1. CASE \E code \in {400, 429} : Answer(r, code)
    <3>1. PICK code \in {400, 429} : Done(r, code)
      BY <1>0, <2>1, AnswerSlot, CodeNames
    <3>2. req'[r].pc = "done" /\ req'[r].code \in {400, 429}
      BY <1>0, <3>1, MovedDone DEF Moved
    <3> QED
      BY <1>2, <3>2 DEF ListAdmit, Calm, AnswersList
  <2>2. CASE Goto(r, "cache")
    <3>1. req'[r].pc = "cache"
      BY <1>0, <2>2, GotoSlot, AwaitNames, MovedPc DEF Moved
    <3> QED
      BY <1>2, <3>1 DEF ListAdmit, Calm, AnswersList
  <2> QED
    BY <1>2, <2>1, <2>2 DEF ListAdmit
<1>3. CASE ListCache(r)
  <2>1. PICK found \in {cache, NoList} :
          /\ Get(found)
          /\ IF found # NoList THEN AnswerWith(r, 200, found) ELSE Goto(r, "query")
    BY <1>3 DEF ListCache
  <2>2. UNCHANGED <<db, cache>>
    BY <1>3, <2>1 DEF ListCache, Get
  <2>3. CASE found # NoList
    <3>1. DoneWith(r, 200, found)
      BY <1>0, <2>1, <2>3, AnswerWithSlot, CodeNames
    <3>2. req'[r].pc = "done" /\ req'[r].seen = found
      BY <1>0, <3>1, MovedDoneWith DEF Moved
    <3> QED
      BY <2>2, <2>3, <3>2 DEF Hits
  <2>4. CASE found = NoList
    <3>1. req'[r].pc = "query"
      BY <1>0, <2>1, <2>4, GotoSlot, AwaitNames, MovedPc DEF Moved
    <3> QED
      BY <2>2, <3>1 DEF Calm, AnswersList
  <2> QED
    BY <2>3, <2>4
<1>4. CASE ListQuery(r)
  <2>1. PICK s \in Visible : GotoWith(r, "store", ListActiveRides(s))
    BY <1>4 DEF ListQuery
  <2>2. ListActiveRides(s) \in Views
    BY <1>0, QueryTypes
  <2>3. WentWith(r, "store", ListActiveRides(s))
    BY <1>0, <2>1, <2>2, GotoWithSlot, AwaitNames
  <2>4. req'[r].pc = "store" /\ req'[r].seen = ListActiveRides(s)
    BY <1>0, <2>3, MovedSeen DEF Moved
  <2> QED
    BY <1>4, <2>4 DEF ListQuery, Queries, At
<1>5. CASE ListStore(r)
  <2>1. Done(r, 200)
    BY <1>0, <1>5, AnswerSlot, CodeNames DEF ListStore
  <2>2. req'[r].pc = "done" /\ req'[r].seen = req[r].seen
    BY <1>0, <2>1, MovedDone DEF Moved
  <2> QED
    BY <1>5, <2>2 DEF ListStore, Keeps, Set
<1> QED
  BY <1>1, <1>2, <1>3, <1>4, <1>5

\* And those of UserRideHistoryHandler.
LEMMA HistoryHandlerIsCalm ==
    ASSUME Typed, NEW r \in Requests, HandlerStep(r), req[r].op = "history"
    PROVE  Calm(r)
<1>0. /\ req \in [Requests -> Request] /\ req[r] \in Request /\ DatabaseTypeOK
  BY DEF Typed, TypeOK
<1>1. HistoryAdmit(r) \/ HistoryQuery(r)
  BY DEF HandlerStep, DriverServiceStep, RideServiceStep, At, RegisterAdmit, RegisterExec,
         CreateAdmit, CreateExec, ListAdmit, ListCache, ListQuery, ListStore,
         AcceptDriver, AcceptExec, AcceptDel, AcceptReply, CompleteDriver,
         CompleteRideCheck, CompleteExec, CompleteDel, CompleteReply
<1>2. req'[r].pc \in {"done", "query"}
  <2>1. ASSUME Answer(r, 403) PROVE req'[r].pc = "done"
    BY <1>0, <2>1, AnswerSlot, CodeNames, MovedDone DEF Moved
  <2>2. ASSUME Goto(r, "query") PROVE req'[r].pc = "query"
    BY <1>0, <2>2, GotoSlot, AwaitNames, MovedPc DEF Moved
  <2>3. CASE HistoryQuery(r)
    <3>1. PICK s \in Visible : AnswerWith(r, 200, GetUserRideHistory(s, req[r].user))
      BY <2>3 DEF HistoryQuery
    <3>2. GetUserRideHistory(s, req[r].user) \in Views \cup {NoList}
      <4>1. req[r].user \in Users \cup {NoId}
        BY <1>0 DEF Request
      <4> QED
        BY <1>0, <4>1, QueryTypes
    <3>3. DoneWith(r, 200, GetUserRideHistory(s, req[r].user))
      BY <1>0, <3>1, <3>2, AnswerWithSlot, CodeNames
    <3> QED
      BY <1>0, <3>3, MovedDoneWith DEF Moved
  <2> QED
    BY <1>1, <2>1, <2>2, <2>3 DEF HistoryAdmit
<1>3. cache' = cache
  BY <1>1 DEF HistoryAdmit, HistoryQuery
<1> QED
  BY <1>2, <1>3 DEF Calm, AnswersList

\* Whatever happens to a request.
LEMMA ListMoves ==
    ASSUME Typed, NEW r \in Requests, Begin(r) \/ HandlerStep(r) \/ Fail(r) \/ Forget(r)
    PROVE  Calm(r) \/ Hits(r) \/ Queries(r) \/ Keeps(r)
<1>1. CASE Begin(r)
  <2>1. req[r] = Idle
    <3>1. \A op, u, i, pc : Arrive(r, op, u, i, pc) => req[r] = Idle
      BY DEF Arrive
    <3> QED
      BY <1>1, <3>1 DEF Begin
  <2>2. req[r].op = "none"
    BY <2>1 DEF Idle
  <2> QED
    BY <1>1, <2>2, RequestKinds, OtherHandlersAreCalm
<1>2. CASE HandlerStep(r)
  BY <1>2, RequestKinds, OtherHandlersAreCalm, ListHandlerMoves, HistoryHandlerIsCalm
<1> QED
  BY <1>1, <1>2, EndsAreCalm

-----------------------------------------------------------------------------
(***************************************************************************)
(* Ages.                                                                   *)
(***************************************************************************)

\* A list that is fresh is fresh by any weaker measure.
LEMMA FreshEnough ==
    ASSUME AgedTypeOK, NEW n \in Nat, NEW m \in Nat, n <= m, NEW list, Fresh(list, n)
    PROVE  Fresh(list, m)
BY DEF AgedTypeOK, Fresh

\* A step of the services: a row that changed is no longer old.
LEMMA FreshStays ==
    ASSUME AgedTypeOK, AgedStep, NEW n \in Nat, NEW list, Fresh(list, n)
    PROVE  \A i \in RideIds : age'[i] > n => list[i] = (ListActiveRides(db)')[i]
<1> SUFFICES ASSUME NEW i \in RideIds, age'[i] > n
             PROVE  list[i] = (ListActiveRides(db)')[i]
  OBVIOUS
<1>1. age'[i] = IF db'.rides[i] = db.rides[i] THEN age[i] ELSE 0
  BY DEF AgedStep
<1>2. db'.rides[i] = db.rides[i] /\ age[i] > n
  BY <1>1 DEF AgedTypeOK
<1>3. list[i] = ListActiveRides(db)[i]
  BY <1>2 DEF Fresh
<1> QED
  BY <1>2, <1>3 DEF ListActiveRides

\* A tick: what was fresh is so by a measure one larger.
LEMMA FreshFades ==
    ASSUME AgedTypeOK, Tick, NEW n \in Nat, NEW list, Fresh(list, n)
    PROVE  \A i \in RideIds : age'[i] > n + 1 => list[i] = (ListActiveRides(db)')[i]
<1> SUFFICES ASSUME NEW i \in RideIds, age'[i] > n + 1
             PROVE  list[i] = (ListActiveRides(db)')[i]
  OBVIOUS
<1>1. age[i] > n
  BY AgeAssumption DEF Tick, AgedTypeOK
<1>2. list[i] = ListActiveRides(db)[i]
  BY <1>1 DEF Fresh
<1> QED
  BY <1>2 DEF ListActiveRides, Tick, vars

\* The timers keep their types.
LEMMA AgedTypeStep ==
    ASSUME AgedTypeOK, AgedNext
    PROVE  AgedTypeOK'
<1>1. CASE AgedStep
  <2>1. left' \in 0 .. TTL
    BY <1>1, AgeAssumption DEF AgedStep, TimeToLive, AgedTypeOK
  <2>2. waited' \in [Requests -> Nat]
    BY <1>1 DEF AgedStep, AgedTypeOK
  <2>3. age' \in [RideIds -> Nat]
    BY <1>1 DEF AgedStep, AgedTypeOK
  <2> QED
    BY <2>1, <2>2, <2>3 DEF AgedTypeOK
<1>2. CASE Tick
  BY <1>2, AgeAssumption DEF Tick, AgedTypeOK
<1> QED
  BY <1>1, <1>2 DEF AgedNext

-----------------------------------------------------------------------------
(***************************************************************************)
(* The inductive invariant.                                                *)
(***************************************************************************)

\* A step of the services does not let the key grow older than that,
LEMMA CacheStep ==
    ASSUME AgedInv, ~HasSlaves, AgedStep
    PROVE  CacheIsFresh'
<1> SUFFICES ASSUME cache' # NoList
             PROVE  \A i \in RideIds :
                      age'[i] > TTL + MaxStall - left' => cache'[i] = (ListActiveRides(db)')[i]
  BY DEF CacheIsFresh, Fresh
<1>0. Typed /\ AgedTypeOK /\ CacheIsFresh /\ StoredIsFresh /\ Next /\ TimeToLive
  BY DEF AgedInv, AgedStep
<1>1. left \in 0 .. TTL /\ TTL + MaxStall - left \in Nat
  BY <1>0, AgeAssumption DEF AgedTypeOK
<1>2. CASE cache' = cache /\ left' = left
  BY <1>0, <1>1, <1>2, FreshStays DEF CacheIsFresh
<1>3. CASE Stored /\ left' = TTL
  <2>1. PICK r \in Requests : ListStore(r) /\ cache' = req[r].seen
    BY <1>3 DEF Stored
  <2>2. waited[r] <= MaxStall /\ waited[r] \in Nat /\ Fresh(req[r].seen, waited[r])
    BY <1>0, <2>1 DEF ListStore, StoredIsFresh, AgedTypeOK
  <2>3. Fresh(req[r].seen, MaxStall)
    BY <1>0, <2>2, FreshEnough, AgeAssumption
  <2>4. TTL + MaxStall - left' = MaxStall
    BY <1>3, AgeAssumption
  <2> QED
    BY <1>0, <2>1, <2>3, <2>4, FreshStays, AgeAssumption
<1>4. CASE ~Stored
  <2>1. left' = left
    BY <1>0, <1>4 DEF TimeToLive
  <2>2. ASSUME NEW r \in Requests, Calm(r) \/ Hits(r) \/ Queries(r) \/ Keeps(r)
        PROVE  cache' = cache
    BY <1>4, <2>2 DEF Calm, Hits, Queries, Keeps, Stored
  <2>3. cache' = cache
    BY <1>0, <2>2, ListMoves DEF Next, CacheExpires, Expire, SlavesCatchUp
  <2> QED
    BY <1>2, <2>1, <2>3
<1> QED
  BY <1>0, <1>2, <1>3, <1>4 DEF TimeToLive

\* nor the lists about to be stored;
LEMMA StoredStep ==
    ASSUME AgedInv, ~HasSlaves, AgedStep
    PROVE  StoredIsFresh'
<1> SUFFICES ASSUME NEW r \in Requests, At(r, "list", "store")'
             PROVE  /\ waited'[r] <= MaxStall
                    /\ \A i \in RideIds :
                         age'[i] > waited'[r] => req'[r].seen[i] = (ListActiveRides(db)')[i]
  BY DEF StoredIsFresh, Fresh
<1>0. Typed /\ AgedTypeOK /\ StoredIsFresh /\ Next /\ past = {}
  BY DEF AgedInv, AgedStep
<1>1. req'[r].pc = "store"
  BY DEF At
<1>2. waited'[r] = IF At(r, "list", "store") /\ req'[r].pc = "store" THEN waited[r] ELSE 0
  BY DEF AgedStep
<1>3. CASE req'[r] = req[r]
  <2>1. At(r, "list", "store") /\ waited'[r] = waited[r]
    BY <1>1, <1>2, <1>3 DEF At
  <2>2. waited[r] \in Nat /\ waited[r] <= MaxStall /\ Fresh(req[r].seen, waited[r])
    BY <1>0, <2>1 DEF StoredIsFresh, AgedTypeOK
  <2> QED
    BY <1>0, <1>3, <2>1, <2>2, FreshStays
<1>4. CASE Queries(r)
  <2>1. waited'[r] = 0
    BY <1>2, <1>4 DEF Queries, At
  <2>2. req'[r].seen = ListActiveRides(db)'
    BY <1>0, <1>4 DEF Queries, Visible, ListActiveRides
  <2> QED
    BY <2>1, <2>2, AgeAssumption
<1>5. ASSUME NEW q \in Requests, Begin(q) \/ HandlerStep(q) \/ Fail(q) \/ Forget(q)
      PROVE  req'[r] = req[r] \/ Queries(r)
  <2>1. CASE q # r
    BY <1>0, <1>5, <2>1, RequestKinds, OthersAreStill
  <2>2. CASE q = r
    BY <1>0, <1>1, <1>5, <2>2, ListMoves DEF Calm, Hits, Keeps
  <2> QED
    BY <2>1, <2>2
<1>6. req'[r] = req[r] \/ Queries(r)
  BY <1>0, <1>5 DEF Next, CacheExpires, SlavesCatchUp
<1> QED
  BY <1>3, <1>4, <1>6

\* a tick makes both older by one.
LEMMA TickStep ==
    ASSUME AgedInv, Tick
    PROVE  CacheIsFresh' /\ StoredIsFresh'
<1>0. /\ AgedTypeOK /\ CacheIsFresh /\ StoredIsFresh
      /\ UNCHANGED <<db, cache, req>>
  BY DEF AgedInv, Tick, vars
<1>1. CacheIsFresh'
  <2> SUFFICES ASSUME cache # NoList
               PROVE  \A i \in RideIds :
                        age'[i] > TTL + MaxStall - left' => cache[i] = (ListActiveRides(db)')[i]
    BY <1>0 DEF CacheIsFresh, Fresh
  <2>1. left \in 0 .. TTL /\ left' = left - 1 /\ TTL + MaxStall - left \in Nat
    BY <1>0, AgeAssumption DEF Tick, AgedTypeOK
  <2>2. Fresh(cache, TTL + MaxStall - left)
    BY <1>0 DEF CacheIsFresh
  <2>3. TTL + MaxStall - left' = (TTL + MaxStall - left) + 1
    BY <2>1, AgeAssumption
  <2> QED
    BY <1>0, <2>1, <2>2, <2>3, FreshFades
<1>2. StoredIsFresh'
  <2> SUFFICES ASSUME NEW r \in Requests, At(r, "list", "store")
               PROVE  /\ waited'[r] <= MaxStall
                      /\ \A i \in RideIds :
                           age'[i] > waited'[r] => req[r].seen[i] = (ListActiveRides(db)')[i]
    BY <1>0 DEF StoredIsFresh, Fresh, At
  <2>1. waited[r] \in Nat /\ waited'[r] = waited[r] + 1 /\ waited[r] < MaxStall
    BY <1>0 DEF Tick, AgedTypeOK
  <2>2. Fresh(req[r].seen, waited[r])
    BY <1>0 DEF StoredIsFresh
  <2> QED
    BY <1>0, <2>1, <2>2, FreshFades, AgeAssumption
<1> QED
  BY <1>1, <1>2

\* The invariant is kept.
LEMMA AgedInvStep ==
    ASSUME ~HasSlaves, AgedInv, [AgedNext]_agedVars
    PROVE  AgedInv'
<1>0. Typed /\ past = {} /\ AgedTypeOK
  BY DEF AgedInv
<1>1. CASE AgedStep
  <2>1. Next /\ Typed'
    BY <1>0, <1>1, TypedStep DEF AgedStep
  <2>2. past' = {} /\ AgedTypeOK'
    BY <1>0, <1>1, <2>1, NoPast, AgedTypeStep DEF AgedNext
  <2> QED
    BY <1>1, <2>1, <2>2, CacheStep, StoredStep DEF AgedInv
<1>2. CASE Tick
  <2>1. Typed' /\ past' = {}
    BY <1>0, <1>2, TypedStep DEF Tick, vars
  <2> QED
    BY <1>0, <1>2, <2>1, AgedTypeStep, TickStep DEF AgedInv, AgedNext
<1>3. CASE UNCHANGED agedVars
  BY <1>3 DEF agedVars, AgedInv, Typed, TypeOK, DatabaseTypeOK, NamesFit, AgedTypeOK,
              CacheIsFresh, StoredIsFresh, Fresh, At, ListActiveRides
<1> QED
  BY <1>1, <1>2, <1>3 DEF AgedNext

\* It holds at the start,
LEMMA AgedInvInit == AgedInit => AgedInv
<1> SUFFICES ASSUME AgedInit PROVE AgedInv
  OBVIOUS
<1>1. Init /\ left = 0 /\ waited = [r \in Requests |-> 0] /\ age = [i \in RideIds |-> 0]
  BY DEF AgedInit
<1>2. Typed /\ past = {} /\ cache = NoList
  BY <1>1, InitTyped DEF Init, DatabaseInit, RedisInit
<1>3. AgedTypeOK
  BY <1>1, AgeAssumption DEF AgedTypeOK
<1>4. \A r \in Requests : ~At(r, "list", "store")
  BY <1>1 DEF Init, RequestsInit, Idle, At
<1> QED
  BY <1>2, <1>3, <1>4 DEF AgedInv, CacheIsFresh, StoredIsFresh

\* and makes every answer recent.
LEMMA AnswersAreRecent ==
    ASSUME AgedInv, [AgedNext]_agedVars, NEW r \in Requests, AnswersList(r)
    PROVE  Fresh(req'[r].seen, TTL + MaxStall)
<1>0. /\ Typed /\ AgedTypeOK /\ CacheIsFresh /\ StoredIsFresh
      /\ MaxStall \in Nat /\ TTL + MaxStall \in Nat
  BY AgeAssumption DEF AgedInv
<1>1. req'[r] # req[r]
  BY DEF AnswersList
<1>2. AgedStep
  BY <1>1 DEF AgedNext, Tick, vars, agedVars
<1>3. Begin(r) \/ HandlerStep(r) \/ Fail(r) \/ Forget(r)
  <2>1. ASSUME NEW q \in Requests, Begin(q) \/ HandlerStep(q) \/ Fail(q) \/ Forget(q)
        PROVE  q = r
    BY <1>0, <1>1, <2>1, RequestKinds, OthersAreStill
  <2> QED
    BY <1>1, <1>2, <2>1 DEF AgedStep, Next, CacheExpires, SlavesCatchUp
<1>4. CASE Hits(r)
  <2>1. TTL + MaxStall - left \in Nat /\ TTL + MaxStall - left <= TTL + MaxStall
    BY <1>0, AgeAssumption DEF AgedTypeOK
  <2>2. Fresh(req'[r].seen, TTL + MaxStall - left)
    BY <1>0, <1>4 DEF Hits, CacheIsFresh
  <2> QED
    BY <1>0, <2>1, <2>2, FreshEnough
<1>5. CASE Keeps(r)
  <2>1. /\ waited[r] \in Nat /\ waited[r] <= TTL + MaxStall
        /\ Fresh(req'[r].seen, waited[r])
    BY <1>0, <1>5, AgeAssumption DEF Keeps, StoredIsFresh, AgedTypeOK
  <2> QED
    BY <1>0, <2>1, FreshEnough
<1> QED
  BY <1>0, <1>3, <1>4, <1>5, ListMoves DEF AnswersList, Calm, Queries

\* Without lagging slaves, whatever is created, accepted and completed meanwhile
\* and whichever DEL fails or never comes: an answered list is out of date by the
\* TTL and the time lists wait to be stored at most.
THEOREM ListsAreRecent ==
    ASSUME ~HasSlaves
    PROVE  AgedSpec => UnchangedIsShown
<1>1. AgedInit => AgedInv
  BY AgedInvInit
<1>2. AgedInv /\ [AgedNext]_agedVars => AgedInv'
  BY AgedInvStep
<1>3. AgedInv /\ [AgedNext]_agedVars =>
        [\A r \in Requests : AnswersList(r) => Fresh(req'[r].seen, TTL + MaxStall)]_agedVars
  BY AnswersAreRecent
<1> QED
  BY <1>1, <1>2, <1>3, PTL DEF AgedSpec, UnchangedIsShown

\* Timers forbid orders of steps and add none: every theorem on Backend holds
\* with them.
THEOREM AgedBackend == AgedSpec => Spec
<1>1. AgedInit => Init
  BY DEF AgedInit
<1>2. [AgedNext]_agedVars => [Next]_vars
  BY DEF AgedNext, AgedStep, Tick, agedVars, vars
<1> QED
  BY <1>1, <1>2, PTL DEF AgedSpec, Spec
=============================================================================
