---------------------------- MODULE RideClients -----------------------------
(***************************************************************************)
(* Backend seen by its clients.  History variables record what successful  *)
(* answers have told them about each ride and have granted them, and what  *)
(* they had been told when they sent the request they wait for: an answer  *)
(* that shows less, or takes back what was granted, is one a client can    *)
(* tell is wrong.                                                          *)
(***************************************************************************)
EXTENDS Backend, FiniteSetsExt

VARIABLES
    told,   \* how far clients were told each ride is
    began,  \* told, when the request in a slot arrived
    granted, \* the registrations and accepts users were told have succeeded
    overtaken, \* the requests with a list that a Del has overtaken
    late    \* the cached list was stored by one of them

clientVars == <<db, past, cache, req, told, began, granted, overtaken, late>>

Progress == [absent |-> 0, pending |-> 1, accepted |-> 2, completed |-> 3]

\* q has been answered with this code.
Tells(q, op, code) == q.op = op /\ q.pc = "done" /\ q.code = code

\* What the answer q says about ride i.
Promise(q, i) ==
    CASE q.ride = i /\ Tells(q, "create", 201)   -> Progress.pending
      [] q.ride = i /\ Tells(q, "accept", 200)   -> Progress.accepted
      [] q.ride = i /\ Tells(q, "complete", 200) -> Progress.completed
      [] OTHER -> Progress.absent

Grants(q) == Tells(q, "register", 201) \/ Tells(q, "accept", 200)

NothingTold == [i \in RideIds |-> Progress.absent]

\* The handler goes on from the DEL, or from the SETEX.
RunsDel(r) == req[r].pc = "del" /\ req'[r].pc = "reply"
Caches(r) == At(r, "list", "store") /\ Tells(req'[r], "list", 200)

Observe ==
    /\ told' = [i \in RideIds |-> Max({told[i]} \cup {Promise(req'[r], i) : r \in Requests})]
    /\ began' = [r \in Requests |->
                   IF req'[r].pc = "idle" THEN NothingTold
                   ELSE IF req[r].pc = "idle" THEN told ELSE began[r]]
    /\ granted' = granted \cup
         {<<req'[r].op, req'[r].user, req'[r].ride>> : r \in {q \in Requests : Grants(req'[q])}}
    /\ overtaken' = {r \in Requests :
                       /\ At(r, "list", "store") /\ req'[r].pc = "store"
                       /\ r \in overtaken \/ \E q \in Requests : RunsDel(q)}
    /\ late' = /\ cache' # NoList
               /\ IF \E r \in Requests : Caches(r) THEN \E r \in overtaken : Caches(r) ELSE late

ClientInit ==
    /\ Init
    /\ told = NothingTold
    /\ began = [r \in Requests |-> NothingTold]
    /\ granted = {}
    /\ overtaken = {}
    /\ late = FALSE

ClientSpec == ClientInit /\ [][Next /\ Observe]_clientVars

Shown(r, op) == Tells(req[r], op, 200)

-----------------------------------------------------------------------------
\* The list shows each ride there at least as far as n says.  A ride it does not
\* show is completed, or one create told of: no concern of Del.
ShowsAtLeast(list, n) ==
    \A i \in RideIds : list[i] # NoRide /\ n[i] > Progress.pending
                           => Progress[list[i].status] >= n[i]

ListAnswered(r) == req[r].pc # "done" /\ Tells(req'[r], "list", 200)

\* What deleting the key after the update and before the answer is worth: a list
\* asked for after an accept or a complete was answered shows it, except in one
\* way only.  A Del must fall between the query and the SETEX of some request,
\* and the list that one stores must be the one found.
OnlyLateEntriesMislead ==
    [][\A r \in Requests : ListAnswered(r) =>
         \/ At(r, "list", "cache") /\ late
         \/ ShowsAtLeast(req'[r].seen, began[r])]_clientVars

\* A passenger's history shows each ride of theirs at least as far as answers
\* had told when the history was asked for.
HistoryKeepsUp ==
    \A r \in Requests : Shown(r, "history") =>
        \A i \in RideIds :
            db.rides[i].passenger = req[r].user
                => Progress[req[r].seen[i].status] >= began[r][i]

Forbids(r) == req[r].pc # "done" /\ req'[r].pc = "done" /\ req'[r].code = 403

\* Accept and complete look the caller up by themselves, long after other
\* requests of theirs were answered: whoever was told 201 as a driver is never
\* told again that only drivers can accept rides, and whoever was told 200 for a
\* ride is never told that it is another driver's.
GrantedIsNotForbidden ==
    [][\A r \in Requests : Forbids(r) =>
         /\ req[r].op = "accept" => <<"register", req[r].user, NoId>> \notin granted
         /\ req[r].op = "complete" =>
              <<"accept", req[r].user, req[r].ride>> \notin granted]_clientVars

\* What tests/test_ride_service.py checks: a list asked for after a ride was
\* created has that ride, unless it has been completed since.
CreatedRideIsListed ==
    \A r \in Requests : Shown(r, "list") =>
        \A i \in RideIds :
            began[r][i] = Progress.pending /\ db.rides[i].status # "completed"
                => req[r].seen[i] # NoRide

\* What performance_design.md says of the invalidation: a list asked for after
\* an accept was answered does not show the ride as pending.
AcceptedRideIsNotPending ==
    \A r \in Requests : Shown(r, "list") =>
        \A i \in RideIds :
            began[r][i] >= Progress.accepted => req[r].seen[i].status # "pending"

\* What RegisterDriverHandler says on its branch for an empty result: whoever is
\* a driver already is answered 409.
SecondRegistrationConflicts ==
    [][\A r \in Requests :
         At(r, "register", "exec") /\ DuplicateDriver(req[r].user) /\ req'[r].pc = "done"
             => req'[r].code = 409]_clientVars
=============================================================================
