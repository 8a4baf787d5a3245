------------------------------ MODULE Backend -------------------------------
(***************************************************************************)
(* The driver service and the ride service side by side, any number of     *)
(* replicas of each, sharing one PostgreSQL and one Redis.                 *)
(***************************************************************************)
EXTENDS DriverService, RideService, Naturals, FiniteSets

vars == <<db, past, cache, req>>

Init == DatabaseInit /\ RedisInit /\ RequestsInit

\* Bound: rides are created only while an id is left for each request that is
\* about to create one.
RoomForRide ==
    Cardinality({r \in Requests : req[r].op = "create" /\ req[r].pc # "done"})
        < Cardinality({i \in RideIds : db.rides[i] = NoRide})

Begin(r) ==
    /\ \/ \E u \in Users :
            \/ Arrive(r, "register", u, NoId, "admit")
            \/ RoomForRide /\ Arrive(r, "create", u, NoId, "admit")
            \/ Arrive(r, "history", u, NoId, "admit")
            \/ \E i \in RideIds :
                 \/ Arrive(r, "accept", u, i, "driver")
                 \/ Arrive(r, "complete", u, i, "driver")
       \/ Arrive(r, "list", NoId, NoId, "admit")
    /\ UNCHANGED <<db, past, cache>>

HandlerStep(r) == DriverServiceStep(r) \/ RideServiceStep(r)

CacheExpires == Expire /\ UNCHANGED <<db, past, req>>

SlavesCatchUp == CatchUp /\ UNCHANGED <<cache, req>>

Next ==
    \/ \E r \in Requests : Begin(r) \/ HandlerStep(r) \/ Fail(r) \/ Forget(r)
    \/ CacheExpires
    \/ SlavesCatchUp

Spec == Init /\ [][Next]_vars

\* A handler that was started runs on (userver schedules every coroutine), the
\* TTL of a key runs out, replication makes progress.  Nothing obliges a client
\* to send a request.
Fairness ==
    /\ \A r \in Requests : WF_vars(HandlerStep(r))
    /\ WF_vars(CacheExpires)
    /\ WF_vars(SlavesCatchUp)

FairSpec == Spec /\ Fairness

-----------------------------------------------------------------------------
\* Every variable holds values of the shape the code gives it.
TypeOK ==
    /\ DatabaseTypeOK
    /\ cache \in Views \cup {NoList}
    /\ req \in [Requests -> Request]

\* The rows of both tables fit each other whatever requests raced or died: a
\* driver id belongs to one user, a ride has a driver exactly when it was
\* accepted, and that driver is a registered one.  CompleteRide updates by id
\* and status alone, and AcceptRide writes the driver it is handed.
RowsFit == Fits(db)

\* The row has been written and the handler has not failed since.
Succeeded(r, op) ==
    /\ req[r].op = op
    /\ req[r].pc \in {"del", "reply"} \/ (req[r].pc = "done" /\ req[r].code = 200)

\* Who is told 200 by AcceptRideHandler has the ride, and keeps it: no later
\* accept, complete or retry of anybody takes it away.
AcceptedRideIsTheirs ==
    \A r \in Requests : Succeeded(r, "accept") =>
        /\ db.rides[req[r].ride].status \in {"accepted", "completed"}
        /\ db.rides[req[r].ride].driver = db.drivers[req[r].user]

\* Once the check of CompleteRideHandler has passed, on a slave and on a row
\* that others may change before the update, the ride is that of the caller; so
\* nobody but its driver completes a ride.
CompleterIsTheDriver ==
    \A r \in Requests :
        /\ At(r, "complete", "exec") \/ Succeeded(r, "complete") =>
              /\ db.rides[req[r].ride].driver # NoId
              /\ db.rides[req[r].ride].driver = db.drivers[req[r].user]
        /\ Succeeded(r, "complete") => db.rides[req[r].ride].status = "completed"

\* Of all requests that accept (or complete) one ride at the same time, one
\* updates the row; the others, a retry by the same driver included, get 400.
OneSucceeds ==
    \A r, q \in Requests : \A op \in {"accept", "complete"} :
        Succeeded(r, op) /\ Succeeded(q, op) /\ req[r].ride = req[q].ride => r = q

\* A row a reader has seen is an earlier form of the row the master holds.
Behind(old, new) ==
    \/ old = NoRide
    \/ old = new
    \/ /\ old.status = "pending" /\ new.status \in {"accepted", "completed"}
       /\ old.passenger = new.passenger /\ old.driver = NoId
    \/ /\ old.status = "accepted" /\ new.status = "completed"
       /\ old.passenger = new.passenger /\ old.driver = new.driver

\* A list may be old but is never wrong: every ride in the cache, in the local
\* variable of a list about to be stored and in an answer really was as shown,
\* and a driver shown for a ride is its driver, whatever the order in which
\* slaves are read and lists are stored and deleted.
ListsOnlyLagBehind ==
    \A list \in ({cache} \cup {req[r].seen : r \in Requests}) \ {NoList} :
        \A i \in RideIds : Behind(list[i], db.rides[i])

\* The services implement the life cycle of a ride.
Lifecycle == INSTANCE RideLifecycle WITH drivers <- db.drivers, rides <- db.rides
LifecycleSpec == Lifecycle!Spec

\* A ride once completed vanishes from the cached list for good: the lists that
\* were read before the update and are stored after the Del run out in the end,
\* and no list read later has it.
CompletedLeavesTheCache ==
    \A i \in RideIds :
        db.rides[i].status = "completed"
            ~> [](cache # NoList => cache[i] = NoRide)

-----------------------------------------------------------------------------
(***************************************************************************)
(* The inductive invariant behind the safety properties.                   *)
(***************************************************************************)

\* The users and rides of the requests that name them.
NamesFit ==
    \A r \in Requests :
        /\ req[r].op \in {"register", "create", "accept", "complete", "history"}
             => req[r].user \in Users
        /\ req[r].op \in {"accept", "complete"} => req[r].ride \in RideIds

\* s could have been committed before t.
Earlier(s, t) ==
    /\ \A u \in Users : s.drivers[u] = NoId \/ s.drivers[u] = t.drivers[u]
    /\ \A i \in RideIds : Behind(s.rides[i], t.rides[i])

PastIsEarlier == \A s \in past : Earlier(s, db)

\* A driver id a handler holds was read, perhaps long ago and from a slave, and
\* still is the id of its user.
KnowsDriver(r) ==
    /\ req[r].driver # NoId =>
          req[r].op \in {"accept", "complete"} /\ req[r].driver = db.drivers[req[r].user]
    /\ At(r, "accept", "exec") \/ At(r, "complete", "ride") \/ At(r, "complete", "exec")
          => req[r].driver # NoId

DriverIsTheirs == \A r \in Requests : KnowsDriver(r)

\* The ride i is in the hands of user u.
Held(i, u) ==
    /\ db.rides[i].status \in {"accepted", "completed"}
    /\ db.rides[i].driver = db.drivers[u]

KeepsRide(r) ==
    /\ Succeeded(r, "accept") \/ At(r, "complete", "exec") \/ Succeeded(r, "complete")
          => Held(req[r].ride, req[r].user)
    /\ Succeeded(r, "complete") => db.rides[req[r].ride].status = "completed"

RidesHeld == \A r \in Requests : KeepsRide(r)

Inv ==
    /\ TypeOK /\ NamesFit
    /\ RowsFit
    /\ PastIsEarlier
    /\ DriverIsTheirs
    /\ RidesHeld
    /\ OneSucceeds
    /\ ListsOnlyLagBehind
=============================================================================
