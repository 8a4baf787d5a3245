--------------------------- MODULE BackendSafety ----------------------------
(***************************************************************************)
(* The safety properties of Backend, proved from the inductive invariant   *)
(* Inv.  First: the tables only ever move forward (Earlier(db, db')), so   *)
(* what a request or a reader once learnt of a row stays a true if old     *)
(* account of it.  Then one lemma per conjunct of Inv, and last that every *)
(* step is one of RideLifecycle.                                           *)
(***************************************************************************)
EXTENDS BackendProofs

-----------------------------------------------------------------------------
(***************************************************************************)
(* Rows move forward.                                                      *)
(***************************************************************************)

\* A row older than an older row is older still.
LEMMA BehindTransitive ==
    ASSUME NEW a \in RideRow, NEW b \in RideRow, NEW c \in RideRow,
           Behind(a, b), Behind(b, c)
    PROVE  Behind(a, c)
<1>1. NoRide.status = "absent"
  BY DEF NoRide
<1> QED
  BY <1>1 DEF Behind, RideRow

\* A state is no later than itself.
LEMMA EarlierReflexive == \A s : Earlier(s, s)
BY DEF Earlier, Behind

\* So for whole states of the database.
LEMMA EarlierTransitive ==
    ASSUME NEW a \in Contents, NEW b \in Contents, NEW c \in Contents,
           Earlier(a, b), Earlier(b, c)
    PROVE  Earlier(a, c)
<1>1. \A i \in RideIds : a.rides[i] \in RideRow /\ b.rides[i] \in RideRow /\ c.rides[i] \in RideRow
  BY DEF Contents
<1>2. \A i \in RideIds : Behind(a.rides[i], c.rides[i])
  BY <1>1, BehindTransitive DEF Earlier
<1> QED
  BY <1>2 DEF Earlier

\* The shape of db for the lemmas below.
LEMMA Tables ==
    ASSUME DatabaseTypeOK
    PROVE  /\ db \in Contents /\ past \subseteq Contents
           /\ db.drivers \in [Users -> DriverIds \cup {NoId}]
           /\ db.rides \in [RideIds -> RideRow]
           /\ db = [drivers |-> db.drivers, rides |-> db.rides]
BY DEF DatabaseTypeOK, Contents

\* What each statement does to the rows.
Forward == Earlier(db, db') /\ RowsFit' /\ past' \subseteq past \cup {db}

\* RegisterDriver adds a row with an id of its own.
LEMMA RegisterForward ==
    ASSUME DatabaseTypeOK, RowsFit, NEW u \in Users, RegisterDriver(u)
    PROVE  Forward
<1>1. PICK d \in DriverIds : /\ \A other \in Users : db.drivers[other] # d
                             /\ Commit([db EXCEPT !.drivers[u] = d])
  BY DEF RegisterDriver
<1>2. db'.drivers = [db.drivers EXCEPT ![u] = d] /\ db'.rides = db.rides
  BY <1>1, Tables DEF Commit
<1>3. db.drivers[u] = NoId
  BY DEF RegisterDriver, DuplicateDriver
<1>4. Earlier(db, db')
  BY <1>2, <1>3, Tables DEF Earlier, Behind
<1>5. RowsFit'
  BY <1>1, <1>2, <1>3, Tables DEF RowsFit, Fits
<1>6. past' \subseteq past \cup {db}
  BY <1>1 DEF Commit
<1> QED
  BY <1>4, <1>5, <1>6 DEF Forward

\* CreateRide adds a pending ride.
LEMMA CreateForward ==
    ASSUME DatabaseTypeOK, RowsFit, NEW u \in Users, NEW i \in RideIds, CreateRide(u, i)
    PROVE  Forward
<1> DEFINE row == [passenger |-> u, driver |-> NoId, status |-> "pending"]
<1>1. db.rides[i] = NoRide /\ Commit([db EXCEPT !.rides[i] = row])
  BY DEF CreateRide
<1>2. db'.drivers = db.drivers /\ db'.rides = [db.rides EXCEPT ![i] = row]
  BY <1>1, Tables DEF Commit
<1>3. Earlier(db, db')
  BY <1>1, <1>2, Tables DEF Earlier, Behind
<1>4. RowsFit'
  BY <1>2, Tables DEF RowsFit, Fits
<1>5. past' \subseteq past \cup {db}
  BY <1>1 DEF Commit
<1> QED
  BY <1>3, <1>4, <1>5 DEF Forward

\* AcceptRide, handed the registered driver of a user, assigns a pending ride.
LEMMA AcceptForward ==
    ASSUME DatabaseTypeOK, RowsFit, NEW i \in RideIds, NEW d \in DriverIds,
           NEW u \in Users, db.drivers[u] = d, AcceptRide(i, d)
    PROVE  /\ Forward
           /\ db'.drivers = db.drivers
           /\ db'.rides[i].status = "accepted" /\ db'.rides[i].driver = d
<1> DEFINE row == [passenger |-> db.rides[i].passenger, driver |-> d, status |-> "accepted"]
<1>1. db.rides[i].status = "pending" /\ Commit([db EXCEPT !.rides[i] = row])
  BY DEF AcceptRide, CanAccept
<1>2. db'.drivers = db.drivers /\ db'.rides = [db.rides EXCEPT ![i] = row]
  BY <1>1, Tables DEF Commit
<1>3. db.rides[i].driver = NoId /\ db.rides[i].passenger \in Users /\ d # NoId
  BY <1>1, DatabaseAssumption DEF RowsFit, Fits
<1>4. Earlier(db, db')
  BY <1>1, <1>2, <1>3, Tables DEF Earlier, Behind
<1>5. RowsFit'
  BY <1>2, <1>3, Tables DEF RowsFit, Fits
<1>6. past' \subseteq past \cup {db}
  BY <1>1 DEF Commit
<1> QED
  BY <1>2, <1>4, <1>5, <1>6, Tables DEF Forward

\* CompleteRide changes the status of an accepted ride and nothing else.
LEMMA CompleteForward ==
    ASSUME DatabaseTypeOK, RowsFit, NEW i \in RideIds, CompleteRide(i)
    PROVE  /\ Forward
           /\ db'.drivers = db.drivers
           /\ db'.rides[i].status = "completed" /\ db'.rides[i].driver = db.rides[i].driver
<1>1. db.rides[i].status = "accepted" /\ Commit([db EXCEPT !.rides[i].status = "completed"])
  BY DEF CompleteRide, CanComplete
<1>2. /\ db'.drivers = db.drivers
      /\ db'.rides = [db.rides EXCEPT ![i] = [db.rides[i] EXCEPT !.status = "completed"]]
  BY <1>1, Tables DEF Commit
<1>3. db.rides[i] \in RideRow
  BY Tables
<1>4. /\ db'.rides[i].status = "completed"
      /\ db'.rides[i].driver = db.rides[i].driver
      /\ db'.rides[i].passenger = db.rides[i].passenger
      /\ \A j \in RideIds \ {i} : db'.rides[j] = db.rides[j]
  BY <1>2, <1>3, Tables DEF RideRow
<1>5. Earlier(db, db')
  BY <1>1, <1>2, <1>4 DEF Earlier, Behind
<1>6. RowsFit'
  BY <1>1, <1>2, <1>4 DEF RowsFit, Fits
<1>7. past' \subseteq past \cup {db}
  BY <1>1 DEF Commit
<1> QED
  BY <1>2, <1>4, <1>5, <1>6, <1>7 DEF Forward

-----------------------------------------------------------------------------
(***************************************************************************)
(* Every step moves the tables forward, and what requests know stays true. *)
(***************************************************************************)

\* The parts of the invariant.
LEMMA Unfold ==
    ASSUME Inv
    PROVE  /\ Typed /\ DatabaseTypeOK /\ NamesFit
           /\ cache \in Views \cup {NoList} /\ req \in [Requests -> Request]
           /\ RowsFit /\ PastIsEarlier /\ DriverIsTheirs /\ RidesHeld
           /\ OneSucceeds /\ ListsOnlyLagBehind
BY DEF Inv, Typed, TypeOK

\* Steps without a statement move the tables nowhere.
LEMMA StandsStill ==
    ASSUME Inv, UNCHANGED db, past' \subseteq past
    PROVE  Forward
BY Unfold, EarlierReflexive DEF Forward, RowsFit, Fits

\* The driver of an accept before its update is the registered one of its user.
LEMMA AcceptingDriver ==
    ASSUME Inv, NEW r \in Requests, At(r, "accept", "exec")
    PROVE  /\ req[r].ride \in RideIds /\ req[r].user \in Users
           /\ req[r].driver \in DriverIds /\ db.drivers[req[r].user] = req[r].driver
BY Unfold DEF At, NamesFit, DriverIsTheirs, KnowsDriver, Request

\* Every kind of step of a request moves the tables forward.
LEMMA KindsForward ==
    ASSUME Inv, NEW r \in Requests, Kinds(r)
    PROVE  Forward
<1> USE Unfold
<1>1. CASE Registers(r)
  BY <1>1, RegisterForward DEF Registers, NamesFit
<1>2. CASE Creates(r)
  BY <1>2, CreateForward DEF Creates, NamesFit
<1>3. CASE Accepts(r)
  BY <1>3, AcceptingDriver, AcceptForward DEF Accepts
<1>4. CASE Completes(r)
  <2>1. req[r].ride \in RideIds
    BY <1>4 DEF Completes, At, NamesFit
  <2> QED
    BY <1>4, <2>1, CompleteForward DEF Completes
<1>5. CASE UNCHANGED <<db, past>>
  BY <1>5, StandsStill
<1> QED
  BY <1>1, <1>2, <1>3, <1>4, <1>5
  DEF Kinds, Rejects, Advances, Reads, Stores, FindsDriver, Passes, Deletes, Replies, Arrives, Leaves

\* So does every step of the system.
LEMMA StepForward ==
    ASSUME Inv, [Next]_vars
    PROVE  Forward
<1>1. CASE CacheExpires
  BY <1>1, StandsStill DEF CacheExpires
<1>2. CASE SlavesCatchUp
  BY <1>2, StandsStill DEF SlavesCatchUp, CatchUp
<1>3. CASE UNCHANGED vars
  BY <1>3, StandsStill DEF vars
<1> QED
  BY <1>1, <1>2, <1>3, Unfold, NextKinds, KindsForward

\* A row that has a driver keeps it.
LEMMA HeldStays ==
    ASSUME Inv, DatabaseTypeOK', Forward, NEW i \in RideIds, NEW u \in Users, Held(i, u)
    PROVE  /\ Held(i, u)'
           /\ db.rides[i].status = "completed" => db'.rides[i].status = "completed"
<1>1. db.rides[i].driver # NoId
  BY Unfold DEF Held, RowsFit, Fits
<1>2. db'.drivers[u] = db.drivers[u]
  BY <1>1 DEF Held, Forward, Earlier
<1>3. Behind(db.rides[i], db'.rides[i])
  BY DEF Forward, Earlier
<1>4. db.rides[i] # NoRide
  BY DEF Held, NoRide
<1> QED
  BY <1>2, <1>3, <1>4 DEF Held, Behind

-----------------------------------------------------------------------------
(***************************************************************************)
(* What slaves show stays an earlier state of the master.                  *)
(***************************************************************************)

\* What was committed earlier is still an earlier state after a step.
LEMMA PastStep ==
    ASSUME Inv, Typed', Forward
    PROVE  PastIsEarlier'
<1>1. DatabaseTypeOK'
  BY DEF Typed, TypeOK
<1>2. db \in Contents /\ past \subseteq Contents /\ db' \in Contents
  BY <1>1, Unfold, Tables DEF DatabaseTypeOK
<1>3. ASSUME NEW s \in past'
      PROVE  Earlier(s, db')
  <2>1. s \in Contents /\ Earlier(s, db)
    BY <1>2, <1>3, Unfold, EarlierReflexive DEF Forward, PastIsEarlier
  <2> QED
    BY <1>2, <2>1, EarlierTransitive DEF Forward
<1> QED
  BY <1>3 DEF PastIsEarlier

\* A kSlave query sees the master or an earlier state of it.
LEMMA VisibleIsEarlier ==
    ASSUME Inv, NEW s \in Visible
    PROVE  s \in Contents /\ Earlier(s, db)
BY Unfold, Tables, EarlierReflexive DEF Visible, PastIsEarlier

-----------------------------------------------------------------------------
(***************************************************************************)
(* What a request knows of its driver and its ride.                        *)
(***************************************************************************)

\* A driver id, once read, is not overtaken: the row of a user never changes.
LEMMA DriverStays ==
    ASSUME Inv, Forward, NEW r \in Requests,
           req'[r].op = req[r].op, req'[r].user = req[r].user, req'[r].driver = req[r].driver,
           req[r].driver # NoId
    PROVE  /\ req'[r].op \in {"accept", "complete"}
           /\ req'[r].driver = db'.drivers[req'[r].user]
<1>1. req[r].op \in {"accept", "complete"} /\ req[r].driver = db.drivers[req[r].user]
  BY Unfold DEF DriverIsTheirs, KnowsDriver
<1>2. req[r].user \in Users
  BY <1>1, Unfold DEF NamesFit
<1> QED
  BY <1>1, <1>2 DEF Forward, Earlier

\* A ride in the hands of a request stays there.
LEMMA RideStays ==
    ASSUME Inv, Typed', Forward, NEW r \in Requests,
           req[r].op \in {"accept", "complete"}, Held(req[r].ride, req[r].user),
           req'[r].user = req[r].user, req'[r].ride = req[r].ride
    PROVE  /\ Held(req[r].ride, req[r].user)'
           /\ db.rides[req[r].ride].status = "completed"
                => db'.rides[req'[r].ride].status = "completed"
<1>1. req[r].user \in Users /\ req[r].ride \in RideIds
  BY Unfold DEF NamesFit
<1>2. DatabaseTypeOK'
  BY DEF Typed, TypeOK
<1> DEFINE i == req[r].ride
           u == req[r].user
<1>3. PICK j \in RideIds, v \in Users : j = i /\ v = u
  BY <1>1
<1>4. Held(j, v)
  BY <1>3
<1>5. Held(j, v)' /\ (db.rides[j].status = "completed" => db'.rides[j].status = "completed")
  BY <1>2, <1>4, HeldStays
<1> QED
  BY <1>3, <1>5 DEF Held

\* A request that does not move keeps its driver and its ride whatever others do.
LEMMA OthersKeep ==
    ASSUME Inv, Typed', Forward, NEW r \in Requests, req'[r] = req[r]
    PROVE  KnowsDriver(r)' /\ KeepsRide(r)'
<1>1. KnowsDriver(r) /\ KeepsRide(r)
  BY Unfold DEF DriverIsTheirs, RidesHeld
<1>2. KnowsDriver(r)'
  BY <1>1, DriverStays DEF KnowsDriver, At
<1>3. KeepsRide(r)'
  <2>1. CASE Succeeded(r, "accept") \/ At(r, "complete", "exec") \/ Succeeded(r, "complete")
    BY <1>1, <2>1, RideStays DEF KeepsRide, Succeeded, At
  <2>2. CASE ~(Succeeded(r, "accept") \/ At(r, "complete", "exec") \/ Succeeded(r, "complete"))
    BY <2>2 DEF KeepsRide, Succeeded, At
  <2> QED
    BY <2>1, <2>2
<1> QED
  BY <1>2, <1>3

\* A request that is no accept and no complete, or that was turned away.
LEMMA Bystander ==
    ASSUME Inv, Forward, NEW r \in Requests, NEW pc, NEW code, Moved(r, pc, code),
           req'[r].driver = req[r].driver,
           req[r].op \notin {"accept", "complete"} \/ (pc = "done" /\ code # 200)
    PROVE  KnowsDriver(r)' /\ KeepsRide(r)'
<1>1. KnowsDriver(r)
  BY Unfold DEF DriverIsTheirs
<1>2. KnowsDriver(r)'
  BY <1>1, DriverStays DEF KnowsDriver, At, Moved
<1>3. KeepsRide(r)'
  BY DEF KeepsRide, Succeeded, At, Moved
<1> QED
  BY <1>2, <1>3

\* GetDriverByUserId on any server: an id it returns is the user's own.
LEMMA FindsKeeps ==
    ASSUME Inv, Typed', Forward, NEW r \in Requests, FindsDriver(r)
    PROVE  KnowsDriver(r)' /\ KeepsRide(r)'
<1>0. req[r] \in Request
  BY Unfold
<1>1. PICK s \in Visible :
        LET driver == GetDriverByUserId(s, req[r].user) IN
        /\ driver # NoId
        /\ \/ At(r, "accept", "driver") /\ WentAs(r, "exec", driver)
           \/ At(r, "complete", "driver") /\ WentAs(r, "ride", driver)
  BY DEF FindsDriver
<1> DEFINE driver == GetDriverByUserId(s, req[r].user)
<1>2. req[r].op \in {"accept", "complete"} /\ req[r].user \in Users
  BY <1>1, Unfold DEF At, NamesFit
<1>3. driver = db.drivers[req[r].user] /\ driver # NoId
  BY <1>1, <1>2, VisibleIsEarlier DEF Earlier, GetDriverByUserId
<1>4. db' = db
  BY DEF FindsDriver
<1>5. PICK pc \in {"exec", "ride"} :
        /\ WentAs(r, pc, driver)
        /\ pc = "exec" => req[r].op = "accept"
  BY <1>1 DEF At
<1>6. /\ req'[r].driver = driver /\ req'[r].op = req[r].op /\ req'[r].user = req[r].user
      /\ req'[r].pc = pc
  <2>1. Moved(r, pc, req[r].code) /\ req'[r].driver = driver
    BY <1>0, <1>5, MovedDriver
  <2> QED
    BY <2>1 DEF Moved
<1>7. KnowsDriver(r)'
  BY <1>2, <1>3, <1>4, <1>6 DEF KnowsDriver
<1>8. KeepsRide(r)'
  BY <1>5, <1>6 DEF KeepsRide, Succeeded, At
<1> QED
  BY <1>7, <1>8

\* The check of CompleteRideHandler, on any server: the row it saw names the
\* driver of the caller, and the master's row names the same one.
LEMMA PassesKeeps ==
    ASSUME Inv, Typed', Forward, NEW r \in Requests, Passes(r)
    PROVE  KnowsDriver(r)' /\ KeepsRide(r)'
<1>0. req[r] \in Request
  BY Unfold
<1>1. PICK s \in Visible : s.rides[req[r].ride] # NoRide /\ s.rides[req[r].ride].driver = req[r].driver
  BY DEF Passes, GetRideById
<1>2. req[r].op = "complete" /\ req[r].pc = "ride"
  BY DEF Passes, At
<1>3. req[r].ride \in RideIds /\ req[r].user \in Users
  BY <1>2, Unfold DEF NamesFit
<1>4. req[r].driver # NoId /\ req[r].driver = db.drivers[req[r].user]
  BY <1>2, Unfold DEF DriverIsTheirs, KnowsDriver, At
<1>5. Behind(s.rides[req[r].ride], db.rides[req[r].ride])
  BY <1>3, VisibleIsEarlier DEF Earlier
<1>6. db.rides[req[r].ride].driver = req[r].driver
  BY <1>1, <1>4, <1>5 DEF Behind
<1>7. db.rides[req[r].ride].status \in {"accepted", "completed"}
  <2>1. db.rides[req[r].ride] \in RideRow
    BY <1>3, Unfold, Tables
  <2> QED
    BY <1>3, <1>4, <1>6, <2>1, Unfold DEF RowsFit, Fits, RideRow, Statuses, NoRide
<1>8. db' = db /\ Went(r, "exec")
  BY DEF Passes
<1>9. /\ req'[r].driver = req[r].driver /\ req'[r].op = req[r].op /\ req'[r].user = req[r].user
      /\ req'[r].ride = req[r].ride /\ req'[r].pc = "exec"
  BY <1>0, <1>8, MovedPc DEF Moved
<1>10. KnowsDriver(r)'
  BY <1>2, <1>4, <1>8, <1>9 DEF KnowsDriver
<1>11. KeepsRide(r)'
  BY <1>2, <1>4, <1>6, <1>7, <1>8, <1>9 DEF KeepsRide, Held, Succeeded, At
<1> QED
  BY <1>10, <1>11

\* The two updates and the Del after them.
LEMMA AcceptsKeeps ==
    ASSUME Inv, Typed', Forward, NEW r \in Requests, Accepts(r)
    PROVE  KnowsDriver(r)' /\ KeepsRide(r)'
<1>0. req[r] \in Request
  BY Unfold
<1>1. /\ req[r].op = "accept" /\ req[r].ride \in RideIds /\ req[r].user \in Users
      /\ req[r].driver \in DriverIds /\ db.drivers[req[r].user] = req[r].driver
  BY AcceptingDriver DEF Accepts, At
<1>2. /\ db'.drivers = db.drivers
      /\ db'.rides[req[r].ride].status = "accepted"
      /\ db'.rides[req[r].ride].driver = req[r].driver
  BY <1>1, Unfold, AcceptForward DEF Accepts
<1>3. /\ req'[r].driver = req[r].driver /\ req'[r].op = req[r].op /\ req'[r].user = req[r].user
      /\ req'[r].ride = req[r].ride /\ req'[r].pc = "del"
  BY <1>0, MovedPc DEF Accepts, Moved
<1>4. KnowsDriver(r)'
  BY <1>1, <1>2, <1>3 DEF KnowsDriver, At
<1>5. KeepsRide(r)'
  BY <1>1, <1>2, <1>3 DEF KeepsRide, Held, Succeeded, At
<1> QED
  BY <1>4, <1>5

\* CompleteExec: the ride was the caller's, and now is completed.
LEMMA CompletesKeeps ==
    ASSUME Inv, Typed', Forward, NEW r \in Requests, Completes(r)
    PROVE  KnowsDriver(r)' /\ KeepsRide(r)'
<1>0. req[r] \in Request
  BY Unfold
<1>1. req[r].op = "complete" /\ req[r].ride \in RideIds /\ Held(req[r].ride, req[r].user)
  BY Unfold DEF Completes, At, NamesFit, RidesHeld, KeepsRide
<1>2. /\ db'.drivers = db.drivers
      /\ db'.rides[req[r].ride].status = "completed"
      /\ db'.rides[req[r].ride].driver = db.rides[req[r].ride].driver
  BY <1>1, Unfold, CompleteForward DEF Completes
<1>3. /\ req'[r].driver = req[r].driver /\ req'[r].op = req[r].op /\ req'[r].user = req[r].user
      /\ req'[r].ride = req[r].ride /\ req'[r].pc = "del"
  BY <1>0, MovedPc DEF Completes, Moved
<1>4. KnowsDriver(r)'
  <2>1. req[r].driver # NoId /\ req[r].driver = db.drivers[req[r].user]
    BY Unfold DEF Completes, DriverIsTheirs, KnowsDriver
  <2> QED
    BY <1>1, <1>2, <1>3, <2>1 DEF KnowsDriver
<1>5. KeepsRide(r)'
  BY <1>1, <1>2, <1>3 DEF KeepsRide, Held, Succeeded, At
<1> QED
  BY <1>4, <1>5

\* The Del after either update changes no row.
LEMMA DeletesKeeps ==
    ASSUME Inv, Typed', Forward, NEW r \in Requests, Deletes(r)
    PROVE  KnowsDriver(r)' /\ KeepsRide(r)'
<1>0. req[r] \in Request
  BY Unfold
<1>1. /\ req'[r].driver = req[r].driver /\ req'[r].op = req[r].op /\ req'[r].user = req[r].user
      /\ req'[r].ride = req[r].ride /\ req'[r].pc = "reply"
  BY <1>0, MovedPc DEF Deletes, Moved
<1>2. db' = db /\ (At(r, "accept", "del") \/ At(r, "complete", "del"))
  BY DEF Deletes
<1>3. KnowsDriver(r) /\ KeepsRide(r)
  BY Unfold DEF DriverIsTheirs, RidesHeld
<1>4. KnowsDriver(r)'
  BY <1>1, <1>2, <1>3 DEF KnowsDriver, At
<1>5. KeepsRide(r)'
  BY <1>1, <1>2, <1>3 DEF KeepsRide, Held, Succeeded, At
<1> QED
  BY <1>4, <1>5

\* The answer after it changes nothing else.
LEMMA RepliesKeeps ==
    ASSUME Inv, Typed', Forward, NEW r \in Requests, Replies(r)
    PROVE  KnowsDriver(r)' /\ KeepsRide(r)'
<1>0. req[r] \in Request
  BY Unfold
<1>1. /\ req'[r].driver = req[r].driver /\ req'[r].op = req[r].op /\ req'[r].user = req[r].user
      /\ req'[r].ride = req[r].ride /\ req'[r].pc = "done" /\ req'[r].code = 200
  BY <1>0, MovedDone DEF Replies, Moved
<1>2. db' = db /\ (At(r, "accept", "reply") \/ At(r, "complete", "reply"))
  BY DEF Replies
<1>3. KnowsDriver(r) /\ KeepsRide(r)
  BY Unfold DEF DriverIsTheirs, RidesHeld
<1>4. KnowsDriver(r)'
  BY <1>1, <1>2, <1>3 DEF KnowsDriver, At
<1>5. KeepsRide(r)'
  BY <1>1, <1>2, <1>3 DEF KeepsRide, Held, Succeeded, At
<1> QED
  BY <1>4, <1>5

\* Whatever kind of step its request takes.
LEMMA MoverKeeps ==
    ASSUME Inv, Typed', Forward, NEW r \in Requests, Kinds(r)
    PROVE  KnowsDriver(r)' /\ KeepsRide(r)'
<1>0. req[r] \in Request
  BY Unfold
<1>1. CASE Rejects(r)
  <2>1. PICK code \in Codes \ {200, 201} : Done(r, code)
    BY <1>1 DEF Rejects
  <2> QED
    BY <1>0, <2>1, MovedDone, Bystander
<1>2. CASE Advances(r)
  <2>1. PICK pc : Went(r, pc)
    BY <1>2 DEF Advances
  <2>2. Moved(r, pc, req[r].code) /\ req'[r].driver = req[r].driver
    BY <1>0, <2>1, MovedPc
  <2> QED
    BY <1>2, <2>2, Bystander DEF Advances
<1>3. CASE Registers(r)
  <2>1. PICK code : Done(r, code)
    BY <1>3 DEF Registers
  <2>2. Moved(r, "done", code) /\ req'[r].driver = req[r].driver
    BY <1>0, <2>1, MovedDone
  <2>3. req[r].op \notin {"accept", "complete"}
    BY <1>3 DEF Registers
  <2> QED
    BY <2>2, <2>3, Bystander
<1>4. CASE Creates(r)
  <2>0. req[r].op = "create"
    BY <1>4 DEF Creates
  <2>1. PICK i \in RideIds :
          \/ DoneRide(r, 201, i)
          \/ Done(r, 500)
    BY <1>4 DEF Creates
  <2>2. CASE DoneRide(r, 201, i)
    <3>1. Moved(r, "done", 201) /\ req'[r].driver = req[r].driver
      BY <1>0, <2>0, <2>2, MovedDoneRide
    <3> QED
      BY <2>0, <3>1, Bystander
  <2>3. CASE Done(r, 500)
    <3>1. Moved(r, "done", 500) /\ req'[r].driver = req[r].driver
      BY <1>0, <2>3, MovedDone
    <3> QED
      BY <2>0, <3>1, Bystander
  <2> QED
    BY <2>1, <2>2, <2>3
<1>5. CASE Reads(r)
  <2>0. req[r].op \notin {"accept", "complete"}
    BY <1>5 DEF Reads
  <2>1. PICK list :
          \/ DoneWith(r, 200, list)
          \/ WentWith(r, "store", list)
    BY <1>5 DEF Reads
  <2>2. CASE DoneWith(r, 200, list)
    <3>1. Moved(r, "done", 200) /\ req'[r].driver = req[r].driver
      BY <1>0, <2>2, MovedDoneWith
    <3> QED
      BY <2>0, <3>1, Bystander
  <2>3. CASE WentWith(r, "store", list)
    <3>1. Moved(r, "store", req[r].code) /\ req'[r].driver = req[r].driver
      BY <1>0, <2>3, MovedSeen
    <3> QED
      BY <2>0, <3>1, Bystander
  <2> QED
    BY <2>1, <2>2, <2>3
<1>6. CASE Stores(r)
  <2>1. Moved(r, "done", 200) /\ req'[r].driver = req[r].driver /\ req[r].op = "list"
    BY <1>0, <1>6, MovedDone DEF Stores
  <2> QED
    BY <2>1, Bystander
<1>7. CASE Arrives(r)
  <2>1. req'[r].driver = NoId /\ req'[r].pc \in {"admit", "driver"}
    BY <1>7, ArrivedFields DEF Arrives
  <2> QED
    BY <2>1 DEF KnowsDriver, KeepsRide, Succeeded, At
<1>8. CASE Leaves(r)
  <2>1. req'[r].driver = NoId /\ req'[r].pc = "idle"
    BY <1>8 DEF Leaves, Slot, Idle
  <2> QED
    BY <2>1 DEF KnowsDriver, KeepsRide, Succeeded, At
<1> QED
  BY <1>1, <1>2, <1>3, <1>4, <1>5, <1>6, <1>7, <1>8,
     FindsKeeps, PassesKeeps, AcceptsKeeps, CompletesKeeps, DeletesKeeps, RepliesKeeps
  DEF Kinds

\* A step of one request leaves the others alone.
LEMMA OthersAreStill ==
    ASSUME NEW r \in Requests, Kinds(r), NEW q \in Requests, q # r
    PROVE  req'[q] = req[q]
<1>1. ASSUME NEW new, Slot(r, new)
      PROVE  req'[q] = req[q]
  BY <1>1 DEF Slot
<1>2. /\ \A pc : Went(r, pc) => req'[q] = req[q]
      /\ \A pc, d : WentAs(r, pc, d) => req'[q] = req[q]
      /\ \A pc, list : WentWith(r, pc, list) => req'[q] = req[q]
      /\ \A code : Done(r, code) => req'[q] = req[q]
      /\ \A code, list : DoneWith(r, code, list) => req'[q] = req[q]
      /\ \A code, i : DoneRide(r, code, i) => req'[q] = req[q]
      /\ \A op, u, i, pc : Arrived(r, op, u, i, pc) => req'[q] = req[q]
  BY <1>1 DEF Went, WentAs, WentWith, Done, DoneWith, DoneRide, Arrived
<1> QED
  BY <1>1, <1>2
  DEF Kinds, Rejects, Advances, Registers, Creates, Reads, Stores, FindsDriver, Passes,
      Accepts, Completes, Deletes, Replies, Arrives, Leaves

\* Every step keeps what all requests know.
LEMMA KeepsStep ==
    ASSUME Inv, Typed', Forward, [Next]_vars
    PROVE  DriverIsTheirs' /\ RidesHeld'
<1>1. ASSUME NEW q \in Requests
      PROVE  KnowsDriver(q)' /\ KeepsRide(q)'
  <2>1. CASE \E r \in Requests : Kinds(r)
    BY <2>1, OthersAreStill, OthersKeep, MoverKeeps
  <2>2. CASE UNCHANGED req
    BY <2>2, OthersKeep
  <2> QED
    BY <2>1, <2>2, Unfold, NextKinds DEF CacheExpires, SlavesCatchUp, vars
<1> QED
  BY <1>1 DEF DriverIsTheirs, RidesHeld

-----------------------------------------------------------------------------
(***************************************************************************)
(* One request succeeds.                                                   *)
(***************************************************************************)

\* A request that has just succeeded updated the row itself, and found it as
\* no request that had succeeded before could have left it.
LEMMA FreshSuccess ==
    ASSUME Inv, NEW r \in Requests, Kinds(r), NEW op \in {"accept", "complete"},
           Succeeded(r, op)'
    PROVE  /\ req[r].op = op /\ req'[r].ride = req[r].ride
           /\ \/ Succeeded(r, op)
              \/ op = "accept" /\ db.rides[req[r].ride].status = "pending"
              \/ op = "complete" /\ db.rides[req[r].ride].status = "accepted"
<1>0. req[r] \in Request
  BY Unfold
<1>1. req'[r].op = op /\ (req'[r].pc \in {"del", "reply"} \/ (req'[r].pc = "done" /\ req'[r].code = 200))
  BY DEF Succeeded
<1>2. CASE Accepts(r)
  <2>1. req'[r].op = req[r].op /\ req'[r].ride = req[r].ride
    BY <1>0, <1>2, MovedPc DEF Accepts, Moved
  <2> QED
    BY <1>1, <1>2, <2>1 DEF Accepts, At, AcceptRide, CanAccept
<1>3. CASE Completes(r)
  <2>1. req'[r].op = req[r].op /\ req'[r].ride = req[r].ride
    BY <1>0, <1>3, MovedPc DEF Completes, Moved
  <2> QED
    BY <1>1, <1>3, <2>1 DEF Completes, At, CompleteRide, CanComplete
<1>4. CASE Deletes(r)
  <2>1. req'[r].op = req[r].op /\ req'[r].ride = req[r].ride
    BY <1>0, <1>4, MovedPc DEF Deletes, Moved
  <2> QED
    BY <1>1, <1>4, <2>1 DEF Deletes, At, Succeeded
<1>5. CASE Rejects(r)
  <2>1. PICK code \in Codes \ {200, 201} : Done(r, code)
    BY <1>5 DEF Rejects
  <2>2. req'[r].pc = "done" /\ req'[r].code = code
    BY <1>0, <2>1, MovedDone DEF Moved
  <2> QED
    BY <1>1, <2>1, <2>2
<1>6. CASE Advances(r)
  <2>1. PICK pc \in {"exec", "cache", "query"} : Went(r, pc)
    BY <1>6 DEF Advances
  <2>2. req'[r].pc = pc
    BY <1>0, <2>1, MovedPc DEF Moved
  <2> QED
    BY <1>1, <2>1, <2>2
<1>7. ASSUME req[r].op \notin {"accept", "complete"}, NEW pc, NEW code, Moved(r, pc, code)
      PROVE  FALSE
  BY <1>1, <1>7 DEF Moved
<1>8. CASE Registers(r)
  <2>1. PICK code : Done(r, code)
    BY <1>8 DEF Registers
  <2>2. Moved(r, "done", code)
    BY <1>0, <2>1, MovedDone
  <2>3. req[r].op \notin {"accept", "complete"}
    BY <1>8 DEF Registers
  <2> QED
    BY <1>7, <2>2, <2>3
<1>9. CASE Creates(r)
  <2>1. PICK i \in RideIds :
          \/ DoneRide(r, 201, i)
          \/ Done(r, 500)
    BY <1>9 DEF Creates
  <2>2. req[r].op = "create"
    BY <1>9 DEF Creates
  <2>3. \E code : Moved(r, "done", code)
    BY <1>0, <2>1, <2>2, MovedDone, MovedDoneRide
  <2> QED
    BY <1>7, <2>2, <2>3
<1>10. CASE Reads(r)
  <2>1. PICK list :
          \/ DoneWith(r, 200, list)
          \/ WentWith(r, "store", list)
    BY <1>10 DEF Reads
  <2>2. \E pc, code : Moved(r, pc, code)
    BY <1>0, <2>1, MovedDoneWith, MovedSeen
  <2>3. req[r].op \notin {"accept", "complete"}
    BY <1>10 DEF Reads
  <2> QED
    BY <1>7, <2>2, <2>3
<1>11. CASE Stores(r)
  <2>1. req[r].op = "list" /\ Moved(r, "done", 200)
    BY <1>0, <1>11, MovedDone DEF Stores
  <2> QED
    BY <1>7, <2>1
<1>12. CASE FindsDriver(r)
  <2>1. PICK pc \in {"exec", "ride"} : \E driver : WentAs(r, pc, driver)
    BY <1>12 DEF FindsDriver
  <2>2. req'[r].pc = pc
    <3>1. Moved(r, pc, req[r].code)
      BY <1>0, <2>1, MovedDriver
    <3> QED
      BY <3>1 DEF Moved
  <2> QED
    BY <1>1, <2>1, <2>2
<1>13. CASE Passes(r)
  <2>1. req'[r].pc = "exec"
    BY <1>0, <1>13, MovedPc DEF Passes, Moved
  <2> QED
    BY <1>1, <2>1
<1>14. CASE Arrives(r)
  <2>1. req'[r].pc \in {"admit", "driver"}
    BY <1>14, ArrivedFields DEF Arrives
  <2> QED
    BY <1>1, <2>1
<1>15. CASE Leaves(r)
  <2>1. req'[r].pc = "idle"
    BY <1>15 DEF Leaves, Slot, Idle
  <2> QED
    BY <1>1, <2>1
<1>16. CASE Replies(r)
  <2>1. req'[r].op = req[r].op /\ req'[r].ride = req[r].ride
    BY <1>0, <1>16, MovedDone DEF Replies, Moved
  <2> QED
    BY <1>1, <1>16, <2>1 DEF Replies, At, Succeeded
<1> QED
  BY <1>2, <1>3, <1>4, <1>5, <1>6, <1>8, <1>9, <1>10, <1>11, <1>12, <1>13, <1>14, <1>15, <1>16
  DEF Kinds

\* A fresh success and an earlier one cannot be of one ride.
LEMMA NoSecondSuccess ==
    ASSUME Inv, NEW r \in Requests, Kinds(r), NEW q \in Requests, q # r,
           NEW op \in {"accept", "complete"},
           Succeeded(r, op)', Succeeded(q, op)', req'[r].ride = req'[q].ride
    PROVE  FALSE
<1>1. req'[q] = req[q]
  BY OthersAreStill
<1>2. Succeeded(q, op)
  BY <1>1 DEF Succeeded
<1>3. req[r].ride = req[q].ride
  BY <1>1, FreshSuccess
<1>4. Held(req[q].ride, req[q].user) /\ (op = "complete" => db.rides[req[q].ride].status = "completed")
  BY <1>2, Unfold DEF RidesHeld, KeepsRide
<1>5. Succeeded(r, op)
  BY <1>3, <1>4, FreshSuccess DEF Held
<1> QED
  BY <1>2, <1>3, <1>5, Unfold DEF OneSucceeds

\* No step lets a second request succeed.
LEMMA OneStep ==
    ASSUME Inv, [Next]_vars
    PROVE  OneSucceeds'
<1>1. ASSUME NEW r \in Requests, NEW q \in Requests, NEW op \in {"accept", "complete"},
             Succeeded(r, op)', Succeeded(q, op)', req'[r].ride = req'[q].ride, r # q
      PROVE  FALSE
  <2>1. CASE \E x \in Requests : Kinds(x)
    <3>1. PICK x \in Requests : Kinds(x)
      BY <2>1
    <3>2. CASE x = r \/ x = q
      BY <1>1, <3>1, <3>2, NoSecondSuccess
    <3>3. CASE x # r /\ x # q
      BY <1>1, <3>1, <3>3, OthersAreStill, Unfold DEF OneSucceeds, Succeeded
    <3> QED
      BY <3>2, <3>3
  <2>2. CASE UNCHANGED req
    BY <1>1, <2>2, Unfold DEF OneSucceeds, Succeeded
  <2> QED
    BY <2>1, <2>2, Unfold, NextKinds DEF CacheExpires, SlavesCatchUp, vars
<1> QED
  BY <1>1 DEF OneSucceeds

-----------------------------------------------------------------------------
(***************************************************************************)
(* Lists.                                                                  *)
(***************************************************************************)

\* A true if old account of the rides in state s.
TrueOf(list, s) == \A i \in RideIds : Behind(list[i], s.rides[i])

\* ListsOnlyLagBehind, list by list.
LEMMA ListsAreTrue ==
    ASSUME Inv
    PROVE  /\ cache # NoList => TrueOf(cache, db)
           /\ \A r \in Requests : req[r].seen # NoList => TrueOf(req[r].seen, db)
BY Unfold DEF ListsOnlyLagBehind, TrueOf

\* What a query returns, on any server.
LEMMA QueriesAreTrue ==
    ASSUME Inv, NEW s \in Visible
    PROVE  /\ TrueOf(ListActiveRides(s), db)
           /\ \A u : TrueOf(GetUserRideHistory(s, u), db)
<1>1. \A i \in RideIds : Behind(s.rides[i], db.rides[i])
  BY VisibleIsEarlier DEF Earlier
<1>2. \A i \in RideIds : Behind(NoRide, db.rides[i])
  BY DEF Behind
<1> QED
  BY <1>1, <1>2 DEF TrueOf, ListActiveRides, GetUserRideHistory

\* A list that was true of the rides stays a true if old account of them.
LEMMA TruthStays ==
    ASSUME Inv, Typed', Forward, NEW list \in Views, TrueOf(list, db)
    PROVE  TrueOf(list, db')
<1>1. db.rides \in [RideIds -> RideRow] /\ db'.rides \in [RideIds -> RideRow]
  BY Unfold DEF Typed, TypeOK, DatabaseTypeOK, Contents
<1>2. ASSUME NEW i \in RideIds
      PROVE  Behind(list[i], db'.rides[i])
  <2>1. list[i] \in RideRow
    BY DEF Views
  <2>2. Behind(list[i], db.rides[i]) /\ Behind(db.rides[i], db'.rides[i])
    BY DEF TrueOf, Forward, Earlier
  <2> QED
    BY <1>1, <2>1, <2>2, BehindTransitive
<1> QED
  BY <1>2 DEF TrueOf

\* The lists a request holds after its step come from where the code took them.
LEMMA SeenFrom ==
    ASSUME Inv, NEW r \in Requests, Kinds(r)
    PROVE  \/ req'[r].seen \in {req[r].seen, NoList}
           \/ /\ UNCHANGED db
              /\ \E s \in Visible :
                   req'[r].seen \in {cache, ListActiveRides(s), GetUserRideHistory(s, req[r].user)}
<1>0. req[r] \in Request
  BY Unfold
<1>1. ASSUME NEW pc, Went(r, pc)
      PROVE  req'[r].seen = req[r].seen
  BY <1>0, <1>1, MovedPc
<1>2. ASSUME NEW code, Done(r, code)
      PROVE  req'[r].seen = req[r].seen
  BY <1>0, <1>2, MovedDone
<1>3. ASSUME NEW pc, NEW d, WentAs(r, pc, d)
      PROVE  req'[r].seen = req[r].seen
  BY <1>0, <1>3, MovedDriver
<1>4. CASE Creates(r)
  <2>0. req[r].op = "create"
    BY <1>4 DEF Creates
  <2>1. PICK i \in RideIds :
          \/ DoneRide(r, 201, i)
          \/ Done(r, 500)
    BY <1>4 DEF Creates
  <2>2. CASE DoneRide(r, 201, i)
    BY <1>0, <2>0, <2>2, MovedDoneRide
  <2>3. CASE Done(r, 500)
    BY <1>2, <2>3
  <2> QED
    BY <2>1, <2>2, <2>3
<1>5. CASE Reads(r)
  <2>1. PICK s \in Visible :
          \E list \in {cache, ListActiveRides(s), GetUserRideHistory(s, req[r].user)} :
            \/ DoneWith(r, 200, list)
            \/ WentWith(r, "store", list)
    BY <1>5 DEF Reads
  <2>4. PICK list \in {cache, ListActiveRides(s), GetUserRideHistory(s, req[r].user)} :
          \/ DoneWith(r, 200, list)
          \/ WentWith(r, "store", list)
    BY <2>1
  <2>2. ASSUME DoneWith(r, 200, list)
        PROVE  req'[r].seen = list
    BY <1>0, <2>2, MovedDoneWith
  <2>3. ASSUME WentWith(r, "store", list)
        PROVE  req'[r].seen = list
    BY <1>0, <2>3, MovedSeen
  <2> QED
    BY <1>5, <2>4, <2>2, <2>3 DEF Reads
<1>6. CASE Arrives(r) \/ Leaves(r)
  <2>1. CASE Arrives(r)
    BY <2>1, ArrivedFields DEF Arrives
  <2>2. CASE Leaves(r)
    BY <2>2 DEF Leaves, Slot, Idle
  <2> QED
    BY <1>6, <2>1, <2>2
<1>7. CASE FindsDriver(r)
  BY <1>3, <1>7 DEF FindsDriver
<1>8. CASE Rejects(r) \/ Registers(r) \/ Stores(r) \/ Replies(r)
  BY <1>2, <1>8 DEF Rejects, Registers, Stores, Replies
<1>9. CASE Advances(r) \/ Passes(r) \/ Accepts(r) \/ Completes(r) \/ Deletes(r)
  BY <1>1, <1>9 DEF Advances, Passes, Accepts, Completes, Deletes
<1> QED
  BY <1>4, <1>5, <1>6, <1>7, <1>8, <1>9 DEF Kinds

\* A handler leaves in the key what was there, nothing, or the list it read.
LEMMA CacheFrom ==
    ASSUME Inv, NEW r \in Requests, Kinds(r)
    PROVE  cache' \in {cache, NoList, req[r].seen}
BY DEF Kinds, Rejects, Advances, Registers, Creates, Reads, Stores, FindsDriver, Passes,
       Accepts, Completes, Deletes, Replies, Arrives, Leaves

\* No step makes a list wrong.
LEMMA ListsStep ==
    ASSUME Inv, Typed', Forward, [Next]_vars
    PROVE  ListsOnlyLagBehind'
<1>0. /\ cache \in Views \cup {NoList}
      /\ \A r \in Requests : req[r].seen \in Views \cup {NoList}
  BY Unfold DEF Request
<1>1. /\ cache # NoList => TrueOf(cache, db')
      /\ \A r \in Requests : req[r].seen # NoList => TrueOf(req[r].seen, db')
  BY <1>0, ListsAreTrue, TruthStays
<1> DEFINE AllTrue == /\ cache' # NoList => TrueOf(cache', db')
                      /\ \A r \in Requests : req'[r].seen # NoList => TrueOf(req'[r].seen, db')
<1>2. AllTrue
  <2>1. ASSUME NEW r \in Requests, Kinds(r)
        PROVE  AllTrue
    <3>1. cache' # NoList => TrueOf(cache', db')
      BY <1>1, <2>1, CacheFrom
    <3>2. req'[r].seen # NoList => TrueOf(req'[r].seen, db')
      <4>1. CASE req'[r].seen \in {req[r].seen, NoList}
        BY <1>1, <4>1
      <4>2. CASE UNCHANGED db /\ \E s \in Visible :
                   req'[r].seen \in {cache, ListActiveRides(s), GetUserRideHistory(s, req[r].user)}
        BY <4>2, QueriesAreTrue, ListsAreTrue
      <4> QED
        BY <2>1, <4>1, <4>2, SeenFrom
    <3>3. \A q \in Requests : req'[q].seen # NoList => TrueOf(req'[q].seen, db')
      BY <1>1, <2>1, <3>2, OthersAreStill
    <3> QED
      BY <3>1, <3>3
  <2>2. CASE UNCHANGED req /\ cache' \in {cache, NoList}
    BY <1>1, <2>2
  <2>3. (\E r \in Requests : Kinds(r)) \/ (UNCHANGED req /\ cache' \in {cache, NoList})
    BY Unfold, NextKinds DEF CacheExpires, Expire, SlavesCatchUp, vars
  <2> QED
    BY <2>1, <2>2, <2>3
<1> QED
  BY <1>2 DEF ListsOnlyLagBehind, TrueOf

-----------------------------------------------------------------------------
(***************************************************************************)
(* The inductive invariant and what follows from it.                       *)
(***************************************************************************)

\* The invariant holds at the start.
LEMMA InitInv == Init => Inv
<1> SUFFICES ASSUME Init PROVE Inv
  OBVIOUS
<1>1. Typed
  BY InitTyped
<1>2. db = Seed /\ past = {} /\ cache = NoList /\ req = [r \in Requests |-> Idle]
  BY DEF Init, DatabaseInit, RedisInit, RequestsInit
<1>3. RowsFit
  BY <1>2, DatabaseAssumption DEF RowsFit
<1>4. PastIsEarlier
  BY <1>2 DEF PastIsEarlier
<1>5. DriverIsTheirs /\ RidesHeld /\ OneSucceeds
  BY <1>2 DEF DriverIsTheirs, KnowsDriver, RidesHeld, KeepsRide, OneSucceeds, Succeeded, At, Idle
<1>6. ListsOnlyLagBehind
  BY <1>2 DEF ListsOnlyLagBehind, Idle
<1> QED
  BY <1>1, <1>3, <1>4, <1>5, <1>6 DEF Inv, Typed

\* Every step keeps the invariant.
LEMMA InvStep == Inv /\ [Next]_vars => Inv'
<1> SUFFICES ASSUME Inv, [Next]_vars PROVE Inv'
  OBVIOUS
<1>1. Typed'
  BY Unfold, TypedStep
<1>2. Forward
  BY StepForward
<1>3. PastIsEarlier' /\ DriverIsTheirs' /\ RidesHeld' /\ OneSucceeds' /\ ListsOnlyLagBehind'
  BY <1>1, <1>2, PastStep, KeepsStep, OneStep, ListsStep
<1> QED
  BY <1>1, <1>2, <1>3 DEF Inv, Typed, Forward

\* Inv holds in every state of every run.
THEOREM InvHolds == Spec => []Inv
BY InitInv, InvStep, PTL DEF Spec

\* The rows of drivers and rides fit each other whatever requests raced, failed
\* or died (AcceptRide and CompleteRide of database.cpp check nothing but the
\* status of the row).
THEOREM RowsAlwaysFit == Spec => []RowsFit
<1>1. Inv => RowsFit
  BY DEF Inv
<1> QED
  BY <1>1, InvHolds, PTL

\* Who is told 200 by AcceptRideHandler has the ride for good.
THEOREM AcceptersKeepTheirRides == Spec => []AcceptedRideIsTheirs
<1>1. Inv => AcceptedRideIsTheirs
  BY DEF Inv, RidesHeld, KeepsRide, Held, AcceptedRideIsTheirs
<1> QED
  BY <1>1, InvHolds, PTL

\* Only its driver completes a ride, although CompleteRideHandler checks this on
\* a slave and does not look again when it updates the master.
THEOREM OnlyTheDriverCompletes == Spec => []CompleterIsTheDriver
<1>1. ASSUME Inv, NEW r \in Requests, At(r, "complete", "exec") \/ Succeeded(r, "complete")
      PROVE  /\ db.rides[req[r].ride].driver # NoId
             /\ db.rides[req[r].ride].driver = db.drivers[req[r].user]
  <2>1. Held(req[r].ride, req[r].user)
    BY <1>1, Unfold DEF RidesHeld, KeepsRide
  <2>2. req[r].ride \in RideIds
    BY <1>1, Unfold DEF NamesFit, At, Succeeded
  <2> QED
    BY <1>1, <2>1, <2>2, Unfold DEF Held, RowsFit, Fits
<1>2. Inv => CompleterIsTheDriver
  BY <1>1, Unfold DEF RidesHeld, KeepsRide, CompleterIsTheDriver
<1> QED
  BY <1>2, InvHolds, PTL

\* Of the requests that accept or complete one ride, one succeeds.
THEOREM OnlyOneSucceeds == Spec => []OneSucceeds
<1>1. Inv => OneSucceeds
  BY DEF Inv
<1> QED
  BY <1>1, InvHolds, PTL

\* Whatever is cached or answered was true of every ride it shows.
THEOREM ListsAreNeverWrong == Spec => []ListsOnlyLagBehind
<1>1. Inv => ListsOnlyLagBehind
  BY DEF Inv
<1> QED
  BY <1>1, InvHolds, PTL

-----------------------------------------------------------------------------
(***************************************************************************)
(* Backend implements RideLifecycle: seen through the tables of the        *)
(* master, every step of every handler is a step of the life cycle of a    *)
(* ride or changes nothing.                                                *)
(***************************************************************************)

\* The rows of data.sql are where RideLifecycle starts.
LEMMA InitImplements == Init => Lifecycle!Init
BY DEF Init, DatabaseInit, Lifecycle!Init

\* Statements that commit are the steps of the life cycle.
LEMMA RegistersImplements ==
    ASSUME Inv, NEW r \in Requests, Registers(r)
    PROVE  Lifecycle!Next
<1>1. req[r].user \in Users
  BY Unfold DEF Registers, NamesFit
<1>2. PICK d \in DriverIds : /\ \A other \in Users : db.drivers[other] # d
                             /\ Commit([db EXCEPT !.drivers[req[r].user] = d])
  BY DEF Registers, RegisterDriver
<1>3. db'.drivers = [db.drivers EXCEPT ![req[r].user] = d] /\ db'.rides = db.rides
  BY <1>2, Unfold, Tables DEF Commit
<1>4. db.drivers[req[r].user] = NoId
  BY DEF Registers, RegisterDriver, DuplicateDriver
<1>5. Lifecycle!Register(req[r].user, d)
  BY <1>2, <1>3, <1>4 DEF Lifecycle!Register
<1> QED
  BY <1>1, <1>5 DEF Lifecycle!Next

\* CreateExec is RequestRide.
LEMMA CreatesImplements ==
    ASSUME Inv, NEW r \in Requests, Creates(r)
    PROVE  Lifecycle!Next
<1>1. req[r].user \in Users
  BY Unfold DEF Creates, NamesFit
<1>2. PICK i \in RideIds : CreateRide(req[r].user, i)
  BY DEF Creates
<1> DEFINE row == [passenger |-> req[r].user, driver |-> NoId, status |-> "pending"]
<1>3. db.rides[i] = NoRide /\ Commit([db EXCEPT !.rides[i] = row])
  BY <1>2 DEF CreateRide
<1>4. db'.drivers = db.drivers /\ db'.rides = [db.rides EXCEPT ![i] = row]
  BY <1>3, Unfold, Tables DEF Commit
<1>5. Lifecycle!RequestRide(req[r].user, i)
  BY <1>3, <1>4 DEF Lifecycle!RequestRide, Lifecycle!NoRide, NoRide
<1> QED
  BY <1>1, <1>5 DEF Lifecycle!Next

\* AcceptExec is Assign to the user who accepts.
LEMMA AcceptsImplements ==
    ASSUME Inv, NEW r \in Requests, Accepts(r)
    PROVE  Lifecycle!Next
<1> DEFINE i == req[r].ride
           u == req[r].user
           row == [passenger |-> db.rides[i].passenger, driver |-> req[r].driver,
                   status |-> "accepted"]
<1>1. i \in RideIds /\ u \in Users /\ req[r].driver \in DriverIds /\ db.drivers[u] = req[r].driver
  BY AcceptingDriver DEF Accepts
<1>2. db.rides[i].status = "pending" /\ Commit([db EXCEPT !.rides[i] = row])
  BY DEF Accepts, AcceptRide, CanAccept
<1>3. db'.drivers = db.drivers /\ db'.rides = [db.rides EXCEPT ![i] = row]
  BY <1>2, Unfold, Tables DEF Commit
<1>4. req[r].driver # NoId
  BY <1>1, DatabaseAssumption
<1>5. Lifecycle!Assign(u, i)
  BY <1>1, <1>2, <1>3, <1>4 DEF Lifecycle!Assign
<1> QED
  BY <1>1, <1>5 DEF Lifecycle!Next

\* It is the driver of the ride who finishes it.
LEMMA CompletesImplements ==
    ASSUME Inv, NEW r \in Requests, Completes(r)
    PROVE  Lifecycle!Next
<1> DEFINE i == req[r].ride
           u == req[r].user
<1>1. i \in RideIds /\ u \in Users /\ Held(i, u)
  BY Unfold DEF Completes, At, NamesFit, RidesHeld, KeepsRide
<1>2. db.rides[i].status = "accepted" /\ Commit([db EXCEPT !.rides[i].status = "completed"])
  BY DEF Completes, CompleteRide, CanComplete
<1>3. db'.drivers = db.drivers /\ db'.rides = [db.rides EXCEPT ![i].status = "completed"]
  BY <1>2, Unfold, Tables DEF Commit
<1>4. db.rides[i].driver # NoId /\ db.rides[i].driver = db.drivers[u]
  BY <1>1, <1>2, Unfold DEF RowsFit, Fits, Held
<1>5. Lifecycle!Finish(u, i)
  BY <1>2, <1>3, <1>4 DEF Lifecycle!Finish
<1> QED
  BY <1>1, <1>5 DEF Lifecycle!Next

\* Every step is a step of the life cycle or leaves the tables alone.
LEMMA StepImplements == Inv /\ [Next]_vars => [Lifecycle!Next]_<<db.drivers, db.rides>>
<1> SUFFICES ASSUME Inv, [Next]_vars
             PROVE  Lifecycle!Next \/ UNCHANGED db
  OBVIOUS
<1>1. ASSUME NEW r \in Requests, Kinds(r)
      PROVE  Lifecycle!Next \/ UNCHANGED db
  BY <1>1, RegistersImplements, CreatesImplements, AcceptsImplements, CompletesImplements
  DEF Kinds, Rejects, Advances, Reads, Stores, FindsDriver, Passes, Deletes, Replies, Arrives, Leaves
<1> QED
  BY <1>1, Unfold, NextKinds DEF CacheExpires, SlavesCatchUp, CatchUp, vars

\* The services implement the life cycle of a ride: whatever is lost, retried,
\* raced or read from a lagging slave, a ride is requested, then assigned once,
\* then finished by its driver, and a driver is registered once.
THEOREM ImplementsLifecycle == Spec => LifecycleSpec
BY InitImplements, StepImplements, InvHolds, PTL DEF Spec, LifecycleSpec, Lifecycle!Spec
=============================================================================
