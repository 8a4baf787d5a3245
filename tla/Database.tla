------------------------------ MODULE Database ------------------------------
(***************************************************************************)
(* The PostgreSQL database of the driver and ride services and the         *)
(* statements class Database sends it (common/database.cpp, schema.sql).   *)
(* One statement is one atomic step: none of them is in a transaction with *)
(* another.  Writes go to the master (kMaster).  Reads say kSlave: with    *)
(* slaves such a read may be answered from an earlier committed state,     *)
(* without any (docker-compose.yml runs a single PostgreSQL) it falls back *)
(* to the master.                                                          *)
(* Addresses, costs, names, plates and timestamps are left out: nothing    *)
(* branches on them.  drivers.status is left out: no statement reads or    *)
(* writes it after the INSERT.                                             *)
(***************************************************************************)

CONSTANTS
    Users,      \* user ids carried by JWTs
    DriverIds,  \* values of drivers.id (bound: at most this many drivers)
    RideIds,    \* values of rides.id (bound: at most this many rides)
    NoId,       \* SQL NULL, std::nullopt
    HasSlaves,  \* whether kSlave statements can reach a lagging slave
    Seed        \* the rows data.sql inserts before the services start

VARIABLES
    db,         \* what the master has committed
    past        \* earlier committed states some slave may still show

\* A row of rides; "absent" stands for an id no row has.  'cancelled' is in the
\* CHECK of schema.sql but no statement of the program writes it.
Statuses == {"absent", "pending", "accepted", "completed"}

RideRow == [passenger : Users \cup {NoId},
            driver    : DriverIds \cup {NoId},
            status    : Statuses]

NoRide == [passenger |-> NoId, driver |-> NoId, status |-> "absent"]

\* drivers[u] is the id of the row with user_id u: uq_drivers_user_id lets
\* there be at most one.
Contents == [drivers : [Users -> DriverIds \cup {NoId}],
             rides   : [RideIds -> RideRow]]

\* Result sets of the ride queries: NoRide where a row is not selected.
Views == [RideIds -> RideRow]

DatabaseTypeOK ==
    /\ db \in Contents
    /\ past \subseteq Contents

\* The rows of both tables fit each other: a driver id belongs to one user, a
\* ride has a driver exactly when it was accepted, and that driver is registered.
Fits(s) ==
    /\ \A u, v \in Users : s.drivers[u] = s.drivers[v] /\ u # v => s.drivers[u] = NoId
    /\ \A i \in RideIds :
         LET row == s.rides[i] IN
         /\ row.status = "absent" => row = NoRide
         /\ row.status # "absent" => row.passenger \in Users
         /\ row.status = "pending" => row.driver = NoId
         /\ row.status \in {"accepted", "completed"} =>
              row.driver # NoId /\ \E u \in Users : s.drivers[u] = row.driver

\* The rows of data.sql do.
ASSUME DatabaseAssumption ==
    /\ NoId \notin Users
    /\ NoId \notin DriverIds
    /\ HasSlaves \in BOOLEAN
    /\ Seed \in Contents /\ Fits(Seed)

DatabaseInit ==
    /\ db = Seed
    /\ past = {}

Visible == {db} \cup past

-----------------------------------------------------------------------------
\* Statements on the master.

Commit(new) ==
    /\ db' = new
    /\ past' = IF HasSlaves THEN past \cup {db} ELSE {}

\* A second row for the user violates uq_drivers_user_id: Execute throws.
DuplicateDriver(u) == db.drivers[u] # NoId

RegisterDriver(u) ==
    /\ ~DuplicateDriver(u)
    /\ \E d \in DriverIds :
         /\ \A other \in Users : db.drivers[other] # d
         /\ Commit([db EXCEPT !.drivers[u] = d])

CreateRide(u, i) ==
    /\ db.rides[i] = NoRide
    /\ Commit([db EXCEPT !.rides[i] = [passenger |-> u, driver |-> NoId, status |-> "pending"]])

\* RowsAffected() > 0 of the two updates.
\* Mutant: AND status = 'pending' lost in favour of a weaker test.
CanAcceptAgain(i) == db.rides[i].status \in {"pending", "accepted"}

CanAccept(i) == db.rides[i].status = "pending"

\* Mutant: the update forgets the status.
AcceptRideDriverOnly(i, d) ==
    /\ CanAccept(i)
    /\ Commit([db EXCEPT !.rides[i].driver = d])

AcceptRide(i, d) ==
    /\ CanAccept(i)
    /\ Commit([db EXCEPT !.rides[i] =
                 [passenger |-> db.rides[i].passenger, driver |-> d, status |-> "accepted"]])

\* Mutant: a completed ride is completed again.
CanCompleteAgain(i) == db.rides[i].status \in {"accepted", "completed"}

CanComplete(i) == db.rides[i].status = "accepted"

\* Mutant: a status the program does not know.
CompleteRideTypo(i) ==
    /\ CanComplete(i)
    /\ Commit([db EXCEPT !.rides[i].status = "complete"])

\* Mutant: completing takes the driver off the ride.
CompleteRideNoDriver(i) ==
    /\ CanComplete(i)
    /\ Commit([db EXCEPT !.rides[i].status = "completed", !.rides[i].driver = NoId])

CompleteRide(i) ==
    /\ CanComplete(i)
    /\ Commit([db EXCEPT !.rides[i].status = "completed"])

-----------------------------------------------------------------------------
\* Queries on a committed state s, master or slave.

\* Mutant: only a driver who is on no ride is found.
GetFreeDriverByUserId(s, u) ==
    IF \E i \in RideIds : s.rides[i].status = "accepted" /\ s.rides[i].driver = s.drivers[u]
    THEN NoId ELSE s.drivers[u]

GetDriverByUserId(s, u) == s.drivers[u]

GetRideById(s, i) == s.rides[i]

\* Mutant: no condition on the status.
ListAllRides(s) == s.rides

ListActiveRides(s) ==
    [i \in RideIds |-> IF s.rides[i].status # "completed" THEN s.rides[i] ELSE NoRide]

\* Mutant: the history leaves completed rides out, as the active list does.
GetUserActiveRides(s, u) ==
    [i \in RideIds |-> IF s.rides[i].passenger = u /\ s.rides[i].status # "completed"
                       THEN s.rides[i] ELSE NoRide]

GetUserRideHistory(s, u) ==
    [i \in RideIds |-> IF s.rides[i].passenger = u THEN s.rides[i] ELSE NoRide]

\* The slaves have replayed everything the master committed.
CatchUp ==
    /\ past # {}
    /\ past' = {}
    /\ UNCHANGED db
=============================================================================
