--------------------------- MODULE RideLifecycle ----------------------------
(***************************************************************************)
(* What the ride and driver services promise about a ride, without         *)
(* requests, caches or slaves: a ride is requested by a passenger, assigned *)
(* once to a driver, and finished by that driver.  Nothing else ever       *)
(* happens to it, and a driver is registered once.                         *)
(***************************************************************************)
CONSTANTS Users, DriverIds, RideIds, NoId,
          Seed    \* the drivers and rides there are to begin with

VARIABLES drivers, rides

NoRide == [passenger |-> NoId, driver |-> NoId, status |-> "absent"]

Init ==
    /\ drivers = Seed.drivers
    /\ rides = Seed.rides

Register(u, d) ==
    /\ drivers[u] = NoId
    /\ \A other \in Users : drivers[other] # d
    /\ drivers' = [drivers EXCEPT ![u] = d]
    /\ UNCHANGED rides

RequestRide(u, i) ==
    /\ rides[i] = NoRide
    /\ rides' = [rides EXCEPT ![i] = [passenger |-> u, driver |-> NoId, status |-> "pending"]]
    /\ UNCHANGED drivers

Assign(u, i) ==
    /\ drivers[u] # NoId
    /\ rides[i].status = "pending"
    /\ rides' = [rides EXCEPT ![i] = [passenger |-> rides[i].passenger,
                                      driver |-> drivers[u], status |-> "accepted"]]
    /\ UNCHANGED drivers

Finish(u, i) ==
    /\ drivers[u] # NoId
    /\ rides[i].status = "accepted"
    /\ rides[i].driver = drivers[u]
    /\ rides' = [rides EXCEPT ![i].status = "completed"]
    /\ UNCHANGED drivers

Next ==
    \E u \in Users :
        \/ \E d \in DriverIds : Register(u, d)
        \/ \E i \in RideIds : RequestRide(u, i) \/ Assign(u, i) \/ Finish(u, i)

Spec == Init /\ [][Next]_<<drivers, rides>>
=============================================================================
