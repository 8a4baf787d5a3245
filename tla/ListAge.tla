------------------------------- MODULE ListAge -------------------------------
(***************************************************************************)
(* Backend with time: how old can a list of active rides be?  The key      *)
(* rides:active is stored by SETEX with a time to live, which neither the  *)
(* ride that was created nor the Del that failed or never came shortens.   *)
(* Time is counted in ticks, by timers: what is left to the key, how long  *)
(* ago each row changed, how long a list has waited to be stored.          *)
(***************************************************************************)
EXTENDS Backend

CONSTANTS
    TTL,        \* the TTL of the key, 10 seconds
    MaxStall,   \* bound: ticks between reading a list and storing it
    MaxAge      \* bound: a row that has not changed for longer is that old

ASSUME AgeAssumption ==
    /\ TTL \in Nat \ {0} /\ MaxStall \in Nat
    /\ MaxAge \in Nat /\ MaxAge > TTL + MaxStall

VARIABLES
    left,       \* ticks until Redis removes the key, 0 if there is none
    waited,     \* waited[r]: ticks since the request in slot r read its list
    age         \* age[i]: ticks since the row of ride i last changed

agedVars == <<db, past, cache, req, left, waited, age>>

AgedInit ==
    /\ Init
    /\ left = 0
    /\ waited = [r \in Requests |-> 0]
    /\ age = [i \in RideIds |-> 0]

\* The SETEX of this step may have worked.
Stored == \E r \in Requests : ListStore(r) /\ cache' = req[r].seen

\* Mutant: whatever is done with the key renews its time to live.
TimeToLiveOfUse ==
    left' = IF cache' = NoList THEN 0 ELSE TTL

\* SETEX gives a time to live; where it fails a key there was keeps its own.
TimeToLive ==
    CASE cache' = NoList            -> left' = 0
      [] cache' # NoList /\ Stored  -> \/ left' = TTL
                                       \/ RedisMayFail /\ cache' = cache /\ left' = left
      [] OTHER                      -> left' = left

\* A step of the services takes no time.
AgedStep ==
    /\ Next
    /\ TimeToLive
    /\ waited' = [r \in Requests |->
                    IF At(r, "list", "store") /\ req'[r].pc = "store" THEN waited[r] ELSE 0]
    /\ age' = [i \in RideIds |-> IF db'.rides[i] = db.rides[i] THEN age[i] ELSE 0]

\* A key whose time is up is gone by the next tick.
Tick ==
    /\ cache # NoList => left > 0
    /\ \A r \in Requests : At(r, "list", "store") => waited[r] < MaxStall
    /\ left' = IF cache = NoList THEN 0 ELSE left - 1
    /\ waited' = [r \in Requests |-> IF At(r, "list", "store") THEN waited[r] + 1 ELSE 0]
    /\ age' = [i \in RideIds |-> IF age[i] < MaxAge THEN age[i] + 1 ELSE age[i]]
    /\ UNCHANGED vars

AgedNext == AgedStep \/ Tick

AgedSpec == AgedInit /\ [][AgedNext]_agedVars

-----------------------------------------------------------------------------
\* The timers count what they are said to count.
AgedTypeOK ==
    /\ left \in 0 .. TTL
    /\ waited \in [Requests -> Nat]
    /\ age \in [RideIds -> Nat]

\* The list shows every ride whose row has not changed for more than n ticks
\* just as the row is, and none that has been completed that long.
Fresh(list, n) == \A i \in RideIds : age[i] > n => list[i] = ListActiveRides(db)[i]

AnswersList(r) ==
    req[r].op = "list" /\ req[r].pc # "done" /\ req'[r].pc = "done" /\ req'[r].code = 200

\* What the TTL of 10 seconds is worth: every list that is answered, from the
\* key or from the tables, is out of date by no more than the TTL and the time a
\* list waits to be stored, whatever was created, accepted or completed
\* meanwhile, and whichever requests died before their Del or had it fail.
UnchangedIsShown ==
    [][\A r \in Requests : AnswersList(r) => Fresh(req'[r].seen, TTL + MaxStall)]_agedVars
=============================================================================
