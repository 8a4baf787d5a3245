------------------------------ MODULE Throttle -------------------------------
(***************************************************************************)
(* CreateRideHandler with its rate limiter: the key "create-ride:<id>" of  *)
(* one passenger, module RateLimiter, in front of the handlers of Backend. *)
(* A request of that passenger is in RateLimiter::Check until its call is  *)
(* over, and goes on to the INSERT only if the call lets it.  Limiter keys *)
(* share nothing: requests that use others are admitted or not as before.  *)
(***************************************************************************)
EXTENDS Backend, RateLimiter

CONSTANTS
    Passenger,  \* whose key it is
    NoCheck     \* no call of Check

ASSUME ThrottleAssumption == Passenger \in Users /\ NoCheck \notin Calls

VARIABLES
    check,      \* check[r]: the call of Check made by the request in slot r
    madeBy      \* history, madeBy[i]: the call that let ride i be created

throttleVars == <<vars, limiterVars, check, madeBy>>

ThrottleInit ==
    /\ Init /\ LimiterInit
    /\ check = [r \in Requests |-> NoCheck]
    /\ madeBy = [i \in RideIds |-> NoCheck]

IsThrottled(r) == req[r].op = "create" /\ req[r].user = Passenger

\* Bound: a passenger sends no more requests than there are calls.
Unmade == {c \in Calls : call[c].pc = "idle"}

Over(c) == call[c].pc \in {"done", "failed"}

\* A request arrives.  CreateRideHandler begins with the call of Check, which
\* reads the clock; calls are alike, so it does not matter which it is.
RequestBegins(r) ==
    /\ Begin(r)
    /\ IF IsThrottled(r)'
       THEN /\ Unmade # {}
            /\ LET c == CHOOSE c \in Unmade : TRUE
               IN  ReadClock(c) /\ check' = [check EXCEPT ![r] = c]
       ELSE UNCHANGED <<limiterVars, check>>
    /\ UNCHANGED madeBy

\* Mutant: the result of Check goes into the headers and nowhere else.
ObeysHeaders(r) == CreateAdmit(r)

\* ApplyRateLimit: 429 exactly if the call of Check, now over, says so.
Obeys(r) ==
    /\ CreateAdmit(r)
    /\ IF call'[check[r]].allowed THEN ~Answer(r, 429) ELSE Answer(r, 429)

\* A step of Check; from its last one the handler runs on to the next await.
Checks(r) ==
    /\ At(r, "create", "admit")
    /\ \E c \in Calls :
         /\ check[r] = c
         /\ Incr(c) \/ DoExpire(c) \/ Unreachable(c)
         /\ IF Over(c)' THEN Obeys(r) ELSE UNCHANGED vars
    /\ UNCHANGED <<check, madeBy>>

InCheck(r) == At(r, "create", "admit") /\ check[r] # NoCheck

\* Any other step of a handler.
Handles(r) ==
    /\ HandlerStep(r)
    /\ ~InCheck(r)
    /\ madeBy' = [i \in RideIds |-> IF db'.rides[i] # NoRide /\ db.rides[i] = NoRide
                                    THEN check[r] ELSE madeBy[i]]
    /\ UNCHANGED <<limiterVars, check>>

\* A request that fails in Check takes the call with it.
RequestFails(r) ==
    /\ Fail(r)
    /\ IF InCheck(r) THEN Dies(check[r]) ELSE UNCHANGED limiterVars
    /\ UNCHANGED <<check, madeBy>>

RequestEnds(r) ==
    /\ Forget(r)
    /\ check' = [check EXCEPT ![r] = NoCheck]
    /\ UNCHANGED <<limiterVars, madeBy>>

StoresStep ==
    /\ CacheExpires \/ SlavesCatchUp
    /\ UNCHANGED <<limiterVars, check, madeBy>>

\* Time passes, for Redis too.
TimeStep ==
    /\ (\E w \in Windows : Remove(w)) \/ Tick
    /\ UNCHANGED <<vars, check, madeBy>>

ThrottleNext ==
    \/ \E r \in Requests :
         RequestBegins(r) \/ Checks(r) \/ Handles(r) \/ RequestFails(r) \/ RequestEnds(r)
    \/ StoresStep
    \/ TimeStep

ThrottleSpec == ThrottleInit /\ [][ThrottleNext]_throttleVars

-----------------------------------------------------------------------------
\* The calls of window w that let their request pass without one of its Limit
\* places: Redis failed before it had counted them, counted them higher and then
\* failed, or counted them when the window was over.
Unplaced(w) ==
    {c \in Calls : /\ Over(c) /\ call[c].allowed /\ WindowOf(call[c].read) = w
                   /\ call[c].count \in 1 .. Limit => ~Punctual(c)}

\* Performance design: at most Limit rides of one passenger a window.  However
\* requests race, fail and are sent again, of all the rides that requests of a
\* window make, whenever they make them, no more than Limit are over and above
\* those of calls that Redis failed or that came too late.
RidesPerWindow ==
    \A w \in Windows :
        Cardinality({i \in RideIds : madeBy[i] \in Calls /\ WindowOf(call[madeBy[i]].read) = w})
            <= Limit + Cardinality(Unplaced(w))

\* The calls that have passed without a place in their own window.
Exempt == {c \in Calls : call[c].pc = "failed" \/ (call[c].pc = "done" /\ ~Punctual(c))}

\* What the limiter is worth to PostgreSQL: the rows made for one passenger are
\* never more than Limit for every window that has begun, and one for every call of
\* Check that Redis failed or that was held up beyond its window.
RidesInBudget ==
    Cardinality({i \in RideIds : db.rides[i].passenger = Passenger /\ Seed.rides[i] = NoRide})
        <= Limit * (WindowOf(now) + 1) + Cardinality(Exempt)
=============================================================================
