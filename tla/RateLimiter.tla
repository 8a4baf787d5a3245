---------------------------- MODULE RateLimiter -----------------------------
(***************************************************************************)
(* RateLimiter::Check (common/rate_limiter.cpp) for one limiter key, such  *)
(* as "create-ride:7", called by concurrent handlers of any replicas.  The *)
(* Redis key carries the number of the window, so each window has its own  *)
(* counter; a counter is an integer with an optional time to live.         *)
(* A call reads the clock, sends INCR, and EXPIRE if it counted 1: time    *)
(* passes and other calls run between any two of these.                    *)
(***************************************************************************)
EXTENDS Faults, Naturals, FiniteSets

CONSTANTS
    Calls,          \* concurrent calls of Check (bound: each calls once)
    Limit, Window,  \* limit and window (in ticks of the clock)
    MaxNow,         \* bound: the clock stops there
    MaxStall,       \* bound: ticks between reading the clock and INCR
    Never           \* a key without a time to live

ASSUME LimiterAssumption ==
    /\ Limit \in Nat /\ Window \in Nat \ {0} /\ MaxNow \in Nat /\ MaxStall \in Nat
    /\ Never \notin Nat
    /\ IsFiniteSet(Calls)

VARIABLES
    now,        \* system_clock, in ticks
    counter,    \* counter[w]: the key of window w, 0 if it does not exist
    ttl,        \* ttl[w]: when Redis removes that key
    removed,    \* history: how often Redis has removed it
    call        \* the calls: local variables and result

limiterVars == <<now, counter, ttl, removed, call>>

Windows == 0 .. (MaxNow \div Window)

NewCall ==
    [pc |-> "idle", read |-> 0, count |-> 0, allowed |-> FALSE, remaining |-> 0, at |-> 0, life |-> 0]

CallRecord == [pc : {"idle", "incr", "expire", "done", "failed"},
               read : 0 .. MaxNow,
               count : Nat,         \* what INCR returned, 0 before
               allowed : BOOLEAN, remaining : Nat,
               at : 0 .. MaxNow,    \* history: when Redis ran the INCR, and
               life : Nat]          \* how often it had removed the key by then

LimiterInit ==
    /\ now = 0
    /\ counter = [w \in Windows |-> 0]
    /\ ttl = [w \in Windows |-> Never]
    /\ removed = [w \in Windows |-> 0]
    /\ call = [c \in Calls |-> NewCall]

\* window_ts
WindowOf(time) == time \div Window

\* Mutant: remaining is not kept from going below zero.
VerdictUnclamped(q) ==
    [q EXCEPT !.pc = "done", !.allowed = q.count <= Limit, !.remaining = Limit - q.count]

\* Mutant: one request too few.
VerdictOneLess(q) ==
    [q EXCEPT !.pc = "done", !.allowed = q.count < Limit,
              !.remaining = IF q.count <= Limit THEN Limit - q.count ELSE 0]

\* Mutant: remaining counts the request itself.
VerdictItself(q) ==
    [q EXCEPT !.pc = "done", !.allowed = q.count <= Limit,
              !.remaining = IF q.count <= Limit THEN Limit + 1 - q.count ELSE 0]

\* {allowed, limit, remaining, reset_ts}
Verdict(q) ==
    [q EXCEPT !.pc = "done", !.allowed = q.count <= Limit,
              !.remaining = IF q.count <= Limit THEN Limit - q.count ELSE 0]

\* The catch block lets the request pass (fail-open), without a place in the
\* window.
FailOpen(q) == [q EXCEPT !.pc = "failed", !.allowed = TRUE]

\* The call whose INCR returned count.
Counted(q, count, life) == [q EXCEPT !.count = count, !.at = now, !.life = life]

Becomes(c, q) == call' = [call EXCEPT ![c] = q]

ReadClock(c) ==
    /\ call[c].pc = "idle"
    /\ Becomes(c, [call[c] EXCEPT !.pc = "incr", !.read = now])
    /\ UNCHANGED <<now, counter, ttl, removed>>

\* Mutant: nobody sets the time to live.
IncrOnly(c) ==
    /\ call[c].pc = "incr"
    /\ LET w == WindowOf(call[c].read)
       IN  /\ counter' = [counter EXCEPT ![w] = @ + 1]
           /\ Becomes(c, Verdict(Counted(call[c], counter[w] + 1, removed[w])))
    /\ UNCHANGED <<now, ttl, removed>>

\* The answer may be lost after Redis has counted.
Incr(c) ==
    /\ call[c].pc = "incr"
    /\ LET w == WindowOf(call[c].read)
           q == Counted(call[c], counter[w] + 1, removed[w])
       IN  /\ counter' = [counter EXCEPT ![w] = @ + 1]
           /\ \/ Becomes(c, IF q.count = 1 THEN [q EXCEPT !.pc = "expire"] ELSE Verdict(q))
              \/ RedisMayFail /\ Becomes(c, FailOpen(q))
    /\ UNCHANGED <<now, ttl, removed>>

\* Mutant: the window is taken for a smaller unit of time.
DoExpireAtOnce(c) ==
    /\ call[c].pc = "expire"
    /\ ttl' = [ttl EXCEPT ![WindowOf(call[c].read)] = now]
    /\ Becomes(c, Verdict(call[c]))
    /\ UNCHANGED <<now, counter, removed>>

\* Mutant: EXPIRE is given half the window.
DoExpireEarly(c) ==
    /\ call[c].pc = "expire"
    /\ ttl' = [ttl EXCEPT ![WindowOf(call[c].read)] = now + (Window \div 2)]
    /\ Becomes(c, Verdict(call[c]))
    /\ UNCHANGED <<now, counter, removed>>

\* Its answer may be lost, too.
DoExpire(c) ==
    /\ call[c].pc = "expire"
    /\ ttl' = [ttl EXCEPT ![WindowOf(call[c].read)] = now + Window]
    /\ Becomes(c, Verdict(call[c])) \/ (RedisMayFail /\ Becomes(c, FailOpen(call[c])))
    /\ UNCHANGED <<now, counter, removed>>

\* The next command never reaches Redis.
Broken(c) ==
    /\ call[c].pc \in {"incr", "expire"}
    /\ Becomes(c, FailOpen(call[c]))
    /\ UNCHANGED <<now, counter, ttl, removed>>

Unreachable(c) == RedisMayFail /\ Broken(c)

\* The process dies; nobody is answered.
Dies(c) == Faulty /\ Broken(c)

Due(w) == ttl[w] \in 0 .. now

\* Redis removes a key whose time is up.
Remove(w) ==
    /\ Due(w)
    /\ counter' = [counter EXCEPT ![w] = 0]
    /\ ttl' = [ttl EXCEPT ![w] = Never]
    /\ removed' = [removed EXCEPT ![w] = @ + 1]
    /\ UNCHANGED <<now, call>>

\* Keys whose time is up are gone by the next tick.
Tick ==
    /\ now < MaxNow
    /\ ~\E w \in Windows : Due(w)
    /\ \A c \in Calls : call[c].pc = "incr" => now < call[c].read + MaxStall
    /\ now' = now + 1
    /\ UNCHANGED <<counter, ttl, removed, call>>

LimiterNext ==
    \/ \E c \in Calls : ReadClock(c) \/ Incr(c) \/ DoExpire(c) \/ Unreachable(c) \/ Dies(c)
    \/ \E w \in Windows : Remove(w)
    \/ Tick

LimiterSpec == LimiterInit /\ [][LimiterNext]_limiterVars

-----------------------------------------------------------------------------
\* Every variable holds values of the shape the code gives it; remaining is
\* never negative.
LimiterTypeOK ==
    /\ now \in 0 .. MaxNow
    /\ counter \in [Windows -> Nat]
    /\ ttl \in [Windows -> Nat \cup {Never}]
    /\ removed \in [Windows -> Nat]
    /\ call \in [Calls -> CallRecord]

\* The calls Redis gave a place in window w.
Admitted(w) ==
    {c \in Calls : call[c].pc = "done" /\ call[c].allowed /\ WindowOf(call[c].read) = w}

\* A call that counted before the window it counts in was over.
Punctual(c) == WindowOf(call[c].at) = WindowOf(call[c].read)

\* rate_limiter.hpp, "Max requests per window": INCR and EXPIRE are two commands
\* at times that other calls and the clock come between, and still no window
\* admits more than Limit of the calls that count while it lasts.
AtMostLimitPerWindow ==
    \A w \in Windows : Cardinality({c \in Admitted(w) : Punctual(c)}) <= Limit

\* A call that is held up between the clock and INCR may find the key of its
\* window removed and start the count again; a delay of no more than a window
\* lets that happen once.
HeldUpCallsAtMostDouble ==
    MaxStall <= Window => \A w \in Windows : Cardinality(Admitted(w)) <= 2 * Limit

\* The calls of any windows Redis gave a place within Window ticks from t.
AdmittedFrom(t) ==
    {c \in Calls : /\ call[c].pc = "done" /\ call[c].allowed
                   /\ call[c].read \in t .. (t + Window - 1)}

\* performance_design.md and rate_limiter.hpp: a sliding window, so at most
\* Limit requests in any Window ticks.
SlidingWindow == \A t \in 0 .. MaxNow : Cardinality(AdmittedFrom(t)) <= Limit

\* Nobody is turned away while there is room: for each rejected call Limit
\* others have counted in its window before it.
RejectedOnlyWhenFull ==
    \A c \in Calls : call[c].pc = "done" /\ ~call[c].allowed =>
        Cardinality({o \in Calls : /\ WindowOf(call[o].read) = WindowOf(call[c].read)
                                   /\ call[o].count \in 1 .. (call[c].count - 1)}) >= Limit

\* X-RateLimit-Remaining is honest: of the calls that count in the window after
\* a call that was told k, at most k are admitted, and if one is turned away
\* there have been more than k.
RemainingIsHonest ==
    \A c \in Calls : call[c].pc = "done" /\ call[c].allowed /\ Punctual(c) =>
        LET later == {o \in Calls : /\ WindowOf(call[o].read) = WindowOf(call[c].read)
                                    /\ call[o].count > call[c].count}
        IN  /\ Cardinality({o \in later : o \in Admitted(WindowOf(call[c].read)) /\ Punctual(o)})
                   <= call[c].remaining
            /\ (\E o \in later : call[o].pc = "done" /\ ~call[o].allowed)
                   => Cardinality(later) > call[c].remaining

\* INCR and EXPIRE are two commands, and only the call that counted 1 sends the
\* second: still a counter has a time to live, unless the very call that counted
\* 1 since the key was there is about to set it or has failed.
EveryCounterExpires ==
    \A w \in Windows :
        counter[w] > 0 /\ ttl[w] = Never =>
            \E c \in Calls : /\ WindowOf(call[c].read) = w
                             /\ call[c].count = 1 /\ call[c].life = removed[w]
                             /\ call[c].pc \in {"expire", "failed"}
=============================================================================
