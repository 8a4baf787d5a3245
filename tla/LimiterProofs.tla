--------------------------- MODULE LimiterProofs ----------------------------
(***************************************************************************)
(* RateLimiter is correct for any limit, window and number of calls.       *)
(*                                                                         *)
(* The places INCR gives out between two removals of a key are 1, 2, 3 ... *)
(* without repetition; so what remains is when a key can be removed.  The  *)
(* key of window w is removed for the n-th time no earlier than the end of *)
(* window w + n - 1: its time to live is set after its first INCR and is a *)
(* whole window.  So a call that counts while its window lasts counts      *)
(* before any removal.                                                     *)
(***************************************************************************)
EXTENDS RateLimiter, FiniteSetTheorems, TLAPS

Home(c) == WindowOf(call[c].read)

Holds(c, w, p) == Home(c) = w /\ call[c].count = p /\ call[c].life = removed[w]

\* What a call knows of the clock, of its place and of the key of its window.
CallFits(c) ==
    /\ call[c].pc \in {"idle", "incr"} => call[c].count = 0
    /\ call[c].pc = "expire" => call[c].count = 1 /\ call[c].life = removed[Home(c)]
                                  /\ ttl[Home(c)] = Never
    /\ call[c].pc = "done" =>
         /\ call[c].count >= 1
         /\ call[c].allowed = (call[c].count <= Limit)
         /\ call[c].remaining = IF call[c].count <= Limit THEN Limit - call[c].count ELSE 0
    /\ call[c].read <= now
    /\ call[c].pc = "incr" => now <= call[c].read + MaxStall
    /\ call[c].count > 0 =>
         /\ call[c].at <= now
         /\ call[c].at <= call[c].read + MaxStall
         /\ call[c].at >= (Home(c) + call[c].life) * Window
         /\ call[c].life <= removed[Home(c)]
         /\ call[c].life = removed[Home(c)] => call[c].count <= counter[Home(c)]

\* Two calls of a window have the same place only if the key was removed between.
PlacesDiffer(c, o) ==
    /\ call[c].count > 0 /\ call[c].count = call[o].count
    /\ call[c].life = call[o].life /\ Home(c) = Home(o)
    => c = o

\* Every place before that of a call is taken.
PlacesTaken(c) ==
    \A p \in 1 .. (call[c].count - 1) : \E o \in Calls :
        Home(o) = Home(c) /\ call[o].count = p /\ call[o].life = call[c].life

\* When the key of a window is removed, and who has counted in it since.
KeyFits(w) ==
    /\ ttl[w] # Never => ttl[w] >= (w + removed[w]) * Window + Window
    /\ removed[w] > 0 => now >= (w + removed[w]) * Window
    /\ counter[w] = 0 => ttl[w] = Never
    /\ \A p \in 1 .. counter[w] : \E c \in Calls : Holds(c, w, p)

LimiterInv ==
    /\ LimiterTypeOK
    /\ \A c \in Calls : CallFits(c)
    /\ \A c, o \in Calls : PlacesDiffer(c, o)
    /\ \A c \in Calls : PlacesTaken(c)
    /\ \A w \in Windows : KeyFits(w)
    /\ EveryCounterExpires

-----------------------------------------------------------------------------
\* Windows

LEMMA WindowBounds ==
    ASSUME NEW time \in Nat
    PROVE  /\ WindowOf(time) \in Nat
           /\ WindowOf(time) * Window <= time
           /\ time < WindowOf(time) * Window + Window
BY LimiterAssumption DEF LimiterAssumption, WindowOf

LEMMA WindowsHold ==
    ASSUME NEW time \in 0 .. MaxNow
    PROVE  WindowOf(time) \in Windows
<1>1. time \div Window <= MaxNow \div Window /\ time \div Window \in Nat /\ MaxNow \div Window \in Nat
  BY LimiterAssumption DEF LimiterAssumption
<1> QED
  BY <1>1 DEF WindowOf, Windows

LEMMA HomeIsWindow ==
    ASSUME LimiterTypeOK, NEW c \in Calls
    PROVE  Home(c) \in Windows /\ Home(c) \in Nat
<1>1. call[c].read \in 0 .. MaxNow
  BY DEF LimiterTypeOK, CallRecord
<1> QED
  BY <1>1, WindowsHold, WindowBounds DEF Home, Windows

-----------------------------------------------------------------------------
\* What one step of a call leaves.

LEMMA OneCall ==
    ASSUME call \in [Calls -> CallRecord], NEW c \in Calls, NEW q \in CallRecord, Becomes(c, q)
    PROVE  /\ call' \in [Calls -> CallRecord]
           /\ call'[c] = q
           /\ \A o \in Calls \ {c} : call'[o] = call[o]
BY DEF Becomes

LEMMA VerdictFields ==
    ASSUME NEW q \in CallRecord
    PROVE  /\ Verdict(q) \in CallRecord
           /\ Verdict(q).pc = "done" /\ Verdict(q).allowed = (q.count <= Limit)
           /\ Verdict(q).remaining = IF q.count <= Limit THEN Limit - q.count ELSE 0
           /\ Verdict(q).read = q.read /\ Verdict(q).count = q.count
           /\ Verdict(q).at = q.at /\ Verdict(q).life = q.life
<1> DEFINE left == IF q.count <= Limit THEN Limit - q.count ELSE 0
           lets == q.count <= Limit
<1>1. left \in Nat /\ lets \in BOOLEAN
  BY LimiterAssumption DEF LimiterAssumption, CallRecord
<1>2. Verdict(q) = [q EXCEPT !.pc = "done", !.allowed = lets, !.remaining = left]
  BY DEF Verdict
<1> HIDE DEF left, lets
<1>3. /\ Verdict(q) \in CallRecord
      /\ Verdict(q).pc = "done" /\ Verdict(q).allowed = lets /\ Verdict(q).remaining = left
      /\ Verdict(q).read = q.read /\ Verdict(q).count = q.count
      /\ Verdict(q).at = q.at /\ Verdict(q).life = q.life
  BY <1>1, <1>2, Zenon DEF CallRecord
<1> QED
  BY <1>3 DEF left, lets

LEMMA FailOpenFields ==
    ASSUME NEW q \in CallRecord
    PROVE  /\ FailOpen(q) \in CallRecord
           /\ FailOpen(q).pc = "failed"
           /\ FailOpen(q).read = q.read /\ FailOpen(q).count = q.count
           /\ FailOpen(q).at = q.at /\ FailOpen(q).life = q.life
BY DEF FailOpen, CallRecord

-----------------------------------------------------------------------------
\* The kinds of steps.

Judged(q) ==
    /\ q.allowed = (q.count <= Limit)
    /\ q.remaining = IF q.count <= Limit THEN Limit - q.count ELSE 0

OthersStand(c) == \A o \in Calls \ {c} : call'[o] = call[o]

SamePlace(o) ==
    /\ call'[o].count = call[o].count
    /\ call[o].count > 0 =>
         call'[o].read = call[o].read /\ call'[o].at = call[o].at /\ call'[o].life = call[o].life

Starts(c) ==
    /\ call[c].pc = "idle" /\ call'[c].pc = "incr"
    /\ call'[c].read = now /\ call'[c].count = call[c].count
    /\ OthersStand(c)
    /\ UNCHANGED <<now, counter, ttl, removed>>

Takes(c) ==
    /\ call[c].pc = "incr" /\ call'[c].pc \in {"expire", "done", "failed"}
    /\ call'[c].read = call[c].read /\ call'[c].at = now
    /\ call'[c].count = counter[Home(c)] + 1 /\ call'[c].life = removed[Home(c)]
    /\ call'[c].pc = "expire" => call'[c].count = 1
    /\ call'[c].pc = "done" => call'[c].count # 1 /\ Judged(call'[c])
    /\ counter' = [counter EXCEPT ![Home(c)] = @ + 1]
    /\ OthersStand(c)
    /\ UNCHANGED <<now, ttl, removed>>

Ends(c) ==
    /\ call'[c].read = call[c].read /\ call'[c].count = call[c].count
    /\ call'[c].at = call[c].at /\ call'[c].life = call[c].life
    /\ OthersStand(c)
    /\ UNCHANGED <<now, counter, removed>>

GivesUp(c) ==
    /\ call[c].pc \in {"incr", "expire"} /\ call'[c].pc = "failed"
    /\ Ends(c)
    /\ UNCHANGED ttl

Arms(c) ==
    /\ call[c].pc = "expire" /\ call'[c].pc \in {"done", "failed"}
    /\ call'[c].pc = "done" => Judged(call'[c])
    /\ ttl' = [ttl EXCEPT ![Home(c)] = now + Window]
    /\ Ends(c)

\* The typing and the kind of each action.
LEMMA ReadClockKind ==
    ASSUME LimiterTypeOK, NEW c \in Calls, ReadClock(c)
    PROVE  LimiterTypeOK' /\ Starts(c)
<1> DEFINE q == [call[c] EXCEPT !.pc = "incr", !.read = now]
<1>1. call[c] \in CallRecord /\ now \in 0 .. MaxNow
  BY DEF LimiterTypeOK
<1>2. q \in CallRecord /\ q.pc = "incr" /\ q.read = now /\ q.count = call[c].count
  BY <1>1 DEF CallRecord
<1>3. Becomes(c, q)
  BY DEF ReadClock
<1> HIDE DEF q
<1>4. call' \in [Calls -> CallRecord] /\ call'[c] = q /\ OthersStand(c)
  BY <1>2, <1>3, OneCall DEF LimiterTypeOK, OthersStand
<1> QED
  BY <1>2, <1>4 DEF ReadClock, Starts, LimiterTypeOK

LEMMA IncrKind ==
    ASSUME LimiterTypeOK, NEW c \in Calls, Incr(c)
    PROVE  LimiterTypeOK' /\ Takes(c)
<1> DEFINE w == Home(c)
           n == counter[w] + 1
           k == removed[w]
           q == Counted(call[c], n, k)
           first == [q EXCEPT !.pc = "expire"]
<1>1. call[c] \in CallRecord /\ now \in 0 .. MaxNow
      /\ w \in Windows /\ counter[w] \in Nat /\ n \in Nat /\ k \in Nat
  BY HomeIsWindow DEF LimiterTypeOK
<1> HIDE DEF n, k
<1>2. /\ q \in CallRecord /\ q.read = call[c].read
      /\ q.count = n /\ q.at = now /\ q.life = k
  BY <1>1 DEF Counted, CallRecord
<1> USE DEF n, k
<1>3. \/ Becomes(c, IF q.count = 1 THEN first ELSE Verdict(q))
      \/ Becomes(c, FailOpen(q))
  BY DEF Incr, Home
<1>4. counter' = [counter EXCEPT ![w] = @ + 1] /\ UNCHANGED <<now, ttl, removed>>
      /\ call[c].pc = "incr"
  BY DEF Incr, Home
<1>5. counter' \in [Windows -> Nat]
  BY <1>1, <1>4 DEF LimiterTypeOK
<1> HIDE DEF q
<1>6. /\ first \in CallRecord /\ first.pc = "expire" /\ first.read = q.read
      /\ first.count = q.count /\ first.at = q.at /\ first.life = q.life
  BY <1>2 DEF CallRecord
<1> HIDE DEF first, w
<1>7. PICK r \in CallRecord :
        /\ Becomes(c, r)
        /\ r.read = q.read /\ r.count = q.count /\ r.at = q.at /\ r.life = q.life
        /\ \/ r.pc = "expire" /\ q.count = 1
           \/ r.pc = "done" /\ q.count # 1 /\ Judged(r)
           \/ r.pc = "failed"
  <2>1. CASE Becomes(c, FailOpen(q))
    BY <1>2, <2>1, FailOpenFields
  <2>2. CASE q.count = 1 /\ Becomes(c, first)
    BY <1>6, <2>2
  <2>3. CASE q.count # 1 /\ Becomes(c, Verdict(q))
    BY <1>2, <2>3, VerdictFields DEF Judged
  <2> QED
    BY <1>3, <2>1, <2>2, <2>3
<1>8. call' \in [Calls -> CallRecord] /\ call'[c] = r /\ OthersStand(c)
  BY <1>7, OneCall DEF LimiterTypeOK, OthersStand
<1>9. call'[c].pc \in {"expire", "done", "failed"}
      /\ (call'[c].pc = "expire" => call'[c].count = 1)
      /\ (call'[c].pc = "done" => call'[c].count # 1 /\ Judged(call'[c]))
  BY <1>7, <1>8
<1>10. LimiterTypeOK'
  BY <1>4, <1>5, <1>8 DEF LimiterTypeOK
<1> QED
  BY <1>2, <1>4, <1>7, <1>8, <1>9, <1>10 DEF Takes, w

LEMMA DoExpireKind ==
    ASSUME LimiterTypeOK, NEW c \in Calls, DoExpire(c)
    PROVE  LimiterTypeOK' /\ Arms(c)
<1> DEFINE w == Home(c)
           q == call[c]
<1>1. q \in CallRecord /\ w \in Windows /\ now + Window \in Nat
  BY HomeIsWindow, LimiterAssumption DEF LimiterTypeOK, LimiterAssumption
<1>2. /\ ttl' = [ttl EXCEPT ![w] = now + Window] /\ UNCHANGED <<now, counter, removed>>
      /\ Becomes(c, Verdict(q)) \/ Becomes(c, FailOpen(q))
      /\ call[c].pc = "expire"
  BY DEF DoExpire, Home
<1>3. PICK r \in CallRecord :
        /\ Becomes(c, r)
        /\ r.read = q.read /\ r.count = q.count /\ r.at = q.at /\ r.life = q.life
        /\ (r.pc = "done" /\ Judged(r)) \/ r.pc = "failed"
  BY <1>1, <1>2, VerdictFields, FailOpenFields DEF Judged
<1>4. call' \in [Calls -> CallRecord] /\ call'[c] = r /\ OthersStand(c)
  BY <1>3, OneCall DEF LimiterTypeOK, OthersStand
<1>5. ttl' \in [Windows -> Nat \cup {Never}]
  BY <1>1, <1>2 DEF LimiterTypeOK
<1>6. LimiterTypeOK'
  BY <1>2, <1>4, <1>5 DEF LimiterTypeOK
<1> QED
  BY <1>2, <1>3, <1>4, <1>6 DEF Arms, Ends

LEMMA BrokenKind ==
    ASSUME LimiterTypeOK, NEW c \in Calls, Broken(c)
    PROVE  LimiterTypeOK' /\ GivesUp(c)
<1> DEFINE q == FailOpen(call[c])
<1>1. call[c] \in CallRecord
  BY DEF LimiterTypeOK
<1>2. /\ q \in CallRecord /\ q.pc = "failed" /\ q.read = call[c].read
      /\ q.count = call[c].count /\ q.at = call[c].at /\ q.life = call[c].life
  BY <1>1, FailOpenFields
<1>3. Becomes(c, q) /\ UNCHANGED <<now, counter, ttl, removed>>
      /\ call[c].pc \in {"incr", "expire"}
  BY DEF Broken
<1> HIDE DEF q
<1>4. call' \in [Calls -> CallRecord] /\ call'[c] = q /\ OthersStand(c)
  BY <1>2, <1>3, OneCall DEF LimiterTypeOK, OthersStand
<1> QED
  BY <1>2, <1>3, <1>4 DEF LimiterTypeOK, GivesUp, Ends

-----------------------------------------------------------------------------
\* What a step leaves of the invariant.

\* A call that does not move goes on fitting its surroundings: they only grow.
LEMMA StandsFit ==
    ASSUME LimiterInv, LimiterTypeOK', NEW o \in Calls, call'[o] = call[o],
           now <= now',
           call[o].pc = "incr" => now' <= call[o].read + MaxStall,
           removed[Home(o)] <= removed'[Home(o)],
           removed'[Home(o)] = removed[Home(o)] => counter[Home(o)] <= counter'[Home(o)],
           call[o].pc = "expire" =>
               removed'[Home(o)] = removed[Home(o)] /\ ttl'[Home(o)] = ttl[Home(o)]
    PROVE  CallFits(o)'
<1> DEFINE h == Home(o)
<1>1. CallFits(o) /\ LimiterTypeOK
  BY DEF LimiterInv
<1>2. h \in Windows /\ Home(o)' = h
  BY <1>1, HomeIsWindow DEF Home
<1>3. /\ now \in Nat /\ now' \in Nat /\ counter[h] \in Nat /\ counter'[h] \in Nat
      /\ removed[h] \in Nat /\ removed'[h] \in Nat
      /\ call[o] \in CallRecord
  BY <1>1, <1>2 DEF LimiterTypeOK
<1>4. call[o].read \in Nat /\ call[o].count \in Nat /\ call[o].at \in Nat /\ call[o].life \in Nat
  BY <1>3 DEF CallRecord
<1> HIDE DEF h
<1>5. call'[o].pc = "expire" => call'[o].count = 1 /\ call'[o].life = removed'[h] /\ ttl'[h] = Never
  BY <1>1 DEF CallFits, h
<1>6. call'[o].count > 0 =>
         /\ call'[o].at <= now'
         /\ call'[o].at <= call'[o].read + MaxStall
         /\ call'[o].at >= (h + call'[o].life) * Window
         /\ call'[o].life <= removed'[h]
  BY <1>1, <1>3, <1>4 DEF CallFits, h
<1>7. call'[o].count > 0 /\ call'[o].life = removed'[h] => call'[o].count <= counter'[h]
  <2> SUFFICES ASSUME call[o].count > 0, call[o].life = removed'[h]
               PROVE  call[o].count <= counter'[h]
    OBVIOUS
  <2>1. call[o].life <= removed[h] /\ (call[o].life = removed[h] => call[o].count <= counter[h])
    BY <1>1 DEF CallFits, h
  <2>2. removed'[h] = removed[h]
    BY <1>3, <2>1 DEF h
  <2> QED
    BY <1>3, <1>4, <2>1, <2>2 DEF h
<1>8. call'[o].read <= now' /\ (call'[o].pc = "incr" => now' <= call'[o].read + MaxStall)
  BY <1>1, <1>3, <1>4 DEF CallFits
<1> QED
  BY <1>1, <1>2, <1>5, <1>6, <1>7, <1>8 DEF CallFits

\* As long as no call is given a place, places stay as they are.
LEMMA PlacesStay ==
    ASSUME LimiterInv, \A o \in Calls : SamePlace(o)
    PROVE  (\A c, o \in Calls : PlacesDiffer(c, o))' /\ (\A c \in Calls : PlacesTaken(c))'
<1>1. /\ \A c, o \in Calls : PlacesDiffer(c, o)
      /\ \A c \in Calls : PlacesTaken(c)
      /\ \A c \in Calls : call[c].count \in Nat
  BY DEF LimiterInv, LimiterTypeOK, CallRecord
<1>2. \A o \in Calls : call[o].count > 0 => Home(o)' = Home(o)
  BY DEF SamePlace, Home
<1>3. ASSUME NEW c \in Calls, NEW o \in Calls
      PROVE  PlacesDiffer(c, o)'
  BY <1>1, <1>2 DEF PlacesDiffer, SamePlace
<1>4. ASSUME NEW c \in Calls, NEW p \in 1 .. (call'[c].count - 1)
      PROVE  \E o \in Calls : /\ Home(o)' = Home(c)' /\ call'[o].count = p
                              /\ call'[o].life = call'[c].life
  <2>1. call'[c].count = call[c].count /\ p > 0 /\ call[c].count > 0 /\ p \in 1 .. (call[c].count - 1)
    BY <1>1 DEF SamePlace
  <2>2. PICK o \in Calls : Home(o) = Home(c) /\ call[o].count = p /\ call[o].life = call[c].life
    BY <1>1, <2>1 DEF PlacesTaken
  <2> QED
    BY <1>2, <2>1, <2>2 DEF SamePlace
<1> QED
  BY <1>3, <1>4 DEF PlacesTaken

\* The counter of a window that is left alone stays as it is.
LEMMA KeyStays ==
    ASSUME LimiterInv, \A o \in Calls : SamePlace(o), NEW w \in Windows,
           counter'[w] = counter[w], removed'[w] = removed[w],
           now \in Nat, now' \in Nat, now <= now',
           ttl'[w] = ttl[w] \/ (counter[w] > 0 /\ ttl'[w] >= (w + removed[w]) * Window + Window)
    PROVE  KeyFits(w)'
<1>1. KeyFits(w) /\ counter[w] \in Nat /\ removed[w] \in Nat /\ w \in Nat
  BY DEF LimiterInv, LimiterTypeOK, Windows
<1>2. \A o \in Calls : call[o].count > 0 => Home(o)' = Home(o)
  BY DEF SamePlace, Home
<1>3. ASSUME NEW p \in 1 .. counter'[w]
      PROVE  \E c \in Calls : Holds(c, w, p)'
  <2>1. PICK c \in Calls : Holds(c, w, p)
    BY <1>1 DEF KeyFits
  <2>2. call[c].count > 0
    BY <1>1, <2>1 DEF Holds
  <2>3. call'[c].count = call[c].count /\ call'[c].life = call[c].life /\ Home(c)' = Home(c)
    BY <1>2, <2>2 DEF SamePlace
  <2> QED
    BY <2>1, <2>3 DEF Holds
<1>4. removed'[w] > 0 => now' >= (w + removed'[w]) * Window
  <2>1. removed[w] > 0 => now >= (w + removed[w]) * Window
    BY <1>1 DEF KeyFits
  <2>2. (w + removed[w]) * Window \in Nat
    BY <1>1, LimiterAssumption DEF LimiterAssumption
  <2> QED
    BY <2>1, <2>2
<1>5. counter'[w] = 0 => ttl'[w] = Never
  BY <1>1 DEF KeyFits
<1>6. ttl'[w] # Never => ttl'[w] >= (w + removed'[w]) * Window + Window
  BY <1>1 DEF KeyFits
<1> QED
  BY <1>3, <1>4, <1>5, <1>6 DEF KeyFits

-----------------------------------------------------------------------------
\* Each kind of step keeps the invariant.

LEMMA StartsKeeps ==
    ASSUME LimiterInv, LimiterTypeOK', NEW c \in Calls, Starts(c)
    PROVE  LimiterInv'
<1>1. /\ LimiterTypeOK /\ \A o \in Calls : CallFits(o)
      /\ now \in Nat /\ counter \in [Windows -> Nat] /\ removed \in [Windows -> Nat]
  BY DEF LimiterInv, LimiterTypeOK
<1>2. call[c].count = 0 /\ \A o \in Calls : SamePlace(o)
  BY <1>1 DEF CallFits, Starts, OthersStand, SamePlace
<1>3. ASSUME NEW o \in Calls PROVE CallFits(o)'
  <2>1. CASE o = c
    BY <1>1, <1>2, <2>1, LimiterAssumption DEF Starts, CallFits, LimiterAssumption
  <2>2. CASE o # c
    <3>1. Home(o) \in Windows
      BY <1>1, HomeIsWindow
    <3>2. call'[o] = call[o] /\ UNCHANGED <<now, counter, ttl, removed>>
      BY <2>2 DEF Starts, OthersStand
    <3>3. call[o].pc = "incr" => now' <= call[o].read + MaxStall
      BY <1>1, <3>2 DEF CallFits
    <3>4. counter[Home(o)] \in Nat /\ removed[Home(o)] \in Nat
      BY <1>1, <3>1
    <3> QED
      BY <1>1, <3>2, <3>3, <3>4, StandsFit
  <2> QED
    BY <2>1, <2>2
<1>4. ASSUME NEW w \in Windows PROVE KeyFits(w)'
  BY <1>1, <1>2, KeyStays DEF Starts
<1>5. EveryCounterExpires'
  <2> SUFFICES ASSUME NEW w \in Windows, counter'[w] > 0, ttl'[w] = Never
               PROVE  \E x \in Calls : /\ Home(x)' = w
                                       /\ call'[x].count = 1 /\ call'[x].life = removed'[w]
                                       /\ call'[x].pc \in {"expire", "failed"}
    BY DEF EveryCounterExpires, Home
  <2>1. PICK x \in Calls : /\ Home(x) = w
                           /\ call[x].count = 1 /\ call[x].life = removed[w]
                           /\ call[x].pc \in {"expire", "failed"}
    BY DEF LimiterInv, EveryCounterExpires, Starts, Home
  <2>2. call'[x] = call[x]
    BY <2>1 DEF Starts, OthersStand
  <2> QED
    BY <2>1, <2>2 DEF Home, Starts
<1> QED
  BY <1>2, <1>3, <1>4, <1>5, PlacesStay DEF LimiterInv

LEMMA GivesUpKeeps ==
    ASSUME LimiterInv, LimiterTypeOK', NEW c \in Calls, GivesUp(c)
    PROVE  LimiterInv'
<1>1. /\ LimiterTypeOK /\ \A o \in Calls : CallFits(o)
      /\ now \in Nat /\ counter \in [Windows -> Nat] /\ removed \in [Windows -> Nat]
  BY DEF LimiterInv, LimiterTypeOK
<1>2. /\ \A o \in Calls : SamePlace(o)
      /\ UNCHANGED <<now, counter, ttl, removed>>
      /\ Home(c)' = Home(c)
  BY DEF GivesUp, Ends, OthersStand, SamePlace, Home
<1>3. ASSUME NEW o \in Calls PROVE CallFits(o)'
  <2>1. CASE o = c
    BY <1>1, <1>2, <2>1 DEF GivesUp, Ends, CallFits
  <2>2. CASE o # c
    <3>1. Home(o) \in Windows
      BY <1>1, HomeIsWindow
    <3>2. call'[o] = call[o]
      BY <2>2 DEF GivesUp, Ends, OthersStand
    <3>3. call[o].pc = "incr" => now' <= call[o].read + MaxStall
      BY <1>1, <1>2 DEF CallFits
    <3>4. counter[Home(o)] \in Nat /\ removed[Home(o)] \in Nat
      BY <1>1, <3>1
    <3> QED
      BY <1>1, <1>2, <3>2, <3>3, <3>4, StandsFit
  <2> QED
    BY <2>1, <2>2
<1>4. ASSUME NEW w \in Windows PROVE KeyFits(w)'
  BY <1>1, <1>2, KeyStays
<1>5. EveryCounterExpires'
  <2> SUFFICES ASSUME NEW w \in Windows, counter'[w] > 0, ttl'[w] = Never
               PROVE  \E x \in Calls : /\ Home(x)' = w
                                       /\ call'[x].count = 1 /\ call'[x].life = removed'[w]
                                       /\ call'[x].pc \in {"expire", "failed"}
    BY DEF EveryCounterExpires, Home
  <2>1. PICK x \in Calls : /\ Home(x) = w
                           /\ call[x].count = 1 /\ call[x].life = removed[w]
                           /\ call[x].pc \in {"expire", "failed"}
    BY <1>2 DEF LimiterInv, EveryCounterExpires, Home
  <2>2. Home(x)' = w /\ call'[x].count = 1 /\ call'[x].life = removed'[w]
    BY <1>2, <2>1 DEF SamePlace, Home
  <2>3. call'[x].pc \in {"expire", "failed"}
    BY <2>1 DEF GivesUp, Ends, OthersStand
  <2> QED
    BY <2>2, <2>3
<1> QED
  BY <1>2, <1>3, <1>4, <1>5, PlacesStay DEF LimiterInv

LEMMA ArmsKeeps ==
    ASSUME LimiterInv, LimiterTypeOK', NEW c \in Calls, Arms(c)
    PROVE  LimiterInv'
<1> DEFINE h == Home(c)
<1>1. /\ LimiterTypeOK /\ \A o \in Calls : CallFits(o)
      /\ \A o, p \in Calls : PlacesDiffer(o, p)
      /\ now \in Nat /\ counter \in [Windows -> Nat] /\ removed \in [Windows -> Nat]
      /\ ttl \in [Windows -> Nat \cup {Never}]
  BY DEF LimiterInv, LimiterTypeOK
<1>2. /\ \A o \in Calls : SamePlace(o)
      /\ UNCHANGED <<now, counter, removed>>
      /\ Home(c)' = h
      /\ ttl' = [ttl EXCEPT ![h] = now + Window]
  BY DEF Arms, Ends, OthersStand, SamePlace, Home
<1>3. h \in Windows /\ h \in Nat
  BY <1>1, HomeIsWindow
<1>4. /\ call[c].pc = "expire" /\ call[c].count = 1 /\ call[c].life = removed[h]
      /\ call[c].at <= now /\ call[c].at >= (h + removed[h]) * Window
      /\ counter[h] >= 1
  BY <1>1 DEF CallFits, Arms
<1>5. ASSUME NEW o \in Calls PROVE CallFits(o)'
  <2>1. CASE o = c
    <3>1. call'[c].pc = "done" => /\ call'[c].count >= 1
                                  /\ call'[c].allowed = (call'[c].count <= Limit)
                                  /\ call'[c].remaining = IF call'[c].count <= Limit
                                                          THEN Limit - call'[c].count ELSE 0
      BY <1>4 DEF Arms, Ends, Judged
    <3> QED
      BY <1>1, <1>2, <2>1, <3>1 DEF Arms, Ends, CallFits
  <2>2. CASE o # c
    <3>1. Home(o) \in Windows
      BY <1>1, HomeIsWindow
    <3>2. call'[o] = call[o]
      BY <2>2 DEF Arms, Ends, OthersStand
    <3>3. call[o].pc = "incr" => now' <= call[o].read + MaxStall
      BY <1>1, <1>2 DEF CallFits
    <3>4. counter[Home(o)] \in Nat /\ removed[Home(o)] \in Nat
      BY <1>1, <3>1
    <3>5. call[o].pc = "expire" => ttl'[Home(o)] = ttl[Home(o)]
      <4> SUFFICES ASSUME call[o].pc = "expire", Home(o) = h PROVE FALSE
        BY <1>1, <1>2, <3>1
      <4>1. call[o].count = 1 /\ call[o].life = removed[h]
        BY <1>1 DEF CallFits
      <4>2. PlacesDiffer(o, c)
        BY <1>1
      <4> QED
        BY <1>4, <2>2, <4>1, <4>2 DEF PlacesDiffer
    <3> QED
      BY <1>1, <1>2, <3>2, <3>3, <3>4, <3>5, StandsFit
  <2> QED
    BY <2>1, <2>2
<1>6. ASSUME NEW w \in Windows PROVE KeyFits(w)'
  <2>1. CASE w # h
    <3>1. ttl'[w] = ttl[w]
      BY <1>1, <1>2, <2>1
    <3> QED
      BY <1>1, <1>2, <3>1, KeyStays
  <2>2. CASE w = h
    <3>1. ttl'[h] = now + Window
      BY <1>1, <1>2, <1>3
    <3>2. call[c].at \in Nat
      BY <1>1 DEF LimiterTypeOK, CallRecord
    <3>3. (h + removed[h]) * Window \in Nat /\ Window \in Nat
      BY <1>1, <1>3, LimiterAssumption DEF LimiterAssumption
    <3>4. ttl'[h] >= (h + removed[h]) * Window + Window
      BY <1>1, <1>4, <3>1, <3>2, <3>3
    <3>5. counter[h] > 0
      BY <1>1, <1>3, <1>4
    <3> QED
      BY <1>1, <1>2, <1>3, <2>2, <3>4, <3>5, KeyStays
  <2> QED
    BY <2>1, <2>2
<1>7. EveryCounterExpires'
  <2> SUFFICES ASSUME NEW w \in Windows, counter'[w] > 0, ttl'[w] = Never
               PROVE  \E x \in Calls : /\ Home(x)' = w
                                       /\ call'[x].count = 1 /\ call'[x].life = removed'[w]
                                       /\ call'[x].pc \in {"expire", "failed"}
    BY DEF EveryCounterExpires, Home
  <2>1. w # h /\ ttl[w] = Never
    <3>1. now + Window \in Nat
      BY <1>1, LimiterAssumption DEF LimiterAssumption
    <3> QED
      BY <1>1, <1>2, <1>3, <3>1, LimiterAssumption DEF LimiterAssumption
  <2>2. PICK x \in Calls : /\ Home(x) = w
                           /\ call[x].count = 1 /\ call[x].life = removed[w]
                           /\ call[x].pc \in {"expire", "failed"}
    BY <1>2, <2>1 DEF LimiterInv, EveryCounterExpires, Home
  <2>3. call'[x] = call[x]
    BY <2>1, <2>2 DEF Arms, Ends, OthersStand
  <2> QED
    BY <1>2, <2>2, <2>3 DEF Home
<1> QED
  BY <1>2, <1>5, <1>6, <1>7, PlacesStay DEF LimiterInv

LEMMA TakesKeeps ==
    ASSUME LimiterInv, LimiterTypeOK', NEW c \in Calls, Takes(c)
    PROVE  LimiterInv'
<1> DEFINE h == Home(c)
           n == counter[h] + 1
<1>1. /\ LimiterTypeOK /\ \A o \in Calls : CallFits(o) /\ PlacesTaken(o)
      /\ \A o, p \in Calls : PlacesDiffer(o, p)
      /\ \A w \in Windows : KeyFits(w)
      /\ now \in Nat /\ counter \in [Windows -> Nat] /\ removed \in [Windows -> Nat]
  BY DEF LimiterInv, LimiterTypeOK
<1>2. h \in Windows /\ h \in Nat /\ counter[h] \in Nat /\ removed[h] \in Nat
  BY <1>1, HomeIsWindow
<1>3. /\ OthersStand(c) /\ UNCHANGED <<now, ttl, removed>>
      /\ Home(c)' = h
      /\ counter' = [counter EXCEPT ![h] = n] /\ counter'[h] = n
      /\ \A o \in Calls \ {c} : call'[o] = call[o] /\ Home(o)' = Home(o)
  BY <1>1, <1>2 DEF Takes, OthersStand, Home
<1>4. call[c].count = 0 /\ call'[c].count = n /\ call'[c].life = removed[h]
  BY <1>1 DEF Takes, CallFits
<1>5. KeyFits(h)
  BY <1>1, <1>2
<1>6. now >= (h + removed[h]) * Window
  <2>1. CASE removed[h] > 0
    BY <1>5, <2>1 DEF KeyFits
  <2>2. CASE removed[h] = 0
    <3>1. call[c].read <= now /\ call[c].read \in Nat
      BY <1>1 DEF CallFits, LimiterTypeOK, CallRecord
    <3>2. h * Window <= call[c].read /\ h * Window \in Nat
      BY <1>2, <3>1, WindowBounds, LimiterAssumption DEF Home, LimiterAssumption
    <3>3. (h + removed[h]) * Window = h * Window
      BY <1>2, <2>2
    <3> QED
      BY <1>1, <3>1, <3>2, <3>3
  <2> QED
    BY <1>2, <2>1, <2>2
<1>7. ASSUME NEW o \in Calls PROVE CallFits(o)'
  <2>1. CASE o = c
    <3>1. now <= call[c].read + MaxStall /\ call[c].read <= now
      BY <1>1 DEF CallFits, Takes
    <3>2. call'[c].pc = "expire" => ttl'[h] = Never
      <4>1. call'[c].pc = "expire" => counter[h] = 0
        BY <1>2, <1>4 DEF Takes
      <4> QED
        BY <1>3, <1>5, <4>1 DEF KeyFits
    <3>3. n >= 1 /\ now <= now /\ removed[h] <= removed[h]
      BY <1>1, <1>2
    <3>4. call'[c].pc = "done" => /\ call'[c].allowed = (call'[c].count <= Limit)
                                  /\ call'[c].remaining = IF call'[c].count <= Limit
                                                          THEN Limit - call'[c].count ELSE 0
      BY DEF Takes, Judged
    <3>5. call'[c].at = now /\ call'[c].read = call[c].read /\ now' = now
          /\ call'[c].pc \in {"expire", "done", "failed"}
          /\ (call'[c].pc = "expire" => call'[c].count = 1)
      BY DEF Takes
    <3>6. removed'[h] = removed[h] /\ counter'[h] = n /\ n <= n /\ n > 0
      BY <1>2, <1>3
    <3> HIDE DEF n, h
    <3>7. CallFits(c)'
      BY <1>3, <1>4, <1>6, <3>1, <3>2, <3>3, <3>4, <3>5, <3>6 DEF CallFits
    <3> QED
      BY <2>1, <3>7
  <2>2. CASE o # c
    <3>1. Home(o) \in Windows
      BY <1>1, HomeIsWindow
    <3>2. call[o].pc = "incr" => now' <= call[o].read + MaxStall
      BY <1>1, <1>3 DEF CallFits
    <3>3. counter[Home(o)] \in Nat /\ removed[Home(o)] \in Nat
      BY <1>1, <3>1
    <3>4. counter[Home(o)] <= counter'[Home(o)]
      BY <1>1, <1>2, <1>3, <3>1, <3>3
    <3> QED
      BY <1>1, <1>3, <2>2, <3>2, <3>3, <3>4, StandsFit
  <2> QED
    BY <2>1, <2>2
<1>8. ASSUME NEW o \in Calls, o # c, Home(o) = h, call[o].life = removed[h], call[o].count > 0
      PROVE  call[o].count # n
  <2>1. call[o].count <= counter[h] /\ call[o].count \in Nat
    BY <1>1, <1>8 DEF CallFits, LimiterTypeOK, CallRecord
  <2> QED
    BY <1>2, <2>1
<1>9. ASSUME NEW o \in Calls, NEW p \in Calls PROVE PlacesDiffer(o, p)'
  <2>1. n > 0
    BY <1>2
  <2>2. CASE o # c /\ p # c
    BY <1>1, <1>3, <2>2 DEF PlacesDiffer
  <2>3. CASE o = c /\ p # c
    BY <1>3, <1>4, <1>8, <2>1, <2>3 DEF PlacesDiffer
  <2>4. CASE o # c /\ p = c
    BY <1>3, <1>4, <1>8, <2>1, <2>4 DEF PlacesDiffer
  <2> QED
    BY <2>2, <2>3, <2>4 DEF PlacesDiffer
<1>10. ASSUME NEW o \in Calls, NEW p \in 1 .. (call'[o].count - 1)
       PROVE  \E x \in Calls : /\ Home(x)' = Home(o)' /\ call'[x].count = p
                               /\ call'[x].life = call'[o].life
  <2>1. CASE o = c
    <3>1. p \in 1 .. counter[h]
      BY <1>2, <1>4, <2>1
    <3>2. PICK x \in Calls : Holds(x, h, p)
      BY <1>5, <3>1 DEF KeyFits
    <3>3. x # c
      BY <1>4, <3>1, <3>2 DEF Holds
    <3> QED
      BY <1>3, <1>4, <2>1, <3>2, <3>3 DEF Holds
  <2>2. CASE o # c
    <3>1. p \in 1 .. (call[o].count - 1)
      BY <1>3, <2>2
    <3>2. PICK x \in Calls : Home(x) = Home(o) /\ call[x].count = p /\ call[x].life = call[o].life
      BY <1>1, <3>1 DEF PlacesTaken
    <3>3. x # c
      BY <1>4, <3>1, <3>2
    <3> QED
      BY <1>3, <2>2, <3>2, <3>3
  <2> QED
    BY <2>1, <2>2
<1>11. ASSUME NEW w \in Windows PROVE KeyFits(w)'
  <2>1. KeyFits(w) /\ counter[w] \in Nat
    BY <1>1
  <2>2. ASSUME NEW p \in 1 .. counter'[w] PROVE \E x \in Calls : Holds(x, w, p)'
    <3>1. CASE w = h /\ p = n
      BY <1>3, <1>4, <3>1 DEF Holds
    <3>2. CASE ~(w = h /\ p = n)
      <4>1. p \in 1 .. counter[w]
        BY <1>1, <1>2, <1>3, <3>2
      <4>2. PICK x \in Calls : Holds(x, w, p)
        BY <2>1, <4>1 DEF KeyFits
      <4>3. x # c
        BY <1>4, <4>1, <4>2 DEF Holds
      <4> QED
        BY <1>3, <4>2, <4>3 DEF Holds
    <3> QED
      BY <3>1, <3>2
  <2>3. counter'[w] = 0 => ttl'[w] = Never
    BY <1>1, <1>2, <1>3, <2>1 DEF KeyFits
  <2> QED
    BY <1>3, <2>1, <2>2, <2>3 DEF KeyFits
<1>12. EveryCounterExpires'
  <2> SUFFICES ASSUME NEW w \in Windows, counter'[w] > 0, ttl'[w] = Never
               PROVE  \E x \in Calls : /\ Home(x)' = w
                                       /\ call'[x].count = 1 /\ call'[x].life = removed'[w]
                                       /\ call'[x].pc \in {"expire", "failed"}
    BY DEF EveryCounterExpires, Home
  <2>1. CASE w = h /\ counter[h] = 0
    BY <1>3, <1>4, <2>1 DEF Takes
  <2>2. CASE ~(w = h /\ counter[h] = 0)
    <3>1. counter[w] > 0
      BY <1>1, <1>2, <1>3, <2>2
    <3>2. PICK x \in Calls : /\ Home(x) = w
                             /\ call[x].count = 1 /\ call[x].life = removed[w]
                             /\ call[x].pc \in {"expire", "failed"}
      BY <1>3, <3>1 DEF LimiterInv, EveryCounterExpires, Home
    <3>3. x # c
      BY <1>4, <3>2
    <3> QED
      BY <1>3, <3>2, <3>3
  <2> QED
    BY <2>1, <2>2
<1> QED
  BY <1>7, <1>9, <1>10, <1>11, <1>12 DEF LimiterInv, PlacesTaken

LEMMA RemoveKeeps ==
    ASSUME LimiterInv, NEW v \in Windows, Remove(v)
    PROVE  LimiterInv'
<1>1. /\ LimiterTypeOK /\ \A o \in Calls : CallFits(o)
      /\ now \in Nat /\ counter \in [Windows -> Nat] /\ removed \in [Windows -> Nat]
      /\ ttl \in [Windows -> Nat \cup {Never}]
  BY DEF LimiterInv, LimiterTypeOK
<1>2. /\ counter' = [counter EXCEPT ![v] = 0] /\ ttl' = [ttl EXCEPT ![v] = Never]
      /\ removed' = [removed EXCEPT ![v] = @ + 1] /\ UNCHANGED <<now, call>>
      /\ ttl[v] \in 0 .. now
  BY DEF Remove, Due
<1>3. LimiterTypeOK' /\ ttl[v] # Never
  BY <1>1, <1>2, LimiterAssumption DEF LimiterTypeOK, LimiterAssumption
<1>4. \A o \in Calls : SamePlace(o)
  BY <1>2 DEF SamePlace
<1>5. ASSUME NEW o \in Calls PROVE CallFits(o)'
  <2> DEFINE h == Home(o)
  <2>1. h \in Windows /\ removed[h] \in Nat /\ counter[h] \in Nat
    BY <1>1, HomeIsWindow
  <2> HIDE DEF h
  <2>2. removed[h] <= removed'[h] /\ (removed'[h] = removed[h] => counter[h] <= counter'[h])
    BY <1>1, <1>2, <2>1
  <2>3. call[o].pc = "expire" => removed'[h] = removed[h] /\ ttl'[h] = ttl[h]
    <3>1. call[o].pc = "expire" => ttl[h] = Never
      BY <1>1 DEF CallFits, h
    <3> QED
      BY <1>1, <1>2, <1>3, <2>1, <3>1
  <2>4. call[o].pc = "incr" => now' <= call[o].read + MaxStall
    BY <1>1, <1>2 DEF CallFits
  <2> QED
    BY <1>1, <1>2, <1>3, <2>2, <2>3, <2>4, StandsFit DEF h
<1>6. ASSUME NEW w \in Windows PROVE KeyFits(w)'
  <2>1. CASE w # v
    BY <1>1, <1>2, <1>4, <2>1, KeyStays
  <2>2. CASE w = v
    <3>1. ttl[v] >= (v + removed[v]) * Window + Window
      BY <1>3 DEF LimiterInv, KeyFits
    <3>2. v \in Nat /\ removed[v] \in Nat /\ Window \in Nat
      BY <1>1, LimiterAssumption DEF Windows, LimiterAssumption
    <3>3. (v + removed[v] + 1) * Window = (v + removed[v]) * Window + Window
          /\ (v + removed[v]) * Window \in Nat
      BY <3>2
    <3>4. removed'[v] = removed[v] + 1 /\ v + removed'[v] = v + removed[v] + 1
      BY <1>1, <1>2, <3>2
    <3>5. now' >= (v + removed'[v]) * Window
      BY <1>1, <1>2, <3>1, <3>2, <3>3, <3>4
    <3>6. counter'[v] = 0 /\ ttl'[v] = Never
      BY <1>1, <1>2
    <3> QED
      BY <2>2, <3>5, <3>6 DEF KeyFits
  <2> QED
    BY <2>1, <2>2
<1>7. EveryCounterExpires'
  <2> SUFFICES ASSUME NEW w \in Windows, counter'[w] > 0, ttl'[w] = Never
               PROVE  \E x \in Calls : /\ Home(x)' = w
                                       /\ call'[x].count = 1 /\ call'[x].life = removed'[w]
                                       /\ call'[x].pc \in {"expire", "failed"}
    BY DEF EveryCounterExpires, Home
  <2>1. w # v
    BY <1>1, <1>2
  <2>2. counter[w] > 0 /\ ttl[w] = Never /\ removed'[w] = removed[w]
    BY <1>1, <1>2, <2>1
  <2> QED
    BY <1>2, <2>2 DEF LimiterInv, EveryCounterExpires, Home
<1> QED
  BY <1>3, <1>4, <1>5, <1>6, <1>7, PlacesStay DEF LimiterInv

LEMMA TickKeeps ==
    ASSUME LimiterInv, Tick
    PROVE  LimiterInv'
<1>1. /\ LimiterTypeOK /\ \A o \in Calls : CallFits(o)
      /\ now \in Nat /\ counter \in [Windows -> Nat] /\ removed \in [Windows -> Nat]
  BY DEF LimiterInv, LimiterTypeOK
<1>2. /\ now' = now + 1 /\ now < MaxNow /\ UNCHANGED <<counter, ttl, removed, call>>
      /\ \A o \in Calls : call[o].pc = "incr" => now < call[o].read + MaxStall
  BY DEF Tick
<1>3. LimiterTypeOK' /\ now' \in Nat /\ now <= now'
  BY <1>1, <1>2, LimiterAssumption DEF LimiterTypeOK, LimiterAssumption
<1>4. \A o \in Calls : SamePlace(o)
  BY <1>2 DEF SamePlace
<1>5. ASSUME NEW o \in Calls PROVE CallFits(o)'
  <2>1. Home(o) \in Windows /\ call[o].read \in Nat
    BY <1>1, HomeIsWindow DEF LimiterTypeOK, CallRecord
  <2>2. call[o].pc = "incr" => now' <= call[o].read + MaxStall
    BY <1>1, <1>2, <2>1, LimiterAssumption DEF LimiterAssumption
  <2>3. counter[Home(o)] \in Nat /\ removed[Home(o)] \in Nat
    BY <1>1, <2>1
  <2> QED
    BY <1>1, <1>2, <1>3, <2>2, <2>3, StandsFit
<1>6. ASSUME NEW w \in Windows PROVE KeyFits(w)'
  BY <1>1, <1>2, <1>3, <1>4, KeyStays
<1>7. EveryCounterExpires'
  BY <1>2 DEF LimiterInv, EveryCounterExpires, WindowOf
<1> QED
  BY <1>3, <1>4, <1>5, <1>6, <1>7, PlacesStay DEF LimiterInv

-----------------------------------------------------------------------------
LEMMA LimiterInitInv == LimiterInit => LimiterInv
<1> SUFFICES ASSUME LimiterInit PROVE LimiterInv
  OBVIOUS
<1>1. 0 \in 0 .. MaxNow /\ NewCall \in CallRecord /\ Limit \in Nat
  BY LimiterAssumption DEF NewCall, CallRecord, LimiterAssumption
<1>2. LimiterTypeOK
  BY <1>1 DEF LimiterInit, LimiterTypeOK
<1>3. \A c \in Calls : call[c].count = 0 /\ call[c].pc = "idle" /\ call[c].read = 0
  BY DEF LimiterInit, NewCall
<1>4. \A c \in Calls : CallFits(c)
  BY <1>3 DEF CallFits, LimiterInit
<1>5. \A c, o \in Calls : PlacesDiffer(c, o)
  BY <1>3 DEF PlacesDiffer
<1>6. \A c \in Calls : PlacesTaken(c)
  BY <1>3 DEF PlacesTaken
<1>7. \A w \in Windows : KeyFits(w)
  BY DEF LimiterInit, KeyFits
<1>8. EveryCounterExpires
  BY DEF LimiterInit, EveryCounterExpires
<1> QED
  BY <1>2, <1>4, <1>5, <1>6, <1>7, <1>8 DEF LimiterInv

LEMMA LimiterStepInv == LimiterInv /\ [LimiterNext]_limiterVars => LimiterInv'
<1> SUFFICES ASSUME LimiterInv, [LimiterNext]_limiterVars PROVE LimiterInv'
  OBVIOUS
<1> USE DEF LimiterInv
<1>1. ASSUME NEW c \in Calls, ReadClock(c) PROVE LimiterInv'
  BY <1>1, ReadClockKind, StartsKeeps
<1>2. ASSUME NEW c \in Calls, Incr(c) PROVE LimiterInv'
  BY <1>2, IncrKind, TakesKeeps
<1>3. ASSUME NEW c \in Calls, DoExpire(c) PROVE LimiterInv'
  BY <1>3, DoExpireKind, ArmsKeeps
<1>4. ASSUME NEW c \in Calls, Broken(c) PROVE LimiterInv'
  BY <1>4, BrokenKind, GivesUpKeeps
<1>5. ASSUME NEW w \in Windows, Remove(w) PROVE LimiterInv'
  BY <1>5, RemoveKeeps
<1>6. CASE Tick
  BY <1>6, TickKeeps
<1>7. CASE UNCHANGED limiterVars
  BY <1>7 DEF limiterVars, LimiterTypeOK, CallFits, PlacesDiffer, PlacesTaken, KeyFits, Holds,
              EveryCounterExpires, Home, WindowOf
<1> QED
  BY <1>1, <1>2, <1>3, <1>4, <1>5, <1>6, <1>7 DEF LimiterNext, Unreachable, Dies

LEMMA LimiterInvHolds == LimiterSpec => []LimiterInv
BY LimiterInitInv, LimiterStepInv, PTL DEF LimiterSpec

-----------------------------------------------------------------------------
\* What follows.

LEMMA Numbered ==
    ASSUME NEW S, NEW n \in Nat, NEW f \in [S -> 1 .. n],
           \A x, y \in S : f[x] = f[y] => x = y
    PROVE  Cardinality(S) <= n
<1>1. f \in Injection(S, 1 .. n)
  BY DEF Injection, IsInjective
<1>2. IsFiniteSet(1 .. n) /\ Cardinality(1 .. n) = n
  BY FS_Interval
<1> QED
  BY <1>1, <1>2, FS_Injection

\* An admitted call has a place within the limit.
LEMMA AdmittedPlace ==
    ASSUME LimiterInv, NEW c \in Calls, call[c].pc = "done", call[c].allowed
    PROVE  /\ call[c].count \in 1 .. Limit
           /\ call[c].at \in Nat /\ call[c].life \in Nat /\ call[c].read \in 0 .. MaxNow
           /\ call[c].at <= call[c].read + MaxStall
           /\ call[c].at >= (Home(c) + call[c].life) * Window
           /\ Home(c) \in Nat
<1>1. LimiterTypeOK /\ CallFits(c)
  BY DEF LimiterInv
<1>2. call[c].count \in Nat /\ call[c].at \in Nat /\ call[c].life \in Nat /\ call[c].read \in 0 .. MaxNow
  BY <1>1 DEF LimiterTypeOK, CallRecord
<1>3. Home(c) \in Nat
  BY <1>1, HomeIsWindow
<1>4. call[c].count >= 1 /\ call[c].allowed = (call[c].count <= Limit)
  BY <1>1 DEF CallFits
<1>5. call[c].count <= Limit
  BY <1>4, Zenon
<1>6. call[c].count \in 1 .. Limit
  BY <1>2, <1>4, <1>5, LimiterAssumption DEF LimiterAssumption
<1> QED
  BY <1>1, <1>2, <1>3, <1>4, <1>6 DEF CallFits

\* Whoever counts while the window lasts counts before its key is removed.
LEMMA PunctualIsFirst ==
    ASSUME LimiterInv, NEW c \in Calls, call[c].count > 0, Punctual(c)
    PROVE  call[c].life = 0
<1> DEFINE h == Home(c)
           k == call[c].life
           a == call[c].at
<1>1. a \in Nat /\ k \in Nat /\ h \in Nat /\ a >= (h + k) * Window /\ WindowOf(a) = h
  BY HomeIsWindow DEF LimiterInv, LimiterTypeOK, CallRecord, CallFits, Punctual, Home
<1>2. a < h * Window + Window
  BY <1>1, WindowBounds
<1> HIDE DEF h, k, a
<1>3. (h + k) * Window = h * Window + k * Window /\ h * Window \in Nat /\ Window \in Nat \ {0}
  BY <1>1, LimiterAssumption DEF LimiterAssumption
<1>4. k >= 1 => k * Window >= Window
  BY <1>1, <1>3
<1>5. k * Window \in Nat
  BY <1>1, <1>3
<1>6. k < 1
  BY <1>1, <1>2, <1>3, <1>4, <1>5
<1> QED
  BY <1>1, <1>6 DEF k

LEMMA LimitPerWindow == LimiterInv => AtMostLimitPerWindow
<1> SUFFICES ASSUME LimiterInv, NEW w \in Windows
             PROVE  Cardinality({c \in Admitted(w) : Punctual(c)}) <= Limit
  BY DEF AtMostLimitPerWindow
<1> DEFINE S == {c \in Admitted(w) : Punctual(c)}
           f == [c \in S |-> call[c].count]
<1>1. \A c \in S : c \in Calls /\ call[c].pc = "done" /\ call[c].allowed /\ Punctual(c) /\ Home(c) = w
  BY DEF Admitted, Home
<1>2. \A c \in S : call[c].count \in 1 .. Limit /\ call[c].life = 0
  BY <1>1, AdmittedPlace, PunctualIsFirst
<1>3. f \in [S -> 1 .. Limit] /\ Limit \in Nat
  BY <1>2, LimiterAssumption DEF LimiterAssumption
<1>4. ASSUME NEW x \in S, NEW y \in S, f[x] = f[y] PROVE x = y
  <2>1. PlacesDiffer(x, y)
    BY <1>1 DEF LimiterInv
  <2> QED
    BY <1>1, <1>2, <1>4, <2>1 DEF PlacesDiffer
<1> HIDE DEF f, S
<1> QED
  BY <1>3, <1>4, Numbered DEF S

\* A call held up for no longer than a window counts after one removal at most.
LEMMA HeldUpOnce ==
    ASSUME LimiterInv, NEW c \in Calls, call[c].pc = "done", call[c].allowed, MaxStall <= Window
    PROVE  call[c].life \in {0, 1}
<1> DEFINE h == Home(c)
           k == call[c].life
           a == call[c].at
           t == call[c].read
<1>1. /\ a \in Nat /\ k \in Nat /\ h \in Nat /\ t \in Nat
      /\ a >= (h + k) * Window /\ a <= t + MaxStall /\ WindowOf(t) = h
  BY AdmittedPlace DEF Home
<1>2. t < h * Window + Window
  BY <1>1, WindowBounds
<1> HIDE DEF h, k, a, t
<1>3. /\ (h + k) * Window = h * Window + k * Window /\ h * Window \in Nat
      /\ Window \in Nat \ {0} /\ MaxStall \in Nat
  BY <1>1, LimiterAssumption DEF LimiterAssumption
<1>4. k >= 2 => k * Window >= 2 * Window
  BY <1>1, <1>3
<1>5. k * Window \in Nat
  BY <1>1, <1>3
<1>6. k < 2
  BY <1>1, <1>2, <1>3, <1>4, <1>5
<1> QED
  BY <1>1, <1>6 DEF k

LEMMA HeldUpDouble == LimiterInv => HeldUpCallsAtMostDouble
<1> SUFFICES ASSUME LimiterInv, MaxStall <= Window, NEW w \in Windows
             PROVE  Cardinality(Admitted(w)) <= 2 * Limit
  BY DEF HeldUpCallsAtMostDouble
<1> DEFINE S == Admitted(w)
           f == [c \in S |-> call[c].count + call[c].life * Limit]
<1>1. \A c \in S : c \in Calls /\ call[c].pc = "done" /\ call[c].allowed /\ Home(c) = w
  BY DEF Admitted, Home
<1>2. \A c \in S : call[c].count \in 1 .. Limit /\ call[c].life \in {0, 1}
  BY <1>1, AdmittedPlace, HeldUpOnce
<1>3. Limit \in Nat /\ 2 * Limit \in Nat
  BY LimiterAssumption DEF LimiterAssumption
<1>4. f \in [S -> 1 .. 2 * Limit]
  BY <1>2, <1>3
<1>5. ASSUME NEW x \in S, NEW y \in S, f[x] = f[y] PROVE x = y
  <2>1. call[x].count = call[y].count /\ call[x].life = call[y].life
    <3> DEFINE i == call[x].count
               j == call[y].count
               k == call[x].life
               l == call[y].life
    <3>1. i + k * Limit = j + l * Limit /\ i \in 1 .. Limit /\ j \in 1 .. Limit
          /\ k \in {0, 1} /\ l \in {0, 1}
      BY <1>2, <1>5
    <3> HIDE DEF i, j, k, l
    <3>2. i = j /\ k = l
      BY <1>3, <3>1
    <3> QED
      BY <3>2 DEF i, j, k, l
  <2>2. PlacesDiffer(x, y)
    BY <1>1 DEF LimiterInv
  <2> QED
    BY <1>1, <1>2, <2>1, <2>2 DEF PlacesDiffer
<1> HIDE DEF f, S
<1> QED
  BY <1>3, <1>4, <1>5, Numbered DEF S

LEMMA RejectedWhenFull == LimiterInv => RejectedOnlyWhenFull
<1> SUFFICES ASSUME LimiterInv, NEW c \in Calls, call[c].pc = "done", ~call[c].allowed
             PROVE  Cardinality({o \in Calls : /\ Home(o) = Home(c)
                                               /\ call[o].count \in 1 .. (call[c].count - 1)}) >= Limit
  BY DEF RejectedOnlyWhenFull, Home
<1> DEFINE k == call[c].count
           S == {o \in Calls : Home(o) = Home(c) /\ call[o].count \in 1 .. (k - 1)}
           f == [o \in S |-> call[o].count]
<1>1. CallFits(c) /\ PlacesTaken(c) /\ k \in Nat
  BY DEF LimiterInv, LimiterTypeOK, CallRecord
<1>2. k > Limit /\ Limit \in Nat
  <2>1. call[c].allowed = (k <= Limit)
    BY <1>1 DEF CallFits
  <2>2. ~(k <= Limit)
    BY <2>1, Zenon
  <2> QED
    BY <1>1, <2>2, LimiterAssumption DEF LimiterAssumption
<1>3. IsFiniteSet(S)
  BY FS_Subset, LimiterAssumption DEF LimiterAssumption
<1>4. f \in [S -> 1 .. (k - 1)]
  OBVIOUS
<1>5. \A p \in 1 .. (k - 1) : \E o \in S : f[o] = p
  <2> SUFFICES ASSUME NEW p \in 1 .. (k - 1) PROVE \E o \in S : f[o] = p
    OBVIOUS
  <2>1. PICK o \in Calls : Home(o) = Home(c) /\ call[o].count = p
    BY <1>1 DEF PlacesTaken
  <2> QED
    BY <2>1
<1>6. IsFiniteSet(1 .. (k - 1)) /\ Cardinality(1 .. (k - 1)) >= Limit
  <2> HIDE DEF k
  <2>1. IsFiniteSet(1 .. (k - 1)) /\ Cardinality(1 .. (k - 1)) = IF 1 > k - 1 THEN 0 ELSE k - 1 - 1 + 1
    BY <1>1, FS_Interval
  <2> QED
    BY <1>1, <1>2, <2>1
<1> HIDE DEF f
<1>7. f \in Surjection(S, 1 .. (k - 1))
  BY <1>4, <1>5 DEF Surjection
<1> HIDE DEF S
<1>8. Cardinality(1 .. (k - 1)) <= Cardinality(S)
  BY <1>3, <1>7, FS_Surjection
<1>9. Cardinality(S) \in Nat /\ Cardinality(1 .. (k - 1)) \in Nat
  BY <1>3, <1>6, FS_CardinalityType
<1> QED
  BY <1>2, <1>6, <1>8, <1>9 DEF S

LEMMA RemainingIsTrue == LimiterInv => RemainingIsHonest
<1> SUFFICES ASSUME LimiterInv, NEW c \in Calls, call[c].pc = "done", call[c].allowed, Punctual(c)
             PROVE  LET later == {o \in Calls : Home(o) = Home(c) /\ call[o].count > call[c].count}
                    IN  /\ Cardinality({o \in later : o \in Admitted(Home(c)) /\ Punctual(o)})
                              <= call[c].remaining
                        /\ (\E o \in later : call[o].pc = "done" /\ ~call[o].allowed)
                              => Cardinality(later) > call[c].remaining
  BY DEF RemainingIsHonest, Home
<1> DEFINE w == Home(c)
           n == call[c].count
           left == call[c].remaining
           later == {o \in Calls : Home(o) = w /\ call[o].count > n}
           S == {o \in later : o \in Admitted(w) /\ Punctual(o)}
<1>1. n \in 1 .. Limit /\ Limit \in Nat /\ left = Limit - n /\ left \in Nat
  <2>1. n \in 1 .. Limit /\ Limit \in Nat
    BY AdmittedPlace, LimiterAssumption DEF LimiterAssumption
  <2>2. call[c].remaining = IF call[c].count <= Limit THEN Limit - call[c].count ELSE 0
    BY DEF LimiterInv, CallFits
  <2> QED
    BY <2>1, <2>2
<1>2. Cardinality(S) <= left
  <2> DEFINE f == [o \in S |-> call[o].count - n]
  <2>1. \A o \in S : /\ o \in Calls /\ call[o].pc = "done" /\ call[o].allowed /\ Punctual(o)
                     /\ Home(o) = w /\ call[o].count > n
    BY DEF Admitted
  <2>2. \A o \in S : call[o].count \in 1 .. Limit /\ call[o].life = 0
    BY <2>1, AdmittedPlace, PunctualIsFirst
  <2> HIDE DEF n, left, w
  <2>3. \A o \in S : call[o].count - n \in 1 .. left
    BY <1>1, <2>1, <2>2
  <2> HIDE DEF S
  <2>4. f \in [S -> 1 .. left]
    BY <2>3
  <2>5. ASSUME NEW x \in S, NEW y \in S, f[x] = f[y] PROVE x = y
    <3>1. call[x].count = call[y].count
      BY <1>1, <2>2, <2>5
    <3>2. PlacesDiffer(x, y)
      BY <2>1 DEF LimiterInv
    <3> QED
      BY <2>1, <2>2, <3>1, <3>2 DEF PlacesDiffer
  <2> HIDE DEF f
  <2> QED
    BY <1>1, <2>4, <2>5, Numbered
<1>3. ASSUME NEW o \in later, call[o].pc = "done", ~call[o].allowed
      PROVE  Cardinality(later) > left
  <2> DEFINE k == call[o].count
             T == n + 1 .. k
             L == {x \in later : call[x].count \in T}
             f == [x \in L |-> call[x].count]
  <2>1. CallFits(o) /\ PlacesTaken(o) /\ k \in Nat /\ Home(o) = w /\ k > n
    BY DEF LimiterInv, LimiterTypeOK, CallRecord
  <2>2. k > Limit
    <3>1. call[o].allowed = (k <= Limit)
      BY <1>3, <2>1 DEF CallFits
    <3>2. ~(k <= Limit)
      BY <1>3, <3>1, Zenon
    <3> QED
      BY <1>1, <2>1, <3>2
  <2>3. IsFiniteSet(later) /\ IsFiniteSet(L) /\ Cardinality(L) <= Cardinality(later)
    BY FS_Subset, LimiterAssumption DEF LimiterAssumption
  <2>4. ASSUME NEW p \in T PROVE \E x \in L : call[x].count = p
    <3>1. CASE p = k
      BY <3>1
    <3>2. CASE p # k
      <4>1. p \in 1 .. (k - 1) /\ p > n
        BY <1>1, <2>1, <3>2
      <4>2. PICK x \in Calls : Home(x) = Home(o) /\ call[x].count = p
        BY <2>1, <4>1 DEF PlacesTaken
      <4> QED
        BY <2>1, <4>1, <4>2
    <3> QED
      BY <3>1, <3>2
  <2>5. f \in [L -> T] /\ \A p \in T : \E x \in L : f[x] = p
    BY <2>4
  <2> HIDE DEF f, L, later
  <2>6. f \in Surjection(L, T)
    BY <2>5 DEF Surjection
  <2>7. Cardinality(T) <= Cardinality(L)
    BY <2>3, <2>6, FS_Surjection
  <2>8. Cardinality(T) = k - n
    <3> HIDE DEF k, n
    <3>1. Cardinality(T) = IF n + 1 > k THEN 0 ELSE k - (n + 1) + 1
      BY <1>1, <2>1, FS_Interval
    <3> QED
      BY <1>1, <2>1, <3>1
  <2>9. Cardinality(L) \in Nat /\ Cardinality(later) \in Nat
    BY <2>3, FS_CardinalityType
  <2> HIDE DEF k, n, left, T
  <2> QED
    BY <1>1, <2>1, <2>2, <2>3, <2>7, <2>8, <2>9
<1> QED
  BY <1>2, <1>3

\* Clock, counters and calls keep their types; remaining is never negative.
THEOREM LimiterTypesHold == LimiterSpec => []LimiterTypeOK
<1>1. LimiterInv => LimiterTypeOK
  BY DEF LimiterInv
<1> QED
  BY <1>1, LimiterInvHolds, PTL

\* For any limit, window, number of calls and delays, no window admits more than
\* Limit of the calls that count while it lasts.
THEOREM NoWindowExceedsItsLimit == LimiterSpec => []AtMostLimitPerWindow
BY LimitPerWindow, LimiterInvHolds, PTL

\* Delays of up to a window at most double that.
THEOREM HeldUpCallsDoubleAtMost == LimiterSpec => []HeldUpCallsAtMostDouble
BY HeldUpDouble, LimiterInvHolds, PTL

\* A call is turned away only when Limit others have counted before it.
THEOREM NobodyIsRejectedEarly == LimiterSpec => []RejectedOnlyWhenFull
BY RejectedWhenFull, LimiterInvHolds, PTL

\* X-RateLimit-Remaining is the number of calls that will still be admitted.
THEOREM RemainingIsKept == LimiterSpec => []RemainingIsHonest
BY RemainingIsTrue, LimiterInvHolds, PTL

\* A counter without a time to live is about to get one, unless the call that
\* should set it failed.
THEOREM CountersExpire == LimiterSpec => []EveryCounterExpires
<1>1. LimiterInv => EveryCounterExpires
  BY DEF LimiterInv
<1> QED
  BY <1>1, LimiterInvHolds, PTL
=============================================================================
