------------------------------ MODULE Requests ------------------------------
(***************************************************************************)
(* The requests the services are working on.  userver runs each call of    *)
(* HandleRequestThrow in a coroutine of its own: between two awaits (a     *)
(* statement, a Redis command) any other request, of this or of another    *)
(* replica of the service, may run.  A request here is one such call: the  *)
(* authenticated user, the ride of the path, the await it stands before    *)
(* (pc) and the local variables the handler carries over an await.         *)
(***************************************************************************)
EXTENDS Database, RedisCache

CONSTANTS
    Requests,   \* slots for concurrent requests (bound: requests at a time)
    Traffic     \* the operations clients ask for (bound: the kinds of requests)

Ops == {"register", "create", "list", "accept", "complete", "history"}

ASSUME RequestsAssumption ==
    /\ NoList \notin Views
    /\ Traffic \subseteq Ops

VARIABLE req

\* The awaits of the handlers, named for what they wait for.
Pcs == {"idle", "admit", "driver", "ride", "cache", "query", "exec", "store", "del", "reply", "done"}

Codes == {0, 200, 201, 400, 403, 409, 429, 500}

Request == [op     : Ops \cup {"none"},
            user   : Users \cup {NoId},
            ride   : RideIds \cup {NoId},
            pc     : Pcs,
            driver : DriverIds \cup {NoId},     \* *driver->id
            seen   : Views \cup {NoList},       \* rides, the body of the answer
            code   : Codes]                     \* HTTP status, 0 before the answer

Idle == [op |-> "none", user |-> NoId, ride |-> NoId, pc |-> "idle",
         driver |-> NoId, seen |-> NoList, code |-> 0]

RequestsInit == req = [r \in Requests |-> Idle]

At(r, op, pc) == req[r].op = op /\ req[r].pc = pc

\* A request gets through nginx and JwtAuthChecker, and its path parses: one that
\* does not is answered before any await.
Arrive(r, op, u, i, pc) ==
    /\ op \in Traffic
    /\ req[r] = Idle
    /\ req' = [req EXCEPT ![r] = [Idle EXCEPT !.op = op, !.user = u, !.ride = i, !.pc = pc]]

Goto(r, pc) == req' = [req EXCEPT ![r].pc = pc]

\* Going on with the driver found,
GotoAs(r, pc, driver) == req' = [req EXCEPT ![r] = [@ EXCEPT !.pc = pc, !.driver = driver]]

\* or with the list read.
GotoWith(r, pc, list) == req' = [req EXCEPT ![r] = [@ EXCEPT !.pc = pc, !.seen = list]]

Answer(r, code) == req' = [req EXCEPT ![r] = [@ EXCEPT !.pc = "done", !.code = code]]

AnswerWith(r, code, body) ==
    req' = [req EXCEPT ![r] = [@ EXCEPT !.pc = "done", !.code = code, !.seen = body]]

\* The answer that names the ride made.
AnswerRide(r, code, i) ==
    req' = [req EXCEPT ![r] = [@ EXCEPT !.pc = "done", !.code = code, !.ride = i]]

\* An uncaught exception (userver answers 500) or the death of the process
\* (nginx answers for it; a container that restarts has no memory of its
\* requests, so a crash is this step for each of them).
Fail(r) ==
    /\ Faulty
    /\ req[r].pc \notin {"idle", "done"}
    /\ Answer(r, 500)
    /\ UNCHANGED <<db, past, cache>>

\* The client is done with the answer; the slot is free for another request,
\* of the same client trying again or of another one.
Forget(r) ==
    /\ req[r].pc = "done"
    /\ req' = [req EXCEPT ![r] = Idle]
    /\ UNCHANGED <<db, past, cache>>
=============================================================================
