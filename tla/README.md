# Taxi services: a TLA+ model

This directory specifies the backend of `src/services`: a user service on
MongoDB, a driver service and a ride service on one PostgreSQL, Redis as a cache
and as a rate limiter, all of them C++ programs on the userver framework behind
nginx. The modules are model-checked with TLC on small instances; the main
results are also proved with TLAPS for every value of the constants.

## The system

### Components, their state and their operations

| Component | Source | State | Operations |
|---|---|---|---|
| Class `Database` and the tables | `common/database.cpp`, `schema.sql` | rows of `drivers` and `rides`, on a master and perhaps on lagging slaves | `RegisterDriver`, `CreateRide`, `AcceptRide`, `CompleteRide` (master, one statement each); `GetDriverByUserId`, `GetRideById`, `ListActiveRides`, `GetUserRideHistory` (`kSlave`) |
| Class `RedisCache` | `common/redis_cache.cpp` | keys with a TTL: `rides:active` (10 s), `user:login:<login>` (300 s) | `Get`, `Set` (SETEX), `Del`; each swallows its failures |
| Class `RateLimiter` | `common/rate_limiter.cpp` | one Redis counter per limiter key and window | `Check`: clock, INCR, EXPIRE after the first INCR; lets requests pass when Redis fails |
| Ride service | `ride/handlers.cpp` | none beyond its stores | create, list active, accept, complete, history |
| Driver service | `driver/handlers.cpp` | none beyond its store | register |
| User service | `user/handlers.cpp` | none beyond its stores | create, find by login, search by name, log in |
| Class `MongoDatabase` and `users` | `common/mongo_database.cpp`, `mongo-init/02-data.js` | the documents; unique `_id`, login, email | `CreateUser`, `FindUserByLogin`, `SearchUsersByNameMask`, `AuthenticateUser` |
| JWT authentication | `auth/*.cpp`, `LoginHandler::GenerateToken` | none: tokens carry it | issue, `CheckAuth` |
| nginx | `nginx.conf` | none | routing by path |

### How they interact

A request passes nginx and, in the driver and ride services, `JwtChecker`, which
puts the `user_id` claim of the token into the request context. userver runs each
`HandleRequestThrow` in a coroutine of its own. A handler gives way at every
statement it sends to a store, so between two of them any other handler, of the
same process, of another replica or of another service, may run. No handler has
a transaction of several statements, a lock or a variable shared with others: all
coordination is in the stores. In particular

- the ride handlers share the two tables and the key `rides:active`; accept and
  complete delete the key after their update and before they answer; create does
  not; a list that misses the cache reads the table and stores what it read;
- the driver service shares `drivers` with accept and complete, which look the
  caller up by user id;
- the `_id` of a user, taken from the clock by the user service, goes into the
  token and from there into `drivers.user_id` and `rides.passenger_id`.

### What is hard about it

`PROJECT.json` lists the hazards with the line where each bites. They are races
of several accepts (only the `WHERE ... AND status = 'pending'` decides), checks
on a lagging slave before an update of the master, lists stored after the DEL
that should have removed them, a DEL that fails unseen or never happens because
the process died, answers lost after the commit and the client's retry, INCR and
EXPIRE as two commands after a clock that was read before, window borders, ids
from a clock that become keys in another database, and tokens that carry such an
id from one service to the others, with dates cut to whole seconds.

### What makes each component correct

- Rides and drivers: a ride is accepted by one driver and completed by that
  driver only; whoever is told of a success keeps it; the rows fit each other
  whatever died half-way.
- The cached list: it may be old, never wrong; completed rides leave it.
- The list a client is shown: no older than the TTL and the time a list waits to
  be stored, whatever was created, accepted or completed and whoever died.
- The limiter: at most the limit per window for calls that count in time, twice
  that with calls that are held up, nobody turned away while there is room,
  counters that go away; and no more rides of a passenger than that lets pass.
- Users: a token opens the account whose login and password were given and no
  other; confirmed accounts are found and listed; profiles in the cache are true.
- All services: a handler acts only for somebody who logged in no longer ago than
  a token lives, and every row they add to PostgreSQL belongs to a user in MongoDB.

## The modules

```
Faults <- RedisCache
Faults <- RateLimiter
Faults <- UserService
Database, RedisCache       <- Requests <- DriverService
                              Requests <- RideService
DriverService, RideService <- Backend            implements RideLifecycle
Backend                    <- RideClients        what answers tell
Backend                    <- ListAge            time
Backend, RateLimiter       <- Throttle           implements RideLifecycle
Backend, UserService       <- Taxi               implements RideLifecycle
UserService                <- UserClients        what answers tell
```

An arrow is `EXTENDS`; each instance for TLC extends the module it is named for. The
proofs are in modules of their own, which extend the module they are about, one
another, and `TLAPS`:

```
BackendProofs <- BackendSafety                        Backend, RideLifecycle
                 BackendSafety <- ListAgeProofs       ListAge
UserProofs                                            UserService
BackendSafety, UserProofs <- ClientProofs             RideClients, UserClients
BackendSafety, UserProofs <- TaxiProofs               Taxi
LimiterProofs                                         RateLimiter
BackendSafety, LimiterProofs <- ThrottleProofs        Throttle
```

| Module | Models | Correspondence |
|---|---|---|
| `Database` | the tables and every statement the handlers send | `db` is what the master has committed, `past` the earlier states a slave may still show. A statement on the master is one `Commit`; a query is an operator on a state, which the handler takes from `Visible`. `drivers[u]` is the id of the row with `user_id = u`: the unique constraint lets there be one. `RegisterDriver` has no effect when there is a row (the INSERT throws). |
| `RedisCache` | the key `rides:active` | `Get`, `Set`, `Del` and `Expire` (TTL, eviction, a restart of Redis). A failed command looks to the caller as in the code; whether Redis ran it is open. |
| `Requests` | calls of `HandleRequestThrow` | `req[r]` is a request: its user and ride, the await it stands before (`pc`), the locals it carries over an await, its answer. `Fail` is an uncaught exception or the death of the process, `Forget` the end of a request; the slot then serves the next one, a retry included. |
| `DriverService`, `RideService` | the handlers | one operator per await: `AcceptDriver`, `AcceptExec`, `AcceptDel`, and so on. `AcceptDel` is Redis running the DEL and `AcceptReply` the handler going on from it: a SETEX may come between. The checks before the first await (limiter, fields, JSON) are in the `Admit` operators. |
| `Backend` | both services together | `Next`, the fairness, the properties and the inductive invariant `Inv` |
| `RideLifecycle` | what the services promise, without requests, cache or slaves | the abstract specification: `Register`, `RequestRide`, `Assign`, `Finish` |
| `RideClients` | `Backend` and what answers told its clients | history variables set by `Observe` along with every step: `told` and `granted`, what answers have said; `began`, what they had said when a request arrived; `overtaken`, the requests that have read a list and were overtaken by a DEL; `late`, that the entry is of one of them |
| `ListAge` | `Backend` with time | `left`, `waited` and `age` are timers: what SETEX left to the key, how long a list has waited to be stored, how long a row has stood. `AgedStep` is any step of `Backend`, which takes no time; `Tick` is a tick of all timers, and a key whose time is up is gone before it. |
| `RateLimiter` | `RateLimiter::Check` for one limiter key | a call reads the clock (`ReadClock`), counts (`Incr`), sets the time to live (`DoExpire`); a command that never reaches Redis (`Unreachable`) or whose answer is lost (a branch of `Incr` and of `DoExpire`) leads to the catch block; `Dies` is the end of the process; `Remove` is Redis, `Tick` the clock |
| `Throttle` | `Backend` and `RateLimiter` together: `CreateRideHandler` behind the limiter key of one passenger | `check[r]` is the call of `Check` a request is in or has made, `madeBy[i]` (history) the call that let ride `i` be made. `RequestBegins` starts both request and call; `Checks` is a step of the call, and its last one the step of the handler that obeys the verdict (`Obeys`); `Handles` is any other step of a handler, `RequestFails` takes a call that is under way with it (`Dies`) |
| `UserService` | the four handlers of the user service, the collection, the cached profiles | as `Requests` and `RideService`, in one module: `call[c]` is a request. `Insert`, `FindCache`, `FindQuery`, `FindStore`, `SearchQuery`, `LoginAdmit`, `LoginQuery` are the awaits. |
| `UserClients` | `UserService` and what answers confirmed | history variables `confirmed`, `since` |
| `Taxi` | the three services together, with tokens | `GenerateToken` and `CheckAuth` as operators; `UserStep` is a step of the user service, whose successful logins put a token into `given`; `SelfMade` are ids for which others sign tokens, as `make_jwt_token` of the tests does (`MakeJwtToken`); `Enter` is a request with a header that `CheckAuth` accepts, which reaches its handler with the `user_id` of the token; `ServiceStep` is any other step of the driver and ride services |
| `Faults` | which faults there are | the constants `RedisMayFail` and `Faulty`, the same for all services |
| `MC*` | instances for TLC | symmetry sets, the seeded user and rows; `MCDatabase` has the empty tables (`NoRows`) |
| `BackendProofs`, `BackendSafety`, `ListAgeProofs`, `UserProofs`, `ClientProofs`, `TaxiProofs`, `LimiterProofs`, `ThrottleProofs` | proofs | see below |

What the modules leave out: addresses, costs, plates and timestamps (nothing
branches on them), `drivers.status` (never read or written after the INSERT), the
status `cancelled` (allowed by `schema.sql`, written by nothing), the text of
JSON bodies. Names of users are reduced to which logins a search mask matches,
and a password hash to the password.

What stores hold at the start: `docker-compose.yaml` has PostgreSQL load
`data.sql`, and its rows are the constant `Seed` of `Database`, of which only is
assumed that they fit each other (`DatabaseAssumption`). The theorems hold for
every such `Seed`. The runs start with empty tables, from which requests reach any
rows of the users there are, but for `taxi`: the users of `data.sql` (ids 1 to 12)
are none of MongoDB, and no sequence of requests makes rows of such users, so its
`Seed` has a driver and a ride of them. The users of `02-data.js` are in the
initial state, with an `_id` that is no int64.

In `Backend` the verdict of the limiter is a free choice between going on and
429. `Throttle` restricts it, for the creates of one passenger, to what
`RateLimiter` answers; keys of other passengers, of other operations and of
addresses share nothing with that one, and their verdicts stay free. A request of a ride or
driver handler arrives with any user id; `Taxi` restricts that to ids of tokens
that `CheckAuth` accepts. The text of a token is left out: `kind` says whether its
signature and its issuer are those of the services. A request that is answered
401 or 403 before its handler changes nothing, so it is no step of `Taxi`.

## The runs

| Run | Instance | What it shows |
|---|---|---|
| `backend` | 2 users, 2 driver ids, 1 ride, 2 requests of every kind but histories; slaves lag, Redis fails, handlers die | `RowsFit`, `AcceptedRideIsTheirs`, `OneSucceeds`, `TypeOK`. `CompleterIsTheDriver`: the check on a slave before `CompleteRide` is sound. `ListsOnlyLagBehind`: what is listed was once so. `LifecycleSpec`: the services implement `RideLifecycle` |
| `fair` | 1 user, 1 ride, 2 requests of every kind; all faults, slaves | `CompletedLeavesTheCache` under `FairSpec` |
| `clients` | 2 users, 2 driver ids, 1 ride, 2 requests; no faults | `OnlyLateEntriesMislead`: what DEL between update and answer is worth. A list shows every accept and complete answered before it was asked for, unless it was found in Redis and stored there by a request that had read it before a DEL. `HistoryKeepsUp`. `GrantedIsNotForbidden`: no 403 takes back a 201 or a 200 |
| `list_age` | 1 user, 1 ride, 2 requests; TTL of 2 ticks, 1 tick between reading a list and storing it; Redis fails, handlers die | `UnchangedIsShown`: an answered list is older than the TTL and that tick in no ride |
| `throttle` | one passenger who asks for rides 3 times, 2 requests at a time, 3 rides; limit 1, windows of 2 ticks, 1 tick between clock and INCR; all faults, slaves | of the calls of `Check`: `AtMostLimitPerWindow`, `HeldUpCallsAtMostDouble`, `RejectedOnlyWhenFull`, `RemainingIsHonest`, `EveryCounterExpires`, `LimiterTypeOK`. Of the rides they let pass: `RidesPerWindow`, no more from the requests of a window than the limit and one for each call that passed without one of its places, since Redis failed it or it came too late; `RidesInBudget`, no more rows than the windows so far allow, but for one for each call that failed or came too late |
| `users` | 3 logins and emails, one of them seeded, 2 passwords, 2 search masks (all, all but the seeded), 2 requests, 2 ticks; all faults | `LoginOpensOwnAccount`, `ProfilesAreTrue`, `ConfirmedIsFound`, `ConfirmedOnce`, `UsersTypeOK`. `ConfirmedAreListed`: one unreadable document fails a search and never shortens its list |
| `taxi` | 4 instants of the clock, 2 ticks to a second, a lifetime of 2 ticks, 2 logins and emails, 1 request to each side, that to the ride service for a ride; a driver and a ride of `data.sql`, tokens others make for that driver; no faults | `RowsHaveOwners`: the services add rides for users in MongoDB, or for those others sign tokens for, and for nobody else, `ActsForWhoLoggedIn`, `FreshTokensWork` |
| `created_not_listed`, `accepted_shown_pending`, `second_registration`, `limiter_sliding`, `users_conflict` | the smallest that show it | the findings below |

### Why the bounds are enough

Handlers meet only in the stores, and a conflict is one between a request and the
row or the key it uses, so two requests on one ride show every pair of awaits in
every order, and slots are used again, so that sequences of requests of any
length occur: a third request between two others is one of them that has begun
and ended. One ride is enough where a property speaks of one row. Two users are a
passenger and a driver, or two drivers; where there is one, who is both, no
definition tells them apart. `RoomForRide` keeps creates from arriving when no
ride id is left. Every such bound is a constant of its module or named there:
`Traffic` and `UserTraffic` are the operations clients ask for, all that matter to
the properties of the run; `Masks` are the sets of users that search masks match,
one with a document that cannot be read and one without. What the runs show for
safety on these instances, the theorems show for all.

`throttle`: three calls are one more than twice the limit; three instants have a
window and the start of the next. Requests take the calls in one order, since
calls are alike. `MaxStall` is how long a call may be held up between reading the
clock and INCR. The code sets no such bound but the timeout of the Redis driver;
the theorems hold for every value, and for every limit. The key of a window lives
at least until the window is over, so a call that counts in the window it has
read counts with all the others; one that comes later may find the key removed
and start anew, which `HeldUpCallsAtMostDouble` bounds for delays up to a window.
Calls do not start over and the clock stops, so these runs may stop
(`CHECK_DEADLOCK FALSE`).

`list_age`: `MaxStall` is how long a list may wait between being read and being
stored, and the property says what it costs. `MaxAge`, where the timer of a row
stops, is larger than the sum the property compares it with. A step of the
services takes no time and any number may come between two ticks, so every
request may be arbitrarily fast, or slow but for that wait.

`taxi`: four instants let a token expire while an account made later is used,
with issue in the middle of a second. Of the two users of `data.sql` one has tokens
of others and one has none, so that nothing may be done for that one. Rides are
what is asked for; that drivers have owners too, with any mix of requests and with
all faults, is what the theorems of `TaxiProofs` show.

### Fairness

`Fairness` in `Backend` is weak fairness of each handler's step (userver resumes
every coroutine whose statement was answered), of key expiry (every SETEX carries
a TTL) and of replication. Nothing is assumed of clients: no request need ever
arrive, and those that do may repeat for ever. `Fail` is not fair either.

### Mutants

Every property of a passing run is broken by a mutant: an operator such as
`AcceptNoDel` or `InsertUnacknowledged` beside the one it replaces, which changes
it as a slip of the programmer would.

## The proofs

`TypeCorrect` (`BackendProofs`) proves `TypeOK` of `Spec`. `BackendSafety` proves
the inductive invariant `Inv` of `Backend`, and from it the safety properties of
the run `backend`. `RowsFit` and the others are not inductive: a step acts on
what its handler read earlier, so `Inv` adds what such a memory is worth.

- `NamesFit`: a request that names a user or a ride names one there is.
- `PastIsEarlier`: every state a slave may show is an earlier form of the
  master's. Rows move only along absent, pending, accepted, completed, and what a
  step of that path leaves alone (`Behind`) it leaves alone in every store.
- `DriverIsTheirs`: a driver id a handler holds, read perhaps from an old state,
  is the present one of its user. It follows from `PastIsEarlier`: a driver id,
  once there, never changes.
- `RidesHeld`: from the moment the check of complete has passed, or the update of
  accept has matched, the ride is in the hands of the caller, and no step of
  another request takes it away.
- `OneSucceeds` and `ListsOnlyLagBehind`, which carry themselves given the rest.

Each step of `Next` has its lemma. Most of them move one request and leave the
rows alone, or move one row along its path; the lemmas on bystanders say once
what all other requests keep.

`ImplementsLifecycle` (`BackendSafety`) proves `Spec => LifecycleSpec`: the
initial tables are the initial tables of `RideLifecycle`, the four statements map
to its four actions and every other step to a stutter. `AcceptExec` is `Assign`
of the caller, because the id it writes is theirs (`DriverIsTheirs`), and
`CompleteExec` is `Finish` of the caller, though its statement names no driver
(`RidesHeld`).

`UserProofs` proves `UserInv` inductive: types; `Distinct`, what the unique
indexes keep apart; `CallFits`, what a request relies on between its steps (the
document of a token, the users it read are in the collection); `CachedFits`, the
same of the cached profiles. Documents are never removed, so each of these can
only grow. From it follow `UsersTypeOK`, `LoginOpensOwnAccount` and
`ProfilesAreTrue`.

`ListAgeProofs` proves `AgedInv`: the cached list, and each list a request is
about to store, shows every ride as its row is unless the row has changed since
the list was read, and that is no longer ago than the timers say. So a row older
than TTL and wait is shown as it is. One PostgreSQL is assumed (`~HasSlaves`): how
far a slave may lag, nothing says.

`ClientProofs` proves what is promised to clients. `ClientInv` ties each history
variable to the tables: what was told is no further than the row (`ToldFits`),
what was granted is in the rows (`GrantedFits`), and an answer in a slot has been
true of the rows (`MadeFits`). Rows never move back, so each can be carried on;
`Sources` says which step of which handler an answer can come from.
`HistoriesKeepUp` and `GrantsAreKept` assume
that there are no slaves. `UserClientInv` does the same for accounts.
`OnlyLateEntriesAreBehind` assumes that and a Redis that works, and of requests
nothing: they may fail and die anywhere (in the run `clients` they do not, which
keeps it small). Its invariant `ListInv` says of each list that no DEL has overtaken,
in Redis or on its way there, that it shows what was told and what requests past
their DEL are about to tell (`UpToDate`). A DEL leaves no such list; between two
of them nothing new becomes due; and a list just read shows all, as the update
comes before the DEL. A request that stores a list shows its own client what it
had read itself, after it arrived.

`TaxiProofs` joins both sides. A token in `given` was made from the document whose
login and password were given (`LoginOpensOwnAccount`), documents stay, so its
`user_id` is a user's for good; a request acts for the `user_id` of a token that
was accepted, and a row is written for the user of its request; rows of `Seed` and tokens
of `MakeJwtToken` are excepted by name, `Seed` and `SelfMade` being any sets. Dates come from
`NumericDate(t) <= t < NumericDate(t) + Second`. Each step of `Taxi` is a step of
`Backend` and of `UserService` (`TaxiComponents`), so their theorems, and the life
cycle of rides, hold of the three services together. (`AgedBackend` says the same
of `ListAge`.)

`LimiterProofs` proves `LimiterInv`: the calls that have counted in one life of a
key have the places 1 to the value of its counter, each one place
(`PlacesDiffer`, `PlacesTaken`), and a key is removed only when its window is over
(`KeyFits`). So at most `Limit` calls of one life are admitted, and a window has
one life as far as punctual calls are concerned, and two at most when calls are
held up no longer than a window: the counts of a set of calls with different
places are an injection into `1 .. Limit`. `RemainingIsKept` uses both halves: the
places after that of a call are different, so at most `remaining` calls get one
within the limit, and they are all taken before a call is turned away.

`ThrottleProofs` joins the handlers and the limiter. Each step of `Throttle` is a
step of `Backend` (`ThrottledBackend`), as the limiter only takes choices away,
and one of `RateLimiter` (`ThrottledCalls`), which needs an invariant: a request
that fails in `Check` must be in a call. `Links` says so: a request of the
passenger has a call of its own, which is over once the request has left `Check`
and has let it pass once it is at the INSERT (`CheckFits`): it was admitted, or it
failed and `FailOpen` let it pass; a row of the passenger
was made by a call that passed, whose request is answered (`RideFits`); no two
requests have one call, and no two rows (`ChecksDiffer`, `MadeOnce`). So rows are an
injection into calls, and the limiter's bound on calls is a bound on rows:
`RidesPerWindowLimited` for one window, whose calls have different places unless
they are `Unplaced`, `RidesStayInBudget` for all windows so far,
whose places are numbered one window after the other (`PlacedInBudget`).

The assumptions are the named `ASSUME`s of the modules (the null values are no
ids, the flags are Booleans, the rows of `data.sql` fit each other, the seeded users differ in login and email, a window
has a length, a TTL is positive), and the flags named in the theorems above.

Only model-checked: `CompletedLeavesTheCache`, which is liveness and out of the
prover's reach. All other properties of passing runs are theorems.

## Findings

Each is a run that TLC ends with a counterexample.

1. `created_not_listed`: create does not delete `rides:active`, so a list asked
   for after 201 can lack the ride for ten seconds; `tests/test_ride_service.py`
   asserts that it is there.
2. `accepted_shown_pending`: a list read before an accept and stored after its
   DEL shows the ride as pending to requests that come after the accept was
   answered, until the TTL ends; `performance_design.md` promises explicit
   invalidation at every change of status.
3. `second_registration`: the 409 of `RegisterDriverHandler` is never sent; the
   unique constraint makes the INSERT throw, and the answer is 500.
4. `limiter_sliding`: header and design document speak of a sliding window; the
   windows are fixed, and twice the limit passes across a border.
5. `users_conflict`: the id of a user is the clock in microseconds; of two users
   created in the same one the second is told "User already exists".

Met on the way and visible in the model, without a run of their own: a counter
whose first caller fails between INCR and EXPIRE never expires
(`EveryCounterExpires` excepts it); a call that is held up between clock and INCR
until its window's key has expired starts that count again
(`HeldUpCallsAtMostDouble`); a search, find or login that meets a seeded
user is answered 500, since its `_id` is an ObjectId; users are found at
`/api/v1/users?login=` (`static_config_user.yaml`), not at `/users/by-login` as
`handlers.hpp` and the design document have it; and no handler of the user service
asks for a token (`static_config_user.yaml`), though `openapi.yaml` has BearerAuth
for reading users.

## Not modelled

- nginx: it keeps nothing and passes every path, with its Authorization header, to
  one service.
- Clocks of several hosts: `Taxi` and `RateLimiter` have one clock. A service whose
  clock is behind that of the user service would refuse a new token, whose iat
  lies in its future.
- The three times the clock is read in one login, for iat, exp and the expires_at
  of the answer: they are one instant of the model.
- A restart of Redis that loses the counters of the limiter. (For cached keys a
  loss looks like an expiry, which is modelled.)
- A retry of POST /rides after a lost answer: the slot sends it like any other
  request, and nothing in the code tells it from a new ride.
- The cost of a ride, `rand()` and its configuration.
- The MongoDB collections `drivers` and `rides`, their validators and example
  queries: no service uses them. (`01-validation.js` calls `collMod` before the
  collections exist, and `02-data.js` drops them, so no validator is in force.)
- Indexes but the unique ones, `queries.sql`, `optimization.md`: they change no
  result.
- Deployment, build, API description, tests: no run-time state; they settle which
  constants and actions there are, and are quoted where the code disagrees.
- Kafka, notifications, payments, maps: in the architecture description only.
- Retries inside the userver Redis and MongoDB drivers; several limiter keys
  (they share nothing).

## The plan, and what is left of it

Done, in this order: the tables, the cache and the handlers of rides and drivers
with their life cycle; the limiter; the user service; the clients; the age of
lists; tokens and the composition of the three services; the handlers behind
their limiter; the theorems.

Left: the age of lists read from slaves whose lag is bounded; the liveness of the
cache under a bound on how long handlers run, which needs no fairness; and an
abstract specification of accounts for the user service to implement.
