----------------------------- MODULE TaxiProofs ------------------------------
(***************************************************************************)
(* What holds between the services, for any numbers of users, requests,    *)
(* rides and clock ticks, with all faults and with lagging slaves.  The    *)
(* inductive invariants of both sides carry over; what is added says of    *)
(* every token which account it was given for, and when.                   *)
(***************************************************************************)
EXTENDS Taxi, BackendSafety, UserProofs

\* A token has the id of the account whose login and password were given, and
\* the dates of that login.
TokenFits(g) ==
    /\ g.at \in Nat /\ g.at <= now
    /\ g.token.kind = "ours"
    /\ g.token.iat = NumericDate(g.at) /\ g.token.exp = NumericDate(g.at + Lifetime)
    /\ \E d \in users : d.id = g.token.user /\ d.login = g.login /\ d.password = g.password

TaxiInv ==
    /\ UserInv /\ Typed
    /\ RowsHaveOwners
    /\ \A g \in given : TokenFits(g)

-----------------------------------------------------------------------------
(***************************************************************************)
(* Tokens.                                                                 *)
(***************************************************************************)

\* NumericDate goes back by less than a second.
LEMMA NumericDateBounds ==
    ASSUME NEW t \in Nat
    PROVE  /\ NumericDate(t) \in Nat
           /\ NumericDate(t) <= t /\ t < NumericDate(t) + Second
BY TaxiAssumption DEF NumericDate

\* CheckAuth accepts tokens of LoginHandler, and not after they expired, and what
\* others sign as it does.
LEMMA AcceptedToken ==
    ASSUME TaxiInv, NEW header \in Headers, CheckAuth(header) = "Ok"
    PROVE  /\ Verified(header)
           /\ header.user \in SelfMade \/ \E g \in given : header = g.token
<1>0. header.kind \in {"missing", "other scheme", "no JWT", "other secret", "other issuer", "ours"}
  BY DEF Headers, Foreign, MakeJwtToken, TaxiInv, TokenFits
<1>1. header.kind \in {"ours", "other issuer"} /\ Verified(header)
  BY <1>0 DEF CheckAuth
<1>2. header.kind = "ours"
  BY <1>1 DEF Verified
<1> QED
  BY <1>1, <1>2 DEF Headers, Foreign, MakeJwtToken

\* A login that succeeds names an account and gives its password.
LEMMA LoggedIn ==
    ASSUME UserInv, NEW c \in Calls, LogsIn(c)
    PROVE  \E d \in users : /\ d.login = call[c].login /\ d.password = call[c].password
                            /\ d.id = call'[c].id
<1>1. call \in [Calls -> Call] /\ call[c] \in Call
  BY DEF UserInv, UsersTypeOK
<1>2. CASE \E code \in {401, 500} : Reply(c, code)
  <2>1. PICK code \in {401, 500} : Reply(c, code)
    BY <1>2
  <2>2. call'[c] = [call[c] EXCEPT !.pc = "done", !.code = code]
    BY <1>1, <2>1 DEF Reply
  <2>3. call'[c].code = code
    BY <1>1, <2>2 DEF Call
  <2> QED
    BY <2>1, <2>3 DEF LogsIn
<1>3. CASE \E d \in WithLogin(call[c].login) :
             ~Unreadable(d) /\ d.password = call[c].password /\ ReplyToken(c, d.id)
  <2>1. PICK d \in WithLogin(call[c].login) :
             ~Unreadable(d) /\ d.password = call[c].password /\ ReplyToken(c, d.id)
    BY <1>3
  <2>2. call'[c] = [call[c] EXCEPT !.pc = "done", !.code = 200, !.id = d.id]
    BY <1>1, <2>1 DEF ReplyToken
  <2>3. call'[c].id = d.id
    BY <1>1, <2>2 DEF Call
  <2> QED
    BY <2>1, <2>3 DEF WithLogin
<1> QED
  BY <1>2, <1>3 DEF LogsIn, LoginQuery

\* Nothing removes a user.
LEMMA UsersStay == UserNext => users \subseteq users'
BY DEF UserNext, CallArrives, CreateArrives, FindArrives, SearchArrives, LoginArrives,
       UserHandlerStep, Insert, FindCache, FindQuery, FindStore, SearchQuery, LoginAdmit,
       LoginQuery, CallFails, CallLeaves, ProfileExpires, Tick

\* No step of the user service turns the clock back.
LEMMA ClockGoesOn == UserInv /\ UserNext => now \in Nat /\ now' \in Nat /\ now <= now'
<1>1. UserInv => now \in Nat
  BY UserAssumption DEF UserInv, UsersTypeOK, Times
<1>2. UserNext => Tick \/ now' = now
  BY DEF UserNext, CallArrives, CreateArrives, FindArrives, SearchArrives, LoginArrives,
         UserHandlerStep, Insert, FindCache, FindQuery, FindStore, SearchQuery, LoginAdmit,
         LoginQuery, CallFails, CallLeaves, ProfileExpires
<1> QED
  BY <1>1, <1>2 DEF Tick

\* The tokens keep what they are worth, and so do new ones.
LEMMA TokensStep ==
    ASSUME TaxiInv, UserStep
    PROVE  \A g \in given' : TokenFits(g)'
<1>0. UserInv /\ now \in Nat /\ now' \in Nat /\ now <= now' /\ users \subseteq users'
  BY ClockGoesOn, UsersStay DEF TaxiInv, UserStep
<1> SUFFICES ASSUME NEW g \in given' PROVE TokenFits(g)'
  OBVIOUS
<1>1. CASE g \in given
  <2>1. TokenFits(g)
    BY <1>1 DEF TaxiInv
  <2>2. g.at \in Nat /\ g.at <= now'
    BY <1>0, <2>1 DEF TokenFits, UserInv, UsersTypeOK, Times
  <2>3. \E d \in users' : d.id = g.token.user /\ d.login = g.login /\ d.password = g.password
    BY <1>0, <2>1 DEF TokenFits
  <2> QED
    BY <2>1, <2>2, <2>3 DEF TokenFits, NumericDate
<1>2. CASE g \notin given
  <2>1. PICK c \in Calls :
          /\ LogsIn(c)
          /\ g = [login |-> call[c].login, password |-> call[c].password, at |-> now,
                  token |-> GenerateToken(call'[c].id)]
    BY <1>2 DEF UserStep
  <2>2. PICK d \in users : /\ d.login = call[c].login /\ d.password = call[c].password
                           /\ d.id = call'[c].id
    BY <1>0, <2>1, LoggedIn
  <2>3. /\ g.at = now /\ g.token.kind = "ours" /\ g.token.user = d.id
        /\ g.token.iat = NumericDate(now) /\ g.token.exp = NumericDate(now + Lifetime)
        /\ g.login = d.login /\ g.password = d.password
    BY <2>1, <2>2 DEF GenerateToken
  <2>4. d \in users'
    BY <1>0
  <2> QED
    BY <1>0, <2>3, <2>4 DEF TokenFits, NumericDate
<1> QED
  BY <1>1, <1>2

-----------------------------------------------------------------------------
(***************************************************************************)
(* Whom requests act for, and whose rows they write.                       *)
(***************************************************************************)

\* A request keeps its user until it is forgotten, and does nothing before it
\* arrives.
LEMMA ActsForOne ==
    ASSUME Typed, NEW r \in Requests, HandlerStep(r) \/ Fail(r) \/ Forget(r)
    PROVE  /\ req'[r].user \in {req[r].user, NoId}
           /\ req[r] = Idle => req'[r] = Idle
<1>0. req \in [Requests -> Request]
  BY DEF Typed, TypeOK
<1>1. CASE HandlerStep(r) \/ Fail(r)
  <2>1. Idle.op = "none" /\ Idle.pc = "idle"
    BY DEF Idle
  <2>2. req[r] # Idle
    BY <1>1, <2>1
    DEF HandlerStep, DriverServiceStep, RideServiceStep, RegisterAdmit, RegisterExec, CreateAdmit,
        CreateExec, ListAdmit, ListCache, ListQuery, ListStore, AcceptDriver, AcceptExec, AcceptDel,
        AcceptReply, CompleteDriver, CompleteRideCheck, CompleteExec, CompleteDel, CompleteReply,
        HistoryAdmit, HistoryQuery, Fail, At
  <2> QED
    BY <1>1, <2>2, AskedKept
<1>2. CASE Forget(r)
  <2>1. req'[r] = Idle
    BY <1>0, <1>2 DEF Forget
  <2> QED
    BY <2>1 DEF Idle
<1> QED
  BY <1>1, <1>2

\* A row that is new is of the user the request acts for.
LEMMA RowsFrom ==
    ASSUME Typed, NEW r \in Requests, Kinds(r)
    PROVE  /\ \A u \in Users : db'.drivers[u] # NoId => db.drivers[u] # NoId \/ u = req[r].user
           /\ \A i \in RideIds : db'.rides[i] # NoRide =>
                \/ db.rides[i] # NoRide /\ db'.rides[i].passenger = db.rides[i].passenger
                \/ req[r].user \in Users /\ db'.rides[i].passenger = req[r].user
<1>0. /\ DatabaseTypeOK /\ db.drivers \in [Users -> DriverIds \cup {NoId}]
      /\ db.rides \in [RideIds -> RideRow]
      /\ db = [drivers |-> db.drivers, rides |-> db.rides]
  BY Tables DEF Typed, TypeOK
<1>1. CASE Registers(r)
  <2>1. PICK d \in DriverIds : Commit([db EXCEPT !.drivers[req[r].user] = d])
    BY <1>1 DEF Registers, RegisterDriver
  <2>2. db'.drivers = [db.drivers EXCEPT ![req[r].user] = d] /\ db'.rides = db.rides
    BY <1>0, <2>1 DEF Commit
  <2> QED
    BY <1>0, <2>2
<1>2. CASE Creates(r)
  <2>1. PICK i \in RideIds :
          Commit([db EXCEPT !.rides[i] =
                    [passenger |-> req[r].user, driver |-> NoId, status |-> "pending"]])
    BY <1>2 DEF Creates, CreateRide
  <2>2. /\ db'.drivers = db.drivers
        /\ db'.rides = [db.rides EXCEPT ![i] =
                          [passenger |-> req[r].user, driver |-> NoId, status |-> "pending"]]
    BY <1>0, <2>1 DEF Commit
  <2>3. req[r].user \in Users
    BY <1>2 DEF Creates, Typed, NamesFit
  <2> QED
    BY <1>0, <2>2, <2>3
<1>3. CASE Accepts(r)
  <2> DEFINE i == req[r].ride
             row == [passenger |-> db.rides[i].passenger, driver |-> req[r].driver,
                     status |-> "accepted"]
  <2>1. Commit([db EXCEPT !.rides[i] = row]) /\ db.rides[i].status = "pending"
    BY <1>3 DEF Accepts, AcceptRide, CanAccept
  <2>2. db'.drivers = db.drivers /\ db'.rides = [db.rides EXCEPT ![i] = row]
    BY <1>0, <2>1 DEF Commit
  <2>3. db.rides[i] # NoRide
    BY <2>1 DEF NoRide
  <2> QED
    BY <1>0, <2>2, <2>3
<1>4. CASE Completes(r)
  <2> DEFINE i == req[r].ride
             row == [db.rides[i] EXCEPT !.status = "completed"]
  <2>0. i \in RideIds
    BY <1>4 DEF Completes, At, Typed, NamesFit
  <2>1. Commit([db EXCEPT !.rides[i].status = "completed"]) /\ db.rides[i].status = "accepted"
    BY <1>4 DEF Completes, CompleteRide, CanComplete
  <2>2. db'.drivers = db.drivers /\ db'.rides = [db.rides EXCEPT ![i] = row]
    BY <1>0, <2>1 DEF Commit
  <2>3. row.passenger = db.rides[i].passenger /\ db.rides[i] # NoRide
    BY <1>0, <2>0, <2>1 DEF RideRow, NoRide
  <2> QED
    BY <1>0, <2>2, <2>3
<1>5. CASE UNCHANGED db
  BY <1>5
<1>6. ASSUME ~Registers(r), ~Creates(r), ~Accepts(r), ~Completes(r)
      PROVE  UNCHANGED db
  BY <1>6 DEF Kinds, Rejects, Advances, Reads, Stores, FindsDriver, Passes, Deletes,
              Replies, Arrives, Leaves
<1> QED
  BY <1>1, <1>2, <1>3, <1>4, <1>5, <1>6

-----------------------------------------------------------------------------
(***************************************************************************)
(* The inductive invariant.                                                *)
(***************************************************************************)

\* A request arrives with a token: it acts for its account.
LEMMA EnterActsFor ==
    ASSUME TaxiInv, NEW r \in Requests, Enter(r), req'[r].user \notin SelfMade \cup {NoId}
    PROVE  \E g \in given, d \in users :
              /\ d.id = req'[r].user /\ d.login = g.login /\ d.password = g.password
              /\ g.at <= now /\ now <= g.at + Lifetime
<1>1. PICK header \in Headers : CheckAuth(header) = "Ok" /\ req'[r].user = header.user
  BY DEF Enter
<1>2. PICK g \in given : header = g.token /\ Verified(header)
  BY <1>1, AcceptedToken
<1>3. TokenFits(g) /\ now \in Nat
  BY UserAssumption DEF TaxiInv, UserInv, UsersTypeOK, Times
<1>4. PICK d \in users : d.id = g.token.user /\ d.login = g.login /\ d.password = g.password
  BY <1>3 DEF TokenFits
<1>5. g.at + Lifetime \in Nat
  BY <1>3, TaxiAssumption DEF TokenFits
<1>6. NumericDate(g.at + Lifetime) <= g.at + Lifetime /\ NumericDate(g.at + Lifetime) \in Nat
  BY <1>5, NumericDateBounds
<1>7. now <= NumericDate(g.at + Lifetime) /\ g.at <= now /\ g.at \in Nat
  BY <1>2, <1>3 DEF Verified, TokenFits
<1>8. now <= g.at + Lifetime
  BY <1>3, <1>5, <1>6, <1>7
<1> QED
  BY <1>1, <1>2, <1>4, <1>7, <1>8

\* Rows and requests have owners after every step.
LEMMA OwnersStep ==
    ASSUME TaxiInv, TaxiNext
    PROVE  RowsHaveOwners'
<1>0. Typed /\ RowsHaveOwners /\ req \in [Requests -> Request]
  BY DEF TaxiInv, Typed, TypeOK
<1>1. CASE UserStep
  <2>1. Known \subseteq Known'
    BY <1>1, UsersStay DEF UserStep, Known, Ids
  <2>2. UNCHANGED <<db, req>>
    BY <1>1 DEF UserStep, vars
  <2> QED
    BY <1>0, <2>1, <2>2 DEF RowsHaveOwners
<1>2. ASSUME NEW r \in Requests, Kinds(r), UNCHANGED users,
             req[r].user # NoId => req[r].user \in Known,
             req'[r].user # NoId => req'[r].user \in Known
      PROVE  RowsHaveOwners'
  <2>0. Known' = Known
    BY <1>2 DEF Known, Ids
  <2>1. \A u \in Users : db'.drivers[u] # NoId /\ Seed.drivers[u] = NoId => u \in Known
    <3> SUFFICES ASSUME NEW u \in Users, db'.drivers[u] # NoId, Seed.drivers[u] = NoId
                 PROVE  u \in Known
      OBVIOUS
    <3>1. db.drivers[u] # NoId \/ u = req[r].user
      BY <1>0, <1>2, RowsFrom
    <3> QED
      BY <1>0, <1>2, <3>1, DatabaseAssumption DEF RowsHaveOwners
  <2>2. \A i \in RideIds : db'.rides[i] # NoRide /\ Seed.rides[i] = NoRide
                             => db'.rides[i].passenger \in Known
    BY <1>0, <1>2, RowsFrom, DatabaseAssumption DEF RowsHaveOwners
  <2>3. \A q \in Requests : req'[q].user # NoId => req'[q].user \in Known
    BY <1>0, <1>2, OthersAreStill DEF RowsHaveOwners
  <2> QED
    BY <2>0, <2>1, <2>2, <2>3 DEF RowsHaveOwners
<1>3. ASSUME NEW r \in Requests, Enter(r) PROVE RowsHaveOwners'
  <2>1. Begin(r) /\ UNCHANGED users
    BY <1>3 DEF Enter, userVars
  <2>2. Kinds(r)
    BY <1>0, <2>1, RequestKinds
  <2>3. req'[r].user # NoId => req'[r].user \in Known
    BY <1>3, EnterActsFor DEF Known, Ids
  <2> QED
    BY <1>0, <1>2, <2>1, <2>2, <2>3 DEF RowsHaveOwners
<1>4. CASE ServiceStep
  <2>0. UNCHANGED users
    BY <1>4 DEF ServiceStep, userVars
  <2>1. ASSUME NEW r \in Requests, HandlerStep(r) \/ Fail(r) \/ Forget(r)
        PROVE  RowsHaveOwners'
    <3>1. Kinds(r) /\ req'[r].user \in {req[r].user, NoId}
      BY <1>0, <2>1, RequestKinds, ActsForOne
    <3> QED
      BY <1>0, <1>2, <2>0, <3>1 DEF RowsHaveOwners
  <2>2. CASE CacheExpires \/ SlavesCatchUp
    <3>1. UNCHANGED <<db, req>>
      BY <2>2 DEF CacheExpires, SlavesCatchUp, CatchUp
    <3> QED
      BY <1>0, <2>0, <3>1 DEF RowsHaveOwners, Known, Ids
  <2> QED
    BY <1>4, <2>1, <2>2 DEF ServiceStep
<1> QED
  BY <1>1, <1>3, <1>4 DEF TaxiNext

\* A step of the whole is a step of each side.
LEMMA BothSides ==
    ASSUME TaxiNext
    PROVE  [Next]_vars /\ [UserNext]_userVars
<1>1. CASE UserStep
  BY <1>1 DEF UserStep
<1>2. ASSUME NEW r \in Requests, Enter(r) PROVE Next /\ UNCHANGED userVars
  BY <1>2 DEF Enter, Next
<1>3. CASE ServiceStep
  BY <1>3 DEF ServiceStep, Next
<1> QED
  BY <1>1, <1>2, <1>3 DEF TaxiNext

\* The invariant is kept,
LEMMA TaxiInvStep == TaxiInv /\ [TaxiNext]_taxiVars => TaxiInv'
<1> SUFFICES ASSUME TaxiInv, [TaxiNext]_taxiVars PROVE TaxiInv'
  OBVIOUS
<1>0. UserInv /\ Typed /\ RowsHaveOwners
  BY DEF TaxiInv
<1>1. [Next]_vars /\ [UserNext]_userVars
  BY BothSides DEF taxiVars
<1>2. UserInv' /\ Typed'
  BY <1>0, <1>1, TypedStep, StepUserInv
<1>3. CASE TaxiNext
  <2>1. \A g \in given' : TokenFits(g)'
    <3>1. CASE UserStep
      BY <3>1, TokensStep
    <3>2. ASSUME UNCHANGED <<userVars, given>>
          PROVE  \A g \in given' : TokenFits(g)'
      BY <3>2 DEF TaxiInv, TokenFits, NumericDate, userVars
    <3> QED
      BY <1>3, <3>1, <3>2 DEF TaxiNext, Enter, ServiceStep
  <2> QED
    BY <1>2, <1>3, <2>1, OwnersStep DEF TaxiInv
<1>4. CASE UNCHANGED taxiVars
  <2>1. UNCHANGED <<db, req, users, now, given>>
    BY <1>4 DEF taxiVars, vars, userVars
  <2> QED
    BY <1>2, <2>1 DEF TaxiInv, RowsHaveOwners, Known, Ids, TokenFits, NumericDate
<1> QED
  BY <1>3, <1>4

\* and holds at the start.
LEMMA TaxiInvInit == TaxiInit => TaxiInv
<1> SUFFICES ASSUME TaxiInit PROVE TaxiInv
  OBVIOUS
<1>1. UserInv /\ Typed /\ given = {}
  BY InitUserInv, InitTyped DEF TaxiInit
<1>2. RowsHaveOwners
  BY DEF TaxiInit, Init, DatabaseInit, RequestsInit, RowsHaveOwners, NoRide, Idle
<1> QED
  BY <1>1, <1>2 DEF TaxiInv

\* It holds always.
LEMMA TaxiInvHolds == TaxiSpec => []TaxiInv
BY TaxiInvInit, TaxiInvStep, PTL DEF TaxiSpec

\* No row the services have put into PostgreSQL, and no request, ever names a user
\* MongoDB does not have, but those others signed tokens for: nothing but the way
\* of an id through a token ties them together.  The rows of data.sql name users
\* MongoDB does not have; nobody can log in as one of these.
THEOREM EveryRowHasAnOwner == TaxiSpec => []RowsHaveOwners
<1>1. TaxiInv => RowsHaveOwners
  BY DEF TaxiInv
<1> QED
  BY <1>1, TaxiInvHolds, PTL

\* Who a handler acts for has logged in with the password of that account within
\* the lifetime of a token, unless others signed a token for them.
THEOREM RequestsAreOfWhoLoggedIn == TaxiSpec => ActsForWhoLoggedIn
<1> DEFINE Acts(r) ==
             req[r] = Idle /\ req'[r] # Idle /\ req'[r].user \notin SelfMade \cup {NoId} =>
               \E g \in given, d \in users :
                  /\ d.id = req'[r].user /\ d.login = g.login /\ d.password = g.password
                  /\ g.at <= now /\ now <= g.at + Lifetime
<1>1. ASSUME TaxiInv, [TaxiNext]_taxiVars, NEW r \in Requests PROVE Acts(r)
  <2> SUFFICES ASSUME req[r] = Idle, req'[r] # Idle, req'[r].user \notin SelfMade \cup {NoId}
               PROVE  \E g \in given, d \in users :
                        /\ d.id = req'[r].user /\ d.login = g.login /\ d.password = g.password
                        /\ g.at <= now /\ now <= g.at + Lifetime
    OBVIOUS
  <2>0. Typed
    BY <1>1 DEF TaxiInv
  <2>1. Enter(r)
    <3>1. ASSUME NEW q \in Requests, Enter(q) PROVE q = r
      BY <2>0, <3>1, RequestKinds, OthersAreStill DEF Enter
    <3>2. ASSUME NEW q \in Requests, HandlerStep(q) \/ Fail(q) \/ Forget(q) PROVE FALSE
      BY <2>0, <3>2, RequestKinds, OthersAreStill, ActsForOne
    <3>3. ~ServiceStep
      BY <3>2 DEF ServiceStep, CacheExpires, SlavesCatchUp
    <3> QED
      BY <1>1, <3>1, <3>3 DEF TaxiNext, UserStep, taxiVars, vars
  <2> QED
    BY <1>1, <2>1, EnterActsFor
<1>2. TaxiInv /\ [TaxiNext]_taxiVars => [\A r \in Requests : Acts(r)]_taxiVars
  BY <1>1
<1> QED
  BY <1>2, TaxiInvHolds, PTL DEF TaxiSpec, ActsForWhoLoggedIn

\* A token is good until a second before the lifetime is over at least.
THEOREM TokensLast == TaxiSpec => []FreshTokensWork
<1>1. ASSUME TaxiInv, NEW g \in given, now <= g.at + Lifetime - Second
      PROVE  CheckAuth(g.token) = "Ok"
  <2>1. TokenFits(g) /\ now \in Nat /\ Second \in Nat /\ Lifetime \in Nat
    BY <1>1, UserAssumption, TaxiAssumption DEF TaxiInv, UserInv, UsersTypeOK, Times
  <2>2. g.at \in Nat /\ g.at + Lifetime \in Nat /\ g.at <= now
    BY <2>1 DEF TokenFits
  <2>3. NumericDate(g.at) <= g.at /\ NumericDate(g.at) \in Nat
    BY <2>2, NumericDateBounds
  <2>4. g.at + Lifetime < NumericDate(g.at + Lifetime) + Second /\ NumericDate(g.at + Lifetime) \in Nat
    BY <2>2, NumericDateBounds
  <2>5. NumericDate(g.at) <= now /\ now <= NumericDate(g.at + Lifetime)
    BY <1>1, <2>1, <2>2, <2>3, <2>4
  <2>6. Verified(g.token) /\ g.token.kind = "ours"
    BY <2>1, <2>5 DEF TokenFits, Verified
  <2> QED
    BY <2>6 DEF CheckAuth
<1>2. TaxiInv => FreshTokensWork
  BY <1>1 DEF FreshTokensWork
<1> QED
  BY <1>2, TaxiInvHolds, PTL

\* Behind JwtChecker the driver and ride services do nothing they could not do
\* without it, and the user service does not depend on them: every theorem on
\* Backend and on UserService holds of the three together.
THEOREM TaxiComponents == TaxiSpec => Spec /\ UserSpec
<1>1. TaxiInit => Init /\ UserInit
  BY DEF TaxiInit
<1>2. [TaxiNext]_taxiVars => [Next]_vars /\ [UserNext]_userVars
  BY BothSides DEF taxiVars
<1> QED
  BY <1>1, <1>2, PTL DEF TaxiSpec, Spec, UserSpec

\* So does the life cycle of rides.
THEOREM TaxiImplementsLifecycle == TaxiSpec => LifecycleSpec
BY TaxiComponents, ImplementsLifecycle, PTL
=============================================================================
