-------------------------------- MODULE Taxi ---------------------------------
(***************************************************************************)
(* The three services together, and what holds them together: a login at   *)
(* the user service answers with a token (LoginHandler::GenerateToken),    *)
(* and no request reaches a handler of the driver or ride service unless   *)
(* JwtChecker accepts the token it brings (auth/jwt_auth_checker.cpp).     *)
(* The user_id of the token goes into tables of another database than the  *)
(* one the users are in.                                                   *)
(***************************************************************************)
EXTENDS Backend, UserService

CONSTANTS
    Second,     \* ticks of the clock to a second
    Lifetime,   \* token-expiration-hours, in ticks
    SelfMade    \* the user ids for which others that know the secret make tokens

ASSUME TaxiAssumption ==
    /\ Times \subseteq Users /\ SelfMade \subseteq Users
    /\ Second \in Nat \ {0} /\ Lifetime \in Nat

VARIABLE given  \* the tokens clients were given, each with the login it was given for

taxiVars == <<vars, userVars, given>>

TaxiInit ==
    /\ Init /\ UserInit
    /\ given = {}

-----------------------------------------------------------------------------
\* Tokens

\* A NumericDate of a JWT has no fractions of a second.
NumericDate(t) == (t \div Second) * Second

\* Mutant: the time of issue is rounded up.
GenerateTokenRounding(id) ==
    [kind |-> "ours", user |-> id, iat |-> NumericDate(now + Second - 1),
     exp |-> NumericDate(now + Lifetime)]

\* Signed with the secret of the services.
GenerateToken(id) ==
    [kind |-> "ours", user |-> id, iat |-> NumericDate(now),
     exp |-> NumericDate(now + Lifetime)]

\* Tokens that are not of these services.
Foreign == [kind : {"other secret", "other issuer"}, user : Users,
            iat : {0}, exp : {MaxNow + Lifetime}]

\* Tokens of somebody who signs them as these services do, like make_jwt_token of
\* the tests, for ids that need not be of any user.
MakeJwtToken ==
    [kind : {"ours"}, user : SelfMade, iat : {0}, exp : {MaxNow + Lifetime}]

\* What comes in the Authorization header: nothing, another scheme than Bearer,
\* something that is no JWT, or a token.
Headers ==
    [kind : {"missing", "other scheme", "no JWT"}] \cup Foreign \cup MakeJwtToken
        \cup {g.token : g \in given}

\* Mutant: nobody looks at the dates.
VerifiedIssuer(token) == token.kind = "ours"

\* with_issuer and the dates, which jwt-cpp checks without leeway.
Verified(token) == token.kind = "ours" /\ token.iat <= now /\ now <= token.exp

\* Mutant: tokens are decoded and not verified.
CheckAuthDecoded(header) ==
    CASE header.kind = "missing"      -> "TokenNotFound"
      [] header.kind = "other scheme" -> "InvalidToken"
      [] header.kind = "no JWT"       -> "Forbidden"
      [] OTHER                        -> "Ok"

\* A token that does not decode, or whose signature is wrong, throws another
\* exception than one whose claims are.  Nobody who knows the secret makes one
\* without a user_id that parses: the two other ways to kForbidden are not taken.
CheckAuth(header) ==
    CASE header.kind = "missing"                     -> "TokenNotFound"
      [] header.kind = "other scheme"                -> "InvalidToken"
      [] header.kind \in {"no JWT", "other secret"}  -> "Forbidden"
      [] header.kind \in {"ours", "other issuer"}    ->
            IF Verified(header) THEN "Ok" ELSE "InvalidToken"

-----------------------------------------------------------------------------
\* LoginHandler is about to answer 200.
LogsIn(c) == LoginQuery(c) /\ call'[c].code = 200

\* A step of the user service; the answer of a login brings a token.
UserStep ==
    /\ UserNext
    /\ given' = given \cup
         {[login |-> call[c].login, password |-> call[c].password, at |-> now,
           token |-> GenerateToken(call'[c].id)] : c \in {x \in Calls : LogsIn(x)}}
    /\ UNCHANGED vars

\* A request with a header that CheckAuth accepts reaches its handler, which
\* acts for the user_id in the context; the list of rides has no use for it.
\* Any other request is answered 401 or 403 at once.
Enter(r) ==
    /\ \E header \in Headers :
         /\ CheckAuth(header) = "Ok"
         /\ Begin(r)
         /\ req'[r].user \in {header.user, NoId}
    /\ UNCHANGED <<userVars, given>>

\* The rest of the driver and ride services.
ServiceStep ==
    /\ \/ \E r \in Requests : HandlerStep(r) \/ Fail(r) \/ Forget(r)
       \/ CacheExpires
       \/ SlavesCatchUp
    /\ UNCHANGED <<userVars, given>>

TaxiNext == UserStep \/ (\E r \in Requests : Enter(r)) \/ ServiceStep

TaxiSpec == TaxiInit /\ [][TaxiNext]_taxiVars

-----------------------------------------------------------------------------
Ids == {d.id : d \in users}

Known == Ids \cup SelfMade

\* No foreign key leads from PostgreSQL to MongoDB, and the rows of data.sql are
\* of nobody in it.  Still every driver and every passenger the services have put
\* into the tables, and everyone a request acts for, the users of data.sql
\* included, is a user there is, unless somebody else signed tokens for them.
RowsHaveOwners ==
    /\ \A u \in Users : db.drivers[u] # NoId /\ Seed.drivers[u] = NoId => u \in Known
    /\ \A i \in RideIds :
         db.rides[i] # NoRide /\ Seed.rides[i] = NoRide => db.rides[i].passenger \in Known
    /\ \A r \in Requests : req[r].user # NoId => req[r].user \in Known

\* A handler begins to act for a user only on behalf of somebody who gave the
\* login and the password of that very account, and no longer ago than a token
\* lives, or by a token made by others who know the secret.
ActsForWhoLoggedIn ==
    [][\A r \in Requests :
         req[r] = Idle /\ req'[r] # Idle /\ req'[r].user \notin SelfMade \cup {NoId} =>
         \E g \in given, d \in users :
            /\ d.id = req'[r].user /\ d.login = g.login /\ d.password = g.password
            /\ g.at <= now /\ now <= g.at + Lifetime]_taxiVars

\* Who has logged in is not asked to do so again before the lifetime of a token
\* has passed, but for the fraction of a second NumericDate cuts off.
FreshTokensWork ==
    \A g \in given : now <= g.at + Lifetime - Second => CheckAuth(g.token) = "Ok"
=============================================================================
