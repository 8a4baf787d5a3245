---------------------------- MODULE UserService -----------------------------
(***************************************************************************)
(* The user service: the four handlers of user/handlers.cpp, the users     *)
(* collection of MongoDB behind class MongoDatabase and the profiles       *)
(* cached in Redis.  Any number of replicas; between two awaits of a       *)
(* handler any other call may run.                                         *)
(*                                                                         *)
(* Names are left out but for which documents a search mask matches, and a *)
(* hash stands for its password (SHA-256 without salt: equal exactly when  *)
(* the passwords are).                                                     *)
(***************************************************************************)
EXTENDS Faults, Naturals

CONSTANTS
    Logins, Emails, Passwords,
    Seeded,         \* login and email of the users of mongo-init/02-data.js
    ObjectId,       \* the _id of those: MongoDB made it, it is no int64
    None,           \* std::nullopt, a key that does not exist
    Calls,          \* slots for concurrent requests (bound: requests at a time)
    Masks,          \* what search masks match (bound: SUBSET Logins, any of them)
    UserTraffic,    \* operations clients ask for (bound: Operations, all of them)
    MaxNow          \* bound: the clock stops there

ASSUME UserAssumption ==
    /\ MaxNow \in Nat
    /\ ObjectId \notin Nat
    /\ Seeded \subseteq [login : Logins, email : Emails]
    /\ \A s, t \in Seeded : s.login = t.login \/ s.email = t.email => s = t
    /\ None \notin Passwords
    /\ Masks \subseteq SUBSET Logins

VARIABLES
    users,      \* the documents of the users collection
    profiles,   \* profiles[l]: the value of the Redis key user:login:l
    now,        \* system_clock, in microseconds
    call        \* the requests: arguments, local variables and answer

userVars == <<users, profiles, now, call>>

Times == 0 .. MaxNow

Document == [id : Times, login : Logins, email : Emails, password : Passwords]

\* User::ToJson: what others see of a user, the password not.
ToJson(d) == [id |-> d.id, login |-> d.login, email |-> d.email]

Profile == [id : Times, login : Logins, email : Emails]

SeededDocuments ==
    {[id |-> ObjectId, login |-> s.login, email |-> s.email, password |-> None] : s \in Seeded}

Operations == {"none", "create", "find", "search", "login"}

\* The awaits of the handlers.
Awaits == {"idle", "insert", "cache", "query", "store", "admit", "done"}

StatusCodes == {0, 200, 201, 400, 401, 404, 409, 429, 500}

Call == [op       : Operations,
         pc       : Awaits,
         login    : Logins \cup {None},
         email    : Emails \cup {None},
         password : Passwords \cup {None},
         mask     : SUBSET Logins,               \* whose names match the mask
         id       : Times \cup {None},           \* new_id, or user_id of the token
         seen     : SUBSET Profile,              \* the users of the answer
         code     : StatusCodes]

NoCall == [op |-> "none", pc |-> "idle", login |-> None, email |-> None, password |-> None,
           mask |-> {}, id |-> None, seen |-> {}, code |-> 0]

UserInit ==
    /\ users = SeededDocuments
    /\ profiles = [l \in Logins |-> None]
    /\ now = 0
    /\ call = [c \in Calls |-> NoCall]

IsAt(c, op, pc) == call[c].op = op /\ call[c].pc = pc

Asks(c, new) ==
    /\ new.op \in UserTraffic
    /\ call[c] = NoCall
    /\ call' = [call EXCEPT ![c] = new]

\* A request answered before any await.
Refused(c, op, code) == Asks(c, [NoCall EXCEPT !.op = op, !.pc = "done", !.code = code])

Advance(c, pc) == call' = [call EXCEPT ![c].pc = pc]

Reply(c, code) == call' = [call EXCEPT ![c] = [@ EXCEPT !.pc = "done", !.code = code]]

ReplyUsers(c, found) ==
    call' = [call EXCEPT ![c] = [@ EXCEPT !.pc = "done", !.code = 200, !.seen = found]]

ReplyToken(c, id) ==
    call' = [call EXCEPT ![c] = [@ EXCEPT !.pc = "done", !.code = 200, !.id = id]]

\* A document whose _id is no int64: As<int64_t>() throws, and no handler of a
\* query catches it.
Unreadable(d) == d.id = ObjectId

-----------------------------------------------------------------------------
\* CreateUserHandler

\* The body is checked and the clock read before the first await; 500 for a
\* body that is no JSON.
CreateArrives(c, l, e, p) ==
    /\ \/ Asks(c, [NoCall EXCEPT !.op = "create", !.login = l, !.email = e, !.password = p,
                                    !.id = now, !.pc = "insert"])
       \/ \E code \in {400, 500} : Refused(c, "create", code)
    /\ UNCHANGED <<users, profiles, now>>

New(c) == [id |-> call[c].id, login |-> call[c].login,
           email |-> call[c].email, password |-> call[c].password]

\* Mutant: the index on login is not unique.
DuplicateIdOrEmail(new) ==
    \E d \in users : d.id = new.id \/ d.email = new.email

\* DuplicateKeyException: _id and the unique indexes on login and email.
DuplicateKey(new) ==
    \E d \in users : d.id = new.id \/ d.login = new.login \/ d.email = new.email

\* Mutant: the service leaves _id to MongoDB.
InsertGeneratedId(c) ==
    /\ IsAt(c, "create", "insert")
    /\ ~DuplicateKey(New(c))
    /\ users' = users \cup {[New(c) EXCEPT !.id = ObjectId]}
    /\ Reply(c, 201)
    /\ UNCHANGED <<profiles, now>>

\* Mutant: the profile is cached on the way, whether or not it is inserted.
InsertWriteThrough(c) ==
    /\ IsAt(c, "create", "insert")
    /\ profiles' = [profiles EXCEPT ![call[c].login] = ToJson(New(c))]
    /\ IF DuplicateKey(New(c))
       THEN Reply(c, 409) /\ UNCHANGED users
       ELSE users' = users \cup {New(c)} /\ Reply(c, 201)
    /\ UNCHANGED now

\* Mutant: the insert is not waited for.
InsertUnacknowledged(c) ==
    /\ IsAt(c, "create", "insert")
    /\ \/ ~DuplicateKey(New(c)) /\ users' = users \cup {New(c)}
       \/ UNCHANGED users
    /\ Reply(c, 201)
    /\ UNCHANGED <<profiles, now>>

\* The answer of MongoDB may be lost after the document is inserted: the catch
\* block answers 500.
Insert(c) ==
    /\ IsAt(c, "create", "insert")
    /\ IF DuplicateKey(New(c))
       THEN Reply(c, 409) /\ UNCHANGED users
       ELSE /\ users' = users \cup {New(c)}
            /\ Reply(c, 201) \/ (Faulty /\ Reply(c, 500))
    /\ UNCHANGED <<profiles, now>>

-----------------------------------------------------------------------------
\* FindUserByLoginHandler

FindArrives(c, l) ==
    /\ \/ Asks(c, [NoCall EXCEPT !.op = "find", !.login = l, !.pc = "cache"])
       \/ Refused(c, "find", 400)
    /\ UNCHANGED <<users, profiles, now>>

\* A failed Get looks like a miss.
FindCache(c) ==
    /\ IsAt(c, "find", "cache")
    /\ LET cached == profiles[call[c].login] IN
         \/ cached # None /\ ReplyUsers(c, {cached})
         \/ (cached = None \/ RedisMayFail) /\ Advance(c, "query")
    /\ UNCHANGED <<users, profiles, now>>

\* FindUserByLogin
WithLogin(l) == {d \in users : d.login = l}

\* The user found goes on to be stored.
Keep(c, d) == call' = [call EXCEPT ![c] = [@ EXCEPT !.pc = "store", !.seen = {ToJson(d)}]]

FindQuery(c) ==
    /\ IsAt(c, "find", "query")
    /\ LET found == WithLogin(call[c].login) IN
         \/ found = {} /\ Reply(c, 404)
         \/ \E d \in found :
              IF Unreadable(d) THEN Reply(c, 500) ELSE Keep(c, d)
    /\ UNCHANGED <<users, profiles, now>>

FindStore(c) ==
    /\ IsAt(c, "find", "store")
    /\ \/ \E p \in call[c].seen : profiles' = [profiles EXCEPT ![call[c].login] = p]
       \/ RedisMayFail /\ UNCHANGED profiles
    /\ Reply(c, 200)
    /\ UNCHANGED <<users, now>>

-----------------------------------------------------------------------------
\* SearchUsersByNameHandler

SearchArrives(c, mask) ==
    /\ \/ Asks(c, [NoCall EXCEPT !.op = "search", !.mask = mask, !.pc = "query"])
       \/ Refused(c, "search", 400)
    /\ UNCHANGED <<users, profiles, now>>

\* Mutant: the users read before one that cannot be read are answered.
SearchUntilUnreadable(c) ==
    /\ IsAt(c, "search", "query")
    /\ LET found == {d \in users : d.login \in call[c].mask}
           read  == {d \in found : ~Unreadable(d)} IN
         \E before \in SUBSET read :
           /\ found = read => before = read
           /\ ReplyUsers(c, {ToJson(d) : d \in before})
    /\ UNCHANGED <<users, profiles, now>>

\* Reading the results stops at the first document it cannot read.
SearchQuery(c) ==
    /\ IsAt(c, "search", "query")
    /\ LET found == {d \in users : d.login \in call[c].mask} IN
         IF \E d \in found : Unreadable(d) THEN Reply(c, 500) ELSE ReplyUsers(c, {ToJson(d) : d \in found})
    /\ UNCHANGED <<users, profiles, now>>

-----------------------------------------------------------------------------
\* LoginHandler

LoginArrives(c, l, p) ==
    /\ Asks(c, [NoCall EXCEPT !.op = "login", !.login = l, !.password = p, !.pc = "admit"])
    /\ UNCHANGED <<users, profiles, now>>

\* 429 from the limiter (module RateLimiter), 400 for missing fields, 500 for a
\* body that is no JSON.
LoginAdmit(c) ==
    /\ IsAt(c, "login", "admit")
    /\ \/ \E code \in {429, 400, 500} : Reply(c, code)
       \/ Advance(c, "query")
    /\ UNCHANGED <<users, profiles, now>>

\* Mutant: the password is not looked at.
LoginAnyPassword(c) ==
    /\ IsAt(c, "login", "query")
    /\ LET found == WithLogin(call[c].login) IN
         \/ found = {} /\ Reply(c, 401)
         \/ \E d \in found :
              IF Unreadable(d) THEN Reply(c, 500) ELSE ReplyToken(c, d.id)
    /\ UNCHANGED <<users, profiles, now>>

\* AuthenticateUser; the token carries the id of the document.
LoginQuery(c) ==
    /\ IsAt(c, "login", "query")
    /\ LET found == WithLogin(call[c].login) IN
         \/ found = {} /\ Reply(c, 401)
         \/ \E d \in found :
              CASE Unreadable(d) -> Reply(c, 500)
                [] ~Unreadable(d) /\ d.password # call[c].password -> Reply(c, 401)
                [] OTHER -> ReplyToken(c, d.id)
    /\ UNCHANGED <<users, profiles, now>>

-----------------------------------------------------------------------------
\* An uncaught exception, or the death of the process.
CallFails(c) ==
    /\ Faulty
    /\ call[c].pc \notin {"idle", "done"}
    /\ Reply(c, 500)
    /\ UNCHANGED <<users, profiles, now>>

CallLeaves(c) ==
    /\ call[c].pc = "done"
    /\ call' = [call EXCEPT ![c] = NoCall]
    /\ UNCHANGED <<users, profiles, now>>

\* The TTL of 300 seconds runs out.
ProfileExpires(l) ==
    /\ profiles[l] # None
    /\ profiles' = [profiles EXCEPT ![l] = None]
    /\ UNCHANGED <<users, now, call>>

Tick ==
    /\ now < MaxNow
    /\ now' = now + 1
    /\ UNCHANGED <<users, profiles, call>>

CallArrives(c) ==
    \/ \E l \in Logins, e \in Emails, p \in Passwords : CreateArrives(c, l, e, p)
    \/ \E l \in Logins : FindArrives(c, l)
    \/ \E mask \in Masks : SearchArrives(c, mask)
    \/ \E l \in Logins, p \in Passwords : LoginArrives(c, l, p)

UserHandlerStep(c) ==
    \/ Insert(c)
    \/ FindCache(c) \/ FindQuery(c) \/ FindStore(c)
    \/ SearchQuery(c)
    \/ LoginAdmit(c) \/ LoginQuery(c)

UserNext ==
    \/ \E c \in Calls : CallArrives(c) \/ UserHandlerStep(c) \/ CallFails(c) \/ CallLeaves(c)
    \/ \E l \in Logins : ProfileExpires(l)
    \/ Tick

UserSpec == UserInit /\ [][UserNext]_userVars

-----------------------------------------------------------------------------
\* Every variable holds values of the shape the code gives it; every document
\* the service inserts has an int64 for its _id.
UsersTypeOK ==
    /\ users \subseteq Document \cup SeededDocuments
    /\ profiles \in [Logins -> Profile \cup {None}]
    /\ now \in Times
    /\ call \in [Calls -> Call]

Answered(c, op, code) == IsAt(c, op, "done") /\ call[c].code = code

\* A token opens the account of whoever presented login and password, and no
\* other: its user_id is the key of that person's rows in drivers and rides, and
\* comes from a clock.
LoginOpensOwnAccount ==
    \A c \in Calls : Answered(c, "login", 200) =>
        \E d \in users :
            /\ d.login = call[c].login /\ d.password = call[c].password /\ d.id = call[c].id
            /\ \A other \in users : other.id = call[c].id => other = d

\* How the users with login l look to others.
ProfilesOf(l) == {ToJson(d) : d \in WithLogin(l)}

\* Nothing ever deletes a cached profile; still what is cached, or about to be,
\* is that of a document that was really inserted, under its own login.
ProfilesAreTrue ==
    /\ \A l \in Logins : profiles[l] # None => profiles[l] \in ProfilesOf(l)
    /\ \A c \in Calls : call[c].op = "find" => call[c].seen \subseteq ProfilesOf(call[c].login)

\* The message of CreateUserHandler and openapi.yaml: whoever is answered 409
\* asked for a login or an email another user has.
ConflictMeansTaken ==
    \A c \in Calls : Answered(c, "create", 409) =>
        \E d \in users : d.login = call[c].login \/ d.email = call[c].email
=============================================================================
