---------------------------- MODULE UserProofs ------------------------------
(***************************************************************************)
(* Theorems about UserService, for any numbers of users, requests and      *)
(* clock ticks, with failing commands and dying processes.                 *)
(***************************************************************************)
EXTENDS UserService, TLAPS

\* What _id and the unique indexes keep apart.
Distinct ==
    \A d, o \in users : (d.id = o.id /\ d.id # ObjectId) \/ d.login = o.login => d = o

\* What a request may rely on: its arguments until it has used them, the profiles
\* it has read, and the document its token was made from.
CallFits(c) ==
    /\ IsAt(c, "create", "insert") => New(c) \in Document
    /\ call[c].op = "find" /\ call[c].pc # "done" => call[c].login \in Logins
    /\ call[c].op = "find" => call[c].seen \subseteq ProfilesOf(call[c].login)
    /\ Answered(c, "login", 200) =>
         \E d \in users : /\ d.login = call[c].login /\ d.password = call[c].password
                          /\ d.id = call[c].id /\ d.id # ObjectId

CachedFits == \A l \in Logins : profiles[l] # None => profiles[l] \in ProfilesOf(l)

\* The inductive invariant.
UserInv ==
    /\ UsersTypeOK
    /\ Distinct
    /\ \A c \in Calls : CallFits(c)
    /\ CachedFits

\* An empty slot is a request.
LEMMA NoCallIsCall == NoCall \in Call /\ NoCall.seen = {} /\ NoCall.code = 0
BY DEF NoCall, Call, Operations, Awaits, StatusCodes

\* It starts true.
LEMMA InitUserInv == UserInit => UserInv
<1> SUFFICES ASSUME UserInit PROVE UserInv
  OBVIOUS
<1>0. /\ users = SeededDocuments /\ profiles = [l \in Logins |-> None]
      /\ now = 0 /\ call = [c \in Calls |-> NoCall]
  BY DEF UserInit
<1>1. NoCall \in Call
  BY NoCallIsCall
<1>2. UsersTypeOK
  <2>1. 0 \in Times
    BY UserAssumption DEF Times
  <2> QED
    BY <1>0, <1>1, <2>1 DEF UsersTypeOK
<1>3. Distinct
  BY <1>0, UserAssumption DEF Distinct, SeededDocuments
<1>4. ASSUME NEW c \in Calls PROVE CallFits(c)
  BY <1>0 DEF CallFits, IsAt, Answered, NoCall
<1>5. CachedFits
  BY <1>0 DEF CachedFits
<1> QED
  BY <1>2, <1>3, <1>4, <1>5 DEF UserInv

-----------------------------------------------------------------------------
(***************************************************************************)
(* One request moves; documents are never taken away.                      *)
(***************************************************************************)

\* Nor are profiles.
LEMMA ProfilesGrow ==
    ASSUME users \subseteq users'
    PROVE  \A l : ProfilesOf(l) \subseteq ProfilesOf(l)'
<1>1. \A l : WithLogin(l) \subseteq WithLogin(l)'
  BY DEF WithLogin
<1> QED
  BY <1>1 DEF ProfilesOf

\* The other requests keep what they rely on.
LEMMA OneCall ==
    ASSUME UserInv, NEW c \in Calls, NEW q \in Call, call' = [call EXCEPT ![c] = q],
           users \subseteq users', CallFits(c)'
    PROVE  call' \in [Calls -> Call] /\ \A x \in Calls : CallFits(x)'
<1>1. call \in [Calls -> Call]
  BY DEF UserInv, UsersTypeOK
<1>2. call' \in [Calls -> Call]
  BY <1>1
<1>3. ASSUME NEW x \in Calls, x # c PROVE CallFits(x)'
  <2>1. call'[x] = call[x]
    BY <1>1, <1>3
  <2>2. CallFits(x)
    BY DEF UserInv
  <2> QED
    BY <2>1, <2>2, ProfilesGrow DEF CallFits, IsAt, Answered, New
<1> QED
  BY <1>2, <1>3

\* Assigning to the fields of a request what they may hold keeps its type.
LEMMA AwaitField ==
    ASSUME NEW q \in Call, NEW pc \in Awaits
    PROVE  [q EXCEPT !.pc = pc] \in Call
BY DEF Call

\* So does answering with a code,
LEMMA CodeFields ==
    ASSUME NEW q \in Call, NEW pc \in Awaits, NEW code \in StatusCodes
    PROVE  [q EXCEPT !.pc = pc, !.code = code] \in Call
BY DEF Call

\* assigning the users that were read,
LEMMA SeenFields ==
    ASSUME NEW q \in Call, NEW pc \in Awaits, NEW found \in SUBSET Profile
    PROVE  [q EXCEPT !.pc = pc, !.seen = found] \in Call
BY DEF Call

\* answering with them,
LEMMA AnswerFields ==
    ASSUME NEW q \in Call, NEW pc \in Awaits, NEW code \in StatusCodes,
           NEW found \in SUBSET Profile
    PROVE  [q EXCEPT !.pc = pc, !.code = code, !.seen = found] \in Call
BY DEF Call

\* and answering with a token.
LEMMA TokenFields ==
    ASSUME NEW q \in Call, NEW pc \in Awaits, NEW code \in StatusCodes, NEW id \in Times
    PROVE  [q EXCEPT !.pc = pc, !.code = code, !.id = id] \in Call
BY DEF Call

\* The operations and awaits the steps name.
LEMMA Names ==
    /\ "create" \in Operations /\ "find" \in Operations
    /\ "search" \in Operations /\ "login" \in Operations
    /\ "query" \in Awaits /\ "store" \in Awaits /\ "done" \in Awaits /\ "insert" \in Awaits
    /\ "cache" \in Awaits /\ "admit" \in Awaits
BY DEF Operations, Awaits

\* The codes they answer.
LEMMA AnswerCodes == {200, 201, 400, 401, 404, 409, 429, 500} \subseteq StatusCodes
BY DEF StatusCodes

\* An answer without a token and without users.
LEMMA ReplyFits ==
    ASSUME UserInv, NEW c \in Calls, NEW code \in StatusCodes,
           code # 200 \/ call[c].op # "login", users \subseteq users', Reply(c, code)
    PROVE  call' \in [Calls -> Call] /\ \A x \in Calls : CallFits(x)'
<1>1. call \in [Calls -> Call] /\ CallFits(c)
  BY DEF UserInv, UsersTypeOK
<1>2. call[c] \in Call
  BY <1>1
<1>3. PICK q \in Call : q = [call[c] EXCEPT !.pc = "done", !.code = code]
  BY <1>2, CodeFields, Names
<1>4. call' = [call EXCEPT ![c] = q]
  BY <1>3 DEF Reply
<1>5. /\ call'[c].op = call[c].op /\ call'[c].login = call[c].login
      /\ call'[c].pc = "done" /\ call'[c].code = code /\ call'[c].seen = call[c].seen
  BY <1>1, <1>2, <1>3, <1>4 DEF Call
<1>6. CallFits(c)'
  BY <1>1, <1>5, ProfilesGrow DEF CallFits, IsAt, Answered
<1> QED
  BY <1>4, <1>6, OneCall

\* A request that arrives, refused at once or not.
LEMMA AsksFits ==
    ASSUME UserInv, NEW c \in Calls, NEW q \in Call, Asks(c, q), UNCHANGED users,
           q.seen = {}, ~(q.op = "login" /\ q.code = 200),
           q.op = "find" /\ q.pc # "done" => q.login \in Logins,
           q.op = "create" /\ q.pc = "insert" =>
             q.id \in Times /\ q.login \in Logins /\ q.email \in Emails /\ q.password \in Passwords
    PROVE  call' \in [Calls -> Call] /\ \A x \in Calls : CallFits(x)'
<1>1. call \in [Calls -> Call]
  BY DEF UserInv, UsersTypeOK
<1>2. call' = [call EXCEPT ![c] = q] /\ call'[c] = q
  BY <1>1 DEF Asks
<1>3. CallFits(c)'
  BY <1>2 DEF CallFits, IsAt, Answered, New, Document
<1> QED
  BY <1>2, <1>3, OneCall

\* Going on to the query.
LEMMA AdvanceFits ==
    ASSUME UserInv, NEW c \in Calls, NEW pc \in Awaits, pc \notin {"done", "insert"},
           call[c].pc # "done", UNCHANGED users, Advance(c, pc)
    PROVE  call' \in [Calls -> Call] /\ \A x \in Calls : CallFits(x)'
<1>1. call \in [Calls -> Call] /\ CallFits(c)
  BY DEF UserInv, UsersTypeOK
<1>2. call[c] \in Call
  BY <1>1
<1>3. PICK q \in Call : q = [call[c] EXCEPT !.pc = pc]
  BY <1>2, AwaitField
<1>4. call' = [call EXCEPT ![c] = q]
  BY <1>1, <1>3 DEF Advance
<1>5. /\ call'[c].op = call[c].op /\ call'[c].login = call[c].login
      /\ call'[c].pc = pc /\ call'[c].seen = call[c].seen
  BY <1>1, <1>2, <1>3, <1>4 DEF Call
<1>6. CallFits(c)'
  BY <1>1, <1>5, ProfilesGrow DEF CallFits, IsAt, Answered
<1> QED
  BY <1>4, <1>6, OneCall

\* A query or the cache yields users, for an answer or to be stored.
LEMMA SeenFits ==
    ASSUME UserInv, NEW c \in Calls, NEW pc \in {"store", "done"}, NEW q \in Call,
           NEW found \in SUBSET Profile,
           q.op = call[c].op, q.login = call[c].login, q.pc = pc, q.seen = found,
           call[c].op \in {"find", "search"}, call[c].pc # "done",
           call[c].op = "find" => found \subseteq ProfilesOf(call[c].login),
           UNCHANGED users, call' = [call EXCEPT ![c] = q]
    PROVE  call' \in [Calls -> Call] /\ \A x \in Calls : CallFits(x)'
<1>1. call \in [Calls -> Call] /\ CallFits(c)
  BY DEF UserInv, UsersTypeOK
<1>2. call'[c] = q
  BY <1>1
<1>3. CallFits(c)'
  BY <1>1, <1>2, ProfilesGrow DEF CallFits, IsAt, Answered
<1> QED
  BY <1>3, OneCall

-----------------------------------------------------------------------------
(***************************************************************************)
(* Handler by handler.                                                     *)
(***************************************************************************)

\* The part of the invariant about requests, after a step that only moves one.
CallsFit == call \in [Calls -> Call] /\ \A x \in Calls : CallFits(x)

\* A create carries the document it is going to insert.
LEMMA SentCreate ==
    ASSUME NEW z \in Call, NEW op \in Operations, NEW pc \in Awaits, NEW l \in Logins,
           NEW e \in Emails, NEW p \in Passwords, NEW id \in Times
    PROVE  [z EXCEPT !.op = op, !.login = l, !.email = e, !.password = p, !.id = id, !.pc = pc]
             \in Call
BY DEF Call

\* So does a request refused before its first await.
LEMMA SentRefused ==
    ASSUME NEW z \in Call, NEW op \in Operations, NEW pc \in Awaits, NEW code \in StatusCodes
    PROVE  [z EXCEPT !.op = op, !.pc = pc, !.code = code] \in Call
BY DEF Call

\* A find names a login.
LEMMA SentFind ==
    ASSUME NEW z \in Call, NEW op \in Operations, NEW pc \in Awaits, NEW l \in Logins
    PROVE  [z EXCEPT !.op = op, !.login = l, !.pc = pc] \in Call
BY DEF Call

\* A search names a mask.
LEMMA SentSearch ==
    ASSUME NEW z \in Call, NEW op \in Operations, NEW pc \in Awaits, NEW mask \in SUBSET Logins
    PROVE  [z EXCEPT !.op = op, !.mask = mask, !.pc = pc] \in Call
BY DEF Call

\* A login names a login and a password.
LEMMA SentLogin ==
    ASSUME NEW z \in Call, NEW op \in Operations, NEW pc \in Awaits, NEW l \in Logins,
           NEW p \in Passwords
    PROVE  [z EXCEPT !.op = op, !.login = l, !.password = p, !.pc = pc] \in Call
BY DEF Call

\* The steps in which a request arrives.
LEMMA ArrivalsFit ==
    ASSUME UserInv, NEW c \in Calls, CallArrives(c)
    PROVE  CallsFit' /\ UNCHANGED <<users, profiles, now>>
<1>0. now \in Times
  BY DEF UserInv, UsersTypeOK
<1>1. UNCHANGED <<users, profiles, now>>
  BY DEF CallArrives, CreateArrives, FindArrives, SearchArrives, LoginArrives
<1>2. ASSUME NEW op \in Operations, NEW code \in StatusCodes, op # "login", Refused(c, op, code)
      PROVE  CallsFit'
  <2> DEFINE q == [NoCall EXCEPT !.op = op, !.pc = "done", !.code = code]
  <2>1. q \in Call
    BY SentRefused, NoCallIsCall, Names
  <2>2. q.op = op /\ q.pc = "done" /\ q.seen = {}
    BY NoCallIsCall DEF Call
  <2>3. Asks(c, q)
    BY <1>2 DEF Refused
  <2> HIDE DEF q
  <2> QED
    BY <1>1, <1>2, <2>1, <2>2, <2>3, AsksFits DEF CallsFit
<1>3. ASSUME NEW l \in Logins, NEW e \in Emails, NEW p \in Passwords,
             Asks(c, [NoCall EXCEPT !.op = "create", !.login = l, !.email = e, !.password = p,
                                       !.id = now, !.pc = "insert"])
      PROVE  CallsFit'
  <2> DEFINE q == [NoCall EXCEPT !.op = "create", !.login = l, !.email = e, !.password = p,
                                 !.id = now, !.pc = "insert"]
  <2>1. q \in Call
    BY <1>0, SentCreate, NoCallIsCall, Names
  <2>2. q.op = "create" /\ q.seen = {} /\ q.login = l /\ q.email = e /\ q.password = p /\ q.id = now
    BY NoCallIsCall DEF Call
  <2>3. Asks(c, q)
    BY <1>3
  <2> HIDE DEF q
  <2> QED
    BY <1>0, <1>1, <2>1, <2>2, <2>3, AsksFits DEF CallsFit
<1>4. ASSUME NEW l \in Logins, Asks(c, [NoCall EXCEPT !.op = "find", !.login = l, !.pc = "cache"])
      PROVE  CallsFit'
  <2> DEFINE q == [NoCall EXCEPT !.op = "find", !.login = l, !.pc = "cache"]
  <2>1. q \in Call
    BY SentFind, NoCallIsCall, Names
  <2>2. q.op = "find" /\ q.seen = {} /\ q.login = l
    BY NoCallIsCall DEF Call
  <2>3. Asks(c, q)
    BY <1>4
  <2> HIDE DEF q
  <2> QED
    BY <1>1, <2>1, <2>2, <2>3, AsksFits DEF CallsFit
<1>5. ASSUME NEW mask \in SUBSET Logins,
             Asks(c, [NoCall EXCEPT !.op = "search", !.mask = mask, !.pc = "query"])
      PROVE  CallsFit'
  <2> DEFINE q == [NoCall EXCEPT !.op = "search", !.mask = mask, !.pc = "query"]
  <2>1. q \in Call
    BY SentSearch, NoCallIsCall, Names
  <2>2. q.op = "search" /\ q.seen = {}
    BY NoCallIsCall DEF Call
  <2>3. Asks(c, q)
    BY <1>5
  <2> HIDE DEF q
  <2> QED
    BY <1>1, <2>1, <2>2, <2>3, AsksFits DEF CallsFit
<1>6. ASSUME NEW l \in Logins, NEW p \in Passwords,
             Asks(c, [NoCall EXCEPT !.op = "login", !.login = l, !.password = p, !.pc = "admit"])
      PROVE  CallsFit'
  <2> DEFINE q == [NoCall EXCEPT !.op = "login", !.login = l, !.password = p, !.pc = "admit"]
  <2>1. q \in Call
    BY SentLogin, NoCallIsCall, Names
  <2>2. q.op = "login" /\ q.seen = {} /\ q.code = 0
    BY NoCallIsCall DEF Call
  <2>3. Asks(c, q)
    BY <1>6
  <2> HIDE DEF q
  <2> QED
    BY <1>1, <2>1, <2>2, <2>3, AsksFits DEF CallsFit
<1>7. CallsFit'
  <2>1. CASE \E l \in Logins, e \in Emails, p \in Passwords : CreateArrives(c, l, e, p)
    <3>1. PICK l \in Logins, e \in Emails, p \in Passwords : CreateArrives(c, l, e, p)
      BY <2>1
    <3>2. CASE Asks(c, [NoCall EXCEPT !.op = "create", !.login = l, !.email = e, !.password = p,
                                         !.id = now, !.pc = "insert"])
      BY <1>3, <3>2
    <3>3. CASE \E code \in {400, 500} : Refused(c, "create", code)
      BY <1>2, <3>3, Names, AnswerCodes
    <3> QED
      BY <3>1, <3>2, <3>3 DEF CreateArrives
  <2>2. CASE \E l \in Logins : FindArrives(c, l)
    <3>1. PICK l \in Logins : FindArrives(c, l)
      BY <2>2
    <3>2. CASE Asks(c, [NoCall EXCEPT !.op = "find", !.login = l, !.pc = "cache"])
      BY <1>4, <3>2
    <3>3. CASE Refused(c, "find", 400)
      BY <1>2, <3>3, Names, AnswerCodes
    <3> QED
      BY <3>1, <3>2, <3>3 DEF FindArrives
  <2>3. CASE \E mask \in Masks : SearchArrives(c, mask)
    <3>1. PICK mask \in SUBSET Logins : SearchArrives(c, mask)
      BY <2>3, UserAssumption
    <3>2. CASE Asks(c, [NoCall EXCEPT !.op = "search", !.mask = mask, !.pc = "query"])
      BY <1>5, <3>2
    <3>3. CASE Refused(c, "search", 400)
      BY <1>2, <3>3, Names, AnswerCodes
    <3> QED
      BY <3>1, <3>2, <3>3 DEF SearchArrives
  <2>4. CASE \E l \in Logins, p \in Passwords : LoginArrives(c, l, p)
    BY <1>6, <2>4 DEF LoginArrives
  <2> QED
    BY <2>1, <2>2, <2>3, <2>4 DEF CallArrives
<1> QED
  BY <1>1, <1>7

\* An insert adds a document that no other resembles.
LEMMA InsertFits ==
    ASSUME UserInv, NEW c \in Calls, Insert(c)
    PROVE  UserInv'
<1>0. /\ users \subseteq Document \cup SeededDocuments /\ now \in Times
      /\ profiles \in [Logins -> Profile \cup {None}] /\ Distinct /\ CachedFits
  BY DEF UserInv, UsersTypeOK
<1>1. New(c) \in Document /\ call[c].op # "login"
  BY DEF Insert, IsAt, UserInv, CallFits
<1>2. users \subseteq users' /\ users' \subseteq users \cup {New(c)}
      /\ UNCHANGED <<profiles, now>>
  BY DEF Insert
<1>3. \E code \in StatusCodes : Reply(c, code)
  BY AnswerCodes DEF Insert
<1>4. CallsFit'
  BY <1>1, <1>2, <1>3, ReplyFits DEF CallsFit
<1>5. Distinct'
  <2>1. CASE UNCHANGED users
    BY <1>0, <2>1 DEF Distinct
  <2>2. CASE ~DuplicateKey(New(c)) /\ users' = users \cup {New(c)}
    BY <1>0, <2>2 DEF Distinct, DuplicateKey
  <2> QED
    BY <2>1, <2>2 DEF Insert
<1>6. CachedFits'
  BY <1>0, <1>2, ProfilesGrow DEF CachedFits
<1> QED
  BY <1>0, <1>1, <1>2, <1>4, <1>5, <1>6 DEF UserInv, UsersTypeOK, CallsFit

\* What can be read is a document the service inserted.
LEMMA Readable ==
    ASSUME UserInv, NEW d \in users, ~Unreadable(d)
    PROVE  d \in Document /\ d.id \in Times /\ d.id # ObjectId /\ ToJson(d) \in Profile
<1>1. d \in Document
  BY DEF UserInv, UsersTypeOK, SeededDocuments, Unreadable
<1> QED
  BY <1>1 DEF Document, Unreadable, ToJson, Profile

\* The answer of the cache.
LEMMA FindCacheFits ==
    ASSUME UserInv, NEW c \in Calls, FindCache(c)
    PROVE  CallsFit'
<1>1. /\ call \in [Calls -> Call] /\ profiles \in [Logins -> Profile \cup {None}]
      /\ CachedFits /\ CallFits(c)
  BY DEF UserInv, UsersTypeOK
<1>2. IsAt(c, "find", "cache") /\ UNCHANGED users
  BY DEF FindCache
<1>3. call[c] \in Call /\ call[c].login \in Logins
  BY <1>1, <1>2 DEF IsAt, CallFits
<1>4. CASE Advance(c, "query")
  BY <1>2, <1>4, AdvanceFits, Names DEF IsAt, CallsFit
<1>5. CASE profiles[call[c].login] # None /\ ReplyUsers(c, {profiles[call[c].login]})
  <2>0. PICK ok \in StatusCodes : ok = 200
    BY AnswerCodes
  <2> DEFINE found == {profiles[call[c].login]}
             q == [call[c] EXCEPT !.pc = "done", !.code = ok, !.seen = found]
  <2>1. found \in SUBSET Profile /\ found \subseteq ProfilesOf(call[c].login)
    BY <1>1, <1>3, <1>5 DEF CachedFits
  <2>2. call' = [call EXCEPT ![c] = q]
    BY <1>5, <2>0 DEF ReplyUsers
  <2> HIDE DEF found
  <2>3. q \in Call
    BY <1>3, <2>1, AnswerFields, Names
  <2>4. q.op = call[c].op /\ q.login = call[c].login /\ q.pc = "done" /\ q.seen = found
    BY <1>3 DEF Call
  <2> HIDE DEF q
  <2> QED
    BY <1>2, <2>1, <2>2, <2>3, <2>4, SeenFits DEF IsAt, CallsFit
<1> QED
  BY <1>4, <1>5 DEF FindCache

\* The answer of MongoDB to a find.
LEMMA FindQueryFits ==
    ASSUME UserInv, NEW c \in Calls, FindQuery(c)
    PROVE  CallsFit'
<1>1. call \in [Calls -> Call] /\ IsAt(c, "find", "query") /\ UNCHANGED users
  BY DEF UserInv, UsersTypeOK, FindQuery
<1>2. CASE \E code \in {404, 500} : Reply(c, code)
  <2>1. PICK code \in {404, 500} : Reply(c, code)
    BY <1>2
  <2>2. code \in StatusCodes
    BY AnswerCodes
  <2> QED
    BY <1>1, <2>1, <2>2, ReplyFits DEF CallsFit
<1>3. CASE \E d \in WithLogin(call[c].login) :
             ~Unreadable(d) /\ Keep(c, d)
  <2>1. PICK d \in WithLogin(call[c].login) :
             ~Unreadable(d) /\ Keep(c, d)
    BY <1>3
  <2> DEFINE found == {ToJson(d)}
             q == [call[c] EXCEPT !.pc = "store", !.seen = found]
  <2>2. found \in SUBSET Profile /\ found \subseteq ProfilesOf(call[c].login)
    BY <2>1, Readable DEF ProfilesOf, WithLogin
  <2>3. call' = [call EXCEPT ![c] = q]
    BY <2>1 DEF Keep
  <2> HIDE DEF found
  <2>4. q \in Call
    BY <1>1, <2>2, SeenFields, Names
  <2>5. q.op = call[c].op /\ q.login = call[c].login /\ q.pc = "store" /\ q.seen = found
    BY <1>1 DEF Call
  <2> HIDE DEF q
  <2> QED
    BY <1>1, <2>2, <2>3, <2>4, <2>5, SeenFits DEF IsAt, CallsFit
<1> QED
  BY <1>2, <1>3 DEF FindQuery

\* The answer of MongoDB to a search.
LEMMA SearchQueryFits ==
    ASSUME UserInv, NEW c \in Calls, SearchQuery(c)
    PROVE  CallsFit'
<1>1. call \in [Calls -> Call] /\ IsAt(c, "search", "query") /\ UNCHANGED users
  BY DEF UserInv, UsersTypeOK, SearchQuery
<1> DEFINE matching == {d \in users : d.login \in call[c].mask}
           found == {ToJson(d) : d \in matching}
<1>2. CASE Reply(c, 500)
  BY <1>1, <1>2, ReplyFits, AnswerCodes DEF CallsFit, IsAt
<1>3. CASE ~(\E d \in matching : Unreadable(d)) /\ ReplyUsers(c, found)
  <2>0. PICK ok \in StatusCodes : ok = 200
    BY AnswerCodes
  <2> DEFINE q == [call[c] EXCEPT !.pc = "done", !.code = ok, !.seen = found]
  <2>1. found \in SUBSET Profile
    BY <1>3, Readable
  <2>2. call' = [call EXCEPT ![c] = q]
    BY <1>3, <2>0 DEF ReplyUsers
  <2> HIDE DEF found
  <2>3. q \in Call
    BY <1>1, <2>1, AnswerFields, Names
  <2>4. q.op = call[c].op /\ q.login = call[c].login /\ q.pc = "done" /\ q.seen = found
    BY <1>1 DEF Call
  <2> HIDE DEF q
  <2> QED
    BY <1>1, <2>1, <2>2, <2>3, <2>4, SeenFits DEF IsAt, CallsFit
<1> QED
  BY <1>2, <1>3 DEF SearchQuery

\* The limiter and the checks of a login.
LEMMA LoginAdmitFits ==
    ASSUME UserInv, NEW c \in Calls, LoginAdmit(c)
    PROVE  CallsFit'
<1>1. IsAt(c, "login", "admit") /\ UNCHANGED users
  BY DEF LoginAdmit
<1>2. CASE \E code \in {429, 400, 500} : Reply(c, code)
  <2>1. PICK code \in {429, 400, 500} : Reply(c, code)
    BY <1>2
  <2>2. code \in StatusCodes
    BY AnswerCodes
  <2> QED
    BY <1>1, <2>1, <2>2, ReplyFits DEF CallsFit
<1>3. CASE Advance(c, "query")
  BY <1>1, <1>3, AdvanceFits, Names DEF IsAt, CallsFit
<1> QED
  BY <1>2, <1>3 DEF LoginAdmit

\* A token is made from the document that login and password name.
LEMMA LoginQueryFits ==
    ASSUME UserInv, NEW c \in Calls, LoginQuery(c)
    PROVE  CallsFit'
<1>1. call \in [Calls -> Call] /\ IsAt(c, "login", "query") /\ UNCHANGED users
  BY DEF UserInv, UsersTypeOK, LoginQuery
<1>2. CASE \E code \in {401, 500} : Reply(c, code)
  <2>1. PICK code \in {401, 500} : Reply(c, code)
    BY <1>2
  <2>2. code \in StatusCodes
    BY AnswerCodes
  <2> QED
    BY <1>1, <2>1, <2>2, ReplyFits DEF CallsFit
<1>3. CASE \E d \in WithLogin(call[c].login) :
             ~Unreadable(d) /\ d.password = call[c].password /\ ReplyToken(c, d.id)
  <2>1. PICK d \in WithLogin(call[c].login) :
             ~Unreadable(d) /\ d.password = call[c].password /\ ReplyToken(c, d.id)
    BY <1>3
  <2>0. PICK ok \in StatusCodes : ok = 200
    BY AnswerCodes
  <2> DEFINE q == [call[c] EXCEPT !.pc = "done", !.code = ok, !.id = d.id]
  <2>2. d \in users /\ d.login = call[c].login /\ d.id \in Times /\ d.id # ObjectId
    BY <2>1, Readable DEF WithLogin
  <2>3. call' = [call EXCEPT ![c] = q]
    BY <2>0, <2>1 DEF ReplyToken
  <2>4. q \in Call
    BY <1>1, <2>2, TokenFields, Names
  <2>5. /\ q.op = "login" /\ q.pc = "done" /\ q.id = d.id
        /\ q.login = call[c].login /\ q.password = call[c].password
    BY <1>1 DEF Call, IsAt
  <2> HIDE DEF q
  <2>6. call'[c] = q
    BY <1>1, <2>3
  <2>7. CallFits(c)'
    BY <1>1, <2>1, <2>2, <2>5, <2>6 DEF CallFits, IsAt, Answered
  <2> QED
    BY <1>1, <2>3, <2>4, <2>7, OneCall DEF CallsFit
<1> QED
  BY <1>2, <1>3 DEF LoginQuery

\* The slot becomes free.
LEMMA LeavesFit ==
    ASSUME UserInv, NEW c \in Calls, CallLeaves(c)
    PROVE  CallsFit'
<1>1. call \in [Calls -> Call] /\ call' = [call EXCEPT ![c] = NoCall] /\ UNCHANGED users
  BY DEF UserInv, UsersTypeOK, CallLeaves
<1>2. call'[c] = NoCall
  BY <1>1
<1>3. CallFits(c)'
  BY <1>2 DEF CallFits, IsAt, Answered, NoCall
<1> QED
  BY <1>1, <1>3, NoCallIsCall, OneCall DEF CallsFit

\* The profile that is stored was read from the collection, under its login.
LEMMA FindStoreFits ==
    ASSUME UserInv, NEW c \in Calls, FindStore(c)
    PROVE  UserInv'
<1>1. /\ call \in [Calls -> Call] /\ profiles \in [Logins -> Profile \cup {None}]
      /\ CachedFits /\ CallFits(c) /\ UNCHANGED <<users, now>> /\ IsAt(c, "find", "store")
  BY DEF UserInv, UsersTypeOK, FindStore
<1>2. /\ call[c].login \in Logins /\ call[c].seen \subseteq ProfilesOf(call[c].login)
      /\ call[c].seen \subseteq Profile
  BY <1>1 DEF CallFits, IsAt, Call
<1>3. CallsFit'
  BY <1>1, ReplyFits, AnswerCodes DEF FindStore, IsAt, CallsFit
<1>4. profiles' \in [Logins -> Profile \cup {None}] /\ CachedFits'
  <2>1. CASE UNCHANGED profiles
    BY <1>1, <2>1 DEF CachedFits, ProfilesOf, WithLogin
  <2>2. CASE \E p \in call[c].seen : profiles' = [profiles EXCEPT ![call[c].login] = p]
    <3>1. PICK p \in call[c].seen : profiles' = [profiles EXCEPT ![call[c].login] = p]
      BY <2>2
    <3> QED
      BY <1>1, <1>2, <3>1 DEF CachedFits, ProfilesOf, WithLogin
  <2> QED
    BY <2>1, <2>2 DEF FindStore
<1> QED
  BY <1>1, <1>3, <1>4 DEF UserInv, UsersTypeOK, Distinct, CallsFit

\* A step that only moves a request.
LEMMA OnlyCalls ==
    ASSUME UserInv, CallsFit', UNCHANGED <<users, profiles, now>>
    PROVE  UserInv'
BY DEF UserInv, UsersTypeOK, Distinct, CachedFits, ProfilesOf, WithLogin, CallsFit

\* A profile runs out of time.
LEMMA ExpiresFits ==
    ASSUME UserInv, NEW l \in Logins, ProfileExpires(l)
    PROVE  UserInv'
<1>1. UNCHANGED <<users, now, call>> /\ profiles' = [profiles EXCEPT ![l] = None]
  BY DEF ProfileExpires
<1>2. profiles' \in [Logins -> Profile \cup {None}] /\ CachedFits'
  BY <1>1 DEF UserInv, UsersTypeOK, CachedFits, ProfilesOf, WithLogin
<1>3. \A c \in Calls : CallFits(c)'
  BY <1>1, ProfilesGrow DEF UserInv, CallFits, IsAt, Answered, New
<1> QED
  BY <1>1, <1>2, <1>3 DEF UserInv, UsersTypeOK, Distinct

\* The clock ticks.
LEMMA TickFits ==
    ASSUME UserInv, Tick
    PROVE  UserInv'
<1>1. UNCHANGED <<users, profiles, call>> /\ now' = now + 1 /\ now < MaxNow /\ now \in 0 .. MaxNow
  BY DEF Tick, UserInv, UsersTypeOK, Times
<1>2. now' \in Times
  BY <1>1, UserAssumption DEF Times
<1>3. \A c \in Calls : CallFits(c)'
  BY <1>1, ProfilesGrow DEF UserInv, CallFits, IsAt, Answered, New
<1> QED
  BY <1>1, <1>2, <1>3 DEF UserInv, UsersTypeOK, Distinct, CachedFits, ProfilesOf, WithLogin

-----------------------------------------------------------------------------
\* Every step keeps the invariant.
LEMMA StepUserInv == UserInv /\ [UserNext]_userVars => UserInv'
<1> SUFFICES ASSUME UserInv, [UserNext]_userVars PROVE UserInv'
  OBVIOUS
<1>1. CASE UNCHANGED userVars
  BY <1>1 DEF userVars, UserInv, UsersTypeOK, Distinct, CallFits, CachedFits, IsAt, Answered,
              New, ProfilesOf, WithLogin
<1>2. ASSUME NEW c \in Calls, CallArrives(c) PROVE UserInv'
  BY <1>2, ArrivalsFit, OnlyCalls
<1>3. ASSUME NEW c \in Calls, UserHandlerStep(c) PROVE UserInv'
  <2>1. CASE Insert(c)
    BY <2>1, InsertFits
  <2>2. CASE FindCache(c)
    BY <2>2, FindCacheFits, OnlyCalls DEF FindCache
  <2>3. CASE FindQuery(c)
    BY <2>3, FindQueryFits, OnlyCalls DEF FindQuery
  <2>4. CASE FindStore(c)
    BY <2>4, FindStoreFits
  <2>5. CASE SearchQuery(c)
    BY <2>5, SearchQueryFits, OnlyCalls DEF SearchQuery
  <2>6. CASE LoginAdmit(c)
    BY <2>6, LoginAdmitFits, OnlyCalls DEF LoginAdmit
  <2>7. CASE LoginQuery(c)
    BY <2>7, LoginQueryFits, OnlyCalls DEF LoginQuery
  <2> QED
    BY <1>3, <2>1, <2>2, <2>3, <2>4, <2>5, <2>6, <2>7 DEF UserHandlerStep
<1>4. ASSUME NEW c \in Calls, CallFails(c) PROVE UserInv'
  <2>1. CallsFit'
    BY <1>4, ReplyFits, AnswerCodes DEF CallFails, CallsFit
  <2> QED
    BY <1>4, <2>1, OnlyCalls DEF CallFails
<1>5. ASSUME NEW c \in Calls, CallLeaves(c) PROVE UserInv'
  BY <1>5, LeavesFit, OnlyCalls DEF CallLeaves
<1> QED
  BY <1>1, <1>2, <1>3, <1>4, <1>5, ExpiresFits, TickFits DEF UserNext

\* The invariant holds always.
LEMMA UserInvHolds == UserSpec => []UserInv
BY InitUserInv, StepUserInv, PTL DEF UserSpec

\* What is stored, cached and underway has the types the code gives it; above
\* all, every _id the service inserts is an int64 of its clock.
THEOREM UserTypesHold == UserSpec => []UsersTypeOK
<1>1. UserInv => UsersTypeOK
  BY DEF UserInv
<1> QED
  BY <1>1, UserInvHolds, PTL

\* Whoever logs in gets a token for the one account with that login, that
\* password and that id, whatever users are created meanwhile.
THEOREM LoginsOpenTheirAccount == UserSpec => []LoginOpensOwnAccount
<1>1. ASSUME UserInv, NEW c \in Calls, Answered(c, "login", 200)
      PROVE  \E d \in users :
               /\ d.login = call[c].login /\ d.password = call[c].password /\ d.id = call[c].id
               /\ \A other \in users : other.id = call[c].id => other = d
  BY <1>1 DEF UserInv, CallFits, Distinct
<1>2. UserInv => LoginOpensOwnAccount
  BY <1>1 DEF LoginOpensOwnAccount
<1> QED
  BY <1>2, UserInvHolds, PTL

\* The cache never answers with a document that was not inserted under the login
\* asked for, though no handler ever deletes a key.
THEOREM CachedProfilesAreTrue == UserSpec => []ProfilesAreTrue
<1>1. UserInv => ProfilesAreTrue
  BY DEF UserInv, CallFits, CachedFits, ProfilesAreTrue
<1> QED
  BY <1>1, UserInvHolds, PTL
=============================================================================
