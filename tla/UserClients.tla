---------------------------- MODULE UserClients -----------------------------
(***************************************************************************)
(* UserService seen by its clients: history variables record the accounts  *)
(* answers have confirmed, and those confirmed when a request arrived.     *)
(***************************************************************************)
EXTENDS UserService

VARIABLES
    confirmed,  \* <<login, password>> of the accounts answered 201
    since       \* since[c]: those the find, search or login in slot c asks for,
                \* when it arrived

userClientVars == <<users, profiles, now, call, confirmed, since>>

\* The logins a query asks for.
Asked(q) == IF q.op = "search" THEN q.mask ELSE {q.login}

UserObserve ==
    /\ confirmed' = confirmed \cup
         {<<call'[c].login, call'[c].password>> : c \in {x \in Calls :
              call'[x].op = "create" /\ call'[x].code = 201}}
    /\ since' = [c \in Calls |->
                   IF call'[c].op \notin {"find", "search", "login"} THEN {}
                   ELSE IF call[c] = NoCall
                        THEN {account \in confirmed : account[1] \in Asked(call'[c])}
                        ELSE since[c]]

UserClientInit ==
    /\ UserInit
    /\ confirmed = {}
    /\ since = [c \in Calls |-> {}]

UserClientSpec == UserClientInit /\ [][UserNext /\ UserObserve]_userClientVars

-----------------------------------------------------------------------------
\* Whoever has been answered 201 is found by every request sent later, whatever
\* was looked up, cached or expired before: a profile is never answered 404 (a
\* miss is not cached) and its password is never answered 401.
ConfirmedIsFound ==
    \A c \in Calls : \A account \in since[c] :
        /\ ~Answered(c, "find", 404)
        /\ call[c].password = account[2] => ~Answered(c, "login", 401)

\* Every search sent later that is answered 200 lists them, if the mask matches
\* their names: one document that cannot be read fails the search, it never
\* shortens the list.
ConfirmedAreListed ==
    \A c \in Calls : Answered(c, "search", 200) =>
        \A account \in since[c] : \E p \in call[c].seen : p.login = account[1]

\* An account that was confirmed is confirmed to one person: no retry and no
\* race is told 201 for the same login again.
ConfirmedOnce ==
    [][\A c \in Calls :
         /\ call[c].op = "create" /\ call[c].code = 0 /\ call'[c].code = 201
         => \A account \in confirmed : account[1] # call[c].login]_userClientVars
=============================================================================
