--------------------------- MODULE MCUserService ----------------------------
(***************************************************************************)
(* Small instances of UserService.                                         *)
(***************************************************************************)
EXTENDS UserService, TLC

CONSTANTS SeedLogin, SeedEmail

\* A mask that matches everybody, and one that matches all but the seeded user.
TwoMasks == {Logins, Logins \ {SeedLogin}}

OneSeed == {[login |-> SeedLogin, email |-> SeedEmail]}

\* Who was seeded is the only thing definitions ask of a login or an email but
\* for equality.
UserSymmetry ==
    Permutations(Logins \ {SeedLogin}) \cup Permutations(Emails \ {SeedEmail})
        \cup Permutations(Passwords) \cup Permutations(Calls)
=============================================================================
