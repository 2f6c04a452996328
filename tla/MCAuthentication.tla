-------------------------- MODULE MCAuthentication --------------------------
(* Small instances of Authentication. *)
EXTENDS Authentication, TLC

CONSTANTS r1, r2, r3, r4, k1, k2, lower, upper, system, nobody

\* Two spellings of the username of user 1, one of user 2, who registered as
\* "@system", one of nobody.
MCUser == {1, 2}
MCName == {lower, upper, system, nobody}
MCNamed == (lower :> 1) @@ (upper :> 1) @@ (system :> 2) @@ (nobody :> Nil)
MCUsernameOf == <<lower, system>>
MCSecret == {k1, k2}

\* A mail, a second one or a login, a login (with the system token, if it is
\* known to anyone), and the use of a token.
MCRequest == {r1, r2, r3, r4}
MCMay == (r1 :> {"email"}) @@ (r2 :> {"email", "login"}) @@ (r3 :> {"login"}) @@ (r4 :> {"use"})
MCOperator == {r3}

Seconds(n) == [number |-> n, unit |-> 1, calendar |-> FALSE]
Years(n) == [number |-> n, unit |-> 3, calendar |-> TRUE]

Hours(n) == [number |-> n, unit |-> 2, calendar |-> FALSE]

\* One second; a date that may lie before 1970; and more hours than a
\* time.Duration holds.
MCLifetime == {Seconds(1), Years(-3), Hours(9)}

Secrets == Permutations(MCSecret)
=============================================================================
