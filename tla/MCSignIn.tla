------------------------------ MODULE MCSignIn ------------------------------
(* Small instances of SignIn for TLC. *)
EXTENDS SignIn, TLC

CONSTANTS a, b, n1, n2

\* Every scenario starts with no account or with both.
Same == Permutations({a, b}) \cup Permutations({n1, n2})

\* A new account, from a first visit on.
Joining == [start |-> "landing", exists |-> {}, hasty |-> FALSE, calls |-> 2,
            pages |-> 1, codes |-> 2, ends |-> 1, faults |-> 1]

\* Sign-ins, sessions ended elsewhere, and another sign-in.
Returning == [Joining EXCEPT !.exists = {a, b}, !.calls = 3, !.pages = 2,
                             !.codes = 0, !.ends = 2]

\* Clicks faster than the answers.
Hurried == [Returning EXCEPT !.start = "forgot", !.hasty = TRUE,
                             !.calls = 2, !.pages = 0, !.ends = 1, !.faults = 0]

MCAll == {Joining, Returning, Hurried}

=============================================================================
