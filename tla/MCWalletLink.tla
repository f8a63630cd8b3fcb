---------------------------- MODULE MCWalletLink ----------------------------
(* Small instances of WalletLink for TLC.                                     *)
EXTENDS WalletLink, TLC

CONSTANTS u1, u2, t1, t2, t3, a1, a2, c1, c2

MCSymmetry == Permutations({a1, a2}) \cup Permutations({c1, c2})

\* t1 and t2 are pages of one account, t3 of another.
MCWallets ==
  {[user |-> (t1 :> u1) @@ (t2 :> u1), hazards |-> {"overlap"}],
   [user |-> (t1 :> u1) @@ (t2 :> u1), hazards |-> {"lost", "switched"}],
   [user |-> (t1 :> u1) @@ (t3 :> u2), hazards |-> {}],
   [user |-> (t1 :> u1) @@ (t2 :> u1) @@ (t3 :> u2), hazards |-> {"lost"}]}

=============================================================================
