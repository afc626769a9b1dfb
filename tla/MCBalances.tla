----------------------------- MODULE MCBalances -----------------------------
(* Balances on two accounts, which no operation tells apart. *)
EXTENDS Balances, TLC

Interchangeable == Permutations(Accounts)

=============================================================================
