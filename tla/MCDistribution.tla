--------------------------- MODULE MCDistribution ---------------------------
(* Two users, the pot, three wormhole proofs, of which one releases less than   *)
(* the deposit and two share a nullifier, and a tree of two leaves with the     *)
(* proofs of both and a proof that fits neither.                                *)
EXTENDS Distribution

CONSTANTS alice, carol, pot

Left  == Leaf(alice, 2)
Right == Leaf(carol, 3)

Fields(nullifier, account, amount) ==
  [i \in 1 .. 18 |-> CASE i \in 1 .. 8  -> nullifier
                       [] i \in 9 .. 12 -> account
                       [] i = 13       -> amount
                       [] OTHER        -> 0]

MCPublicInputs == {Fields(1, 1, 1), Fields(2, 0, 2), Fields(2, 1, 3)}
MCAccountOf == [f \in {<<0, 0, 0, 0>>, <<1, 1, 1, 1>>} |-> IF f[1] = 0 THEN alice ELSE carol]
MCRoots == {Parent(Left, Right)}
MCProofs == {<<Left>>, <<Right>>, <<>>}

=============================================================================
