----------------------- MODULE MCReversibleTransfers -----------------------
(***************************************************************************)
(* Small instances of ReversibleTransfers: an owner with funds, and a       *)
(* guardian with the minimum, who is the explicit reverser or a destination *)
(* of transfers, and whose account may be reaped.                           *)
(***************************************************************************)
EXTENDS ReversibleTransfers

CONSTANTS owner, guardian, OwnerFunds

MCFree == [a \in Account |-> CASE a = owner -> OwnerFunds
                               [] a = guardian -> 2]
NoGenesisDelay == [a \in Account |-> 0]
OwnerDelay == [a \in Account |-> IF a = owner THEN 2 ELSE 0]
=============================================================================
