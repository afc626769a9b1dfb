--------------------------- MODULE MCExternalMiner ---------------------------
(* Two jobs, a work whose first solution is nonce 2 and one without solution *)
(* in the range: headers and thresholds for words of five bits.              *)
EXTENDS ExternalMiner, QPowMath

CONSTANTS solvable, unsolvable

MCSha == [w \in Word |-> (11 * w + 3) % (WordMax + 1)]

\* The header as a number, its pair from get_random_rsa, the threshold.
MCHeader(w) == IF w = solvable THEN 3 ELSE 5
MCBase == 2
MCModulus == 15
MCThreshold(w) == IF w = solvable THEN 12 ELSE 1

MCValid == [w \in Work |-> IF w = solvable THEN {2} ELSE {}]

\* The table says what the arithmetic of the proof of work says.
ASSUME ValidIsComputed ==
  /\ RsaPair(MCBase, MCModulus)
  /\ \A w \in Work, n \in 0 .. MaxNonce :
       n \in MCValid[w] <=>
         IsValidNonce(MCHeader(w), MCBase, MCModulus, n, MCThreshold(w))

(* The number theory that the search relies on (qpow-math/src/lib.rs:63)     *)
(* agrees with its definitions, and no nonce but a whole number of turns is  *)
(* free of work (lib.rs:21); neither depends on the state, so they are       *)
(* evaluated where the table is empty.                                       *)
MathematicsHolds == jobs = NoJobs => NumberTheory /\ Distances
=============================================================================
