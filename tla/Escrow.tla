------------------------------- MODULE Escrow -------------------------------
(***************************************************************************)
(* What reversible transfers promise.  A deposit runs for the delay of its  *)
(* account, then goes to its destination; before that the guardian may take *)
(* it back.  A payment fails for two reasons only, and the deposit then     *)
(* stays where it is.  Payments beside the escrow spend what is in the      *)
(* wallets, never what is in the escrow, nor what is locked.                *)
(***************************************************************************)
EXTENDS Integers

CONSTANTS
  Account,
  Amount,   \* what deposits are made of
  Number,   \* tells identical deposits apart
  Delay,    \* delays that accounts register with
  Lock,     \* what may be locked of an account
  Minimum   \* what a wallet holds, unless it is empty

VARIABLES
  wallet,    \* what each account may spend, but for the locks
  escrowed,  \* what the escrow keeps of each account
  locks,
  delay,     \* the delay of each account, 0 when it is not registered
  guardian,  \* who takes the deposits of an account back
  running,   \* the blocks to go of each deposit under way
  stuck      \* how many deposits of each kind could not be paid

funds == <<wallet, escrowed>>
deposits == <<running, stuck>>
settings == <<delay, guardian>>

Deal == [who : Account, dest : Account, amount : Amount]

Init ==
  /\ wallet \in [Account -> Nat] /\ delay \in [Account -> Nat]
  /\ escrowed = [a \in Account |-> 0] /\ locks = [a \in Account |-> 0]
  /\ guardian = [a \in Account |-> a]
  /\ running = [t \in {} |-> 0] /\ stuck = [deal \in Deal |-> 0]

Register(a, d, g) ==
  /\ delay[a] = 0 /\ d > 0
  /\ delay' = [delay EXCEPT ![a] = d]
  /\ guardian' = [guardian EXCEPT ![a] = g]
  /\ UNCHANGED <<funds, locks, deposits>>

Deposit(deal, n) ==
  /\ delay[deal.who] > 0
  /\ <<deal, n>> \notin DOMAIN running
  /\ wallet[deal.who] >= deal.amount + Minimum
  /\ wallet' = [wallet EXCEPT ![deal.who] = @ - deal.amount]
  /\ escrowed' = [escrowed EXCEPT ![deal.who] = @ + deal.amount]
  /\ running' = [t \in DOMAIN running \cup {<<deal, n>>} |->
                   IF t = <<deal, n>> THEN delay[deal.who] ELSE running[t]]
  /\ UNCHANGED <<locks, settings, stuck>>

\* A deposit ends, and its amount goes from the escrow to a.
Settle(t, a) ==
  LET deal == t[1]
  IN  /\ escrowed' = [escrowed EXCEPT ![deal.who] = @ - deal.amount]
      /\ wallet' = [wallet EXCEPT ![a] = @ + deal.amount]
      /\ running' = [s \in DOMAIN running \ {t} |-> running[s]]
      /\ UNCHANGED <<locks, settings, stuck>>

\* Without the deposit the account has less than what is locked of it.
Locked(deal) ==
  wallet[deal.who] + escrowed[deal.who] - deal.amount < locks[deal.who]

\* The guardian takes a deposit back before its time has come.
Return(t) ==
  LET payer == t[1].who
  IN  /\ running[t] > 0
      /\ guardian[payer] = payer \/ ~Locked(t[1])
      /\ Settle(t, guardian[payer])

\* The destination is an account that the deposit does not suffice for.
Unborn(deal) == wallet[deal.dest] + deal.amount < Minimum

Pay(t) ==
  /\ running[t] = 0
  /\ ~Locked(t[1]) /\ ~Unborn(t[1])
  /\ Settle(t, t[1].dest)

Fail(t) ==
  /\ running[t] = 0
  /\ Locked(t[1]) \/ Unborn(t[1])
  /\ running' = [s \in DOMAIN running \ {t} |-> running[s]]
  /\ stuck' = [stuck EXCEPT ![t[1]] = @ + 1]
  /\ UNCHANGED <<funds, locks, settings>>

\* A block: no deposit that is due is left over from the last one.
Block ==
  /\ \A t \in DOMAIN running : running[t] > 0
  /\ running' = [t \in DOMAIN running |-> running[t] - 1]
  /\ UNCHANGED <<funds, locks, settings, stuck>>

\* Payments beside the escrow leave what is locked, and the minimum to whoever
\* has a deposit; at most one account's lock changes with them.
Spend ==
  /\ wallet' \in [Account -> Nat]
  /\ \A a \in Account :
       wallet'[a] < wallet[a] =>
         /\ wallet'[a] + escrowed[a] >= locks[a]
         /\ escrowed[a] > 0 => wallet'[a] >= Minimum
  /\ locks' = locks \/ \E a \in Account, v \in Lock : locks' = [locks EXCEPT ![a] = v]
  /\ UNCHANGED <<escrowed, settings, deposits>>

SetLock(a, v) ==
  /\ locks' = [locks EXCEPT ![a] = v]
  /\ UNCHANGED <<funds, settings, deposits>>

Next ==
  \/ \E a, g \in Account, d \in Delay : Register(a, d, g)
  \/ \E deal \in Deal, n \in Number : Deposit(deal, n)
  \/ \E t \in DOMAIN running : Return(t) \/ Pay(t) \/ Fail(t)
  \/ \E a \in Account, v \in Lock : SetLock(a, v)
  \/ Block
  \/ Spend

Spec == Init /\ [][Next]_<<funds, locks, settings, deposits>>
=============================================================================
