--------------------------- MODULE HeaviestChain ---------------------------
(***************************************************************************)
(* Fork choice and finalization.  PowBlockImport asks HeaviestChain for the *)
(* best chain, compares total difficulties, and hands the block with its    *)
(* decision to the client, which serialises only this last part: the import *)
(* queue and the node's own miner may both be between the two.  A task of   *)
(* its own finalizes the block MaxReorgDepth - 1 below the best one, once   *)
(* for each import that the client announces: in an initial sync it         *)
(* announces reorganisations only.                                          *)
(*                                                                          *)
(* A block carries the set of blocks of its chain, from genesis to itself,  *)
(* so its number is the size of that set less one.  The difficulty of a     *)
(* block is a function of its parent's state (next), which is why siblings  *)
(* weigh the same.                                                          *)
(***************************************************************************)
EXTENDS Naturals, FiniteSets, Functions, SequencesExt

CONSTANTS
  Importer,       \* the tasks that import blocks
  Own,            \* those that import the node's own blocks
  Difficulty,     \* difficulties the adjustment may arrive at
  InitialDifficulty,
  MaxReorgDepth,  \* of the runtime's configuration
  MaxBlocks       \* how many blocks are ever imported: a bound for the model

ASSUME ChainAssumption ==
  /\ Difficulty \subseteq Nat \ {0} /\ InitialDifficulty \in Difficulty
  /\ MaxReorgDepth \in Nat \ {0} /\ MaxBlocks \in Nat
  /\ IsFiniteSet(Importer) /\ Own \subseteq Importer

VARIABLES
  tree,       \* imported blocks with what their header and state say
  best,       \* client.info().best_hash
  finalized,  \* client.info().finalized_hash
  ignored,    \* leaves under IGNORED_CHAINS_PREFIX in the auxiliary store
  import,     \* per importer: the parent and the best total it goes by
  notes,      \* import notifications the finalization task has not taken
  task,       \* where the finalization task is, and what it has read
  silent      \* history: blocks that became the best one without a notification
              \* since the task has last read the best block

vars == <<tree, best, finalized, ignored, import, notes, task, silent>>

Genesis == 0
Idle == [at |-> "idle"]
Block == 0 .. MaxBlocks
Known == DOMAIN tree

Number(b) == Cardinality(tree[b].chain) - 1

(* Block b descends from a, or is a. *)
Extends(b, a) == a \in tree[b].chain

(***************************************************************************)
(* The client drops the leaves of branches that finalization displaces.     *)
(***************************************************************************)
Live == {b \in Known : Extends(b, finalized)}
Leaves == {b \in Live : \A c \in Live \ {b} : ~Extends(c, b)}

(* find_common_ancestor_and_depth: the longer of the two branches. *)
ReorgDepth(a, b) ==
  LET la == Cardinality(tree[a].chain \ tree[b].chain)
      lb == Cardinality(tree[b].chain \ tree[a].chain)
  IN IF la > lb THEN la ELSE lb

TooDeep(l) == ReorgDepth(best, l) > MaxReorgDepth

(* calculate_chain_work: the TotalWork of the state after block b.  Genesis
   has a work of one, and the default total difficulty, zero, in PowAux. *)
ChainWork(b) == tree[b].total + 1

(* Mutant: equal work is enough to switch. *)
BetterOrEqual(l, b) == ChainWork(l) >= ChainWork(b)

(* The comparison of best_chain: work first, then height. *)
Better(l, b) ==
  \/ ChainWork(l) > ChainWork(b)
  \/ ChainWork(l) = ChainWork(b) /\ Number(l) > Number(b)

(* is_chain_ignored: by the hash of the leaf alone. *)
IsChainIgnored(l) == l \in ignored

(***************************************************************************)
(* best_chain over the leaves in the order the backend lists them.  Depth   *)
(* is measured from the client's best block, not from the running choice.   *)
(***************************************************************************)
Consider(b, l) ==
  IF ~IsChainIgnored(l) /\ ~TooDeep(l) /\ Better(l, b) THEN l ELSE b

BestChain(order) ==
  LET choice[k \in 0 .. Len(order)] ==
        IF k = 0 THEN best ELSE Consider(choice[k - 1], order[k])
  IN choice[Len(order)]

(* find_best_chain, for a client that has no best header yet: the set of at
   most one block, the first of the heaviest leaves. *)
Heavier(r, l) == IF \E b \in r : ChainWork(l) <= ChainWork(b) THEN r ELSE {l}

FindBestChain(order) ==
  LET choice[k \in 0 .. Len(order)] ==
        IF k = 0 THEN {} ELSE Heavier(choice[k - 1], order[k])
  IN choice[Len(order)]

Orders == SetToSeqs(Leaves)

(* add_ignored_chain for each: the list only grows. *)
AddIgnored(leaves) == ignored' = ignored \cup leaves

(* What the same call leaves in the auxiliary store. *)
Ignore == AddIgnored({l \in Leaves : TooDeep(l)})

----------------------------------------------------------------------------
Init ==
  /\ tree = [b \in {Genesis} |->
               [chain |-> {b}, total |-> 0, next |-> InitialDifficulty]]
  /\ best = Genesis /\ finalized = Genesis
  /\ ignored = {}
  /\ import = [i \in Importer |-> Idle]
  /\ notes = 0 /\ task = Idle /\ silent = 0

(* The authoring task asks for the best chain. *)
Select == Ignore /\ UNCHANGED <<tree, best, finalized, import, notes, task, silent>>

(* import_block up to the comparison: the best chain and its total. *)
Begin(i) ==
  /\ import[i] = Idle
  /\ Cardinality(Known) + Cardinality({j \in Importer : import[j] # Idle})
       <= MaxBlocks
  /\ \E p \in Live, o \in Orders, b \in Leaves \cup {best} :
       /\ b = BestChain(o)
       /\ import' = [import EXCEPT ![i] =
                       [at |-> "decided", parent |-> p, bar |-> tree[b].total]]
  /\ Ignore
  /\ UNCHANGED <<tree, best, finalized, notes, task, silent>>

(* The block is refused after the question: check_inherents, a missing seal,
   an invalid one.  What best_chain left on the ignore list stays. *)
Refuse(i) ==
  /\ import[i] # Idle
  /\ import' = [import EXCEPT ![i] = Idle]
  /\ UNCHANGED <<tree, best, finalized, ignored, notes, task, silent>>

(* difficulty(parent): what the runtime says at the parent. *)
DifficultyAfter(p) == tree[p].next

(* PowAux of a child: total_difficulty.increment(difficulty). *)
ChildTotal(p) == tree[p].total + DifficultyAfter(p)

(* Mutant: the block's own difficulty is not added. *)
IsNewBestOfParent(i) == tree[import[i].parent].total > import[i].bar

(* Mutant: every block becomes the best one. *)
IsNewBestAlways(i) == TRUE

(* The algorithm keeps the default: the block seen first stays. *)
BreakTie == FALSE

(* The fork choice. *)
IsNewBest(i) ==
  LET total == ChildTotal(import[i].parent)
  IN \/ total > import[i].bar
     \/ total = import[i].bar /\ BreakTie

(* Where the block comes from, as the client is told. *)
Origin(i) == IF i \in Own THEN {"own"} ELSE {"broadcast", "initial sync"}

(* import_notification_stream, unlike every_import_notification_stream, leaves
   out the blocks of an initial sync that do not reorganise. *)
Announced(i, origin) ==
  origin # "initial sync" \/ (IsNewBest(i) /\ import[i].parent # best)

(* The client imports the block with the decision made before.  A parent
   that finalization has displaced has no state any more. *)
Finish(i) ==
  /\ import[i] # Idle
  /\ import' = [import EXCEPT ![i] = Idle]
  /\ LET p == import[i].parent
         b == Cardinality(Known)
     IN IF Extends(p, finalized)
        THEN /\ \E d \in Difficulty :
                  tree' = [c \in Known \cup {b} |->
                             IF c = b THEN [chain |-> tree[p].chain \cup {b},
                                            total |-> ChildTotal(p),
                                            next |-> d]
                                      ELSE tree[c]]
             /\ best' = IF IsNewBest(i) THEN b ELSE best
             /\ \E origin \in Origin(i) :
                  IF Announced(i, origin)
                  THEN notes' = notes + 1 /\ UNCHANGED silent
                  ELSE /\ silent' = silent + (IF IsNewBest(i) THEN 1 ELSE 0)
                       /\ UNCHANGED notes
        ELSE UNCHANGED <<tree, best, notes, silent>>
  /\ UNCHANGED <<finalized, ignored, task>>

----------------------------------------------------------------------------
(* Mutant: one block too deep. *)
FinalizeDepthOff == MaxReorgDepth

(* max_reorg_depth.saturating_sub(1), with a depth of at least one *)
FinalizeDepth == MaxReorgDepth - 1

(* finalize_canonical_at_depth reads the best block ... *)
ReadBest ==
  /\ task = Idle /\ notes > 0
  /\ notes' = notes - 1
  /\ silent' = 0
  /\ task' = IF Number(best) <= FinalizeDepth THEN Idle
             ELSE [at |-> "number", number |-> Number(best) - FinalizeDepth,
                   seen |-> best]
  /\ UNCHANGED <<tree, best, finalized, ignored, import>>

(* Mutant: the task gives up when the best block is another one by now. *)
ReadCanonicalOfSeen ==
  /\ task.at = "number"
  /\ IF best # task.seen \/ Number(best) < task.number THEN task' = Idle
     ELSE \E h \in tree[best].chain :
            /\ Number(h) = task.number
            /\ task' = [at |-> "hash", hash |-> h, seen |-> task.seen]
  /\ UNCHANGED <<tree, best, finalized, ignored, import, notes, silent>>

(* ... then the canonical block of that number, if the chain is as long ... *)
ReadCanonical ==
  /\ task.at = "number"
  /\ IF Number(best) < task.number THEN task' = Idle
     ELSE \E h \in tree[best].chain :
            /\ Number(h) = task.number
            /\ task' = [at |-> "hash", hash |-> h, seen |-> task.seen]
  /\ UNCHANGED <<tree, best, finalized, ignored, import, notes, silent>>

(* Mutant: the best block stays where it is. *)
FinalizeBlockOnly ==
  /\ task.at = "hash"
  /\ task' = Idle
  /\ finalized' = IF Extends(task.hash, finalized) THEN task.hash ELSE finalized
  /\ UNCHANGED <<tree, best, ignored, import, notes, silent>>

(* ... and finalizes it, unless it is below or beside the finalized block.
   The client moves its best block when that is on another branch. *)
FinalizeBlock ==
  /\ task.at = "hash"
  /\ task' = Idle
  /\ IF Extends(task.hash, finalized)
     THEN /\ finalized' = task.hash
          /\ best' = IF Extends(best, task.hash) THEN best ELSE task.hash
     ELSE UNCHANGED <<finalized, best>>
  /\ UNCHANGED <<tree, ignored, import, notes, silent>>

Finalization == ReadBest \/ ReadCanonical \/ FinalizeBlock

Next ==
  \/ Select
  \/ \E i \in Importer : Begin(i) \/ Finish(i) \/ Refuse(i)
  \/ Finalization

Spec == Init /\ [][Next]_vars

(* An import that has begun returns, and the finalization task is an
   essential task that is polled whenever it has a notification. *)
FairSpec ==
  /\ Spec
  /\ \A i \in Importer : WF_vars(Finish(i) \/ Refuse(i))
  /\ WF_vars(Finalization)

----------------------------------------------------------------------------
(* Type invariant, with the facts about chains that the rest relies on: the
   best block always extends the finalized one. *)
TypeOK ==
  /\ \E n \in Block : Known = 0 .. n
  /\ \A b \in Known :
       /\ tree[b].chain \subseteq Known /\ b \in tree[b].chain
       /\ tree[b].total \in Nat /\ tree[b].next \in Difficulty
       /\ \A a \in tree[b].chain : tree[a].chain \subseteq tree[b].chain
  /\ best \in Live /\ finalized \in Known /\ ignored \subseteq Known
  /\ \A i \in Importer : import[i] = Idle \/ import[i].parent \in Known
  /\ notes \in 0 .. MaxBlocks /\ silent \in 0 .. MaxBlocks
  /\ task.at \in {"idle", "number", "hash"}

(* Whatever the order of the leaves, best_chain (chain_management.rs:583)
   returns a block that no leaf within the limit and off the ignore list
   outweighs, or equals in weight and exceeds in height; and find_best_chain
   (:210), which knows no limit, returns one that no leaf outweighs. *)
SelectionIsHeaviest ==
  LET leaves == Leaves
      within == {l \in leaves \ ignored : ReorgDepth(best, l) <= MaxReorgDepth}
  IN
  \A o \in Orders :
    LET r == BestChain(o) IN
    /\ r \in leaves \cup {best}
    /\ r # best => r \in within
    /\ \A l \in within :
         \/ tree[l].total < tree[r].total
         \/ tree[l].total = tree[r].total /\ Number(l) <= Number(r)
    /\ \E h \in leaves : /\ FindBestChain(o) = {h}
                        /\ \A l \in leaves : tree[l].total <= tree[h].total

Heaviest == \A l \in Live : tree[l].total <= tree[best].total

(* Import (pow/src/lib.rs:384) keeps the client on a chain that no live leaf
   outweighs, ignored ones included, as long as imports do not overlap: the
   totals of PowAux and the work of best_chain agree. *)
ImportKeepsHeaviest ==
  [][\A i \in Importer :
       (Finish(i) /\ Heaviest /\ import[i].bar = tree[best].total)
         => Heaviest']_vars

(* The client's best block gets lighter only through a decision made on a
   best chain that has been overtaken since: by an import that overlapped, or
   by a finalization (chain_management.rs:64) between whose reads and whose
   call the node reorganised. *)
OnlyRacesLighten ==
  [][tree'[best'].total < tree[best].total =>
       \/ \E i \in Importer : Finish(i) /\ import[i].bar < tree[best].total
       \/ task.at = "hash" /\ task.seen # best]_vars

(* Finality follows the announced best block: whenever the task
   (chain_management.rs:858) has a notification to take, the finalized block
   comes to be at most MaxReorgDepth - 1 below the block that is the best one
   now, or the node leaves it for a lower one, whatever is imported or
   reorganised while the task reads. *)
FinalityCatchesUp ==
  \A n \in MaxReorgDepth .. MaxBlocks :
    notes > 0 /\ Number(best) = n ~>
      Number(finalized) + MaxReorgDepth - 1 >= n \/ Number(best) < n

(* A task (chain_management.rs:64) that has taken every notification and sleeps
   has left nothing behind but blocks it was never told of, whatever was
   imported or reorganised between its two reads of the best block and its
   call: no announced block stays in a backlog. *)
AsleepOnlyWhenCaughtUp ==
  notes = 0 /\ task = Idle =>
    Number(best) <= Number(finalized) + MaxReorgDepth - 1 + silent

(* "Get the max possible reorg depth" (primitives/consensus/qpow/src/lib.rs:38):
   with finalization up to date, the client never moves to a chain that
   best_chain would put on the ignore list for its depth. *)
ReorgLimit ==
  [][notes = 0 /\ task = Idle /\ silent = 0 =>
       LET old == tree'[best].chain
           new == tree'[best'].chain
       IN /\ Cardinality(old \ new) <= MaxReorgDepth
          /\ Cardinality(new \ old) <= MaxReorgDepth]_vars

=============================================================================
