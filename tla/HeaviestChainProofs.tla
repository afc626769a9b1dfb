------------------------ MODULE HeaviestChainProofs ------------------------
(***************************************************************************)
(* Safety of fork choice and finalization, for any number of importers, any *)
(* difficulties, reorganisation depth and number of blocks.  What is chosen *)
(* among the leaves is proved along their order, by least counterexample.   *)
(***************************************************************************)
EXTENDS HeaviestChain, FiniteSetTheorems, SequenceTheorems, WellFoundedInduction,
        TLAPS

(* The importers between their decision and the client. *)
Busy == {i \in Importer : import[i] # Idle}

(* Records of importers and of the finalization task refer to known blocks. *)
ImportInv ==
  /\ DOMAIN import = Importer
  /\ \A i \in Busy : import[i].parent \in Known /\ import[i].bar \in Nat

(* A block is numbered before it is imported, and announced, or not, after. *)
CountInv ==
  /\ Cardinality(Known) + Cardinality(Busy) <= MaxBlocks + 1
  /\ notes < Cardinality(Known) /\ silent < Cardinality(Known)

(* What the task is about to finalize lies on the chain it has read, as long
   as the best block is still the one it has seen. *)
TaskInv ==
  /\ task.at # "idle" => task.seen \in Known
  /\ task.at = "hash" => /\ task.hash \in Known
                         /\ task.seen = best => Extends(best, task.hash)

HInv == TypeOK /\ ImportInv /\ CountInv /\ TaskInv

----------------------------------------------------------------------------
\* As many blocks are known as their numbers say.
LEMMA KnownCount ==
  ASSUME TypeOK
  PROVE  /\ IsFiniteSet(Known) /\ Cardinality(Known) \in Nat \ {0}
         /\ Known = 0 .. Cardinality(Known) - 1
<1>1. PICK n \in Nat : Known = 0 .. n
  BY ChainAssumption DEF TypeOK, Block
<1>2. /\ IsFiniteSet(0 .. n) /\ Cardinality(0 .. n) = n - 0 + 1
  BY <1>1, FS_Interval
<1> QED BY <1>1, <1>2

\* Busy importers are finitely many.
LEMMA BusyFinite == IsFiniteSet(Busy) /\ Cardinality(Busy) \in Nat
<1>1. IsFiniteSet(Busy)
  BY ChainAssumption, FS_Subset DEF Busy
<1> QED BY <1>1, FS_CardinalityType

\* Before the first block all is at genesis.
LEMMA InitHInv == Init => HInv
<1> SUFFICES ASSUME Init PROVE HInv
  OBVIOUS
<1> USE ChainAssumption DEF Init
<1>1. Known = {0} /\ Known = 0 .. 0 /\ 0 \in Block
  BY DEF Known, Genesis, Block
<1>2. /\ tree[0].chain = {0} /\ tree[0].total = 0
      /\ tree[0].next = InitialDifficulty
  BY DEF Genesis
<1>3. best \in Live /\ finalized \in Known
  BY <1>1, <1>2 DEF Live, Extends, Genesis
<1>4. task.at = "idle" /\ \A i \in Importer : import[i] = Idle
  BY DEF Idle
<1>5. Busy = {} /\ Cardinality(Busy) = 0 /\ Cardinality(Known) = 1
  BY <1>1, <1>4, FS_EmptySet, FS_Singleton DEF Busy
<1>6. TypeOK
  BY <1>1, <1>2, <1>3, <1>4 DEF TypeOK
<1>7. ImportInv
  BY <1>5 DEF ImportInv
<1>8. CountInv
  BY <1>5 DEF CountInv
<1>9. TaskInv
  BY <1>4 DEF TaskInv
<1> QED BY <1>6, <1>7, <1>8, <1>9 DEF HInv

----------------------------------------------------------------------------
(* Steps that change neither the tree nor best and finalized *)

\* best_chain puts leaves on the ignore list, and those are known.
LEMMA IgnoreKeepsKnown ==
  ASSUME TypeOK, Ignore
  PROVE  ignored' \subseteq Known
BY DEF TypeOK, Ignore, AddIgnored, Leaves, Live

\* With the chain as it is, the invariant speaks of the rest only.
LEMMA SameChain ==
  ASSUME HInv, UNCHANGED <<tree, best, finalized>>,
         ignored' \subseteq Known, ImportInv', CountInv', TaskInv',
         task'.at \in {"idle", "number", "hash"}, notes' \in Nat, silent' \in Nat
  PROVE  HInv'
<1>1. /\ Known' = Known /\ Live' = Live
  BY DEF Known, Live, Extends, HInv
<1>2. \A i \in Importer : import'[i] = Idle \/ import'[i].parent \in Known'
  BY DEF ImportInv, Busy
<1>3. notes' \in 0 .. MaxBlocks /\ silent' \in 0 .. MaxBlocks
  <2>1. Cardinality(Known') \in Nat /\ Cardinality(Busy') \in Nat
    <3>1. Cardinality(Known) \in Nat
      BY KnownCount DEF HInv
    <3>2. IsFiniteSet(Busy')
      BY ChainAssumption, FS_Subset DEF Busy
    <3> QED BY <3>1, <3>2, <1>1, FS_CardinalityType
  <2> QED BY <2>1, ChainAssumption DEF CountInv
<1>4. TypeOK'
  BY <1>1, <1>2, <1>3 DEF HInv, TypeOK
<1> QED BY <1>4 DEF HInv

\* The authoring task's question.
LEMMA SelectKeepsHInv == ASSUME HInv, Select PROVE HInv'
<1> USE DEF Select
<1>1. ignored' \subseteq Known
  BY IgnoreKeepsKnown DEF HInv
<1>2. ImportInv' /\ CountInv' /\ TaskInv'
  BY DEF HInv, ImportInv, CountInv, TaskInv, Busy, Known, Extends
<1>3. task'.at \in {"idle", "number", "hash"} /\ notes' \in Nat /\ silent' \in Nat
  BY ChainAssumption DEF HInv, TypeOK
<1> QED BY <1>1, <1>2, <1>3, SameChain

\* An import that begins takes the place of a block to come.
LEMMA BeginKeepsHInv ==
  ASSUME HInv, NEW i \in Importer, Begin(i)
  PROVE  HInv'
<1> USE DEF Begin
<1>1. ignored' \subseteq Known
  BY IgnoreKeepsKnown DEF HInv
<1>2. PICK p \in Live, b \in Leaves \cup {best} :
        import' = [import EXCEPT ![i] =
                     [at |-> "decided", parent |-> p, bar |-> tree[b].total]]
  OBVIOUS
<1>3. p \in Known /\ tree[b].total \in Nat
  BY DEF HInv, TypeOK, Live, Leaves
<1>4. Known' = Known
  BY DEF Known
<1>5. ImportInv'
  <2>1. DOMAIN import' = Importer
    BY <1>2 DEF HInv, ImportInv
  <2>2. ASSUME NEW j \in Busy'
        PROVE  import'[j].parent \in Known /\ import'[j].bar \in Nat
    <3>1. CASE j = i
      BY <3>1, <1>2, <1>3 DEF HInv, ImportInv
    <3>2. CASE j # i
      BY <3>2, <2>2, <1>2 DEF HInv, ImportInv, Busy
    <3> QED BY <3>1, <3>2
  <2> QED BY <2>1, <2>2, <1>4 DEF ImportInv
<1>6. CountInv'
  <2>1. Busy' \subseteq Busy \cup {i} /\ i \notin Busy
    BY <1>2 DEF Busy, HInv, ImportInv
  <2>2. /\ IsFiniteSet(Busy \cup {i})
        /\ Cardinality(Busy \cup {i}) = Cardinality(Busy) + 1
    BY <2>1, BusyFinite, FS_AddElement
  <2>3. Cardinality(Busy') <= Cardinality(Busy) + 1 /\ IsFiniteSet(Busy')
    BY <2>1, <2>2, FS_Subset
  <2>4. Cardinality(Busy') \in Nat /\ Cardinality(Known) \in Nat
    BY <2>3, FS_CardinalityType, KnownCount DEF HInv
  <2>5. Cardinality(Known) + Cardinality(Busy) <= MaxBlocks
    BY DEF Busy
  <2> QED BY <2>3, <2>4, <2>5, <1>4, BusyFinite, ChainAssumption
       DEF HInv, CountInv
<1>7. TaskInv'
  BY <1>4 DEF HInv, TaskInv, Extends
<1>8. task'.at \in {"idle", "number", "hash"} /\ notes' \in Nat /\ silent' \in Nat
  BY ChainAssumption DEF HInv, TypeOK
<1> QED BY <1>1, <1>5, <1>6, <1>7, <1>8, SameChain

\* An importer that is done leaves its place.
LEMMA BusyShrinks ==
  ASSUME HInv, NEW i \in Importer, import[i] # Idle,
         import' = [import EXCEPT ![i] = Idle]
  PROVE  /\ Busy' = Busy \ {i} /\ i \in Busy
         /\ DOMAIN import' = Importer
         /\ \A j \in Busy' : import'[j] = import[j]
         /\ Cardinality(Busy') = Cardinality(Busy) - 1
         /\ Cardinality(Busy) \in Nat /\ Cardinality(Busy') \in Nat
<1>1. /\ Busy' = Busy \ {i} /\ i \in Busy
      /\ DOMAIN import' = Importer
      /\ \A j \in Busy' : import'[j] = import[j]
  BY DEF HInv, ImportInv, Busy
<1>2. /\ IsFiniteSet(Busy \ {i})
      /\ Cardinality(Busy \ {i}) = Cardinality(Busy) - 1
  BY <1>1, BusyFinite, FS_RemoveElement
<1>3. Cardinality(Busy \ {i}) \in Nat
  BY <1>2, FS_CardinalityType
<1> QED BY <1>1, <1>2, <1>3, BusyFinite

\* A refused block gives its place back.
LEMMA RefuseKeepsHInv ==
  ASSUME HInv, NEW i \in Importer, Refuse(i)
  PROVE  HInv'
<1> USE DEF Refuse
<1>1. Known' = Known /\ ignored' \subseteq Known
  BY DEF HInv, TypeOK, Known
<1>2. /\ Busy' = Busy \ {i} /\ DOMAIN import' = Importer
      /\ \A j \in Busy' : import'[j] = import[j]
      /\ Cardinality(Busy') = Cardinality(Busy) - 1
      /\ Cardinality(Busy) \in Nat /\ Cardinality(Busy') \in Nat
  BY BusyShrinks
<1>3. ImportInv'
  BY <1>1, <1>2 DEF HInv, ImportInv
<1>4. CountInv'
  <2>1. Cardinality(Known) \in Nat /\ notes' = notes /\ silent' = silent
    BY KnownCount DEF HInv
  <2> QED BY <1>1, <1>2, <2>1, ChainAssumption DEF HInv, CountInv
<1>5. TaskInv'
  BY <1>1 DEF HInv, TaskInv, Extends
<1>6. task'.at \in {"idle", "number", "hash"} /\ notes' \in Nat /\ silent' \in Nat
  BY ChainAssumption DEF HInv, TypeOK
<1> QED BY <1>1, <1>3, <1>4, <1>5, <1>6, SameChain

\* The finalization task reads the best block.
LEMMA ReadBestKeepsHInv == ASSUME HInv, ReadBest PROVE HInv'
<1> USE DEF ReadBest
<1>1. Known' = Known /\ Busy' = Busy /\ ignored' \subseteq Known
  BY DEF HInv, TypeOK, Known, Busy
<1>2. ImportInv'
  BY <1>1 DEF HInv, ImportInv
<1>3. notes \in Nat /\ notes' \in Nat /\ notes' = notes - 1 /\ silent' = 0
  BY ChainAssumption DEF HInv, TypeOK
<1>4. CountInv'
  BY <1>1, <1>3, KnownCount DEF HInv, CountInv
<1>5. /\ task'.at \in {"idle", "number"}
      /\ task'.at = "number" => task'.seen = best
  BY DEF Idle
<1>6. TaskInv'
  BY <1>1, <1>5 DEF HInv, TypeOK, TaskInv, Live
<1> QED BY <1>1, <1>2, <1>3, <1>4, <1>5, <1>6, SameChain

\* The finalization task reads the canonical block of its number.
LEMMA ReadCanonicalKeepsHInv == ASSUME HInv, ReadCanonical PROVE HInv'
<1> USE DEF ReadCanonical
<1>1. Known' = Known /\ Busy' = Busy /\ ignored' \subseteq Known
  BY DEF HInv, TypeOK, Known, Busy
<1>2. ImportInv'
  BY <1>1 DEF HInv, ImportInv
<1>3. CountInv' /\ notes' \in Nat /\ silent' \in Nat
  BY <1>1, ChainAssumption DEF HInv, TypeOK, CountInv
<1>4. \/ task' = Idle
      \/ \E h \in tree[best].chain :
           task' = [at |-> "hash", hash |-> h, seen |-> task.seen]
  OBVIOUS
<1>5. task'.at \in {"idle", "hash"}
  BY <1>4 DEF Idle
<1>6. TaskInv'
  <2>1. CASE task' = Idle
    BY <2>1 DEF TaskInv, Idle
  <2>2. ASSUME NEW h \in tree[best].chain,
               task' = [at |-> "hash", hash |-> h, seen |-> task.seen]
        PROVE  TaskInv'
    <3>1. h \in Known /\ task.seen \in Known
      BY DEF HInv, TypeOK, TaskInv, Live
    <3>2. h \in tree'[best'].chain
      OBVIOUS
    <3>3. task'.hash = h /\ task'.seen = task.seen
      BY <2>2
    <3> QED BY <3>1, <3>2, <3>3, <1>1 DEF TaskInv, Extends
  <2> QED BY <1>4, <2>1, <2>2
<1> QED BY <1>1, <1>2, <1>3, <1>5, <1>6, SameChain

----------------------------------------------------------------------------
(* Steps that change the chain *)

\* Finalizing keeps the best block on the chain of the finalized one.
LEMMA FinalizeKeepsHInv == ASSUME HInv, FinalizeBlock PROVE HInv'
<1> USE DEF FinalizeBlock
<1>1. /\ Known' = Known /\ Busy' = Busy /\ tree' = tree
  BY DEF Known, Busy
<1>2. task'.at = "idle"
  BY DEF Idle
<1>3. ImportInv' /\ CountInv' /\ TaskInv'
  BY <1>1, <1>2 DEF HInv, ImportInv, CountInv, TaskInv
<1>4. best' \in Known /\ finalized' \in Known /\ finalized' \in tree[best'].chain
  <2>1. task.hash \in Known /\ task.hash \in tree[task.hash].chain
    BY DEF HInv, TaskInv, TypeOK
  <2>2. CASE Extends(task.hash, finalized)
    BY <2>1, <2>2 DEF HInv, TypeOK, Live, Extends
  <2>3. CASE ~Extends(task.hash, finalized)
    BY <2>3 DEF HInv, TypeOK, Live, Extends
  <2> QED BY <2>2, <2>3
<1>5. best' \in Live'
  BY <1>1, <1>4 DEF Live, Extends
<1>6. TypeOK'
  BY <1>1, <1>2, <1>4, <1>5 DEF HInv, TypeOK
<1> QED BY <1>3, <1>6 DEF HInv

\* What an accepted block adds to the tree.
LEMMA GrownTree ==
  ASSUME HInv, NEW i \in Importer, Finish(i),
         Extends(import[i].parent, finalized)
  PROVE  LET b == Cardinality(Known)
             p == import[i].parent
         IN /\ b \notin Known /\ Known' = Known \cup {b} /\ Known' = 0 .. b
            /\ \A c \in Known : tree'[c] = tree[c]
            /\ tree'[b].chain = tree[p].chain \cup {b}
            /\ tree'[b].total = ChildTotal(p)
            /\ tree'[b].next \in Difficulty
            /\ p \in Known /\ ChildTotal(p) \in Nat
            /\ best' = (IF IsNewBest(i) THEN b ELSE best)
            /\ notes' \in {notes, notes + 1} /\ silent' \in {silent, silent + 1}
<1> DEFINE b == Cardinality(Known)
           p == import[i].parent
<1>1. PICK d \in Difficulty :
        tree' = [c \in Known \cup {b} |->
                   IF c = b THEN [chain |-> tree[p].chain \cup {b},
                                  total |-> ChildTotal(p),
                                  next |-> d]
                            ELSE tree[c]]
  BY DEF Finish
<1>2. Known' = Known \cup {b}
  BY <1>1 DEF Known
<1>3. b \in Nat \ {0} /\ Known = 0 .. b - 1
  BY KnownCount DEF HInv
<1>4. b \notin Known /\ Known \cup {b} = 0 .. b
  BY <1>3
<1>5. p \in Known
  BY DEF HInv, ImportInv, Busy, Finish
<1>6. tree[p].total \in Nat /\ tree[p].next \in Nat
  BY <1>5, ChainAssumption DEF HInv, TypeOK
<1>7. ChildTotal(p) \in Nat
  BY <1>6 DEF ChildTotal, DifficultyAfter
<1>8. \A c \in Known : tree'[c] = tree[c]
  BY <1>1, <1>4
<1>9. tree'[b] = [chain |-> tree[p].chain \cup {b},
                  total |-> ChildTotal(p), next |-> d]
  BY <1>1
<1>10. best' = (IF IsNewBest(i) THEN b ELSE best)
  BY DEF Finish
<1>11. notes' \in {notes, notes + 1} /\ silent' \in {silent, silent + 1}
  <2>1. silent \in Nat
    BY ChainAssumption DEF HInv, TypeOK
  <2>2. \/ notes' = notes + 1 /\ silent' = silent
        \/ notes' = notes /\ silent' = silent + (IF IsNewBest(i) THEN 1 ELSE 0)
    BY DEF Finish
  <2> QED BY <2>1, <2>2
<1> QED BY <1>2, <1>4, <1>5, <1>7, <1>8, <1>9, <1>10, <1>11

\* The client's import keeps the tree a tree.
LEMMA FinishKeepsHInv ==
  ASSUME HInv, NEW i \in Importer, Finish(i)
  PROVE  HInv'
<1>0. /\ import[i] # Idle /\ import' = [import EXCEPT ![i] = Idle]
      /\ UNCHANGED <<finalized, ignored, task>>
  BY DEF Finish
<1>1. CASE ~Extends(import[i].parent, finalized)
  <2>1. UNCHANGED <<tree, best, notes, silent>>
    BY <1>1 DEF Finish
  <2>2. Refuse(i)
    BY <2>1, <1>0 DEF Refuse
  <2> QED BY <2>2, RefuseKeepsHInv
<1>2. CASE Extends(import[i].parent, finalized)
  <2> DEFINE b == Cardinality(Known)
             p == import[i].parent
  <2>1. /\ b \notin Known /\ Known' = Known \cup {b} /\ Known' = 0 .. b
        /\ \A c \in Known : tree'[c] = tree[c]
        /\ tree'[b].chain = tree[p].chain \cup {b}
        /\ tree'[b].total = ChildTotal(p)
        /\ tree'[b].next \in Difficulty
        /\ p \in Known /\ ChildTotal(p) \in Nat
        /\ best' = (IF IsNewBest(i) THEN b ELSE best)
        /\ notes' \in {notes, notes + 1} /\ silent' \in {silent, silent + 1}
    BY <1>2, GrownTree
  <2> HIDE DEF b, p
  <2>2. b \in Nat \ {0} /\ Cardinality(Known') = b + 1
    <3>1. IsFiniteSet(Known) /\ b \in Nat \ {0}
      BY KnownCount DEF HInv, b
    <3>2. IsFiniteSet(Known) /\ b \notin Known /\ Known' = Known \cup {b}
      BY <3>1, <2>1
    <3>3. Cardinality(Known') = Cardinality(Known) + 1
      BY ONLY <3>2, FS_AddElement
    <3> QED BY <3>1, <3>3 DEF b
  <2>3. /\ Cardinality(Busy') = Cardinality(Busy) - 1
        /\ Cardinality(Busy) \in Nat /\ Cardinality(Busy') \in Nat
        /\ DOMAIN import' = Importer
        /\ Busy' \subseteq Busy /\ \A j \in Busy' : import'[j] = import[j]
    BY <1>0, BusyShrinks
  <2>4. CountInv'
    <3>1. b + Cardinality(Busy) <= MaxBlocks + 1 /\ notes < b /\ silent < b
      BY DEF HInv, CountInv, b
    <3>2. notes \in Nat /\ silent \in Nat
      BY ChainAssumption DEF HInv, TypeOK
    <3> QED BY <3>1, <3>2, <2>1, <2>2, <2>3, ChainAssumption DEF CountInv
  <2>5. ImportInv'
    BY <2>1, <2>3 DEF HInv, ImportInv
  <2>6. TaskInv'
    <3>1. task.at # "idle" => task.seen \in Known'
      BY <2>1 DEF HInv, TaskInv
    <3>2. ASSUME task.at = "hash"
          PROVE  /\ task.hash \in Known' /\ task.seen \in Known
                 /\ task.seen = best => task.hash \in tree[best].chain
      BY <3>2, <2>1 DEF HInv, TaskInv, Extends
    <3>3. ASSUME task.at = "hash", task.seen = best'
          PROVE  task.hash \in tree'[best'].chain
      <4>1. best' = best
        BY <3>2, <3>3, <2>1
      <4>2. best \in Known
        BY DEF HInv, TypeOK, Live
      <4> QED BY <4>1, <4>2, <3>2, <3>3, <2>1
    <3> QED BY <3>1, <3>2, <3>3, <1>0 DEF TaskInv, Extends
  <2>7. b \in Block /\ notes' \in 0 .. MaxBlocks /\ silent' \in 0 .. MaxBlocks
    <3>1. i \in Busy
      BY <1>0 DEF Busy
    <3>2. /\ Cardinality(Known') <= MaxBlocks + 1
          /\ notes' < Cardinality(Known') /\ silent' < Cardinality(Known')
      BY <2>4, <2>2, <2>3, ChainAssumption DEF CountInv
    <3>3. notes \in Nat /\ silent \in Nat
      BY ChainAssumption DEF HInv, TypeOK
    <3> QED BY <3>2, <3>3, <2>1, <2>2, ChainAssumption DEF Block
  <2>8. ASSUME NEW c \in Known'
        PROVE  /\ tree'[c].chain \subseteq Known' /\ c \in tree'[c].chain
               /\ tree'[c].total \in Nat /\ tree'[c].next \in Difficulty
               /\ \A a \in tree'[c].chain : tree'[a].chain \subseteq tree'[c].chain
    <3>1. CASE c \in Known
      <4>1. /\ tree[c].chain \subseteq Known /\ c \in tree[c].chain
            /\ tree[c].total \in Nat /\ tree[c].next \in Difficulty
            /\ \A a \in tree[c].chain : tree[a].chain \subseteq tree[c].chain
        BY <3>1 DEF HInv, TypeOK
      <4> QED BY <4>1, <3>1, <2>1
    <3>2. CASE c = b
      <4>1. /\ tree[p].chain \subseteq Known
            /\ \A a \in tree[p].chain : tree[a].chain \subseteq tree[p].chain
        BY <2>1 DEF HInv, TypeOK
      <4> QED BY <4>1, <3>2, <2>1
    <3> QED BY <3>1, <3>2, <2>1
  <2>9. best' \in Known' /\ finalized \in Known /\ finalized \in tree'[best'].chain
    <3>1. best \in Known /\ finalized \in tree[best].chain /\ finalized \in Known
      BY DEF HInv, TypeOK, Live, Extends
    <3>2. finalized \in tree[p].chain
      BY <1>2 DEF Extends, p
    <3> QED BY <3>1, <3>2, <2>1
  <2>10. best' \in Live' /\ finalized' \in Known' /\ ignored' \subseteq Known'
    BY <2>9, <2>1, <1>0 DEF Live, Extends, HInv, TypeOK
  <2>11. \A j \in Importer : import'[j] = Idle \/ import'[j].parent \in Known'
    BY <2>5 DEF ImportInv, Busy
  <2>12. task'.at \in {"idle", "number", "hash"}
    BY <1>0 DEF HInv, TypeOK
  <2>13. TypeOK'
    BY <2>1, <2>7, <2>8, <2>10, <2>11, <2>12 DEF TypeOK
  <2> QED BY <2>4, <2>5, <2>6, <2>13 DEF HInv
<1> QED BY <1>1, <1>2

\* Every step keeps the invariant.
LEMMA StepKeepsHInv == HInv /\ [Next]_vars => HInv'
<1> SUFFICES ASSUME HInv, [Next]_vars PROVE HInv'
  OBVIOUS
<1>1. CASE Select
  BY <1>1, SelectKeepsHInv
<1>2. ASSUME NEW i \in Importer, Begin(i) PROVE HInv'
  BY <1>2, BeginKeepsHInv
<1>3. ASSUME NEW i \in Importer, Finish(i) PROVE HInv'
  BY <1>3, FinishKeepsHInv
<1>4. ASSUME NEW i \in Importer, Refuse(i) PROVE HInv'
  BY <1>4, RefuseKeepsHInv
<1>5. CASE ReadBest
  BY <1>5, ReadBestKeepsHInv
<1>6. CASE ReadCanonical
  BY <1>6, ReadCanonicalKeepsHInv
<1>7. CASE FinalizeBlock
  BY <1>7, FinalizeKeepsHInv
<1>8. CASE UNCHANGED vars
  <2>1. ignored' \subseteq Known /\ ImportInv' /\ CountInv' /\ TaskInv'
    BY <1>8 DEF vars, HInv, TypeOK, ImportInv, CountInv, TaskInv, Busy,
                Known, Extends
  <2>2. task'.at \in {"idle", "number", "hash"} /\ notes' \in Nat /\ silent' \in Nat
    BY <1>8, ChainAssumption DEF vars, HInv, TypeOK
  <2> QED BY <1>8, <2>1, <2>2, SameChain DEF vars
<1> QED BY <1>1, <1>2, <1>3, <1>4, <1>5, <1>6, <1>7, <1>8
     DEF Next, Finalization

\* The invariant of fork choice and finalization.
LEMMA AlwaysHInv == Spec => []HInv
BY InitHInv, StepKeepsHInv, PTL DEF Spec

----------------------------------------------------------------------------
(* Induction and recursion along the order of the leaves *)

\* A set of numbers up to n that has zero and each successor has all of them.
LEMMA UpTo ==
  ASSUME NEW n \in Nat, NEW T, 0 \in T, \A k \in 1 .. n : k - 1 \in T => k \in T
  PROVE  \A k \in 0 .. n : k \in T
<1> DEFINE Bad == {k \in 0 .. n : k \notin T}
<1> SUFFICES ASSUME Bad # {} PROVE FALSE
  OBVIOUS
<1>1. Bad \subseteq Nat
  OBVIOUS
<1>2. PICK m \in Bad : \A k \in Bad : ~ (<<k, m>> \in OpToRel(<, Nat))
  BY <1>1, NatLessThanWellFounded, WFMin
<1>3. \A k \in Bad : ~ (k < m)
  BY <1>1, <1>2 DEF OpToRel
<1>4. m \in 1 .. n /\ m - 1 \in 0 .. n /\ m - 1 < m
  OBVIOUS
<1>5. m - 1 \in T
  BY <1>3, <1>4
<1> QED BY <1>4, <1>5

(* What is chosen after each of n elements, from nothing but the step.       *)
Iterates(c, n, first, step) ==
  c = [k \in 0 .. n |-> IF k = 0 THEN first ELSE step[<<c[k - 1], k>>]]

\* A choice that is made anew for each element of a sequence exists.
LEMMA ChoiceExists ==
  ASSUME NEW n \in Nat, NEW V, NEW first \in V, NEW step \in [V \X (1 .. n) -> V]
  PROVE  \E c \in [0 .. n -> V] : Iterates(c, n, first, step)
<1> DEFINE Follows(c, m) ==
             /\ c \in [0 .. m -> V] /\ c[0] = first
             /\ \A k \in 1 .. m : c[k] = step[<<c[k - 1], k>>]
           T == {m \in 0 .. n : \E c : Follows(c, m)}
<1>1. 0 \in T
  <2>1. Follows([k \in 0 .. 0 |-> first], 0)
    OBVIOUS
  <2> HIDE DEF Follows
  <2>2. 0 \in 0 .. n /\ \E e : Follows(e, 0)
    BY <2>1
  <2> QED BY <2>2
<1>2. ASSUME NEW m \in 1 .. n, m - 1 \in T
      PROVE  m \in T
  <2>1. PICK c : Follows(c, m - 1)
    BY <1>2
  <2> DEFINE d == [k \in 0 .. m |-> IF k = m THEN step[<<c[m - 1], m>>] ELSE c[k]]
  <2>2. c[m - 1] \in V /\ step[<<c[m - 1], m>>] \in V
    <3>1. m - 1 \in 0 .. m - 1
      OBVIOUS
    <3> QED BY <2>1, <3>1
  <2>3. d \in [0 .. m -> V]
    <3>1. \A k \in 0 .. m : k # m => k \in 0 .. m - 1
      OBVIOUS
    <3> QED BY <2>1, <2>2, <3>1
  <2>4. d[0] = first
    BY <2>1
  <2>5. ASSUME NEW k \in 1 .. m
        PROVE  d[k] = step[<<d[k - 1], k>>]
    <3>1. CASE k = m
      <4>1. m - 1 \in 0 .. m /\ m - 1 # m /\ m \in 0 .. m
        OBVIOUS
      <4>2. d[m - 1] = c[m - 1] /\ d[m] = step[<<c[m - 1], m>>]
        BY <4>1
      <4> QED BY <3>1, <4>2
    <3>2. CASE k # m
      <4>1. k \in 1 .. m - 1 /\ k \in 0 .. m /\ k - 1 \in 0 .. m /\ k - 1 # m
        BY <3>2
      <4>2. d[k] = c[k] /\ d[k - 1] = c[k - 1]
        BY <3>2, <4>1
      <4>3. c[k] = step[<<c[k - 1], k>>]
        BY <2>1, <4>1
      <4> QED BY <4>2, <4>3
    <3> QED BY <3>1, <3>2
  <2>6. Follows(d, m)
    <3> HIDE DEF d
    <3> QED BY <2>3, <2>4, <2>5
  <2> HIDE DEF Follows
  <2>7. m \in 0 .. n /\ \E e : Follows(e, m)
    BY <2>6
  <2> QED BY <2>7
<1>3. n \in T
  <2> HIDE DEF T
  <2>1. \A k \in 0 .. n : k \in T
    BY <1>1, <1>2, UpTo
  <2> QED BY <2>1
<1>4. PICK c : Follows(c, n)
  BY <1>3
<1>5. \A k \in 0 .. n : c[k] = IF k = 0 THEN first ELSE step[<<c[k - 1], k>>]
  BY <1>4
<1>6. c = [k \in 0 .. n |-> c[k]]
  BY <1>4
<1>7. Iterates(c, n, first, step)
  BY <1>5, <1>6 DEF Iterates
<1> QED BY <1>4, <1>7

\* Every leaf has its place in each order in which the backend may list them.
LEMMA OrderFacts ==
  ASSUME TypeOK, NEW order \in Orders
  PROVE  /\ Len(order) \in Nat /\ order \in [1 .. Len(order) -> Leaves]
         /\ \A l \in Leaves : \E k \in 1 .. Len(order) : order[k] = l
<1> DEFINE n == Cardinality(Leaves)
<1>1. IsFiniteSet(Leaves)
  <2>1. Leaves \subseteq Known
    BY DEF Leaves, Live
  <2> QED BY <2>1, KnownCount, FS_Subset
<1>2. n \in Nat
  BY <1>1, FS_CardinalityType
<1>3. /\ order \in [1 .. n -> Leaves]
      /\ \A i, j \in 1 .. n : i # j => order[i] # order[j]
  BY DEF Orders, SetToSeqs
<1> HIDE DEF n
<1>4. Len(order) = n
  <2>1. order \in Seq(Leaves)
    BY <1>2, <1>3, SeqDef
  <2>2. DOMAIN order = 1 .. Len(order) /\ Len(order) \in Nat
    BY <2>1, LenProperties
  <2>3. DOMAIN order = 1 .. n
    BY <1>3
  <2> DEFINE m == Len(order)
  <2>4. m \in Nat /\ 1 .. m = 1 .. n
    BY <2>2, <2>3
  <2> HIDE DEF m
  <2>5. (m > 0 => m \in 1 .. n) /\ (n > 0 => n \in 1 .. m)
    BY <1>2, <2>4
  <2> QED BY <1>2, <2>4, <2>5 DEF m
<1>5. order \in Injection(1 .. n, Leaves)
  BY <1>3 DEF Injection, IsInjective
<1>6. IsFiniteSet(1 .. n) /\ Cardinality(1 .. n) = n
  <2>1. 1 \in Int /\ n \in Int /\ (1 > n => n = 0) /\ n - 1 + 1 = n
    BY <1>2
  <2>2. /\ IsFiniteSet(1 .. n)
        /\ Cardinality(1 .. n) = IF 1 > n THEN 0 ELSE n - 1 + 1
    BY <2>1, FS_Interval
  <2> QED BY <2>1, <2>2
<1>7. order \in Surjection(1 .. n, Leaves)
  BY <1>1, <1>5, <1>6, FS_Injection DEF n
<1>8. \A l \in Leaves : \E k \in 1 .. n : order[k] = l
  BY <1>7 DEF Surjection
<1> QED BY <1>2, <1>3, <1>4, <1>8

\* The loop of best_chain, leaf by leaf.
LEMMA BestChainLoop ==
  ASSUME TypeOK, NEW order \in Orders
  PROVE  \E c \in [0 .. Len(order) -> Leaves \cup {best}] :
            /\ c[0] = best
            /\ \A k \in 1 .. Len(order) : c[k] = Consider(c[k - 1], order[k])
            /\ BestChain(order) = c[Len(order)]
<1> DEFINE n == Len(order)
           V == Leaves \cup {best}
           step == [p \in V \X (1 .. n) |-> Consider(p[1], order[p[2]])]
           Is(c) == c = [k \in 0 .. n |-> IF k = 0 THEN best ELSE Consider(c[k - 1], order[k])]
<1>1. n \in Nat /\ order \in [1 .. n -> Leaves]
  BY OrderFacts
<1> HIDE DEF n
<1>2. step \in [V \X (1 .. n) -> V]
  <2> SUFFICES ASSUME NEW b \in V, NEW k \in 1 .. n
               PROVE  Consider(b, order[k]) \in V
    OBVIOUS
  <2> QED BY <1>1 DEF Consider
<1>3. \A b \in V, k \in 1 .. n : step[<<b, k>>] = Consider(b, order[k])
  OBVIOUS
<1>4. best \in V
  OBVIOUS
<1> HIDE DEF step, V
<1> HIDE DEF Is
<1>5. PICK c \in [0 .. n -> V] :
        c = [k \in 0 .. n |-> IF k = 0 THEN best ELSE step[<<c[k - 1], k>>]]
  <2>1. n \in Nat /\ best \in V /\ step \in [V \X (1 .. n) -> V]
    BY <1>1, <1>2, <1>4
  <2>2. \E c \in [0 .. n -> V] : Iterates(c, n, best, step)
    BY <2>1, ChoiceExists
  <2> QED BY <2>2 DEF Iterates
<1> USE DEF Is
<1>6. \A k \in 1 .. n : k \in 0 .. n /\ k - 1 \in 0 .. n /\ k # 0 /\ c[k - 1] \in V
  BY <1>1, <1>5
<1>7. \A k \in 0 .. n : c[k] = IF k = 0 THEN best ELSE Consider(c[k - 1], order[k])
  <2> SUFFICES ASSUME NEW k \in 0 .. n
               PROVE  c[k] = IF k = 0 THEN best ELSE Consider(c[k - 1], order[k])
    OBVIOUS
  <2>1. c[k] = IF k = 0 THEN best ELSE step[<<c[k - 1], k>>]
    BY <1>5
  <2>2. k # 0 => k \in 1 .. n
    OBVIOUS
  <2> QED BY <1>3, <1>6, <2>1, <2>2
<1>8. Is(c)
  BY <1>5, <1>7
<1>9. BestChain(order) = (CHOOSE d : Is(d))[n]
  BY DEF BestChain, n
<1> DEFINE e == CHOOSE d : Is(d)
<1>10. Is(e)
  <2> HIDE DEF Is
  <2> QED BY <1>8
<1> HIDE DEF e
<1>11. /\ DOMAIN e = 0 .. n /\ e = [k \in 0 .. n |-> e[k]] /\ e[0] = best
       /\ \A k \in 1 .. n : e[k] = Consider(e[k - 1], order[k])
  <2>1. \A k \in 0 .. n : e[k] = IF k = 0 THEN best ELSE Consider(e[k - 1], order[k])
    BY <1>10
  <2>2. DOMAIN e = 0 .. n /\ e = [k \in 0 .. n |-> e[k]]
    BY <1>10
  <2>3. e[0] = best
    <3>1. 0 \in 0 .. n
      BY <1>1
    <3> QED BY <2>1, <3>1
  <2>4. ASSUME NEW k \in 1 .. n
        PROVE  e[k] = Consider(e[k - 1], order[k])
    <3>1. k \in 0 .. n /\ k # 0
      BY <1>1
    <3> QED BY <2>1, <3>1
  <2> QED BY <2>2, <2>3, <2>4
<1>12. e \in [0 .. n -> V]
  <2> DEFINE T == {k \in 0 .. n : e[k] \in V}
  <2>1. 0 \in T
    <3>1. 0 \in 0 .. n
      BY <1>1
    <3> QED BY <1>4, <1>11, <3>1
  <2>2. ASSUME NEW k \in 1 .. n, k - 1 \in T
        PROVE  k \in T
    <3>1. e[k - 1] \in V /\ k \in 0 .. n
      BY <1>1, <2>2
    <3>2. Consider(e[k - 1], order[k]) \in V
      <4>1. step[<<e[k - 1], k>>] \in V
        BY <1>2, <3>1
      <4> QED BY <1>3, <3>1, <4>1
    <3> QED BY <1>11, <3>1, <3>2
  <2>3. \A k \in 0 .. n : k \in T
    <3> HIDE DEF T
    <3> QED BY <1>1, <2>1, <2>2, UpTo
  <2>4. \A k \in 0 .. n : e[k] \in V
    BY <2>3
  <2> QED BY <1>11, <2>4
<1> QED BY <1>9, <1>11, <1>12 DEF n, V, e

\* The loop of find_best_chain.
LEMMA FindBestChainLoop ==
  ASSUME TypeOK, NEW order \in Orders
  PROVE  \E c \in [0 .. Len(order) -> SUBSET Leaves] :
            /\ c[0] = {}
            /\ \A k \in 1 .. Len(order) : c[k] = Heavier(c[k - 1], order[k])
            /\ FindBestChain(order) = c[Len(order)]
<1> DEFINE n == Len(order)
           V == SUBSET Leaves
           step == [p \in V \X (1 .. n) |-> Heavier(p[1], order[p[2]])]
           Is(c) == c = [k \in 0 .. n |-> IF k = 0 THEN {} ELSE Heavier(c[k - 1], order[k])]
<1>1. n \in Nat /\ order \in [1 .. n -> Leaves]
  BY OrderFacts
<1> HIDE DEF n
<1>2. step \in [V \X (1 .. n) -> V]
  <2> SUFFICES ASSUME NEW b \in V, NEW k \in 1 .. n
               PROVE  Heavier(b, order[k]) \in V
    OBVIOUS
  <2>1. order[k] \in Leaves
    BY <1>1
  <2> QED BY <2>1 DEF Heavier
<1>3. \A b \in V, k \in 1 .. n : step[<<b, k>>] = Heavier(b, order[k])
  OBVIOUS
<1>4. {} \in V
  OBVIOUS
<1> HIDE DEF step, V
<1> HIDE DEF Is
<1>5. PICK c \in [0 .. n -> V] :
        c = [k \in 0 .. n |-> IF k = 0 THEN {} ELSE step[<<c[k - 1], k>>]]
  <2> DEFINE none == {}
  <2>1. n \in Nat /\ none \in V /\ step \in [V \X (1 .. n) -> V]
    BY <1>1, <1>2, <1>4
  <2> HIDE DEF none
  <2>2. \E c \in [0 .. n -> V] : Iterates(c, n, none, step)
    BY <2>1, ChoiceExists
  <2> QED BY <2>2 DEF Iterates, none
<1> USE DEF Is
<1>6. \A k \in 1 .. n : k \in 0 .. n /\ k - 1 \in 0 .. n /\ k # 0 /\ c[k - 1] \in V
  BY <1>1, <1>5
<1>7. \A k \in 0 .. n : c[k] = IF k = 0 THEN {} ELSE Heavier(c[k - 1], order[k])
  <2> SUFFICES ASSUME NEW k \in 0 .. n
               PROVE  c[k] = IF k = 0 THEN {} ELSE Heavier(c[k - 1], order[k])
    OBVIOUS
  <2>1. c[k] = IF k = 0 THEN {} ELSE step[<<c[k - 1], k>>]
    BY <1>5
  <2>2. k # 0 => k \in 1 .. n
    OBVIOUS
  <2> QED BY <1>3, <1>6, <2>1, <2>2
<1>8. Is(c)
  BY <1>5, <1>7
<1>9. FindBestChain(order) = (CHOOSE d : Is(d))[n]
  BY DEF FindBestChain, n
<1> DEFINE e == CHOOSE d : Is(d)
<1>10. Is(e)
  <2> HIDE DEF Is
  <2> QED BY <1>8
<1> HIDE DEF e
<1>11. /\ DOMAIN e = 0 .. n /\ e = [k \in 0 .. n |-> e[k]] /\ e[0] = {}
       /\ \A k \in 1 .. n : e[k] = Heavier(e[k - 1], order[k])
  <2>1. \A k \in 0 .. n : e[k] = IF k = 0 THEN {} ELSE Heavier(e[k - 1], order[k])
    BY <1>10
  <2>2. DOMAIN e = 0 .. n /\ e = [k \in 0 .. n |-> e[k]]
    BY <1>10
  <2>3. e[0] = {}
    <3>1. 0 \in 0 .. n
      BY <1>1
    <3> QED BY <2>1, <3>1
  <2>4. ASSUME NEW k \in 1 .. n
        PROVE  e[k] = Heavier(e[k - 1], order[k])
    <3>1. k \in 0 .. n /\ k # 0
      BY <1>1
    <3> QED BY <2>1, <3>1
  <2> QED BY <2>2, <2>3, <2>4
<1>12. e \in [0 .. n -> V]
  <2> DEFINE T == {k \in 0 .. n : e[k] \in V}
  <2>1. 0 \in T
    <3>1. 0 \in 0 .. n
      BY <1>1
    <3> QED BY <1>4, <1>11, <3>1
  <2>2. ASSUME NEW k \in 1 .. n, k - 1 \in T
        PROVE  k \in T
    <3>1. e[k - 1] \in V /\ k \in 0 .. n
      BY <1>1, <2>2
    <3>2. Heavier(e[k - 1], order[k]) \in V
      <4>1. step[<<e[k - 1], k>>] \in V
        BY <1>2, <3>1
      <4> QED BY <1>3, <3>1, <4>1
    <3> QED BY <1>11, <3>1, <3>2
  <2>3. \A k \in 0 .. n : k \in T
    <3> HIDE DEF T
    <3> QED BY <1>1, <2>1, <2>2, UpTo
  <2>4. \A k \in 0 .. n : e[k] \in V
    BY <2>3
  <2> QED BY <1>11, <2>4
<1> QED BY <1>9, <1>11, <1>12 DEF n, V, e

----------------------------------------------------------------------------
(* What the loops choose *)

\* Totals and numbers of known blocks can be compared.
LEMMA BlockNumbers ==
  ASSUME TypeOK, NEW b \in Known
  PROVE  tree[b].total \in Nat /\ Number(b) \in Int
<1>1. tree[b].total \in Nat /\ tree[b].chain \subseteq Known
  BY DEF TypeOK
<1>2. IsFiniteSet(tree[b].chain)
  BY <1>1, KnownCount, FS_Subset
<1>3. Cardinality(tree[b].chain) \in Nat
  BY <1>2, FS_CardinalityType
<1> QED BY <1>1, <1>3 DEF Number

\* Being better is a strict order that is also transitive in its negation.
LEMMA BetterOrder ==
  ASSUME TypeOK, NEW a \in Known, NEW b \in Known, NEW c \in Known
  PROVE  /\ ~Better(a, a)
         /\ Better(b, a) /\ ~Better(c, a) => ~Better(c, b)
<1>1. /\ tree[a].total \in Nat /\ tree[b].total \in Nat /\ tree[c].total \in Nat
      /\ Number(a) \in Int /\ Number(b) \in Int /\ Number(c) \in Int
  BY BlockNumbers
<1> QED BY <1>1 DEF Better, ChainWork

(* A leaf that best_chain may choose.                                          *)
Eligible(l) == ~IsChainIgnored(l) /\ ~TooDeep(l)

\* best_chain (chain_management.rs:583) chooses the best of what it may choose
\* and what the client has.
LEMMA BestChainChooses ==
  ASSUME TypeOK, NEW order \in Orders
  PROVE  /\ BestChain(order) \in Leaves \cup {best}
         /\ BestChain(order) # best => Eligible(BestChain(order))
         /\ \A l \in Leaves : Eligible(l) => ~Better(l, BestChain(order))
<1> DEFINE n == Len(order)
<1>1. /\ n \in Nat /\ order \in [1 .. n -> Leaves]
      /\ \A l \in Leaves : \E k \in 1 .. n : order[k] = l
  BY OrderFacts
<1>2. PICK c \in [0 .. n -> Leaves \cup {best}] :
         /\ c[0] = best
         /\ \A k \in 1 .. n : c[k] = Consider(c[k - 1], order[k])
         /\ BestChain(order) = c[n]
  BY BestChainLoop
<1>3. Leaves \cup {best} \subseteq Known
  BY DEF TypeOK, Leaves, Live
<1> HIDE DEF n
<1> DEFINE Good(k) == /\ c[k] # best => Eligible(c[k])
                      /\ \A j \in 1 .. k : Eligible(order[j]) => ~Better(order[j], c[k])
           T == {k \in 0 .. n : Good(k)}
<1>4. 0 \in T
  <2>1. Good(0)
    BY <1>2
  <2>2. 0 \in 0 .. n
    BY <1>1
  <2> HIDE DEF Good
  <2> QED BY <2>1, <2>2
<1>5. ASSUME NEW k \in 1 .. n, k - 1 \in T
      PROVE  k \in T
  <2>1. Good(k - 1)
    BY <1>5
  <2>2. /\ c[k - 1] \in Leaves \cup {best} /\ order[k] \in Leaves
        /\ c[k] = Consider(c[k - 1], order[k])
        /\ k - 1 \in 0 .. n /\ k \in 0 .. n
    BY <1>1, <1>2
  <2>3. \A j \in 1 .. k : order[j] \in Known
    BY <1>1, <1>3
  <2>4. c[k - 1] \in Known /\ order[k] \in Known
    BY <1>3, <2>2
  <2>5. CASE Eligible(order[k]) /\ Better(order[k], c[k - 1])
    <3>1. c[k] = order[k]
      BY <2>2, <2>5 DEF Consider, Eligible
    <3>2. ASSUME NEW j \in 1 .. k, Eligible(order[j])
          PROVE  ~Better(order[j], order[k])
      <4>1. CASE j = k
        BY <2>4, <4>1, BetterOrder
      <4>2. CASE j # k
        <5>1. j \in 1 .. k - 1
          BY <4>2
        <5>2. ~Better(order[j], c[k - 1])
          BY <2>1, <3>2, <5>1
        <5> QED BY <2>3, <2>4, <2>5, <5>2, BetterOrder
      <4> QED BY <4>1, <4>2
    <3>3. Good(k)
      BY <2>5, <3>1, <3>2
    <3> HIDE DEF Good
    <3> QED BY <2>2, <3>3
  <2>6. CASE ~(Eligible(order[k]) /\ Better(order[k], c[k - 1]))
    <3>1. c[k] = c[k - 1]
      BY <2>2, <2>6 DEF Consider, Eligible
    <3>2. ASSUME NEW j \in 1 .. k, Eligible(order[j])
          PROVE  ~Better(order[j], c[k - 1])
      <4>1. CASE j = k
        BY <2>6, <3>2, <4>1
      <4>2. CASE j # k
        <5>1. j \in 1 .. k - 1
          BY <4>2
        <5> QED BY <2>1, <3>2, <5>1
      <4> QED BY <4>1, <4>2
    <3>3. Good(k)
      BY <2>1, <3>1, <3>2
    <3> HIDE DEF Good
    <3> QED BY <2>2, <3>3
  <2> QED BY <2>5, <2>6
<1>6. Good(n)
  <2> HIDE DEF T
  <2>1. \A k \in 0 .. n : k \in T
    BY <1>1, <1>4, <1>5, UpTo
  <2>2. n \in T
    BY <1>1, <2>1
  <2> QED BY <2>2 DEF T
<1>7. \A l \in Leaves : Eligible(l) => ~Better(l, c[n])
  BY <1>1, <1>6
<1>8. c[n] \in Leaves \cup {best}
  BY <1>1, <1>2
<1> QED BY <1>2, <1>6, <1>7, <1>8

\* find_best_chain (chain_management.rs:210) chooses a leaf of the greatest work,
\* if there is any leaf.
LEMMA FindBestChainChooses ==
  ASSUME TypeOK, NEW order \in Orders, Leaves # {}
  PROVE  \E h \in Leaves : /\ FindBestChain(order) = {h}
                           /\ \A l \in Leaves : tree[l].total <= tree[h].total
<1> DEFINE n == Len(order)
<1>1. /\ n \in Nat /\ order \in [1 .. n -> Leaves]
      /\ \A l \in Leaves : \E k \in 1 .. n : order[k] = l
  BY OrderFacts
<1>2. PICK c \in [0 .. n -> SUBSET Leaves] :
         /\ c[0] = {}
         /\ \A k \in 1 .. n : c[k] = Heavier(c[k - 1], order[k])
         /\ FindBestChain(order) = c[n]
  BY FindBestChainLoop
<1>3. \A l \in Leaves : tree[l].total \in Nat
  BY BlockNumbers DEF Leaves, Live
<1> HIDE DEF n
<1> DEFINE Best(h, k) == /\ c[k] = {h}
                         /\ \A j \in 1 .. k : tree[order[j]].total <= tree[h].total
           Good(k) == k > 0 => \E h \in Leaves : Best(h, k)
           T == {k \in 0 .. n : Good(k)}
<1>4. 0 \in T
  <2>1. Good(0)
    OBVIOUS
  <2>2. 0 \in 0 .. n
    BY <1>1
  <2> HIDE DEF Good
  <2> QED BY <2>1, <2>2
<1>5. ASSUME NEW k \in 1 .. n, k - 1 \in T
      PROVE  k \in T
  <2>1. Good(k - 1)
    BY <1>5
  <2>2. /\ order[k] \in Leaves
        /\ c[k] = Heavier(c[k - 1], order[k])
        /\ k \in 0 .. n /\ k > 0
    BY <1>1, <1>2
  <2>3. \A j \in 1 .. k : order[j] \in Leaves
    BY <1>1
  <2>4. CASE k = 1
    <3>1. c[k - 1] = {}
      BY <1>2, <2>4
    <3>2. c[k] = {order[k]}
      BY <2>2, <3>1 DEF Heavier
    <3>3. \A j \in 1 .. k : j = k
      BY <2>4
    <3>4. tree[order[k]].total <= tree[order[k]].total
      BY <1>3, <2>2
    <3>5. Best(order[k], k)
      BY <3>2, <3>3, <3>4
    <3> HIDE DEF Best
    <3>6. Good(k)
      BY <2>2, <3>5
    <3> HIDE DEF Good
    <3> QED BY <2>2, <3>6
  <2>5. CASE k # 1
    <3>1. k - 1 > 0
      BY <2>5
    <3>2. PICK h \in Leaves : Best(h, k - 1)
      <4> HIDE DEF Best
      <4> QED BY <2>1, <3>1
    <3>3. \A j \in 1 .. k : j = k \/ j \in 1 .. k - 1
      OBVIOUS
    <3>4. /\ tree[h].total \in Nat /\ tree[order[k]].total \in Nat
          /\ \A j \in 1 .. k : tree[order[j]].total \in Nat
      BY <1>3, <2>2, <2>3
    <3>5. CASE ChainWork(order[k]) <= ChainWork(h)
      <4>1. c[k] = {h}
        BY <2>2, <3>2, <3>5 DEF Heavier
      <4>2. tree[order[k]].total <= tree[h].total
        BY <3>4, <3>5 DEF ChainWork
      <4>3. Best(h, k)
        BY <3>2, <3>3, <4>1, <4>2
      <4> HIDE DEF Best
      <4>4. Good(k)
        BY <4>3
      <4> HIDE DEF Good
      <4> QED BY <2>2, <4>4
    <3>6. CASE ~(ChainWork(order[k]) <= ChainWork(h))
      <4>1. c[k] = {order[k]}
        BY <2>2, <3>2, <3>6 DEF Heavier
      <4>2. tree[h].total <= tree[order[k]].total
        BY <3>4, <3>6 DEF ChainWork
      <4>3. ASSUME NEW j \in 1 .. k
            PROVE  tree[order[j]].total <= tree[order[k]].total
        <5>1. CASE j = k
          BY <3>4, <5>1
        <5>2. CASE j \in 1 .. k - 1
          BY <3>2, <3>4, <4>2, <5>2
        <5> QED BY <3>3, <5>1, <5>2
      <4>4. Best(order[k], k)
        BY <4>1, <4>3
      <4> HIDE DEF Best
      <4>5. Good(k)
        BY <2>2, <4>4
      <4> HIDE DEF Good
      <4> QED BY <2>2, <4>5
    <3> QED BY <3>5, <3>6
  <2> QED BY <2>4, <2>5
<1>6. Good(n)
  <2> HIDE DEF T
  <2>1. \A k \in 0 .. n : k \in T
    BY <1>1, <1>4, <1>5, UpTo
  <2>2. n \in T
    BY <1>1, <2>1
  <2> QED BY <2>2 DEF T
<1>7. n > 0
  BY <1>1
<1>8. PICK h \in Leaves : Best(h, n)
  <2> HIDE DEF Best
  <2> QED BY <1>6, <1>7
<1> QED BY <1>1, <1>2, <1>8

----------------------------------------------------------------------------
(* There is a leaf *)

(* A block comes after all the others of its chain. *)
Ordered == \A b \in Known : \A a \in tree[b].chain : a <= b

\* The youngest live block is a leaf.
LEMMA LeafExists == ASSUME TypeOK, Ordered PROVE Leaves # {}
<1>1. PICK n \in Nat : Known = 0 .. n
  BY ChainAssumption DEF TypeOK, Block
<1> DEFINE D == {k \in 0 .. n : n - k \in Live}
<1>2. best \in Live /\ Live \subseteq 0 .. n
  BY <1>1 DEF TypeOK, Live
<1>3. D \subseteq Nat /\ \A b \in Live : n - b \in D
  <2> SUFFICES ASSUME NEW b \in Live PROVE n - b \in D
    OBVIOUS
  <2>1. n - b \in 0 .. n /\ n - (n - b) = b
    BY <1>2
  <2> QED BY <2>1
<1>4. PICK m \in D : \A k \in D : ~ (<<k, m>> \in OpToRel(<, Nat))
  BY <1>2, <1>3, NatLessThanWellFounded, WFMin
<1>5. \A k \in D : ~ (k < m)
  BY <1>3, <1>4 DEF OpToRel
<1>6. PICK b \in Live : m = n - b
  <2>1. m \in 0 .. n /\ n - m \in Live
    OBVIOUS
  <2>2. m = n - (n - m)
    BY <2>1
  <2> QED BY <2>1, <2>2
<1>7. \A c \in Live : c <= b
  <2> SUFFICES ASSUME NEW c \in Live PROVE c <= b
    OBVIOUS
  <2>1. ~ (n - c < m)
    BY <1>3, <1>5
  <2> QED BY <1>2, <1>6, <2>1
<1>8. \A c \in Live \ {b} : ~Extends(c, b)
  <2> SUFFICES ASSUME NEW c \in Live, Extends(c, b) PROVE c = b
    OBVIOUS
  <2>1. c \in Known /\ b \in tree[c].chain
    BY DEF Live, Extends
  <2>2. b <= c /\ c <= b
    BY <1>7, <2>1 DEF Ordered
  <2> QED BY <1>2, <2>2
<1> QED BY <1>8 DEF Leaves

\* No step changes the order of blocks.
LEMMA OrderedStepping == HInv /\ Ordered /\ [Next]_vars => Ordered'
<1> SUFFICES ASSUME HInv, Ordered, [Next]_vars PROVE Ordered'
  OBVIOUS
<1>1. CASE UNCHANGED tree
  BY <1>1 DEF Ordered, Known
<1>2. ASSUME NEW i \in Importer, Finish(i) PROVE Ordered'
  <2>1. CASE ~Extends(import[i].parent, finalized)
    <3>1. UNCHANGED tree
      BY <1>2, <2>1 DEF Finish
    <3> QED BY <3>1 DEF Ordered, Known
  <2>2. CASE Extends(import[i].parent, finalized)
    <3> DEFINE b == Cardinality(Known)
               p == import[i].parent
    <3>1. /\ b \notin Known /\ Known' = Known \cup {b} /\ Known' = 0 .. b
          /\ \A c \in Known : tree'[c] = tree[c]
          /\ tree'[b].chain = tree[p].chain \cup {b} /\ p \in Known
      BY <1>2, <2>2, GrownTree
    <3>2. b \in Nat /\ Known = 0 .. b - 1
      BY KnownCount DEF HInv
    <3> HIDE DEF b, p
    <3>3. p \in 0 .. b - 1 /\ tree[p].chain \subseteq 0 .. b - 1
      BY <3>1, <3>2 DEF HInv, TypeOK
    <3>4. \A a \in tree'[b].chain : a <= b
      BY <3>1, <3>2, <3>3
    <3>5. \A c \in Known : \A a \in tree'[c].chain : a <= c
      BY <3>1 DEF Ordered
    <3> QED BY <3>1, <3>4, <3>5 DEF Ordered
  <2> QED BY <2>1, <2>2
<1> QED BY <1>1, <1>2
     DEF Next, Finalization, Select, Begin, Refuse, ReadBest, ReadCanonical,
         FinalizeBlock, vars

----------------------------------------------------------------------------
(* The finalization task and its backlog *)

(* Of two blocks on one chain one extends the other. *)
Linear ==
  \A b \in Known : \A x, y \in tree[b].chain :
    x \in tree[y].chain \/ y \in tree[x].chain

(* Without a notification to take, what the task has read of the best block
   still stands, and is enough, but for blocks it was not told of. *)
BacklogInv ==
  notes = 0 =>
    /\ task.at = "idle" => Number(best) <= Number(finalized) + FinalizeDepth + silent
    /\ task.at = "number" => /\ task.number \in Nat
                             /\ Number(best) = task.number + FinalizeDepth + silent
    /\ task.at = "hash" =>
         /\ Extends(best, task.hash)
         /\ Number(best) = Number(task.hash) + FinalizeDepth + silent

\* A new block comes after all the others of its chain.
LEMMA LinearStepping == HInv /\ Linear /\ [Next]_vars => Linear'
<1> SUFFICES ASSUME HInv, Linear, [Next]_vars PROVE Linear'
  OBVIOUS
<1>1. CASE UNCHANGED tree
  BY <1>1 DEF Linear, Known
<1>2. ASSUME NEW i \in Importer, Finish(i) PROVE Linear'
  <2>1. CASE ~Extends(import[i].parent, finalized)
    <3>1. UNCHANGED tree
      BY <1>2, <2>1 DEF Finish
    <3> QED BY <3>1 DEF Linear, Known
  <2>2. CASE Extends(import[i].parent, finalized)
    <3> DEFINE b == Cardinality(Known)
               p == import[i].parent
    <3>1. /\ b \notin Known /\ Known' = Known \cup {b}
          /\ \A c \in Known : tree'[c] = tree[c]
          /\ tree'[b].chain = tree[p].chain \cup {b} /\ p \in Known
      BY <1>2, <2>2, GrownTree
    <3>2. \A c \in Known : tree[c].chain \subseteq Known
      BY DEF HInv, TypeOK
    <3> HIDE DEF b, p
    <3>3. ASSUME NEW c \in Known, NEW x \in tree[c].chain, NEW y \in tree[c].chain
          PROVE  x \in tree'[y].chain \/ y \in tree'[x].chain
      <4>1. x \in Known /\ y \in Known
        BY <3>2
      <4>2. x \in tree[y].chain \/ y \in tree[x].chain
        BY DEF Linear
      <4> QED BY <3>1, <4>1, <4>2
    <3>4. ASSUME NEW x \in tree'[b].chain, NEW y \in tree'[b].chain
          PROVE  x \in tree'[y].chain \/ y \in tree'[x].chain
      <4>1. CASE x = b \/ y = b
        BY <4>1
      <4>2. CASE x \in tree[p].chain /\ y \in tree[p].chain
        BY <3>1, <3>3, <4>2
      <4> QED BY <3>1, <4>1, <4>2
    <3>5. ASSUME NEW c \in Known',
                 NEW x \in tree'[c].chain, NEW y \in tree'[c].chain
          PROVE  x \in tree'[y].chain \/ y \in tree'[x].chain
      <4>1. CASE c = b
        BY <3>4, <4>1
      <4>2. CASE c \in Known
        <5>1. x \in tree[c].chain /\ y \in tree[c].chain
          BY <3>1, <4>2
        <5> QED BY <3>3, <4>2, <5>1
      <4> QED BY <3>1, <4>1, <4>2
    <3> QED BY <3>5 DEF Linear
  <2> QED BY <2>1, <2>2
<1> QED BY <1>1, <1>2
     DEF Next, Finalization, Select, Begin, Refuse, ReadBest, ReadCanonical,
         FinalizeBlock, vars

\* A block is not lower than the blocks of its chain.
LEMMA NumbersAlong ==
  ASSUME TypeOK, NEW b \in Known, NEW a \in tree[b].chain
  PROVE  a \in Known /\ Number(a) \in Nat /\ Number(b) \in Nat
         /\ Number(a) <= Number(b)
<1>1. /\ a \in Known /\ a \in tree[a].chain
      /\ tree[a].chain \subseteq tree[b].chain /\ tree[b].chain \subseteq Known
  BY DEF TypeOK
<1>2. IsFiniteSet(tree[b].chain)
  BY <1>1, KnownCount, FS_Subset
<1>3. /\ IsFiniteSet(tree[a].chain)
      /\ Cardinality(tree[a].chain) <= Cardinality(tree[b].chain)
  BY <1>1, <1>2, FS_Subset
<1>4. Cardinality(tree[a].chain) \in Nat /\ Cardinality(tree[b].chain) \in Nat
  BY <1>2, <1>3, FS_CardinalityType
<1>5. Cardinality(tree[a].chain) # 0
  BY <1>1, <1>3, FS_EmptySet
<1> QED BY <1>1, <1>3, <1>4, <1>5 DEF Number

\* The block of the task is finalized, or a later one is already.
LEMMA FinalizeClears ==
  ASSUME HInv, Linear, BacklogInv, FinalizeBlock
  PROVE  BacklogInv'
<1> SUFFICES ASSUME notes = 0
             PROVE  Number(best') <= Number(finalized') + FinalizeDepth + silent
  BY DEF FinalizeBlock, Idle, BacklogInv, Number
<1>1. /\ Extends(best, task.hash)
      /\ Number(best) = Number(task.hash) + FinalizeDepth + silent
      /\ silent \in Nat /\ FinalizeDepth \in Nat
  BY ChainAssumption DEF BacklogInv, FinalizeBlock, FinalizeDepth, HInv, TypeOK
<1>2. TypeOK /\ best \in Known /\ finalized \in tree[best].chain
  BY DEF HInv, TypeOK, Live, Extends
<1>3. CASE Extends(task.hash, finalized)
  <2>1. finalized' = task.hash /\ best' = best
    BY <1>1, <1>3 DEF FinalizeBlock
  <2>2. Number(task.hash) \in Nat /\ Number(best) \in Nat
    BY <1>1, <1>2, NumbersAlong DEF Extends
  <2>3. Number(best) <= Number(task.hash) + FinalizeDepth + silent
    BY <1>1, <2>2
  <2> QED BY <2>1, <2>3
<1>4. CASE ~Extends(task.hash, finalized)
  <2>1. finalized' = finalized /\ best' = best
    BY <1>4 DEF FinalizeBlock
  <2>2. task.hash \in tree[best].chain
    BY <1>1 DEF Extends
  <2>3. task.hash \in tree[finalized].chain
    BY <1>2, <1>4, <2>2 DEF Linear, Extends
  <2>4. finalized \in Known
    BY DEF HInv, TypeOK
  <2>5. /\ Number(task.hash) \in Nat /\ Number(finalized) \in Nat
        /\ Number(task.hash) <= Number(finalized)
    BY <1>2, <2>3, <2>4, NumbersAlong
  <2> QED BY <1>1, <2>1, <2>5
<1> QED BY <1>3, <1>4

\* Reading the best block, the task notes all that there is to finalize.
LEMMA ReadBestSuffices ==
  ASSUME HInv, ReadBest
  PROVE  BacklogInv'
<1>1. UNCHANGED <<tree, best, finalized>> /\ silent' = 0
  BY DEF ReadBest
<1>2. Number(best) \in Nat /\ Number(finalized) \in Nat /\ FinalizeDepth \in Nat
  <2>1. TypeOK /\ best \in Known /\ finalized \in tree[best].chain
    BY DEF HInv, TypeOK, Live, Extends
  <2> QED BY <2>1, NumbersAlong, ChainAssumption DEF FinalizeDepth
<1>3. CASE Number(best) <= FinalizeDepth
  <2>1. task'.at = "idle"
    BY <1>3 DEF ReadBest, Idle
  <2>2. Number(best) <= Number(finalized) + FinalizeDepth
    BY <1>2, <1>3
  <2> QED BY <1>1, <1>2, <2>1, <2>2 DEF BacklogInv, Number
<1>4. CASE ~(Number(best) <= FinalizeDepth)
  <2>1. task'.at = "number" /\ task'.number = Number(best) - FinalizeDepth
    BY <1>4 DEF ReadBest
  <2>2. task'.number \in Nat /\ Number(best) = task'.number + FinalizeDepth
    BY <1>2, <1>4, <2>1
  <2> QED BY <1>1, <1>2, <2>1, <2>2 DEF BacklogInv, Number
<1> QED BY <1>3, <1>4

\* The block of the number that was read is on the chain of the best block.
LEMMA ReadCanonicalSuffices ==
  ASSUME HInv, BacklogInv, ReadCanonical
  PROVE  BacklogInv'
<1> SUFFICES ASSUME notes = 0
             PROVE  /\ task'.at = "hash" /\ Extends(best, task'.hash)
                    /\ Number(best) = Number(task'.hash) + FinalizeDepth + silent
  BY DEF ReadCanonical, BacklogInv, Number, Extends
<1>1. /\ Number(best) = task.number + FinalizeDepth + silent
      /\ task.number \in Nat /\ FinalizeDepth \in Nat /\ silent \in Nat
  BY ChainAssumption DEF BacklogInv, ReadCanonical, FinalizeDepth, HInv, TypeOK
<1>2. CASE Number(best) < task.number
  BY <1>1, <1>2
<1>3. CASE ~(Number(best) < task.number)
  <2>1. PICK h \in tree[best].chain :
          /\ Number(h) = task.number
          /\ task' = [at |-> "hash", hash |-> h, seen |-> task.seen]
    BY <1>3 DEF ReadCanonical
  <2> QED BY <1>1, <2>1 DEF Extends
<1> QED BY <1>2, <1>3

\* What an accepted block does to the backlog: the client announces it, or it
\* leaves the best block alone or continues the best chain in silence.
LEMMA AnnouncedOrSilent ==
  ASSUME HInv, NEW i \in Importer, Finish(i), Extends(import[i].parent, finalized)
  PROVE  \/ notes' = notes + 1
         \/ notes' = notes /\ best' = best /\ silent' = silent
         \/ /\ notes' = notes /\ silent' = silent + 1
            /\ import[i].parent = best /\ best' = Cardinality(Known)
<1>1. silent \in Nat
  BY ChainAssumption DEF HInv, TypeOK
<1>2. CASE notes' = notes + 1
  BY <1>2
<1>3. CASE ~IsNewBest(i) /\ notes' # notes + 1
  <2>1. best' = best /\ notes' = notes /\ silent' = silent + 0
    BY <1>3 DEF Finish
  <2> QED BY <1>1, <2>1
<1>4. CASE IsNewBest(i) /\ notes' # notes + 1
  <2>1. PICK origin \in Origin(i) : ~Announced(i, origin)
    BY <1>4 DEF Finish
  <2>2. import[i].parent = best
    BY <1>4, <2>1 DEF Announced
  <2>3. best' = Cardinality(Known) /\ notes' = notes /\ silent' = silent + 1
    BY <1>4 DEF Finish
  <2> QED BY <2>2, <2>3
<1> QED BY <1>2, <1>3, <1>4

\* A block that continues the best chain makes it longer by one.
LEMMA BestGrows ==
  ASSUME HInv, NEW i \in Importer, Finish(i), Extends(import[i].parent, finalized),
         import[i].parent = best, best' = Cardinality(Known)
  PROVE  /\ Number(best)' = Number(best) + 1 /\ Number(best) \in Nat
         /\ Number(finalized)' = Number(finalized) /\ Number(finalized) \in Nat
         /\ \A h \in tree[best].chain :
              /\ h \in tree'[best'].chain /\ h \in Known /\ tree'[h] = tree[h]
              /\ Number(h) \in Nat
<1> DEFINE b == Cardinality(Known)
<1>1. /\ b \notin Known /\ \A c \in Known : tree'[c] = tree[c]
      /\ tree'[b].chain = tree[best].chain \cup {b}
  BY GrownTree
<1>2. /\ best \in Known /\ finalized \in tree[best].chain
      /\ best \in tree[best].chain /\ tree[best].chain \subseteq Known
  BY DEF HInv, TypeOK, Live, Extends
<1>3. \A h \in tree[best].chain : h \in Known /\ Number(h) \in Nat
  BY <1>2, NumbersAlong DEF HInv
<1> HIDE DEF b
<1>4. IsFiniteSet(tree[best].chain) /\ b \notin tree[best].chain
  BY <1>1, <1>2, KnownCount, FS_Subset DEF HInv
<1>5. /\ Cardinality(tree'[b].chain) = Cardinality(tree[best].chain) + 1
      /\ Cardinality(tree[best].chain) \in Nat
  BY <1>1, <1>4, FS_AddElement, FS_CardinalityType
<1>6. best' = b
  BY DEF b
<1>7. finalized' = finalized
  BY DEF Finish
<1>8. Number(finalized)' = Number(finalized)
  BY <1>1, <1>2, <1>7 DEF Number
<1>9. Number(best)' = Number(best) + 1
  BY <1>5, <1>6 DEF Number
<1> QED BY <1>1, <1>2, <1>3, <1>6, <1>8, <1>9

\* An import moves the best block to another branch with a notification only,
\* and continues the best chain without one by as many blocks as it counts.
LEMMA FinishKeepsBacklog ==
  ASSUME HInv, BacklogInv, NEW i \in Importer, Finish(i),
         Extends(import[i].parent, finalized)
  PROVE  BacklogInv'
<1>0. /\ notes \in Nat /\ silent \in Nat /\ FinalizeDepth \in Nat
      /\ finalized' = finalized /\ task' = task
  BY ChainAssumption DEF HInv, TypeOK, FinalizeDepth, Finish
<1>1. CASE notes' = notes + 1
  BY <1>0, <1>1 DEF BacklogInv
<1>2. CASE notes' = notes /\ best' = best /\ silent' = silent
  <2>1. \A c \in Known : tree'[c] = tree[c]
    BY GrownTree
  <2>2. best \in Known /\ finalized \in Known
    BY DEF HInv, TypeOK, Live
  <2>3. /\ Number(best)' = Number(best) /\ Number(finalized)' = Number(finalized)
        /\ tree'[best'] = tree[best]
    BY <1>0, <1>2, <2>1, <2>2 DEF Number
  <2>4. task.at = "hash" => tree'[task.hash] = tree[task.hash]
    BY <2>1 DEF HInv, TaskInv
  <2> QED BY <1>0, <1>2, <2>3, <2>4 DEF BacklogInv, Extends, Number
<1>3. CASE /\ notes' = notes /\ silent' = silent + 1
           /\ import[i].parent = best /\ best' = Cardinality(Known)
  <2> SUFFICES ASSUME notes = 0 PROVE BacklogInv'
    BY <1>3 DEF BacklogInv
  <2>1. /\ Number(best)' = Number(best) + 1 /\ Number(best) \in Nat
        /\ Number(finalized)' = Number(finalized) /\ Number(finalized) \in Nat
        /\ \A h \in tree[best].chain :
             /\ h \in tree'[best'].chain /\ h \in Known /\ tree'[h] = tree[h]
             /\ Number(h) \in Nat
    BY <1>3, BestGrows
  <2>2. CASE task.at = "idle"
    <3>1. Number(best) <= Number(finalized) + FinalizeDepth + silent
      BY <2>2 DEF BacklogInv
    <3>2. Number(best)' <= Number(finalized)' + FinalizeDepth + silent'
      BY ONLY <1>0, <1>3, <2>1, <3>1
    <3> QED BY <1>0, <2>2, <3>2 DEF BacklogInv
  <2>3. CASE task.at = "number"
    <3>1. task.number \in Nat /\ Number(best) = task.number + FinalizeDepth + silent
      BY <2>3 DEF BacklogInv
    <3>2. Number(best)' = task.number + FinalizeDepth + silent'
      BY ONLY <1>0, <1>3, <2>1, <3>1
    <3> QED BY <1>0, <2>3, <3>1, <3>2 DEF BacklogInv
  <2>4. CASE task.at = "hash"
    <3>1. /\ task.hash \in tree[best].chain
          /\ Number(best) = Number(task.hash) + FinalizeDepth + silent
      BY <2>4 DEF BacklogInv, Extends
    <3>2. /\ task'.hash \in tree'[best'].chain /\ Number(task.hash) \in Nat
          /\ Number(task.hash)' = Number(task.hash)
      BY <1>0, <2>1, <3>1 DEF Number
    <3>3. Number(best)' = Number(task.hash)' + FinalizeDepth + silent'
      BY ONLY <1>0, <1>3, <2>1, <3>1, <3>2
    <3> QED BY <1>0, <2>4, <3>2, <3>3 DEF BacklogInv, Extends
  <2> QED BY <2>2, <2>3, <2>4 DEF HInv, TypeOK
<1> QED BY <1>1, <1>2, <1>3, AnnouncedOrSilent

\* No step leaves a backlog behind.
LEMMA BacklogStepping == HInv /\ Linear /\ BacklogInv /\ [Next]_vars => BacklogInv'
<1> SUFFICES ASSUME HInv, Linear, BacklogInv, [Next]_vars PROVE BacklogInv'
  OBVIOUS
<1>1. CASE UNCHANGED <<tree, best, finalized, notes, task, silent>>
  BY <1>1 DEF BacklogInv, Number, Extends
<1>2. ASSUME NEW i \in Importer, Finish(i) PROVE BacklogInv'
  <2>1. CASE ~Extends(import[i].parent, finalized)
    <3>1. UNCHANGED <<tree, best, finalized, notes, task, silent>>
      BY <1>2, <2>1 DEF Finish
    <3> QED BY <3>1 DEF BacklogInv, Number, Extends
  <2>2. CASE Extends(import[i].parent, finalized)
    BY <1>2, <2>2, FinishKeepsBacklog
  <2> QED BY <2>1, <2>2
<1>3. CASE Finalization
  BY <1>3, FinalizeClears, ReadBestSuffices, ReadCanonicalSuffices DEF Finalization
<1> QED BY <1>1, <1>2, <1>3 DEF Next, Select, Begin, Refuse, vars

----------------------------------------------------------------------------
(* Theorems *)

\* The tree of blocks stays a tree, and the client's best block extends the
\* finalized one whatever imports and finalization (chain_management.rs:64)
\* interleave.
THEOREM BestAlwaysExtendsFinalized == Spec => []TypeOK
<1>1. HInv => TypeOK
  BY DEF HInv
<1> QED BY <1>1, AlwaysHInv, PTL

\* Finality never goes back: the new finalized block extends the old one
\* (chain_management.rs:64, the client's finalize_block).
THEOREM FinalityNeverGoesBack ==
  Spec => [][(finalized \in tree'[finalized'].chain)]_vars
<1>1. ASSUME HInv, [Next]_vars
      PROVE  [(finalized \in tree'[finalized'].chain)]_vars
  <2> SUFFICES ASSUME Next PROVE finalized \in tree'[finalized'].chain
    BY <1>1
  <2>0. finalized \in Known /\ finalized \in tree[finalized].chain
    BY <1>1 DEF HInv, TypeOK
  <2>1. CASE FinalizeBlock
    BY <2>0, <2>1 DEF FinalizeBlock, Extends
  <2>2. ASSUME NEW i \in Importer, Finish(i)
        PROVE  finalized \in tree'[finalized'].chain
    <3>1. CASE Extends(import[i].parent, finalized)
      <4>1. tree'[finalized] = tree[finalized]
        BY <1>1, <2>0, <2>2, <3>1, GrownTree
      <4>2. finalized' = finalized
        BY <2>2 DEF Finish
      <4> QED BY <4>1, <4>2, <2>0
    <3>2. CASE ~Extends(import[i].parent, finalized)
      BY <3>2, <2>0, <2>2 DEF Finish
    <3> QED BY <3>1, <3>2
  <2>3. CASE UNCHANGED <<tree, finalized>>
    BY <2>0, <2>3
  <2> QED BY <2>1, <2>2, <2>3
       DEF Next, Finalization, Select, Begin, Refuse, ReadBest, ReadCanonical
<1> QED BY <1>1, AlwaysHInv, PTL DEF Spec

\* An import whose decision was made on the client's own best total
\* (pow/src/lib.rs:384) keeps the client on the heaviest live chain.
THEOREM ImportAlwaysKeepsHeaviest == Spec => ImportKeepsHeaviest
<1>1. ASSUME HInv, NEW i \in Importer, Finish(i), Heaviest,
             import[i].bar = tree[best].total
      PROVE  Heaviest'
  <2> DEFINE b == Cardinality(Known)
             p == import[i].parent
  <2>1. finalized' = finalized
    BY <1>1 DEF Finish
  <2>2. CASE ~Extends(p, finalized)
    <3>1. UNCHANGED <<tree, best>>
      BY <1>1, <2>2 DEF Finish
    <3> QED BY <1>1, <2>1, <3>1 DEF Heaviest, Live, Known, Extends
  <2>3. CASE Extends(p, finalized)
    <3>1. /\ b \notin Known /\ Known' = Known \cup {b}
          /\ \A c \in Known : tree'[c] = tree[c]
          /\ tree'[b].total = ChildTotal(p) /\ ChildTotal(p) \in Nat
          /\ best' = (IF IsNewBest(i) THEN b ELSE best)
      BY <1>1, <2>3, GrownTree
    <3> HIDE DEF b
    <3>2. /\ best \in Known
          /\ \A c \in Known : tree[c].total \in Nat
      BY <1>1 DEF HInv, TypeOK, Live
    <3>3. ASSUME NEW l \in Live', l # b
          PROVE  tree'[l].total <= tree[best].total /\ tree'[l].total \in Nat
      <4>1. l \in Known /\ tree'[l] = tree[l]
        BY <3>1, <3>3 DEF Live
      <4>2. l \in Live
        BY <4>1, <3>3, <2>1 DEF Live, Extends
      <4> QED BY <4>1, <4>2, <3>2, <1>1 DEF Heaviest
    <3>4. CASE IsNewBest(i)
      <4>1. ChildTotal(p) > tree[best].total
        BY <3>4, <1>1 DEF IsNewBest, BreakTie
      <4>2. tree'[best'].total = ChildTotal(p)
        BY <3>1, <3>4
      <4>3. ASSUME NEW l \in Live' PROVE tree'[l].total <= tree'[best'].total
        <5>1. CASE l = b
          BY <5>1, <3>1, <4>2
        <5>2. CASE l # b
          BY <5>2, <3>3, <4>1, <4>2, <3>1, <3>2
        <5> QED BY <5>1, <5>2
      <4> QED BY <4>3 DEF Heaviest
    <3>5. CASE ~IsNewBest(i)
      <4>1. ChildTotal(p) <= tree[best].total
        BY <3>5, <3>1, <3>2, <1>1 DEF IsNewBest
      <4>2. tree'[best'].total = tree[best].total
        BY <3>1, <3>2, <3>5
      <4>3. ASSUME NEW l \in Live' PROVE tree'[l].total <= tree'[best'].total
        <5>1. CASE l = b
          BY <5>1, <3>1, <4>1, <4>2
        <5>2. CASE l # b
          BY <5>2, <3>3, <4>2
        <5> QED BY <5>1, <5>2
      <4> QED BY <4>3 DEF Heaviest
    <3> QED BY <3>4, <3>5
  <2> QED BY <2>2, <2>3
<1>2. HInv => [\A i \in Importer :
                 (Finish(i) /\ Heaviest /\ import[i].bar = tree[best].total)
                   => Heaviest']_vars
  BY <1>1
<1> QED BY <1>2, AlwaysHInv, PTL DEF ImportKeepsHeaviest

\* The best block gets lighter only by a decision that something has
\* overtaken: an import that overlapped (pow/src/lib.rs:384), or a
\* reorganisation between the reads of the finalization task and its call
\* (chain_management.rs:64).
THEOREM LighterOnlyByRaces == Spec => OnlyRacesLighten
<1> DEFINE Raced == \/ \E i \in Importer :
                         Finish(i) /\ import[i].bar < tree[best].total
                    \/ task.at = "hash" /\ task.seen # best
           Lighter == tree'[best'].total < tree[best].total
<1>1. ASSUME HInv, Next, Lighter PROVE Raced
  <2>0. /\ best \in Known /\ tree[best].total \in Nat
    BY <1>1 DEF HInv, TypeOK, Live
  <2>1. CASE UNCHANGED <<tree, best>>
    BY <2>0, <2>1, <1>1
  <2>2. ASSUME NEW i \in Importer, Finish(i) PROVE Raced
    <3>1. Extends(import[i].parent, finalized)
      BY <2>2, <2>0, <1>1 DEF Finish
    <3> DEFINE b == Cardinality(Known)
               p == import[i].parent
    <3>2. /\ \A c \in Known : tree'[c] = tree[c]
          /\ tree'[b].total = ChildTotal(p) /\ ChildTotal(p) \in Nat
          /\ best' = (IF IsNewBest(i) THEN b ELSE best)
      BY <1>1, <2>2, <3>1, GrownTree
    <3> HIDE DEF b
    <3>3. IsNewBest(i)
      BY <3>2, <2>0, <1>1
    <3>4. ChildTotal(p) < tree[best].total /\ ChildTotal(p) > import[i].bar
      BY <3>2, <3>3, <1>1 DEF IsNewBest, BreakTie
    <3>5. import[i].bar \in Nat
      BY <1>1, <2>2 DEF HInv, ImportInv, Busy, Finish
    <3> QED BY <3>2, <3>4, <3>5, <2>0, <2>2
  <2>3. CASE FinalizeBlock
    <3>1. Extends(task.hash, finalized) /\ ~Extends(best, task.hash)
      BY <2>3, <2>0, <1>1 DEF FinalizeBlock
    <3> QED BY <3>1, <2>3, <1>1 DEF FinalizeBlock, HInv, TaskInv
  <2> QED BY <1>1, <2>1, <2>2, <2>3
       DEF Next, Finalization, Select, Begin, Refuse, ReadBest, ReadCanonical
<1>2. HInv /\ [Next]_vars => [Lighter => Raced]_vars
  BY <1>1
<1> QED BY <1>2, AlwaysHInv, PTL DEF Spec, OnlyRacesLighten

\* Whatever the order in which the backend lists the leaves, best_chain and
\* find_best_chain (chain_management.rs:583, :210) return what no leaf that they
\* may choose outweighs; for any tree and any number of leaves.
THEOREM SelectionAlwaysHeaviest == Spec => []SelectionIsHeaviest
<1>1. Init => Ordered
  BY DEF Init, Ordered, Known, Genesis
<1>2. Spec => []Ordered
  BY <1>1, OrderedStepping, AlwaysHInv, PTL DEF Spec
<1>3. HInv /\ Ordered => SelectionIsHeaviest
  <2> DEFINE within == {l \in Leaves \ ignored : ReorgDepth(best, l) <= MaxReorgDepth}
  <2> SUFFICES ASSUME HInv, Ordered, NEW o \in Orders
               PROVE  LET r == BestChain(o) IN
                      /\ r \in Leaves \cup {best}
                      /\ r # best => r \in within
                      /\ \A l \in within :
                           \/ tree[l].total < tree[r].total
                           \/ tree[l].total = tree[r].total /\ Number(l) <= Number(r)
                      /\ \E h \in Leaves :
                            /\ FindBestChain(o) = {h}
                            /\ \A l \in Leaves : tree[l].total <= tree[h].total
    BY DEF SelectionIsHeaviest
  <2> DEFINE r == BestChain(o)
  <2>1. TypeOK
    BY DEF HInv
  <2>2. /\ r \in Leaves \cup {best} /\ (r # best => Eligible(r))
        /\ \A l \in Leaves : Eligible(l) => ~Better(l, r)
    BY <2>1, BestChainChooses
  <2>3. Leaves \cup {best} \subseteq Known
    BY <2>1 DEF TypeOK, Leaves, Live
  <2>4. \E h \in Leaves : /\ FindBestChain(o) = {h}
                          /\ \A l \in Leaves : tree[l].total <= tree[h].total
    BY <2>1, LeafExists, FindBestChainChooses
  <2> HIDE DEF r
  <2>5. ASSUME NEW l \in Known
        PROVE  ReorgDepth(best, l) <= MaxReorgDepth <=> ~TooDeep(l)
    <3>1. best \in Known
      BY <2>3
    <3>2. tree[l].chain \subseteq Known /\ tree[best].chain \subseteq Known
      BY <2>1, <2>5, <3>1 DEF TypeOK
    <3>3. /\ IsFiniteSet(tree[l].chain \ tree[best].chain)
          /\ IsFiniteSet(tree[best].chain \ tree[l].chain)
      BY <2>1, <3>2, KnownCount, FS_Subset
    <3>4. /\ Cardinality(tree[l].chain \ tree[best].chain) \in Nat
          /\ Cardinality(tree[best].chain \ tree[l].chain) \in Nat
      BY <3>3, FS_CardinalityType
    <3>5. ReorgDepth(best, l) \in Int
      BY <3>4 DEF ReorgDepth
    <3> QED BY <3>5, ChainAssumption DEF TooDeep
  <2>6. r # best => r \in within
    BY <2>2, <2>3, <2>5 DEF Eligible, IsChainIgnored
  <2>7. ASSUME NEW l \in within
        PROVE  \/ tree[l].total < tree[r].total
               \/ tree[l].total = tree[r].total /\ Number(l) <= Number(r)
    <3>1. l \in Known /\ r \in Known
      BY <2>2, <2>3
    <3>2. /\ tree[l].total \in Nat /\ tree[r].total \in Nat
          /\ Number(l) \in Int /\ Number(r) \in Int
      BY <2>1, <3>1, BlockNumbers
    <3>3. ~Better(l, r)
      BY <2>2, <2>5, <3>1 DEF Eligible, IsChainIgnored
    <3> QED BY <3>2, <3>3 DEF Better, ChainWork
  <2> QED BY <2>2, <2>4, <2>6, <2>7 DEF r
<1> QED BY <1>2, <1>3, AlwaysHInv, PTL

\* Once its notifications are taken, the sleeping finalization task
\* (chain_management.rs:64) has left no more than MaxReorgDepth - 1 blocks above
\* the finalized one, and those the client never announced, whatever happened
\* between its reads.
THEOREM SleepsOnlyCaughtUp == Spec => []AsleepOnlyWhenCaughtUp
<1>1. Init => Linear /\ BacklogInv
  <2> SUFFICES ASSUME Init PROVE Linear /\ BacklogInv
    OBVIOUS
  <2>1. Known = {Genesis} /\ tree[Genesis].chain = {Genesis}
    BY DEF Init, Known
  <2>2. Linear
    BY <2>1 DEF Linear
  <2>3. /\ best = Genesis /\ finalized = Genesis
        /\ task.at = "idle" /\ FinalizeDepth \in Nat /\ silent = 0
    BY ChainAssumption DEF Init, Idle, FinalizeDepth
  <2>4. Number(Genesis) \in Nat
    <3>1. TypeOK
      BY InitHInv DEF HInv
    <3> QED BY <2>1, <3>1, NumbersAlong
  <2>5. Number(best) <= Number(finalized) + FinalizeDepth + silent
    BY <2>3, <2>4
  <2> QED BY <2>2, <2>3, <2>5 DEF BacklogInv
<1>2. Spec => [](Linear /\ BacklogInv)
  BY <1>1, LinearStepping, BacklogStepping, AlwaysHInv, PTL DEF Spec
<1>3. HInv /\ BacklogInv => AsleepOnlyWhenCaughtUp
  <2> SUFFICES ASSUME HInv, BacklogInv, notes = 0, task = Idle
               PROVE  Number(best) <= Number(finalized) + MaxReorgDepth - 1 + silent
    BY DEF AsleepOnlyWhenCaughtUp
  <2>1. Number(best) <= Number(finalized) + FinalizeDepth + silent /\ silent \in Nat
    BY ChainAssumption DEF BacklogInv, Idle, HInv, TypeOK
  <2>2. Number(finalized) \in Nat
    <3>1. TypeOK /\ finalized \in Known /\ finalized \in tree[finalized].chain
      BY DEF HInv, TypeOK
    <3> QED BY <3>1, NumbersAlong
  <2> QED BY <2>1, <2>2, ChainAssumption DEF FinalizeDepth
<1> QED BY <1>2, <1>3, AlwaysHInv, PTL

=============================================================================
