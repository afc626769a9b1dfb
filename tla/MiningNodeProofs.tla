--------------------------- MODULE MiningNodeProofs ---------------------------
(***************************************************************************)
(* The version pins the metadata, no good seal is discarded as stale, jobs *)
(* leak by lost cancellations only, what is imported is what was mined on,   *)
(* and the jobs behave as NonceSearch promises, for any number of faults.   *)
(***************************************************************************)
EXTENDS MiningNode, FiniteSetTheorems, TLAPS

(* A build that is being replaced, or that replaced the one the loop works   *)
(* on, is another one.                                                       *)
SealInv ==
  loop \in {"version", "try", "cancel", "post", "poll", "check"} =>
    (lock = "task" \/ (stale /\ loop # "version") => build # md)

(* Once the loop submits, its last job is gone or its cancellation was lost. *)
JobInv ==
  /\ DOMAIN jobs \subseteq {job} \cup abandoned
  /\ loop = "post" => DOMAIN jobs \subseteq abandoned

NodeInv == TypeOK /\ VersionPinsMetadata /\ SealInv /\ JobInv

\* The first state is one in which nothing has been built or submitted.
LEMMA InitNode == Init => NodeInv
<1> SUFFICES ASSUME Init PROVE NodeInv
  OBVIOUS
<1>1. tip \in Tip
  BY NodeAssumption DEF Init
<1>2. jobs = [id \in {} |-> NoSeal]
  BY DEF Init, Service!Init
<1>3. DOMAIN jobs = {} /\ jobs \in [DOMAIN jobs -> Service!SearchJob]
  BY <1>2
<1>4. faults \in 0..MaxFaults
  BY NodeAssumption DEF Init
<1>5. TypeOK
  BY <1>1, <1>3, <1>4 DEF Init, TypeOK
<1>6. VersionPinsMetadata /\ SealInv /\ JobInv
  BY <1>3 DEF Init, VersionPinsMetadata, SealInv, JobInv
<1> QED BY <1>5, <1>6 DEF NodeInv

-----------------------------------------------------------------------------
(* The service *)

SearchTable(t) == DOMAIN t \subseteq JobId /\ t \in [DOMAIN t -> Service!SearchJob]

\* A submission adds its own job only.
LEMMA SubmitTable ==
  ASSUME SearchTable(jobs), NEW id \in JobId, NEW p \in Pre, Service!Submit(id, p, Pre)
  PROVE  SearchTable(jobs') /\ DOMAIN jobs' = DOMAIN jobs \cup {id}
<1> DEFINE new == [work |-> p, range |-> Pre, status |-> "running", solution |-> NoSeal]
<1>1. new \in Service!SearchJob
  BY DEF Service!SearchJob
<1>2. jobs' = [i \in DOMAIN jobs \cup {id} |-> IF i = id THEN new ELSE jobs[i]]
  BY DEF Service!Submit
<1> HIDE DEF new
<1> QED BY <1>1, <1>2 DEF SearchTable

\* A cancellation removes its own job only.
LEMMA CancelTable ==
  ASSUME SearchTable(jobs), NEW id, Service!Cancel(id)
  PROVE  SearchTable(jobs') /\ DOMAIN jobs' = DOMAIN jobs \ {id}
  BY DEF SearchTable, Service!Cancel

\* Answers add and remove no job.
LEMMA AnswerTable ==
  ASSUME SearchTable(jobs), NEW id \in Service!Running, Service!Answer({id})
  PROVE  SearchTable(jobs') /\ DOMAIN jobs' = DOMAIN jobs
<1>1. id \in DOMAIN jobs /\ jobs[id] \in Service!SearchJob
  BY DEF Service!Running, SearchTable
<1>2. \A a \in Service!Answers(jobs[id]) : a \in Service!SearchJob
  <2>1. CASE Service!Solutions(jobs[id]) = {}
    BY <1>1, <2>1 DEF Service!Answers, Service!SearchJob
  <2>2. CASE Service!Solutions(jobs[id]) # {}
    <3>1. Service!Solutions(jobs[id]) \subseteq Pre
      BY <1>1 DEF Service!Solutions, Service!SearchJob
    <3> QED BY <1>1, <2>2, <3>1 DEF Service!Answers, Service!SearchJob
  <2> QED BY <2>1, <2>2
<1>3. PICK answer : /\ answer[id] \in Service!Answers(jobs[id])
                    /\ jobs' = [i \in DOMAIN jobs |-> IF i \in {id} THEN answer[i] ELSE jobs[i]]
  BY DEF Service!Answer
<1> QED BY <1>1, <1>2, <1>3 DEF SearchTable

\* A restart leaves nothing.
LEMMA RestartTable ==
  ASSUME Service!Restart
  PROVE  SearchTable(jobs') /\ DOMAIN jobs' = {}
  BY DEF SearchTable, Service!Restart

-----------------------------------------------------------------------------
(* Steps *)

\* What the environment and the authoring task do keeps the invariant: a change of
\* the build happens under the lock, up to the increment, and makes another build.
LEMMA AuthorNode ==
  ASSUME NodeInv,
         \/ NetworkBlock \/ SyncStarts \/ SyncEnds
         \/ Author \/ AuthoringFails
  PROVE  NodeInv'
<1> USE DEF NodeInv, TypeOK, VersionPinsMetadata, SealInv, JobInv, Free, vars, node, handle,
            locals, service
<1>1. CASE NetworkBlock
  BY <1>1, NodeAssumption DEF NetworkBlock, Fault, FreshTip, Any
<1>2. CASE SyncStarts \/ SyncEnds
  <2>1. /\ faults' \in 0..MaxFaults
        /\ UNCHANGED <<external, tip, handle, task, base, loop, locals, service>>
    BY <1>2, NodeAssumption DEF SyncStarts, SyncEnds, Fault
  <2>2. syncing' \in BOOLEAN
    BY <1>2 DEF SyncStarts, SyncEnds
  <2> QED BY <2>1, <2>2
<1>3. CASE Wake \/ Select \/ Compare \/ AuthoringFails
  <2>1. task # "bump" /\ task' \in {"wait", "clear", "select", "compare", "propose"}
    <3>1. CASE Wake
      BY <3>1 DEF Wake
    <3>2. CASE Select \/ AuthoringFails
      BY <3>2 DEF Select, AuthoringFails
    <3>3. CASE Compare
      BY <3>3 DEF Compare
    <3> QED BY <1>3, <3>1, <3>2, <3>3
  <2>2. /\ base' \in Tip /\ faults' \in 0..MaxFaults
        /\ UNCHANGED <<node, handle, loop, locals, service>>
    BY <1>3, NodeAssumption DEF Wake, Select, Compare, AuthoringFails, Fault
  <2> QED BY <2>1, <2>2
<1>4. CASE Clear
  BY <1>4 DEF Clear
<1>5. CASE Store
  <2>1. PICK p \in FreshPre : build' = [on |-> base, pre |-> p]
    BY <1>5 DEF Store
  <2>2. p \in Pre /\ \A b \in Builds : p # b.pre
    BY <2>1 DEF FreshPre, Any
  <2>3. build' \in Build /\ (md # NoBuild => build' # md)
    BY <2>1, <2>2 DEF Build, Builds
  <2> QED BY <1>5, <2>3 DEF Store
<1>6. CASE Bump
  BY <1>6 DEF Bump
<1> QED BY <1>1, <1>2, <1>3, <1>4, <1>5, <1>6 DEF Author

\* Nothing that the invariant says of the loop applies between two rounds.
LEMMA RoundNode ==
  ASSUME NodeInv, loop # "release", NextRound,
         tip' \in Tip, UNCHANGED <<external, syncing, build, lock, task, base>>,
         UNCHANGED service, faults' \in 0..MaxFaults
  PROVE  NodeInv'
  BY DEF NodeInv, TypeOK, VersionPinsMetadata, SealInv, JobInv, Free, NextRound, service

\* The steps of the loop that only read, or that end a round.
LEMMA LoopNode ==
  ASSUME NodeInv,
         \/ ReadMetadata \/ ReadVersion \/ PollCompleted \/ PollRunning \/ PollGone \/ PollLost
         \/ TryFinds \/ TryMisses \/ ThresholdFails \/ Check \/ Verify
         \/ Import \/ ImportReorg \/ ImportRefused \/ ImportFails
  PROVE  NodeInv'
<1> USE DEF node, handle, locals, service
<1>1. CASE ReadMetadata \/ ReadVersion
  BY <1>1, NodeAssumption DEF ReadMetadata, ReadVersion, NodeInv, TypeOK, VersionPinsMetadata,
     SealInv, JobInv, Free
<1>2. CASE PollCompleted
  <2>1. jobs[job] \in Service!SearchJob
    BY <1>2 DEF PollCompleted, NodeInv, TypeOK
  <2>2. seal' \in Pre \cup {NoSeal}
    BY <1>2, <2>1 DEF PollCompleted, Service!SearchJob
  <2> QED BY <1>2, <2>2 DEF PollCompleted, NodeInv, TypeOK, VersionPinsMetadata, SealInv,
                            JobInv, Free
<1>3. CASE TryFinds
  <2>1. seal' \in Pre
    BY <1>3 DEF TryFinds, NodeInv, TypeOK, Build
  <2> QED BY <1>3, <2>1 DEF TryFinds, NodeInv, TypeOK, VersionPinsMetadata, SealInv,
                            JobInv, Free
<1>4. CASE PollRunning \/ PollGone \/ PollLost \/ TryMisses \/ ThresholdFails
           \/ ImportRefused \/ ImportFails
  <2>1. tip \in Tip /\ faults \in 0..MaxFaults /\ MaxFaults \in Nat
    BY NodeAssumption DEF NodeInv, TypeOK
  <2> QED BY <1>4, <2>1, RoundNode DEF PollRunning, PollGone, PollLost, TryMisses,
             ThresholdFails, ImportRefused, ImportFails, Fault
<1>5. CASE Check \/ Verify
  <2>1. CASE NextRound
    BY <1>5, <2>1, RoundNode DEF Check, Verify, NodeInv, TypeOK
  <2>2. CASE ~NextRound
    BY <1>5, <2>2 DEF Check, Verify, NodeInv, TypeOK, VersionPinsMetadata, SealInv,
                      JobInv, Free
  <2> QED BY <2>1, <2>2
<1>6. CASE Import \/ ImportReorg
  <2>1. tip' \in Tip
    BY <1>6 DEF Import, ImportReorg, FreshTip, Any, NodeInv, TypeOK
  <2>2. faults' \in 0..MaxFaults
    BY <1>6, NodeAssumption DEF Import, ImportReorg, Fault, NodeInv, TypeOK
  <2> QED BY <1>6, <2>1, <2>2, RoundNode DEF Import, ImportReorg
<1> QED BY <1>1, <1>2, <1>3, <1>4, <1>5, <1>6

\* submit takes a build and moves the version on under the lock.
LEMMA TakeNode ==
  ASSUME NodeInv, Take \/ Release
  PROVE  NodeInv'
  BY DEF Take, Release, NextRound, NodeInv, TypeOK, VersionPinsMetadata, SealInv, JobInv,
         Free, node, locals, service

\* A job is submitted when its predecessor is gone, or its cancellation was lost.
LEMMA JobNode ==
  ASSUME NodeInv,
         CancelJob \/ CancelLost \/ PostJob \/ PostLost \/ PostUnanswered
         \/ MinerAnswers \/ MinerRestarts
  PROVE  NodeInv'
<1> USE DEF node, handle, locals, service
<1>1. SearchTable(jobs)
  BY DEF SearchTable, NodeInv, TypeOK
<1>2. CASE CancelJob
  <2>1. SearchTable(jobs') /\ DOMAIN jobs' = DOMAIN jobs \ {job}
    BY <1>1, <1>2, CancelTable DEF CancelJob
  <2> QED BY <1>2, <2>1 DEF CancelJob, NodeInv, TypeOK, VersionPinsMetadata, SealInv,
                            JobInv, Free, SearchTable
<1>3. CASE CancelLost
  BY <1>3, NodeAssumption DEF CancelLost, Fault, NodeInv, TypeOK, VersionPinsMetadata, SealInv,
     JobInv, Free
<1>4. CASE PostJob \/ PostUnanswered
  <2>1. job' \in JobId /\ md.pre \in Pre
    BY <1>4 DEF PostJob, PostUnanswered, FreshJob, Any, NodeInv, TypeOK, Build
  <2>2. SearchTable(jobs') /\ DOMAIN jobs' = DOMAIN jobs \cup {job'}
    BY <1>1, <1>4, <2>1, SubmitTable DEF PostJob, PostUnanswered
  <2>3. CASE PostJob
    BY <2>1, <2>2, <2>3 DEF PostJob, NodeInv, TypeOK, VersionPinsMetadata, SealInv,
                            JobInv, Free, SearchTable
  <2>4. CASE PostUnanswered
    BY <2>1, <2>2, <2>4, NodeAssumption DEF PostUnanswered, NextRound, Fault, NodeInv, TypeOK,
       VersionPinsMetadata, SealInv, JobInv, Free, SearchTable
  <2> QED BY <1>4, <2>3, <2>4
<1>5. CASE PostLost
  <2>1. job' \in JobId
    BY <1>5 DEF PostLost, FreshJob, Any
  <2> QED BY <1>5, <2>1, NodeAssumption DEF PostLost, NextRound, Fault, NodeInv, TypeOK,
             VersionPinsMetadata, SealInv, JobInv, Free
<1>6. CASE MinerAnswers
  <2>1. SearchTable(jobs') /\ DOMAIN jobs' = DOMAIN jobs
    BY <1>1, <1>6, AnswerTable DEF MinerAnswers
  <2> QED BY <1>6, <2>1 DEF MinerAnswers, NodeInv, TypeOK, VersionPinsMetadata, SealInv,
                            JobInv, Free, SearchTable
<1>7. CASE MinerRestarts
  <2>1. SearchTable(jobs') /\ DOMAIN jobs' = {}
    BY <1>7, RestartTable DEF MinerRestarts
  <2> QED BY <1>7, <2>1, NodeAssumption DEF MinerRestarts, Fault, NodeInv, TypeOK,
             VersionPinsMetadata, SealInv, JobInv, Free, SearchTable
<1> QED BY <1>2, <1>3, <1>4, <1>5, <1>6, <1>7

\* Every step keeps the invariant.
LEMMA NextNode == NodeInv /\ [Next]_vars => NodeInv'
<1> SUFFICES ASSUME NodeInv, [Next]_vars PROVE NodeInv'
  OBVIOUS
<1>1. CASE UNCHANGED vars
  BY <1>1 DEF vars, node, handle, locals, service, NodeInv, TypeOK, VersionPinsMetadata,
     SealInv, JobInv, Free
<1>2. CASE Next
  BY <1>2, AuthorNode, LoopNode, TakeNode, JobNode DEF Next, Mine
<1> QED BY <1>1, <1>2

-----------------------------------------------------------------------------
(* What is mined *)

(* A solution found is one of the job's work.                                *)
Answered(t) == \A id \in DOMAIN t : t[id].status = "completed" => t[id].solution = t[id].work

(* The loop polls a job for its own metadata and holds a seal for them, and   *)
(* a build that this seal solves is the one they are of.                     *)
WorkInv ==
  /\ Answered(jobs)
  /\ loop = "poll" /\ job \in DOMAIN jobs => jobs[job].work = md.pre
  /\ loop \in {"check", "verify", "take", "release", "import"} => seal = md.pre
  /\ md # NoBuild => \A b \in {build, took} \ {NoBuild} : b.pre = md.pre => b = md

\* Nothing has been mined at first.
LEMMA InitWork == Init => WorkInv
  BY DEF Init, Service!Init, WorkInv, Answered

\* The authoring task and the environment change the build only, for a fresh one.
LEMMA AuthorWork ==
  ASSUME NodeInv, WorkInv,
         \/ NetworkBlock \/ SyncStarts \/ SyncEnds
         \/ Author \/ AuthoringFails
  PROVE  WorkInv'
<1> USE DEF node, handle, locals, service
<1>1. CASE Store
  <2>1. PICK p \in FreshPre : build' = [on |-> base, pre |-> p]
    BY <1>1 DEF Store
  <2>2. \A b \in Builds : p # b.pre
    BY <2>1 DEF FreshPre, Any
  <2>3. build'.pre = p /\ (md # NoBuild => p # md.pre)
    BY <2>1, <2>2 DEF Builds
  <2> QED BY <1>1, <2>3 DEF Store, WorkInv
<1>2. CASE Clear
  BY <1>2 DEF Clear, WorkInv
<1>3. CASE ~Store /\ ~Clear
  <2>1. UNCHANGED <<build, took, md, seal, loop, job, jobs>>
    BY <1>3 DEF NetworkBlock, SyncStarts, SyncEnds, Author, Wake, Select, Compare, Bump,
       AuthoringFails
  <2> QED BY <2>1 DEF WorkInv
<1> QED BY <1>1, <1>2, <1>3

\* A round that ends leaves nothing but the jobs.
LEMMA RoundWork ==
  ASSUME NextRound, Answered(jobs')
  PROVE  WorkInv'
  BY DEF NextRound, WorkInv

\* The steps of the loop that leave the jobs alone.
LEMMA LoopWork ==
  ASSUME NodeInv, WorkInv,
         \/ ReadMetadata \/ ReadVersion \/ PollCompleted \/ PollRunning \/ PollGone \/ PollLost
         \/ TryFinds \/ TryMisses \/ ThresholdFails \/ PostLost \/ Check \/ Verify \/ Take \/ Release
         \/ Import \/ ImportReorg \/ ImportRefused \/ ImportFails \/ CancelLost
  PROVE  WorkInv'
<1> USE DEF node, handle, locals, service
<1>1. CASE NextRound
  <2>1. UNCHANGED jobs
    BY DEF ReadMetadata, ReadVersion, PollCompleted, PollRunning, PollGone, PollLost,
       TryFinds, TryMisses, ThresholdFails, PostLost, Check, Verify, Take, Release,
       Import, ImportReorg, ImportRefused, ImportFails, CancelLost
  <2> QED BY <1>1, <2>1, RoundWork DEF WorkInv
<1>2. CASE ReadMetadata
  <2>1. took = NoBuild
    BY <1>2 DEF ReadMetadata, NodeInv, TypeOK
  <2> QED BY <1>2, <2>1 DEF ReadMetadata, WorkInv
<1>3. CASE ReadVersion \/ CancelLost
  <2>1. loop' \in {"try", "post", "cancel"} /\ UNCHANGED <<build, took, md, jobs>>
    BY <1>3 DEF ReadVersion, CancelLost, NodeInv, TypeOK
  <2> QED BY <2>1 DEF WorkInv
<1>4. CASE PollCompleted
  BY <1>4 DEF PollCompleted, WorkInv, Answered
<1>5. CASE TryFinds
  BY <1>5 DEF TryFinds, WorkInv
<1>6. CASE (Check \/ Verify) /\ ~NextRound
  BY <1>6 DEF Check, Verify, WorkInv
<1>7. CASE Take /\ ~NextRound
  BY <1>7 DEF Take, WorkInv
<1>8. CASE Release
  BY <1>8 DEF Release, WorkInv
<1> QED
  BY <1>1, <1>2, <1>3, <1>4, <1>5, <1>6, <1>7, <1>8 DEF PollRunning, PollGone, PollLost,
     TryMisses, ThresholdFails, PostLost, Import, ImportReorg, ImportRefused, ImportFails

\* A job is submitted for the metadata of the round, and what answers it solves it.
LEMMA JobWork ==
  ASSUME NodeInv, WorkInv,
         CancelJob \/ PostJob \/ PostUnanswered \/ MinerAnswers \/ MinerRestarts
  PROVE  WorkInv'
<1> USE DEF node, handle, locals, service
<1>1. CASE CancelJob
  <2>1. Answered(jobs')
    BY <1>1 DEF CancelJob, Service!Cancel, WorkInv, Answered
  <2> QED BY <1>1, <2>1 DEF CancelJob, WorkInv
<1>2. CASE PostJob \/ PostUnanswered
  <2> DEFINE new == [work |-> md.pre, range |-> Pre, status |-> "running", solution |-> NoSeal]
  <2>1. jobs' = [i \in DOMAIN jobs \cup {job'} |-> IF i = job' THEN new ELSE jobs[i]]
    BY <1>2 DEF PostJob, PostUnanswered, Service!Submit
  <2>2. new.status = "running" /\ new.work = md.pre
    OBVIOUS
  <2> HIDE DEF new
  <2>3. Answered(jobs') /\ jobs'[job'].work = md.pre
    BY <2>1, <2>2 DEF WorkInv, Answered
  <2>4. CASE PostJob
    BY <2>3, <2>4 DEF PostJob, WorkInv
  <2>5. CASE PostUnanswered
    BY <2>3, <2>5, RoundWork DEF PostUnanswered
  <2> QED BY <1>2, <2>4, <2>5
<1>3. CASE MinerAnswers
  <2>1. PICK id \in Service!Running : Service!Answer({id})
    BY <1>3 DEF MinerAnswers
  <2>2. PICK answer : /\ answer[id] \in Service!Answers(jobs[id])
                      /\ jobs' = [i \in DOMAIN jobs |-> IF i \in {id} THEN answer[i] ELSE jobs[i]]
    BY <2>1 DEF Service!Answer
  <2>3. id \in DOMAIN jobs /\ jobs[id] \in Service!SearchJob
    BY <2>1 DEF Service!Running, NodeInv, TypeOK
  <2>4. /\ answer[id].work = jobs[id].work
        /\ answer[id].status = "completed" => answer[id].solution = answer[id].work
    <3>1. Service!Solutions(jobs[id]) \subseteq {jobs[id].work}
      BY <2>3 DEF Service!Solutions, Service!SearchJob
    <3>2. CASE Service!Solutions(jobs[id]) = {}
      BY <2>2, <2>3, <3>2 DEF Service!Answers, Service!SearchJob
    <3>3. CASE Service!Solutions(jobs[id]) # {}
      BY <2>2, <3>1, <3>3 DEF Service!Answers
    <3> QED BY <3>2, <3>3
  <2>5. /\ DOMAIN jobs' = DOMAIN jobs /\ Answered(jobs')
        /\ \A i \in DOMAIN jobs : jobs'[i].work = jobs[i].work
    BY <2>2, <2>3, <2>4 DEF WorkInv, Answered
  <2> QED BY <1>3, <2>5 DEF MinerAnswers, WorkInv
<1>4. CASE MinerRestarts
  BY <1>4 DEF MinerRestarts, Service!Restart, WorkInv, Answered
<1> QED BY <1>1, <1>2, <1>3, <1>4

\* Every step keeps it.
LEMMA NextWork == NodeInv /\ WorkInv /\ [Next]_vars => WorkInv'
<1> SUFFICES ASSUME NodeInv, WorkInv, [Next]_vars PROVE WorkInv'
  OBVIOUS
<1>1. CASE UNCHANGED vars
  BY <1>1 DEF vars, node, handle, locals, service, WorkInv, Answered
<1>2. CASE Next
  BY <1>2, AuthorWork, LoopWork, JobWork DEF Next, Mine
<1> QED BY <1>1, <1>2

-----------------------------------------------------------------------------
(* The miner's jobs *)

\* Each step treats the table as the service allows, or leaves it.
LEMMA NextService == NodeInv /\ [Next]_vars => [Service!Next]_jobs
<1> SUFFICES ASSUME NodeInv, Next PROVE Service!Next \/ UNCHANGED jobs
  BY DEF vars, service
<1> USE DEF node, handle, locals, service
<1>1. CASE CancelJob
  <2>1. CASE job \in DOMAIN jobs
    <3>1. job \in JobId /\ Service!Cancel(job)
      BY <1>1, <2>1 DEF CancelJob, NodeInv, TypeOK
    <3> QED BY <3>1 DEF Service!Next
  <2>2. CASE job \notin DOMAIN jobs
    BY <1>1, <2>2 DEF CancelJob
  <2> QED BY <2>1, <2>2
<1>2. CASE PostJob \/ PostUnanswered
  <2>1. job' \in JobId /\ md.pre \in Pre /\ Service!Submit(job', md.pre, Pre)
    BY <1>2 DEF PostJob, PostUnanswered, FreshJob, Any, NodeInv, TypeOK, Build
  <2>2. Pre \in SUBSET Pre
    OBVIOUS
  <2> QED BY <2>1, <2>2 DEF Service!Next
<1>3. CASE MinerAnswers
  <2>1. PICK id \in Service!Running : Service!Answer({id})
    BY <1>3 DEF MinerAnswers
  <2>2. {id} \in SUBSET Service!Running
    BY <2>1
  <2> QED BY <2>1, <2>2 DEF Service!Next
<1>4. CASE MinerRestarts
  BY <1>4 DEF MinerRestarts, Service!Next
<1>5. CASE ~CancelJob /\ ~PostJob /\ ~PostUnanswered /\ ~MinerAnswers /\ ~MinerRestarts
  BY <1>5 DEF Next, NetworkBlock, SyncStarts, SyncEnds, Author, Wake, Clear, Select, Compare,
     Store, Bump, AuthoringFails, Mine, ReadMetadata, ReadVersion, PollCompleted, PollRunning,
     PollGone, PollLost, TryFinds, TryMisses, ThresholdFails, PostLost, Check, Verify, Take,
     Release, Import, ImportReorg, ImportRefused, ImportFails, CancelLost
<1> QED BY <1>1, <1>2, <1>3, <1>4, <1>5

(* No more cancellations were lost than things went wrong.                   *)
LostInv == IsFiniteSet(abandoned) /\ Cardinality(abandoned) <= faults

\* A lost cancellation is a fault.
LEMMA NextLost == NodeInv /\ LostInv /\ [Next]_vars => LostInv'
<1> SUFFICES ASSUME NodeInv, LostInv, [Next]_vars PROVE LostInv'
  OBVIOUS
<1> USE DEF node, handle, locals, service
<1>0. faults \in Nat /\ Cardinality(abandoned) \in Nat
  BY FS_CardinalityType, NodeAssumption DEF NodeInv, TypeOK, LostInv
<1>1. CASE CancelLost
  <2>1. abandoned' = abandoned \cup {job} /\ faults' = faults + 1
    BY <1>1 DEF CancelLost, Fault
  <2>2. IsFiniteSet(abandoned) /\ Cardinality(abandoned) <= faults
    BY DEF LostInv
  <2>3. /\ IsFiniteSet(abandoned \cup {job})
        /\ Cardinality(abandoned \cup {job}) <= Cardinality(abandoned) + 1
    BY <1>0, <2>2, FS_AddElement
  <2>4. Cardinality(abandoned \cup {job}) \in Nat
    BY <2>3, FS_CardinalityType
  <2> QED BY <1>0, <2>1, <2>2, <2>3, <2>4 DEF LostInv
<1>2. CASE ~CancelLost
  <2>1. abandoned' = abandoned /\ (faults' = faults \/ faults' = faults + 1)
    BY <1>2 DEF Next, NetworkBlock, SyncStarts, SyncEnds, Author, Wake, Clear, Select, Compare,
       Store, Bump, AuthoringFails, Mine, ReadMetadata, ReadVersion, PollCompleted, PollRunning,
       PollGone, PollLost, TryFinds, TryMisses, ThresholdFails, PostLost, Check, Verify, Take,
       Release, Import, ImportReorg, ImportRefused, ImportFails, CancelJob, PostJob,
       PostUnanswered, MinerAnswers, MinerRestarts, Fault, vars
  <2> QED BY <1>0, <2>1 DEF LostInv
<1> QED BY <1>1, <1>2

-----------------------------------------------------------------------------
(* Theorems *)

(* Each task holds the lock in its own place only, and every variable keeps  *)
(* its type, whatever is lost or fails.                                      *)
THEOREM NodeTypeCorrect == Spec => []TypeOK
  BY InitNode, NextNode, PTL DEF Spec, NodeInv

(* While the version that the loop has read stands, so does the build it was *)
(* read with: every writer increments before it unlocks.                     *)
THEOREM VersionAlwaysPins == Spec => []VersionPinsMetadata
  BY InitNode, NextNode, PTL DEF Spec, NodeInv

(* What the loop discards as stale is no seal for the build that is there.   *)
THEOREM GoodSealsAlwaysKept == Spec => []GoodSealsKept
<1>1. NodeInv => GoodSealsKept
  BY DEF NodeInv, SealInv, GoodSealsKept
<1> QED BY <1>1, InitNode, NextNode, PTL DEF Spec

(* The miner works for this node on its current job and on those whose       *)
(* cancellation was lost, no matter what else is lost.                       *)
THEOREM JobsNeverLeakOtherwise == Spec => []JobsLeakOnlyByLostCancel
<1>1. NodeInv => JobsLeakOnlyByLostCancel
  BY DEF NodeInv, JobInv, JobsLeakOnlyByLostCancel
<1> QED BY <1>1, InitNode, NextNode, PTL DEF Spec

(* submit verifies a seal against one build and imports another lock's: what *)
(* gets through is the build that was mined on, whatever was stored or       *)
(* cleared in between, and a seal that import refuses met another build.     *)
THEOREM ImportsWhatWasMined ==
  Spec => [](loop = "import" => (Solves(seal, took) <=> took = md))
<1>1. NodeInv /\ WorkInv => (loop = "import" => (Solves(seal, took) <=> took = md))
  <2> SUFFICES ASSUME NodeInv, WorkInv, loop = "import" PROVE Solves(seal, took) <=> took = md
    OBVIOUS
  <2>1. took # NoBuild /\ md # NoBuild
    BY DEF NodeInv, TypeOK
  <2>2. seal = md.pre /\ (took.pre = md.pre => took = md)
    BY <2>1 DEF WorkInv
  <2> QED BY <2>1, <2>2 DEF Solves
<1> QED BY <1>1, InitNode, NextNode, InitWork, NextWork, PTL DEF Spec

(* Under this client the jobs are what NonceSearch says of them, which is    *)
(* what the external miner was proved to implement (ExternalMinerProofs):    *)
(* the two halves fit.                                                       *)
THEOREM NodeUsesNonceSearch == Spec => Service!Spec
<1>1. Init => Service!Init
  BY DEF Init
<1> QED BY <1>1, InitNode, NextNode, NextService, PTL DEF Spec, Service!Spec

(* The miner never has more jobs of this node than the current one and one   *)
(* for each thing that went wrong.                                           *)
THEOREM JobsStayFew == Spec => [](Cardinality(DOMAIN jobs) <= faults + 1)
<1>1. Init => LostInv
  BY FS_EmptySet DEF Init, LostInv
<1>2. NodeInv /\ LostInv => Cardinality(DOMAIN jobs) <= faults + 1
  <2> SUFFICES ASSUME NodeInv, LostInv PROVE Cardinality(DOMAIN jobs) <= faults + 1
    OBVIOUS
  <2>1. IsFiniteSet(abandoned) /\ Cardinality(abandoned) <= faults /\ faults \in Nat
    BY NodeAssumption DEF NodeInv, TypeOK, LostInv
  <2> DEFINE S == abandoned \cup {job}
  <2>2. IsFiniteSet(S) /\ Cardinality(S) <= Cardinality(abandoned) + 1
    <3>1. IsFiniteSet(abandoned)
      BY <2>1
    <3>2. /\ IsFiniteSet(S)
          /\ \/ Cardinality(S) = Cardinality(abandoned)
             \/ Cardinality(S) = Cardinality(abandoned) + 1
      BY ONLY <3>1, FS_AddElement
    <3>3. Cardinality(abandoned) \in Nat
      BY ONLY <3>1, FS_CardinalityType
    <3> QED BY ONLY <3>2, <3>3
  <2>3. DOMAIN jobs \in SUBSET S
    BY DEF NodeInv, JobInv
  <2> HIDE DEF S
  <2>4. Cardinality(DOMAIN jobs) <= Cardinality(S)
    BY <2>2, <2>3, FS_Subset
  <2>5. /\ Cardinality(S) \in Nat /\ Cardinality(abandoned) \in Nat
        /\ Cardinality(DOMAIN jobs) \in Nat
    BY <2>1, <2>2, <2>3, FS_CardinalityType, FS_Subset
  <2> QED BY <2>1, <2>2, <2>4, <2>5
<1> QED BY <1>1, <1>2, InitNode, NextNode, NextLost, PTL DEF Spec
=============================================================================
