----------------------------- MODULE MiningNode -----------------------------
(***************************************************************************)
(* A mining node: the authoring task that keeps a block proposal ready, the *)
(* MiningHandle it shares with the mining loop, and the loop itself, which   *)
(* searches locally or has the external miner search over HTTP.             *)
(*                                                                          *)
(* The handle keeps the build behind a mutex and the version in an atomic.  *)
(* The version is only ever compared with the one the loop has read last, so *)
(* the model keeps that comparison, stale, in place of the counter.         *)
(* A seal is identified with the pre-hash that it solves.                   *)
(***************************************************************************)
EXTENDS Naturals, FiniteSets

CONSTANTS
  Tip,        \* hashes of best blocks
  Pre,        \* pre-hashes of proposals
  JobId,      \* UUIDs of external mining jobs
  MaxFaults,  \* how often the environment interferes (network blocks, sync,
              \* errors, lost messages, restarts): a bound for the model
  NoBuild, NoJob, NoSeal

ASSUME NodeAssumption ==
  /\ Tip # {} /\ MaxFaults \in Nat
  /\ NoJob \notin JobId /\ NoSeal \notin Pre

VARIABLES
  external,   \* an external miner is configured; fixed from the start
  tip,        \* select_chain.best_chain()
  syncing,    \* sync_oracle.is_major_syncing()
  build,      \* MiningHandle.build
  lock,       \* who holds the mutex of build
  stale,      \* MiningHandle.version is not what the loop has read
  task,       \* where the authoring task is
  base,       \* the best block it builds on
  loop,       \* where the mining loop is
  md,         \* its copy of the metadata
  seal,       \* the seal it has found
  took,       \* the build it has taken to import
  job,        \* current_job_id
  jobs,       \* the external miner's jobs
  faults,
  pinned,     \* history: the build when the loop read the version
  abandoned   \* history: jobs whose cancellation was lost

handle == <<build, lock, stale>>
locals == <<md, seal, took, pinned>>
service == <<job, jobs, abandoned>>
node == <<external, tip, syncing>>
vars == <<node, handle, task, base, loop, locals, service, faults>>

Service == INSTANCE NonceSearch
             WITH Work <- Pre, Nonce <- Pre, NoNonce <- NoSeal,
                  Valid <- [p \in Pre |-> {p}]

Build == [on : Tip, pre : Pre]

Solves(s, b) == b # NoBuild /\ s = b.pre

Free == lock = "free"

\* What is new is something that nobody refers to, and any will do.
Any(S) == {x \in S : x = CHOOSE y \in S : TRUE}
Builds == {build, md, took} \ {NoBuild}
FreshTip == Any(Tip \ ({tip, base} \cup {b.on : b \in Builds}))
FreshPre == Any(Pre \ ({b.pre : b \in Builds} \cup {jobs[id].work : id \in DOMAIN jobs}))
FreshJob == Any(JobId \ (DOMAIN jobs \cup abandoned \cup {job}))

\* Something out of the node's hands happens.
Fault == faults < MaxFaults /\ faults' = faults + 1

Init ==
  /\ external \in BOOLEAN
  /\ tip = CHOOSE t \in Tip : TRUE
  /\ syncing = FALSE
  /\ build = NoBuild /\ lock = "free" /\ stale = TRUE
  /\ task = "wait" /\ base = tip
  /\ loop = "metadata" /\ md = NoBuild /\ seal = NoSeal /\ took = NoBuild
  /\ job = NoJob /\ Service!Init
  /\ faults = 0 /\ pinned = NoBuild /\ abandoned = {}

-----------------------------------------------------------------------------
(* The environment *)

\* A block from the network becomes the best one.
NetworkBlock ==
  /\ Fault
  /\ tip' \in FreshTip
  /\ UNCHANGED <<external, syncing, handle, task, base, loop, locals, service>>

SyncStarts ==
  /\ Fault
  /\ ~syncing /\ syncing' = TRUE
  /\ UNCHANGED <<external, tip, handle, task, base, loop, locals, service>>

SyncEnds ==
  /\ syncing /\ syncing' = FALSE
  /\ UNCHANGED <<external, tip, handle, task, base, loop, locals, service, faults>>

-----------------------------------------------------------------------------
(* The authoring task: start_mining_worker *)

\* UntilImportedOrTimeout fires on an import notification and at the latest when
\* the timeout is over: at any time, as far as the model goes.
Wake ==
  /\ task = "wait"
  /\ task' = IF syncing THEN "clear" ELSE "select"
  /\ UNCHANGED <<node, handle, base, loop, locals, service, faults>>

\* Mutant: on_major_syncing leaves the build.
ClearKeepingBuild ==
  /\ task = "clear" /\ Free
  /\ lock' = "task" /\ task' = "bump"
  /\ UNCHANGED <<node, build, stale, base, loop, locals, service, faults>>

\* on_major_syncing, with the lock held until the version is incremented.
Clear ==
  /\ task = "clear" /\ Free
  /\ build' = NoBuild /\ lock' = "task" /\ task' = "bump"
  /\ UNCHANGED <<node, stale, base, loop, locals, service, faults>>

\* Mutant: the best block is not read again.
SelectOnce ==
  /\ task = "select" /\ task' = "compare"
  /\ UNCHANGED <<node, handle, base, loop, locals, service, faults>>

Select ==
  /\ task = "select"
  /\ base' = tip /\ task' = "compare"
  /\ UNCHANGED <<node, handle, loop, locals, service, faults>>

\* Nothing to do when the build is on the best block already.
Compare ==
  /\ task = "compare" /\ Free
  /\ task' = IF build # NoBuild /\ build.on = base THEN "wait" ELSE "propose"
  /\ UNCHANGED <<node, handle, base, loop, locals, service, faults>>

\* Selecting, inherents, the proposer or the proposal fail: wait again.
AuthoringFails ==
  /\ Fault
  /\ task \in {"select", "propose"}
  /\ task' = "wait"
  /\ UNCHANGED <<node, handle, base, loop, locals, service>>

\* Mutant: on_build unlocks before it increments the version.
StoreUnlocked ==
  /\ task = "propose" /\ Free
  /\ \E p \in FreshPre : build' = [on |-> base, pre |-> p]
  /\ task' = "bump"
  /\ UNCHANGED <<node, lock, stale, base, loop, locals, service, faults>>

\* on_build of a new proposal, with the lock held until the increment.
Store ==
  /\ task = "propose" /\ Free
  /\ \E p \in FreshPre : build' = [on |-> base, pre |-> p]
  /\ lock' = "task" /\ task' = "bump"
  /\ UNCHANGED <<node, stale, base, loop, locals, service, faults>>

\* increment_version, and the lock is dropped.
Bump ==
  /\ task = "bump"
  /\ stale' = TRUE /\ lock' = "free" /\ task' = "wait"
  /\ UNCHANGED <<node, build, base, loop, locals, service, faults>>

Author == Wake \/ Clear \/ Select \/ Compare \/ Store \/ Bump

-----------------------------------------------------------------------------
(* The mining loop *)

\* The next round: what the round kept is out of scope.
NextRound ==
  /\ loop' = "metadata"
  /\ md' = NoBuild /\ seal' = NoSeal /\ took' = NoBuild
  /\ stale' = TRUE /\ pinned' = NoBuild

ReadMetadata ==
  /\ loop = "metadata" /\ Free
  /\ build # NoBuild
  /\ md' = build /\ loop' = "version"
  /\ UNCHANGED <<node, handle, task, base, seal, took, pinned, service, faults>>

ReadVersion ==
  /\ loop = "version"
  /\ stale' = FALSE /\ pinned' = build
  /\ loop' = CASE ~external -> "try"
               [] external /\ job = NoJob -> "post"
               [] external /\ job # NoJob -> "cancel"
  /\ UNCHANGED <<node, build, lock, task, base, md, seal, took, service, faults>>

\* cancel_mining_job; the loop goes on whatever comes back.
CancelJob ==
  /\ loop = "cancel" /\ loop' = "post"
  /\ IF job \in DOMAIN jobs THEN Service!Cancel(job) ELSE UNCHANGED jobs
  /\ UNCHANGED <<node, handle, task, base, locals, job, abandoned, faults>>

CancelLost ==
  /\ Fault
  /\ loop = "cancel" /\ loop' = "post"
  /\ abandoned' = abandoned \cup {job}
  /\ UNCHANGED <<node, handle, task, base, locals, job, jobs>>

\* get_distance_threshold fails.
ThresholdFails ==
  /\ Fault
  /\ loop = "post" /\ NextRound
  /\ UNCHANGED <<node, build, lock, task, base, service>>

\* submit_mining_job, for a new UUID.
PostJob ==
  /\ loop = "post" /\ loop' = "poll"
  /\ job' \in FreshJob /\ Service!Submit(job', md.pre, Pre)
  /\ UNCHANGED <<node, handle, task, base, locals, abandoned, faults>>

PostLost ==
  /\ Fault
  /\ loop = "post" /\ NextRound
  /\ job' \in FreshJob
  /\ UNCHANGED <<node, build, lock, task, base, jobs, abandoned>>

\* Mutant: current_job_id is set once the job is known to be accepted.
PostUnansweredForgotten ==
  /\ Fault
  /\ loop = "post" /\ NextRound
  /\ \E id \in FreshJob : Service!Submit(id, md.pre, Pre)
  /\ UNCHANGED <<node, build, lock, task, base, job, abandoned>>

\* The job is accepted, the answer lost.
PostUnanswered ==
  /\ Fault
  /\ loop = "post" /\ NextRound
  /\ job' \in FreshJob /\ Service!Submit(job', md.pre, Pre)
  /\ UNCHANGED <<node, build, lock, task, base, abandoned>>

PollCompleted ==
  /\ loop = "poll"
  /\ job \in DOMAIN jobs /\ jobs[job].status = "completed"
  /\ seal' = jobs[job].solution /\ loop' = "check"
  /\ UNCHANGED <<node, handle, task, base, md, took, pinned, service, faults>>

\* "Still working, check if metadata has changed".
NoticesChange == build # NoBuild /\ build.on # md.on

PollRunning ==
  /\ loop = "poll" /\ Free
  /\ job \in Service!Running /\ NoticesChange
  /\ NextRound
  /\ UNCHANGED <<node, build, lock, task, base, service, faults>>

\* Mutant: an unknown job is polled on.
NeverGone == FALSE

\* not_found and failed are errors of the poll.
JobGone == job \in DOMAIN jobs => jobs[job].status = "failed"

PollGone ==
  /\ loop = "poll" /\ JobGone
  /\ NextRound
  /\ UNCHANGED <<node, build, lock, task, base, service, faults>>

PollLost ==
  /\ Fault
  /\ loop = "poll" /\ NextRound
  /\ UNCHANGED <<node, build, lock, task, base, service>>

\* Local mining: QPoWMiner::try_nonce of one nonce.
TryFinds ==
  /\ loop = "try" /\ seal' = md.pre /\ loop' = "check"
  /\ UNCHANGED <<node, handle, task, base, md, took, pinned, service, faults>>

TryMisses ==
  /\ loop = "try" /\ NextRound
  /\ UNCHANGED <<node, build, lock, task, base, service, faults>>

\* Stale work is discarded.
Check ==
  /\ loop = "check"
  /\ IF stale THEN NextRound ELSE loop' = "verify" /\ UNCHANGED <<stale, locals>>
  /\ UNCHANGED <<node, build, lock, task, base, service, faults>>

\* MiningHandle::submit verifies the seal with the metadata of the moment,
Verify ==
  /\ loop = "verify" /\ Free
  /\ IF Solves(seal, build) THEN loop' = "take" /\ UNCHANGED <<stale, locals>>
                            ELSE NextRound
  /\ UNCHANGED <<node, build, lock, task, base, service, faults>>

\* then takes the build, if there is one, under a lock of its own,
Take ==
  /\ loop = "take" /\ Free
  /\ IF build = NoBuild
       THEN NextRound /\ UNCHANGED <<build, lock>>
       ELSE /\ took' = build /\ build' = NoBuild /\ lock' = "loop" /\ loop' = "release"
            /\ UNCHANGED <<stale, md, seal, pinned>>
  /\ UNCHANGED <<node, task, base, service, faults>>

Release ==
  /\ loop = "release"
  /\ stale' = TRUE /\ lock' = "free" /\ loop' = "import"
  /\ UNCHANGED <<node, build, task, base, locals, service, faults>>

\* and imports it. PowBlockImport verifies the seal again, for the block itself.
\* A block on the best one becomes the best one.
Import ==
  /\ loop = "import" /\ Solves(seal, took)
  /\ IF took.on = tip THEN tip' \in FreshTip ELSE UNCHANGED tip
  /\ NextRound
  /\ UNCHANGED <<external, syncing, build, lock, task, base, service, faults>>

\* A block on another one wins against the best one, in difficulty or the tie-break.
ImportReorg ==
  /\ Fault
  /\ loop = "import" /\ Solves(seal, took) /\ took.on # tip
  /\ tip' \in FreshTip
  /\ NextRound
  /\ UNCHANGED <<external, syncing, build, lock, task, base, service>>

ImportRefused ==
  /\ loop = "import" /\ ~Solves(seal, took) /\ NextRound
  /\ UNCHANGED <<node, build, lock, task, base, service, faults>>

ImportFails ==
  /\ Fault
  /\ loop = "import" /\ NextRound
  /\ UNCHANGED <<node, build, lock, task, base, service>>

Mine ==
  \/ ReadMetadata \/ ReadVersion
  \/ CancelJob \/ PostJob \/ PollCompleted \/ PollRunning \/ PollGone
  \/ Check \/ Verify \/ Take \/ Release \/ Import \/ ImportRefused

-----------------------------------------------------------------------------
(* The external miner *)

MinerAnswers ==
  /\ \E id \in Service!Running : Service!Answer({id})
  /\ UNCHANGED <<node, handle, task, base, loop, locals, job, abandoned, faults>>

MinerRestarts ==
  /\ Fault
  /\ Service!Restart
  /\ UNCHANGED <<node, handle, task, base, loop, locals, job, abandoned>>

Next ==
  \/ NetworkBlock \/ SyncStarts \/ SyncEnds
  \/ Author \/ AuthoringFails
  \/ Mine \/ TryFinds \/ TryMisses
  \/ CancelLost \/ ThresholdFails \/ PostLost \/ PostUnanswered \/ PollLost
  \/ ImportReorg \/ ImportFails
  \/ MinerAnswers \/ MinerRestarts

Spec == Init /\ [][Next]_vars

\* Both tasks are polled, the timer runs, a major sync ends, the miner mines its
\* jobs, and nonce after nonce some nonce is valid. Each action always changes the
\* variable it is fair for; a nonce is tried wherever one may be found, so strong
\* fairness of TryFinds also keeps the loop from resting there.
Fairness ==
  /\ WF_task(Author) /\ WF_loop(Mine) /\ WF_syncing(SyncEnds) /\ WF_jobs(MinerAnswers)
  /\ SF_loop(TryFinds)

FairSpec == Spec /\ Fairness

-----------------------------------------------------------------------------
(* Properties *)

TypeOK ==
  /\ external \in BOOLEAN /\ syncing \in BOOLEAN
  /\ stale \in BOOLEAN
  /\ {tip, base} \subseteq Tip
  /\ {build, md, took, pinned} \subseteq Build \cup {NoBuild}
  /\ seal \in Pre \cup {NoSeal}
  /\ task \in {"wait", "clear", "select", "compare", "propose", "bump"}
  /\ loop \in {"metadata", "version", "try", "cancel", "post", "poll", "check",
               "verify", "take", "release", "import"}
  /\ lock = "task" <=> task = "bump"
  /\ lock = "loop" <=> loop = "release"
  /\ md = NoBuild <=> loop = "metadata"
  /\ took # NoBuild <=> loop \in {"release", "import"}
  /\ job \in JobId \cup {NoJob}
  /\ DOMAIN jobs \subseteq JobId /\ jobs \in [DOMAIN jobs -> Service!SearchJob]
  /\ faults \in 0..MaxFaults

(* MiningHandle::version: "If `Version` is unchanged, then it can be certain *)
(* that `best_hash` and `metadata` were not changed", for whoever reads them *)
(* through the mutex, although version itself is read without it.            *)
VersionPinsMetadata == ~stale /\ Free => build = pinned

(* The version does not move for nothing: a seal that the loop discards as   *)
(* stale is not one for the build that is there.                             *)
GoodSealsKept ==
  loop \in {"try", "cancel", "post", "poll", "check"} /\ stale /\ Free => build # md

(* The external miner works on the node's current job and on those whose     *)
(* cancellation was lost; lost submissions, lost answers and restarts leave  *)
(* none behind.                                                              *)
JobsLeakOnlyByLostCancel == DOMAIN jobs \subseteq {job} \cup abandoned

(* There is a proposal on the best block again and again, also after a build *)
(* was taken for an import that failed.                                      *)
BuildTracksBest == []<>(build # NoBuild /\ build.on = tip)

(* The node never stops producing blocks for good.                           *)
BlocksKeepComing == []<><<Import>>_vars

(* "Still working, check if metadata has changed": while the loop polls, it  *)
(* notices any change of the metadata.                                       *)
PollNoticesChange == loop = "poll" /\ Free /\ build # md => NoticesChange
=============================================================================
