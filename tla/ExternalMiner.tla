---------------------------- MODULE ExternalMiner ----------------------------
(***************************************************************************)
(* The external miner service: its job table, the HTTP handlers and the    *)
(* mining loop. The table is behind one mutex that a handler holds for its  *)
(* whole call and the loop for a whole pass over the jobs, so each is one   *)
(* step. A client may send requests in any order and more than once.        *)
(***************************************************************************)
EXTENDS Integers, FiniteSets

CONSTANTS
  JobId,
  Work,       \* header hash and distance threshold of a request
  MaxNonce,   \* U512::MAX
  Valid       \* the nonces that is_valid_nonce accepts for each work

ASSUME MaxNonceAssumption == MaxNonce \in Nat
\* Nonce zero is never valid.
ASSUME ValidAssumption == Valid \in [Work -> SUBSET (1..MaxNonce)]

VARIABLE jobs

NewJob(w, first, last) ==
  [work |-> w, nonce_start |-> first, nonce_end |-> last,
   current_nonce |-> first, status |-> "running", hash_count |-> 0]

NoJobs == [id \in {} |-> 0]

Init == jobs = NoJobs

\* add_job refuses an id that is taken.
AddJob(id, job) ==
  /\ id \notin DOMAIN jobs
  /\ jobs' = [i \in DOMAIN jobs \cup {id} |-> IF i = id THEN job ELSE jobs[i]]

RemoveJob(id) ==
  /\ id \in DOMAIN jobs
  /\ jobs' = [i \in DOMAIN jobs \ {id} |-> jobs[i]]

\* handle_mine_request: an invalid request is refused, too.
HandleMine(id, w, first, last) ==
  first <= last /\ AddJob(id, NewJob(w, first, last))

\* A job that there is not is answered with "not found".
HandleCancel(id) == RemoveJob(id)

\* Mutant: the nonce moves on before the first hash, too.
TriedSkippingFirst(job) == job.current_nonce + 1

\* The nonce that the next pass tries: the start first, then one further.
Tried(job) == IF job.hash_count > 0 THEN job.current_nonce + 1 ELSE job.current_nonce

\* Mutant: the last nonce does not end the search.
VerdictPastEnd(job, n) == IF n \in Valid[job.work] THEN "completed" ELSE "running"

\* What hashing nonce n makes of a job.
Verdict(job, n) ==
  CASE n \in Valid[job.work] -> "completed"
    [] n \notin Valid[job.work] /\ n = job.nonce_end -> "failed"
    [] OTHER -> "running"

\* Mutant: a job that has been answered is mined on.
MinedAnyway(job) ==
  [job EXCEPT !.current_nonce = Tried(job), !.hash_count = @ + 1,
              !.status = Verdict(job, Tried(job))]

\* One pass of the mining loop over one job.
Mined(job) ==
  CASE job.status # "running" -> job
    [] job.status = "running" /\ Tried(job) > job.nonce_end ->
         [job EXCEPT !.current_nonce = Tried(job), !.status = "failed"]
    [] OTHER ->
         [job EXCEPT !.current_nonce = Tried(job), !.hash_count = @ + 1,
                     !.status = Verdict(job, Tried(job))]

\* Mutant: a pass serves one job only, the same one every time.
PassOverOne ==
  /\ jobs # NoJobs
  /\ LET id == CHOOSE i \in DOMAIN jobs : TRUE
     IN  jobs' = [jobs EXCEPT ![id] = Mined(@)]

MiningPass == jobs' = [id \in DOMAIN jobs |-> Mined(jobs[id])]

\* The service is restarted: the table lives in memory.
Restart == jobs # NoJobs /\ jobs' = NoJobs

Next ==
  \/ \E id \in JobId, w \in Work, first, last \in 0..MaxNonce :
       HandleMine(id, w, first, last)
  \/ \E id \in JobId : HandleCancel(id)
  \/ MiningPass
  \/ Restart

Spec == Init /\ [][Next]_jobs

\* start_mining_loop runs passes for ever.
FairSpec == Spec /\ WF_jobs(MiningPass)

-----------------------------------------------------------------------------
(* Properties *)

MiningJob ==
  [work : Work, nonce_start : 0..MaxNonce, nonce_end : 0..MaxNonce,
   current_nonce : 0..MaxNonce, status : {"running", "completed", "failed"},
   hash_count : 0..(MaxNonce + 1)]

(* Nonces stay in range: `current_nonce += 1` never overflows a U512, which *)
(* would end the mining loop, also for nonce_end = U512::MAX.               *)
TypeOK == DOMAIN jobs \subseteq JobId /\ jobs \in [DOMAIN jobs -> MiningJob]

NoneValid(job, first, last) == (first..last) \cap Valid[job.work] = {}

Sound(job) ==
  /\ job.current_nonce \in job.nonce_start..job.nonce_end
  /\ job.hash_count \in {0, job.current_nonce - job.nonce_start + 1}
  /\ job.hash_count = 0 =>
       job.status = "running" /\ job.current_nonce = job.nonce_start
  /\ job.status = "running" /\ job.hash_count > 0 =>
       /\ job.current_nonce < job.nonce_end
       /\ NoneValid(job, job.nonce_start, job.current_nonce)
  /\ job.status = "completed" =>
       /\ job.current_nonce \in Valid[job.work]
       /\ NoneValid(job, job.nonce_start, job.current_nonce - 1)
  /\ job.status = "failed" => NoneValid(job, job.nonce_start, job.nonce_end)

(* A job covers its range without a gap: what has been passed over is not   *)
(* valid, a completed job is at its first valid nonce, a failed one has     *)
(* none from nonce_start up to and including nonce_end, and hash_count is    *)
(* the number of nonces that were tried.                                    *)
SearchSound == \A id \in DOMAIN jobs : Sound(jobs[id])

(* Every job is answered, however many others are mined beside it, unless   *)
(* it is cancelled or lost with the service.                                *)
JobsEnd ==
  \A id \in JobId :
    (id \in DOMAIN jobs /\ jobs[id].status = "running")
      ~> (id \in DOMAIN jobs => jobs[id].status # "running")

Promised(job) ==
  [work |-> job.work, range |-> job.nonce_start..job.nonce_end, status |-> job.status,
   solution |-> IF job.status = "completed" THEN job.current_nonce ELSE MaxNonce + 1]

Promise == INSTANCE NonceSearch
             WITH Nonce <- 0..MaxNonce, NoNonce <- MaxNonce + 1,
                  jobs <- [id \in DOMAIN jobs |-> Promised(jobs[id])]

(* The service keeps its promise: right answers that stay, one job per id.  *)
ImplementsNonceSearch == Promise!Spec
=============================================================================
