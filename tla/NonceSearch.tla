----------------------------- MODULE NonceSearch -----------------------------
(***************************************************************************)
(* What the external miner promises over its HTTP interface: a job, once   *)
(* accepted, runs until it is answered, the answer is right, and it stays   *)
(* until the job is cancelled. Jobs are kept in memory only, so a restart   *)
(* of the service forgets them.                                             *)
(***************************************************************************)
EXTENDS FiniteSets

CONSTANTS
  JobId,      \* job identifiers, chosen by the client
  Work,       \* what a nonce is searched for: header hash and threshold
  Nonce,
  NoNonce,    \* no solution yet, not a nonce
  Valid       \* in [Work -> SUBSET Nonce]: the nonces that solve each work

VARIABLE jobs

SearchJob == [work : Work, range : SUBSET Nonce,
              status : {"running", "completed", "failed"},
              solution : Nonce \cup {NoNonce}]

Running == {id \in DOMAIN jobs : jobs[id].status = "running"}

Solutions(job) == job.range \cap Valid[job.work]

\* The right answers to a job.
Answers(job) ==
  IF Solutions(job) = {}
    THEN {[job EXCEPT !.status = "failed"]}
    ELSE {[work |-> job.work, range |-> job.range,
           status |-> "completed", solution |-> n] : n \in Solutions(job)}

Init == jobs = [id \in {} |-> NoNonce]

Submit(id, w, range) ==
  /\ id \notin DOMAIN jobs
  /\ jobs' = [i \in DOMAIN jobs \cup {id} |->
                IF i = id
                  THEN [work |-> w, range |-> range,
                        status |-> "running", solution |-> NoNonce]
                  ELSE jobs[i]]

Cancel(id) ==
  /\ id \in DOMAIN jobs
  /\ jobs' = [i \in DOMAIN jobs \ {id} |-> jobs[i]]

\* Some of the running jobs are answered.
Answer(done) ==
  /\ done # {}
  /\ \E answer \in [done -> UNION {Answers(jobs[id]) : id \in done}] :
       /\ \A id \in done : answer[id] \in Answers(jobs[id])
       /\ jobs' = [i \in DOMAIN jobs |-> IF i \in done THEN answer[i] ELSE jobs[i]]

Restart == jobs # [id \in {} |-> NoNonce] /\ jobs' = [id \in {} |-> NoNonce]

Next ==
  \/ \E id \in JobId, w \in Work, range \in SUBSET Nonce : Submit(id, w, range)
  \/ \E id \in JobId : Cancel(id)
  \/ \E done \in SUBSET Running : Answer(done)
  \/ Restart

Spec == Init /\ [][Next]_jobs
=============================================================================
