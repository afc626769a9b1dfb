------------------------- MODULE ExternalMinerProofs -------------------------
(***************************************************************************)
(* The external miner's answers are right, its nonces never overflow, each *)
(* pass brings every job nearer to its answer, and the service implements   *)
(* NonceSearch, for all works, ranges and valid nonces.                     *)
(*                                                                          *)
(* SearchInv, the types together with SearchSound, is inductive. What a     *)
(* pass does is a statement about one job (MinedSound); the table follows.  *)
(***************************************************************************)
EXTENDS ExternalMiner, TLAPS

SearchInv == TypeOK /\ SearchSound

\* A new job has nothing behind it.
LEMMA NewJobSound ==
  ASSUME NEW w \in Work, NEW first \in 0..MaxNonce, NEW last \in 0..MaxNonce,
         first <= last
  PROVE  NewJob(w, first, last) \in MiningJob /\ Sound(NewJob(w, first, last))
  BY MaxNonceAssumption DEF NewJob, MiningJob, Sound

\* A pass keeps a job sound; a job that is not running stays as it is.
LEMMA MinedSound ==
  ASSUME NEW j \in MiningJob, Sound(j)
  PROVE  /\ Mined(j) \in MiningJob
         /\ Sound(Mined(j))
         /\ Mined(j).work = j.work
         /\ Mined(j).nonce_start = j.nonce_start
         /\ Mined(j).nonce_end = j.nonce_end
         /\ j.status # "running" => Mined(j) = j
<1>1. CASE j.status # "running"
  BY <1>1 DEF Mined
<1>2. CASE j.status = "running"
  <2> DEFINE n == Tried(j)
             m == [j EXCEPT !.current_nonce = n, !.hash_count = @ + 1,
                            !.status = Verdict(j, n)]
  <2>1. /\ j.nonce_start \in 0..MaxNonce /\ j.nonce_end \in 0..MaxNonce
        /\ j.current_nonce \in 0..MaxNonce /\ j.hash_count \in 0..(MaxNonce + 1)
        /\ j.work \in Work
        /\ Valid[j.work] \subseteq 1..MaxNonce
    BY ValidAssumption DEF MiningJob
  <2>2. /\ n \in j.nonce_start..j.nonce_end
        /\ n - j.nonce_start = j.hash_count
        /\ NoneValid(j, j.nonce_start, n - 1)
    BY <1>2, <2>1, MaxNonceAssumption DEF Sound, Tried, NoneValid
  <2>3. Mined(j) = m
    BY <1>2, <2>1, <2>2, MaxNonceAssumption DEF Mined
  <2>4. m \in MiningJob
    <3>1. n \in 0..MaxNonce /\ j.hash_count + 1 \in 0..(MaxNonce + 1)
      BY <2>1, <2>2, MaxNonceAssumption
    <3>2. Verdict(j, n) \in {"running", "completed", "failed"}
      BY DEF Verdict
    <3> HIDE DEF n
    <3> QED BY <3>1, <3>2 DEF MiningJob
  <2>5. /\ m.work = j.work /\ m.nonce_start = j.nonce_start /\ m.nonce_end = j.nonce_end
        /\ m.current_nonce = n /\ m.hash_count = n - j.nonce_start + 1
        /\ m.status = Verdict(j, n)
    BY <2>1, <2>2, MaxNonceAssumption DEF MiningJob
  <2>6. n \notin Valid[j.work] => NoneValid(j, j.nonce_start, n)
    BY <2>1, <2>2, MaxNonceAssumption DEF NoneValid
  <2>7. /\ m.status = "completed" => n \in Valid[j.work]
        /\ m.status = "failed" => n \notin Valid[j.work] /\ n = j.nonce_end
        /\ m.status = "running" => n \notin Valid[j.work] /\ n < j.nonce_end
    BY <2>1, <2>2, <2>5, MaxNonceAssumption DEF Verdict
  <2>8. Sound(m)
    <3>1. /\ m.current_nonce \in m.nonce_start..m.nonce_end
          /\ m.hash_count = m.current_nonce - m.nonce_start + 1
          /\ m.hash_count > 0
      BY <2>1, <2>2, <2>5, MaxNonceAssumption
    <3>2. \A a, b : NoneValid(m, a, b) = NoneValid(j, a, b)
      BY <2>5 DEF NoneValid
    <3>3. m.status = "running" => /\ m.current_nonce < m.nonce_end
                                  /\ NoneValid(m, m.nonce_start, m.current_nonce)
      BY <2>5, <2>6, <2>7, <3>2
    <3>4. m.status = "completed" => /\ m.current_nonce \in Valid[m.work]
                                    /\ NoneValid(m, m.nonce_start, m.current_nonce - 1)
      BY <2>2, <2>5, <2>7, <3>2
    <3>5. m.status = "failed" => NoneValid(m, m.nonce_start, m.nonce_end)
      BY <2>5, <2>6, <2>7, <3>2
    <3> QED BY <3>1, <3>3, <3>4, <3>5 DEF Sound
  <2> QED BY <1>2, <2>3, <2>4, <2>5, <2>8
<1> QED BY <1>1, <1>2

\* There are no jobs at first.
LEMMA InitSearch == Init => SearchInv
  BY DEF Init, NoJobs, SearchInv, TypeOK, SearchSound

\* No handler and no pass breaks the table.
LEMMA NextSearch == SearchInv /\ [Next]_jobs => SearchInv'
<1> SUFFICES ASSUME SearchInv, [Next]_jobs PROVE SearchInv'
  OBVIOUS
<1> USE DEF SearchInv, TypeOK, SearchSound
<1>1. ASSUME NEW id \in JobId, NEW w \in Work, NEW first \in 0..MaxNonce,
             NEW last \in 0..MaxNonce, HandleMine(id, w, first, last)
      PROVE  SearchInv'
  <2>1. NewJob(w, first, last) \in MiningJob /\ Sound(NewJob(w, first, last))
    BY <1>1, NewJobSound DEF HandleMine, AddJob
  <2> DEFINE new == NewJob(w, first, last)
  <2> HIDE DEF new
  <2>2. jobs' = [i \in DOMAIN jobs \cup {id} |-> IF i = id THEN new ELSE jobs[i]]
    BY <1>1 DEF HandleMine, AddJob, new
  <2> QED BY <2>1, <2>2 DEF new
<1>2. ASSUME NEW id \in JobId, HandleCancel(id) PROVE SearchInv'
  BY <1>2 DEF HandleCancel, RemoveJob
<1>3. CASE MiningPass
  <2>1. \A i \in DOMAIN jobs : Mined(jobs[i]) \in MiningJob /\ Sound(Mined(jobs[i]))
    BY MinedSound
  <2> QED BY <1>3, <2>1 DEF MiningPass
<1>4. CASE Restart
  BY <1>4 DEF Restart, NoJobs
<1>5. CASE UNCHANGED jobs
  BY <1>5
<1> QED BY <1>1, <1>2, <1>3, <1>4, <1>5 DEF Next

(* No nonce ever leaves 0..MaxNonce: the loop's increment cannot overflow.   *)
THEOREM NonceNeverOverflows == Spec => []TypeOK
  BY InitSearch, NextSearch, PTL DEF Spec, SearchInv

(* A completed job reports its first valid nonce, and a failed one has none. *)
THEOREM AnswersAreRight == Spec => []SearchSound
  BY InitSearch, NextSearch, PTL DEF Spec, SearchInv

-----------------------------------------------------------------------------
(* Progress *)

(* How many nonces a running job still has to try.                           *)
Left(job) == (job.nonce_end - job.current_nonce) + IF job.hash_count = 0 THEN 1 ELSE 0

(* At most the whole range, and never none.                                  *)
SomeLeft ==
  \A id \in DOMAIN jobs :
    jobs[id].status = "running" =>
      Left(jobs[id]) \in 1..(jobs[id].nonce_end - jobs[id].nonce_start + 1)

(* A pass of the loop: it leaves no running job behind.                      *)
PassAdvances ==
  /\ DOMAIN jobs' = DOMAIN jobs
  /\ \A id \in DOMAIN jobs :
       IF jobs[id].status = "running"
         THEN jobs'[id].status # "running" \/ Left(jobs'[id]) = Left(jobs[id]) - 1
         ELSE jobs'[id] = jobs[id]

(* A request: it leaves the other jobs where they are.                       *)
RequestApart ==
  /\ DOMAIN jobs' # DOMAIN jobs
  /\ \A id \in DOMAIN jobs \cap DOMAIN jobs' : jobs'[id] = jobs[id]

\* What is left of a job before and after a pass.
LEMMA MinedAdvances ==
  ASSUME NEW j \in MiningJob, Sound(j), j.status = "running"
  PROVE  /\ Left(j) \in 1..(j.nonce_end - j.nonce_start + 1)
         /\ Mined(j).status # "running" \/ Left(Mined(j)) = Left(j) - 1
<1>1. /\ j.nonce_start \in 0..MaxNonce /\ j.nonce_end \in 0..MaxNonce
      /\ j.current_nonce \in 0..MaxNonce /\ j.hash_count \in 0..(MaxNonce + 1)
  BY DEF MiningJob
<1>2. /\ j.current_nonce \in j.nonce_start..j.nonce_end
      /\ j.hash_count \in {0, j.current_nonce - j.nonce_start + 1}
      /\ j.hash_count = 0 => j.current_nonce = j.nonce_start
      /\ j.hash_count > 0 => j.current_nonce < j.nonce_end
  BY DEF Sound
<1>3. Left(j) \in 1..(j.nonce_end - j.nonce_start + 1)
  BY <1>1, <1>2, MaxNonceAssumption DEF Left
<1>4. /\ Mined(j).nonce_end = j.nonce_end /\ Mined(j).current_nonce = Tried(j)
      /\ Mined(j).hash_count = j.hash_count + 1
  <2> DEFINE n == Tried(j)
             m == [j EXCEPT !.current_nonce = n, !.hash_count = @ + 1,
                            !.status = Verdict(j, n)]
  <2>1. n \in Int /\ ~(n > j.nonce_end)
    BY <1>1, <1>2, MaxNonceAssumption DEF Tried
  <2>2. Mined(j) = m
    BY <2>1 DEF Mined
  <2>3. m.nonce_end = j.nonce_end /\ m.current_nonce = n /\ m.hash_count = j.hash_count + 1
    BY DEF MiningJob
  <2> QED BY <2>2, <2>3
<1>5. Left(Mined(j)) = Left(j) - 1
  BY <1>1, <1>2, <1>4, MaxNonceAssumption DEF Left, Tried
<1> QED BY <1>3, <1>5

\* A request is one thing, a pass another.
LEMMA NextAdvances == SearchInv /\ [Next]_jobs => [PassAdvances \/ RequestApart]_jobs
<1> SUFFICES ASSUME SearchInv, Next PROVE PassAdvances \/ RequestApart
  OBVIOUS
<1>1. ASSUME NEW id \in JobId, NEW w \in Work, NEW first \in 0..MaxNonce,
             NEW last \in 0..MaxNonce, HandleMine(id, w, first, last)
      PROVE  RequestApart
  <2> DEFINE new == NewJob(w, first, last)
  <2> HIDE DEF new
  <2>1. /\ id \notin DOMAIN jobs
        /\ jobs' = [i \in DOMAIN jobs \cup {id} |-> IF i = id THEN new ELSE jobs[i]]
    BY <1>1 DEF HandleMine, AddJob, new
  <2> QED BY <2>1 DEF RequestApart
<1>2. ASSUME NEW id \in JobId, HandleCancel(id) PROVE RequestApart
  BY <1>2 DEF HandleCancel, RemoveJob, RequestApart
<1>3. CASE MiningPass
  <2>1. jobs' = [id \in DOMAIN jobs |-> Mined(jobs[id])]
    BY <1>3 DEF MiningPass
  <2>2. ASSUME NEW id \in DOMAIN jobs
        PROVE  IF jobs[id].status = "running"
                 THEN jobs'[id].status # "running" \/ Left(jobs'[id]) = Left(jobs[id]) - 1
                 ELSE jobs'[id] = jobs[id]
    <3>1. jobs[id] \in MiningJob /\ Sound(jobs[id]) /\ jobs'[id] = Mined(jobs[id])
      BY <2>1 DEF SearchInv, TypeOK, SearchSound
    <3> QED BY <3>1, MinedSound, MinedAdvances
  <2> QED BY <2>1, <2>2 DEF PassAdvances
<1>4. CASE Restart
  <2>1. DOMAIN jobs # {} /\ DOMAIN jobs' = {}
    BY <1>4 DEF Restart, NoJobs, SearchInv, TypeOK
  <2> QED BY <2>1 DEF RequestApart
<1> QED BY <1>1, <1>2, <1>3, <1>4 DEF Next

(* start_mining_loop (lib.rs:98): every pass answers a running job or leaves *)
(* it one nonce less, whatever is mined beside it, and no request sets one   *)
(* back. A job that is neither cancelled nor lost is answered within as many *)
(* passes as its range has nonces: what JobsEnd needs beside fairness.       *)
THEOREM EveryPassAdvances == Spec => []SomeLeft /\ [][PassAdvances \/ RequestApart]_jobs
<1>1. Spec => []SearchInv
  BY InitSearch, NextSearch, PTL DEF Spec
<1>2. SearchInv => SomeLeft
  BY MinedAdvances DEF SearchInv, TypeOK, SearchSound, SomeLeft
<1> QED BY <1>1, <1>2, NextAdvances, PTL DEF Spec

-----------------------------------------------------------------------------
(* Refinement *)

Table == [id \in DOMAIN jobs |-> Promised(jobs[id])]

\* What a pass makes of a job is nothing a client sees, or a right answer.
LEMMA MinedAnswers ==
  ASSUME NEW j \in MiningJob, Sound(j)
  PROVE  /\ Promised(j).status = j.status
         /\ Mined(j).status = j.status => Promised(Mined(j)) = Promised(j)
         /\ Mined(j).status # j.status =>
              /\ j.status = "running"
              /\ Promised(Mined(j)) \in Promise!Answers(Promised(j))
<1> DEFINE m == Mined(j)
<1> HIDE DEF m
<1>1. /\ m \in MiningJob /\ Sound(m)
      /\ m.work = j.work /\ m.nonce_start = j.nonce_start /\ m.nonce_end = j.nonce_end
      /\ j.status # "running" => m = j
  BY MinedSound DEF m
<1>2. Promised(j).status = j.status
  BY DEF Promised
<1>3. ASSUME m.status = j.status PROVE Promised(m) = Promised(j)
  BY <1>1, <1>3 DEF Promised
<1>4. ASSUME m.status # j.status
      PROVE  j.status = "running" /\ Promised(m) \in Promise!Answers(Promised(j))
  <2>1. j.status = "running"
    BY <1>1, <1>4
  <2> DEFINE p == Promised(j)
             S == (j.nonce_start..j.nonce_end) \cap Valid[j.work]
  <2>2. /\ p = [work |-> j.work, range |-> j.nonce_start..j.nonce_end,
                status |-> "running", solution |-> MaxNonce + 1]
        /\ Promise!Solutions(p) = S
    BY <2>1 DEF Promised, Promise!Solutions
  <2>3. CASE m.status = "completed"
    <3>1. m.current_nonce \in S
      BY <1>1, <2>3 DEF Sound
    <3>2. Promised(m) = [work |-> p.work, range |-> p.range,
                         status |-> "completed", solution |-> m.current_nonce]
      BY <1>1, <2>2, <2>3 DEF Promised
    <3> QED BY <2>1, <2>2, <3>1, <3>2 DEF Promise!Answers
  <2>4. CASE m.status = "failed"
    <3>1. S = {}
      BY <1>1, <2>4 DEF Sound, NoneValid
    <3>2. Promised(m) = [p EXCEPT !.status = "failed"]
      BY <1>1, <2>2, <2>4 DEF Promised
    <3> QED BY <2>1, <2>2, <3>1, <3>2 DEF Promise!Answers
  <2> QED BY <1>1, <1>4, <2>1, <2>3, <2>4 DEF MiningJob
<1> QED BY <1>2, <1>3, <1>4 DEF m

\* The empty table is the empty table.
LEMMA InitPromise == Init => Promise!Init
  BY DEF Init, NoJobs, Promise!Init

\* Every step is one of NonceSearch, or none at all.
LEMMA NextPromise == SearchInv /\ [Next]_jobs => [Promise!Next]_Table
<1> SUFFICES ASSUME SearchInv, [Next]_jobs PROVE Promise!Next \/ Table' = Table
  BY DEF Table
<1>0. /\ DOMAIN Table = DOMAIN jobs
      /\ \A i \in DOMAIN jobs : Table[i] = Promised(jobs[i])
  BY DEF Table
<1>1. ASSUME NEW id \in JobId, NEW w \in Work, NEW first \in 0..MaxNonce,
             NEW last \in 0..MaxNonce, HandleMine(id, w, first, last)
      PROVE  Promise!Next
  <2> DEFINE range == first..last
             new == [work |-> w, range |-> range,
                     status |-> "running", solution |-> MaxNonce + 1]
  <2>1. Promised(NewJob(w, first, last)) = new
    BY DEF Promised, NewJob
  <2>2. Table' = [i \in DOMAIN Table \cup {id} |-> IF i = id THEN new ELSE Table[i]]
    BY <1>0, <1>1, <2>1 DEF HandleMine, AddJob, Table
  <2>3. Promise!Submit(id, w, range)
    BY <1>0, <1>1, <2>2 DEF HandleMine, AddJob, Promise!Submit, Table
  <2>4. range \in SUBSET (0..MaxNonce)
    BY MaxNonceAssumption
  <2> QED BY <2>3, <2>4 DEF Promise!Next
<1>2. ASSUME NEW id \in JobId, HandleCancel(id) PROVE Promise!Next
  <2>1. Table' = [i \in DOMAIN Table \ {id} |-> Table[i]]
    BY <1>0, <1>2 DEF HandleCancel, RemoveJob, Table
  <2>2. Promise!Cancel(id)
    BY <1>0, <1>2, <2>1 DEF HandleCancel, RemoveJob, Promise!Cancel, Table
  <2> QED BY <2>2 DEF Promise!Next
<1>3. CASE MiningPass
  <2> DEFINE done == {i \in DOMAIN jobs : Mined(jobs[i]).status # jobs[i].status}
             answer == [i \in done |-> Promised(Mined(jobs[i]))]
  <2>1. ASSUME NEW i \in DOMAIN jobs
        PROVE  /\ Promised(jobs[i]).status = jobs[i].status
               /\ i \notin done => Promised(Mined(jobs[i])) = Promised(jobs[i])
               /\ i \in done => /\ jobs[i].status = "running"
                                /\ answer[i] \in Promise!Answers(Promised(jobs[i]))
    BY MinedAnswers DEF SearchInv, TypeOK, SearchSound
  <2>2. Table' = [i \in DOMAIN jobs |-> Promised(Mined(jobs[i]))]
    BY <1>3 DEF MiningPass, Table
  <2>3. Table' = [i \in DOMAIN Table |-> IF i \in done THEN answer[i] ELSE Table[i]]
    BY <1>0, <2>1, <2>2
  <2>4. CASE done = {}
    BY <1>0, <2>3, <2>4 DEF Table
  <2>5. CASE done # {}
    <3>1. done \in SUBSET Promise!Running
      BY <1>0, <2>1 DEF Promise!Running, Table
    <3>2. \A i \in done : answer[i] \in Promise!Answers(Table[i])
      BY <1>0, <2>1
    <3>3. answer \in [done -> UNION {Promise!Answers(Table[i]) : i \in done}]
      BY <3>2
    <3>4. Promise!Answer(done)
      BY <2>3, <2>5, <3>2, <3>3 DEF Promise!Answer, Table
    <3> QED BY <3>1, <3>4 DEF Promise!Next
  <2> QED BY <2>4, <2>5
<1>4. CASE Restart
  <2>1. jobs # NoJobs /\ jobs' = NoJobs
    BY <1>4 DEF Restart
  <2>2. DOMAIN jobs # {} /\ DOMAIN jobs' = {}
    BY <2>1 DEF NoJobs, SearchInv, TypeOK
  <2>3. DOMAIN Table # {} /\ Table' = [i \in {} |-> MaxNonce + 1]
    BY <1>0, <2>2 DEF Table
  <2>4. Promise!Restart
    BY <2>3 DEF Promise!Restart, Table
  <2> QED BY <2>4 DEF Promise!Next
<1>5. CASE UNCHANGED jobs
  BY <1>5 DEF Table
<1> QED BY <1>1, <1>2, <1>3, <1>4, <1>5 DEF Next

(* The service implements NonceSearch: one right answer per accepted job,    *)
(* which stays until the job is cancelled or the service restarted.          *)
THEOREM MinerImplementsNonceSearch == Spec => ImplementsNonceSearch
<1>1. Spec => []SearchInv
  BY InitSearch, NextSearch, PTL DEF Spec
<1> QED
  BY <1>1, InitPromise, NextPromise, PTL DEF Spec, ImplementsNonceSearch, Promise!Spec, Table
=============================================================================
