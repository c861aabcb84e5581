-------------------------- MODULE OpsWorkerProofs --------------------------
(***************************************************************************)
(* What the operations worker keeps over any number of posts and restarts. *)
(***************************************************************************)
EXTENDS OpsWorker, TLAPS

-----------------------------------------------------------------------------
(* The inductive invariant.                                                 *)

\* What process_once holds in memory agrees with where it is: the job is not
\* the recorded one, and a final status is the outcome of its execution.
InMemory ==
    /\ pc = "idle" <=> job = NoJob
    /\ pc # "idle" => job # lastJob
    /\ pc \in {"start", "execute"} => status = "running"
    /\ pc \in {"keep", "show", "latest", "record"} => status \in Final \cup {"running"}
    /\ pc = "record" => status \in Final
    /\ status \in Final => status = outcome[job]

\* The files already written in this publish.
Written ==
    /\ pc \in {"show", "latest", "start", "execute", "record"} => kept[job] = status
    /\ pc \in {"latest", "start", "execute", "record"} => public[job] = status
    /\ pc \in {"start", "execute", "record"} => latest = [job |-> job, status |-> status]

\* A job that is about to be started, or would be on the next fetch, has a
\* post or an interruption left to account for the start.
Credit ==
    \A j \in Jobs :
        (\/ job = j /\ status = "running" /\ pc # "execute"
         \/ branch = j /\ job # j /\ ~ (job = NoJob /\ lastJob = j))
            => runs[j] < posts[j] + stops[j]

IInv == /\ TypeOK /\ InMemory /\ Written /\ Credit
        /\ RecordedIsPublished /\ ExecutionsAccounted /\ RunningIsExplained

-----------------------------------------------------------------------------

LEMMA InvariantInit == Init => IInv
  <1>. SUFFICES ASSUME Init PROVE IInv
    OBVIOUS
  <1>. USE OpsAssumption DEF Init, NoRow, Results, Final
  <1>1. TypeOK
    <2>1. 0 \in 0..MaxPosts /\ 0 \in 0..MaxStops /\ 0 \in Nat
      OBVIOUS
    <2>2. error \in BOOLEAN
      OBVIOUS
    <2>3. latest \in Row
      BY DEF Row
    <2>4. kept \in [Jobs -> Results] /\ public \in [Jobs -> Results] /\ outcome \in [Jobs -> Results]
      OBVIOUS
    <2>5. runs \in [Jobs -> Nat] /\ posts \in [Jobs -> 0..MaxPosts] /\ stops \in [Jobs -> 0..MaxStops]
      BY <2>1
    <2>. QED
      BY <2>2, <2>3, <2>4, <2>5 DEF TypeOK, Points
  <1>2. InMemory /\ Written
    BY DEF InMemory, Written
  <1>3. Credit /\ ExecutionsAccounted
    BY DEF Credit, ExecutionsAccounted
  <1>4. RecordedIsPublished /\ RunningIsExplained
    BY DEF RecordedIsPublished, RunningIsExplained
  <1>. QED
    BY <1>1, <1>2, <1>3, <1>4 DEF IInv

LEMMA TypeStep == TypeOK /\ InMemory /\ [Next]_vars => TypeOK'
  <1>. SUFFICES ASSUME TypeOK, InMemory, [Next]_vars PROVE TypeOK'
    OBVIOUS
  <1>. USE OpsAssumption DEF TypeOK, InMemory, Row, Results, Points, files, memory, history
  <1>1. ASSUME NEW j \in Jobs, Post(j) PROVE TypeOK'
    BY <1>1 DEF Post
  <1>2. CASE PostNothing
    BY <1>2 DEF PostNothing
  <1>3. CASE Fetch
    BY <1>3 DEF Fetch
  <1>4. CASE FetchMalformed
    BY <1>4 DEF FetchMalformed
  <1>5. CASE Keep
    BY <1>5 DEF Keep
  <1>6. CASE Show
    BY <1>6 DEF Show
  <1>7. CASE ShowLatest
    BY <1>7 DEF ShowLatest
  <1>8. CASE Start
    BY <1>8 DEF Start
  <1>9. CASE Record
    BY <1>9 DEF Record
  <1>10. ASSUME NEW result \in Final, Conclude(result) PROVE TypeOK'
    BY <1>10 DEF Conclude
  <1>11. CASE Interrupt
    <2>1. job \in Jobs
      BY <1>11 DEF Interrupt
    <2>2. stops[job] + 1 \in 0..MaxStops
      BY <1>11, <2>1 DEF Interrupt
    <2>3. stops' \in [Jobs -> 0..MaxStops]
      BY <1>11, <2>1, <2>2 DEF Interrupt
    <2>4. error' \in BOOLEAN
      BY <1>11 DEF Interrupt
    <2>. QED
      BY <1>11, <2>3, <2>4 DEF Interrupt
  <1>12. CASE UNCHANGED vars
    BY <1>12 DEF vars
  <1>. QED
    BY <1>1, <1>2, <1>3, <1>4, <1>5, <1>6, <1>7, <1>8, <1>9, <1>10, <1>11, <1>12 DEF Next, Step

LEMMA MemoryStep == IInv /\ [Next]_vars => InMemory'
  <1>. SUFFICES ASSUME IInv, [Next]_vars PROVE InMemory'
    OBVIOUS
  <1>. USE OpsAssumption DEF IInv, TypeOK, InMemory, Written, Row, Results, Final, Points, files, memory, history
  <1>1. ASSUME NEW j \in Jobs, Post(j) PROVE InMemory'
    BY <1>1 DEF Post
  <1>2. CASE PostNothing
    BY <1>2 DEF PostNothing
  <1>3. CASE Fetch
    BY <1>3 DEF Fetch
  <1>4. CASE FetchMalformed
    BY <1>4 DEF FetchMalformed
  <1>5. CASE Keep
    BY <1>5 DEF Keep
  <1>6. CASE Show
    BY <1>6 DEF Show
  <1>7. CASE ShowLatest
    BY <1>7 DEF ShowLatest
  <1>8. CASE Start
    BY <1>8 DEF Start
  <1>9. CASE Record
    BY <1>9 DEF Record
  <1>10. ASSUME NEW result \in Final, Conclude(result) PROVE InMemory'
    BY <1>10 DEF Conclude
  <1>11. CASE Interrupt
    BY <1>11 DEF Interrupt
  <1>12. CASE UNCHANGED vars
    BY <1>12 DEF vars
  <1>. QED
    BY <1>1, <1>2, <1>3, <1>4, <1>5, <1>6, <1>7, <1>8, <1>9, <1>10, <1>11, <1>12 DEF Next, Step

LEMMA WrittenStep == IInv /\ [Next]_vars => Written'
  <1>. SUFFICES ASSUME IInv, [Next]_vars PROVE Written'
    OBVIOUS
  <1>. USE OpsAssumption DEF IInv, TypeOK, InMemory, Written, Row, Results, Final, Points, files, memory, history
  <1>1. ASSUME NEW j \in Jobs, Post(j) PROVE Written'
    BY <1>1 DEF Post
  <1>2. CASE PostNothing
    BY <1>2 DEF PostNothing
  <1>3. CASE Fetch
    BY <1>3 DEF Fetch
  <1>4. CASE FetchMalformed
    BY <1>4 DEF FetchMalformed
  <1>5. CASE Keep
    BY <1>5 DEF Keep
  <1>6. CASE Show
    BY <1>6 DEF Show
  <1>7. CASE ShowLatest
    BY <1>7 DEF ShowLatest
  <1>8. CASE Start
    BY <1>8 DEF Start
  <1>9. CASE Record
    BY <1>9 DEF Record
  <1>10. ASSUME NEW result \in Final, Conclude(result) PROVE Written'
    BY <1>10 DEF Conclude
  <1>11. CASE Interrupt
    BY <1>11 DEF Interrupt
  <1>12. CASE UNCHANGED vars
    BY <1>12 DEF vars
  <1>. QED
    BY <1>1, <1>2, <1>3, <1>4, <1>5, <1>6, <1>7, <1>8, <1>9, <1>10, <1>11, <1>12 DEF Next, Step

LEMMA CreditStep == IInv /\ [Next]_vars => (Credit /\ ExecutionsAccounted)'
  <1>. SUFFICES ASSUME IInv, [Next]_vars PROVE (Credit /\ ExecutionsAccounted)'
    OBVIOUS
  <1>. USE OpsAssumption DEF IInv, TypeOK, InMemory, Credit, ExecutionsAccounted, Row, Results, Final, Points, files, memory, history
  <1>1. ASSUME NEW j \in Jobs, Post(j) PROVE (Credit /\ ExecutionsAccounted)'
    BY <1>1 DEF Post
  <1>2. CASE PostNothing
    BY <1>2 DEF PostNothing
  <1>3. CASE Fetch
    BY <1>3 DEF Fetch
  <1>4. CASE FetchMalformed
    BY <1>4 DEF FetchMalformed
  <1>5. CASE Keep
    BY <1>5 DEF Keep
  <1>6. CASE Show
    BY <1>6 DEF Show
  <1>7. CASE ShowLatest
    BY <1>7 DEF ShowLatest
  <1>8. CASE Start
    BY <1>8 DEF Start
  <1>9. CASE Record
    BY <1>9 DEF Record
  <1>10. ASSUME NEW result \in Final, Conclude(result) PROVE (Credit /\ ExecutionsAccounted)'
    BY <1>10 DEF Conclude
  <1>11. CASE Interrupt
    BY <1>11 DEF Interrupt
  <1>12. CASE UNCHANGED vars
    BY <1>12 DEF vars
  <1>. QED
    BY <1>1, <1>2, <1>3, <1>4, <1>5, <1>6, <1>7, <1>8, <1>9, <1>10, <1>11, <1>12 DEF Next, Step

LEMMA ResultStep == IInv /\ [Next]_vars => (RecordedIsPublished /\ RunningIsExplained)'
  <1>. SUFFICES ASSUME IInv, [Next]_vars PROVE (RecordedIsPublished /\ RunningIsExplained)'
    OBVIOUS
  <1>. USE OpsAssumption DEF IInv, TypeOK, InMemory, Written, RecordedIsPublished, RunningIsExplained, Row, Results, Final, Points, files, memory, history
  <1>1. ASSUME NEW j \in Jobs, Post(j) PROVE (RecordedIsPublished /\ RunningIsExplained)'
    BY <1>1 DEF Post
  <1>2. CASE PostNothing
    BY <1>2 DEF PostNothing
  <1>3. CASE Fetch
    BY <1>3 DEF Fetch
  <1>4. CASE FetchMalformed
    BY <1>4 DEF FetchMalformed
  <1>5. CASE Keep
    BY <1>5 DEF Keep
  <1>6. CASE Show
    BY <1>6 DEF Show
  <1>7. CASE ShowLatest
    BY <1>7 DEF ShowLatest
  <1>8. CASE Start
    BY <1>8 DEF Start
  <1>9. CASE Record
    BY <1>9 DEF Record
  <1>10. ASSUME NEW result \in Final, Conclude(result) PROVE (RecordedIsPublished /\ RunningIsExplained)'
    BY <1>10 DEF Conclude
  <1>11. CASE Interrupt
    BY <1>11 DEF Interrupt
  <1>12. CASE UNCHANGED vars
    BY <1>12 DEF vars
  <1>. QED
    BY <1>1, <1>2, <1>3, <1>4, <1>5, <1>6, <1>7, <1>8, <1>9, <1>10, <1>11, <1>12 DEF Next, Step

LEMMA Invariance == Spec => []IInv
  <1>1. IInv /\ [Next]_vars => IInv'
    BY TypeStep, MemoryStep, WrittenStep, CreditStep, ResultStep DEF IInv
  <1>. QED
    BY <1>1, InvariantInit, PTL DEF Spec

-----------------------------------------------------------------------------

\* Every file of the worker holds a legal value.
THEOREM TypeCorrect == Spec => []TypeOK
  BY Invariance, PTL DEF IInv

\* The job in worker-state.json has its final result in every result file, for
\* any number of posts and of deaths of the process (process_once, publish).
THEOREM RecordedHasItsResult == Spec => []RecordedIsPublished
  BY Invariance, PTL DEF IInv

\* last_job_id keeps the worker from repeating a job, except after a post or
\* an interruption of that job (process_once).
THEOREM NoUnexplainedExecution == Spec => []ExecutionsAccounted
  BY Invariance, PTL DEF IInv

\* A "running" result that nobody works on was left by an interruption.
THEOREM NoUnexplainedRunning == Spec => []RunningIsExplained
  BY Invariance, PTL DEF IInv

=============================================================================
