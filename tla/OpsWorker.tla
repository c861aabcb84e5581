----------------------------- MODULE OpsWorker -----------------------------
(***************************************************************************)
(* The Git controlled operations worker, deploy/ubuntu/zen-ops-worker.py:  *)
(* an operator writes ops/job.json on the control branch; the worker       *)
(* fetches it every POLL_SECONDS, publishes a "running" result, executes   *)
(* the job, publishes its result and writes down last_job_id.              *)
(*                                                                         *)
(* Nothing else remembers which jobs were executed, and systemd restarts   *)
(* the process whenever it dies (Restart=always), so the worker is cut     *)
(* between any two of its file writes; every write replaces one file       *)
(* atomically (write_json).  The activity log is left out.                 *)
(***************************************************************************)
EXTENDS Naturals

CONSTANTS
    Jobs,       \* ids of the well-formed jobs the operator posts
    NoJob,      \* no readable ops/job.json on the branch; no last_job_id
    Malformed,  \* a job file validate_job refuses
    MaxPosts,   \* bound: how often one job is put on the branch
    MaxStops    \* bound: how often the processing of one job is cut short

ASSUME OpsAssumption ==
    /\ NoJob \notin Jobs /\ Malformed \notin Jobs /\ NoJob # Malformed
    /\ MaxPosts \in Nat /\ MaxStops \in Nat

\* completed, failed: the command returned zero or not; timeout: it was
\* killed; rejected: execute raised.
Final == {"completed", "failed", "timeout", "rejected"}

Results == {"none", "running"} \cup Final

VARIABLES
    branch,    \* what ops/job.json on zen-ops-control names
    pc,        \* where process_once is
    job,       \* the job it processes
    status,    \* the status of the payload it publishes
    kept,      \* jobs/<id>/result.json, by job
    public,    \* public/<id>.json, by job
    latest,    \* public/latest.json
    lastJob,   \* worker-state.json
    error,     \* whether public/worker-error.json exists
    outcome,   \* history: how the last finished execution of a job ended
    runs,      \* history: how often a job was started
    posts,     \* history: how often it was put on the branch
    stops      \* history: how often its processing was cut short

files   == <<kept, public, latest, lastJob, error>>
memory  == <<pc, job, status>>
history == <<outcome, runs, posts, stops>>
vars    == <<branch, memory, files, history>>

Points == {"idle", "keep", "show", "latest", "start", "execute", "record"}

Row == [job : Jobs \cup {NoJob}, status : Results]

TypeOK ==
    /\ branch   \in Jobs \cup {NoJob, Malformed}
    /\ pc       \in Points
    /\ job      \in Jobs \cup {NoJob}
    /\ status   \in Results
    /\ kept     \in [Jobs -> Results]
    /\ public   \in [Jobs -> Results]
    /\ latest   \in Row
    /\ lastJob  \in Jobs \cup {NoJob}
    /\ error    \in BOOLEAN
    /\ outcome  \in [Jobs -> Results]
    /\ runs     \in [Jobs -> Nat]
    /\ posts    \in [Jobs -> 0..MaxPosts]
    /\ stops    \in [Jobs -> 0..MaxStops]

NoRow == [job |-> NoJob, status |-> "none"]

Init ==
    /\ branch = NoJob
    /\ pc = "idle" /\ job = NoJob /\ status = "none"
    /\ kept   = [j \in Jobs |-> "none"]
    /\ public = [j \in Jobs |-> "none"]
    /\ latest = NoRow
    /\ lastJob = NoJob
    /\ error = FALSE
    /\ outcome = [j \in Jobs |-> "none"]
    /\ runs  = [j \in Jobs |-> 0]
    /\ posts = [j \in Jobs |-> 0]
    /\ stops = [j \in Jobs |-> 0]

-----------------------------------------------------------------------------
(* The operator.  A job that is posted takes the place of the one before,   *)
(* whether the worker has seen it or not.                                   *)

Post(j) ==
    /\ branch # j /\ posts[j] < MaxPosts
    /\ branch' = j
    /\ posts'  = [posts EXCEPT ![j] = @ + 1]
    /\ UNCHANGED <<memory, files, outcome, runs, stops>>

PostNothing ==
    /\ branch' \in {NoJob, Malformed} \ {branch}
    /\ UNCHANGED <<memory, files, history>>

-----------------------------------------------------------------------------
(* The worker.                                                              *)

\* Mutant: the id is not compared with last_job_id.
FetchAlways ==
    /\ pc = "idle"
    /\ branch \in Jobs
    /\ pc' = "keep" /\ job' = branch /\ status' = "running"
    /\ UNCHANGED <<branch, files, history>>

\* Mutant: the loop of main ends at the first error.
FetchUntilError ==
    /\ pc = "idle" /\ ~ error
    /\ branch \in Jobs /\ branch # lastJob
    /\ pc' = "keep" /\ job' = branch /\ status' = "running"
    /\ UNCHANGED <<branch, files, history>>

\* process_once up to the comparison with last_job_id.  A failed fetch, an
\* unreadable job and a job already recorded leave everything as it is.
Fetch ==
    /\ pc = "idle"
    /\ branch \in Jobs /\ branch # lastJob
    /\ pc' = "keep" /\ job' = branch /\ status' = "running"
    /\ UNCHANGED <<branch, files, history>>

\* validate_job raises; main writes worker-error.json, which nothing removes.
FetchMalformed ==
    /\ pc = "idle"
    /\ branch = Malformed
    /\ error' = TRUE
    /\ UNCHANGED <<branch, memory, kept, public, latest, lastJob, history>>

\* The three writes of publish.
Keep ==
    /\ pc = "keep" /\ pc' = "show"
    /\ kept' = [kept EXCEPT ![job] = status]
    /\ UNCHANGED <<branch, job, status, public, latest, lastJob, error, history>>

Show ==
    /\ pc = "show" /\ pc' = "latest"
    /\ public' = [public EXCEPT ![job] = status]
    /\ UNCHANGED <<branch, job, status, kept, latest, lastJob, error, history>>

ShowLatest ==
    /\ pc = "latest"
    /\ pc' = IF status = "running" THEN "start" ELSE "record"
    /\ latest' = [job |-> job, status |-> status]
    /\ UNCHANGED <<branch, job, status, kept, public, lastJob, error, history>>

\* execute hands the command to the system ...
Start ==
    /\ pc = "start" /\ pc' = "execute"
    /\ runs' = [runs EXCEPT ![job] = @ + 1]
    /\ UNCHANGED <<branch, job, status, files, outcome, posts, stops>>

\* Mutant: an exception of execute ends process_once.
ConcludeUncaught(result) ==
    /\ pc = "execute"
    /\ outcome' = [outcome EXCEPT ![job] = result]
    /\ \/ /\ result # "rejected"
          /\ pc' = "keep" /\ status' = result /\ UNCHANGED job
       \/ /\ result = "rejected"
          /\ pc' = "idle" /\ job' = NoJob /\ status' = "none"
    /\ UNCHANGED <<branch, files, runs, posts, stops>>

\* Mutant: the id is written down before the result is published.
ConcludeRecorded(result) ==
    /\ pc = "execute" /\ pc' = "keep"
    /\ outcome' = [outcome EXCEPT ![job] = result]
    /\ status'  = result
    /\ lastJob' = job
    /\ UNCHANGED <<branch, job, kept, public, latest, error, runs, posts, stops>>

\* ... and returns or raises within its timeout.
Conclude(result) ==
    /\ pc = "execute" /\ pc' = "keep"
    /\ outcome' = [outcome EXCEPT ![job] = result]
    /\ status'  = result
    /\ UNCHANGED <<branch, job, files, runs, posts, stops>>

\* worker-state.json names the job, which is done.
Record ==
    /\ pc = "record" /\ pc' = "idle"
    /\ lastJob' = job
    /\ job' = NoJob /\ status' = "none"
    /\ UNCHANGED <<branch, kept, public, latest, error, history>>

\* The process dies and is restarted, or a write raises and main reports it.
Interrupt ==
    /\ pc # "idle" /\ stops[job] < MaxStops
    /\ stops' = [stops EXCEPT ![job] = @ + 1]
    /\ pc' = "idle" /\ job' = NoJob /\ status' = "none"
    /\ error' \in {error, TRUE}
    /\ UNCHANGED <<branch, kept, public, latest, lastJob, outcome, runs, posts>>

-----------------------------------------------------------------------------

Step == \/ Keep \/ Show \/ ShowLatest \/ Start \/ Record
        \/ \E result \in Final : Conclude(result)

Next ==
    \/ PostNothing \/ \E j \in Jobs : Post(j)
    \/ Fetch \/ FetchMalformed \/ Step \/ Interrupt

\* A running worker goes on: its commands and executions carry timeouts.  A
\* job that stays on the branch is fetched in the end: a fetch that fails is
\* tried again every POLL_SECONDS.
Spec == Init /\ [][Next]_vars /\ WF_vars(Step) /\ WF_vars(Fetch)

-----------------------------------------------------------------------------

\* Once a job is recorded, every copy of its result is the final one of its
\* last execution, wherever the worker was cut short on the way, and no copy
\* is touched before another job is recorded.
RecordedIsPublished ==
    \A j \in Jobs :
        lastJob = j => /\ outcome[j] \in Final
                       /\ kept[j] = outcome[j] /\ public[j] = outcome[j]
                       /\ latest.job = j => latest.status = outcome[j]

\* A job runs a second time only because it was posted again or because its
\* processing was cut short: last_job_id accounts for everything else.
ExecutionsAccounted == \A j \in Jobs : runs[j] <= posts[j] + stops[j]

\* A result that says "running" is being worked on, or was cut short.
RunningIsExplained ==
    \A j \in Jobs : public[j] = "running" => job = j \/ stops[j] > 0

\* A job left on the branch is recorded in the end, so published, however
\* often the worker dies before.
PostedIsRecorded == \A j \in Jobs : <>[](branch = j) => <>(lastJob = j /\ pc = "idle")

=============================================================================
