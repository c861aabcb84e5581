------------------------------ MODULE Workers ------------------------------
(***************************************************************************)
(* The registry of AI workers (remote_workers.py) and the service that     *)
(* polls them (worker_health.py).                                          *)
(*                                                                         *)
(* The registry has no lock: set_state assigns the state and the           *)
(* capabilities of a worker one after the other, and the bridge, the       *)
(* watchdog and the operator server read them at any time.  The service    *)
(* polls once in the thread that starts it, then in a thread of its own;   *)
(* stop waits for that thread only so long.  last_error and                *)
(* consecutive_failures, which the program never reads, are left out, and  *)
(* so is gpu_name.                                                         *)
(***************************************************************************)
EXTENDS Naturals

CONSTANTS
    N,        \* workers 1..N, in the order of endpoints and of priority
    Answers,  \* bound: the kinds of answers the workers give
    Threads,  \* bound: poller threads alive at the same time
    Host,     \* the thread that starts and stops the service
    NoThread  \* no thread

\* What a worker answers.  down: /health fails or says otherwise; bare: only
\* /capabilities fails; idle, ready: all is well, without or with a model at
\* hand; fault: an exception the probe does not catch.
Recorded == {"down", "bare", "idle", "ready"}

ASSUME WorkersAssumption ==
    /\ N \in Nat \ {0}
    /\ Answers \subseteq Recorded \cup {"fault"}
    /\ Host \notin Threads /\ NoThread \notin Threads /\ Host # NoThread

Workers == 1..N
Pollers == Threads \cup {Host}

States == {"UNKNOWN", "ONLINE", "DEGRADED", "OFFLINE"}

\* The calls of set_state in _poll_endpoint.
StateFor(answer) ==
    CASE answer = "down"             -> "OFFLINE"
      [] answer = "bare"             -> "DEGRADED"
      [] answer \in {"idle", "ready"} -> "ONLINE"
      [] OTHER                       -> "UNKNOWN"

VARIABLES
    serves,   \* what each worker would answer now
    state,    \* RegisteredWorker.state
    runtime,  \* whether its model_runtime_available is True
    stopped,  \* the event _stop
    thread,   \* _thread
    pc,       \* where each thread is
    at,       \* the worker it polls
    found,    \* the answer it records
    heard,    \* history: the last answer recorded for each worker
    overran   \* history: stop once gave up waiting for a thread

registry == <<state, runtime>>
service  == <<stopped, thread>>
polling  == <<pc, at, found>>
history  == <<heard, overran>>
vars     == <<serves, registry, service, polling, history>>

Probing == {"health", "capabilities", "state", "runtime"}
Points  == {"off", "wait", "spawn", "join"} \cup Probing

TypeOK ==
    /\ serves  \in [Workers -> Answers]
    /\ state   \in [Workers -> States]
    /\ runtime \in [Workers -> BOOLEAN]
    /\ stopped \in BOOLEAN
    /\ thread  \in Threads \cup {NoThread}
    /\ pc      \in [Pollers -> Points]
    /\ at      \in [Pollers -> Workers]
    /\ found   \in [Pollers -> Recorded]
    /\ heard   \in [Workers -> Recorded \cup {"nothing"}]
    /\ overran \in BOOLEAN

Init ==
    /\ serves \in [Workers -> Answers]
    /\ state   = [w \in Workers |-> "UNKNOWN"]
    /\ runtime = [w \in Workers |-> FALSE]
    /\ stopped = FALSE /\ thread = NoThread
    /\ pc    = [p \in Pollers |-> "off"]
    /\ at    = [p \in Pollers |-> 1]
    /\ found = [p \in Pollers |-> "down"]
    /\ heard = [w \in Workers |-> "nothing"]
    /\ overran = FALSE

Alive(t) == pc[t] # "off"

\* WorkerHealthService.running
Running == thread # NoThread /\ Alive(thread)

\* What remote_ai_available and route ask of a worker.
Counts(w) == state[w] = "ONLINE" /\ runtime[w]

\* A worker comes, goes, loads or loses its model.
Change(w) ==
    /\ \E answer \in Answers \ {serves[w]} :
          serves' = [serves EXCEPT ![w] = answer]
    /\ UNCHANGED <<registry, service, polling, history>>

-----------------------------------------------------------------------------
(* WorkerHealthProbe.poll_once.                                             *)

\* The endpoints in turn; then the host starts the thread, the thread waits.
NextPoint(p) == IF at[p] < N THEN "health" ELSE IF p = Host THEN "spawn" ELSE "wait"
NextAt(p)    == IF at[p] < N THEN at[p] + 1 ELSE 1

\* /health has answered, or not.
Health(p) ==
    LET answer == serves[at[p]] IN
    /\ pc[p] = "health" /\ answer # "fault"
    /\ \/ /\ answer = "down"
          /\ pc' = [pc EXCEPT ![p] = "state"]
          /\ found' = [found EXCEPT ![p] = answer]
       \/ /\ answer # "down"
          /\ pc' = [pc EXCEPT ![p] = "capabilities"]
          /\ UNCHANGED found
    /\ UNCHANGED <<serves, registry, service, at, history>>

\* /capabilities has answered, or not: by now the worker may be gone.
Capabilities(p) ==
    LET answer == serves[at[p]] IN
    /\ pc[p] = "capabilities" /\ answer # "fault"
    /\ pc' = [pc EXCEPT ![p] = "state"]
    /\ found' = [found EXCEPT ![p] = IF answer = "down" THEN "bare" ELSE answer]
    /\ UNCHANGED <<serves, registry, service, at, history>>

\* An exception the probe does not catch ends the round: the thread goes on
\* with the next one, a start fails.
Fault(p) ==
    /\ pc[p] \in {"health", "capabilities"} /\ serves[at[p]] = "fault"
    /\ pc' = [pc EXCEPT ![p] = IF p = Host THEN "off" ELSE "wait"]
    /\ at' = [at EXCEPT ![p] = 1]
    /\ UNCHANGED <<serves, registry, service, found, history>>

\* A poll is over, its answer recorded.
Advance(p) ==
    /\ pc' = [pc EXCEPT ![p] = NextPoint(p)]
    /\ at' = [at EXCEPT ![p] = NextAt(p)]
    /\ found' = [found EXCEPT ![p] = "down"]
    /\ heard' = [heard EXCEPT ![at[p]] = found[p]]

\* Mutant: set_state keeps the capabilities it has.
SetStateOnly(p) ==
    /\ pc[p] = "state"
    /\ state' = [state EXCEPT ![at[p]] = StateFor(found[p])]
    /\ Advance(p)
    /\ UNCHANGED <<serves, runtime, service, overran>>

\* set_state assigns the state ...
SetState(p) ==
    LET new == StateFor(found[p]) IN
    /\ pc[p] = "state"
    /\ state' = [state EXCEPT ![at[p]] = new]
    /\ \/ /\ new = "ONLINE"
          /\ pc' = [pc EXCEPT ![p] = "runtime"]
          /\ UNCHANGED <<at, found, heard>>
       \/ /\ new # "ONLINE"
          /\ Advance(p)
    /\ UNCHANGED <<serves, runtime, service, overran>>

\* Mutant: a model once reported stays reported.
SetCapabilitiesSticky(p) ==
    /\ pc[p] = "runtime"
    /\ runtime' = [runtime EXCEPT ![at[p]] = @ \/ found[p] = "ready"]
    /\ Advance(p)
    /\ UNCHANGED <<serves, state, service, overran>>

\* ... and then the capabilities, where the caller names them.
SetCapabilities(p) ==
    /\ pc[p] = "runtime"
    /\ runtime' = [runtime EXCEPT ![at[p]] = (found[p] = "ready")]
    /\ Advance(p)
    /\ UNCHANGED <<serves, state, service, overran>>

-----------------------------------------------------------------------------
(* WorkerHealthService.                                                     *)

\* Mutant: start does not ask whether a thread runs.
StartAlways ==
    /\ pc[Host] = "off"
    /\ stopped' = FALSE
    /\ pc' = [pc EXCEPT ![Host] = "health"]
    /\ UNCHANGED <<serves, registry, thread, at, found, history>>

\* start, up to its own round of polling; nothing when a thread runs.
Start ==
    /\ pc[Host] = "off" /\ ~ Running
    /\ stopped' = FALSE
    /\ pc' = [pc EXCEPT ![Host] = "health"]
    /\ UNCHANGED <<serves, registry, thread, at, found, history>>

\* The rest of start.
Spawn(t) ==
    /\ pc[Host] = "spawn" /\ ~ Alive(t)
    /\ thread' = t
    /\ pc' = [pc EXCEPT ![Host] = "off", ![t] = "wait"]
    /\ UNCHANGED <<serves, registry, stopped, at, found, history>>

\* _run: the wait for _stop ends with a new round or, once it is set, for good.
Round(t) ==
    /\ pc[t] = "wait" /\ ~ stopped
    /\ pc' = [pc EXCEPT ![t] = "health"]
    /\ UNCHANGED <<serves, registry, service, at, found, history>>

Leave(t) ==
    /\ pc[t] = "wait" /\ stopped
    /\ pc' = [pc EXCEPT ![t] = "off"]
    /\ UNCHANGED <<serves, registry, service, at, found, history>>

Stop ==
    /\ pc[Host] = "off"
    /\ stopped' = TRUE
    /\ pc' = [pc EXCEPT ![Host] = "join"]
    /\ UNCHANGED <<serves, registry, thread, at, found, history>>

\* join returns when the thread has ended or its timeout is over.
Joined ==
    /\ pc[Host] = "join"
    /\ overran' = (overran \/ Running)
    /\ thread' = NoThread
    /\ pc' = [pc EXCEPT ![Host] = "off"]
    /\ UNCHANGED <<serves, registry, stopped, at, found, heard>>

-----------------------------------------------------------------------------

Poll(p) == Health(p) \/ Capabilities(p) \/ Fault(p) \/ SetState(p) \/ SetCapabilities(p)

Next ==
    \/ \E w \in Workers : Change(w)
    \/ \E p \in Pollers : Poll(p)
    \/ Start \/ Stop \/ Joined
    \/ \E t \in Threads : Spawn(t) \/ Round(t) \/ Leave(t)

\* Every exchange with a worker carries a timeout and the wait of _run lasts
\* interval_seconds.
Spec ==
    /\ Init /\ [][Next]_vars
    /\ \A t \in Threads : WF_vars(Poll(t) \/ Round(t) \/ Leave(t))

-----------------------------------------------------------------------------

\* The registry has one writer at a time, the host within start or the one
\* thread of the service, unless stop once gave up a thread that was still
\* polling: start clears the event that thread was to see.
OneWriter ==
    overran \/ \A p, q \in Pollers :
                  pc[p] \in Probing /\ pc[q] \in Probing => p = q

\* p is between the two assignments of set_state for w.
Between(p, w) == pc[p] = "runtime" /\ at[p] = w

\* As long as the registry has one writer, what it says of a worker is what
\* the last poll heard, but between two assignments of set_state; a worker
\* that never answered counts nowhere.
RegistryAsHeard ==
    overran \/ \A w \in Workers :
        (\A p \in Pollers : ~ Between(p, w)) =>
            /\ state[w] = StateFor(heard[w])
            /\ Counts(w) <=> heard[w] = "ready"

\* A worker that is gone for good is seen to be gone and no longer counted,
\* though it may end between its two answers and whatever the others answer,
\* as long as the service runs and no worker polled before it makes the probe
\* itself fail.
GoneIsNoticed ==
    \A w \in Workers :
        <>[](Running /\ ~ stopped /\ serves[w] = "down"
             /\ \A v \in 1..(w - 1) : serves[v] # "fault")
            => <>[](state[w] = "OFFLINE")

\* A worker that is ready for good counts in the end, likewise.
ReadyIsNoticed ==
    \A w \in Workers :
        <>[](Running /\ ~ stopped /\ serves[w] = "ready"
             /\ \A v \in 1..(w - 1) : serves[v] # "fault")
            => <>[]Counts(w)

\* Both: what happens to a worker for good is seen in the end
\* (WorkerHealthProbe.poll_once, WorkerHealthService._run).
ChangesAreNoticed == GoneIsNoticed /\ ReadyIsNoticed

=============================================================================
