------------------------------ MODULE Watchdog ------------------------------
(***************************************************************************)
(* The watchdog (watchdog.py): a monitor of component states that reports  *)
(* edges, and the service that polls it with the observations of FieldHost *)
(* (field_host.py).                                                        *)
(*                                                                         *)
(* An observation is collected component by component without a lock and   *)
(* applied under one.  As with the health service, stop waits for its      *)
(* thread only so long, and start lets a thread left behind go on.         *)
(* Severity and message are functions of an event's other fields, detail   *)
(* decides nothing: they are left out.                                     *)
(***************************************************************************)
EXTENDS Integers, Sequences, FiniteSets

CONSTANTS
    N,          \* components 1..N, in the order of the observation
    Required,   \* those whose loss is the loss of the whole
    Capacity,   \* event_capacity
    Threads,    \* bound: watchdog threads alive at the same time
    Host,       \* the thread that starts and stops the service
    NoThread,   \* no thread
    Seen,       \* bound: the states components have
    MaxChanges  \* bound: changes of the state of a component

Components == 1..N
Pollers == Threads \cup {Host}
States == {"UNKNOWN", "ONLINE", "DEGRADED", "OFFLINE"}
Absent == "ABSENT"   \* no entry; previous_state None

WatchdogAssumption ==
    /\ N \in Nat /\ Required \subseteq Components
    /\ Capacity \in 1..128 /\ MaxChanges \in Nat
    /\ Seen \subseteq States
    /\ Host \notin Threads /\ NoThread \notin Threads /\ Host # NoThread

Events == [sequence: Nat, component: Components,
           previous: States \cup {Absent}, current: States]

NothingSeen == [c \in Components |-> "UNKNOWN"]
NoAge       == [c \in Components |-> 0]

VARIABLES
    actual,     \* what each component says of itself now
    known,      \* _components: the states last applied
    events,     \* _events
    sequence,   \* _sequence
    stopped,    \* the event _stop
    thread,     \* _thread
    pc,         \* where each thread is
    at,         \* the component it observes next
    seen,       \* what it has observed
    age,        \* history: how often each component has changed
    noted,      \* history: the age of what a thread has observed
    applied,    \* history: the age of what is known
    overran     \* history: stop once gave up waiting for a thread

monitor == <<known, events, sequence, applied>>
service == <<stopped, thread, overran>>
polling == <<pc, at, seen, noted>>
world   == <<actual, age>>
vars    == <<world, monitor, service, polling>>

TypeOK ==
    /\ actual \in [Components -> States] /\ age \in [Components -> Nat]
    /\ known \in [Components -> States \cup {Absent}]
    /\ events \in Seq(Events) /\ Len(events) <= Capacity
    /\ sequence \in Nat
    /\ stopped \in BOOLEAN /\ overran \in BOOLEAN
    /\ thread \in Threads \cup {NoThread}
    /\ pc \in [Pollers -> {"off", "wait", "observe", "spawn", "join"}]
    /\ at \in [Pollers -> 1..N + 1]
    /\ seen \in [Pollers -> [Components -> States]]
    /\ noted \in [Pollers -> [Components -> Nat]]
    /\ applied \in [Components -> Nat]

Init ==
    /\ actual \in [Components -> Seen] /\ age = NoAge
    /\ known = [c \in Components |-> Absent]
    /\ events = <<>> /\ sequence = 0
    /\ stopped = FALSE /\ overran = FALSE /\ thread = NoThread
    /\ pc = [p \in Pollers |-> "off"] /\ at = [p \in Pollers |-> 1]
    /\ seen = [p \in Pollers |-> NothingSeen]
    /\ noted = [p \in Pollers |-> NoAge]
    /\ applied = [c \in Components |-> 0]

\* WatchdogService.running
Running == thread # NoThread /\ pc[thread] # "off"

\* A worker, the console session, the bridge or the host changes its state.
Change(c) ==
    /\ age[c] < MaxChanges
    /\ actual' \in {[actual EXCEPT ![c] = s] : s \in Seen \ {actual[c]}}
    /\ age' = [age EXCEPT ![c] = @ + 1]
    /\ UNCHANGED <<monitor, service, polling>>

-----------------------------------------------------------------------------
(* WatchdogMonitor.                                                         *)

\* _transition_event: an edge to a known state, unless it is healthy at first.
Reportable(was, s) ==
    /\ was # s /\ s # "UNKNOWN"
    /\ ~(was = Absent /\ s = "ONLINE")

\* Mutant: the newest event is dropped.
TrimNewest(q) == IF Len(q) > Capacity THEN SubSeq(q, 1, Capacity) ELSE q

\* deque(maxlen = event_capacity)
Trim(q) ==
    IF Len(q) > Capacity THEN SubSeq(q, Len(q) - Capacity + 1, Len(q)) ELSE q

\* The components whose observation is an event, and the i-th of them.
Changed(observed) == {n \in Components : Reportable(known[n], observed[n])}
Nth(S, i) == CHOOSE n \in S : Cardinality({m \in S : m <= n}) = i

\* Their events, in the order of the observation.
Report(observed) ==
    LET changed == Changed(observed) IN
    [i \in 1..Cardinality(changed) |->
       LET n == Nth(changed, i) IN
       [sequence |-> sequence + i, component |-> n, previous |-> known[n],
        current |-> observed[n]]]

\* observe, under the lock.
Observe(observed) ==
    /\ known' = observed
    /\ events' = Trim(events \o Report(observed))
    /\ sequence' = sequence + Len(Report(observed))

\* Mutant: trouble of any kind comes first.
OverallSoft ==
    IF \E c \in Components : known[c] \in {"DEGRADED", "OFFLINE"} THEN "DEGRADED"
    ELSE IF \E c \in Required : known[c] = "OFFLINE" THEN "OFFLINE"
    ELSE IF \E c \in Components : known[c] \in {"UNKNOWN", Absent} THEN "UNKNOWN"
    ELSE "ONLINE"

\* The state of the whole in a snapshot.
Overall ==
    IF \E c \in Required : known[c] = "OFFLINE" THEN "OFFLINE"
    ELSE IF \E c \in Components : known[c] \in {"DEGRADED", "OFFLINE"} THEN "DEGRADED"
    ELSE IF \E c \in Components : known[c] \in {"UNKNOWN", Absent} THEN "UNKNOWN"
    ELSE "ONLINE"

-----------------------------------------------------------------------------
(* WatchdogService.                                                         *)

\* The observation provider looks at the next component.
Look(p) ==
    LET c == at[p] IN
    /\ pc[p] = "observe" /\ c <= N
    /\ at' = [at EXCEPT ![p] = c + 1]
    /\ seen' = [seen EXCEPT ![p][c] = actual[c]]
    /\ noted' = [noted EXCEPT ![p][c] = age[c]]
    /\ UNCHANGED <<pc, world, monitor, service>>

\* The observation is applied; the host then spawns the thread.
Apply(p) ==
    /\ pc[p] = "observe" /\ at[p] = N + 1
    /\ Observe(seen[p])
    /\ applied' = noted[p]
    /\ pc' = [pc EXCEPT ![p] = IF p = Host THEN "spawn" ELSE "wait"]
    /\ at' = [at EXCEPT ![p] = 1]
    /\ seen' = [seen EXCEPT ![p] = NothingSeen]
    /\ noted' = [noted EXCEPT ![p] = NoAge]
    /\ UNCHANGED <<world, service>>

\* The provider raises: _run goes on, start does not.
Fault(p) ==
    /\ pc[p] = "observe"
    /\ pc' = [pc EXCEPT ![p] = IF p = Host THEN "off" ELSE "wait"]
    /\ at' = [at EXCEPT ![p] = 1]
    /\ seen' = [seen EXCEPT ![p] = NothingSeen]
    /\ noted' = [noted EXCEPT ![p] = NoAge]
    /\ UNCHANGED <<world, monitor, service>>

\* Mutant: start looks at the event instead of the thread.
StartAlways ==
    /\ pc[Host] = "off"
    /\ stopped' = FALSE
    /\ pc' = [pc EXCEPT ![Host] = "observe"]
    /\ UNCHANGED <<at, seen, noted, thread, overran, world, monitor>>

Start ==
    /\ pc[Host] = "off" /\ ~Running
    /\ stopped' = FALSE
    /\ pc' = [pc EXCEPT ![Host] = "observe"]
    /\ UNCHANGED <<at, seen, noted, thread, overran, world, monitor>>

Spawn(t) ==
    /\ pc[Host] = "spawn" /\ pc[t] = "off"
    /\ thread' = t
    /\ pc' = [pc EXCEPT ![Host] = "off", ![t] = "wait"]
    /\ UNCHANGED <<at, seen, noted, stopped, overran, world, monitor>>

\* The wait ends with the interval or with the event.
Round(t) ==
    /\ pc[t] = "wait" /\ ~stopped
    /\ pc' = [pc EXCEPT ![t] = "observe"]
    /\ UNCHANGED <<at, seen, noted, world, monitor, service>>

Leave(t) ==
    /\ pc[t] = "wait" /\ stopped
    /\ pc' = [pc EXCEPT ![t] = "off"]
    /\ UNCHANGED <<at, seen, noted, world, monitor, service>>

Stop ==
    /\ pc[Host] = "off" /\ thread # NoThread
    /\ stopped' = TRUE
    /\ pc' = [pc EXCEPT ![Host] = "join"]
    /\ UNCHANGED <<at, seen, noted, thread, overran, world, monitor>>

\* The join returns when the thread has ended, or gives up.
Joined ==
    /\ pc[Host] = "join"
    /\ overran' = (overran \/ Running)
    /\ thread' = NoThread
    /\ pc' = [pc EXCEPT ![Host] = "off"]
    /\ UNCHANGED <<at, seen, noted, stopped, world, monitor>>

Poll(p) == Look(p) \/ Apply(p) \/ Fault(p)

Serve(t) == Poll(t) \/ Round(t) \/ Leave(t)

Next ==
    \/ \E c \in Components : Change(c)
    \/ Poll(Host) \/ Start \/ Stop \/ Joined
    \/ \E t \in Threads : Spawn(t) \/ Serve(t)

Spec == Init /\ [][Next]_vars

\* A wait ends after interval_seconds, the provider returns or raises; it does
\* not raise for ever.
Fairness ==
    \A t \in Threads : WF_vars(Serve(t)) /\ SF_vars(Look(t)) /\ SF_vars(Apply(t))

FairSpec == Spec /\ Fairness

-----------------------------------------------------------------------------

\* There is no event of component c behind position i of the deque, before j.
Quiet(c, i, j) == \A k \in (i + 1)..(j - 1) : events[k].component # c

\* recent_events is a gapless piece of one history: every event starts where
\* the component's event before it ended, or at UNKNOWN, which is not reported;
\* also when two threads apply their observations (observe's lock).
EventsChained ==
    \A j \in 1..Len(events) :
        LET e == events[j] IN
        /\ e.sequence = sequence - Len(events) + j
        /\ e.previous # e.current
        /\ \A i \in 1..(j - 1) :
              events[i].component = e.component /\ Quiet(e.component, i, j)
                  => e.previous \in {events[i].current, "UNKNOWN"}

\* A snapshot does not contradict itself: a component is where its last event
\* left it or UNKNOWN, and one without any event was never seen in trouble.
SnapshotAgrees ==
    \A c \in Components :
        /\ \A i \in 1..Len(events) :
              events[i].component = c /\ Quiet(c, i, Len(events) + 1)
                  => known[c] \in {events[i].current, "UNKNOWN"}
        /\ sequence <= Capacity /\ Quiet(c, 0, Len(events) + 1)
              => known[c] \in {Absent, "ONLINE", "UNKNOWN"}

\* What is known of a component is never replaced by something older, as long
\* as no join has given up: there is one poller then.
NotBack == ~overran => \A c \in Components : applied'[c] >= applied[c]

NeverBackwards == [][NotBack]_vars

\* When a component is lost for good while the service runs, the watchdog
\* says so in the end and does not take it back: OFFLINE as a whole when it
\* is required, whatever a thread left behind had observed before.
Lost(c)  == Running /\ actual[c] = "OFFLINE"
Shown(c) == known[c] = "OFFLINE" /\ (c \in Required => Overall = "OFFLINE")

LossIsShown == \A c \in Components : <>[]Lost(c) => <>[]Shown(c)

=============================================================================
