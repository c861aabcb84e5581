--------------------------- MODULE WorkersProofs ---------------------------
(***************************************************************************)
(* The registry of workers has one writer and says what was heard, for any *)
(* number of workers, threads and kinds of answers.  Both hold only while  *)
(* no thread was given up, so every step that could break them is one of   *)
(* the only writer.                                                        *)
(***************************************************************************)
EXTENDS Workers, TLAPS

\* Where a thread of the service, and the host, can be.
Places ==
    /\ \A t \in Threads : pc[t] \in {"off", "wait"} \cup Probing
    /\ pc[Host] \in {"off", "spawn", "join"} \cup Probing

\* A thread that lives is the one stop would wait for, and the host is not
\* within start then.
Owned ==
    overran \/ \A t \in Threads :
                  Alive(t) => t = thread /\ pc[Host] \notin Probing \cup {"spawn"}

OInv == TypeOK /\ Places /\ Owned

\* What set_state has half written.
Halfway ==
    /\ \A p \in Pollers : pc[p] = "runtime" => found[p] \in {"idle", "ready"}
    /\ overran \/ \A p \in Pollers : pc[p] = "runtime" => state[at[p]] = "ONLINE"

\* The registry agrees with the last answer recorded for w.
Agrees(w) ==
    /\ state[w] = StateFor(heard[w])
    /\ heard[w] \in {"idle", "ready"} => runtime[w] = (heard[w] = "ready")

Told == overran \/ \A w \in Workers : (\A p \in Pollers : ~ Between(p, w)) => Agrees(w)

RInv == OInv /\ Halfway /\ Told

-----------------------------------------------------------------------------

\* The next worker of a round is a worker.
LEMMA NextAtType ==
    ASSUME TypeOK, NEW p \in Pollers
    PROVE  NextAt(p) \in Workers
<1>1. at[p] \in Workers
    BY DEF TypeOK
<1>2. CASE at[p] < N
    BY <1>1, <1>2, WorkersAssumption DEF NextAt, Workers, WorkersAssumption
<1>3. CASE ~ (at[p] < N)
    BY <1>1, <1>3, WorkersAssumption DEF NextAt, Workers, WorkersAssumption
<1> QED BY <1>2, <1>3

\* StateFor speaks of the states of a worker.
LEMMA StateForType ==
    \A answer \in Recorded \cup {"nothing"} : StateFor(answer) \in States
    BY DEF StateFor, Recorded, States

\* Threads, the host and no thread are told apart.
LEMMA Apart ==
    /\ Host \in Pollers /\ Threads \subseteq Pollers
    /\ Host \notin Threads /\ NoThread \notin Threads
    BY WorkersAssumption DEF Pollers, WorkersAssumption

-----------------------------------------------------------------------------
(* Types, places and owners.                                                *)

LEMMA InitO == Init => OInv
<1> SUFFICES ASSUME Init PROVE OInv
    OBVIOUS
<1>1. TypeOK
    <2>1. 1 \in Workers
        BY WorkersAssumption DEF Workers, WorkersAssumption
    <2>2. /\ serves \in [Workers -> Answers]
          /\ stopped \in BOOLEAN /\ overran \in BOOLEAN
          /\ thread \in Threads \cup {NoThread}
        BY DEF Init
    <2>3. state \in [Workers -> States] /\ runtime \in [Workers -> BOOLEAN]
        BY DEF Init, States
    <2>4. heard \in [Workers -> Recorded \cup {"nothing"}]
        BY DEF Init
    <2>5. pc \in [Pollers -> Points] /\ at \in [Pollers -> Workers]
        BY <2>1 DEF Init, Points
    <2>6. found \in [Pollers -> Recorded]
        BY DEF Init, Recorded
    <2> QED BY <2>2, <2>3, <2>4, <2>5, <2>6 DEF TypeOK
<1>2. Places /\ Owned
    BY Apart DEF Init, Places, Owned, Alive
<1> QED BY <1>1, <1>2 DEF OInv

\* A step of a poll changes the place of p only, and leaves the service alone.
LEMMA PollMoves ==
    ASSUME TypeOK, NEW p \in Pollers, Poll(p)
    PROVE  /\ pc[p] \in Probing
           /\ \E point \in Points :
                 /\ pc' = [pc EXCEPT ![p] = point]
                 /\ point \in Probing \cup {IF p = Host THEN "spawn" ELSE "wait"}
                              \cup (IF p = Host THEN {"off"} ELSE {})
           /\ UNCHANGED <<stopped, thread, overran>>
<1>1. CASE Health(p)
    BY <1>1 DEF Health, Probing, Points, service, history
<1>2. CASE Capabilities(p)
    BY <1>2 DEF Capabilities, Probing, Points, service, history
<1>3. CASE Fault(p)
    BY <1>3 DEF Fault, Probing, Points, service, history
<1>4. CASE SetState(p)
    BY <1>4 DEF SetState, Advance, NextPoint, Probing, Points, service
<1>5. CASE SetCapabilities(p)
    BY <1>5 DEF SetCapabilities, Advance, NextPoint, Probing, Points, service
<1> QED BY <1>1, <1>2, <1>3, <1>4, <1>5 DEF Poll

LEMMA PollTypes ==
    ASSUME TypeOK, NEW p \in Pollers, Poll(p)
    PROVE  TypeOK'
<1>1. CASE Health(p)
    BY <1>1 DEF Health, TypeOK, Probing, Points, Recorded, registry, service, history
<1>2. CASE Capabilities(p)
    <2>1. serves[at[p]] \in Recorded
        BY <1>2, WorkersAssumption DEF Capabilities, TypeOK
    <2> QED
        BY <1>2, <2>1
        DEF Capabilities, TypeOK, Probing, Points, Recorded, registry, service, history
<1>3. CASE Fault(p)
    BY <1>3, WorkersAssumption
    DEF Fault, TypeOK, Points, Workers, registry, service, history
<1>4. CASE SetState(p)
    BY <1>4, NextAtType, StateForType
    DEF SetState, Advance, NextPoint, TypeOK, Probing, Points, Recorded, service
<1>5. CASE SetCapabilities(p)
    BY <1>5, NextAtType
    DEF SetCapabilities, Advance, NextPoint, TypeOK, Probing, Points, Recorded, service
<1> QED BY <1>1, <1>2, <1>3, <1>4, <1>5 DEF Poll

LEMMA NextO == OInv /\ [Next]_vars => OInv'
<1> SUFFICES ASSUME OInv, [Next]_vars PROVE OInv'
    OBVIOUS
<1> USE DEF OInv
<1>1. CASE UNCHANGED vars
    BY <1>1
    DEF vars, registry, service, polling, history, TypeOK, Places, Owned, Alive
<1>2. ASSUME NEW w \in Workers, Change(w) PROVE OInv'
    BY <1>2
    DEF Change, registry, service, polling, history, TypeOK, Places, Owned, Alive
<1>3. ASSUME NEW p \in Pollers, Poll(p) PROVE OInv'
    <2>1. TypeOK'
        BY <1>3, PollTypes
    <2>2. PICK point \in Points :
              /\ pc' = [pc EXCEPT ![p] = point]
              /\ point \in Probing \cup {IF p = Host THEN "spawn" ELSE "wait"}
                           \cup (IF p = Host THEN {"off"} ELSE {})
        BY <1>3, PollMoves
    <2>3. pc[p] \in Probing /\ UNCHANGED <<stopped, thread, overran>>
        BY <1>3, PollMoves
    <2>4. Places'
        BY <2>2, Apart DEF Places, TypeOK
    <2>5. Owned'
        BY <2>2, <2>3, Apart DEF Owned, Alive, TypeOK, Probing
    <2> QED BY <2>1, <2>4, <2>5
<1>4. CASE Start
    <2>1. TypeOK' /\ Places'
        BY <1>4, Apart
        DEF Start, TypeOK, Places, Points, Probing, registry, history
    <2>2. Owned'
        BY <1>4, Apart
        DEF Start, Owned, Alive, Running, TypeOK, registry, history
    <2> QED BY <2>1, <2>2
<1>5. CASE Stop
    BY <1>5, Apart
    DEF Stop, TypeOK, Places, Owned, Alive, Points, Probing, registry, history
<1>6. CASE Joined
    <2>1. TypeOK' /\ Places'
        BY <1>6, Apart
        DEF Joined, TypeOK, Places, Points, Running, Alive, registry
    <2>2. Owned'
        BY <1>6, Apart DEF Joined, Owned, Alive, Running, TypeOK, Probing
    <2> QED BY <2>1, <2>2
<1>7. ASSUME NEW t \in Threads, Spawn(t) PROVE OInv'
    <2>1. TypeOK' /\ Places'
        BY <1>7, Apart DEF Spawn, TypeOK, Places, Points, registry, history
    <2>2. Owned'
        BY <1>7, Apart
        DEF Spawn, Owned, Alive, TypeOK, Probing, registry, history
    <2> QED BY <2>1, <2>2
<1>8. ASSUME NEW t \in Threads, Round(t) \/ Leave(t) PROVE OInv'
    BY <1>8, Apart
    DEF Round, Leave, TypeOK, Places, Owned, Alive, Points, Probing,
        registry, service, history
<1> QED BY <1>1, <1>2, <1>3, <1>4, <1>5, <1>6, <1>7, <1>8 DEF Next

\* Type correctness of the registry and its service (remote_workers.py,
\* worker_health.py).
THEOREM TypeCorrect == Spec => []TypeOK
<1>1. Spec => []OInv
    BY InitO, NextO, PTL DEF Spec
<1> QED BY <1>1, PTL DEF OInv

LEMMA OInvOneWriter == OInv => OneWriter
<1> SUFFICES ASSUME OInv, ~ overran,
                    NEW p \in Pollers, NEW q \in Pollers,
                    pc[p] \in Probing, pc[q] \in Probing
             PROVE  p = q
    BY DEF OneWriter
<1>1. \A t \in Threads : pc[t] \in Probing => t = thread /\ pc[Host] \notin Probing
    BY DEF OInv, Owned, Alive, Probing
<1> QED BY <1>1 DEF Pollers

\* Unless stop once gave up a thread, at most one thread polls, so that the
\* registry, which has no lock, has one writer.
THEOREM OnlyWriter == Spec => []OneWriter
<1>1. Spec => []OInv
    BY InitO, NextO, PTL DEF Spec
<1> QED BY <1>1, OInvOneWriter, PTL

-----------------------------------------------------------------------------
(* The registry says what was heard.                                        *)

LEMMA InitR == Init => RInv
<1> SUFFICES ASSUME Init PROVE RInv
    OBVIOUS
<1>1. Halfway
    BY DEF Init, Halfway
<1>2. Told
    BY DEF Init, Told, Agrees, StateFor
<1> QED BY <1>1, <1>2, InitO DEF RInv

\* Steps that neither write the registry nor touch who is halfway through.
LEMMA Untouched ==
    ASSUME RInv, OInv', UNCHANGED <<state, runtime, heard>>,
           overran => overran',
           \A p \in Pollers :
              (pc[p] = "runtime" <=> pc'[p] = "runtime")
              /\ (pc[p] = "runtime" => at'[p] = at[p] /\ found'[p] = found[p])
    PROVE  RInv'
<1>1. Halfway'
    BY DEF RInv, Halfway
<1>2. Told'
    BY DEF RInv, Told, Agrees, Between
<1> QED BY <1>1, <1>2 DEF RInv

\* What set_state writes besides the registry.
LEMMA SetStateKeeps ==
    ASSUME RInv, OInv', NEW p \in Pollers, SetState(p)
    PROVE  RInv'
<1> DEFINE w == at[p]
           new == StateFor(found[p])
<1>1. /\ pc[p] = "state" /\ w \in Workers /\ found[p] \in Recorded
      /\ TypeOK /\ OneWriter
      /\ state' = [state EXCEPT ![w] = new]
      /\ UNCHANGED <<runtime, overran>>
    BY OInvOneWriter DEF RInv, OInv, TypeOK, SetState, service, Probing
<1>2. CASE new = "ONLINE"
    <2>1. /\ pc' = [pc EXCEPT ![p] = "runtime"]
          /\ UNCHANGED <<at, found, heard>>
        BY <1>2 DEF SetState
    <2>2. found[p] \in {"idle", "ready"}
        BY <1>1, <1>2 DEF StateFor, Recorded
    <2>3. Halfway'
        <3>1. \A q \in Pollers : pc'[q] = "runtime" => found'[q] \in {"idle", "ready"}
            BY <1>1, <2>1, <2>2 DEF RInv, Halfway, TypeOK
        <3>2. overran' \/ \A q \in Pollers : pc'[q] = "runtime" => state'[at'[q]] = "ONLINE"
            BY <1>1, <1>2, <2>1 DEF RInv, Halfway, TypeOK
        <3> QED BY <3>1, <3>2 DEF Halfway
    <2>4. Told'
        <3> SUFFICES ASSUME ~ overran', NEW v \in Workers,
                            \A q \in Pollers : ~ Between(q, v)'
                     PROVE  Agrees(v)'
            BY DEF Told
        <3>1. v # w
            BY <1>1, <2>1 DEF Between, TypeOK
        <3>2. \A q \in Pollers : ~ Between(q, v)
            BY <1>1, <2>1 DEF Between, TypeOK
        <3>3. Agrees(v)
            BY <1>1, <3>2 DEF RInv, Told
        <3> QED BY <1>1, <2>1, <3>1, <3>3 DEF Agrees, TypeOK
    <2> QED BY <2>3, <2>4 DEF RInv
<1>3. CASE new # "ONLINE"
    <2>1. /\ pc' = [pc EXCEPT ![p] = NextPoint(p)]
          /\ at' = [at EXCEPT ![p] = NextAt(p)]
          /\ found' = [found EXCEPT ![p] = "down"]
          /\ heard' = [heard EXCEPT ![w] = found[p]]
        BY <1>3 DEF SetState, Advance
    <2>2. NextPoint(p) # "runtime"
        BY DEF NextPoint
    <2>3. found[p] \notin {"idle", "ready"}
        BY <1>3 DEF StateFor
    <2>4. \A q \in Pollers : pc'[q] = "runtime" =>
             q # p /\ pc[q] = "runtime" /\ at'[q] = at[q] /\ found'[q] = found[q]
        BY <1>1, <2>1, <2>2 DEF TypeOK
    <2>5. ~ overran => \A q \in Pollers : pc'[q] # "runtime"
        BY <1>1, <2>4 DEF OneWriter, Probing
    <2>6. Halfway'
        BY <1>1, <2>4, <2>5 DEF RInv, Halfway
    <2>7. Told'
        <3> SUFFICES ASSUME ~ overran', NEW v \in Workers
                     PROVE  Agrees(v)'
            BY DEF Told
        <3>1. CASE v = w
            <4>1. state'[v] = new /\ heard'[v] = found[p]
                BY <1>1, <2>1, <3>1 DEF TypeOK
            <4> QED BY <4>1, <2>3 DEF Agrees
        <3>2. CASE v # w
            <4>1. \A q \in Pollers : ~ Between(q, v)
                BY <1>1, <3>2 DEF OneWriter, Between, Probing
            <4>2. Agrees(v)
                BY <1>1, <4>1 DEF RInv, Told
            <4> QED BY <1>1, <2>1, <3>2, <4>2 DEF Agrees, TypeOK
        <3> QED BY <3>1, <3>2
    <2> QED BY <2>6, <2>7 DEF RInv
<1> QED BY <1>2, <1>3

LEMMA SetCapabilitiesKeeps ==
    ASSUME RInv, OInv', NEW p \in Pollers, SetCapabilities(p)
    PROVE  RInv'
<1> DEFINE w == at[p]
<1>1. /\ pc[p] = "runtime" /\ w \in Workers /\ found[p] \in {"idle", "ready"}
      /\ TypeOK /\ OneWriter
      /\ runtime' = [runtime EXCEPT ![w] = (found[p] = "ready")]
      /\ pc' = [pc EXCEPT ![p] = NextPoint(p)]
      /\ at' = [at EXCEPT ![p] = NextAt(p)]
      /\ found' = [found EXCEPT ![p] = "down"]
      /\ heard' = [heard EXCEPT ![w] = found[p]]
      /\ UNCHANGED <<state, overran>>
    BY OInvOneWriter
    DEF RInv, OInv, TypeOK, Halfway, SetCapabilities, Advance, service
<1>2. NextPoint(p) # "runtime"
    BY DEF NextPoint
<1>3. \A q \in Pollers : pc'[q] = "runtime" =>
         q # p /\ pc[q] = "runtime" /\ at'[q] = at[q] /\ found'[q] = found[q]
    BY <1>1, <1>2 DEF TypeOK
<1>4. ~ overran => \A q \in Pollers : pc'[q] # "runtime"
    BY <1>1, <1>3 DEF OneWriter, Probing
<1>5. Halfway'
    BY <1>1, <1>3, <1>4 DEF RInv, Halfway
<1>6. Told'
    <2> SUFFICES ASSUME ~ overran', NEW v \in Workers
                 PROVE  Agrees(v)'
        BY DEF Told
    <2>1. CASE v = w
        <3>1. state[w] = "ONLINE"
            BY <1>1 DEF RInv, Halfway
        <3>2. StateFor(found[p]) = "ONLINE"
            BY <1>1 DEF StateFor
        <3>3. runtime'[v] = (found[p] = "ready") /\ heard'[v] = found[p]
            BY <1>1, <2>1 DEF TypeOK
        <3> QED BY <1>1, <2>1, <3>1, <3>2, <3>3 DEF Agrees
    <2>2. CASE v # w
        <3>1. \A q \in Pollers : ~ Between(q, v)
            BY <1>1, <2>2 DEF OneWriter, Between, Probing
        <3>2. Agrees(v)
            BY <1>1, <3>1 DEF RInv, Told
        <3> QED BY <1>1, <2>2, <3>2 DEF Agrees, TypeOK
    <2> QED BY <2>1, <2>2
<1> QED BY <1>5, <1>6 DEF RInv

LEMMA NextR == RInv /\ [Next]_vars => RInv'
<1> SUFFICES ASSUME RInv, [Next]_vars PROVE RInv'
    OBVIOUS
<1>1. OInv' /\ TypeOK
    BY NextO DEF RInv, OInv
<1>2. CASE UNCHANGED vars
    BY <1>1, <1>2, Untouched DEF vars, registry, polling, history
<1>3. ASSUME NEW w \in Workers, Change(w) PROVE RInv'
    BY <1>1, <1>3, Untouched DEF Change, registry, polling, history
<1>4. ASSUME NEW p \in Pollers, Poll(p) PROVE RInv'
    <2>1. CASE Health(p)
        BY <1>1, <2>1, Untouched DEF Health, TypeOK, registry, history
    <2>2. CASE Capabilities(p)
        BY <1>1, <2>2, Untouched DEF Capabilities, TypeOK, registry, history
    <2>3. CASE Fault(p)
        BY <1>1, <2>3, Untouched DEF Fault, TypeOK, registry, history
    <2>4. CASE SetState(p)
        BY <1>1, <2>4, SetStateKeeps
    <2>5. CASE SetCapabilities(p)
        BY <1>1, <2>5, SetCapabilitiesKeeps
    <2> QED BY <1>4, <2>1, <2>2, <2>3, <2>4, <2>5 DEF Poll
<1>5. CASE Start
    BY <1>1, <1>5, Untouched DEF Start, TypeOK, registry, history
<1>6. CASE Stop
    BY <1>1, <1>6, Untouched DEF Stop, TypeOK, registry, history
<1>7. CASE Joined
    BY <1>1, <1>7, Untouched DEF Joined, TypeOK, registry
<1>8. ASSUME NEW t \in Threads, Spawn(t) PROVE RInv'
    BY <1>1, <1>8, Apart, Untouched DEF Spawn, Alive, TypeOK, registry, history
<1>9. ASSUME NEW t \in Threads, Round(t) \/ Leave(t) PROVE RInv'
    BY <1>1, <1>9, Apart, Untouched
    DEF Round, Leave, TypeOK, registry, service, history
<1> QED BY <1>2, <1>3, <1>4, <1>5, <1>6, <1>7, <1>8, <1>9 DEF Next

LEMMA RInvRegistryAsHeard == RInv => RegistryAsHeard
<1> SUFFICES ASSUME RInv, ~ overran, NEW w \in Workers,
                    \A p \in Pollers : ~ Between(p, w)
             PROVE  state[w] = StateFor(heard[w]) /\ (Counts(w) <=> heard[w] = "ready")
    BY DEF RegistryAsHeard
<1>1. Agrees(w)
    BY DEF RInv, Told
<1>2. StateFor(heard[w]) = "ONLINE" <=> heard[w] \in {"idle", "ready"}
    BY DEF StateFor
<1> QED BY <1>1, <1>2 DEF Agrees, Counts

\* While no thread was given up, the registry says of every worker what the
\* last poll heard of it, but between two assignments of set_state.
THEOREM SaysWhatWasHeard == Spec => []RegistryAsHeard
<1>1. Spec => []RInv
    BY InitR, NextR, PTL DEF Spec
<1> QED BY <1>1, RInvRegistryAsHeard, PTL

=============================================================================
