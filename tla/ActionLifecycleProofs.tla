----------------------- MODULE ActionLifecycleProofs -----------------------
(***************************************************************************)
(* What AgentCore's approval registry guarantees for every number of       *)
(* actions, threads and rounds.  The first part holds however many threads *)
(* call AgentCore; the second assumes one call at a time.                  *)
(***************************************************************************)
EXTENDS ActionContract, TLAPS

-----------------------------------------------------------------------------
(* Type correctness.                                                        *)

\* The round counter never leaves 1..Phases.
LEMMA NextRoundInRange == \A p \in 1..Phases : NextRound(p) \in 1..Phases
  BY ConstantsAssumption DEF NextRound

\* Whatever follows a store is a point of approve_action.
LEMMA AfterStorePoint ==
    ASSUME TypeOK, NEW t \in Threads
    PROVE  AfterStore(t) \in {"store", "lead", "readback", "trail"}
  <1>1. phase[t] \in 1..Phases
    BY DEF TypeOK
  <1>2. phase[t] < Phases \/ phase[t] = Phases
    BY <1>1, ConstantsAssumption
  <1>. QED
    BY <1>2 DEF AfterStore

\* A new record changes the registry only, to well-typed values.
LEMMA RegisterTyped ==
    ASSUME TypeOK, NEW i \in Ids, NEW displaced, Register(i, displaced)
    PROVE  /\ status' \in [Ids -> Statuses]
           /\ active' \in Ids \cup {NoId}
           /\ fresh' \in SUBSET Ids
  BY DEF TypeOK, Register, Statuses

\* A thread inside approve_action has an action.  TypeOK alone is not
\* inductive: the values a thread sets are values of its action.
HasAction == \A t \in Threads : pc[t] \notin {"idle", "queue"} => cur[t] \in Ids

LEMMA HasActionStep ==
    ASSUME TypeOK, HasAction, [Next]_vars
    PROVE  HasAction'
  <1>. USE DEF TypeOK, HasAction
  <1>1. CASE UNCHANGED <<pc, cur>>
    BY <1>1
  <1>2. ASSUME NEW t \in Threads, NEW i \in Ids, ApproveAction(t, i)
        PROVE  HasAction'
    BY <1>2 DEF ApproveAction
  <1>3. ASSUME NEW t \in Threads, pc[t] \notin {"idle", "queue"},
               pc' = [pc EXCEPT ![t] = pc'[t]], UNCHANGED cur
        PROVE  HasAction'
    BY <1>3
  <1>4. ASSUME NEW t \in Threads, NEW point \in {"idle", "queue"}, NEW i,
               pc' = [pc EXCEPT ![t] = point], cur' = [cur EXCEPT ![t] = i]
        PROVE  HasAction'
    BY <1>4
  <1>5. ASSUME NEW t \in Threads, Step(t)
        PROVE  HasAction'
    <2>1. CASE RejectStale(t) \/ Finish(t)
      BY <2>1, <1>4 DEF RejectStale, Finish
    <2>2. CASE Revalidate(t) \/ MarkApproved(t) \/ Readback(t)
      BY <2>2, <1>3 DEF Revalidate, MarkApproved, Readback
    <2>3. CASE LeadClear(t) \/ SetValues(t) \/ Store(t) \/ TrailClear(t)
      BY <2>3, <1>3 DEF LeadClear, SetValues, Store, TrailClear, Advance, Refused
    <2>. QED
      BY <1>5, <2>1, <2>2, <2>3 DEF Step
  <1>6. ASSUME NEW t \in Threads, Call(t)
        PROVE  HasAction'
    <2>1. CASE \E i \in Ids : ApproveAction(t, i)
      BY <2>1, <1>2
    <2>2. CASE QueueWorkflow(t) \/ \E i \in Ids : Queued(t, i)
      BY <2>2, <1>4 DEF QueueWorkflow, Queued
    <2>3. CASE \/ ProgramShowBlocked(t)
               \/ \E i \in Ids : ProgramShowRequest(t, i) \/ CancelAction(t, i)
      BY <2>3, <1>1 DEF ProgramShowRequest, ProgramShowBlocked, CancelAction, thread
    <2>. QED
      BY <1>6, <2>1, <2>2, <2>3 DEF Call
  <1>7. CASE Connect \/ Disconnect \/ Drift
    BY <1>7, <1>1 DEF Connect, Disconnect, Drift, thread
  <1>8. CASE UNCHANGED vars
    BY <1>8, <1>1 DEF vars, thread
  <1>. QED
    BY <1>5, <1>6, <1>7, <1>8 DEF Next

LEMMA TypeStep ==
    ASSUME TypeOK, HasAction, [Next]_vars
    PROVE  TypeOK'
  <1>. USE DEF TypeOK, HasAction
  <1>0. ASSUME NEW t \in Threads, QueueWorkflow(t)
        PROVE  TypeOK'
    BY <1>0 DEF QueueWorkflow, registry, console, Points
  <1>1. ASSUME NEW t \in Threads, NEW i \in Ids, Queued(t, i)
        PROVE  TypeOK'
    <2>1. \E displaced : Register(i, displaced)
      BY <1>1 DEF Queued
    <2>. QED
      BY <1>1, <2>1, RegisterTyped DEF Queued, Points, RootStates
  <1>2. ASSUME NEW t \in Threads, NEW i \in Ids, ProgramShowRequest(t, i)
        PROVE  TypeOK'
    <2>1. \E displaced : Register(i, displaced)
      BY <1>2 DEF ProgramShowRequest
    <2>. QED
      BY <1>2, <2>1, RegisterTyped DEF ProgramShowRequest, thread, RootStates
  <1>3. ASSUME NEW t \in Threads, ProgramShowBlocked(t)
        PROVE  TypeOK'
    BY <1>3 DEF ProgramShowBlocked, console, thread, RootStates
  <1>4. ASSUME NEW t \in Threads, NEW i \in Ids, CancelAction(t, i)
        PROVE  TypeOK'
    BY <1>4 DEF CancelAction, console, thread, Statuses, RootStates
  <1>5. ASSUME NEW t \in Threads, NEW i \in Ids, ApproveAction(t, i)
        PROVE  TypeOK'
    BY <1>5 DEF ApproveAction, registry, console, Points
  <1>6. ASSUME NEW t \in Threads, Revalidate(t)
        PROVE  TypeOK'
    BY <1>6 DEF Revalidate, registry, console, Points
  <1>7. ASSUME NEW t \in Threads, RejectStale(t)
        PROVE  TypeOK'
    BY <1>7 DEF RejectStale, registry, console, Points
  <1>8. ASSUME NEW t \in Threads, MarkApproved(t)
        PROVE  TypeOK'
    BY <1>8 DEF MarkApproved, console, Points, Statuses
  <1>9. ASSUME NEW t \in Threads, LeadClear(t)
        PROVE  TypeOK'
    BY <1>9 DEF LeadClear, Advance, Refused, registry, Points
  <1>10. ASSUME NEW t \in Threads, SetValues(t)
         PROVE  TypeOK'
    <2>1. prog' \in SUBSET Ids
      <3>1. cur[t] \in Ids
        BY <1>10 DEF SetValues
      <3>2. prog' = prog \/ prog' = prog \cup {cur[t]}
        BY <1>10 DEF SetValues
      <3>. QED
        BY <3>1, <3>2
    <2>2. pc' \in [Threads -> Points] /\ ready' \in BOOLEAN /\ failed' \in [Threads -> BOOLEAN]
      BY <1>10 DEF SetValues, Advance, Refused, Points
    <2>. QED
      BY <1>10, <2>1, <2>2 DEF SetValues, registry
  <1>11. ASSUME NEW t \in Threads, Store(t)
         PROVE  TypeOK'
    <2>1. content' \in [Ids -> [1..Phases -> SUBSET Ids]] /\ fresh' \in SUBSET Ids
      <3>1. cur[t] \in Ids
        BY <1>11 DEF Store
      <3>2. Stored(cur[t]) \subseteq Ids
        BY <3>1 DEF Stored
      <3>3. phase[t] \in 1..Phases /\ content[cur[t]] \in [1..Phases -> SUBSET Ids]
        BY <3>1
      <3>4. content[cur[t]][phase[t]] \cup Stored(cur[t]) \in SUBSET Ids
        BY <3>2, <3>3
      <3>5. [content[cur[t]] EXCEPT ![phase[t]] = content[cur[t]][phase[t]] \cup Stored(cur[t])]
              \in [1..Phases -> SUBSET Ids]
        BY <3>3, <3>4
      <3>6. [content EXCEPT ![cur[t]] =
               [content[cur[t]] EXCEPT ![phase[t]] = content[cur[t]][phase[t]] \cup Stored(cur[t])]]
              \in [Ids -> [1..Phases -> SUBSET Ids]]
        BY <3>1, <3>5
      <3>7. \/ content' = [content EXCEPT ![cur[t]][phase[t]] =
                             content[cur[t]][phase[t]] \cup Stored(cur[t])]
            \/ content' = content
        BY <1>11 DEF Store
      <3>8. fresh' \in SUBSET fresh \/ fresh' = fresh
        BY <1>11 DEF Store
      <3>. QED
        BY <3>6, <3>7, <3>8
    <2>2. pc' \in [Threads -> Points]
      BY <1>11, AfterStorePoint DEF Store, Advance, Refused, Points
    <2>3. phase' \in [Threads -> 1..Phases]
      <3>1. NextRound(phase[t]) \in 1..Phases
        BY NextRoundInRange
      <3>2. phase' = [phase EXCEPT ![t] = NextRound(phase[t])] \/ phase' = phase
        BY <1>11 DEF Store
      <3>. QED
        BY <3>1, <3>2
    <2>4. ready' \in BOOLEAN /\ failed' \in [Threads -> BOOLEAN]
      BY <1>11 DEF Store, Advance, Refused
    <2>. QED
      BY <1>11, <2>1, <2>2, <2>3, <2>4 DEF Store, registry
  <1>12. ASSUME NEW t \in Threads, Readback(t)
         PROVE  TypeOK'
    BY <1>12 DEF Readback, registry, console, Points
  <1>13. ASSUME NEW t \in Threads, TrailClear(t)
         PROVE  TypeOK'
    BY <1>13 DEF TrailClear, registry, Points
  <1>14. ASSUME NEW t \in Threads, Finish(t)
         PROVE  TypeOK'
    BY <1>14, ConstantsAssumption
    DEF Finish, Conclude, console, Points, Statuses, RootStates
  <1>15. CASE Connect \/ Disconnect \/ Drift
    BY <1>15 DEF Connect, Disconnect, Drift, registry, thread
  <1>16. CASE UNCHANGED vars
    BY <1>16 DEF vars, registry, console, thread
  <1>. QED
    BY <1>0, <1>1, <1>2, <1>3, <1>4, <1>5, <1>6, <1>7, <1>8, <1>9, <1>10, <1>11,
       <1>12, <1>13, <1>14, <1>15, <1>16 DEF Next, Step, Call

LEMMA TypeInit ==
    ASSUME Init
    PROVE  TypeOK /\ HasAction
  <1>. USE DEF Init
  <1>1. 1 \in 1..Phases
    BY ConstantsAssumption
  <1>2. kind \in [Ids -> AllKinds]
    BY ConstantsAssumption
  <1>3. content \in [Ids -> [1..Phases -> SUBSET Ids]]
    OBVIOUS
  <1>4. root \in [state : RootStates, id : Ids \cup {NoId}]
    BY DEF RootStates
  <1>5. status \in [Ids -> Statuses] /\ pc \in [Threads -> Points]
    BY DEF Statuses, Points
  <1>. QED
    BY <1>1, <1>2, <1>3, <1>4, <1>5 DEF TypeOK, HasAction

\* Every variable keeps its type in every behaviour.
THEOREM TypeCorrect == Spec => []TypeOK
  BY TypeInit, TypeStep, HasActionStep, PTL DEF Spec

-----------------------------------------------------------------------------
(* What one step may do, to a record, to the show and to a thread.  The     *)
(* invariants follow from these facts without another look at the actions.  *)

\* How the status of a record changes.
LEMMA StatusSteps ==
    ASSUME TypeOK, HasAction, [Next]_vars, NEW i \in Ids
    PROVE  \/ status'[i] = status[i]
           \/ status[i] = "NONE" /\ status'[i] = "PENDING_APPROVAL"
           \/ status'[i] = "CANCELLED"
           \/ \E t \in Threads : /\ pc[t] = "valid" /\ pc'[t] \in Executing
                                 /\ cur[t] = i /\ cur'[t] = i
                                 /\ status'[i] = "APPROVED"
           \/ \E t \in Threads : /\ pc[t] = "finish" /\ cur[t] = i
                                 /\ status'[i] = IF failed[t] THEN "FAILED" ELSE "EXECUTED"
  <1>. USE DEF TypeOK, HasAction
  <1>1. CASE UNCHANGED status
    BY <1>1
  <1>2. ASSUME NEW t \in Threads, NEW j \in Ids,
               Queued(t, j) \/ ProgramShowRequest(t, j)
        PROVE  \/ status'[i] = status[i]
               \/ status[i] = "NONE" /\ status'[i] = "PENDING_APPROVAL"
               \/ status'[i] = "CANCELLED"
    BY <1>2 DEF Queued, ProgramShowRequest, Register
  <1>3. ASSUME NEW t \in Threads, NEW j \in Ids, CancelAction(t, j)
        PROVE  status'[i] = status[i] \/ status'[i] = "CANCELLED"
    BY <1>3 DEF CancelAction
  <1>4. ASSUME NEW t \in Threads, MarkApproved(t)
        PROVE  \/ status'[i] = status[i]
               \/ /\ pc[t] = "valid" /\ pc'[t] \in Executing
                  /\ cur[t] = i /\ cur'[t] = i
                  /\ status'[i] = "APPROVED"
    BY <1>4 DEF MarkApproved, Executing
  <1>5. ASSUME NEW t \in Threads, Finish(t)
        PROVE  \/ status'[i] = status[i]
               \/ /\ pc[t] = "finish" /\ cur[t] = i
                  /\ status'[i] = IF failed[t] THEN "FAILED" ELSE "EXECUTED"
    BY <1>5 DEF Finish, Conclude
  <1>6. ASSUME NEW t \in Threads,
               Step(t) \/ Call(t),
               ~ MarkApproved(t), ~ Finish(t),
               \A j \in Ids : /\ ~ Queued(t, j)
                              /\ ~ ProgramShowRequest(t, j)
                              /\ ~ CancelAction(t, j)
        PROVE  UNCHANGED status
    BY <1>6 DEF Step, Call, QueueWorkflow, ProgramShowBlocked, ApproveAction, Revalidate,
                RejectStale, LeadClear, SetValues, Store, Readback, TrailClear, registry
  <1>7. CASE Connect \/ Disconnect \/ Drift \/ UNCHANGED vars
    BY <1>7, <1>1 DEF Connect, Disconnect, Drift, vars, registry
  <1>. QED
    BY <1>1, <1>2, <1>3, <1>4, <1>5, <1>6, <1>7 DEF Next

\* A plan's kind never changes.  What the show holds only grows, and only where
\* the plan that a thread is storing writes.
LEMMA ContentSteps ==
    ASSUME TypeOK, HasAction, [Next]_vars
    PROVE  /\ kind' = kind
           /\ \/ content' = content
              \/ \E t \in Threads :
                    /\ pc[t] = "store"
                    /\ \A i \in Ids : i # cur[t] => content'[i] = content[i]
                    /\ \A i \in Ids, p \in 1..Phases : content[i][p] \subseteq content'[i][p]
  <1>. USE DEF TypeOK, HasAction
  <1>1. ASSUME NEW t \in Threads, Store(t), content' # content
        PROVE  /\ pc[t] = "store"
               /\ \A i \in Ids : i # cur[t] => content'[i] = content[i]
               /\ \A i \in Ids, p \in 1..Phases : content[i][p] \subseteq content'[i][p]
    <2>1. pc[t] = "store" /\ cur[t] \in Ids /\ phase[t] \in 1..Phases
      BY <1>1 DEF Store
    <2>2. content' = [content EXCEPT ![cur[t]][phase[t]] =
                        content[cur[t]][phase[t]] \cup Stored(cur[t])]
      BY <1>1 DEF Store
    <2>3. \A i \in Ids : i # cur[t] => content'[i] = content[i]
      BY <2>1, <2>2
    <2>4. content'[cur[t]] = [content[cur[t]] EXCEPT ![phase[t]] =
                                content[cur[t]][phase[t]] \cup Stored(cur[t])]
      BY <2>1, <2>2
    <2>5. \A p \in 1..Phases : content[cur[t]][p] \subseteq content'[cur[t]][p]
      BY <2>1, <2>4
    <2>. QED
      BY <2>1, <2>3, <2>5
  <1>2. ASSUME NEW t \in Threads, Step(t), ~ Store(t)
        PROVE  content' = content
    BY <1>2 DEF Step, Revalidate, RejectStale, MarkApproved, LeadClear, SetValues,
                Readback, TrailClear, Finish, console
  <1>3. ASSUME NEW t \in Threads, Call(t)
        PROVE  content' = content
    BY <1>3 DEF Call, QueueWorkflow, Queued, ProgramShowRequest, ProgramShowBlocked,
                CancelAction, ApproveAction, console
  <1>4. CASE Connect \/ Disconnect \/ Drift \/ UNCHANGED vars
    BY <1>4 DEF Connect, Disconnect, Drift, vars, registry, console
  <1>5. ASSUME NEW t \in Threads, Step(t)
        PROVE  kind' = kind
    BY <1>5 DEF Step, Revalidate, RejectStale, MarkApproved, LeadClear, SetValues, Store,
                Readback, TrailClear, Finish, registry
  <1>6. ASSUME NEW t \in Threads, Call(t)
        PROVE  kind' = kind
    BY <1>6 DEF Call, QueueWorkflow, Queued, ProgramShowRequest, ProgramShowBlocked,
                CancelAction, ApproveAction, registry
  <1>. QED
    BY <1>1, <1>2, <1>3, <1>4, <1>5, <1>6 DEF Next

\* How a thread moves: it enters the execution only by marking its action
\* APPROVED and leaves it only by concluding it.
LEMMA ThreadSteps ==
    ASSUME TypeOK, HasAction, [Next]_vars, NEW t \in Threads
    PROVE  /\ pc'[t] \notin {"idle", "queue"} /\ pc[t] \notin {"idle", "queue"} => cur'[t] = cur[t]
           /\ pc'[t] \notin {"idle", "queue"} /\ pc[t] \in {"idle", "queue"} =>
                /\ pc'[t] = "checked"
                /\ status[cur'[t]] = "PENDING_APPROVAL" /\ UNCHANGED status
           /\ pc'[t] \in {"checked", "valid"} =>
                pc[t] \in {"idle", "checked", "valid"}
           /\ pc'[t] \in Executing /\ pc[t] \notin Executing =>
                pc[t] = "valid" /\ status'[cur[t]] = "APPROVED"
           /\ pc[t] \in Executing /\ pc'[t] \notin Executing =>
                pc[t] = "finish" /\ status'[cur[t]] \in {"EXECUTED", "FAILED"}
           /\ pc'[t] \in {"trail", "finish"} /\ ~failed'[t]
                /\ kind[cur[t]] \in NativeReadback =>
                \/ pc[t] \in {"trail", "finish"} /\ ~failed[t]
                \/ pc[t] = "readback" /\ ContentMatches(cur[t]) /\ content' = content
  <1>. USE DEF TypeOK, HasAction
  <1>. DEFINE Moves ==
           /\ pc'[t] \notin {"idle", "queue"} /\ pc[t] \notin {"idle", "queue"} => cur'[t] = cur[t]
           /\ pc'[t] \notin {"idle", "queue"} /\ pc[t] \in {"idle", "queue"} =>
                /\ pc'[t] = "checked"
                /\ status[cur'[t]] = "PENDING_APPROVAL" /\ UNCHANGED status
           /\ pc'[t] \in {"checked", "valid"} =>
                pc[t] \in {"idle", "checked", "valid"}
           /\ pc'[t] \in Executing /\ pc[t] \notin Executing =>
                pc[t] = "valid" /\ status'[cur[t]] = "APPROVED"
           /\ pc[t] \in Executing /\ pc'[t] \notin Executing =>
                pc[t] = "finish" /\ status'[cur[t]] \in {"EXECUTED", "FAILED"}
           /\ pc'[t] \in {"trail", "finish"} /\ ~failed'[t]
                /\ kind[cur[t]] \in NativeReadback =>
                \/ pc[t] \in {"trail", "finish"} /\ ~failed[t]
                \/ pc[t] = "readback" /\ ContentMatches(cur[t]) /\ content' = content
  <1>1. CASE pc'[t] = pc[t] /\ cur'[t] = cur[t] /\ failed'[t] = failed[t]
    BY <1>1
  <1>2. ASSUME NEW s \in Threads, s # t, Step(s) \/ Call(s)
        PROVE  pc'[t] = pc[t] /\ cur'[t] = cur[t] /\ failed'[t] = failed[t]
    <2>1. ASSUME Step(s)
          PROVE  pc'[t] = pc[t] /\ cur'[t] = cur[t] /\ failed'[t] = failed[t]
      BY <1>2, <2>1
      DEF Step, Revalidate, RejectStale, MarkApproved, LeadClear, SetValues, Store,
          Readback, TrailClear, Finish, Advance, Refused
    <2>2. ASSUME Call(s)
          PROVE  pc'[t] = pc[t] /\ cur'[t] = cur[t] /\ failed'[t] = failed[t]
      BY <1>2, <2>2
      DEF Call, QueueWorkflow, Queued, ProgramShowRequest, ProgramShowBlocked, CancelAction,
          ApproveAction, thread
    <2>. QED
      BY <1>2, <2>1, <2>2
  <1>3. CASE Call(t)
    <2>1. ASSUME NEW i \in Ids, ApproveAction(t, i)
          PROVE  Moves
      BY <2>1 DEF ApproveAction, registry, Executing
    <2>2. CASE QueueWorkflow(t) \/ \E i \in Ids : Queued(t, i)
      BY <2>2 DEF QueueWorkflow, Queued, Executing
    <2>3. CASE \/ ProgramShowBlocked(t)
               \/ \E i \in Ids : ProgramShowRequest(t, i) \/ CancelAction(t, i)
      BY <2>3, <1>1 DEF ProgramShowRequest, ProgramShowBlocked, CancelAction, thread
    <2>. QED
      BY <1>3, <2>1, <2>2, <2>3 DEF Call
  <1>4. CASE Revalidate(t) \/ RejectStale(t)
    BY <1>4 DEF Revalidate, RejectStale, Executing
  <1>5. CASE MarkApproved(t)
    BY <1>5 DEF MarkApproved, Executing
  <1>6. CASE LeadClear(t)
    BY <1>6 DEF LeadClear, Advance, Refused, Executing, NativeReadback
  <1>7. CASE SetValues(t)
    BY <1>7 DEF SetValues, Advance, Refused, Executing, NativeReadback
  <1>8. CASE Store(t)
    <2>1. pc[t] = "store" /\ cur'[t] = cur[t]
      BY <1>8 DEF Store
    <2>2. AfterStore(t) \in {"store", "lead", "readback", "trail"}
      BY AfterStorePoint
    <2>3. pc'[t] \in Executing \ {"idle", "checked", "valid"}
      BY <1>8, <2>2 DEF Store, Advance, Refused, Executing
    <2>4. ASSUME kind[cur[t]] \in NativeReadback
          PROVE  AfterStore(t) # "trail"
      BY <2>4, ConstantsAssumption DEF AfterStore, NativeReadback
    <2>5. ASSUME kind[cur[t]] \in NativeReadback, pc'[t] \in {"trail", "finish"}
          PROVE  failed'[t]
      BY <1>8, <2>2, <2>4, <2>5 DEF Store, Advance, Refused, NativeReadback
    <2>. QED
      BY <2>1, <2>3, <2>5 DEF Executing
  <1>9. CASE Readback(t)
    BY <1>9 DEF Readback, Executing, console
  <1>10. CASE TrailClear(t)
    BY <1>10 DEF TrailClear, Executing, NativeReadback
  <1>11. CASE Finish(t)
    BY <1>11 DEF Finish, Conclude, Executing
  <1>12. CASE Connect \/ Disconnect \/ Drift \/ UNCHANGED vars
    BY <1>12, <1>1 DEF Connect, Disconnect, Drift, vars, thread
  <1>. QED
    BY <1>1, <1>2, <1>3, <1>4, <1>5, <1>6, <1>7, <1>8, <1>9, <1>10, <1>11, <1>12
    DEF Next, Step

-----------------------------------------------------------------------------
(* Any number of threads.                                                   *)

\* A thread inside approve_action names a record that exists.
InCall ==
    \A t \in Threads : pc[t] \notin {"idle", "queue"} => cur[t] \in Ids /\ status[cur[t]] # "NONE"

\* The record a thread executes is no preview any more; it may have been
\* displaced or concluded by another thread.
ApprovedFirst ==
    \A t \in Threads : pc[t] \in Executing => status[cur[t]] # "PENDING_APPROVAL"

\* A thread past the readback that has not failed has seen the plan's values.
HasReadBack ==
    \A t \in Threads :
        pc[t] \in {"trail", "finish"} /\ ~failed[t] /\ kind[cur[t]] \in OwnReadback =>
            \A p \in 1..Phases : cur[t] \in content[cur[t]][p]

ConcurrentInv ==
    /\ TypeOK
    /\ InCall
    /\ ApprovedFirst
    /\ HasReadBack
    /\ NoWriteBeforeApproval
    /\ ExecutedIsOnTheShow
    /\ ApprovedHasExecutor

LEMMA ConcurrentInit ==
    ASSUME Init
    PROVE  ConcurrentInv
  <1>1. TypeOK
    BY TypeInit
  <1>2. \A i \in Ids : status[i] = "NONE" /\ \A p \in 1..Phases : content[i][p] = {}
    BY DEF Init
  <1>3. \A t \in Threads : pc[t] = "idle"
    BY DEF Init
  <1>. QED
    BY <1>1, <1>2, <1>3
    DEF ConcurrentInv, InCall, ApprovedFirst, HasReadBack, Executing,
        NoWriteBeforeApproval, ExecutedIsOnTheShow, ApprovedHasExecutor

LEMMA ConcurrentStep ==
    ASSUME ConcurrentInv, [Next]_vars
    PROVE  ConcurrentInv'
  <1>. USE DEF ConcurrentInv
  <1>0. HasAction /\ TypeOK
    BY DEF InCall, HasAction
  <1>1. TypeOK' /\ HasAction'
    BY <1>0, TypeStep, HasActionStep
  <1>2. /\ kind' = kind
        /\ \A i \in Ids, p \in 1..Phases : content[i][p] \subseteq content'[i][p]
    BY <1>0, ContentSteps
  <1>3. \A i \in Ids : status[i] # "NONE" => status'[i] # "NONE"
    BY <1>0, StatusSteps
  <1>4. InCall'
    <2>1. ASSUME NEW t \in Threads, pc'[t] \notin {"idle", "queue"}
          PROVE  status'[cur'[t]] # "NONE"
      <3>1. cur'[t] \in Ids
        BY <1>1, <2>1 DEF HasAction
      <3>2. CASE pc[t] \in {"idle", "queue"}
        BY <1>0, <2>1, <3>1, <3>2, ThreadSteps
      <3>3. CASE pc[t] \notin {"idle", "queue"}
        BY <1>0, <1>3, <2>1, <3>3, ThreadSteps DEF InCall
      <3>. QED
        BY <3>2, <3>3
    <2>. QED
      BY <1>1, <2>1 DEF InCall, HasAction
  <1>5. ApprovedFirst'
    <2>1. ASSUME NEW t \in Threads, pc'[t] \in Executing
          PROVE  status'[cur'[t]] # "PENDING_APPROVAL"
      <3>1. pc[t] \notin {"idle", "queue"} /\ cur'[t] = cur[t] /\ cur[t] \in Ids
        BY <1>0, <2>1, ThreadSteps DEF HasAction, Executing
      <3>2. CASE pc[t] \in Executing
        BY <1>0, <3>1, <3>2, StatusSteps DEF InCall, ApprovedFirst
      <3>3. CASE pc[t] \notin Executing
        BY <1>0, <2>1, <3>1, <3>3, ThreadSteps
      <3>. QED
        BY <3>2, <3>3
    <2>. QED
      BY <2>1 DEF ApprovedFirst
  <1>6. HasReadBack'
    <2>1. ASSUME NEW t \in Threads, NEW p \in 1..Phases, pc'[t] \in {"trail", "finish"},
                 ~ failed'[t], kind'[cur'[t]] \in OwnReadback
          PROVE  cur'[t] \in content'[cur'[t]][p]
      <3>1. pc[t] \notin {"idle", "queue"} /\ cur'[t] = cur[t] /\ cur[t] \in Ids
        BY <1>0, <2>1, ThreadSteps DEF HasAction
      <3>2. kind[cur[t]] \in OwnReadback /\ kind[cur[t]] \in NativeReadback
        BY <1>2, <2>1, <3>1 DEF OwnReadback
      <3>3. cur[t] \in content[cur[t]][p]
        <4>1. CASE pc[t] \in {"trail", "finish"} /\ ~failed[t]
          BY <3>2, <4>1 DEF HasReadBack
        <4>2. CASE ContentMatches(cur[t])
          BY <3>2, <4>2 DEF ContentMatches
        <4>. QED
          BY <1>0, <2>1, <3>2, <4>1, <4>2, ThreadSteps
      <3>. QED
        BY <1>2, <3>1, <3>3
    <2>. QED
      BY <2>1 DEF HasReadBack
  <1>7. NoWriteBeforeApproval'
    <2>1. ASSUME NEW i \in Ids, status'[i] \in {"NONE", "PENDING_APPROVAL"}
          PROVE  \A p \in 1..Phases : content'[i][p] = {}
      <3>1. status[i] \in {"NONE", "PENDING_APPROVAL"}
        BY <1>0, <2>1, StatusSteps
      <3>2. \A t \in Threads : pc[t] = "store" => cur[t] # i
        BY <3>1 DEF InCall, ApprovedFirst, Executing
      <3>3. content'[i] = content[i]
        BY <1>0, <3>2, ContentSteps
      <3>. QED
        BY <3>1, <3>3 DEF NoWriteBeforeApproval
    <2>. QED
      BY <2>1 DEF NoWriteBeforeApproval
  <1>8. ExecutedIsOnTheShow'
    <2>1. ASSUME NEW i \in Ids, NEW p \in 1..Phases,
                 status'[i] = "EXECUTED", kind'[i] \in OwnReadback
          PROVE  i \in content'[i][p]
      <3>1. CASE status[i] = "EXECUTED"
        BY <1>2, <2>1, <3>1 DEF ExecutedIsOnTheShow
      <3>2. CASE status[i] # "EXECUTED"
        <4>1. PICK t \in Threads : pc[t] = "finish" /\ cur[t] = i /\ ~failed[t]
          BY <1>0, <2>1, <3>2, StatusSteps
        <4>. QED
          BY <1>2, <2>1, <4>1 DEF HasReadBack
      <3>. QED
        BY <3>1, <3>2
    <2>. QED
      BY <2>1 DEF ExecutedIsOnTheShow
  <1>9. ApprovedHasExecutor'
    <2>1. ASSUME NEW i \in Ids, status'[i] = "APPROVED"
          PROVE  \E t \in Threads : cur'[t] = i /\ pc'[t] \in Executing
      <3>1. CASE status[i] = "APPROVED"
        <4>1. PICK t \in Threads : cur[t] = i /\ pc[t] \in Executing
          BY <3>1 DEF ApprovedHasExecutor
        <4>2. pc'[t] \in Executing
          BY <1>0, <2>1, <4>1, ThreadSteps
        <4>3. cur'[t] = i
          BY <1>0, <4>1, <4>2, ThreadSteps DEF Executing
        <4>. QED
          BY <4>2, <4>3
      <3>2. CASE status[i] # "APPROVED"
        BY <1>0, <2>1, <3>2, StatusSteps
      <3>. QED
        BY <3>1, <3>2
    <2>. QED
      BY <2>1 DEF ApprovedHasExecutor
  <1>. QED
    BY <1>1, <1>4, <1>5, <1>6, <1>7, <1>8, <1>9

LEMMA ConcurrentInvariant == Spec => []ConcurrentInv
  BY ConcurrentInit, ConcurrentStep, PTL DEF Spec

\* Whatever the interleaving of approvals, cancellations and new requests, an
\* absent or merely pending action has written nothing to the show.
THEOREM NothingUnapproved == Spec => []NoWriteBeforeApproval
  BY ConcurrentInvariant, PTL DEF ConcurrentInv

\* Whatever responses are lost or misread, an EXECUTED plan with a native
\* readback left its own values in every target.
THEOREM ExecutedVerified == Spec => []ExecutedIsOnTheShow
  BY ConcurrentInvariant, PTL DEF ConcurrentInv

\* An APPROVED record always has a thread that will conclude it.
THEOREM ApprovedIsServed == Spec => []ApprovedHasExecutor
  BY ConcurrentInvariant, PTL DEF ConcurrentInv

-----------------------------------------------------------------------------
(* One call at a time.                                                      *)

OneCaller == \A s, t \in Threads : s = t

\* What approve_action tested when it was entered still holds.
StillPending ==
    \A t \in Threads : pc[t] \in {"checked", "valid"} => status[cur[t]] = "PENDING_APPROVAL"

StillApproved ==
    \A t \in Threads : pc[t] \in Executing => status[cur[t]] = "APPROVED"

HasMatched ==
    \A t \in Threads, i \in Ids :
        /\ cur[t] = i /\ kind[i] \in NativeReadback
        /\ pc[t] \in {"trail", "finish"} /\ ~failed[t]
        => ContentMatches(i)

\* The predecessor a call of _queue_workflow is to cancel is still the pending one.
QueueKnows ==
    \A t \in Threads : pc[t] = "queue" =>
        cur[t] = IF active # NoId /\ status[active] = "PENDING_APPROVAL" THEN active ELSE NoId

SerialInv ==
    /\ ConcurrentInv
    /\ QueueKnows
    /\ StillPending
    /\ StillApproved
    /\ HasMatched
    /\ ActiveIsTheOpenAction
    /\ ExecutedExactly
    /\ RootOutcome

\* A caller outside approve_action finds no action in execution.
LEMMA IdleMeansNoneApproved ==
    ASSUME OneCaller, ApprovedHasExecutor, NEW t \in Threads, pc[t] \in {"idle", "queue"}
    PROVE  /\ \A s \in Threads : pc[s] \in {"idle", "queue"}
           /\ \A i \in Ids : status[i] # "APPROVED"
  BY DEF OneCaller, ApprovedHasExecutor, Executing

\* A new record displaces the one preview that is pending, if there is one.
LEMMA DisplacesThePending ==
    ASSUME OneCaller, SerialInv, NEW t \in Threads, NEW i \in Ids,
           Queued(t, i) \/ ProgramShowRequest(t, i)
    PROVE  /\ \A s \in Threads : pc[s] \in {"idle", "queue"}
           /\ \A j \in Ids : status[j] # "APPROVED"
           /\ \E displaced : /\ Register(i, displaced)
                             /\ \A j \in Ids : j \in displaced <=> status[j] = "PENDING_APPROVAL"
  <1>. USE DEF SerialInv, ConcurrentInv
  <1>1. /\ \A s \in Threads : pc[s] \in {"idle", "queue"}
        /\ \A j \in Ids : status[j] # "APPROVED"
    BY IdleMeansNoneApproved DEF Queued, ProgramShowRequest
  <1>2. \A j \in Ids : active = j <=> status[j] = "PENDING_APPROVAL"
    BY <1>1 DEF ActiveIsTheOpenAction
  <1>3. CASE Queued(t, i)
    <2>1. Register(i, {cur[t]}) /\ pc[t] = "queue"
      BY <1>3 DEF Queued
    <2>2. active \in Ids \cup {NoId}
      BY DEF TypeOK
    <2>3. \A j \in Ids : j \in {cur[t]} <=> status[j] = "PENDING_APPROVAL"
      BY <1>2, <2>1, <2>2, ConstantsAssumption DEF QueueKnows
    <2>. QED
      BY <1>1, <2>1, <2>3
  <1>4. CASE ProgramShowRequest(t, i)
    <2>1. Register(i, {active})
      BY <1>4 DEF ProgramShowRequest
    <2>2. \A j \in Ids : j \in {active} <=> status[j] = "PENDING_APPROVAL"
      BY <1>2
    <2>. QED
      BY <1>1, <2>1, <2>2
  <1>. QED
    BY <1>3, <1>4

\* What the registry of a new record means for the active action and the root
\* status: the previous preview is the one that is withdrawn.
LEMMA RegisterKeepsRegistry ==
    ASSUME SerialInv, NEW i \in Ids, NEW displaced, Register(i, displaced),
           \A j \in Ids : j \in displaced <=> status[j] = "PENDING_APPROVAL",
           \A j \in Ids : status[j] # "APPROVED",
           root' = root \/ root'.state \in {"READY", "PENDING_APPROVAL"}
    PROVE  /\ ActiveIsTheOpenAction'
           /\ RootOutcome'
           /\ \A j \in Ids : status'[j] = "EXECUTED" => status[j] = "EXECUTED"
  <1>. USE DEF SerialInv, ConcurrentInv
  <1>1. /\ status[i] = "NONE" /\ status'[i] = "PENDING_APPROVAL" /\ active' = i
        /\ \A j \in Ids : j # i /\ j \in displaced => status'[j] = "CANCELLED"
        /\ \A j \in Ids : j # i /\ j \notin displaced => status'[j] = status[j]
    BY DEF Register
  <1>2. ActiveIsTheOpenAction'
    BY <1>1 DEF ActiveIsTheOpenAction
  <1>3. ASSUME root' = root, root.state \in {"CANCELLED", "EXECUTED", "FAILED"}
        PROVE  root.id \in Ids /\ status'[root.id] = root.state
    <2>1. root.id \in Ids /\ status[root.id] = root.state
      BY <1>3 DEF RootOutcome
    <2>2. root.id # i /\ root.id \notin displaced
      BY <1>1, <1>3, <2>1
    <2>. QED
      BY <1>1, <2>1, <2>2
  <1>4. RootOutcome'
    BY <1>3 DEF RootOutcome
  <1>. QED
    BY <1>1, <1>2, <1>4

LEMMA SerialInit ==
    ASSUME Init
    PROVE  SerialInv
  <1>1. /\ \A i \in Ids : status[i] = "NONE"
        /\ active = NoId /\ root.state = "IDLE"
        /\ \A t \in Threads : pc[t] = "idle"
    BY DEF Init
  <1>. QED
    BY <1>1, ConcurrentInit, ConstantsAssumption
    DEF SerialInv, QueueKnows, StillPending, StillApproved, HasMatched, Executing,
        ActiveIsTheOpenAction, ExecutedExactly, RootOutcome

\* The part of SerialInv about threads survives every step that leaves alone
\* the records of the plans in execution.
LEMMA SerialThreads ==
    ASSUME OneCaller, SerialInv, [Next]_vars,
           \A t \in Threads : pc[t] \notin {"idle", "queue"} /\ pc'[t] \notin {"idle", "queue"} =>
               \/ status'[cur[t]] = status[cur[t]]
               \/ pc[t] = "valid" /\ pc'[t] \in Executing /\ status'[cur[t]] = "APPROVED"
    PROVE  StillPending' /\ StillApproved' /\ HasMatched'
  <1>. USE DEF SerialInv, ConcurrentInv
  <1>0. HasAction /\ TypeOK
    BY DEF InCall, HasAction
  <1>1. StillPending'
    <2>1. ASSUME NEW t \in Threads, pc'[t] \in {"checked", "valid"}
          PROVE  status'[cur'[t]] = "PENDING_APPROVAL"
      <3>1. CASE pc[t] \in {"idle", "queue"}
        BY <1>0, <2>1, <3>1, ThreadSteps
      <3>2. CASE pc[t] \notin {"idle", "queue"}
        <4>1. pc[t] \in {"checked", "valid"} /\ cur'[t] = cur[t]
          BY <1>0, <2>1, <3>2, ThreadSteps
        <4>2. status'[cur[t]] = status[cur[t]]
          BY <2>1, <4>1 DEF Executing
        <4>. QED
          BY <4>1, <4>2 DEF StillPending
      <3>. QED
        BY <3>1, <3>2
    <2>. QED
      BY <2>1 DEF StillPending
  <1>2. StillApproved'
    <2>1. ASSUME NEW t \in Threads, pc'[t] \in Executing
          PROVE  status'[cur'[t]] = "APPROVED"
      <3>1. pc[t] \notin {"idle", "queue"} /\ cur'[t] = cur[t]
        BY <1>0, <2>1, ThreadSteps DEF Executing
      <3>2. CASE pc[t] \in Executing
        BY <2>1, <3>1, <3>2 DEF StillApproved, Executing
      <3>3. CASE pc[t] \notin Executing
        BY <1>0, <2>1, <3>1, <3>3, ThreadSteps
      <3>. QED
        BY <3>2, <3>3
    <2>. QED
      BY <2>1 DEF StillApproved
  <1>3. HasMatched'
    <2>1. ASSUME NEW t \in Threads, NEW i \in Ids, cur'[t] = i, kind'[i] \in NativeReadback,
                 pc'[t] \in {"trail", "finish"}, ~ failed'[t]
          PROVE  ContentMatches(i)'
      <3>1. pc[t] \notin {"idle", "queue"} /\ cur[t] = i
        BY <1>0, <2>1, ThreadSteps DEF HasAction, Executing
      <3>2. kind' = kind
        BY <1>0, ContentSteps
      <3>3. \/ pc[t] \in {"trail", "finish"} /\ ~failed[t]
            \/ pc[t] = "readback" /\ ContentMatches(i)
        BY <1>0, <2>1, <3>1, <3>2, ThreadSteps
      <3>4. ContentMatches(i)
        BY <2>1, <3>1, <3>2, <3>3 DEF HasMatched
      <3>5. content' = content
        BY <1>0, <3>3, ContentSteps DEF OneCaller
      <3>. QED
        BY <3>2, <3>4, <3>5 DEF ContentMatches
    <2>. QED
      BY <2>1 DEF HasMatched
  <1>. QED
    BY <1>1, <1>2, <1>3

\* Nothing but the caller itself changes the registry between the two steps.
LEMMA QueueStep ==
    ASSUME OneCaller, TypeOK, HasAction, QueueKnows, [Next]_vars
    PROVE  QueueKnows'
  <1>. SUFFICES ASSUME NEW t \in Threads, pc'[t] = "queue"
                PROVE  cur'[t] = IF active' # NoId /\ status'[active'] = "PENDING_APPROVAL"
                                 THEN active' ELSE NoId
    BY DEF QueueKnows
  <1>1. CASE UNCHANGED <<status, active, pc, cur>>
    BY <1>1 DEF QueueKnows
  <1>2. CASE Connect \/ Disconnect \/ Drift \/ UNCHANGED vars
    BY <1>1, <1>2 DEF Connect, Disconnect, Drift, vars, registry, thread
  <1>3. CASE QueueWorkflow(t)
    BY <1>3 DEF QueueWorkflow, TypeOK, registry
  <1>4. CASE Step(t)
    <2>1. pc'[t] \in {"idle", "valid"} \cup Executing
      BY <1>4, AfterStorePoint
      DEF Step, Revalidate, RejectStale, MarkApproved, LeadClear, SetValues, Store, Readback,
          TrailClear, Finish, Advance, Refused, TypeOK, Executing
    <2>. QED
      BY <2>1 DEF Executing
  <1>5. CASE \/ ProgramShowBlocked(t)
             \/ \E i \in Ids : \/ Queued(t, i) \/ ProgramShowRequest(t, i)
                               \/ CancelAction(t, i) \/ ApproveAction(t, i)
    BY <1>5
    DEF ProgramShowBlocked, Queued, ProgramShowRequest, CancelAction, ApproveAction, TypeOK, thread
  <1>. QED
    BY <1>2, <1>3, <1>4, <1>5 DEF OneCaller, Next, Call

LEMMA SerialStep ==
    ASSUME OneCaller, SerialInv, [Next]_vars
    PROVE  SerialInv'
  <1>. USE DEF SerialInv
  <1>0. TypeOK /\ HasAction /\ ConcurrentInv'
    BY ConcurrentStep DEF ConcurrentInv, InCall, HasAction
  <1>. DEFINE Threadwise == StillPending' /\ StillApproved' /\ HasMatched'
             Registrywise == ActiveIsTheOpenAction' /\ ExecutedExactly' /\ RootOutcome'
  <1>1. ASSUME NEW t \in Threads, NEW i \in Ids,
               Queued(t, i) \/ ProgramShowRequest(t, i)
        PROVE  Threadwise /\ Registrywise
    <2>1. /\ \A s \in Threads : pc[s] \in {"idle", "queue"}
          /\ \A j \in Ids : status[j] # "APPROVED"
          /\ \E displaced : /\ Register(i, displaced)
                            /\ \A j \in Ids : j \in displaced <=> status[j] = "PENDING_APPROVAL"
      BY <1>1, DisplacesThePending
    <2>2. Threadwise
      BY <2>1, SerialThreads
    <2>3. root' = root \/ root'.state \in {"READY", "PENDING_APPROVAL"}
      BY <1>1 DEF Queued, ProgramShowRequest
    <2>4. /\ ActiveIsTheOpenAction' /\ RootOutcome'
          /\ \A j \in Ids : status'[j] = "EXECUTED" => status[j] = "EXECUTED"
      BY <2>1, <2>3, RegisterKeepsRegistry
    <2>5. kind' = kind /\ content' = content
      BY <1>1 DEF Queued, ProgramShowRequest
    <2>. QED
      BY <2>2, <2>4, <2>5 DEF ExecutedExactly
  <1>2. ASSUME NEW t \in Threads, NEW i \in Ids, CancelAction(t, i)
        PROVE  Threadwise /\ Registrywise
    <2>1. \A s \in Threads : pc[s] \in {"idle", "queue"}
      BY <1>2, IdleMeansNoneApproved DEF ConcurrentInv, CancelAction
    <2>2. Threadwise
      BY <2>1, SerialThreads
    <2>3. /\ status[i] = "PENDING_APPROVAL" /\ active = i /\ active' = NoId
          /\ status'[i] = "CANCELLED"
          /\ \A j \in Ids : j # i => status'[j] = status[j]
          /\ kind' = kind /\ content' = content
          /\ root' = root \/ (root'.state = "CANCELLED" /\ root'.id = i)
      BY <1>0, <1>2 DEF CancelAction, TypeOK, console, ActiveIsTheOpenAction
    <2>4. ActiveIsTheOpenAction'
      BY <2>3, ConstantsAssumption DEF ActiveIsTheOpenAction
    <2>5. ExecutedExactly'
      BY <2>3 DEF ExecutedExactly
    <2>6. RootOutcome'
      BY <2>3 DEF RootOutcome
    <2>. QED
      BY <2>2, <2>4, <2>5, <2>6
  <1>3. ASSUME NEW t \in Threads, MarkApproved(t)
        PROVE  Threadwise /\ Registrywise
    <2>1. /\ cur[t] \in Ids /\ status[cur[t]] = "PENDING_APPROVAL" /\ active = cur[t]
          /\ status'[cur[t]] = "APPROVED"
          /\ \A j \in Ids : j # cur[t] => status'[j] = status[j]
          /\ UNCHANGED <<kind, active, root, content>>
          /\ pc[t] = "valid" /\ pc'[t] \in Executing
      BY <1>0, <1>3
      DEF MarkApproved, TypeOK, HasAction, console, StillPending, ActiveIsTheOpenAction, Executing
    <2>2. Threadwise
      BY <2>1, SerialThreads DEF OneCaller
    <2>3. ActiveIsTheOpenAction'
      BY <2>1 DEF ActiveIsTheOpenAction
    <2>4. ExecutedExactly'
      BY <2>1 DEF ExecutedExactly
    <2>5. RootOutcome'
      BY <2>1 DEF RootOutcome
    <2>. QED
      BY <2>2, <2>3, <2>4, <2>5
  <1>4. ASSUME NEW t \in Threads, Finish(t)
        PROVE  Threadwise /\ Registrywise
    <2>. DEFINE outcome == IF failed[t] THEN "FAILED" ELSE "EXECUTED"
    <2>1. /\ pc[t] = "finish" /\ pc'[t] = "idle" /\ cur[t] \in Ids
          /\ status'[cur[t]] = outcome
          /\ \A j \in Ids : j # cur[t] => status'[j] = status[j]
          /\ kind' = kind /\ content' = content /\ active' = NoId
          /\ root' = root \/ (root'.state = outcome /\ root'.id = cur[t])
      BY <1>0, <1>4 DEF Finish, Conclude, TypeOK, HasAction, console
    <2>2. status[cur[t]] = "APPROVED" /\ active = cur[t]
      BY <2>1 DEF StillApproved, Executing, ActiveIsTheOpenAction
    <2>3. Threadwise
      BY <2>1, SerialThreads DEF OneCaller
    <2>4. ActiveIsTheOpenAction'
      BY <2>1, <2>2, ConstantsAssumption DEF ActiveIsTheOpenAction
    <2>5. ExecutedExactly'
      <3>1. ASSUME kind[cur[t]] \in ProtectedReadback, ~ failed[t]
            PROVE  \A p \in 1..Phases : content[cur[t]][p] = {cur[t]}
        <4>1. kind[cur[t]] \in NativeReadback
          BY <3>1 DEF ProtectedReadback, NativeReadback, Guarded
        <4>2. ContentMatches(cur[t])
          BY <2>1, <3>1, <4>1 DEF HasMatched
        <4>. QED
          BY <3>1, <4>2 DEF ContentMatches
      <3>. QED
        BY <2>1, <3>1 DEF ExecutedExactly
    <2>6. RootOutcome'
      BY <2>1, <2>2 DEF RootOutcome
    <2>. QED
      BY <2>3, <2>4, <2>5, <2>6
  <1>5. ASSUME UNCHANGED <<status, active>>,
               root' = root \/ root'.state \in {"NEEDS_INPUT", "READY"}
        PROVE  Threadwise /\ Registrywise
    <2>1. Threadwise
      BY <1>5, SerialThreads
    <2>2. ExecutedExactly'
      <3>1. kind' = kind
        BY <1>0, ContentSteps
      <3>2. \A i \in Ids : status[i] = "EXECUTED" => content'[i] = content[i]
        BY <1>0, ContentSteps DEF StillApproved, Executing
      <3>. QED
        BY <1>5, <3>1, <3>2 DEF ExecutedExactly
    <2>3. ActiveIsTheOpenAction' /\ RootOutcome'
      BY <1>5 DEF ActiveIsTheOpenAction, RootOutcome
    <2>. QED
      BY <2>1, <2>2, <2>3
  <1>6. ASSUME NEW t \in Threads, Step(t), ~ MarkApproved(t), ~ Finish(t)
        PROVE  UNCHANGED <<status, active, root>>
    BY <1>6 DEF Step, Revalidate, RejectStale, LeadClear, SetValues, Store,
                Readback, TrailClear, registry
  <1>7. ASSUME NEW t \in Threads,
               \/ ProgramShowBlocked(t) \/ QueueWorkflow(t)
               \/ \E i \in Ids : ApproveAction(t, i)
        PROVE  UNCHANGED <<status, active>> /\ (root' = root \/ root'.state = "NEEDS_INPUT")
    BY <1>7 DEF ProgramShowBlocked, QueueWorkflow, ApproveAction, registry
  <1>8. ASSUME Connect \/ Disconnect \/ Drift \/ UNCHANGED vars
        PROVE  UNCHANGED <<status, active, root>>
    BY <1>8 DEF Connect, Disconnect, Drift, vars, registry
  <1>9. Threadwise /\ Registrywise
    BY <1>1, <1>2, <1>3, <1>4, <1>5, <1>6, <1>7, <1>8 DEF Next, Call, Step
  <1>10. QueueKnows'
    BY <1>0, QueueStep
  <1>. QED
    BY <1>0, <1>9, <1>10

LEMMA SerialInvariant ==
    ASSUME OneCaller
    PROVE  Spec => []SerialInv
  BY SerialInit, SerialStep, PTL DEF Spec

\* With one caller the active id always names the one record that is pending
\* or executing, so no preview is lost and none is approved behind another.
THEOREM ActiveIsOpen ==
    ASSUME OneCaller
    PROVE  Spec => []ActiveIsTheOpenAction
  BY SerialInvariant, PTL DEF SerialInv

\* With one caller an EXECUTED plan with a protected readback left nothing but
\* its own values in its targets.
THEOREM ExecutedIsExact ==
    ASSUME OneCaller
    PROVE  Spec => []ExecutedExactly
  BY SerialInvariant, PTL DEF SerialInv

\* With one caller an outcome on the root status is that of the action it names.
THEOREM RootTellsTheOutcome ==
    ASSUME OneCaller
    PROVE  Spec => []RootOutcome
  BY SerialInvariant, PTL DEF SerialInv

-----------------------------------------------------------------------------
(* The registry implements the ApprovalContract.                            *)

LEMMA ContractInit ==
    ASSUME Init
    PROVE  Contract!Init
  <1>1. Writers = {}
    BY DEF Init, Writers
  <1>2. Verified \in SUBSET Ids
    BY DEF Verified
  <1>. QED
    BY <1>1, <1>2 DEF Init, Contract!Init

LEMMA ContractStep ==
    ASSUME OneCaller, SerialInv, [Next]_vars
    PROVE  [Contract!Next]_Contract!vars
  <1>. USE DEF SerialInv
  <1>0. TypeOK /\ HasAction
    BY DEF ConcurrentInv, InCall, HasAction
  <1>1. Verified' = Verified
    BY <1>0, ContentSteps DEF Verified
  <1>2. ASSUME content' = content
        PROVE  Writers' = Writers
    BY <1>2 DEF Writers
  <1>3. ASSUME NEW t \in Threads, NEW i \in Ids,
               Queued(t, i) \/ ProgramShowRequest(t, i)
        PROVE  Contract!Propose(i)
    <2>1. \A j \in Ids : status[j] # "APPROVED"
      BY <1>3, DisplacesThePending
    <2>2. Writers' = Writers
      BY <1>2, <1>3 DEF Queued, ProgramShowRequest
    <2>3. PICK displaced : /\ Register(i, displaced)
                           /\ \A j \in Ids : j \in displaced <=> status[j] = "PENDING_APPROVAL"
      BY <1>3, DisplacesThePending
    <2>4. status' = [j \in Ids |->
                       CASE j = i -> "PENDING_APPROVAL"
                         [] j # i /\ status[j] = "PENDING_APPROVAL" -> "CANCELLED"
                         [] OTHER -> status[j]]
      <3>1. status' = [j \in Ids |->
                         CASE j = i -> "PENDING_APPROVAL"
                           [] j # i /\ j \in displaced -> "CANCELLED"
                           [] OTHER -> status[j]]
        BY <2>3 DEF Register
      <3>. QED
        BY <2>3, <3>1, Zenon
    <2>5. status[i] = "NONE"
      BY <2>3 DEF Register
    <2>. QED
      BY <1>1, <2>1, <2>2, <2>4, <2>5 DEF Contract!Propose
  <1>4. ASSUME NEW t \in Threads, NEW i \in Ids, CancelAction(t, i)
        PROVE  Contract!Withdraw(i)
    BY <1>1, <1>2, <1>4 DEF CancelAction, console, Contract!Withdraw
  <1>5. ASSUME NEW t \in Threads, MarkApproved(t)
        PROVE  cur[t] \in Ids /\ Contract!Grant(cur[t])
    BY <1>0, <1>1, <1>2, <1>5
    DEF MarkApproved, HasAction, StillPending, console, Contract!Grant
  <1>6. ASSUME NEW t \in Threads, Store(t)
        PROVE  \/ cur[t] \in Ids /\ Contract!Write(cur[t])
               \/ UNCHANGED Contract!vars
    <2>1. cur[t] \in Ids /\ status[cur[t]] = "APPROVED" /\ status' = status
      BY <1>0, <1>6 DEF Store, HasAction, StillApproved, Executing, registry
    <2>2. \A i \in Ids : i # cur[t] => content'[i] = content[i]
      BY <1>0, <1>6 DEF Store, TypeOK
    <2>3. \A i \in Ids, p \in 1..Phases : content[i][p] \subseteq content'[i][p]
      BY <1>0, ContentSteps
    <2>4. Writers \subseteq Writers' /\ Writers' \subseteq Writers \cup {cur[t]}
      BY <2>2, <2>3 DEF Writers
    <2>5. Writers' = Writers \/ Writers' = Writers \cup {cur[t]}
      BY <2>4
    <2>. QED
      BY <1>1, <2>1, <2>5 DEF Contract!Write, Contract!vars
  <1>7. ASSUME NEW t \in Threads, Finish(t)
        PROVE  \E i \in Ids, outcome \in {"EXECUTED", "FAILED"} : Contract!Conclude(i, outcome)
    <2>1. /\ cur[t] \in Ids /\ pc[t] = "finish" /\ status[cur[t]] = "APPROVED"
          /\ status' = [status EXCEPT ![cur[t]] = IF failed[t] THEN "FAILED" ELSE "EXECUTED"]
          /\ content' = content
      BY <1>0, <1>7 DEF Finish, Conclude, HasAction, StillApproved, Executing, console
    <2>2. ASSUME ~ failed[t], cur[t] \in Verified
          PROVE  cur[t] \in Writers
      <3>1. ContentMatches(cur[t])
        BY <2>1, <2>2 DEF HasMatched, Verified
      <3>2. 1 \in 1..Phases
        BY ConstantsAssumption
      <3>. QED
        BY <2>1, <3>1, <3>2 DEF ContentMatches, Writers
    <2>3. CASE failed[t]
      BY <1>1, <1>2, <2>1, <2>3 DEF Contract!Conclude
    <2>4. CASE ~ failed[t]
      BY <1>1, <1>2, <2>1, <2>2, <2>4 DEF Contract!Conclude
    <2>. QED
      BY <2>3, <2>4
  <1>8. ASSUME NEW t \in Threads, Step(t), ~ MarkApproved(t), ~ Store(t), ~ Finish(t)
        PROVE  UNCHANGED <<status, content>>
    BY <1>8 DEF Step, Revalidate, RejectStale, LeadClear, SetValues, Readback, TrailClear,
                registry, console
  <1>9. ASSUME NEW t \in Threads,
               \/ ProgramShowBlocked(t) \/ QueueWorkflow(t)
               \/ \E i \in Ids : ApproveAction(t, i)
        PROVE  UNCHANGED <<status, content>>
    BY <1>9 DEF ProgramShowBlocked, QueueWorkflow, ApproveAction, registry, console
  <1>10. ASSUME Connect \/ Disconnect \/ Drift \/ UNCHANGED vars
         PROVE  UNCHANGED <<status, content>>
    BY <1>10 DEF Connect, Disconnect, Drift, vars, registry, console
  <1>11. ASSUME UNCHANGED <<status, content>>
         PROVE  UNCHANGED Contract!vars
    BY <1>1, <1>2, <1>11 DEF Contract!vars
  <1>12. ASSUME NEW t \in Threads, Step(t)
         PROVE  [Contract!Next]_Contract!vars
    BY <1>5, <1>6, <1>7, <1>8, <1>11, <1>12 DEF Contract!Next
  <1>13. ASSUME NEW t \in Threads, Call(t)
         PROVE  [Contract!Next]_Contract!vars
    BY <1>3, <1>4, <1>9, <1>11, <1>13 DEF Call, Contract!Next
  <1>. QED
    BY <1>10, <1>11, <1>12, <1>13 DEF Next

\* With one caller at a time approve_action, however the console behaves, does
\* to the registry and the show nothing but what the ApprovalContract allows.
THEOREM ImplementsContract ==
    ASSUME OneCaller
    PROVE  Spec => KeepsContract
  BY SerialInvariant, ContractInit, ContractStep, PTL DEF Spec, KeepsContract, Contract!Spec

=============================================================================
