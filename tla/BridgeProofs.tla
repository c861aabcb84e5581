---------------------------- MODULE BridgeProofs ----------------------------
(***************************************************************************)
(* Idempotency of the bridge for every capacity and every set of ids, as   *)
(* long as no id is reused for another payload and the provider works; and *)
(* what the evidence of the position probes says, for any shows, presets,  *)
(* fixtures and tasks: bindings are true, offers are of the show as it is. *)
(***************************************************************************)
EXTENDS MCBridge, FiniteSetTheorems, SequenceTheorems, WellFoundedInduction, TLAPS

-----------------------------------------------------------------------------
(* The LRU operators.                                                       *)

LEMMA ContainsIsMember ==
    ASSUME NEW s \in Seq(RequestIds), NEW i \in RequestIds
    PROVE  Contains(s, i) <=> i \in ToSet(s)
  BY DEF Contains, ToSet

\* Touching an id adds no other id and loses none.
LEMMA TouchMembers ==
    ASSUME NEW s \in Seq(RequestIds), NEW i \in RequestIds
    PROVE  /\ Touch(s, i) \in Seq(RequestIds)
           /\ ToSet(Touch(s, i)) \subseteq ToSet(s) \cup {i}
           /\ Len(Touch(s, i)) <= Len(s) + 1
           /\ Contains(s, i) => Len(Touch(s, i)) = Len(s)
  <1>1. CASE ~ Contains(s, i)
    BY <1>1 DEF Touch, ToSet
  <1>2. CASE Contains(s, i)
    <2>. DEFINE k == Position(s, i)
    <2>1. k \in 1..Len(s) /\ s[k] = i
      BY <1>2 DEF Contains, Position
    <2>. DEFINE front == SubSeq(s, 1, k - 1)
                back  == SubSeq(s, k + 1, Len(s))
    <2>. HIDE DEF k
    <2>2. /\ front \in Seq(RequestIds) /\ Len(front) = k - 1
          /\ \A j \in 1..(k - 1) : front[j] = s[j]
      BY <2>1
    <2>3. /\ back \in Seq(RequestIds) /\ Len(back) = Len(s) - k
          /\ \A j \in 1..(Len(s) - k) : back[j] = s[k + j]
      BY <2>1
    <2>. DEFINE rest == front \o back
    <2>. HIDE DEF front, back
    <2>4. /\ rest \in Seq(RequestIds) /\ Len(rest) = Len(s) - 1
          /\ \A j \in 1..Len(rest) : rest[j] = IF j <= Len(front) THEN front[j]
                                               ELSE back[j - Len(front)]
      <3>1. /\ rest \in Seq(RequestIds)
            /\ Len(rest) = Len(front) + Len(back)
            /\ \A j \in 1..(Len(front) + Len(back)) :
                   rest[j] = IF j <= Len(front) THEN front[j] ELSE back[j - Len(front)]
        BY <2>2, <2>3, ConcatProperties
      <3>. QED
        BY <2>1, <2>2, <2>3, <3>1
    <2>5. ASSUME NEW j \in 1..Len(rest)
          PROVE  \E l \in 1..Len(s) : rest[j] = s[l]
      <3>1. CASE j <= Len(front)
        <4>1. rest[j] = s[j] /\ j \in 1..Len(s)
          BY <2>1, <2>2, <2>4, <3>1
        <4>. QED
          BY <4>1
      <3>2. CASE j > Len(front)
        <4>1. j - Len(front) \in 1..(Len(s) - k)
          BY <2>1, <2>2, <2>4, <3>2
        <4>2. rest[j] = s[k + (j - Len(front))] /\ k + (j - Len(front)) \in 1..Len(s)
          BY <2>1, <2>2, <2>3, <2>4, <3>2, <4>1
        <4>. QED
          BY <4>2
      <3>. QED
        BY <2>2, <3>1, <3>2
    <2>6. Touch(s, i) = Append(rest, i)
      BY <1>2 DEF Touch, RemoveAt, k, front, back
    <2>. HIDE DEF rest
    <2>7. ToSet(Append(rest, i)) \subseteq ToSet(s) \cup {i}
      <3>1. ASSUME NEW j \in 1..(Len(rest) + 1)
            PROVE  Append(rest, i)[j] \in ToSet(s) \cup {i}
        <4>1. CASE j = Len(rest) + 1
          BY <2>4, <4>1
        <4>2. CASE j \in 1..Len(rest)
          <5>1. Append(rest, i)[j] = rest[j]
            BY <2>4, <4>2
          <5>2. PICK l \in 1..Len(s) : rest[j] = s[l]
            BY <2>5, <4>2
          <5>3. s[l] \in ToSet(s)
            BY <5>2 DEF ToSet
          <5>. QED
            BY <5>1, <5>2, <5>3
        <4>. QED
          BY <2>4, <4>1, <4>2
      <3>2. DOMAIN Append(rest, i) = 1..(Len(rest) + 1)
        BY <2>4
      <3>. QED
        BY <3>1, <3>2 DEF ToSet
    <2>. QED
      BY <2>1, <2>4, <2>6, <2>7
  <1>. QED
    BY <1>1, <1>2

\* Trimming forgets, it adds nothing.
LEMMA TrimMembers ==
    ASSUME NEW s \in Seq(RequestIds)
    PROVE  /\ Trim(s) \in Seq(RequestIds)
           /\ ToSet(Trim(s)) \subseteq ToSet(s)
  BY BridgeAssumption DEF Trim, ToSet

-----------------------------------------------------------------------------
(* The inductive invariant.                                                 *)

\* As much of TypeOK as the argument needs.
Shape ==
    /\ seen     \in Seq(RequestIds)
    /\ cached   \in Seq(RequestIds)
    /\ payload  \in [RequestIds -> Payloads \cup {NoPayload}]
    /\ answer   \in [RequestIds -> Answers \cup {NoAnswer}]
    /\ remote   \in Availability
    /\ original \in [RequestIds -> Answers \cup Errors \cup {NoAnswer}]

\* A known id still has the answer it got as a new request.
AnswersKept == trouble = {} => \A i \in ToSet(seen) : answer[i] = original[i]

IInv == Shape /\ InStep /\ AnswersKept /\ AnswerFits /\ RetryIsIdempotent

LEMMA AnswerTyped ==
    ASSUME NEW p \in Payloads, remote \in Availability
    PROVE  AnswerTo(p) \in Answers
  <1>1. p[1] \in {"PING", "STATUS", "DIMMER", "DESIGN"}
    BY DEF Payloads
  <1>. QED
    BY <1>1 DEF AnswerTo, Answers

LEMMA InvariantInit == Init => IInv
  <1>1. Init => ToSet(seen) = {}
    BY DEF Init, ToSet
  <1>. QED
    BY <1>1 DEF Init, IInv, Shape, InStep, AnswersKept, AnswerFits, RetryIsIdempotent, NoReply

\* What touching and then trimming an LRU can leave in it.
LEMMA TrimTouchMembers ==
    ASSUME NEW s \in Seq(RequestIds), NEW i \in RequestIds
    PROVE  /\ Trim(Touch(s, i)) \in Seq(RequestIds)
           /\ ToSet(Trim(Touch(s, i))) \subseteq ToSet(s) \cup {i}
  BY TouchMembers, TrimMembers

\* While the caches are in step, only a new id is processed.
LEMMA ProcessedIsNew ==
    ASSUME IInv, trouble = {}, NEW i \in RequestIds, NEW p \in Payloads, Process(i, p)
    PROVE  ~ Known(i) /\ ~ Duplicate(i, p)
  BY DEF IInv, InStep, Process, Duplicate, Known

LEMMA InvariantStep == IInv /\ [Next]_vars => IInv'
  <1>. SUFFICES ASSUME IInv, [Next]_vars PROVE IInv'
    OBVIOUS
  <1>. USE DEF IInv
  <1>1. ASSUME NEW i \in RequestIds, NEW p \in Payloads, Conflict(i, p) PROVE IInv'
    <2>1. Touch(seen, i) \in Seq(RequestIds) /\ ToSet(Touch(seen, i)) \subseteq ToSet(seen)
      <3>1. i \in ToSet(seen)
        BY <1>1, ContainsIsMember DEF Conflict, Known, Shape
      <3>. QED
        BY <3>1, TouchMembers DEF Shape
    <2>2. Shape'
      BY <1>1, <2>1 DEF Conflict, Shape
    <2>3. trouble' # {}
      BY <1>1 DEF Conflict
    <2>4. AnswerFits'
      BY <1>1, <2>1 DEF Conflict, AnswerFits
    <2>. QED
      BY <2>2, <2>3, <2>4 DEF InStep, AnswersKept, RetryIsIdempotent
  <1>2. ASSUME NEW i \in RequestIds, NEW p \in Payloads, FromCache(i, p) PROVE IInv'
    <2>1. i \in ToSet(seen) /\ i \in ToSet(cached)
      BY <1>2, ContainsIsMember DEF FromCache, Duplicate, Known, Shape
    <2>2. /\ seen' \in Seq(RequestIds) /\ cached' \in Seq(RequestIds)
          /\ ToSet(seen') \subseteq ToSet(seen) /\ ToSet(cached') \subseteq ToSet(cached)
      BY <1>2, <2>1, TouchMembers DEF FromCache, Shape
    <2>3. Shape'
      BY <1>2, <2>2 DEF FromCache, Shape
    <2>4. InStep'
      BY <1>2 DEF FromCache, InStep
    <2>5. AnswersKept' /\ AnswerFits'
      BY <1>2, <2>2 DEF FromCache, AnswersKept, AnswerFits
    <2>6. RetryIsIdempotent'
      BY <1>2, <2>1 DEF FromCache, AnswersKept, RetryIsIdempotent
    <2>. QED
      BY <2>3, <2>4, <2>5, <2>6
  <1>3. ASSUME NEW i \in RequestIds, NEW p \in Payloads, Process(i, p) PROVE IInv'
    <2>1. /\ seen' \in Seq(RequestIds) /\ cached' \in Seq(RequestIds)
          /\ ToSet(seen') \subseteq ToSet(seen) \cup {i}
          /\ ToSet(cached') \subseteq ToSet(cached) \cup {i}
      BY <1>3, TrimTouchMembers DEF Process, Remember, StoreResponse, Shape
    <2>2. AnswerTo(p) \in Answers
      BY AnswerTyped DEF Shape
    <2>3. /\ payload' \in [RequestIds -> Payloads \cup {NoPayload}]
          /\ \A j \in RequestIds : j \in ToSet(seen') =>
                payload'[j] = IF j = i THEN p ELSE payload[j]
      <3>1. payload' = Assign(payload, seen', i, p, NoPayload)
        BY <1>3 DEF Process, Remember
      <3>2. p \in Payloads \cup {NoPayload} /\ NoPayload \in Payloads \cup {NoPayload}
        OBVIOUS
      <3>3. payload \in [RequestIds -> Payloads \cup {NoPayload}]
        BY DEF Shape
      <3>. HIDE DEF IInv
      <3>. QED
        BY <3>1, <3>2, <3>3 DEF Assign
    <2>4. /\ answer' \in [RequestIds -> Answers \cup {NoAnswer}]
          /\ \A j \in RequestIds : j \in ToSet(cached') =>
                answer'[j] = IF j = i THEN AnswerTo(p) ELSE answer[j]
      <3>1. answer' = Assign(answer, cached', i, AnswerTo(p), NoAnswer)
        BY <1>3 DEF Process, StoreResponse
      <3>2. AnswerTo(p) \in Answers \cup {NoAnswer} /\ NoAnswer \in Answers \cup {NoAnswer}
        BY <2>2
      <3>3. answer \in [RequestIds -> Answers \cup {NoAnswer}]
        BY DEF Shape
      <3>. HIDE DEF IInv
      <3>. QED
        BY <3>1, <3>2, <3>3 DEF Assign
    <2>5. Shape'
      BY <1>3, <2>1, <2>2, <2>3, <2>4 DEF Process, Shape
    <2>6. InStep'
      BY <1>3 DEF Process, Remember, StoreResponse, InStep
    <2>7. AnswersKept'
      <3>1. SUFFICES ASSUME trouble = {}, NEW j \in ToSet(seen')
                     PROVE  answer'[j] = original'[j]
        BY <1>3 DEF Process, AnswersKept
      <3>2. j \in RequestIds /\ j \in ToSet(cached')
        BY <1>3, <2>1, <2>6, <3>1 DEF Process, InStep, ToSet
      <3>3. original' = [original EXCEPT ![i] = AnswerTo(p)]
        BY <1>3, <3>1, ProcessedIsNew DEF Process
      <3>4. CASE j = i
        BY <2>4, <3>2, <3>3, <3>4 DEF Shape
      <3>5. CASE j # i
        BY <2>1, <2>4, <3>1, <3>2, <3>3, <3>5 DEF Shape, AnswersKept
      <3>. QED
        BY <3>4, <3>5
    <2>8. AnswerFits'
      <3>1. SUFFICES ASSUME "FAILURE" \notin trouble, NEW j \in ToSet(seen') \cap ToSet(cached')
                     PROVE  answer'[j] \in CASE payload'[j][1] = "PING"   -> {"PONG"}
                                             [] payload'[j][1] = "STATUS" -> Availability
                                             [] payload'[j][1] = "DIMMER" -> {"NOT_EXECUTED"}
                                             [] payload'[j][1] = "DESIGN" -> {"NOT_IMPLEMENTED"}
        BY <1>3 DEF Process, AnswerFits
      <3>2. j \in RequestIds
        BY <2>1 DEF ToSet
      <3>3. CASE j = i
        <4>1. answer'[j] = AnswerTo(p) /\ payload'[j] = p
          BY <2>3, <2>4, <3>2, <3>3
        <4>2. p[1] \in {"PING", "STATUS", "DIMMER", "DESIGN"}
          BY DEF Payloads
        <4>. QED
          BY <4>1, <4>2 DEF AnswerTo, Shape
      <3>4. CASE j # i
        <4>1. j \in ToSet(seen) \cap ToSet(cached)
          BY <2>1, <3>4
        <4>2. answer'[j] = answer[j] /\ payload'[j] = payload[j]
          BY <2>3, <2>4, <3>2, <3>4
        <4>. QED
          BY <3>1, <4>1, <4>2 DEF AnswerFits
      <3>. QED
        BY <3>3, <3>4
    <2>9. RetryIsIdempotent'
      BY <1>3, ProcessedIsNew DEF Process, RetryIsIdempotent
    <2>. QED
      BY <2>5, <2>6, <2>7, <2>8, <2>9
  <1>4. ASSUME NEW i \in RequestIds, NEW p \in Payloads, StatusFails(i, p) PROVE IInv'
    <2>1. seen' \in Seq(RequestIds)
      BY <1>4, TrimTouchMembers DEF StatusFails, Remember, Shape
    <2>2. payload' \in [RequestIds -> Payloads \cup {NoPayload}]
      BY <1>4 DEF StatusFails, Remember, Assign, Shape
    <2>3. Shape'
      BY <1>4, <2>1, <2>2 DEF StatusFails, Shape, Errors
    <2>4. "FAILURE" \in trouble'
      BY <1>4 DEF StatusFails
    <2>. QED
      BY <2>3, <2>4 DEF InStep, AnswersKept, AnswerFits, RetryIsIdempotent
  <1>5. CASE WorkersChange
    BY <1>5 DEF WorkersChange, memory, Shape, InStep, AnswersKept, AnswerFits, RetryIsIdempotent
  <1>6. CASE UNCHANGED vars
    BY <1>6 DEF vars, memory, Shape, InStep, AnswersKept, AnswerFits, RetryIsIdempotent
  <1>. QED
    BY <1>1, <1>2, <1>3, <1>4, <1>5, <1>6 DEF Next, Dispatch

LEMMA Invariance == Spec => []IInv
  BY InvariantInit, InvariantStep, PTL DEF Spec

-----------------------------------------------------------------------------

\* Until an id is reused for another payload or the status provider raises,
\* _seen and _responses hold the same ids in the same order, for every
\* capacity: no duplicate is ever recomputed because its response was evicted
\* first (BridgeDispatcher.dispatch, RequestDeduplicator.check).
THEOREM CachesInStep == Spec => []InStep
  BY Invariance, PTL DEF IInv

\* Even after conflicts, when the two caches keep different ids, the response
\* cached under a known id fits the payload the id is known for.
THEOREM CachedAnswerFits == Spec => []AnswerFits
  BY Invariance, PTL DEF IInv

\* A request repeated with the same id and payload gets the answer of the
\* first one, whatever the status is by then, until an id is reused for another
\* payload or the status provider raises.
THEOREM RetriesAreIdempotent == Spec => []RetryIsIdempotent
  BY Invariance, PTL DEF IInv

-----------------------------------------------------------------------------
(* Evidence: what an execution has stored so far and what it has exported.  *)

\* Places of an execution, and of any task while it reads.
Sending == {"send", "meta", "export", "record", "clear"}
Reading == {"lists", "presets", "members", "direct", "judge"}

Kinds == {"raw", "application", "calibration"}

\* A plan that was previewed.
IsPlan(p) ==
    /\ p.kind \in Kinds /\ p.slot \in Slots /\ p.preset \in Presets \cup {0}
    /\ p.kind # "raw" => p.preset \in Presets

\* Where a task is, and what for.
TaskTypes ==
    /\ pc \in {"idle"} \cup Reading \cup Sending
    /\ pc \in Sending => phase = "execute"
    /\ pc \in Reading => phase \in {"preview", "approve", "execute", "use"}
    /\ pc \in Reading /\ phase = "preview" =>
          task \in Kinds /\ (task = "application" => plan.preset \in Presets)
    /\ pc \in Reading /\ phase \in {"approve", "execute"} => task = plan.kind
    /\ pc \in Sending => task = plan.kind
    /\ pc \in Reading /\ phase = "use" => task \in {"design", "bind"}
    /\ pc = "judge" => phase # "use"
    /\ plan = None \/ (pc \in Reading /\ phase = "preview") \/ IsPlan(plan)
    /\ pc \in Sending \/ (pc \in Reading /\ phase \in {"approve", "execute"}) => IsPlan(plan)
    /\ pc = "send" => at \in 1..Len(Proof!Script[plan.kind])
    /\ pc \in Reading /\ task = "bind" => at \in Presets

ShowTypes ==
    /\ members \in (SUBSET Fixtures) \ {{}}
    /\ label \in [Presets -> Proof!Labels] /\ holds \in [Presets -> SUBSET Fixtures]
    /\ prog \in [Fixtures -> Proof!Values]
    /\ active \subseteq Fixtures /\ selected \subseteq Fixtures

StoreTypes ==
    /\ store = [members |-> store.members, label |-> store.label, taken |-> store.taken]
    /\ store.members \subseteq Fixtures
    /\ taken \subseteq Slots /\ store.taken \subseteq Slots

\* The links of a cue to preset n were once stored like this.
Together(cue, n, was) == cue = None \/ (n \in Presets => <<n, Proof!Linked(cue, n)>> \in was)

SequenceIs ==
    seq # None => seq = [name |-> seq.name, cue |-> <<seq.cue[1], seq.cue[2]>>]

SequenceLinks ==
    pc \in {"send", "meta", "export"} /\ seq # None =>
        /\ Together(seq.cue[1], plan.preset, linked)
        /\ Together(seq.cue[2], plan.preset, linked)

ExportLinks ==
    pc \in Reading /\ phase = "execute" =>
        /\ Together(export[1], plan.preset, linked)
        /\ Together(export[2], plan.preset, linked)

\* What is about to be recorded.
Found ==
    pc = "record" /\ plan.kind # "raw" =>
        /\ <<plan.preset, store.members>> \in linked
        /\ store.members # {}

RowsLinked ==
    \A r \in applications \cup targets :
        /\ r.preset \in Presets /\ r.id.members # {}
        /\ <<r.preset, r.id.members>> \in linked

EvidenceInv ==
    /\ TaskTypes /\ ShowTypes /\ StoreTypes
    /\ SequenceIs /\ SequenceLinks /\ ExportLinks /\ Found /\ RowsLinked

EvidenceInvariant == part = "evidence" => EvidenceInv

\* A design while it reads, and once it has offered what it read.
MembersHeard(m) == kept \/ \E d \in during : d.members = m

DesignReads ==
    pc \in Reading /\ task = "design" =>
        /\ [members |-> members, label |-> label] \in during
        /\ pc \notin {"lists", "presets"} => \E d \in during : d.label = store.label
        /\ pc = "direct" => MembersHeard(store.members)

NoDesign == pc = "clear" => result.task # "design"

OfferInv == DesignReads /\ NoDesign /\ Proof!OfferedIsCurrent
OfferInvariant == part = "evidence" => EvidenceInv /\ OfferInv

LEMMA ShowRests ==
    ASSUME ShowTypes, UNCHANGED <<members, label, holds, prog, active, selected>>
    PROVE  ShowTypes'
  BY DEF ShowTypes

LEMMA StoreRests == ASSUME StoreTypes, UNCHANGED <<store, taken>> PROVE StoreTypes'
  BY DEF StoreTypes

LEMMA SequenceRests == ASSUME SequenceIs, seq' = seq PROVE SequenceIs'
  BY DEF SequenceIs

LEMMA RowsRest ==
    ASSUME RowsLinked, applications' \subseteq applications, targets' \subseteq targets,
           linked \subseteq linked'
    PROVE  RowsLinked'
  BY DEF RowsLinked

\* Where nothing is being sent, read or recorded, nothing is claimed of links.
LEMMA NoLinks ==
    ASSUME pc' \in {"idle", "clear"} PROVE SequenceLinks' /\ ExportLinks' /\ Found'
  BY DEF SequenceLinks, ExportLinks, Found, Reading

LEMMA ProbesAre ==
    ASSUME Proof!EvidenceAssumption
    PROVE  /\ Probes \subseteq Kinds
           /\ \A n \in Presets \cup {0} : None # Proof!Link(n)
           /\ Presets \subseteq Nat /\ Slots \subseteq Nat
  BY DEF Proof!EvidenceAssumption, Kinds

LEMMA BeginIs ==
    ASSUME EvidenceInv, NEW what, NEW ph, NEW p, NEW n, Proof!Begin(what, ph, p, n),
           \/ ph = "preview" /\ what \in Kinds /\ (what = "application" => p.preset \in Presets)
           \/ ph = "approve" /\ what = p.kind /\ IsPlan(p)
           \/ ph = "use" /\ what \in {"design", "bind"} /\ p = plan,
           what = "bind" => n \in Presets
    PROVE  EvidenceInv'
<1>1. /\ pc = "idle" /\ pc' = "lists" /\ task' = what /\ phase' = ph /\ plan' = p /\ at' = n
      /\ UNCHANGED <<Proof!console, Proof!reading, export, Proof!files, linked>>
  BY DEF Proof!Begin
<1>2. TaskTypes'
  BY <1>1 DEF EvidenceInv, TaskTypes, Reading, Sending, IsPlan, Kinds
<1>3. ShowTypes' /\ StoreTypes' /\ SequenceIs' /\ RowsLinked'
  BY <1>1, ShowRests, StoreRests, SequenceRests, RowsRest
  DEF EvidenceInv, Proof!console, Proof!reading, Proof!files
<1>4. SequenceLinks' /\ ExportLinks' /\ Found'
  BY <1>1 DEF SequenceLinks, ExportLinks, Found
<1> QED BY <1>2, <1>3, <1>4 DEF EvidenceInv

LEMMA StepAsks == ASSUME EvidenceInv, Proof!EvidenceAssumption, Proof!Asks PROVE EvidenceInv'
<1>1. ASSUME NEW n \in Presets, Proof!Propose("application", n) PROVE EvidenceInv'
  <2>1. Proof!Begin("application", "preview", [preset |-> n], 1)
    BY <1>1 DEF Proof!Propose
  <2> QED BY <2>1, BeginIs DEF Kinds
<1>2. ASSUME NEW kind \in Probes \ {"application"}, Proof!Propose(kind, 0) PROVE EvidenceInv'
  <2>1. Proof!Begin(kind, "preview", [preset |-> 0], 1)
    BY <1>2 DEF Proof!Propose
  <2> QED BY <2>1, BeginIs, ProbesAre DEF Kinds
<1>3. CASE Proof!Approve
  <2>1. plan # None /\ Proof!Begin(plan.kind, "approve", plan, 1)
    BY <1>3 DEF Proof!Approve
  <2>2. IsPlan(plan)
    BY <2>1 DEF EvidenceInv, TaskTypes, Reading, Proof!Begin
  <2> QED BY <2>1, <2>2, BeginIs DEF IsPlan, Kinds
<1>4. CASE Proof!Reject
  <2>1. /\ pc = "idle" /\ pc' = "idle" /\ plan' = None
        /\ UNCHANGED <<Proof!console, Proof!reading, Proof!files, linked>>
    BY <1>4 DEF Proof!Reject, Proof!history
  <2>2. TaskTypes'
    BY <2>1 DEF EvidenceInv, TaskTypes, Reading, Sending
  <2>3. ShowTypes' /\ StoreTypes' /\ SequenceIs' /\ RowsLinked'
    BY <2>1, ShowRests, StoreRests, SequenceRests, RowsRest
    DEF EvidenceInv, Proof!console, Proof!reading, Proof!files
  <2> QED BY <2>1, <2>2, <2>3, NoLinks DEF EvidenceInv
<1>5. CASE Proof!Design
  <2>1. Proof!Begin("design", "use", plan, 1)
    BY <1>5 DEF Proof!Design
  <2> QED BY <2>1, BeginIs
<1>6. ASSUME NEW n \in Presets, Proof!Bind(n) PROVE EvidenceInv'
  <2>1. Proof!Begin("bind", "use", plan, n)
    BY <1>6 DEF Proof!Bind
  <2> QED BY <2>1, BeginIs
<1> QED BY <1>1, <1>2, <1>3, <1>4, <1>5, <1>6 DEF Proof!Asks

\* An exception: the last ClearAll of an execution, or the end of the task.
LEMMA FailsIs ==
    ASSUME EvidenceInv, pc \in Reading \cup {"send", "meta", "export"}, Proof!Fails
    PROVE  TaskTypes' /\ pc' \in {"idle", "clear"}
<1>1. CASE phase = "execute" /\ pc' = "clear" /\ UNCHANGED <<task, phase, plan, at, export>>
  BY <1>1 DEF EvidenceInv, TaskTypes, Reading, Sending
<1>2. CASE phase # "execute" /\ Proof!Leave("failed")
              /\ plan' = IF phase = "preview" THEN None ELSE plan
  BY <1>2 DEF EvidenceInv, TaskTypes, Reading, Sending, Proof!Leave
<1> QED BY <1>1, <1>2 DEF Proof!Fails

\* A step that fails and touches nothing else, but for what was read.
LEMMA FailingStep ==
    ASSUME EvidenceInv, pc \in Reading \cup {"send", "meta", "export"}, Proof!Fails,
           ShowTypes', SequenceIs', StoreTypes',
           applications' = applications, targets' = targets, linked \subseteq linked'
    PROVE  EvidenceInv'
  BY FailsIs, RowsRest, NoLinks DEF EvidenceInv

\* A step of a task that reads and goes on reading.
LEMMA ReadingStep ==
    ASSUME EvidenceInv, pc \in Reading \ {"judge"}, pc' \in Reading, StoreTypes',
           UNCHANGED <<Proof!console, task, phase, plan, at, export, Proof!files, linked>>,
           pc' = "judge" => phase # "use"
    PROVE  EvidenceInv'
<1>1. TaskTypes'
  BY DEF EvidenceInv, TaskTypes, Reading, Sending
<1>2. ShowTypes' /\ SequenceIs' /\ RowsLinked'
  BY ShowRests, SequenceRests, RowsRest DEF EvidenceInv, Proof!console, Proof!files
<1>3. SequenceLinks' /\ Found'
  BY DEF SequenceLinks, Found, Reading
<1>4. ExportLinks'
  BY DEF EvidenceInv, ExportLinks, Reading
<1> QED BY <1>1, <1>2, <1>3, <1>4 DEF EvidenceInv

LEMMA StepReads == ASSUME EvidenceInv, Proof!Reads PROVE EvidenceInv'
<1>1. CASE Proof!ReadSequences \/ Proof!ReadPresets
  <2>1. StoreTypes'
    BY <1>1 DEF EvidenceInv, StoreTypes, Proof!ReadSequences, Proof!ReadPresets, Proof!console
  <2> QED BY <1>1, <2>1, ReadingStep
          DEF Proof!ReadSequences, Proof!ReadPresets, Reading, Proof!history
<1>2. CASE Proof!ReadMembers
  <2>1. StoreTypes'
    BY <1>2 DEF EvidenceInv, StoreTypes, ShowTypes, Proof!ReadMembers, Proof!console
  <2> QED BY <1>2, <2>1, ReadingStep DEF Proof!ReadMembers, Reading
<1>3. CASE Proof!KeepsMembers
  <2>1. StoreTypes'
    BY <1>3, StoreRests DEF EvidenceInv, Proof!KeepsMembers, Proof!console
  <2> QED BY <1>3, <2>1, ReadingStep DEF Proof!KeepsMembers, Reading
<1>4. ASSUME Proof!ReadDirect \/ Proof!ReadFails, UNCHANGED <<Proof!console, Proof!reading>>
      PROVE  ShowTypes' /\ SequenceIs' /\ StoreTypes'
  BY <1>4, ShowRests, SequenceRests, StoreRests DEF EvidenceInv, Proof!console, Proof!reading
<1>5. CASE Proof!ReadDirect
  <2>1. /\ pc = "direct" /\ phase # "use"
        /\ UNCHANGED <<Proof!console, Proof!reading, Proof!files, linked>>
    BY <1>5 DEF Proof!ReadDirect, Proof!Strict
  <2>2. ShowTypes' /\ SequenceIs' /\ StoreTypes'
    BY <1>4, <1>5, <2>1
  <2>3. CASE pc' = "judge" /\ UNCHANGED <<task, phase, plan, at, export>>
    BY <2>1, <2>2, <2>3, ReadingStep DEF Reading
  <2>4. CASE Proof!Fails
    BY <2>1, <2>2, <2>4, FailingStep DEF Reading, Proof!files
  <2> QED BY <1>5, <2>3, <2>4 DEF Proof!ReadDirect
<1>6. CASE Proof!ReadFails
  <2>1. /\ pc \in Reading /\ Proof!Fails
        /\ UNCHANGED <<Proof!console, Proof!reading, Proof!files, linked>>
    BY <1>6 DEF Proof!ReadFails, Reading
  <2>2. ShowTypes' /\ SequenceIs' /\ StoreTypes'
    BY <1>4, <1>6, <2>1
  <2> QED BY <2>1, <2>2, FailingStep DEF Proof!files
<1> QED BY <1>1, <1>2, <1>3, <1>5, <1>6 DEF Proof!Reads

LEMMA StepUses ==
    ASSUME EvidenceInv, Proof!EvidenceAssumption, Proof!Uses PROVE EvidenceInv'
<1>1. /\ pc = "direct" /\ pc' = "idle" /\ plan' = plan /\ task \in {"design", "bind"}
      /\ UNCHANGED <<Proof!console, Proof!reading, applications, linked>>
  BY DEF Proof!Uses, Proof!OfferMap, Proof!RecordTarget, Proof!Finish, Proof!Leave, Proof!files
<1>2. phase = "use"
  BY <1>1 DEF EvidenceInv, TaskTypes, Reading, IsPlan, Kinds
<1>3. TaskTypes'
  BY <1>1, <1>2 DEF EvidenceInv, TaskTypes, Reading, Sending
<1>4. ShowTypes' /\ StoreTypes' /\ SequenceIs'
  BY <1>1, ShowRests, StoreRests, SequenceRests
  DEF EvidenceInv, Proof!console, Proof!reading
<1>5. RowsLinked'
  <2>1. CASE targets' = targets
    BY <1>1, <2>1, RowsRest DEF EvidenceInv
  <2>2. CASE targets' = {Proof!Row(at)} /\ \E heard \in SUBSET Presets :
                \E r \in Proof!Confirmed(heard) : r.preset = at
    <3>1. PICK r \in applications : Proof!Current(r) /\ r.preset = at
      BY <2>2 DEF Proof!Confirmed
    <3>2. r.id = Proof!Identity /\ Proof!Row(at).preset = r.preset /\ Proof!Row(at).id = r.id
      BY <3>1 DEF Proof!Current, Proof!Row
    <3> QED BY <1>1, <2>2, <3>1, <3>2 DEF EvidenceInv, RowsLinked
  <2> QED BY <2>1, <2>2 DEF Proof!Uses, Proof!OfferMap, Proof!RecordTarget, Proof!files
<1> QED BY <1>1, <1>3, <1>4, <1>5, NoLinks DEF EvidenceInv

\* A set of numbers has a least one: its beginnings are ordered by inclusion.
LEMMA LeastOfPool ==
    ASSUME NEW S \in SUBSET Nat, S # {} PROVE Proof!First(S) \in S
<1>1. PICK m \in S : TRUE
  OBVIOUS
<1> DEFINE upTo(n) == S \cap (0..n)
           Starts  == {upTo(n) : n \in {k \in S : k <= m}}
           Less    == StrictSubsetOrdering(0..m)
<1>2. IsFiniteSet(0..m)
  BY FS_Interval
<1>3. IsWellFoundedOn(Less, SUBSET (0..m))
  BY <1>2, FS_FiniteSubsetsOfFinite, FS_StrictSubsetOrderingWellFounded
<1>4. Starts \subseteq SUBSET (0..m) /\ Starts # {}
  <2>1. m \in {k \in S : k <= m}
    OBVIOUS
  <2>2. \A n \in {k \in S : k <= m} : upTo(n) \in SUBSET (0..m)
    OBVIOUS
  <2> QED BY <2>1, <2>2
<1> HIDE DEF Starts, Less
<1>5. PICK x \in Starts : \A y \in Starts : ~(<<y, x>> \in Less)
  BY <1>3, <1>4, WFMin
<1>6. PICK n \in S : n <= m /\ x = upTo(n)
  BY <1>5 DEF Starts
<1>7. ASSUME NEW k \in S, k < n PROVE FALSE
  <2>1. upTo(k) \in Starts
    BY <1>6, <1>7 DEF Starts
  <2>2. upTo(k) \subseteq upTo(n) /\ n \in upTo(n) /\ n \notin upTo(k)
    BY <1>7
  <2>3. <<upTo(k), x>> \in Less
    BY <1>4, <1>6, <2>1, <2>2 DEF Less, StrictSubsetOrdering
  <2> QED BY <1>5, <2>1, <2>3
<1>8. \A k \in S : n <= k
  BY <1>7
<1> QED BY <1>8 DEF Proof!First

LEMMA PreviewIs ==
    ASSUME Proof!EvidenceAssumption, NEW kind \in Kinds, NEW n,
           kind = "application" => n \in Presets, Proof!Preview(kind, n) # None
    PROVE  IsPlan(Proof!Preview(kind, n))
<1>1. kind = "calibration" => Proof!First(Proof!FreePresets) \in Presets
  <2>1. Proof!FreePresets \in SUBSET Nat /\ Proof!FreePresets \subseteq Presets
    BY ProbesAre DEF Proof!FreePresets
  <2>2. kind = "calibration" => Proof!FreePresets # {}
    BY DEF Proof!Preview
  <2> QED BY <2>1, <2>2, LeastOfPool
<1>2. Proof!FreeSlots # {} /\ Proof!First(Proof!FreeSlots) \in Slots
  <2>1. Proof!FreeSlots \in SUBSET Nat /\ Proof!FreeSlots \subseteq Slots
    BY ProbesAre DEF Proof!FreeSlots
  <2>2. Proof!FreeSlots # {}
    BY DEF Proof!Preview
  <2> QED BY <2>1, <2>2, LeastOfPool
<1>3. /\ Proof!Preview(kind, n).kind = kind
      /\ Proof!Preview(kind, n).slot = Proof!First(Proof!FreeSlots)
      /\ kind = "raw" => Proof!Preview(kind, n).preset = 0
      /\ kind = "application" => Proof!Preview(kind, n).preset = n
      /\ kind = "calibration" => Proof!Preview(kind, n).preset = Proof!First(Proof!FreePresets)
  BY DEF Proof!Preview, Kinds
<1> QED BY <1>1, <1>2, <1>3 DEF IsPlan, Kinds

LEMMA StepRegister ==
    ASSUME EvidenceInv, Proof!EvidenceAssumption, Proof!Register PROVE EvidenceInv'
<1>1. /\ pc = "judge" /\ phase = "preview" /\ pc' = "idle"
      /\ plan' = Proof!Preview(task, plan.preset)
      /\ UNCHANGED <<Proof!console, Proof!reading, Proof!files, linked>>
  BY DEF Proof!Register, Proof!Leave
<1>2. plan' = None \/ IsPlan(plan')
  BY <1>1, PreviewIs DEF EvidenceInv, TaskTypes, Reading
<1>3. TaskTypes'
  BY <1>1, <1>2 DEF TaskTypes, Reading, Sending, IsPlan
<1>4. ShowTypes' /\ StoreTypes' /\ SequenceIs' /\ RowsLinked'
  BY <1>1, ShowRests, StoreRests, SequenceRests, RowsRest
  DEF EvidenceInv, Proof!console, Proof!reading, Proof!files
<1> QED BY <1>1, <1>3, <1>4, NoLinks DEF EvidenceInv

\* A sequence of the operator's, whose links are in the history.
LEMMA TheirsIs ==
    ASSUME NEW ns, Proof!TheyHave(ns), NEW n
    PROVE  /\ seq' = [name |-> seq'.name, cue |-> <<seq'.cue[1], seq'.cue[2]>>]
           /\ Together(seq'.cue[1], n, linked') /\ Together(seq'.cue[2], n, linked')
           /\ linked \subseteq linked'
<1>1. PICK m \in Presets : \E fs \in SUBSET ns[m] :
          /\ seq' = Proof!Theirs(m, fs)
          /\ linked' = linked \cup Proof!Links(Proof!Theirs(m, fs).cue[1])
  BY DEF Proof!TheyHave
<1>2. PICK fs \in SUBSET ns[m] :
          /\ seq' = Proof!Theirs(m, fs)
          /\ linked' = linked \cup Proof!Links(Proof!Theirs(m, fs).cue[1])
  BY <1>1
<1>3. seq' = [name |-> seq'.name, cue |-> <<seq'.cue[1], seq'.cue[2]>>] /\ seq'.cue[2] = None
  BY <1>2 DEF Proof!Theirs
<1>4. n \in Presets => <<n, Proof!Linked(seq'.cue[1], n)>> \in linked'
  BY <1>2 DEF Proof!Links
<1> QED BY <1>2, <1>3, <1>4 DEF Together

LEMMA ScriptIs ==
    ASSUME NEW kind \in Kinds,
           NEW i \in 1..Len(Proof!Script[kind])
    PROVE  /\ Proof!Script[kind][i] \in {"call", "preset"} => kind # "raw"
           /\ Len(Proof!Script[kind]) \in Nat
<1>1. CASE kind = "raw"
  BY <1>1 DEF Proof!Script
<1>2. CASE kind = "application"
  BY <1>2 DEF Proof!Script
<1>3. CASE kind = "calibration"
  BY <1>3 DEF Proof!Script
<1> QED BY <1>1, <1>2, <1>3 DEF Kinds

LEMMA StepRevalidate ==
    ASSUME EvidenceInv, Proof!EvidenceAssumption, Proof!Revalidate PROVE EvidenceInv'
<1>1. /\ pc = "judge" /\ phase = "approve" /\ plan' = plan
      /\ UNCHANGED <<members, label, holds, prog, active, selected, taken,
                     Proof!reading, Proof!files>>
  BY DEF Proof!Revalidate
<1>2. ShowTypes' /\ StoreTypes' /\ (linked \subseteq linked' => RowsLinked')
  BY <1>1, ShowRests, StoreRests, RowsRest
  DEF EvidenceInv, Proof!reading, Proof!files
<1>3. IsPlan(plan) /\ task = plan.kind
  BY <1>1 DEF EvidenceInv, TaskTypes, Reading
<1>4. CASE /\ pc' = "send" /\ phase' = "execute" /\ at' = 1 /\ task' = task
           /\ \/ Proof!TheyHave(holds)
              \/ seq' = None /\ linked' = linked
  <2>1. 1 \in 1..Len(Proof!Script[plan.kind])
    BY <1>3 DEF IsPlan, Kinds, Proof!Script
  <2>2. TaskTypes'
    BY <1>1, <1>3, <1>4, <2>1 DEF TaskTypes, Reading, Sending, IsPlan, Kinds, Proof!Script
  <2>3. SequenceIs' /\ linked \subseteq linked'
    BY <1>4, TheirsIs DEF SequenceIs
  <2>4. seq' # None => /\ Together(seq'.cue[1], plan'.preset, linked')
                       /\ Together(seq'.cue[2], plan'.preset, linked')
    BY <1>4, TheirsIs
  <2>5. SequenceLinks' /\ ExportLinks' /\ Found'
    BY <1>4, <2>4 DEF SequenceLinks, ExportLinks, Found, Reading
  <2> QED BY <1>2, <2>2, <2>3, <2>5 DEF EvidenceInv
<1>5. CASE Proof!Leave("failed") /\ UNCHANGED <<seq, linked>>
  <2>1. pc' = "idle"
    BY <1>5 DEF Proof!Leave
  <2>2. TaskTypes'
    BY <1>1, <1>3, <2>1 DEF TaskTypes, Reading, Sending, IsPlan
  <2> QED BY <1>2, <1>5, <2>1, <2>2, SequenceRests, NoLinks DEF EvidenceInv
<1> QED BY <1>1, <1>4, <1>5 DEF Proof!Revalidate

-----------------------------------------------------------------------------
(* One command of an execution.                                             *)

LEMMA CommandTypes ==
    ASSUME EvidenceInv, Proof!EvidenceAssumption, pc = "send", NEW command,
           command \in {"call", "preset"} => plan.preset \in Presets, Proof!Does(command)
    PROVE  ShowTypes'
<1>1. CASE command = "clear" /\ prog' = Proof!Nothing /\ active' = {} /\ selected' = {}
              /\ UNCHANGED <<members, label, holds, taken, seq, linked>>
  BY <1>1 DEF EvidenceInv, ShowTypes, Proof!Nothing, Proof!Values
<1>2. CASE command = "select" /\ selected' = members
              /\ UNCHANGED <<members, label, holds, prog, active, taken, seq, linked>>
  BY <1>2 DEF EvidenceInv, ShowTypes
<1>3. ASSUME NEW fs \in SUBSET Fixtures, NEW value \in Proof!Values, Proof!Set(fs, value)
      PROVE  ShowTypes'
  BY <1>3 DEF EvidenceInv, ShowTypes, Proof!Set
<1>4. CASE command = "probe" /\ Proof!Set(selected, Proof!ByProbe)
  BY <1>3, <1>4 DEF EvidenceInv, ShowTypes, Proof!Values
<1>5. CASE command = "call" /\ Proof!Set(selected \cap holds[plan.preset], Proof!Link(plan.preset))
  <2>1. Proof!Link(plan.preset) \in Proof!Values
    BY <1>5 DEF Proof!Values
  <2> QED BY <1>3, <1>5, <2>1 DEF EvidenceInv, ShowTypes
<1>6. ASSUME NEW c, Proof!StoreCue(c) PROVE ShowTypes'
  BY <1>6 DEF EvidenceInv, ShowTypes, Proof!StoreCue
<1>7. CASE /\ command = "preset"
           /\ label' = [label EXCEPT ![plan.preset] = "ours"]
           /\ holds' = [holds EXCEPT ![plan.preset] = active]
           /\ UNCHANGED <<members, prog, active, selected, taken, seq, linked>>
  BY <1>7 DEF EvidenceInv, ShowTypes, Proof!Labels
<1>8. CASE command = "name" /\ UNCHANGED <<members, label, holds, prog, active, selected>>
  BY <1>8, ShowRests DEF EvidenceInv
<1> QED BY <1>1, <1>2, <1>4, <1>5, <1>6, <1>7, <1>8 DEF Proof!Does

LEMMA StoreCueIs ==
    ASSUME SequenceIs, NEW c \in {1, 2}, Proof!StoreCue(c)
    PROVE  /\ SequenceIs' /\ linked \subseteq linked'
           /\ Together(seq'.cue[c], plan.preset, linked')
           /\ \A d \in {1, 2} \ {c} : seq'.cue[d] = IF seq = None THEN None ELSE seq.cue[d]
<1>1. PICK old : /\ old = IF seq = None THEN [name |-> None, cue |-> <<None, None>>] ELSE seq
                 /\ seq' = [old EXCEPT !.cue[c] = Proof!Stored(old.cue[c])]
                 /\ linked' = linked \cup Proof!Links(Proof!Stored(old.cue[c]))
  BY DEF Proof!StoreCue
<1>2. /\ old = [name |-> old.name, cue |-> <<old.cue[1], old.cue[2]>>]
      /\ \A d \in {1, 2} : old.cue[d] = IF seq = None THEN None ELSE seq.cue[d]
  BY <1>1 DEF SequenceIs
<1>3. /\ seq' = [name |-> seq'.name, cue |-> <<seq'.cue[1], seq'.cue[2]>>]
      /\ seq'.cue[c] = Proof!Stored(old.cue[c])
      /\ \A d \in {1, 2} \ {c} : seq'.cue[d] = old.cue[d]
  <2>1. CASE c = 1
    <3>1. seq' = [name |-> old.name, cue |-> <<Proof!Stored(old.cue[1]), old.cue[2]>>]
      BY <1>1, <1>2, <2>1
    <3> QED BY <2>1, <3>1
  <2>2. CASE c = 2
    <3>1. seq' = [name |-> old.name, cue |-> <<old.cue[1], Proof!Stored(old.cue[2])>>]
      BY <1>1, <1>2, <2>2
    <3> QED BY <2>2, <3>1
  <2> QED BY <2>1, <2>2
<1>4. plan.preset \in Presets => <<plan.preset, Proof!Linked(seq'.cue[c], plan.preset)>> \in linked'
  BY <1>1, <1>3 DEF Proof!Links
<1>5. Together(seq'.cue[c], plan.preset, linked')
  BY <1>4 DEF Together
<1> QED BY <1>1, <1>2, <1>3, <1>5 DEF SequenceIs

\* What a command does to what the invariant says of the sequence.
LEMMA CommandLinks ==
    ASSUME EvidenceInv, pc = "send", NEW command, Proof!Exists, command = Proof!Command,
           Proof!Does(command)
    PROVE  /\ SequenceIs' /\ linked \subseteq linked'
           /\ seq' # None => /\ Together(seq'.cue[1], plan.preset, linked')
                             /\ Together(seq'.cue[2], plan.preset, linked')
<1>1. seq # None => /\ Together(seq.cue[1], plan.preset, linked)
                    /\ Together(seq.cue[2], plan.preset, linked)
  BY DEF EvidenceInv, SequenceLinks
<1>2. ASSUME NEW c \in {1, 2}, Proof!StoreCue(c)
      PROVE  /\ SequenceIs' /\ linked \subseteq linked'
             /\ \A d \in {1, 2} : Together(seq'.cue[d], plan.preset, linked')
  <2>1. /\ SequenceIs' /\ linked \subseteq linked'
        /\ Together(seq'.cue[c], plan.preset, linked')
        /\ \A d \in {1, 2} \ {c} : seq'.cue[d] = IF seq = None THEN None ELSE seq.cue[d]
    BY <1>2, StoreCueIs DEF EvidenceInv
  <2>2. \A d \in {1, 2} \ {c} : Together(seq'.cue[d], plan.preset, linked')
    BY <1>1, <2>1 DEF Together
  <2> QED BY <2>1, <2>2
<1>3. CASE /\ command = "name" /\ seq' = [seq EXCEPT !.name = "ours"]
           /\ linked' = linked
  <2>1. seq # None
    BY <1>3 DEF Proof!Exists
  <2>2. seq = [name |-> seq.name, cue |-> <<seq.cue[1], seq.cue[2]>>]
    BY <2>1 DEF EvidenceInv, SequenceIs
  <2>3. seq' = [name |-> "ours", cue |-> <<seq.cue[1], seq.cue[2]>>]
    BY <1>3, <2>2
  <2>4. seq'.cue[1] = seq.cue[1] /\ seq'.cue[2] = seq.cue[2]
    BY <2>3
  <2>5. SequenceIs'
    BY <2>3 DEF SequenceIs
  <2>6. Together(seq'.cue[1], plan.preset, linked') /\ Together(seq'.cue[2], plan.preset, linked')
    BY <1>1, <1>3, <2>1, <2>4
  <2> QED BY <1>3, <2>5, <2>6
<1>4. CASE UNCHANGED <<seq, linked>>
  BY <1>1, <1>4, SequenceRests DEF EvidenceInv
<1> QED BY <1>2, <1>3, <1>4 DEF Proof!Does, Proof!Set

LEMMA CommandTaken ==
    ASSUME EvidenceInv, pc = "send", NEW command, Proof!Does(command) PROVE taken' \subseteq Slots
<1>1. taken \subseteq Slots /\ plan.slot \in Slots
  BY DEF EvidenceInv, StoreTypes, TaskTypes, Sending, IsPlan
<1> QED BY <1>1 DEF Proof!Does, Proof!Set, Proof!StoreCue

LEMMA CommandIs ==
    ASSUME EvidenceInv, Proof!EvidenceAssumption, pc = "send", Proof!Command # "check",
           Proof!Exists, Proof!Does(Proof!Command)
    PROVE  ShowTypes' /\ (store' = store => StoreTypes')
<1>1. /\ plan.kind \in Kinds /\ at \in 1..Len(Proof!Script[plan.kind])
      /\ plan.kind # "raw" => plan.preset \in Presets
  BY DEF EvidenceInv, TaskTypes, Sending, IsPlan
<1>2. Proof!Command \in {"call", "preset"} => plan.preset \in Presets
  BY <1>1, ScriptIs DEF Proof!Command
<1>3. ShowTypes'
  BY <1>2, CommandTypes
<1> QED BY <1>3, CommandTaken DEF EvidenceInv, StoreTypes

\* After a command: the next one, or the metadata.
LEMMA SentIs ==
    ASSUME EvidenceInv, Proof!EvidenceAssumption, pc = "send", Proof!Sent,
           UNCHANGED <<task, phase, plan>>,
           seq' # None =>
             /\ Together(seq'.cue[1], plan.preset, linked')
             /\ Together(seq'.cue[2], plan.preset, linked')
    PROVE  TaskTypes' /\ SequenceLinks' /\ ExportLinks' /\ Found'
<1>1. /\ plan.kind \in Kinds /\ phase = "execute"
      /\ task = plan.kind /\ IsPlan(plan)
      /\ at \in 1..Len(Proof!Script[plan.kind])
  BY DEF EvidenceInv, TaskTypes, Sending, IsPlan
<1>2. Len(Proof!Script[plan.kind]) \in Nat
  BY <1>1, ScriptIs
<1>3. CASE pc' = "send" /\ at' = at + 1 /\ at < Len(Proof!Script[plan.kind])
  <2>1. at' \in 1..Len(Proof!Script[plan.kind])
    BY <1>1, <1>2, <1>3
  <2>2. TaskTypes'
    BY <1>1, <1>3, <2>1 DEF TaskTypes, Reading, Sending, IsPlan, Kinds, Proof!Script
  <2> QED BY <1>3, <2>2 DEF SequenceLinks, ExportLinks, Found, Reading
<1>4. CASE pc' = "meta"
  <2>1. TaskTypes'
    BY <1>1, <1>4 DEF TaskTypes, Reading, Sending, IsPlan
  <2> QED BY <1>4, <2>1 DEF SequenceLinks, ExportLinks, Found, Reading
<1> QED BY <1>3, <1>4 DEF Proof!Sent

LEMMA StepSend == ASSUME EvidenceInv, Proof!EvidenceAssumption, Proof!Send PROVE EvidenceInv'
<1>1. /\ pc = "send" /\ Proof!Command # "check" /\ Proof!Exists
      /\ Proof!Does(Proof!Command) /\ Proof!Sent
      /\ UNCHANGED <<Proof!reading, task, phase, plan, export, Proof!files>>
  BY DEF Proof!Send
<1>2. ShowTypes' /\ StoreTypes'
  BY <1>1, CommandIs DEF Proof!reading
<1>3. /\ SequenceIs' /\ linked \subseteq linked'
      /\ seq' # None =>
             /\ Together(seq'.cue[1], plan.preset, linked')
             /\ Together(seq'.cue[2], plan.preset, linked')
  BY <1>1, CommandLinks
<1>4. TaskTypes' /\ SequenceLinks' /\ ExportLinks' /\ Found'
  BY <1>1, <1>3, SentIs
<1>5. RowsLinked'
  BY <1>1, <1>3, RowsRest DEF EvidenceInv, Proof!files
<1> QED BY <1>2, <1>3, <1>4, <1>5 DEF EvidenceInv

\* The sequence as it was, at the next command.
LEMMA LinksBefore ==
    ASSUME EvidenceInv, pc = "send", UNCHANGED <<seq, linked>>
    PROVE  seq' # None =>
             /\ Together(seq'.cue[1], plan.preset, linked')
             /\ Together(seq'.cue[2], plan.preset, linked')
  BY DEF EvidenceInv, SequenceLinks

LEMMA StepIgnore ==
    ASSUME EvidenceInv, Proof!EvidenceAssumption, Proof!Ignore PROVE EvidenceInv'
<1>1. /\ pc = "send" /\ Proof!Sent
      /\ UNCHANGED <<Proof!console, Proof!reading, task, phase, plan, export, Proof!files, linked>>
  BY DEF Proof!Ignore
<1>2. TaskTypes' /\ SequenceLinks' /\ ExportLinks' /\ Found'
  BY <1>1, SentIs, LinksBefore DEF Proof!console
<1>3. ShowTypes' /\ StoreTypes' /\ SequenceIs' /\ RowsLinked'
  BY <1>1, ShowRests, StoreRests, SequenceRests, RowsRest
  DEF EvidenceInv, Proof!console, Proof!reading, Proof!files
<1> QED BY <1>2, <1>3 DEF EvidenceInv

LEMMA StepRefuse ==
    ASSUME EvidenceInv, Proof!EvidenceAssumption, Proof!Refuse PROVE EvidenceInv'
<1>1. /\ pc = "send" /\ Proof!Command # "check" /\ Proof!Fails
      /\ UNCHANGED <<Proof!reading, Proof!files>>
  BY DEF Proof!Refuse
<1>2. CASE Proof!Exists /\ Proof!Does(Proof!Command)
  <2>1. ShowTypes' /\ StoreTypes' /\ SequenceIs' /\ linked \subseteq linked'
    BY <1>1, <1>2, CommandIs, CommandLinks DEF Proof!reading
  <2> QED BY <1>1, <2>1, FailingStep DEF Proof!files
<1>3. CASE UNCHANGED <<Proof!console, linked>>
  <2>1. ShowTypes' /\ StoreTypes' /\ SequenceIs'
    BY <1>1, <1>3, ShowRests, StoreRests, SequenceRests
    DEF EvidenceInv, Proof!console, Proof!reading
  <2> QED BY <1>1, <1>3, <2>1, FailingStep DEF Proof!files
<1> QED BY <1>2, <1>3 DEF Proof!Refuse

\* A step of an execution that leaves the show, the reading and the files alone.
LEMMA Watching ==
    ASSUME EvidenceInv, UNCHANGED <<Proof!console, Proof!reading, Proof!files, linked>>
    PROVE  ShowTypes' /\ StoreTypes' /\ SequenceIs' /\ RowsLinked'
  BY ShowRests, StoreRests, SequenceRests, RowsRest
  DEF EvidenceInv, Proof!console, Proof!reading, Proof!files

LEMMA Failing ==
    ASSUME EvidenceInv, pc \in Reading \cup {"send", "meta", "export"}, Proof!Fails,
           UNCHANGED <<Proof!console, Proof!reading, Proof!files, linked>>
    PROVE  EvidenceInv'
  BY Watching, FailingStep DEF Proof!files

LEMMA StepCheck ==
    ASSUME EvidenceInv, Proof!EvidenceAssumption, Proof!Check PROVE EvidenceInv'
<1>1. /\ pc = "send"
      /\ UNCHANGED <<Proof!console, Proof!reading, Proof!files, linked>>
  BY DEF Proof!Check
<1>2. CASE Proof!Sent /\ UNCHANGED <<task, phase, plan>>
  <2>1. TaskTypes' /\ SequenceLinks' /\ ExportLinks' /\ Found'
    BY <1>1, <1>2, SentIs, LinksBefore DEF Proof!console
  <2> QED BY <1>1, <2>1, Watching DEF EvidenceInv
<1>3. CASE Proof!Fails
  BY <1>1, <1>3, Failing
<1> QED BY <1>2, <1>3 DEF Proof!Check

LEMMA StepMetadata == ASSUME EvidenceInv, Proof!Metadata PROVE EvidenceInv'
<1>1. /\ pc = "meta"
      /\ UNCHANGED <<Proof!console, Proof!reading, Proof!files, linked>>
  BY DEF Proof!Metadata
<1>2. CASE pc' = "export" /\ UNCHANGED <<task, phase, plan, at, export>>
  <2>1. TaskTypes'
    BY <1>1, <1>2 DEF EvidenceInv, TaskTypes, Reading, Sending
  <2>2. SequenceLinks' /\ ExportLinks' /\ Found'
    BY <1>1, <1>2 DEF EvidenceInv, SequenceLinks, ExportLinks, Found, Reading, Proof!console
  <2> QED BY <1>1, <2>1, <2>2, Watching DEF EvidenceInv
<1>3. CASE Proof!Fails
  BY <1>1, <1>3, Failing
<1> QED BY <1>2, <1>3 DEF Proof!Metadata

LEMMA StepExport == ASSUME EvidenceInv, Proof!Export PROVE EvidenceInv'
<1>1. /\ pc = "export"
      /\ UNCHANGED <<Proof!console, Proof!reading, Proof!files, linked>>
  BY DEF Proof!Export
<1>2. CASE /\ seq # None /\ export' = seq.cue /\ pc' = "lists"
           /\ UNCHANGED <<task, phase, plan, at>>
  <2>1. TaskTypes'
    BY <1>1, <1>2 DEF EvidenceInv, TaskTypes, Reading, Sending, IsPlan, Kinds
  <2>2. SequenceLinks' /\ ExportLinks' /\ Found'
    BY <1>1, <1>2 DEF EvidenceInv, SequenceLinks, ExportLinks, Found
  <2> QED BY <1>1, <2>1, <2>2, Watching DEF EvidenceInv
<1>3. CASE Proof!Fails
  BY <1>1, <1>3, Failing
<1> QED BY <1>2, <1>3 DEF Proof!Export

LEMMA StepJudge ==
    ASSUME EvidenceInv, Proof!EvidenceAssumption, Proof!Judge PROVE EvidenceInv'
<1>1. /\ pc = "judge" /\ phase = "execute"
      /\ UNCHANGED <<Proof!console, Proof!reading, Proof!files, linked>>
  BY DEF Proof!Judge
<1>2. CASE Proof!Verified /\ pc' = "record" /\ UNCHANGED <<task, phase, plan, at, export>>
  <2>1. TaskTypes'
    BY <1>1, <1>2 DEF EvidenceInv, TaskTypes, Reading, Sending
  <2>2. /\ plan.kind \in Kinds
        /\ Together(export[1], plan.preset, linked) /\ Together(export[2], plan.preset, linked)
    BY <1>1 DEF EvidenceInv, ExportLinks, TaskTypes, Reading, IsPlan
  <2>3. /\ store.members # {}
        /\ plan.kind = "application" => Proof!Applied(export[1], plan.preset)
        /\ plan.kind = "calibration" => Proof!Applied(export[2], plan.preset)
    BY <1>2 DEF Proof!Verified, Proof!Usable
  <2>4. plan.kind # "raw" => <<plan.preset, store.members>> \in linked
    BY <1>1, <2>2, <2>3 DEF Proof!Applied, Together, Kinds, EvidenceInv, TaskTypes, Reading, IsPlan
  <2>5. Found'
    BY <1>1, <1>2, <2>3, <2>4 DEF Found, Proof!reading
  <2>6. SequenceLinks' /\ ExportLinks'
    BY <1>2 DEF SequenceLinks, ExportLinks, Reading
  <2> QED BY <1>1, <2>1, <2>5, <2>6, Watching DEF EvidenceInv
<1>3. CASE Proof!Fails
  <2>1. pc \in Reading
    BY <1>1 DEF Reading
  <2> QED BY <1>1, <1>3, <2>1, Failing
<1> QED BY <1>2, <1>3 DEF Proof!Judge

LEMMA StepRecord == ASSUME EvidenceInv, Proof!Record PROVE EvidenceInv'
<1>1. /\ pc = "record" /\ pc' = "clear" /\ targets' = targets
      /\ UNCHANGED <<Proof!console, Proof!reading, task, phase, plan, linked>>
  BY DEF Proof!Record
<1>2. TaskTypes'
  BY <1>1 DEF EvidenceInv, TaskTypes, Reading, Sending
<1>3. ShowTypes' /\ StoreTypes' /\ SequenceIs'
  BY <1>1, ShowRests, StoreRests, SequenceRests
  DEF EvidenceInv, Proof!console, Proof!reading
<1>4. CASE applications' = applications
  BY <1>1, <1>2, <1>3, <1>4, RowsRest, NoLinks DEF EvidenceInv
<1>5. CASE plan.kind # "raw" /\ applications' = Proof!Recorded(plan.preset)
  <2>1. /\ plan.preset \in Presets /\ store.members # {}
        /\ <<plan.preset, store.members>> \in linked
    BY <1>1, <1>5 DEF EvidenceInv, Found, TaskTypes, Sending, IsPlan
  <2>2. /\ Proof!Row(plan.preset).preset = plan.preset
        /\ Proof!Row(plan.preset).id.members = store.members
    BY DEF Proof!Row, Proof!Identity
  <2>3. \A r \in applications' : r \in applications \/ r = Proof!Row(plan.preset)
    BY <1>5 DEF Proof!Recorded
  <2>4. RowsLinked'
    BY <1>1, <2>1, <2>2, <2>3 DEF EvidenceInv, RowsLinked
  <2> QED BY <1>1, <1>2, <1>3, <2>4, NoLinks DEF EvidenceInv
<1> QED BY <1>4, <1>5 DEF Proof!Record

LEMMA StepClear == ASSUME EvidenceInv, Proof!Clear PROVE EvidenceInv'
<1>1. /\ pc' = "idle" /\ plan' = None /\ seq' = None
      /\ UNCHANGED <<members, label, holds, taken, Proof!reading, Proof!files, linked>>
      /\ \/ prog' = Proof!Nothing /\ active' = {} /\ selected' = {}
         \/ UNCHANGED <<prog, active, selected>>
  BY DEF Proof!Clear
<1>2. TaskTypes' /\ SequenceIs'
  BY <1>1 DEF TaskTypes, SequenceIs, Reading, Sending
<1>3. ShowTypes'
  BY <1>1 DEF EvidenceInv, ShowTypes, Proof!Nothing, Proof!Values
<1>4. StoreTypes' /\ RowsLinked'
  BY <1>1, StoreRests, RowsRest DEF EvidenceInv, Proof!reading, Proof!files
<1> QED BY <1>1, <1>2, <1>3, <1>4, NoLinks DEF EvidenceInv

LEMMA StepCrash == ASSUME EvidenceInv, Proof!Crash PROVE EvidenceInv'
<1>1. /\ pc' = "idle" /\ plan' = None /\ seq' = None /\ store' = Proof!Blank
      /\ applications' \subseteq applications /\ targets' \subseteq targets
      /\ UNCHANGED <<members, label, holds, prog, active, selected, taken, linked>>
  BY DEF Proof!Crash
<1>2. TaskTypes' /\ SequenceIs'
  BY <1>1 DEF TaskTypes, SequenceIs, Reading, Sending
<1>3. ShowTypes' /\ RowsLinked'
  BY <1>1, ShowRests, RowsRest DEF EvidenceInv
<1>4. StoreTypes'
  BY <1>1 DEF EvidenceInv, StoreTypes, Proof!Blank
<1> QED BY <1>1, <1>2, <1>3, <1>4, NoLinks DEF EvidenceInv

\* The operator: the sequence an execution writes may become another.
LEMMA StepEdit ==
    ASSUME EvidenceInv, UNCHANGED <<Proof!reading, Proof!control, Proof!files>>,
           ShowTypes', taken' \subseteq Slots,
           \/ seq' \in {seq, None} /\ linked' = linked
           \/ \E ns : Proof!TheyHave(ns)
    PROVE  EvidenceInv'
<1>1. TaskTypes'
  BY DEF EvidenceInv, TaskTypes, Proof!control, IsPlan, Proof!Script
<1>2. StoreTypes'
  BY DEF EvidenceInv, StoreTypes, Proof!reading
<1>3. ASSUME seq' \in {seq, None}, linked' = linked
      PROVE  SequenceIs' /\ SequenceLinks' /\ linked \subseteq linked'
  <2>1. CASE seq' = seq
    BY <1>3, <2>1 DEF EvidenceInv, SequenceIs, SequenceLinks, Proof!control
  <2>2. CASE seq' = None
    BY <1>3, <2>2 DEF SequenceIs, SequenceLinks
  <2> QED BY <1>3, <2>1, <2>2
<1>4. ASSUME NEW ns, Proof!TheyHave(ns)
      PROVE  SequenceIs' /\ SequenceLinks' /\ linked \subseteq linked'
  <2>1. seq' = [name |-> seq'.name, cue |-> <<seq'.cue[1], seq'.cue[2]>>]
    BY <1>4, TheirsIs
  <2>2. /\ Together(seq'.cue[1], plan'.preset, linked')
        /\ Together(seq'.cue[2], plan'.preset, linked')
        /\ linked \subseteq linked'
    BY <1>4, TheirsIs
  <2> QED BY <2>1, <2>2 DEF SequenceIs, SequenceLinks
<1>5. SequenceIs' /\ SequenceLinks' /\ linked \subseteq linked'
  BY <1>3, <1>4
<1>6. RowsLinked' /\ ExportLinks' /\ Found'
  BY <1>5, RowsRest
  DEF EvidenceInv, ExportLinks, Together, Found, Proof!control, Proof!reading, Proof!files
<1> QED BY <1>1, <1>2, <1>5, <1>6 DEF EvidenceInv

LEMMA StepEdits ==
    ASSUME EvidenceInv, Proof!EvidenceAssumption, Proof!Edits PROVE EvidenceInv'
<1>1. /\ UNCHANGED <<Proof!reading, Proof!control, Proof!files>>
      /\ \/ Proof!Regroup \/ Proof!Touch
         \/ \E n \in Presets : Proof!Restore(n)
         \/ \E s \in Slots : Proof!TakeSlot(s)
         \/ \E show \in Shows : Proof!LoadShow(show)
  BY DEF Proof!Edits, Proof!Edit
<1>2. taken \subseteq Slots
  BY DEF EvidenceInv, StoreTypes
<1>3. CASE Proof!Regroup
  <2>1. ShowTypes' /\ taken' \subseteq Slots /\ UNCHANGED <<seq, linked>>
    BY <1>2, <1>3 DEF EvidenceInv, ShowTypes, Proof!Regroup
  <2> QED BY <1>1, <2>1, StepEdit
<1>4. CASE Proof!Touch
  <2>1. ShowTypes' /\ taken' \subseteq Slots /\ UNCHANGED <<seq, linked>>
    BY <1>2, <1>4 DEF EvidenceInv, ShowTypes, Proof!Touch, Proof!Values
  <2> QED BY <1>1, <2>1, StepEdit
<1>5. ASSUME NEW n \in Presets, Proof!Restore(n) PROVE EvidenceInv'
  <2>1. ShowTypes' /\ taken' \subseteq Slots /\ UNCHANGED <<seq, linked>>
    BY <1>2, <1>5 DEF EvidenceInv, ShowTypes, Proof!Restore
  <2> QED BY <1>1, <2>1, StepEdit
<1>6. ASSUME NEW s \in Slots, Proof!TakeSlot(s) PROVE EvidenceInv'
  <2>1. ShowTypes'
    BY <1>6, ShowRests DEF EvidenceInv, Proof!TakeSlot
  <2>2. taken' \subseteq Slots /\ (UNCHANGED <<seq, linked>> \/ Proof!TheyHave(holds))
    BY <1>2, <1>6 DEF Proof!TakeSlot
  <2> QED BY <1>1, <2>1, <2>2, StepEdit
<1>7. ASSUME NEW show \in Shows, Proof!LoadShow(show) PROVE EvidenceInv'
  <2>1. show \in [members : (SUBSET Fixtures) \ {{}}, label : [Presets -> Proof!Labels],
                  holds : [Presets -> SUBSET Fixtures], taken : SUBSET Slots]
    BY DEF Proof!EvidenceAssumption
  <2>2. ShowTypes' /\ taken' \subseteq Slots
    BY <1>7, <2>1 DEF Proof!LoadShow, ShowTypes, Proof!Nothing, Proof!Values
  <2>3. (seq' = None /\ linked' = linked) \/ Proof!TheyHave(show.holds)
    BY <1>7 DEF Proof!LoadShow
  <2> QED BY <1>1, <2>2, <2>3, StepEdit
<1> QED BY <1>1, <1>3, <1>4, <1>5, <1>6, <1>7

LEMMA EvidenceStep ==
    ASSUME EvidenceInv, Proof!EvidenceAssumption, Proof!Next PROVE EvidenceInv'
<1>1. CASE Proof!Acts
  BY <1>1, StepRegister, StepRevalidate, StepSend, StepIgnore, StepRefuse, StepCheck,
     StepMetadata, StepExport, StepJudge, StepRecord, StepClear DEF Proof!Acts
<1>2. CASE Proof!Rest
  <2>1. UNCHANGED <<Proof!reading, Proof!control, Proof!files, linked>>
    BY <1>2 DEF Proof!Rest, Proof!vars, Proof!history
  <2>2. ShowTypes' /\ taken' \subseteq Slots /\ seq' = seq
    BY <1>2, ShowRests DEF EvidenceInv, StoreTypes, Proof!Rest, Proof!vars, Proof!console
  <2> QED BY <2>1, <2>2, StepEdit
<1> QED BY <1>1, <1>2, StepAsks, StepReads, StepUses, StepCrash, StepEdits DEF Proof!Next

LEMMA EvidenceInit == ASSUME Proof!Init PROVE EvidenceInv
<1>1. TaskTypes
  BY DEF Proof!Init, TaskTypes, Reading, Sending
<1>2. ShowTypes
  <2>1. label \in [Presets -> Proof!Labels]
    BY DEF Proof!Init, Proof!Labels
  <2>2. holds \in [Presets -> SUBSET Fixtures]
    BY DEF Proof!Init
  <2> QED BY <2>1, <2>2 DEF Proof!Init, ShowTypes, Proof!Nothing, Proof!Values
<1>3. StoreTypes
  BY DEF Proof!Init, StoreTypes, Proof!Blank
<1>4. SequenceIs /\ SequenceLinks /\ ExportLinks /\ Found /\ RowsLinked
  BY DEF Proof!Init, SequenceIs, SequenceLinks, ExportLinks, Found, RowsLinked, Reading
<1> QED BY <1>1, <1>2, <1>3, <1>4 DEF EvidenceInv

\* What the probes have written is what they saw, wherever a task is (Evidence).
THEOREM EvidenceInvariantHolds == AllSpec => []EvidenceInvariant
<1>1. AllInit => EvidenceInvariant
  BY EvidenceInit DEF AllInit, EvidenceInvariant
<1>2. EvidenceInvariant /\ [AllNext]_<<part, vars, OwnEvidence>> => EvidenceInvariant'
  <2> SUFFICES ASSUME EvidenceInvariant, [AllNext]_<<part, vars, OwnEvidence>>, part' = "evidence"
               PROVE  EvidenceInv'
    BY DEF EvidenceInvariant
  <2>1. CASE part = "evidence" /\ Proof!Next
    BY <2>1, EvidenceStep, ConstantsFit DEF EvidenceInvariant
  <2>2. CASE part' = part /\ UNCHANGED OwnEvidence
    <3>1. EvidenceInv
      BY <2>2 DEF EvidenceInvariant
    <3>2. UNCHANGED <<Proof!reading, Proof!control, Proof!files, linked>>
      BY <2>2 DEF OwnEvidence, Proof!reading, Proof!control, Proof!files
    <3>3. ShowTypes' /\ taken' \subseteq Slots /\ seq' = seq
      BY <2>2, <3>1, ShowRests DEF EvidenceInv, StoreTypes, OwnEvidence
    <3> QED BY <3>1, <3>2, <3>3, StepEdit
  <2> QED BY <2>1, <2>2 DEF AllNext
<1> QED BY <1>1, <1>2, PTL DEF AllSpec

\* A binding in a catalog names a preset and a membership such that one cue,
\* when it was stored, was linked to this preset on exactly these fixtures, for
\* any fixtures, presets, other shows, tasks and mishaps (Evidence,
\* record_after_readback).
THEOREM BindingsAreTrue == AllSpec => []EvidenceIsTrue
<1>1. EvidenceInvariant => EvidenceIsTrue
  BY DEF EvidenceInvariant, EvidenceInv, EvidenceIsTrue, ShowTypes, StoreTypes, RowsLinked,
         Proof!TypeOK, Proof!EvidenceIsTrue
<1> QED BY <1>1, EvidenceInvariantHolds, PTL

-----------------------------------------------------------------------------
(* Designs: what one is offered was so while it read.                       *)

LEMMA OfferedStays ==
    ASSUME Proof!OfferedIsCurrent, pc = "idle", pc' = "idle",
           UNCHANGED <<result, offered, during, kept>>
    PROVE  Proof!OfferedIsCurrent'
  BY DEF Proof!OfferedIsCurrent

\* Nothing is claimed of a design that has not just been done.
LEMMA NothingOffered ==
    ASSUME pc' # "idle" \/ result' = None \/ result'.task # "design" \/ result'.how # "done"
    PROVE  Proof!OfferedIsCurrent'
  BY DEF Proof!OfferedIsCurrent

\* An execution is not a design.
LEMMA ExecutionIsNoDesign ==
    ASSUME EvidenceInv, pc \in Sending \/ (pc \in Reading /\ phase = "execute")
    PROVE  task # "design"
  BY DEF EvidenceInv, TaskTypes, Sending, Reading, IsPlan, Kinds

LEMMA FailOffers ==
    ASSUME EvidenceInv, pc \in Reading \cup {"send", "meta", "export"}, Proof!Fails
    PROVE  OfferInv'
<1>1. CASE /\ phase = "execute" /\ pc' = "clear" /\ result' = Proof!Outcome("failed")
  <2>1. task # "design" /\ result'.task = task
    BY <1>1, ExecutionIsNoDesign DEF Proof!Outcome, EvidenceInv, TaskTypes, Sending, Reading
  <2> QED BY <1>1, <2>1, NothingOffered DEF OfferInv, DesignReads, NoDesign, Reading
<1>2. CASE phase # "execute" /\ Proof!Leave("failed")
  <2>1. pc' = "idle" /\ (result' = None \/ result'.how # "done")
    BY <1>2 DEF Proof!Leave, Proof!Outcome
  <2> QED BY <2>1, NothingOffered DEF OfferInv, DesignReads, NoDesign, Reading
<1> QED BY <1>1, <1>2 DEF Proof!Fails

\* A step of something else than a design, that does not end it.
LEMMA OtherOffers ==
    ASSUME pc' \notin {"idle", "clear"}, pc' \in Reading => task' # "design"
    PROVE  OfferInv'
  BY NothingOffered DEF OfferInv, DesignReads, NoDesign

LEMMA AskOffers ==
    ASSUME EvidenceInv, OfferInv, Proof!Asks PROVE OfferInv'
<1>1. ASSUME NEW what, NEW ph, NEW p, NEW n, Proof!Begin(what, ph, p, n) PROVE OfferInv'
  <2>1. pc' = "lists" /\ task' = what /\ UNCHANGED <<members, label>>
        /\ during' = IF what = "design" THEN {Proof!Now} ELSE {}
    BY <1>1 DEF Proof!Begin, Proof!console
  <2>2. DesignReads'
    BY <2>1 DEF DesignReads, Proof!Now
  <2> QED BY <2>1, <2>2, NothingOffered DEF OfferInv, NoDesign
<1>2. CASE Proof!Reject
  <2>1. pc = "idle" /\ pc' = "idle" /\ UNCHANGED <<result, offered, during, kept>>
    BY <1>2 DEF Proof!Reject, Proof!history, Proof!design
  <2> QED BY <2>1, OfferedStays DEF OfferInv, DesignReads, NoDesign, Reading
<1> QED BY <1>1, <1>2 DEF Proof!Asks, Proof!Propose, Proof!Approve, Proof!Design, Proof!Bind

LEMMA ReadOffers == ASSUME EvidenceInv, OfferInv, Proof!Reads PROVE OfferInv'
<1>1. CASE Proof!ReadSequences \/ Proof!ReadPresets
  <2>1. /\ \/ pc = "lists" /\ pc' = "presets"
           \/ pc = "presets" /\ pc' = "members" /\ store'.label = label
        /\ UNCHANGED <<members, label, task, during>>
    BY <1>1 DEF EvidenceInv, StoreTypes, Proof!ReadSequences, Proof!ReadPresets, Proof!console,
                Proof!history
  <2>2. DesignReads'
    BY <2>1 DEF OfferInv, DesignReads, Reading
  <2> QED BY <2>1, <2>2, NothingOffered DEF OfferInv, NoDesign
<1>2. CASE Proof!ReadMembers
  <2>1. /\ pc = "members" /\ pc' = "direct"
        /\ store'.label = store.label /\ store'.members = members
        /\ UNCHANGED <<members, label, task, during>>
    BY <1>2 DEF EvidenceInv, StoreTypes, Proof!ReadMembers, Proof!console
  <2>2. DesignReads'
    BY <2>1 DEF OfferInv, DesignReads, MembersHeard, Reading
  <2> QED BY <2>1, <2>2, NothingOffered DEF OfferInv, NoDesign
<1>3. CASE Proof!KeepsMembers
  <2>1. /\ pc = "members" /\ pc' = "direct" /\ kept' = TRUE
        /\ UNCHANGED <<members, label, store, task, during>>
    BY <1>3 DEF Proof!KeepsMembers, Proof!console
  <2>2. DesignReads'
    BY <2>1 DEF OfferInv, DesignReads, MembersHeard, Reading
  <2> QED BY <2>1, <2>2, NothingOffered DEF OfferInv, NoDesign
<1>4. CASE Proof!ReadDirect
  <2>1. pc = "direct" /\ phase # "use"
    BY <1>4 DEF Proof!ReadDirect, Proof!Strict
  <2>2. task # "design"
    BY <2>1 DEF EvidenceInv, TaskTypes, Reading, IsPlan, Kinds
  <2>3. CASE pc' = "judge" /\ task' = task
    BY <2>2, <2>3, OtherOffers
  <2>4. CASE Proof!Fails
    BY <2>1, <2>4, FailOffers DEF Reading
  <2> QED BY <1>4, <2>3, <2>4 DEF Proof!ReadDirect
<1>5. CASE Proof!ReadFails
  BY <1>5, FailOffers DEF Proof!ReadFails, Reading
<1> QED BY <1>1, <1>2, <1>3, <1>4, <1>5 DEF Proof!Reads

LEMMA UseOffers == ASSUME EvidenceInv, OfferInv, Proof!Uses PROVE OfferInv'
<1>1. CASE Proof!OfferMap
  <2>1. /\ pc = "direct" /\ task = "design" /\ pc' = "idle"
        /\ UNCHANGED <<during, kept>>
        /\ \A o \in offered' : o.id = Proof!Identity
    BY <1>1 DEF Proof!OfferMap, Proof!Finish, Proof!Leave, Proof!Confirmed, Proof!Current
  <2>2. /\ MembersHeard(store.members)
        /\ \E d \in during : d.label = store.label
    BY <2>1 DEF OfferInv, DesignReads, Reading
  <2>3. \A o \in offered' :
          /\ kept' \/ \E d \in during' : d.members = o.id.members
          /\ \E d \in during' : d.label[o.preset] = o.id.label[o.preset]
    BY <2>1, <2>2 DEF MembersHeard, Proof!Identity
  <2>4. Proof!OfferedIsCurrent'
    BY <2>3 DEF Proof!OfferedIsCurrent
  <2> QED BY <2>1, <2>4 DEF OfferInv, DesignReads, NoDesign, Reading
<1>2. CASE Proof!RecordTarget
  <2>1. pc' = "idle" /\ (result' = None \/ result'.task = "bind")
    BY <1>2 DEF Proof!RecordTarget, Proof!Finish, Proof!Leave, Proof!Outcome
  <2>2. Proof!OfferedIsCurrent'
    BY <2>1, NothingOffered
  <2> QED BY <2>1, <2>2 DEF OfferInv, DesignReads, NoDesign, Reading
<1> QED BY <1>1, <1>2 DEF Proof!Uses

LEMMA ActOffers == ASSUME EvidenceInv, OfferInv, Proof!Acts PROVE OfferInv'
<1>1. CASE Proof!Register
  <2>1. pc' = "idle" /\ result' = None
    BY <1>1 DEF Proof!Register, Proof!Leave
  <2> QED BY <2>1, NothingOffered DEF OfferInv, DesignReads, NoDesign, Reading
<1>2. CASE Proof!Revalidate
  <2>1. pc' = "send" \/ (pc' = "idle" /\ result' = None)
    BY <1>2 DEF Proof!Revalidate, Proof!Leave
  <2> QED BY <2>1, NothingOffered DEF OfferInv, DesignReads, NoDesign, Reading
<1>3. CASE Proof!Send \/ Proof!Ignore
  <2>1. pc' \in {"send", "meta"}
    BY <1>3 DEF Proof!Send, Proof!Ignore, Proof!Sent
  <2> QED BY <2>1, OtherOffers DEF Reading
<1>4. CASE Proof!Refuse
  BY <1>4, FailOffers DEF Proof!Refuse
<1>5. CASE Proof!Check
  <2>1. pc = "send" /\ (pc' \in {"send", "meta"} \/ Proof!Fails)
    BY <1>5 DEF Proof!Check, Proof!Sent
  <2> QED BY <2>1, OtherOffers, FailOffers DEF Reading
<1>6. CASE Proof!Metadata
  <2>1. pc = "meta" /\ (pc' = "export" \/ Proof!Fails)
    BY <1>6 DEF Proof!Metadata
  <2> QED BY <2>1, OtherOffers, FailOffers DEF Reading
<1>7. CASE Proof!Export
  <2>1. pc = "export" /\ ((pc' = "lists" /\ task' = task) \/ Proof!Fails)
    BY <1>7 DEF Proof!Export
  <2>2. task # "design"
    BY <2>1, ExecutionIsNoDesign DEF Sending
  <2> QED BY <2>1, <2>2, OtherOffers, FailOffers
<1>8. CASE Proof!Judge
  <2>1. pc \in Reading /\ (pc' = "record" \/ Proof!Fails)
    BY <1>8 DEF Proof!Judge, Reading
  <2> QED BY <2>1, OtherOffers, FailOffers DEF Reading
<1>9. CASE Proof!Record
  <2>1. pc = "record" /\ pc' = "clear" /\ result'.task = task
    BY <1>9 DEF Proof!Record, Proof!Outcome
  <2>2. task # "design"
    BY <2>1, ExecutionIsNoDesign DEF Sending
  <2> QED BY <2>1, <2>2, NothingOffered DEF OfferInv, DesignReads, NoDesign, Reading
<1>10. CASE Proof!Clear
  <2>1. pc' = "idle" /\ result'.task # "design"
    BY <1>10 DEF Proof!Clear, OfferInv, NoDesign
  <2> QED BY <2>1, NothingOffered DEF OfferInv, DesignReads, NoDesign, Reading
<1> QED BY <1>1, <1>2, <1>3, <1>4, <1>5, <1>6, <1>7, <1>8, <1>9, <1>10 DEF Proof!Acts

LEMMA EditOffers == ASSUME EvidenceInv, OfferInv, Proof!Edits PROVE OfferInv'
<1>1. /\ UNCHANGED <<store, pc, task, offered, kept>>
      /\ during' = IF task = "design"
                   THEN during \cup {[members |-> members', label |-> label']} ELSE during
      /\ result' = IF pc = "idle" THEN None ELSE result
  BY DEF Proof!Edits, Proof!Edit, Proof!reading, Proof!control, Proof!design
<1>2. DesignReads'
  BY <1>1 DEF OfferInv, DesignReads, MembersHeard
<1>3. NoDesign'
  BY <1>1 DEF OfferInv, NoDesign
<1>4. Proof!OfferedIsCurrent'
  BY <1>1, NothingOffered
<1> QED BY <1>2, <1>3, <1>4 DEF OfferInv

LEMMA OfferRests ==
    ASSUME OfferInv,
           UNCHANGED <<members, label, store, pc, task, during, kept, offered, result>>
    PROVE  OfferInv'
  BY DEF OfferInv, DesignReads, NoDesign, MembersHeard, Proof!OfferedIsCurrent

LEMMA OfferStep == ASSUME EvidenceInv, OfferInv, Proof!Next PROVE OfferInv'
<1>1. CASE Proof!Crash
  <2>1. pc' = "idle" /\ result' = None
    BY <1>1 DEF Proof!Crash
  <2> QED BY <2>1, NothingOffered DEF OfferInv, DesignReads, NoDesign, Reading
<1>2. CASE Proof!Rest
  BY <1>2, OfferRests
  DEF Proof!Rest, Proof!vars, Proof!console, Proof!reading, Proof!control, Proof!design,
      Proof!history
<1> QED BY <1>1, <1>2, AskOffers, ReadOffers, UseOffers, ActOffers, EditOffers DEF Proof!Next

\* A design is offered what was so while it read the show, for any fixtures,
\* presets, tasks and mishaps (Evidence, _build_current_artistic_resource_map).
THEOREM OffersAreCurrent == AllSpec => []OfferedIsCurrent
<1>1. AllInit => OfferInvariant
  BY EvidenceInit
  DEF AllInit, OfferInvariant, OfferInv, DesignReads, NoDesign, Reading, Proof!Init,
      Proof!OfferedIsCurrent
<1>2. EvidenceInvariant /\ OfferInvariant /\ EvidenceInvariant' /\ [AllNext]_<<part, vars, OwnEvidence>>
          => OfferInvariant'
  <2> SUFFICES ASSUME OfferInvariant, EvidenceInvariant', part' = "evidence",
                      [AllNext]_<<part, vars, OwnEvidence>>
               PROVE  OfferInv'
    BY DEF OfferInvariant, EvidenceInvariant
  <2>1. CASE part = "evidence" /\ Proof!Next
    BY <2>1, OfferStep DEF OfferInvariant
  <2>2. CASE part' = part /\ UNCHANGED OwnEvidence
    BY <2>2, OfferRests DEF OfferInvariant, OwnEvidence
  <2> QED BY <2>1, <2>2 DEF AllNext
<1>3. OfferInvariant => OfferedIsCurrent
  BY DEF OfferInvariant, OfferInv, OfferedIsCurrent
<1> QED BY <1>1, <1>2, <1>3, EvidenceInvariantHolds, PTL DEF AllSpec

-----------------------------------------------------------------------------
(* A probe that nothing disturbs, command by command.                       *)

\* The sequence of a probe: whose values its cues hold, and which.
OfProbe(fs, value) == [f \in Fixtures |-> IF f \in fs THEN value ELSE None]
Called == OfProbe(members \cap holds[plan.preset], Proof!Link(plan.preset))
Cue1   == IF plan.kind = "application" THEN Called ELSE OfProbe(members, Proof!ByProbe)
Cue2   == IF plan.kind = "calibration" THEN Called ELSE None

Executing == phase = "execute" /\ pc \in Reading \cup {"send", "meta", "export"}

\* A reading that nothing disturbs is of the show as it is.
SureReading ==
    quiet =>
        /\ pc \in {"presets", "members", "direct", "judge"} => store.taken = taken
        /\ pc \in {"members", "direct", "judge"} => store.label = label
        /\ pc \in {"direct", "judge"} => store.members = members /\ fresh /\ typed

\* The plan that is carried out is one that was previewed.
PlanKept ==
    /\ store.label \in [Presets -> Proof!Labels]
    /\ pc \in Reading /\ phase = "approve" => plan # None
    /\ Executing \/ pc = "record" =>
        /\ plan.before = [members |-> plan.before.members, label |-> plan.before.label]
        /\ plan.before.label \in [Presets -> Proof!Labels]
        /\ plan.after = [plan.before EXCEPT !.label =
              IF plan.kind = "calibration" THEN [@ EXCEPT ![plan.preset] = "ours"] ELSE @]
        /\ plan.kind # "raw" => plan.after.label[plan.preset] # None
    /\ pc = "record" => Proof!Identity = plan.after

\* The show a plan is carried out on, with the preset of a calibration once it is stored.
ShowPlanned ==
    quiet /\ Executing =>
        LET stored == pc # "send" \/ at > 8
        IN /\ members = plan.before.members
           /\ label = IF stored THEN plan.after.label ELSE plan.before.label
           /\ plan.kind = "calibration" /\ stored => holds[plan.preset] = members

\* The programmer before a command.
Programmer ==
    quiet /\ pc = "send" =>
        /\ at \in {2, 3, 6, 7, 11, 12} => prog = Proof!Nothing /\ active = {}
        /\ at \in {3, 7, 12} => selected = members
        /\ at \in {4, 8} => prog = Cue1 /\ active = {f \in Fixtures : Cue1[f] # None}
        /\ at = 13 => prog = Cue2 /\ active = {f \in Fixtures : Cue2[f] # None}

\* The sequence, and what is exported of it.
Written ==
    quiet =>
        /\ pc = "send" =>
              seq = IF at <= 4 THEN None
                    ELSE [name |-> None, cue |-> <<Cue1, IF at = 14 THEN Cue2 ELSE None>>]
        /\ pc \in {"meta", "export"} => seq = [name |-> "ours", cue |-> <<Cue1, Cue2>>]
        /\ pc \in Reading /\ phase = "execute" => export = <<Cue1, Cue2>>

\* The row recorded last is in the catalog, of a preset that had a label.
LastKept ==
    last # None => last \in applications /\ last.id.label[last.preset] # None

\* An execution that nothing disturbed, once it has a result.
Concluded ==
    pc \in {"idle", "clear"} /\ result # None /\ quiet =>
        \/ result.phase # "execute" \/ result.how = "done"
        \/ result.task = "application" /\ ~(members \subseteq holds[result.preset])

QuietInv ==
    /\ SureReading /\ PlanKept /\ ShowPlanned /\ Programmer /\ Written
    /\ LastKept /\ Concluded /\ NoDesign /\ Proof!QuietVerifies
QuietInvariant == part = "evidence" => QuietInv

LEMMA CuesRest ==
    ASSUME UNCHANGED <<members, holds, plan>> PROVE Cue1' = Cue1 /\ Cue2' = Cue2
  BY DEF Cue1, Cue2, Called

\* Once something went wrong, nothing is claimed of the outcome.
LEMMA Disturbed ==
    ASSUME ~quiet'
    PROVE  /\ SureReading' /\ ShowPlanned' /\ Programmer' /\ Written'
           /\ Concluded' /\ Proof!QuietVerifies'
  BY DEF SureReading, ShowPlanned, Programmer, Written, Concluded, Proof!QuietVerifies

\* Nor, outside an execution, of the show and the sequence.
LEMMA NotExecuting ==
    ASSUME pc' \in {"idle", "clear", "record"} \/ (pc' \in Reading /\ phase' # "execute")
    PROVE  ShowPlanned' /\ Programmer' /\ Written'
  BY DEF ShowPlanned, Programmer, Written, Executing, Reading

\* Nor of a result, until there is one.
LEMMA NotConcluded ==
    ASSUME pc' \notin {"idle", "clear"} \/ result' = None
    PROVE  Concluded' /\ Proof!QuietVerifies'
  BY DEF Concluded, Proof!QuietVerifies

LEMMA LastRests ==
    ASSUME LastKept, UNCHANGED <<last, applications>> PROVE LastKept'
  BY DEF LastKept

LEMMA PlanRests ==
    ASSUME PlanKept, UNCHANGED <<store, plan>>,
           pc' \in Reading /\ phase' = "approve" => pc \in Reading /\ phase = "approve",
           (Executing \/ pc = "record")' => Executing,
           pc' # "record"
    PROVE  PlanKept'
  BY DEF PlanKept

\* A step that reads, or looks at what was sent, and touches neither.
LEMMA ShowStays ==
    ASSUME QuietInv, quiet' => quiet, UNCHANGED <<members, label, holds, plan, phase, export>>,
           pc \in Reading, pc' \in Reading
    PROVE  ShowPlanned' /\ Programmer' /\ Written'
<1>1. Cue1' = Cue1 /\ Cue2' = Cue2
  BY CuesRest
<1>2. ShowPlanned'
  BY DEF QuietInv, ShowPlanned, Executing, Reading
<1>3. Programmer' /\ Written'
  BY <1>1 DEF QuietInv, Programmer, Written, Reading
<1> QED BY <1>2, <1>3

LEMMA QuietBegin ==
    ASSUME QuietInv, NEW what, NEW ph \in {"preview", "approve", "use"}, NEW p, NEW n,
           Proof!Begin(what, ph, p, n), ph = "approve" => p # None
    PROVE  QuietInv'
<1>1. /\ pc' = "lists" /\ phase' = ph /\ plan' = p /\ result' = None
      /\ UNCHANGED <<store, last, applications>>
  BY DEF Proof!Begin, Proof!reading, Proof!files
<1>2. SureReading' /\ NoDesign'
  BY <1>1 DEF SureReading, NoDesign
<1>3. PlanKept'
  BY <1>1 DEF QuietInv, PlanKept, Executing, Reading
<1> QED BY <1>1, <1>2, <1>3, NotExecuting, NotConcluded, LastRests DEF QuietInv, Reading

LEMMA QuietAsks ==
    ASSUME EvidenceInv, QuietInv, Proof!Asks PROVE QuietInv'
<1>1. ASSUME NEW kind, NEW n, Proof!Propose(kind, n) PROVE QuietInv'
  BY <1>1, QuietBegin DEF Proof!Propose
<1>2. CASE Proof!Approve
  BY <1>2, QuietBegin DEF Proof!Approve
<1>3. CASE Proof!Reject
  <2>1. /\ pc = "idle" /\ pc' = "idle"
        /\ UNCHANGED <<members, label, holds, store, applications, offered, last, quiet, result>>
    BY <1>3 DEF Proof!Reject, Proof!history, Proof!console, Proof!reading, Proof!files,
                Proof!design
  <2>2. SureReading' /\ PlanKept' /\ NoDesign'
    BY <2>1 DEF QuietInv, SureReading, PlanKept, NoDesign, Executing, Reading
  <2>3. Concluded' /\ Proof!QuietVerifies'
    BY <2>1 DEF QuietInv, Concluded, Proof!QuietVerifies, Proof!Now
  <2> QED BY <2>1, <2>2, <2>3, NotExecuting, LastRests DEF QuietInv
<1>4. CASE Proof!Design
  BY <1>4, QuietBegin DEF Proof!Design
<1>5. ASSUME NEW n, Proof!Bind(n) PROVE QuietInv'
  BY <1>5, QuietBegin DEF Proof!Bind
<1> QED BY <1>1, <1>2, <1>3, <1>4, <1>5 DEF Proof!Asks

\* A failure of a task that something disturbed, or outside an execution.
LEMMA QuietFails ==
    ASSUME EvidenceInv, QuietInv, pc \in Reading \cup {"send", "meta", "export"}, Proof!Fails,
           ~quiet', store' = store, UNCHANGED <<last, applications>>
    PROVE  QuietInv'
<1>1. pc' \in {"idle", "clear"}
  BY FailsIs
<1>2. PlanKept'
  BY <1>1 DEF QuietInv, PlanKept, Executing, Reading
<1>3. NoDesign'
  <2>1. CASE phase = "execute" /\ result' = Proof!Outcome("failed")
    <3>1. task # "design"
      BY <2>1 DEF EvidenceInv, TaskTypes, Reading, Sending, IsPlan, Kinds
    <3> QED BY <2>1, <3>1 DEF NoDesign, Proof!Outcome
  <2>2. CASE pc' = "idle"
    BY <2>2 DEF NoDesign
  <2> QED BY <2>1, <2>2 DEF Proof!Fails, Proof!Leave
<1> QED BY <1>2, <1>3, Disturbed, LastRests DEF QuietInv

LEMMA QuietReads ==
    ASSUME EvidenceInv, QuietInv, Proof!Reads PROVE QuietInv'
<1>1. CASE Proof!ReadSequences \/ Proof!ReadPresets
  <2>1. /\ \/ /\ pc = "lists" /\ pc' = "presets"
              /\ store'.label = store.label /\ store'.taken = taken
           \/ /\ pc = "presets" /\ pc' = "members"
              /\ store'.label = label /\ store'.taken = store.taken
        /\ UNCHANGED <<members, label, holds, taken, phase, plan, export, quiet, last,
                       applications>>
    BY <1>1 DEF EvidenceInv, StoreTypes, Proof!ReadSequences, Proof!ReadPresets, Proof!console,
                Proof!history, Proof!files
  <2>2. SureReading'
    BY <2>1 DEF QuietInv, SureReading
  <2>3. PlanKept'
    BY <2>1 DEF EvidenceInv, ShowTypes, QuietInv, PlanKept, Executing, Reading
  <2> QED BY <2>1, <2>2, <2>3, ShowStays, NotConcluded, LastRests DEF QuietInv, NoDesign, Reading
<1>2. CASE Proof!ReadMembers
  <2>1. /\ pc = "members" /\ pc' = "direct" /\ fresh' = TRUE /\ quiet' = (quiet /\ typed')
        /\ store'.label = store.label /\ store'.taken = store.taken /\ store'.members = members
        /\ UNCHANGED <<members, label, holds, taken, phase, plan, export, last, applications>>
    BY <1>2 DEF EvidenceInv, StoreTypes, Proof!ReadMembers, Proof!console, Proof!files
  <2>2. SureReading'
    BY <2>1 DEF QuietInv, SureReading
  <2>3. PlanKept'
    BY <2>1 DEF QuietInv, PlanKept, Executing, Reading
  <2> QED BY <2>1, <2>2, <2>3, ShowStays, NotConcluded, LastRests DEF QuietInv, NoDesign, Reading
<1>3. CASE Proof!KeepsMembers
  <2>1. /\ pc = "members" /\ pc' = "direct" /\ ~quiet'
        /\ UNCHANGED <<store, phase, plan, last, applications>>
    BY <1>3 DEF Proof!KeepsMembers, Proof!files
  <2>2. PlanKept'
    BY <2>1 DEF QuietInv, PlanKept, Executing, Reading
  <2> QED BY <2>1, <2>2, Disturbed, LastRests DEF QuietInv, NoDesign
<1>4. CASE Proof!ReadDirect
  <2>1. /\ pc = "direct" /\ phase # "use"
        /\ UNCHANGED <<members, label, holds, taken, store, fresh, typed, quiet, last, applications>>
    BY <1>4 DEF Proof!ReadDirect, Proof!Strict, Proof!console, Proof!reading, Proof!files
  <2>2. CASE pc' = "judge" /\ UNCHANGED <<phase, plan, export>>
    <3>1. SureReading'
      BY <2>1, <2>2 DEF QuietInv, SureReading
    <3>2. PlanKept'
      BY <2>1, <2>2 DEF QuietInv, PlanKept, Executing, Reading
    <3> QED BY <2>1, <2>2, <3>1, <3>2, ShowStays, NotConcluded, LastRests
            DEF QuietInv, NoDesign, Reading
  <2>3. CASE ~(label[plan.preset] = store.label[plan.preset]) /\ Proof!Fails
    <3>1. ~quiet'
      BY <2>1, <2>3 DEF QuietInv, SureReading
    <3> QED BY <2>1, <2>3, <3>1, QuietFails DEF Reading
  <2> QED BY <1>4, <2>2, <2>3 DEF Proof!ReadDirect
<1>5. CASE Proof!ReadFails
  <2>1. /\ pc \in Reading /\ Proof!Fails /\ ~quiet' /\ UNCHANGED <<store, last, applications>>
    BY <1>5 DEF Proof!ReadFails, Proof!reading, Proof!files, Reading
  <2> QED BY <2>1, QuietFails
<1> QED BY <1>1, <1>2, <1>3, <1>4, <1>5 DEF Proof!Reads

\* The bindings a design is offered include the row recorded last, if nothing
\* disturbed the reading and the show is as it was.
LEMMA QuietUses ==
    ASSUME EvidenceInv, QuietInv, Proof!Uses PROVE QuietInv'
<1>1. /\ pc = "direct" /\ pc' = "idle"
      /\ UNCHANGED <<members, label, store, last, applications>>
      /\ phase = "use"
  <2>1. task \in {"design", "bind"}
    BY DEF Proof!Uses, Proof!OfferMap, Proof!RecordTarget
  <2>2. phase = "use"
    BY <2>1 DEF EvidenceInv, TaskTypes, Reading, IsPlan, Kinds, Proof!Uses, Proof!OfferMap,
                Proof!RecordTarget
  <2> QED BY <2>2 DEF Proof!Uses, Proof!OfferMap, Proof!RecordTarget, Proof!Finish, Proof!Leave,
                      Proof!files, Proof!console, Proof!reading
<1>2. SureReading' /\ NoDesign'
  BY <1>1 DEF SureReading, NoDesign
<1>3. PlanKept'
  BY <1>1 DEF QuietInv, PlanKept, Executing, Reading
<1>4. ShowPlanned' /\ Programmer' /\ Written' /\ LastKept'
  BY <1>1, NotExecuting, LastRests DEF QuietInv
<1>5. Concluded' /\ Proof!QuietVerifies'
  <2>1. result'.phase = "use" /\ result'.task = task
    BY <1>1 DEF Proof!Uses, Proof!OfferMap, Proof!RecordTarget, Proof!Finish, Proof!Leave,
                Proof!Outcome
  <2>2. Concluded'
    BY <2>1 DEF Concluded
  <2>3. ASSUME task = "design", quiet', last' # None, last'.id = Proof!Now'
        PROVE  last' \in offered'
    <3>1. PICK heard \in SUBSET Presets :
                /\ offered' = Proof!Confirmed(heard)
                /\ quiet' = (quiet /\ heard = Presets)
      BY <2>3 DEF Proof!Uses, Proof!OfferMap, Proof!RecordTarget
    <3>2. /\ store.members = members /\ store.label = label /\ fresh /\ typed
      BY <1>1, <2>3, <3>1 DEF QuietInv, SureReading
    <3>3. /\ last \in applications /\ last.id.label[last.preset] # None
          /\ last.id = [members |-> members, label |-> label]
      BY <1>1, <2>3 DEF QuietInv, LastKept, Proof!Now
    <3>4. last.preset \in Presets /\ members # {}
      <4>1. RowsLinked /\ members # {}
        BY DEF EvidenceInv, ShowTypes
      <4> QED BY <3>3, <4>1 DEF RowsLinked
    <3>5. last.id = Proof!Identity /\ last.id.label = label
      BY <3>2, <3>3 DEF Proof!Identity
    <3>6. Proof!Current(last)
      BY <3>2, <3>3, <3>4, <3>5 DEF Proof!Current, Proof!Usable
    <3>7. last \in Proof!Confirmed(Presets)
      BY <3>3, <3>4, <3>5, <3>6 DEF Proof!Confirmed
    <3> QED BY <1>1, <2>3, <3>1, <3>7
  <2> QED BY <2>1, <2>2, <2>3 DEF Concluded, Proof!QuietVerifies
<1> QED BY <1>2, <1>3, <1>4, <1>5 DEF QuietInv

\* The commands by their places.
LEMMA CommandPlaces ==
    ASSUME EvidenceInv, pc = "send"
    PROVE  /\ plan.kind \in Kinds /\ at \in 1..14 /\ (plan.kind # "calibration" => at <= 5)
           /\ Len(Proof!Script[plan.kind]) = IF plan.kind = "calibration" THEN 14 ELSE 5
           /\ plan.kind # "raw" => plan.preset \in Presets
           /\ \/ Proof!Command = "clear" /\ at \in {1, 5, 10} /\ (at # 1 => plan.kind = "calibration")
              \/ Proof!Command = "select" /\ at \in {2, 6, 11}
              \/ Proof!Command = "probe" /\ plan.kind # "application" /\ at \in {3, 7}
              \/ Proof!Command = "call" /\ plan.kind = "application" /\ at = 3
              \/ Proof!Command = "cue1" /\ at = 4
              \/ Proof!Command = "preset" /\ plan.kind = "calibration" /\ at = 8
              \/ Proof!Command = "check" /\ plan.kind = "calibration" /\ at = 9
              \/ Proof!Command = "call" /\ plan.kind = "calibration" /\ at = 12
              \/ Proof!Command = "cue2" /\ plan.kind = "calibration" /\ at = 13
              \/ /\ Proof!Command = "name"
                 /\ at = IF plan.kind = "calibration" THEN 14 ELSE 5
<1>1. /\ plan.kind \in Kinds /\ at \in 1..Len(Proof!Script[plan.kind])
      /\ plan.kind # "raw" => plan.preset \in Presets
  BY DEF EvidenceInv, TaskTypes, Sending, IsPlan
<1>2. CASE plan.kind = "raw"
  <2>1. /\ Len(Proof!Script[plan.kind]) = 5
        /\ Proof!Command = <<"clear", "select", "probe", "cue1", "name">>[at]
    BY <1>2 DEF Proof!Script, Proof!Command
  <2> QED BY <1>1, <1>2, <2>1
<1>3. CASE plan.kind = "application"
  <2>1. /\ Len(Proof!Script[plan.kind]) = 5
        /\ Proof!Command = <<"clear", "select", "call", "cue1", "name">>[at]
    BY <1>3 DEF Proof!Script, Proof!Command
  <2> QED BY <1>1, <1>3, <2>1
<1>4. CASE plan.kind = "calibration"
  <2>1. /\ Len(Proof!Script[plan.kind]) = 14
        /\ Proof!Command = <<"clear", "select", "probe", "cue1", "clear", "select", "probe",
                             "preset", "check", "clear", "select", "call", "cue2", "name">>[at]
    BY <1>4 DEF Proof!Script, Proof!Command
  <2> QED BY <1>1, <1>4, <2>1
<1> QED BY <1>1, <1>2, <1>3, <1>4 DEF Kinds

\* What an empty programmer holds once values are set, and what a cue takes of it.
LEMMA ProbeSet ==
    ASSUME NEW fs \in SUBSET Fixtures, NEW value, value # None,
           prog = Proof!Nothing, active = {}, Proof!Set(fs, value)
    PROVE  /\ prog' = OfProbe(fs, value)
           /\ active' = {f \in Fixtures : OfProbe(fs, value)[f] # None}
<1>1. /\ prog' = [f \in Fixtures |-> IF f \in fs THEN value ELSE prog[f]]
      /\ active' = active \cup fs
  BY DEF Proof!Set
<1>2. \A f \in Fixtures : prog[f] = None
  BY DEF Proof!Nothing
<1>3. \A f \in Fixtures : (IF f \in fs THEN value ELSE prog[f]) = (IF f \in fs THEN value ELSE None)
  BY <1>2
<1>4. prog' = OfProbe(fs, value)
  BY <1>1, <1>3, Zenon DEF OfProbe
<1>5. {f \in Fixtures : OfProbe(fs, value)[f] # None} = fs
  BY DEF OfProbe
<1> QED BY <1>1, <1>4, <1>5

LEMMA StoredIs ==
    ASSUME NEW cue, prog = cue, cue = [f \in Fixtures |-> cue[f]],
           active = {f \in Fixtures : cue[f] # None}
    PROVE  Proof!Stored(None) = cue
<1>1. Proof!Stored(None) = [f \in Fixtures |-> IF f \in active THEN prog[f] ELSE None]
  BY DEF Proof!Stored
<1>2. \A f \in Fixtures : (IF f \in active THEN prog[f] ELSE None) = cue[f]
  OBVIOUS
<1>3. [f \in Fixtures |-> IF f \in active THEN prog[f] ELSE None] = [f \in Fixtures |-> cue[f]]
  BY <1>2, Zenon
<1> QED BY <1>1, <1>3

LEMMA CuesAre ==
    ASSUME Proof!EvidenceAssumption, EvidenceInv, plan.kind # "raw" => plan.preset \in Presets
    PROVE  /\ Cue1 = [f \in Fixtures |-> Cue1[f]] /\ Cue1 \in Proof!Contents
           /\ plan.kind = "calibration" =>
                Cue2 = [f \in Fixtures |-> Cue2[f]] /\ Cue2 \in Proof!Contents
           /\ None \notin Proof!Contents
<1>1. None \notin Proof!Contents
  BY DEF Proof!EvidenceAssumption
<1>2. ASSUME NEW fs, NEW value \in Proof!Values
      PROVE  OfProbe(fs, value) = [f \in Fixtures |-> OfProbe(fs, value)[f]]
             /\ OfProbe(fs, value) \in Proof!Contents
  <2>1. OfProbe(fs, value) \in [Fixtures -> Proof!Values]
    BY DEF OfProbe, Proof!Values
  <2> QED BY <2>1 DEF Proof!Contents
<1>3. Proof!ByProbe \in Proof!Values /\ (plan.kind # "raw" => Proof!Link(plan.preset) \in Proof!Values)
  BY DEF Proof!Values
<1> QED BY <1>1, <1>2, <1>3 DEF Cue1, Cue2, Called

\* A sequence of an execution is one.
LEMMA SequenceExists ==
    ASSUME Proof!EvidenceAssumption, NEW name \in Proof!Labels,
           NEW first \in Proof!Contents, NEW second \in Proof!Contents \cup {None}
    PROVE  [name |-> name, cue |-> <<first, second>>] # None
  BY DEF Proof!EvidenceAssumption

\* The cues of an execution depend on the members and on what the preset holds,
\* which only a calibration changes, before it calls it.
LEMMA CuesStay ==
    ASSUME plan' = plan, members' = members,
           plan.kind = "application" => holds' = holds
    PROVE  Cue1' = Cue1
  BY DEF Cue1, Called

\* What a command leaves alone, once it has been sent.
LEMMA SentAt ==
    ASSUME EvidenceInv, pc = "send", Proof!Sent, UNCHANGED <<plan, phase>>
    PROVE  /\ pc' = "send" => at' = at + 1
           /\ pc' = "send" <=> at < IF plan.kind = "calibration" THEN 14 ELSE 5
           /\ pc' \in {"send", "meta"} /\ pc' \notin Reading
  BY CommandPlaces DEF Proof!Sent, Reading

LEMMA SendClear ==
    ASSUME EvidenceInv, QuietInv, Proof!Send, quiet, Proof!Command = "clear"
    PROVE  ShowPlanned' /\ Programmer' /\ Written'
<1>1. /\ pc = "send" /\ Proof!Sent /\ Proof!Does("clear") /\ UNCHANGED <<plan, phase>>
  BY DEF Proof!Send
<1>2. /\ prog' = Proof!Nothing /\ active' = {}
      /\ UNCHANGED <<members, label, holds, seq>>
  BY <1>1 DEF Proof!Does
<1>3. at \in {1, 5, 10} /\ (at # 1 => plan.kind = "calibration")
  BY <1>1, CommandPlaces
<1>4. pc' = "send" /\ at' = at + 1 /\ at' \in {2, 6, 11}
  BY <1>1, <1>3, SentAt
<1>5. Cue1' = Cue1 /\ Cue2' = Cue2
  BY <1>1, <1>2, CuesRest
<1>6. Programmer'
  BY <1>2, <1>4 DEF Programmer
<1>7. ShowPlanned'
  BY <1>1, <1>2, <1>3, <1>4 DEF QuietInv, ShowPlanned, Executing
<1>8. Written'
  BY <1>1, <1>2, <1>3, <1>4, <1>5 DEF QuietInv, Written, Reading
<1> QED BY <1>6, <1>7, <1>8

LEMMA SendSelect ==
    ASSUME EvidenceInv, QuietInv, Proof!Send, quiet, Proof!Command = "select"
    PROVE  ShowPlanned' /\ Programmer' /\ Written'
<1>1. /\ pc = "send" /\ Proof!Sent /\ Proof!Does("select") /\ UNCHANGED <<plan, phase>>
  BY DEF Proof!Send
<1>2. /\ selected' = members
      /\ UNCHANGED <<prog, active, members, label, holds, seq>>
  BY <1>1 DEF Proof!Does
<1>3. at \in {2, 6, 11} /\ (at > 5 => plan.kind = "calibration")
  BY <1>1, CommandPlaces
<1>4. pc' = "send" /\ at' = at + 1 /\ at' \in {3, 7, 12}
  BY <1>1, <1>3, SentAt
<1>5. Cue1' = Cue1 /\ Cue2' = Cue2
  BY <1>1, <1>2, CuesRest
<1>6. Programmer'
  BY <1>1, <1>2, <1>3, <1>4 DEF QuietInv, Programmer
<1>7. ShowPlanned'
  BY <1>1, <1>2, <1>3, <1>4 DEF QuietInv, ShowPlanned, Executing
<1>8. Written'
  BY <1>1, <1>2, <1>3, <1>4, <1>5 DEF QuietInv, Written, Reading
<1> QED BY <1>6, <1>7, <1>8

\* Values by hand of the probe, or a call of the preset.
LEMMA SendValues ==
    ASSUME EvidenceInv, QuietInv, Proof!EvidenceAssumption, Proof!Send, quiet,
           Proof!Command \in {"probe", "call"}
    PROVE  ShowPlanned' /\ Programmer' /\ Written'
<1>1. /\ pc = "send" /\ Proof!Sent /\ Proof!Does(Proof!Command) /\ UNCHANGED <<plan, phase>>
  BY DEF Proof!Send
<1>2. /\ at \in {3, 7, 12} /\ (at > 5 => plan.kind = "calibration")
      /\ at = 12 <=> Proof!Command = "call" /\ plan.kind = "calibration"
      /\ Proof!Command = "probe" => plan.kind # "application"
      /\ Proof!Command = "call" => plan.kind # "raw" /\ (at = 3 => plan.kind = "application")
      /\ plan.kind # "raw" => plan.preset \in Presets
  BY <1>1, CommandPlaces
<1>3. pc' = "send" /\ at' = at + 1 /\ at' \in {4, 8, 13} /\ (at' = 13 <=> at = 12)
  BY <1>1, <1>2, SentAt
<1>4. /\ prog = Proof!Nothing /\ active = {} /\ selected = members
      /\ members \subseteq Fixtures
  BY <1>1, <1>2 DEF QuietInv, Programmer, EvidenceInv, ShowTypes
<1>5. UNCHANGED <<members, label, holds, seq>>
  BY <1>1 DEF Proof!Does, Proof!Set
<1>6. Cue1' = Cue1 /\ Cue2' = Cue2
  BY <1>1, <1>5, CuesRest
<1>7. /\ Proof!ByProbe # None /\ (plan.kind # "raw" => Proof!Link(plan.preset) # None)
  BY <1>2 DEF Proof!EvidenceAssumption
<1>8. LET cue == IF at = 12 THEN Cue2 ELSE Cue1
      IN  prog' = cue /\ active' = {f \in Fixtures : cue[f] # None}
  <2>1. CASE Proof!Command = "probe"
    <3>1. Proof!Set(members, Proof!ByProbe)
      BY <1>1, <1>4, <2>1 DEF Proof!Does
    <3>2. Cue1 = OfProbe(members, Proof!ByProbe) /\ at # 12
      BY <1>2, <2>1 DEF Cue1
    <3> QED BY <1>4, <1>7, <3>1, <3>2, ProbeSet
  <2>2. CASE Proof!Command = "call"
    <3>1. Proof!Set(members \cap holds[plan.preset], Proof!Link(plan.preset))
      BY <1>1, <1>4, <2>2 DEF Proof!Does
    <3>2. Called = IF at = 12 THEN Cue2 ELSE Cue1
      BY <1>2, <2>2 DEF Cue1, Cue2
    <3>3. /\ prog' = Called
          /\ active' = {f \in Fixtures : Called[f] # None}
      BY <1>2, <1>4, <1>7, <2>2, <3>1, ProbeSet DEF Called
    <3> QED BY <3>2, <3>3
  <2> QED BY <1>1, <2>1, <2>2 DEF Proof!Does
<1>9. Programmer'
  BY <1>2, <1>3, <1>6, <1>8 DEF Programmer
<1>10. ShowPlanned'
  BY <1>1, <1>2, <1>3, <1>5 DEF QuietInv, ShowPlanned, Executing
<1>11. Written'
  BY <1>1, <1>2, <1>3, <1>5, <1>6 DEF QuietInv, Written, Reading
<1> QED BY <1>9, <1>10, <1>11

LEMMA SendCue ==
    ASSUME EvidenceInv, QuietInv, Proof!EvidenceAssumption, Proof!Send, quiet,
           Proof!Command \in {"cue1", "cue2"}
    PROVE  ShowPlanned' /\ Programmer' /\ Written'
<1>1. /\ pc = "send" /\ Proof!Sent /\ Proof!Does(Proof!Command) /\ UNCHANGED <<plan, phase>>
  BY DEF Proof!Send
<1>2. /\ at = (IF Proof!Command = "cue1" THEN 4 ELSE 13)
      /\ Proof!Command = "cue2" => plan.kind = "calibration"
      /\ plan.kind # "raw" => plan.preset \in Presets
  BY <1>1, CommandPlaces
<1>3. pc' = "send" /\ at' = at + 1
  BY <1>1, <1>2, SentAt
<1>4. /\ Cue1 = [f \in Fixtures |-> Cue1[f]]
      /\ plan.kind = "calibration" => Cue2 = [f \in Fixtures |-> Cue2[f]]
  BY <1>2, CuesAre
<1>5. UNCHANGED <<members, label, holds>>
  BY <1>1 DEF Proof!Does, Proof!Set, Proof!StoreCue
<1>6. Cue1' = Cue1 /\ Cue2' = Cue2
  BY <1>1, <1>5, CuesRest
<1>7. seq' = [name |-> None, cue |-> <<Cue1, IF at = 13 THEN Cue2 ELSE None>>]
  <2>1. CASE Proof!Command = "cue1"
    <3>1. seq = None /\ prog = Cue1 /\ active = {f \in Fixtures : Cue1[f] # None}
      BY <1>1, <1>2, <2>1 DEF QuietInv, Programmer, Written
    <3>2. Proof!Stored(None) = Cue1
      BY <1>4, <3>1, StoredIs
    <3>3. Proof!StoreCue(1)
      BY <1>1, <2>1 DEF Proof!Does
    <3>4. seq' = [[name |-> None, cue |-> <<None, None>>] EXCEPT !.cue[1] = Proof!Stored(@)]
      BY <3>1, <3>3 DEF Proof!StoreCue
    <3>5. seq' = [name |-> None, cue |-> <<Proof!Stored(None), None>>]
      BY <3>4
    <3> QED BY <1>2, <2>1, <3>2, <3>5
  <2>2. CASE Proof!Command = "cue2"
    <3>1. /\ seq = [name |-> None, cue |-> <<Cue1, None>>]
          /\ prog = Cue2 /\ active = {f \in Fixtures : Cue2[f] # None}
      BY <1>1, <1>2, <2>2 DEF QuietInv, Programmer, Written
    <3>2. Proof!Stored(None) = Cue2
      BY <1>2, <1>4, <2>2, <3>1, StoredIs
    <3>3. Proof!StoreCue(2) /\ seq # None
      <4>1. Cue1 \in Proof!Contents /\ None \in Proof!Labels
        BY <1>2, CuesAre DEF Proof!Labels
      <4> QED BY <1>1, <2>2, <3>1, <4>1, SequenceExists DEF Proof!Does
    <3>4. seq' = [seq EXCEPT !.cue[2] = Proof!Stored(@)]
      BY <3>3 DEF Proof!StoreCue
    <3>5. seq' = [name |-> None, cue |-> <<Cue1, Proof!Stored(None)>>]
      BY <3>1, <3>4
    <3> QED BY <1>2, <2>2, <3>2, <3>5
  <2> QED BY <2>1, <2>2
<1>8. Programmer'
  BY <1>2, <1>3 DEF Programmer
<1>9. ShowPlanned'
  BY <1>1, <1>2, <1>3, <1>5 DEF QuietInv, ShowPlanned, Executing
<1>10. Written'
  BY <1>2, <1>3, <1>6, <1>7 DEF Written, Reading
<1> QED BY <1>8, <1>9, <1>10

LEMMA SendPreset ==
    ASSUME EvidenceInv, QuietInv, Proof!EvidenceAssumption, Proof!Send, quiet,
           Proof!Command = "preset"
    PROVE  ShowPlanned' /\ Programmer' /\ Written'
<1>1. /\ pc = "send" /\ Proof!Sent /\ Proof!Does("preset") /\ UNCHANGED <<plan, phase>>
  BY DEF Proof!Send
<1>2. at = 8 /\ plan.kind = "calibration" /\ plan.preset \in Presets
  BY <1>1, CommandPlaces
<1>3. pc' = "send" /\ at' = 9 /\ phase = "execute"
  BY <1>1, <1>2, SentAt DEF EvidenceInv, TaskTypes, Sending
<1>4. /\ label' = [label EXCEPT ![plan.preset] = "ours"]
      /\ holds' = [holds EXCEPT ![plan.preset] = active]
      /\ UNCHANGED <<members, seq>>
  BY <1>1 DEF Proof!Does
<1>5. /\ active = members /\ Cue1' = Cue1
  <2>1. Cue1 = OfProbe(members, Proof!ByProbe) /\ active = {f \in Fixtures : Cue1[f] # None}
    BY <1>1, <1>2 DEF QuietInv, Programmer, Cue1
  <2>2. Proof!ByProbe # None /\ members \subseteq Fixtures
    BY DEF Proof!EvidenceAssumption, EvidenceInv, ShowTypes
  <2>3. \A f \in Fixtures : OfProbe(members, Proof!ByProbe)[f] # None <=> f \in members
    BY <2>2 DEF OfProbe
  <2>4. active = members
    BY <2>1, <2>2, <2>3
  <2> QED BY <1>1, <1>2, <1>4, <2>4, CuesStay
<1>6. ShowPlanned'
  <2>1. members = plan.before.members /\ label = plan.before.label
    BY <1>1, <1>2, <1>3 DEF QuietInv, ShowPlanned, Executing
  <2>2. plan.after.label = [plan.before.label EXCEPT ![plan.preset] = "ours"]
    BY <1>1, <1>2, <1>3 DEF QuietInv, PlanKept, Executing
  <2>3. holds'[plan.preset] = members
    BY <1>2, <1>4, <1>5 DEF EvidenceInv, ShowTypes
  <2> QED BY <1>1, <1>2, <1>3, <1>4, <2>1, <2>2, <2>3 DEF ShowPlanned
<1>7. Programmer'
  BY <1>3 DEF Programmer
<1>8. Written'
  BY <1>1, <1>2, <1>3, <1>4, <1>5 DEF QuietInv, Written, Reading
<1> QED BY <1>6, <1>7, <1>8

LEMMA SendName ==
    ASSUME EvidenceInv, QuietInv, Proof!EvidenceAssumption, Proof!Send, quiet,
           Proof!Command = "name"
    PROVE  ShowPlanned' /\ Programmer' /\ Written'
<1>1. /\ pc = "send" /\ Proof!Sent /\ Proof!Does("name") /\ UNCHANGED <<plan, phase>>
  BY DEF Proof!Send
<1>2. /\ at = (IF plan.kind = "calibration" THEN 14 ELSE 5)
      /\ pc' = "meta" /\ phase = "execute" /\ plan.kind \in Kinds
  BY <1>1, CommandPlaces, SentAt DEF EvidenceInv, TaskTypes, Sending
<1>3. seq' = [seq EXCEPT !.name = "ours"] /\ UNCHANGED <<members, label, holds>>
  BY <1>1 DEF Proof!Does
<1>4. Cue1' = Cue1 /\ Cue2' = Cue2
  BY <1>1, <1>3, CuesRest
<1>5. seq = [name |-> None, cue |-> <<Cue1, Cue2>>]
  <2>1. plan.kind # "calibration" => Cue2 = None
    BY DEF Cue2
  <2> QED BY <1>1, <1>2, <2>1 DEF QuietInv, Written
<1>6. Written'
  <2>1. seq' = [name |-> "ours", cue |-> <<Cue1, Cue2>>]
    BY <1>3, <1>5
  <2> QED BY <1>2, <1>4, <2>1 DEF Written, Reading
<1>7. ShowPlanned'
  <2>1. /\ members = plan.before.members
        /\ plan.kind = "calibration" => label = plan.after.label /\ holds[plan.preset] = members
        /\ plan.kind # "calibration" => label = plan.before.label
    BY <1>1, <1>2 DEF QuietInv, ShowPlanned, Executing
  <2>2. plan.kind # "calibration" => plan.after.label = plan.before.label
    BY <1>1, <1>2 DEF QuietInv, PlanKept, Executing
  <2> QED BY <1>1, <1>2, <1>3, <2>1, <2>2 DEF ShowPlanned
<1>8. Programmer'
  BY <1>2 DEF Programmer
<1> QED BY <1>6, <1>7, <1>8

\* Where an execution goes on, only what it does to the show is left to say.
LEMMA ExecutionGoesOn ==
    ASSUME QuietInv, Executing, pc' \notin {"idle", "clear", "record"} \cup (Reading \ {"lists"}),
           UNCHANGED <<store, phase, plan, last, applications>>,
           ShowPlanned' /\ Programmer' /\ Written'
    PROVE  QuietInv'
<1>1. SureReading' /\ NoDesign'
  BY DEF SureReading, NoDesign, Reading
<1>2. PlanKept' /\ LastKept'
  BY LastRests, PlanRests DEF QuietInv, Executing
<1> QED BY <1>1, <1>2, NotConcluded DEF QuietInv

LEMMA QuietSend ==
    ASSUME EvidenceInv, QuietInv, Proof!EvidenceAssumption, Proof!Send PROVE QuietInv'
<1>1. /\ pc = "send" /\ Proof!Sent /\ Proof!Command # "check" /\ quiet' = quiet
      /\ UNCHANGED <<store, phase, plan, last, applications>>
  BY DEF Proof!Send, Proof!reading, Proof!files
<1>2. ShowPlanned' /\ Programmer' /\ Written'
  <2>1. CASE quiet
    BY <1>1, <2>1, CommandPlaces, SendClear, SendSelect, SendValues, SendCue, SendPreset, SendName
  <2>2. CASE ~quiet
    BY <1>1, <2>2, Disturbed
  <2> QED BY <2>1, <2>2
<1>3. Executing
  BY <1>1 DEF EvidenceInv, TaskTypes, Sending, Executing
<1> QED BY <1>1, <1>2, <1>3, SentAt, ExecutionGoesOn

LEMMA QuietIgnore ==
    ASSUME EvidenceInv, QuietInv, Proof!EvidenceAssumption, Proof!Ignore PROVE QuietInv'
<1>1. /\ pc = "send" /\ Proof!Sent /\ ~quiet'
      /\ UNCHANGED <<store, phase, plan, last, applications>>
  BY DEF Proof!Ignore, Proof!reading, Proof!files
<1>2. Executing
  BY <1>1 DEF EvidenceInv, TaskTypes, Sending, Executing
<1> QED BY <1>1, <1>2, SentAt, Disturbed, ExecutionGoesOn

LEMMA QuietRefuse == ASSUME EvidenceInv, QuietInv, Proof!Refuse PROVE QuietInv'
  BY QuietFails DEF Proof!Refuse, Proof!reading, Proof!files

\* The new preset answers, unless something disturbed the calibration.
LEMMA QuietCheck ==
    ASSUME EvidenceInv, QuietInv, Proof!EvidenceAssumption, Proof!Check PROVE QuietInv'
<1>1. /\ pc = "send" /\ Proof!Command = "check"
      /\ UNCHANGED <<members, label, holds, seq, prog, active, selected, store,
                     last, applications>>
  BY DEF Proof!Check, Proof!console, Proof!reading, Proof!files
<1>2. at = 9 /\ plan.kind = "calibration" /\ plan.preset \in Presets /\ phase = "execute"
  BY <1>1, CommandPlaces DEF EvidenceInv, TaskTypes, Sending
<1>3. Executing
  BY <1>1, <1>2 DEF Executing
<1>4. PICK heard \in BOOLEAN :
        /\ quiet' = (quiet /\ heard)
        /\ IF heard /\ label[plan.preset] = "ours"
           THEN Proof!Sent /\ UNCHANGED <<task, phase, plan, export, result>>
           ELSE Proof!Fails
  BY DEF Proof!Check
<1>5. quiet => label[plan.preset] = "ours"
  <2>1. quiet => label = plan.after.label
    BY <1>1, <1>2, <1>3 DEF QuietInv, ShowPlanned
  <2>2. plan.after.label[plan.preset] = "ours"
    BY <1>2, <1>3 DEF QuietInv, PlanKept
  <2> QED BY <2>1, <2>2
<1>6. CASE heard /\ label[plan.preset] = "ours"
  <2>1. Proof!Sent /\ UNCHANGED <<phase, plan>>
    BY <1>4, <1>6
  <2>2. pc' = "send" /\ at' = 10
    BY <1>1, <1>2, <2>1, SentAt
  <2>3. Cue1' = Cue1 /\ Cue2' = Cue2
    BY <1>1, <2>1, CuesRest
  <2>4. quiet' => quiet
    BY <1>4
  <2>5. ShowPlanned'
    BY <1>1, <1>2, <1>3, <2>1, <2>2, <2>4 DEF QuietInv, ShowPlanned, Executing
  <2>6. Programmer'
    BY <2>2 DEF Programmer
  <2>7. Written'
    BY <1>1, <1>2, <2>2, <2>3, <2>4 DEF QuietInv, Written, Reading
  <2> QED BY <1>1, <1>3, <2>1, <2>2, <2>5, <2>6, <2>7, ExecutionGoesOn DEF Reading
<1>7. CASE ~(heard /\ label[plan.preset] = "ours")
  BY <1>1, <1>4, <1>5, <1>7, QuietFails
<1> QED BY <1>6, <1>7

LEMMA QuietMetadata ==
    ASSUME EvidenceInv, QuietInv, Proof!EvidenceAssumption, Proof!Metadata PROVE QuietInv'
<1>1. /\ pc = "meta"
      /\ UNCHANGED <<members, label, holds, seq, store, last, applications>>
  BY DEF Proof!Metadata, Proof!console, Proof!reading, Proof!files
<1>2. Executing /\ plan.kind \in Kinds /\ (plan.kind # "raw" => plan.preset \in Presets)
  BY <1>1 DEF EvidenceInv, TaskTypes, Sending, Executing, IsPlan
<1>3. PICK heard \in BOOLEAN :
        /\ quiet' = (quiet /\ heard)
        /\ IF /\ heard /\ seq # None /\ seq.name = "ours"
              /\ \A c \in Proof!Cues(plan.kind) : seq.cue[c] # None
           THEN pc' = "export" /\ UNCHANGED <<task, phase, plan, at, export, result>>
           ELSE Proof!Fails
  BY DEF Proof!Metadata
<1>4. quiet => /\ seq # None /\ seq.name = "ours"
               /\ \A c \in Proof!Cues(plan.kind) : seq.cue[c] # None
  <2> SUFFICES ASSUME quiet
               PROVE  /\ seq # None /\ seq.name = "ours"
                      /\ \A c \in Proof!Cues(plan.kind) : seq.cue[c] # None
    OBVIOUS
  <2>1. seq = [name |-> "ours", cue |-> <<Cue1, Cue2>>]
    BY <1>1 DEF QuietInv, Written
  <2>2. /\ Cue1 \in Proof!Contents /\ Cue2 \in Proof!Contents \cup {None}
        /\ Cue1 # None /\ (plan.kind = "calibration" => Cue2 # None)
    <3>1. plan.kind # "calibration" => Cue2 = None
      BY DEF Cue2
    <3> QED BY <1>2, <3>1, CuesAre
  <2>3. seq # None
    BY <2>1, <2>2, SequenceExists DEF Proof!Labels
  <2> QED BY <2>1, <2>2, <2>3 DEF Proof!Cues
<1>5. CASE pc' = "export" /\ UNCHANGED <<task, phase, plan, at, export, result>>
  <2>1. quiet' => quiet
    BY <1>3
  <2>2. Cue1' = Cue1 /\ Cue2' = Cue2
    BY <1>1, <1>5, CuesRest
  <2>3. ShowPlanned'
    BY <1>1, <1>2, <1>5, <2>1 DEF QuietInv, ShowPlanned, Executing
  <2>4. Programmer'
    BY <1>5 DEF Programmer
  <2>5. Written'
    BY <1>1, <1>5, <2>1, <2>2 DEF QuietInv, Written, Reading
  <2> QED BY <1>1, <1>2, <1>5, <2>3, <2>4, <2>5, ExecutionGoesOn DEF Reading
<1>6. CASE ~quiet' /\ Proof!Fails
  BY <1>1, <1>6, QuietFails
<1> QED BY <1>3, <1>4, <1>5, <1>6

LEMMA QuietExport ==
    ASSUME EvidenceInv, QuietInv, Proof!EvidenceAssumption, Proof!Export PROVE QuietInv'
<1>1. /\ pc = "export"
      /\ UNCHANGED <<members, label, holds, seq, store, last, applications>>
  BY DEF Proof!Export, Proof!console, Proof!reading, Proof!files
<1>2. Executing /\ phase = "execute" /\ (plan.kind # "raw" => plan.preset \in Presets)
  BY <1>1 DEF EvidenceInv, TaskTypes, Sending, Executing, IsPlan
<1>3. PICK heard \in BOOLEAN :
        /\ quiet' = (quiet /\ heard)
        /\ IF heard /\ seq # None
           THEN /\ export' = seq.cue /\ pc' = "lists"
                /\ UNCHANGED <<task, phase, plan, at, result>>
           ELSE Proof!Fails
  BY DEF Proof!Export
<1>4. quiet => seq = [name |-> "ours", cue |-> <<Cue1, Cue2>>]
  BY <1>1 DEF QuietInv, Written
<1>5. quiet => seq # None
  <2>1. Cue1 \in Proof!Contents /\ Cue2 \in Proof!Contents \cup {None}
    <3>1. plan.kind # "calibration" => Cue2 = None
      BY DEF Cue2
    <3> QED BY <1>2, <3>1, CuesAre
  <2> QED BY <1>4, <2>1, SequenceExists DEF Proof!Labels
<1>6. CASE export' = seq.cue /\ pc' = "lists" /\ UNCHANGED <<task, phase, plan, at, result>>
  <2>1. quiet' => quiet
    BY <1>3
  <2>2. Cue1' = Cue1 /\ Cue2' = Cue2
    BY <1>1, <1>6, CuesRest
  <2>3. ShowPlanned'
    BY <1>1, <1>2, <1>6, <2>1 DEF QuietInv, ShowPlanned, Executing
  <2>4. Programmer' /\ Written'
    BY <1>4, <1>6, <2>1, <2>2 DEF Programmer, Written, Reading
  <2> QED BY <1>1, <1>2, <1>6, <2>3, <2>4, ExecutionGoesOn DEF Reading
<1>7. CASE ~quiet' /\ Proof!Fails
  BY <1>1, <1>7, QuietFails
<1> QED BY <1>3, <1>5, <1>6, <1>7

\* What an undisturbed execution is judged on is what it was to do, unless the
\* preset holds no values for a member.
LEMMA QuietIsVerified ==
    ASSUME EvidenceInv, QuietInv, Proof!EvidenceAssumption,
           pc = "judge", phase = "execute", quiet,
           plan.kind = "application" => members \subseteq holds[plan.preset]
    PROVE  Proof!Verified
<1>1. Executing /\ plan.kind \in Kinds /\ (plan.kind # "raw" => plan.preset \in Presets)
  BY DEF EvidenceInv, TaskTypes, Reading, Executing, IsPlan
<1>2. /\ store.label = label /\ store.members = members /\ fresh /\ typed
      /\ members # {} /\ members \subseteq Fixtures
  BY DEF QuietInv, SureReading, EvidenceInv, ShowTypes
<1>3. /\ members = plan.before.members /\ label = plan.after.label
      /\ plan.kind = "calibration" => holds[plan.preset] = members
  BY <1>1 DEF QuietInv, ShowPlanned
<1>4. Proof!Usable /\ Proof!Identity = plan.after
  <2>1. /\ plan.before = [members |-> plan.before.members, label |-> plan.before.label]
        /\ plan.after = [plan.before EXCEPT !.label =
              IF plan.kind = "calibration" THEN [@ EXCEPT ![plan.preset] = "ours"] ELSE @]
    BY <1>1 DEF QuietInv, PlanKept
  <2> DEFINE new == IF plan.kind = "calibration"
                    THEN [plan.before.label EXCEPT ![plan.preset] = "ours"] ELSE plan.before.label
  <2>2. plan.after = [plan.before EXCEPT !.label = new]
    BY <2>1
  <2> HIDE DEF new
  <2>3. plan.after = [members |-> plan.before.members, label |-> new]
    BY <2>1, <2>2
  <2>4. plan.after.label = new
    BY <2>3
  <2> QED BY <1>2, <1>3, <2>3, <2>4 DEF Proof!Usable, Proof!Identity
<1>5. export[1] = Cue1 /\ export[2] = Cue2
  BY DEF QuietInv, Written, Reading
<1>6. /\ Proof!ByProbe # None
      /\ \A n \in Presets : Proof!Link(n) # None
  BY DEF Proof!EvidenceAssumption
<1>7. Cue1 # None /\ (plan.kind = "calibration" => Cue2 # None)
  BY <1>1, CuesAre
<1>8. plan.kind # "application" => Proof!HasProbe(export[1]) /\ Proof!HasRaw(export[1])
  <2> SUFFICES ASSUME plan.kind # "application"
               PROVE  Proof!HasProbe(export[1]) /\ Proof!HasRaw(export[1])
    OBVIOUS
  <2>1. Cue1 = OfProbe(members, Proof!ByProbe)
    BY DEF Cue1
  <2>2. \A f \in Fixtures : Cue1[f] = IF f \in members THEN Proof!ByProbe ELSE None
    BY <2>1 DEF OfProbe
  <2>3. ~Proof!Foreign(Cue1) /\ \A f \in store.members : Cue1[f] = Proof!ByProbe
    BY <1>2, <2>2 DEF Proof!Foreign
  <2> QED BY <1>5, <1>6, <1>7, <2>3 DEF Proof!HasProbe, Proof!HasRaw
<1>9. ASSUME plan.kind # "raw", NEW cue, cue = Called, cue # None
      PROVE  Proof!Applied(cue, plan.preset)
  <2>1. members \cap holds[plan.preset] = members
    BY <1>1, <1>3, <1>9 DEF Kinds
  <2>2. \A f \in Fixtures : cue[f] = IF f \in members THEN Proof!Link(plan.preset) ELSE None
    BY <1>9, <2>1 DEF Called, OfProbe
  <2>3. Proof!Link(plan.preset) # None
    BY <1>1, <1>6, <1>9
  <2>4. Proof!Linked(cue, plan.preset) = members
    BY <1>2, <2>2, <2>3 DEF Proof!Linked
  <2> QED BY <1>2, <1>9, <2>4 DEF Proof!Applied
<1>10. CASE plan.kind = "raw"
  BY <1>4, <1>5, <1>8, <1>10 DEF Proof!Verified, Cue2
<1>11. CASE plan.kind = "application"
  <2>1. Proof!Applied(export[1], plan.preset)
    BY <1>5, <1>7, <1>9, <1>11 DEF Cue1
  <2> QED BY <1>4, <1>11, <2>1 DEF Proof!Verified
<1>12. CASE plan.kind = "calibration"
  <2>1. Proof!Applied(export[2], plan.preset)
    BY <1>5, <1>7, <1>9, <1>12 DEF Cue2
  <2> QED BY <1>4, <1>8, <1>12, <2>1 DEF Proof!Verified
<1> QED BY <1>1, <1>10, <1>11, <1>12 DEF Kinds

LEMMA QuietJudge ==
    ASSUME EvidenceInv, QuietInv, Proof!EvidenceAssumption, Proof!Judge PROVE QuietInv'
<1>1. /\ pc = "judge" /\ phase = "execute" /\ quiet' = quiet
      /\ UNCHANGED <<members, label, holds, store, last, applications>>
  BY DEF Proof!Judge, Proof!console, Proof!reading, Proof!files
<1>2. Executing /\ task = plan.kind /\ plan.kind \in Kinds
  BY <1>1 DEF EvidenceInv, TaskTypes, Reading, Executing, IsPlan
<1>3. CASE Proof!Verified /\ pc' = "record" /\ UNCHANGED <<task, phase, plan, at, export, result>>
  <2>1. SureReading' /\ NoDesign'
    BY <1>3 DEF SureReading, NoDesign
  <2>2. Proof!Identity = plan.after
    BY <1>3 DEF Proof!Verified
  <2>3. PlanKept'
    <3>1. Proof!Identity' = Proof!Identity
      BY <1>1 DEF Proof!Identity
    <3> QED BY <1>1, <1>2, <1>3, <2>2, <3>1 DEF QuietInv, PlanKept, Executing, Reading
  <2> QED BY <1>1, <1>3, <2>1, <2>3, NotExecuting, NotConcluded, LastRests DEF QuietInv
<1>4. CASE ~Proof!Verified /\ Proof!Fails
  <2>1. /\ pc' = "clear" /\ result' = Proof!Outcome("failed")
    BY <1>1, <1>4 DEF Proof!Fails
  <2>2. /\ result'.task = task /\ result'.preset = plan.preset
    BY <1>1, <2>1 DEF Proof!Outcome
  <2>3. quiet' => plan.kind = "application" /\ ~(members \subseteq holds[plan.preset])
    BY <1>1, <1>4, QuietIsVerified
  <2>4. Concluded'
    BY <1>1, <1>2, <2>2, <2>3 DEF Concluded
  <2>5. SureReading' /\ NoDesign' /\ Proof!QuietVerifies'
    BY <1>2, <2>1, <2>2 DEF SureReading, NoDesign, Proof!QuietVerifies, Kinds
  <2>6. PlanKept'
    BY <1>1, <2>1 DEF QuietInv, PlanKept, Executing, Reading
  <2> QED BY <1>1, <2>1, <2>4, <2>5, <2>6, NotExecuting, LastRests DEF QuietInv
<1> QED BY <1>3, <1>4 DEF Proof!Judge

LEMMA QuietRecord ==
    ASSUME EvidenceInv, QuietInv, Proof!EvidenceAssumption, Proof!Record PROVE QuietInv'
<1>1. /\ pc = "record" /\ pc' = "clear" /\ result' = Proof!Outcome("done") /\ store' = store
  BY DEF Proof!Record, Proof!reading
<1>2. phase = "execute" /\ task = plan.kind /\ plan.kind \in Kinds
  BY <1>1 DEF EvidenceInv, TaskTypes, Sending, IsPlan
<1>3. result'.phase = "execute" /\ result'.how = "done" /\ result'.task = plan.kind
  BY <1>1, <1>2 DEF Proof!Outcome
<1>4. SureReading' /\ Concluded' /\ NoDesign' /\ Proof!QuietVerifies'
  BY <1>1, <1>2, <1>3 DEF SureReading, Concluded, NoDesign, Proof!QuietVerifies, Kinds
<1>5. PlanKept'
  BY <1>1 DEF QuietInv, PlanKept, Executing, Reading
<1>6. LastKept'
  <2>1. CASE plan.kind = "raw"
    BY <2>1, LastRests DEF QuietInv, Proof!Record
  <2>2. CASE plan.kind # "raw"
    <3>1. /\ last' = Proof!Row(plan.preset) /\ last' \in applications'
      BY <2>2 DEF Proof!Record, Proof!Recorded
    <3>2. last'.id = plan.after /\ last'.preset = plan.preset
      BY <1>1, <3>1 DEF QuietInv, PlanKept, Proof!Row
    <3>3. plan.after.label[plan.preset] # None
      BY <1>1, <2>2 DEF QuietInv, PlanKept
    <3> QED BY <3>1, <3>2, <3>3 DEF LastKept
  <2> QED BY <2>1, <2>2
<1> QED BY <1>1, <1>4, <1>5, <1>6, NotExecuting DEF QuietInv

LEMMA QuietClear ==
    ASSUME EvidenceInv, QuietInv, Proof!Clear PROVE QuietInv'
<1>1. /\ pc = "clear" /\ pc' = "idle" /\ phase' = None
      /\ UNCHANGED <<members, label, holds, store, last, applications, quiet, result>>
  BY DEF Proof!Clear, Proof!reading, Proof!files
<1>2. SureReading' /\ Concluded' /\ NoDesign'
  BY <1>1 DEF QuietInv, SureReading, Concluded, NoDesign
<1>3. Proof!QuietVerifies'
  <2>1. result'.task # "design"
    BY <1>1 DEF QuietInv, NoDesign
  <2> QED BY <1>1, <1>2, <2>1 DEF Concluded, Proof!QuietVerifies
<1>4. PlanKept'
  BY <1>1 DEF QuietInv, PlanKept, Executing, Reading
<1> QED BY <1>1, <1>2, <1>3, <1>4, NotExecuting, LastRests DEF QuietInv

\* What is carried out was computed from the show as it is, in a slot that is free.
LEMMA QuietRevalidate ==
    ASSUME EvidenceInv, QuietInv, Proof!EvidenceAssumption, Proof!Revalidate PROVE QuietInv'
<1>1. /\ pc = "judge" /\ phase = "approve" /\ plan' = plan /\ quiet' = quiet
      /\ UNCHANGED <<members, label, holds, taken, store, last, applications>>
  BY DEF Proof!Revalidate, Proof!reading, Proof!files
<1>2. task = plan.kind /\ plan.kind \in Kinds /\ (plan.kind # "raw" => plan.preset \in Presets)
      /\ plan # None
  BY <1>1 DEF EvidenceInv, TaskTypes, QuietInv, PlanKept, Reading, IsPlan
<1>3. CASE /\ Proof!Preview(task, plan.preset) = plan
           /\ pc' = "send" /\ phase' = "execute" /\ at' = 1
           /\ plan.slot \notin taken => seq' = None
  <2>1. /\ plan.before = Proof!Identity
        /\ plan.after = IF plan.kind = "calibration"
              THEN [Proof!Identity EXCEPT !.label[plan.preset] = "ours"] ELSE Proof!Identity
        /\ plan.slot = Proof!First(Proof!FreeSlots) /\ Proof!FreeSlots # {}
        /\ plan.kind = "application" => store.label[plan.preset] # None
    <3> DEFINE made(p) == [kind |-> plan.kind, slot |-> Proof!First(Proof!FreeSlots), preset |-> p,
                           before |-> Proof!Identity,
                           after |-> IF plan.kind = "calibration"
                                     THEN [Proof!Identity EXCEPT !.label[p] = "ours"]
                                     ELSE Proof!Identity]
    <3>1. PICK p : plan = made(p)
      BY <1>2, <1>3 DEF Proof!Preview
    <3>2. plan.preset = p
      BY <3>1
    <3>3. Proof!FreeSlots # {} /\ (plan.kind = "application" => store.label[plan.preset] # None)
      BY <1>2, <1>3 DEF Proof!Preview
    <3> QED BY <3>1, <3>2, <3>3
  <2>2. store.label \in [Presets -> Proof!Labels]
    BY DEF QuietInv, PlanKept
  <2>3. PlanKept'
    <3>1. plan.before = [members |-> store.members, label |-> store.label]
      BY <2>1 DEF Proof!Identity
    <3>2. plan.after = [plan.before EXCEPT !.label =
              IF plan.kind = "calibration" THEN [@ EXCEPT ![plan.preset] = "ours"] ELSE @]
      BY <2>1, <3>1
    <3>3. plan.kind # "raw" => plan.after.label[plan.preset] # None
      <4>1. CASE plan.kind = "calibration"
        <5>1. plan.after.label = [store.label EXCEPT ![plan.preset] = "ours"]
          BY <3>1, <3>2, <4>1
        <5>2. plan.after.label[plan.preset] = "ours"
          BY <1>2, <2>2, <4>1, <5>1
        <5> QED BY <5>2 DEF Proof!EvidenceAssumption
      <4>2. CASE plan.kind = "application"
        BY <2>1, <3>1, <4>2 DEF Proof!Identity
      <4> QED BY <1>2, <4>1, <4>2 DEF Kinds
    <3> QED BY <1>1, <1>3, <2>2, <3>1, <3>2, <3>3 DEF PlanKept, Reading
  <2>4. quiet => seq' = None
    <3>1. Proof!FreeSlots \in SUBSET Nat
      BY ProbesAre DEF Proof!FreeSlots
    <3>2. plan.slot \in Proof!FreeSlots
      BY <2>1, <3>1, LeastOfPool
    <3>3. quiet => plan.slot \notin taken
      BY <1>1, <3>2 DEF QuietInv, SureReading, Proof!FreeSlots
    <3> QED BY <1>3, <3>3
  <2>5. ShowPlanned'
    <3>1. plan.before.members = store.members /\ plan.before.label = store.label
      BY <2>1 DEF Proof!Identity
    <3> QED BY <1>1, <1>3, <3>1 DEF QuietInv, SureReading, ShowPlanned
  <2>6. Programmer' /\ Written'
    BY <1>1, <1>3, <2>4 DEF Programmer, Written, Reading
  <2>7. SureReading' /\ NoDesign'
    BY <1>3 DEF SureReading, NoDesign
  <2> QED BY <1>1, <1>3, <2>3, <2>5, <2>6, <2>7, NotConcluded, LastRests DEF QuietInv
<1>4. CASE pc' = "idle" /\ result' = None
  <2>1. SureReading' /\ NoDesign' /\ PlanKept'
    BY <1>1, <1>4 DEF QuietInv, SureReading, NoDesign, PlanKept, Executing, Reading
  <2> QED BY <1>1, <1>4, <2>1, NotExecuting, NotConcluded, LastRests DEF QuietInv
<1> QED BY <1>1, <1>3, <1>4 DEF Proof!Revalidate, Proof!Leave

LEMMA QuietActs ==
    ASSUME EvidenceInv, QuietInv, Proof!EvidenceAssumption, Proof!Acts PROVE QuietInv'
<1>1. CASE Proof!Register
  <2>1. /\ pc = "judge" /\ pc' = "idle" /\ result' = None
        /\ UNCHANGED <<store, last, applications>>
    BY <1>1 DEF Proof!Register, Proof!Leave, Proof!reading, Proof!files
  <2>2. SureReading' /\ NoDesign' /\ PlanKept'
    BY <2>1 DEF QuietInv, SureReading, NoDesign, PlanKept, Executing, Reading
  <2> QED BY <2>1, <2>2, NotExecuting, NotConcluded, LastRests DEF QuietInv
<1>2. CASE Proof!Revalidate
  BY <1>2, QuietRevalidate
<1> QED BY <1>1, <1>2, QuietSend, QuietIgnore, QuietRefuse, QuietCheck, QuietMetadata, QuietExport,
           QuietJudge, QuietRecord, QuietClear DEF Proof!Acts

LEMMA QuietCrash ==
    ASSUME QuietInv, Proof!Crash PROVE QuietInv'
<1>1. pc' = "idle" /\ store' = Proof!Blank /\ last' = None /\ ~quiet'
  BY DEF Proof!Crash
<1>2. store'.label \in [Presets -> Proof!Labels]
  BY <1>1 DEF Proof!Blank, Proof!Labels
<1>3. PlanKept' /\ LastKept' /\ NoDesign'
  BY <1>1, <1>2 DEF PlanKept, LastKept, NoDesign, Executing, Reading
<1> QED BY <1>1, <1>3, Disturbed DEF QuietInv

LEMMA QuietEdits ==
    ASSUME QuietInv, Proof!Edits PROVE QuietInv'
<1>1. /\ UNCHANGED <<store, pc, phase, plan, last, applications>>
      /\ result' = (IF pc = "idle" THEN None ELSE result) /\ ~quiet'
  BY DEF Proof!Edits, Proof!Edit, Proof!reading, Proof!control, Proof!files
<1>2. PlanKept' /\ NoDesign'
  BY <1>1 DEF QuietInv, PlanKept, NoDesign, Executing, Proof!Identity
<1> QED BY <1>1, <1>2, Disturbed, LastRests DEF QuietInv

LEMMA QuietRests ==
    ASSUME QuietInv, UNCHANGED OwnEvidence PROVE QuietInv'
<1>1. Cue1' = Cue1 /\ Cue2' = Cue2
  BY CuesRest DEF OwnEvidence
<1>2. SureReading' /\ PlanKept' /\ ShowPlanned'
  BY DEF QuietInv, OwnEvidence, SureReading, PlanKept, ShowPlanned, Executing, Proof!Identity
<1>3. Programmer' /\ Written'
  BY <1>1 DEF QuietInv, OwnEvidence, Programmer, Written
<1>4. LastKept' /\ Concluded' /\ NoDesign' /\ Proof!QuietVerifies'
  BY DEF QuietInv, OwnEvidence, LastKept, Concluded, NoDesign, Proof!QuietVerifies, Proof!Now
<1> QED BY <1>2, <1>3, <1>4 DEF QuietInv

LEMMA QuietStep ==
    ASSUME EvidenceInv, QuietInv, Proof!EvidenceAssumption, Proof!Next PROVE QuietInv'
<1>1. CASE Proof!Rest
  <2>1. UNCHANGED OwnEvidence
    BY <1>1 DEF Proof!Rest, OwnEvidence, Proof!vars, Proof!console, Proof!reading,
                Proof!control, Proof!files, Proof!design, Proof!history, Proof!bounds
  <2> QED BY <2>1, QuietRests
<1> QED BY <1>1, QuietAsks, QuietReads, QuietUses, QuietActs, QuietCrash, QuietEdits
        DEF Proof!Next

LEMMA QuietInit == ASSUME Proof!Init PROVE QuietInv
<1>1. pc = "idle" /\ last = None /\ result = None /\ ~quiet /\ store = Proof!Blank
  BY DEF Proof!Init
<1>2. store.label \in [Presets -> Proof!Labels]
  BY <1>1 DEF Proof!Blank, Proof!Labels
<1>3. PlanKept /\ LastKept /\ NoDesign
  BY <1>1, <1>2 DEF PlanKept, LastKept, NoDesign, Executing, Reading
<1>4. SureReading /\ ShowPlanned /\ Programmer /\ Written /\ Concluded /\ Proof!QuietVerifies
  BY <1>1 DEF SureReading, ShowPlanned, Programmer, Written, Concluded, Proof!QuietVerifies
<1> QED BY <1>3, <1>4 DEF QuietInv

\* What a probe that nothing disturbs has done, command by command: the show is
\* the one of its plan, the programmer and the sequence hold what it was to set,
\* and the row recorded last is kept (Evidence).
THEOREM QuietInvariantHolds == AllSpec => []QuietInvariant
<1>1. AllInit => QuietInvariant
  BY QuietInit DEF AllInit, QuietInvariant
<1>2. EvidenceInvariant /\ QuietInvariant /\ [AllNext]_<<part, vars, OwnEvidence>>
          => QuietInvariant'
  <2> SUFFICES ASSUME EvidenceInvariant, QuietInvariant, part' = "evidence",
                      [AllNext]_<<part, vars, OwnEvidence>>
               PROVE  QuietInv'
    BY DEF QuietInvariant
  <2>1. CASE part = "evidence" /\ Proof!Next
    BY <2>1, QuietStep, ConstantsFit DEF EvidenceInvariant, QuietInvariant
  <2>2. CASE part' = part /\ UNCHANGED OwnEvidence
    BY <2>2, QuietRests DEF QuietInvariant
  <2> QED BY <2>1, <2>2 DEF AllNext
<1> QED BY <1>1, <1>2, EvidenceInvariantHolds, PTL DEF AllSpec

\* An approved probe that nothing disturbs is verified and recorded, unless the
\* preset holds no values for a member of the group, and a reading that nothing
\* disturbs offers the row recorded last while the show is as it was, for any
\* fixtures, presets, tasks and mishaps (Evidence, the three executors,
\* load_verified).
THEOREM QuietProbesAreVerified == AllSpec => []QuietVerifies
<1>1. QuietInvariant => QuietVerifies
  BY DEF QuietInvariant, QuietInv, QuietVerifies
<1> QED BY <1>1, QuietInvariantHolds, PTL

============
