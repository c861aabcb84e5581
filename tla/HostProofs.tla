----------------------------- MODULE HostProofs -----------------------------
(***************************************************************************)
(* The watchdog and the cache of the show, for any number of components,   *)
(* threads, resources and sessions.                                        *)
(*                                                                         *)
(* The watchdog: its events are one history and a snapshot agrees with     *)
(* them, because an observation reports every component that changed once  *)
(* (CountedOff, ReportIs) and what is dropped is the beginning             *)
(* (TrimKeepsEnd).  It never goes back as long as no join gave up, because *)
(* there is one poller then (Alone), and what that has observed is no      *)
(* older than what is known (Ages).                                        *)
(*                                                                         *)
(* The cache: what is stored of a resource is what was reported of it,     *)
(* until a snapshot is written over one that was not seen (raced); an      *)
(* answer is filed under its own item, because a thread that waits has the *)
(* client to itself until two share one (mingled) and everything answered  *)
(* is for someone who waits (ForThem).                                     *)
(***************************************************************************)
EXTENDS MCHost, SequenceTheorems, FiniteSetTheorems, TLAPS

-----------------------------------------------------------------------------
(* The watchdog.                                                            *)

LEMMA Counts == \A S : Watch!Cardinality(S) = Cardinality(S)
    BY Zenon DEF Watch!Cardinality, Cardinality

\* How many members of a set of numbers are not above one tells it apart from the
\* others: counting them off reaches each exactly once.
LEMMA CountedOff ==
    ASSUME NEW n \in Nat, NEW S \in SUBSET (1..n)
    PROVE  /\ Cardinality(S) \in Nat
           /\ \A i \in 1..Cardinality(S) :
                 /\ Watch!Nth(S, i) \in S
                 /\ Cardinality({m \in S : m <= Watch!Nth(S, i)}) = i
           /\ \A x \in S : \E i \in 1..Cardinality(S) : Watch!Nth(S, i) = x
<1> DEFINE Below(x) == {m \in S : m <= x}
           count == [x \in S |-> Cardinality(Below(x))]
<1>1. IsFiniteSet(S) /\ Cardinality(S) \in Nat
  <2>1. IsFiniteSet(1..n)
    BY FS_Interval
  <2> QED BY <2>1, FS_Subset, FS_CardinalityType
<1>2. ASSUME NEW x \in S
      PROVE  /\ IsFiniteSet(Below(x)) /\ Cardinality(Below(x)) \in 1..Cardinality(S)
  <2>1. IsFiniteSet(Below(x)) /\ Cardinality(Below(x)) \in Nat
            /\ Cardinality(Below(x)) <= Cardinality(S)
    BY <1>1, FS_Subset, FS_CardinalityType
  <2>2. x \in Below(x)
    OBVIOUS
  <2>3. Cardinality(Below(x)) # 0
    BY <2>1, <2>2, FS_EmptySet
  <2> QED BY <1>1, <2>1, <2>3
<1>3. ASSUME NEW x \in S, NEW y \in S, x < y
      PROVE  Cardinality(Below(x)) # Cardinality(Below(y))
  <2>1. Below(x) \in SUBSET Below(y) /\ y \in Below(y) /\ y \notin Below(x)
    <3>1. \A m \in S : m \in Int
        OBVIOUS
    <3>2. x \in Int /\ y \in Int /\ (\A m \in S : m <= x => m <= y) /\ ~(y <= x) /\ y <= y
        BY <1>3, <3>1
    <3> QED BY <3>2
  <2>2. IsFiniteSet(Below(y))
    BY <1>2
  <2> QED BY <2>1, <2>2, FS_Subset
<1> HIDE DEF Below
<1>4. count \in Injection(S, 1..Cardinality(S))
  <2>1. count \in [S -> 1..Cardinality(S)]
    BY <1>2
  <2>2. \A x, y \in S : count[x] = count[y] => x = y
    <3> SUFFICES ASSUME NEW x \in S, NEW y \in S, count[x] = count[y], x # y PROVE FALSE
        OBVIOUS
    <3>1. x < y \/ y < x
        OBVIOUS
    <3> QED BY <1>3, <3>1
  <2> QED BY <2>1, <2>2 DEF Injection, IsInjective
<1>5. count \in Surjection(S, 1..Cardinality(S))
  <2>1. IsFiniteSet(1..Cardinality(S)) /\ Cardinality(1..Cardinality(S)) = Cardinality(S)
    BY <1>1, FS_Interval
  <2> QED BY <1>4, <2>1, FS_Injection
<1>6. \A i \in 1..Cardinality(S) : \E x \in S : count[x] = i
    BY <1>5 DEF Surjection
<1>7. \A x, y \in S : count[x] = count[y] => x = y
    BY <1>4 DEF Injection, IsInjective
<1>8. ASSUME NEW i \in 1..Cardinality(S)
      PROVE  /\ Watch!Nth(S, i) \in S
             /\ Cardinality({m \in S : m <= Watch!Nth(S, i)}) = i
  <2>1. \E x \in S : Cardinality({m \in S : m <= x}) = i
    BY <1>6 DEF Below
  <2>2. Watch!Nth(S, i) = CHOOSE x \in S : Cardinality({m \in S : m <= x}) = i
    BY Counts, Zenon DEF Watch!Nth
  <2> QED BY <2>1, <2>2, Zenon
<1>9. ASSUME NEW x \in S PROVE \E i \in 1..Cardinality(S) : Watch!Nth(S, i) = x
  <2>1. count[x] \in 1..Cardinality(S)
    BY <1>4 DEF Injection, IsInjective
  <2>2. Watch!Nth(S, count[x]) \in S
    BY <1>8, <2>1
  <2>3. count[Watch!Nth(S, count[x])] = count[x]
    BY <1>8, <2>1, <2>2 DEF Below
  <2>4. Watch!Nth(S, count[x]) = x
    BY <1>7, <2>2, <2>3
  <2> QED BY <2>1, <2>4
<1> QED BY <1>1, <1>8, <1>9

WatchTypes ==
    /\ actual \in [Watch!Components -> Watch!States] /\ age \in [Watch!Components -> Nat]
    /\ applied \in [Watch!Components -> Nat]
    /\ thread \in Threads \cup {NoThread}
    /\ pc \in [Watch!Pollers -> {"off", "wait", "observe", "spawn", "join"}]
    /\ at \in [Watch!Pollers -> 1..N + 1]

NotedTypes ==
    /\ seen \in [Watch!Pollers -> [Watch!Components -> Watch!States]]
    /\ noted \in [Watch!Pollers -> [Watch!Components -> Nat]]

EventTypes ==
    /\ known \in [Watch!Components -> Watch!States \cup {"ABSENT"}]
    /\ events \in Seq(Watch!Events) /\ Len(events) <= Capacity
    /\ sequence \in Nat

WatchFlags == stopped \in BOOLEAN /\ overran \in BOOLEAN

LEMMA WatchHasTypes ==
    Watch!TypeOK <=> WatchTypes /\ NotedTypes /\ EventTypes /\ WatchFlags
    BY DEF Watch!TypeOK, WatchTypes, NotedTypes, EventTypes, WatchFlags, Watch!Absent

LEMMA WatchTypesNext ==
    WatchTypes' /\ NotedTypes' /\ EventTypes' /\ WatchFlags' => Watch!TypeOK'
    BY DEF Watch!TypeOK, WatchTypes, NotedTypes, EventTypes, WatchFlags, Watch!Absent

\* As long as no join has given up, the service's thread is the only one, and it
\* is not running when the host observes.
Alone ==
    ~overran =>
        /\ \A t \in Threads : pc[t] # "off" => t = thread
        /\ pc[Host] \in {"observe", "spawn"} => \A t \in Threads : pc[t] = "off"

\* What a poller has observed is no older than what is known.
Ages ==
    /\ \A p \in Watch!Pollers : pc[p] # "observe" => at[p] = 1
    /\ \A c \in Watch!Components :
          /\ applied[c] <= age[c]
          /\ \A p \in Watch!Pollers : noted[p][c] <= age[c]
    /\ ~overran =>
          \A p \in Watch!Pollers, c \in Watch!Components :
              pc[p] = "observe" /\ c < at[p] => applied[c] <= noted[p][c]

\* The deque holds the last events of the history, all of them while it is not full.
Kept == Len(events) = IF sequence <= Capacity THEN sequence ELSE Capacity

WatchInv ==
    /\ Watch!TypeOK /\ Alone /\ Ages
    /\ Kept /\ Watch!EventsChained /\ Watch!SnapshotAgrees

WatchInvariant == part = "watchdog" => WatchInv

\* deque(maxlen = event_capacity): what is left is the end.
LEMMA TrimKeepsEnd ==
    ASSUME Watch!WatchdogAssumption, NEW S, NEW q \in Seq(S)
    PROVE  /\ Watch!Trim(q) \in Seq(S) /\ Len(q) \in Nat
           /\ Len(Watch!Trim(q)) = IF Len(q) > Capacity THEN Capacity ELSE Len(q)
           /\ \A i \in 1..Len(Watch!Trim(q)) :
                 Watch!Trim(q)[i] = q[i + (Len(q) - Len(Watch!Trim(q)))]
<1>1. Capacity \in Nat \ {0} /\ Len(q) \in Nat
    BY DEF Watch!WatchdogAssumption
<1>2. CASE Len(q) > Capacity
  <2> DEFINE m == Len(q) - Capacity + 1
             r == SubSeq(q, m, Len(q))
  <2>1. m \in 1..Len(q) /\ Watch!Trim(q) = r
    BY <1>1, <1>2 DEF Watch!Trim
  <2>2. r \in Seq(S) /\ Len(r) = Len(q) - m + 1 /\ \A i \in 1..(Len(q) - m + 1) : r[i] = q[m + i - 1]
    BY <1>1, <2>1, SubSeqProperties
  <2> QED BY <1>1, <1>2, <2>1, <2>2
<1>3. CASE Len(q) <= Capacity
  <2>1. Watch!Trim(q) = q
    BY <1>1, <1>3 DEF Watch!Trim
  <2> QED BY <1>1, <1>3, <2>1
<1> QED BY <1>1, <1>2, <1>3

\* An observation reports every component that changed once, where it was and is.
LEMMA ReportIs ==
    ASSUME Watch!WatchdogAssumption, WatchInv,
           NEW observed \in [Watch!Components -> Watch!States]
    PROVE  LET q == Watch!Report(observed) IN
           /\ q \in Seq(Watch!Events) /\ Len(q) \in Nat
           /\ \A i \in 1..Len(q) :
                 /\ q[i].sequence = sequence + i /\ q[i].component \in Watch!Components
                 /\ Watch!Reportable(known[q[i].component], observed[q[i].component])
                 /\ q[i].previous = known[q[i].component]
                 /\ q[i].current = observed[q[i].component]
           /\ \A i, j \in 1..Len(q) : q[i].component = q[j].component => i = j
           /\ \A c \in Watch!Components : Watch!Reportable(known[c], observed[c]) =>
                 \E i \in 1..Len(q) : q[i].component = c
<1> USE WatchHasTypes DEF WatchInv
<1> DEFINE changed == Watch!Changed(observed)
           q == Watch!Report(observed)
           Event(i) == [sequence |-> sequence + i, component |-> Watch!Nth(changed, i),
                        previous |-> known[Watch!Nth(changed, i)],
                        current |-> observed[Watch!Nth(changed, i)]]
<1>1. N \in Nat /\ changed \in SUBSET (1..N)
    BY DEF Watch!WatchdogAssumption, Watch!Changed, Watch!Components
<1>2. q = [i \in 1..Cardinality(changed) |-> Event(i)]
    BY Counts, Zenon DEF Watch!Report
<1>3. /\ Cardinality(changed) \in Nat
      /\ \A i \in 1..Cardinality(changed) :
            /\ Watch!Nth(changed, i) \in changed
            /\ Cardinality({m \in changed : m <= Watch!Nth(changed, i)}) = i
      /\ \A x \in changed : \E i \in 1..Cardinality(changed) : Watch!Nth(changed, i) = x
    BY <1>1, CountedOff
<1>4. \A c \in Watch!Components :
          c \in changed <=> Watch!Reportable(known[c], observed[c])
    BY DEF Watch!Changed
<1>5. \A i \in 1..Cardinality(changed) : Watch!Nth(changed, i) \in Watch!Components
    BY <1>3 DEF Watch!Changed
<1> HIDE DEF changed
<1>6. \A i \in 1..Cardinality(changed) : Event(i) \in Watch!Events
    BY <1>3, <1>5 DEF Watch!Events, EventTypes, Watch!Absent
<1>7. q \in Seq(Watch!Events) /\ Len(q) = Cardinality(changed)
    BY <1>2, <1>3, <1>6
<1>8. \A i \in 1..Cardinality(changed) : q[i] = Event(i)
    BY <1>2
<1> HIDE DEF q
<1>9. \A i \in 1..Len(q) : q[i].component = Watch!Nth(changed, i) /\ q[i].sequence = sequence + i
          /\ q[i].previous = known[Watch!Nth(changed, i)]
          /\ q[i].current = observed[Watch!Nth(changed, i)]
    BY <1>7, <1>8
<1>10. \A i, j \in 1..Len(q) : q[i].component = q[j].component => i = j
  <2> SUFFICES ASSUME NEW i \in 1..Len(q), NEW j \in 1..Len(q),
                      Watch!Nth(changed, i) = Watch!Nth(changed, j)
               PROVE  i = j
    BY <1>9
  <2>1. PICK x : x = Watch!Nth(changed, i) /\ x = Watch!Nth(changed, j)
    OBVIOUS
  <2>2. Cardinality({m \in changed : m <= x}) = i /\ Cardinality({m \in changed : m <= x}) = j
    BY <1>3, <1>7, <2>1, Zenon
  <2> QED BY <2>2
<1>11. \A c \in Watch!Components : Watch!Reportable(known[c], observed[c]) =>
           \E i \in 1..Len(q) : q[i].component = c
    BY <1>3, <1>4, <1>7, <1>9
<1>12. \A i \in 1..Len(q) :
           /\ q[i].component \in Watch!Components
           /\ Watch!Reportable(known[q[i].component], observed[q[i].component])
    BY <1>3, <1>4, <1>5, <1>7, <1>9
<1> QED BY <1>3, <1>7, <1>9, <1>10, <1>11, <1>12 DEF q

\* An observation continues the history.
LEMMA ObserveDoes ==
    ASSUME Watch!WatchdogAssumption, WatchInv,
           NEW observed \in [Watch!Components -> Watch!States], Watch!Observe(observed)
    PROVE  EventTypes' /\ Kept' /\ Watch!EventsChained' /\ Watch!SnapshotAgrees'
<1> USE WatchHasTypes DEF WatchInv
<1>0. PICK q : q = Watch!Report(observed)
    OBVIOUS
<1>1. /\ q \in Seq(Watch!Events) /\ Len(q) \in Nat
      /\ \A i \in 1..Len(q) :
            /\ q[i].sequence = sequence + i /\ q[i].component \in Watch!Components
            /\ Watch!Reportable(known[q[i].component], observed[q[i].component])
            /\ q[i].previous = known[q[i].component]
            /\ q[i].current = observed[q[i].component]
      /\ \A i, j \in 1..Len(q) : q[i].component = q[j].component => i = j
      /\ \A c \in Watch!Components : Watch!Reportable(known[c], observed[c]) =>
            \E i \in 1..Len(q) : q[i].component = c
    BY <1>0, ReportIs
<1>2. PICK h : h = events \o q
    OBVIOUS
<1>3. /\ events \in Seq(Watch!Events) /\ Len(events) \in Nat
      /\ h \in Seq(Watch!Events) /\ Len(h) = Len(events) + Len(q)
      /\ \A i \in 1..Len(events) : h[i] = events[i]
      /\ \A i \in 1..Len(q) : h[Len(events) + i] = q[i]
  <2>1. events \in Seq(Watch!Events) /\ Len(events) \in Nat
    BY LenProperties DEF EventTypes
  <2>2. /\ h \in Seq(Watch!Events) /\ Len(h) = Len(events) + Len(q)
        /\ \A i \in 1..(Len(events) + Len(q)) :
              h[i] = IF i <= Len(events) THEN events[i] ELSE q[i - Len(events)]
    BY <1>1, <1>2, <2>1, ConcatProperties
  <2>3. ASSUME NEW i \in 1..Len(q) PROVE h[Len(events) + i] = q[i]
    <3>1. /\ Len(events) + i \in 1..(Len(events) + Len(q)) /\ ~(Len(events) + i <= Len(events))
          /\ (Len(events) + i) - Len(events) = i
        BY <1>1, <2>1
    <3> QED BY <2>2, <3>1
  <2> QED BY <1>1, <2>1, <2>2, <2>3
<1>4. /\ known' = observed /\ events' = Watch!Trim(h) /\ sequence' = sequence + Len(q)
    BY <1>0, <1>2 DEF Watch!Observe
<1>5. PICK d : d = Len(h) - Len(events')
    OBVIOUS
<1>6. /\ events' \in Seq(Watch!Events)
      /\ Len(events') = IF Len(h) > Capacity THEN Capacity ELSE Len(h)
      /\ \A i \in 1..Len(events') : events'[i] = h[i + d]
    BY <1>3, <1>4, <1>5, TrimKeepsEnd
<1>7. Capacity \in Nat \ {0} /\ sequence \in Nat
    BY DEF Watch!WatchdogAssumption, EventTypes
<1>8. /\ d \in Nat /\ Len(h) = Len(events') + d /\ Len(events') \in Nat
      /\ \A i \in 1..Len(events') : i + d \in 1..Len(h)
  <2>1. Len(h) \in Nat /\ Len(events') \in Nat /\ Len(events') <= Len(h)
    BY <1>1, <1>3, <1>6, <1>7
  <2>2. d \in Nat /\ Len(h) = Len(events') + d
    BY <1>5, <2>1
  <2>3. ASSUME NEW i \in 1..Len(events') PROVE i + d \in 1..Len(h)
    BY <2>1, <2>2
  <2> QED BY <2>1, <2>2, <2>3
<1>9. EventTypes'
    BY <1>1, <1>4, <1>6, <1>7, <1>8 DEF EventTypes, Watch!Absent
<1>10. Kept'
    BY <1>1, <1>3, <1>4, <1>6, <1>7 DEF Kept
<1>11. \A c \in Watch!Components : known[c] \in Watch!States \cup {"ABSENT"} /\ observed[c] \in Watch!States
    BY DEF EventTypes
\* The history with the new events, before its beginning is dropped.
<1>12. ASSUME NEW j \in 1..Len(h)
       PROVE  /\ h[j].sequence = sequence' - Len(h) + j
              /\ h[j].previous # h[j].current
  <2>1. CASE j \in 1..Len(events)
    <3>1. /\ events[j].sequence = sequence - Len(events) + j
          /\ events[j].previous # events[j].current
        BY <2>1 DEF Watch!EventsChained
    <3> QED BY <1>1, <1>3, <1>4, <1>7, <2>1, <3>1
  <2>2. CASE j > Len(events)
    <3>1. j - Len(events) \in 1..Len(q) /\ Len(events) + (j - Len(events)) = j
        BY <1>1, <1>3, <2>2
    <3>2. h[j] = q[j - Len(events)]
        BY <1>3, <3>1
    <3>3. h[j].sequence = sequence + (j - Len(events))
        BY <1>1, <3>1, <3>2
    <3>4. h[j].previous # h[j].current
        BY <1>1, <3>1, <3>2 DEF Watch!Reportable
    <3> QED BY <1>1, <1>3, <1>4, <1>7, <3>3, <3>4
  <2> QED BY <1>3, <2>1, <2>2
<1>13. ASSUME NEW c \in Watch!Components, NEW i \in 1..Len(events), events[i].component = c,
              \A k \in (i + 1)..Len(events) : events[k].component # c
       PROVE  known[c] \in {events[i].current, "UNKNOWN"}
    BY <1>3, <1>13 DEF Watch!SnapshotAgrees, Watch!Quiet
<1>14. ASSUME NEW j \in 1..Len(h), NEW i \in 1..(j - 1), h[i].component = h[j].component,
              \A k \in (i + 1)..(j - 1) : h[k].component # h[j].component
       PROVE  h[j].previous \in {h[i].current, "UNKNOWN"}
  <2>1. CASE j \in 1..Len(events)
    <3>1. i \in 1..Len(events) /\ \A k \in (i + 1)..(j - 1) : k \in 1..Len(events)
        BY <1>3, <2>1
    <3>2. h[i] = events[i] /\ h[j] = events[j] /\ \A k \in (i + 1)..(j - 1) : h[k] = events[k]
        BY <1>3, <2>1, <3>1
    <3> QED BY <1>14, <2>1, <3>1, <3>2 DEF Watch!EventsChained, Watch!Quiet
  <2>2. CASE j > Len(events)
    <3>1. j - Len(events) \in 1..Len(q) /\ Len(events) + (j - Len(events)) = j
        BY <1>1, <1>3, <2>2
    <3>2. h[j] = q[j - Len(events)]
        BY <1>3, <3>1
    <3>3. /\ h[j].component \in Watch!Components /\ h[j].previous = known[h[j].component]
        BY <1>1, <3>1, <3>2
    <3>4. i <= Len(events)
      <4> SUFFICES ASSUME i > Len(events) PROVE FALSE
        BY <1>3
      <4>1. i - Len(events) \in 1..Len(q) /\ Len(events) + (i - Len(events)) = i
        BY <1>1, <1>3
      <4>2. h[i] = q[i - Len(events)]
        BY <1>3, <4>1
      <4>3. i - Len(events) = j - Len(events)
        BY <1>1, <1>14, <3>1, <3>2, <4>1, <4>2
      <4> QED BY <1>3, <4>3
    <3>5. i \in 1..Len(events) /\ h[i] = events[i]
        BY <1>3, <3>4
    <3>6. \A k \in (i + 1)..Len(events) : k \in (i + 1)..(j - 1) /\ h[k] = events[k]
        BY <1>3, <2>2, <3>5
    <3>7. known[h[j].component] \in {events[i].current, "UNKNOWN"}
        BY <1>13, <1>14, <3>3, <3>5, <3>6
    <3> QED BY <3>3, <3>5, <3>7
  <2> QED BY <1>3, <2>1, <2>2
<1>15. ASSUME NEW c \in Watch!Components, NEW i \in 1..Len(h), h[i].component = c,
              \A k \in (i + 1)..Len(h) : h[k].component # c
       PROVE  observed[c] \in {h[i].current, "UNKNOWN"}
  <2>1. CASE i > Len(events)
    <3>1. i - Len(events) \in 1..Len(q) /\ Len(events) + (i - Len(events)) = i
        BY <1>1, <1>3, <2>1
    <3>2. h[i] = q[i - Len(events)]
        BY <1>3, <3>1
    <3> QED BY <1>1, <1>15, <3>1, <3>2
  <2>2. CASE i <= Len(events)
    <3>1. i \in 1..Len(events) /\ h[i] = events[i]
        BY <1>3, <2>2
    <3>2. \A k \in (i + 1)..Len(events) : k \in (i + 1)..Len(h) /\ h[k] = events[k]
        BY <1>1, <1>3, <3>1
    <3>3. known[c] \in {events[i].current, "UNKNOWN"}
        BY <1>13, <1>15, <3>1, <3>2
    <3>4. ~Watch!Reportable(known[c], observed[c])
      <4>1. ASSUME NEW k \in 1..Len(q) PROVE q[k].component # c
        <5>1. Len(events) + k \in (i + 1)..Len(h) /\ h[Len(events) + k] = q[k]
            BY <1>1, <1>3, <3>1
        <5> QED BY <1>15, <5>1
      <4> QED BY <1>1, <4>1
    <3>5. events[i].current \in Watch!States
      <4>1. events[i] \in Watch!Events
        BY <1>3, <3>1
      <4> QED BY <4>1 DEF Watch!Events
    <3> QED BY <1>11, <3>1, <3>3, <3>4, <3>5 DEF Watch!Reportable, Watch!Absent, Watch!States
  <2> QED BY <1>3, <2>1, <2>2
<1>16. ASSUME NEW c \in Watch!Components, sequence' <= Capacity,
              \A k \in 1..Len(h) : h[k].component # c
       PROVE  observed[c] \in {"ABSENT", "ONLINE", "UNKNOWN"}
  <2>1. \A k \in 1..Len(events) : k \in 1..Len(h) /\ h[k] = events[k]
    BY <1>1, <1>3
  <2>2. sequence <= Capacity
    BY <1>1, <1>4, <1>7, <1>16
  <2>3. Watch!Quiet(c, 0, Len(events) + 1)
    BY <1>3, <1>16, <2>1 DEF Watch!Quiet
  <2>4. known[c] \in {"ABSENT", "ONLINE", "UNKNOWN"}
    BY <2>2, <2>3 DEF Watch!SnapshotAgrees, Watch!Absent
  <2>5. ~Watch!Reportable(known[c], observed[c])
    <3>1. ASSUME NEW k \in 1..Len(q) PROVE q[k].component # c
      <4>1. Len(events) + k \in 1..Len(h) /\ h[Len(events) + k] = q[k]
        BY <1>1, <1>3
      <4> QED BY <1>16, <4>1
    <3> QED BY <1>1, <3>1
  <2> QED BY <1>11, <2>4, <2>5 DEF Watch!Reportable, Watch!Absent, Watch!States
\* What is kept is the end of it.
<1>17. Watch!EventsChained'
  <2> SUFFICES ASSUME NEW j \in 1..Len(events')
               PROVE  /\ events'[j].sequence = sequence' - Len(events') + j
                      /\ events'[j].previous # events'[j].current
                      /\ \A i \in 1..(j - 1) :
                            events'[i].component = events'[j].component
                                /\ (\A k \in (i + 1)..(j - 1) :
                                       events'[k].component # events'[j].component)
                            => events'[j].previous \in {events'[i].current, "UNKNOWN"}
    BY Zenon DEF Watch!EventsChained, Watch!Quiet
  <2>1. j + d \in 1..Len(h) /\ events'[j] = h[j + d]
    BY <1>6, <1>8
  <2>2. /\ h[j + d].sequence = sequence' - Len(h) + (j + d)
        /\ h[j + d].previous # h[j + d].current
    BY <1>12, <2>1
  <2>3. events'[j].sequence = sequence' - Len(events') + j
    BY <1>1, <1>4, <1>7, <1>8, <2>1, <2>2
  <2>4. ASSUME NEW i \in 1..(j - 1), events'[i].component = events'[j].component,
               \A k \in (i + 1)..(j - 1) : events'[k].component # events'[j].component
        PROVE  events'[j].previous \in {events'[i].current, "UNKNOWN"}
    <3>1. i \in 1..Len(events') /\ i + d \in 1..((j + d) - 1) /\ events'[i] = h[i + d]
        BY <1>6, <1>8
    <3>2. ASSUME NEW k \in (i + d + 1)..((j + d) - 1) PROVE h[k].component # h[j + d].component
      <4>1. /\ k - d \in (i + 1)..(j - 1) /\ k - d \in 1..Len(events')
            /\ (k - d) + d = k
        <5>1. d \in Nat /\ j \in Int /\ i \in Int /\ 1 <= i /\ j <= Len(events') /\ Len(events') \in Nat
            BY <1>8, <3>1
        <5>2. k \in Int /\ i + d + 1 <= k /\ k <= (j + d) - 1
            BY <5>1
        <5> QED BY <5>1, <5>2
      <4>2. events'[k - d] = h[k]
        BY <1>6, <4>1
      <4> QED BY <2>1, <2>4, <4>1, <4>2
    <3>3. h[i + d].component = h[j + d].component
        BY <2>1, <2>4, <3>1
    <3>4. h[j + d].previous \in {h[i + d].current, "UNKNOWN"}
        BY <1>14, <2>1, <3>1, <3>2, <3>3
    <3> QED BY <2>1, <3>1, <3>4
  <2> QED BY <2>1, <2>2, <2>3, <2>4
<1>18. Watch!SnapshotAgrees'
  <2> SUFFICES ASSUME NEW c \in Watch!Components
               PROVE  /\ \A i \in 1..Len(events') :
                            events'[i].component = c
                                /\ (\A k \in (i + 1)..Len(events') : events'[k].component # c)
                            => observed[c] \in {events'[i].current, "UNKNOWN"}
                      /\ sequence' <= Capacity
                             /\ (\A k \in 1..Len(events') : events'[k].component # c)
                            => observed[c] \in {"ABSENT", "ONLINE", "UNKNOWN"}
    <3>1. \A n \in Nat : (n + 1) - 1 = n /\ 0 + 1 = 1
        OBVIOUS
    <3> QED BY <1>4, <1>8, <3>1 DEF Watch!SnapshotAgrees, Watch!Quiet, Watch!Absent
  <2>1. ASSUME NEW i \in 1..Len(events'), events'[i].component = c,
               \A k \in (i + 1)..Len(events') : events'[k].component # c
        PROVE  observed[c] \in {events'[i].current, "UNKNOWN"}
    <3>1. i + d \in 1..Len(h) /\ events'[i] = h[i + d]
        BY <1>6, <1>8
    <3>2. ASSUME NEW k \in (i + d + 1)..Len(h) PROVE h[k].component # c
      <4>1. /\ k - d \in (i + 1)..Len(events') /\ k - d \in 1..Len(events')
            /\ (k - d) + d = k
        BY <1>8, <3>1
      <4>2. events'[k - d] = h[k]
        BY <1>6, <4>1
      <4> QED BY <2>1, <4>1, <4>2
    <3> QED BY <1>15, <2>1, <3>1, <3>2
  <2>2. ASSUME sequence' <= Capacity, \A k \in 1..Len(events') : events'[k].component # c
        PROVE  observed[c] \in {"ABSENT", "ONLINE", "UNKNOWN"}
    <3>1. d = 0
        BY <1>1, <1>3, <1>4, <1>6, <1>7, <1>8, <2>2 DEF Kept
    <3>2. \A k \in 1..Len(h) : k \in 1..Len(events') /\ events'[k] = h[k]
        BY <1>6, <1>8, <3>1
    <3> QED BY <1>16, <2>2, <3>2
  <2> QED BY <2>1, <2>2
<1> QED BY <1>9, <1>10, <1>17, <1>18

LEMMA WatchInit ==
    ASSUME Watch!WatchdogAssumption, Watch!Init
    PROVE  WatchInv
<1>1. N \in Nat /\ Capacity \in 1..128 /\ Host \notin Threads
    BY DEF Watch!WatchdogAssumption
<1>2. EventTypes
    BY <1>1, EmptySeq DEF Watch!Init, EventTypes, Watch!Absent
<1>3. WatchTypes
  <2>1. actual \in [Watch!Components -> Watch!States]
    <3>1. Seen \subseteq Watch!States /\ actual \in [Watch!Components -> Seen]
        BY DEF Watch!Init, Watch!WatchdogAssumption
    <3> QED BY <3>1
  <2>2. 1 \in 1..N + 1
    BY <1>1
  <2> QED BY <2>1, <2>2 DEF Watch!Init, WatchTypes, Watch!NoAge
<1>4. NotedTypes
    BY DEF Watch!Init, NotedTypes, Watch!NothingSeen, Watch!NoAge, Watch!States
<1>5. WatchFlags
    BY DEF Watch!Init, WatchFlags
<1>6. Alone /\ Ages
    BY <1>1 DEF Watch!Init, Alone, Ages, Watch!NoAge, Watch!Components, Watch!Pollers
<1>7. Kept /\ Watch!EventsChained
    BY <1>1, EmptySeq DEF Watch!Init, Kept, Watch!EventsChained
<1>8. Watch!SnapshotAgrees
    BY <1>1, EmptySeq DEF Watch!Init, Watch!SnapshotAgrees, Watch!Absent
<1> QED BY <1>2, <1>3, <1>4, <1>5, <1>6, <1>7, <1>8, WatchHasTypes DEF WatchInv

LEMMA MonitorRests ==
    ASSUME WatchInv, UNCHANGED <<known, events, sequence>>
    PROVE  EventTypes' /\ Kept' /\ Watch!EventsChained' /\ Watch!SnapshotAgrees'
<1>1. EventTypes'
    BY WatchHasTypes DEF WatchInv, EventTypes
<1>2. Kept'
    BY DEF WatchInv, Kept
<1>3. Watch!EventsChained'
    BY DEF WatchInv, Watch!EventsChained, Watch!Quiet
<1>4. Watch!SnapshotAgrees'
    BY DEF WatchInv, Watch!SnapshotAgrees, Watch!Quiet
<1> QED BY <1>1, <1>2, <1>3, <1>4

LEMMA WatchStep ==
    ASSUME Watch!WatchdogAssumption, WatchInv, Watch!Next
    PROVE  WatchInv' /\ Watch!NotBack
<1> USE WatchHasTypes DEF WatchInv
<1> DEFINE Goal == WatchInv' /\ Watch!NotBack
           Monitor == EventTypes' /\ Kept' /\ Watch!EventsChained' /\ Watch!SnapshotAgrees'
<1>0. /\ N \in Nat /\ Host \notin Threads /\ NoThread \notin Threads
      /\ Watch!Pollers = Threads \cup {Host} /\ Watch!Components = 1..N
    BY DEF Watch!WatchdogAssumption, Watch!Pollers, Watch!Components
<1>00. ASSUME WatchTypes', NotedTypes', WatchFlags', Alone', Ages', Monitor, Watch!NotBack
       PROVE  Goal
    BY <1>00, WatchTypesNext
<1>1. ASSUME NEW c \in Watch!Components, Watch!Change(c) PROVE Goal
  <2>1. /\ actual' \in [Watch!Components -> Watch!States]
        /\ age' = [age EXCEPT ![c] = age[c] + 1]
        /\ UNCHANGED <<known, events, sequence, applied, stopped, thread, overran, pc, at, seen, noted>>
    BY <1>1 DEF Watch!Change, Watch!monitor, Watch!service, Watch!polling, WatchTypes,
           Watch!WatchdogAssumption
  <2>2. WatchTypes'
    BY <2>1 DEF WatchTypes
  <2>3. NotedTypes'
    BY <2>1 DEF NotedTypes
  <2>4. WatchFlags'
    BY <2>1 DEF WatchFlags
  <2>5. Alone'
    BY <2>1 DEF Alone
  <2>6. Ages'
    <3>1. \A k \in Watch!Components : age'[k] \in Nat /\ age[k] <= age'[k]
        BY <2>1 DEF WatchTypes
    <3>2. \A k \in Watch!Components : age[k] \in Nat /\ applied[k] \in Nat
            /\ \A p \in Watch!Pollers : noted[p][k] \in Nat
        BY DEF WatchTypes, NotedTypes
    <3> QED BY <2>1, <3>1, <3>2 DEF Ages
  <2>7. Monitor
    BY <2>1, MonitorRests
  <2>8. Watch!NotBack
    BY <2>1 DEF Watch!NotBack, WatchTypes
  <2> QED BY <1>00, <2>2, <2>3, <2>4, <2>5, <2>6, <2>7, <2>8
<1>2. ASSUME NEW p \in Watch!Pollers, Watch!Look(p) PROVE Goal
  <2>1. /\ pc[p] = "observe" /\ at[p] \in Watch!Components /\ at[p] + 1 \in 1..N + 1
    BY <1>0, <1>2 DEF Watch!Look, WatchTypes
  <2>2. PICK c \in Watch!Components : c = at[p]
    BY <2>1
  <2>3. /\ at' = [at EXCEPT ![p] = c + 1]
        /\ seen' = [seen EXCEPT ![p] = [seen[p] EXCEPT ![c] = actual[c]]]
        /\ noted' = [noted EXCEPT ![p] = [noted[p] EXCEPT ![c] = age[c]]]
        /\ UNCHANGED <<pc, actual, age, known, events, sequence, applied, stopped, thread, overran>>
    BY <1>2, <2>2 DEF Watch!Look, Watch!monitor, Watch!service, Watch!world
  <2>4. WatchTypes'
    BY <2>1, <2>2, <2>3 DEF WatchTypes
  <2>5. NotedTypes'
    BY <2>3 DEF NotedTypes, WatchTypes
  <2>6. WatchFlags'
    BY <2>3 DEF WatchFlags
  <2>7. Alone'
    BY <2>3 DEF Alone
  <2>8. Ages'
    <3>1. \A q \in Watch!Pollers, k \in Watch!Components :
             noted'[q][k] = IF q = p /\ k = c THEN age[k] ELSE noted[q][k]
        BY <2>3 DEF NotedTypes
    <3>2. \A q \in Watch!Pollers : at'[q] = IF q = p THEN c + 1 ELSE at[q]
        BY <2>3 DEF WatchTypes
    <3>3. \A k \in Watch!Components : age[k] \in Nat /\ applied[k] \in Nat /\ applied[k] <= age[k]
        BY DEF WatchTypes, Ages
    <3>4. \A q \in Watch!Pollers, k \in Watch!Components : noted[q][k] <= age[k]
        BY DEF Ages
    <3>5. \A k \in Watch!Components : k < c + 1 => k = c \/ k < at[p]
        BY <1>0, <2>2
    <3>6. \A q \in Watch!Pollers : pc'[q] # "observe" => at'[q] = 1
        BY <2>1, <2>3, <3>2 DEF Ages
    <3>7. \A k \in Watch!Components :
             applied'[k] <= age'[k] /\ \A q \in Watch!Pollers : noted'[q][k] <= age'[k]
        BY <2>3, <3>1, <3>3, <3>4
    <3>8. ~overran' => \A q \in Watch!Pollers, k \in Watch!Components :
             pc'[q] = "observe" /\ k < at'[q] => applied'[k] <= noted'[q][k]
        BY <2>1, <2>3, <3>1, <3>2, <3>3, <3>5 DEF Ages
    <3> QED BY <3>6, <3>7, <3>8 DEF Ages
  <2>9. Monitor
    BY <2>3, MonitorRests
  <2>10. Watch!NotBack
    BY <2>3 DEF Watch!NotBack, WatchTypes
  <2> QED BY <1>00, <2>4, <2>5, <2>6, <2>7, <2>8, <2>9, <2>10
<1>3. ASSUME NEW p \in Watch!Pollers, Watch!Apply(p) PROVE Goal
  <2>1. /\ pc[p] = "observe" /\ at[p] = N + 1 /\ Watch!Observe(seen[p])
        /\ applied' = noted[p]
        /\ pc' = [pc EXCEPT ![p] = IF p = Host THEN "spawn" ELSE "wait"]
        /\ at' = [at EXCEPT ![p] = 1]
        /\ seen' = [seen EXCEPT ![p] = Watch!NothingSeen]
        /\ noted' = [noted EXCEPT ![p] = Watch!NoAge]
        /\ UNCHANGED <<actual, age, stopped, thread, overran>>
    BY <1>3 DEF Watch!Apply, Watch!service, Watch!world
  <2>2. seen[p] \in [Watch!Components -> Watch!States]
    BY DEF NotedTypes
  <2>3. Monitor
    BY <2>1, <2>2, ObserveDoes
  <2>4. WatchTypes'
    <3>1. noted[p] \in [Watch!Components -> Nat] /\ 1 \in 1..N + 1
        BY <1>0 DEF NotedTypes
    <3> QED BY <2>1, <3>1 DEF WatchTypes
  <2>5. NotedTypes'
    BY <2>1 DEF NotedTypes, Watch!NothingSeen, Watch!NoAge, Watch!States
  <2>6. WatchFlags'
    BY <2>1 DEF WatchFlags
  <2>7. \A q \in Watch!Pollers : pc'[q] = IF q = p THEN (IF p = Host THEN "spawn" ELSE "wait") ELSE pc[q]
    BY <2>1 DEF WatchTypes
  <2>8. Alone'
    <3>1. Host \in Watch!Pollers /\ Threads \subseteq Watch!Pollers
        BY <1>0
    <3> QED BY <1>0, <2>1, <2>7, <3>1 DEF Alone
  <2>9. ~overran => \A q \in Watch!Pollers : q # p => pc[q] # "observe"
    BY <1>0, <2>1 DEF Alone
  <2>10. Ages'
    <3>1. \A q \in Watch!Pollers : at'[q] = IF q = p THEN 1 ELSE at[q]
        BY <2>1 DEF WatchTypes
    <3>2. \A q \in Watch!Pollers, k \in Watch!Components :
             noted'[q][k] = IF q = p THEN 0 ELSE noted[q][k]
        BY <2>1 DEF NotedTypes, Watch!NoAge
    <3>3. \A k \in Watch!Components : age[k] \in Nat /\ noted[p][k] <= age[k]
        BY DEF WatchTypes, Ages
    <3>4. \A q \in Watch!Pollers : pc'[q] # "observe" => at'[q] = 1
        BY <2>1, <2>7, <3>1 DEF Ages
    <3>5. \A k \in Watch!Components :
             applied'[k] <= age'[k] /\ \A q \in Watch!Pollers : noted'[q][k] <= age'[k]
        BY <2>1, <3>2, <3>3 DEF Ages
    <3>6. ~overran' => \A q \in Watch!Pollers : pc'[q] # "observe"
        BY <2>1, <2>7, <2>9
    <3> QED BY <3>4, <3>5, <3>6 DEF Ages
  <2>11. Watch!NotBack
    <3>1. \A k \in Watch!Components : k < N + 1 /\ noted[p][k] \in Nat /\ applied[k] \in Nat
        BY <1>0 DEF NotedTypes, WatchTypes
    <3>2. ASSUME ~overran, NEW k \in Watch!Components PROVE applied'[k] >= applied[k]
      <4>1. applied[k] <= noted[p][k]
        BY <2>1, <3>1, <3>2 DEF Ages
      <4> QED BY <2>1, <3>1, <4>1
    <3> QED BY <3>2 DEF Watch!NotBack
  <2> QED BY <1>00, <2>3, <2>4, <2>5, <2>6, <2>8, <2>10, <2>11
<1>4. ASSUME NEW p \in Watch!Pollers, Watch!Fault(p) PROVE Goal
  <2>1. /\ pc[p] = "observe"
        /\ pc' = [pc EXCEPT ![p] = IF p = Host THEN "off" ELSE "wait"]
        /\ at' = [at EXCEPT ![p] = 1]
        /\ seen' = [seen EXCEPT ![p] = Watch!NothingSeen]
        /\ noted' = [noted EXCEPT ![p] = Watch!NoAge]
        /\ UNCHANGED <<actual, age, known, events, sequence, applied, stopped, thread, overran>>
    BY <1>4 DEF Watch!Fault, Watch!monitor, Watch!service, Watch!world
  <2>3. Monitor
    BY <2>1, MonitorRests
  <2>4. WatchTypes'
    BY <1>0, <2>1 DEF WatchTypes
  <2>5. NotedTypes'
    BY <2>1 DEF NotedTypes, Watch!NothingSeen, Watch!NoAge, Watch!States
  <2>6. WatchFlags'
    BY <2>1 DEF WatchFlags
  <2>7. \A q \in Watch!Pollers : pc'[q] = IF q = p THEN (IF p = Host THEN "off" ELSE "wait") ELSE pc[q]
    BY <2>1 DEF WatchTypes
  <2>8. Alone'
    <3>1. Host \in Watch!Pollers /\ Threads \subseteq Watch!Pollers
        BY <1>0
    <3> QED BY <1>0, <2>1, <2>7, <3>1 DEF Alone
  <2>10. Ages'
    <3>1. \A q \in Watch!Pollers : at'[q] = IF q = p THEN 1 ELSE at[q]
        BY <2>1 DEF WatchTypes
    <3>2. \A q \in Watch!Pollers, k \in Watch!Components :
             noted'[q][k] = IF q = p THEN 0 ELSE noted[q][k]
        BY <2>1 DEF NotedTypes, Watch!NoAge
    <3>3. \A k \in Watch!Components : age[k] \in Nat
        BY DEF WatchTypes
    <3>4. \A q \in Watch!Pollers : pc'[q] # "observe" => at'[q] = 1
        BY <2>1, <2>7, <3>1 DEF Ages
    <3>5. \A k \in Watch!Components :
             applied'[k] <= age'[k] /\ \A q \in Watch!Pollers : noted'[q][k] <= age'[k]
        BY <2>1, <3>2, <3>3 DEF Ages
    <3>6. \A q \in Watch!Pollers : pc'[q] = "observe" => q # p
        BY <2>1, <2>7
    <3>7. ~overran' => \A q \in Watch!Pollers, k \in Watch!Components :
             pc'[q] = "observe" /\ k < at'[q] => applied'[k] <= noted'[q][k]
        BY <2>1, <2>7, <3>1, <3>2, <3>6 DEF Ages
    <3> QED BY <3>4, <3>5, <3>7 DEF Ages
  <2>11. Watch!NotBack
    BY <2>1 DEF Watch!NotBack, WatchTypes
  <2> QED BY <1>00, <2>3, <2>4, <2>5, <2>6, <2>8, <2>10, <2>11
\* A step of the service: no poller is in the middle of an observation it begins or leaves.
<1>5. ASSUME WatchTypes', WatchFlags', Alone', overran => overran',
             \A p \in Watch!Pollers : pc'[p] = "observe" \/ pc[p] # "observe",
             UNCHANGED <<age, known, events, sequence, applied, at, seen, noted>>
      PROVE  Goal
  <2>1. Monitor
    BY <1>5, MonitorRests
  <2>2. NotedTypes'
    BY <1>5 DEF NotedTypes
  <2>3. Ages'
    <3>1. \A p \in Watch!Pollers : pc'[p] # "observe" => at'[p] = 1
        BY <1>5 DEF Ages
    <3>2. \A k \in Watch!Components :
             applied'[k] <= age'[k] /\ \A q \in Watch!Pollers : noted'[q][k] <= age'[k]
        BY <1>5 DEF Ages
    <3>3. ASSUME ~overran', NEW p \in Watch!Pollers, NEW k \in Watch!Components,
                 pc'[p] = "observe", k < at'[p]
          PROVE  applied'[k] <= noted'[p][k]
      <4>1. pc[p] # "observe" => ~(k < at[p])
        BY <1>0 DEF Ages
      <4> QED BY <1>5, <3>3, <4>1 DEF Ages
    <3> QED BY <3>1, <3>2, <3>3 DEF Ages
  <2>4. Watch!NotBack
    BY <1>5 DEF Watch!NotBack, WatchTypes
  <2> QED BY <1>00, <1>5, <2>1, <2>2, <2>3, <2>4
<1>6. Host \in Watch!Pollers /\ Threads \subseteq Watch!Pollers
    BY <1>0
<1>7. CASE Watch!Start
  <2>1. /\ pc[Host] = "off" /\ ~Watch!Running
        /\ stopped' = FALSE /\ pc' = [pc EXCEPT ![Host] = "observe"]
        /\ UNCHANGED <<at, seen, noted, thread, overran, actual, age, known, events, sequence, applied>>
    BY <1>7 DEF Watch!Start, Watch!monitor, Watch!world
  <2>2. WatchTypes'
    BY <1>6, <2>1 DEF WatchTypes
  <2>3. WatchFlags'
    BY <2>1 DEF WatchFlags
  <2>4. \A q \in Watch!Pollers : pc'[q] = IF q = Host THEN "observe" ELSE pc[q]
    BY <2>1 DEF WatchTypes
  <2>5. Alone'
    BY <1>0, <1>6, <2>1, <2>4 DEF Alone, Watch!Running
  <2> QED BY <1>5, <2>1, <2>2, <2>3, <2>4, <2>5
<1>8. ASSUME NEW t \in Threads, Watch!Spawn(t) PROVE Goal
  <2>1. /\ pc[Host] = "spawn" /\ pc[t] = "off" /\ thread' = t
        /\ pc' = [pc EXCEPT ![Host] = "off", ![t] = "wait"]
        /\ UNCHANGED <<at, seen, noted, stopped, overran, actual, age, known, events, sequence, applied>>
    BY <1>8 DEF Watch!Spawn, Watch!monitor, Watch!world
  <2>2. WatchTypes'
    BY <1>6, <2>1 DEF WatchTypes
  <2>3. WatchFlags'
    BY <2>1 DEF WatchFlags
  <2>4. \A q \in Watch!Pollers : pc'[q] = IF q = t THEN "wait" ELSE IF q = Host THEN "off" ELSE pc[q]
    BY <2>1 DEF WatchTypes
  <2>5. Alone'
    BY <1>0, <1>6, <2>1, <2>4 DEF Alone
  <2> QED BY <1>5, <2>1, <2>2, <2>3, <2>4, <2>5
<1>9. ASSUME NEW t \in Threads, Watch!Round(t) PROVE Goal
  <2>1. /\ pc[t] = "wait" /\ pc' = [pc EXCEPT ![t] = "observe"]
        /\ UNCHANGED <<at, seen, noted, stopped, thread, overran, actual, age, known, events,
                       sequence, applied>>
    BY <1>9 DEF Watch!Round, Watch!monitor, Watch!world, Watch!service
  <2>2. WatchTypes'
    BY <1>6, <2>1 DEF WatchTypes
  <2>3. WatchFlags'
    BY <2>1 DEF WatchFlags
  <2>4. \A q \in Watch!Pollers : pc'[q] = IF q = t THEN "observe" ELSE pc[q]
    BY <2>1 DEF WatchTypes
  <2>5. Alone'
    BY <1>0, <1>6, <2>1, <2>4 DEF Alone
  <2> QED BY <1>5, <2>1, <2>2, <2>3, <2>4, <2>5
<1>10. ASSUME NEW t \in Threads, Watch!Leave(t) PROVE Goal
  <2>1. /\ pc[t] = "wait" /\ pc' = [pc EXCEPT ![t] = "off"]
        /\ UNCHANGED <<at, seen, noted, stopped, thread, overran, actual, age, known, events,
                       sequence, applied>>
    BY <1>10 DEF Watch!Leave, Watch!monitor, Watch!world, Watch!service
  <2>2. WatchTypes'
    BY <1>6, <2>1 DEF WatchTypes
  <2>3. WatchFlags'
    BY <2>1 DEF WatchFlags
  <2>4. \A q \in Watch!Pollers : pc'[q] = IF q = t THEN "off" ELSE pc[q]
    BY <2>1 DEF WatchTypes
  <2>5. Alone'
    BY <1>0, <1>6, <2>1, <2>4 DEF Alone
  <2> QED BY <1>5, <1>6, <2>1, <2>2, <2>3, <2>4, <2>5
<1>11. CASE Watch!Stop
  <2>1. /\ pc[Host] = "off" /\ stopped' = TRUE /\ pc' = [pc EXCEPT ![Host] = "join"]
        /\ UNCHANGED <<at, seen, noted, thread, overran, actual, age, known, events, sequence, applied>>
    BY <1>11 DEF Watch!Stop, Watch!monitor, Watch!world
  <2>2. WatchTypes'
    BY <1>6, <2>1 DEF WatchTypes
  <2>3. WatchFlags'
    BY <2>1 DEF WatchFlags
  <2>4. \A q \in Watch!Pollers : pc'[q] = IF q = Host THEN "join" ELSE pc[q]
    BY <2>1 DEF WatchTypes
  <2>5. Alone'
    BY <1>0, <1>6, <2>1, <2>4 DEF Alone
  <2> QED BY <1>5, <2>1, <2>2, <2>3, <2>4, <2>5
<1>12. CASE Watch!Joined
  <2>1. /\ pc[Host] = "join" /\ overran' = (overran \/ Watch!Running) /\ thread' = NoThread
        /\ pc' = [pc EXCEPT ![Host] = "off"]
        /\ UNCHANGED <<at, seen, noted, stopped, actual, age, known, events, sequence, applied>>
    BY <1>12 DEF Watch!Joined, Watch!monitor, Watch!world
  <2>2. WatchTypes'
    BY <1>6, <2>1 DEF WatchTypes
  <2>3. WatchFlags'
    BY <2>1 DEF WatchFlags, Watch!Running
  <2>4. \A q \in Watch!Pollers : pc'[q] = IF q = Host THEN "off" ELSE pc[q]
    BY <2>1 DEF WatchTypes
  <2>5. ~overran' => ~overran /\ ~Watch!Running
    BY <2>1
  <2>6. Alone'
    BY <1>0, <1>6, <2>1, <2>4, <2>5 DEF Alone, Watch!Running
  <2> QED BY <1>5, <2>1, <2>2, <2>3, <2>4, <2>5, <2>6
<1>13. CASE \E c \in Watch!Components : Watch!Change(c)
    BY <1>1, <1>13
<1>14. ASSUME NEW p \in Watch!Pollers, Watch!Poll(p) PROVE Goal
    BY <1>2, <1>3, <1>4, <1>14 DEF Watch!Poll
<1>15. CASE \E t \in Threads : Watch!Spawn(t) \/ Watch!Serve(t)
    BY <1>6, <1>8, <1>9, <1>10, <1>14, <1>15 DEF Watch!Serve
<1> QED BY <1>6, <1>7, <1>11, <1>12, <1>13, <1>14, <1>15 DEF Watch!Next

LEMMA WatchRests ==
    ASSUME WatchInv, UNCHANGED <<OwnWatch, pc, overran, seen>>
    PROVE  WatchInv' /\ Watch!NotBack
<1>1. UNCHANGED <<known, events, sequence, applied, actual, age, stopped, thread, at, noted, pc,
                  overran, seen>>
    BY DEF OwnWatch
<1>2. WatchTypes' /\ NotedTypes' /\ WatchFlags'
    BY <1>1, WatchHasTypes DEF WatchInv, WatchTypes, NotedTypes, WatchFlags
<1>3. EventTypes' /\ Kept' /\ Watch!EventsChained' /\ Watch!SnapshotAgrees'
    BY <1>1, MonitorRests
<1>4. Alone' /\ Ages'
    BY <1>1 DEF WatchInv, Alone, Ages
<1>5. Watch!NotBack
    BY <1>1, WatchHasTypes DEF WatchInv, Watch!NotBack, WatchTypes
<1> QED BY <1>2, <1>3, <1>4, <1>5, WatchTypesNext DEF WatchInv

\* The types, who polls, how old what is known is, the history and the snapshot, in
\* every state of the watchdog (WatchdogMonitor, WatchdogService).
THEOREM WatchInvariantHolds == Spec => []WatchInvariant
<1>1. Init => WatchInvariant
    BY WatchInit, ConstantsFit
    DEF Init, SessionStarts, WatchStarts, CacheStarts, ExportStarts, MailStarts, WatchInvariant
<1>2. WatchInvariant /\ [Next]_vars => WatchInvariant'
  <2> SUFFICES ASSUME WatchInvariant, [Next]_vars, part' = "watchdog" PROVE WatchInv'
    BY DEF WatchInvariant
  <2>1. CASE UNCHANGED vars
    BY <2>1, WatchRests DEF WatchInvariant, vars, Shared
  <2>2. CASE WatchDoes(Watch!Next)
    BY <2>2, WatchStep, ConstantsFit DEF WatchInvariant, WatchDoes
  <2>3. CASE Next /\ ~WatchDoes(Watch!Next)
    BY <2>3 DEF Next, SessionDoes, CacheDoes, ExportDoes, MailDoes
  <2> QED BY <2>1, <2>2, <2>3
<1> QED BY <1>1, <1>2, PTL DEF Spec

\* The kept events are a gapless piece of one history in which every event starts where
\* the component's event before it ended, and the snapshot is where they lead
\* (WatchdogMonitor.observe, snapshot), also when a poller was left behind.
THEOREM WatchHistoryIsOne == Spec => []EventsAgree
<1>1. WatchInvariant => EventsAgree
    BY DEF WatchInvariant, WatchInv, EventsAgree
<1> QED BY <1>1, WatchInvariantHolds, PTL

\* An observation never replaces one made later, as long as no join has given up
\* (WatchdogService.stop, start).
THEOREM WatchNeverGoesBack == Spec => NeverBackwards
<1>1. WatchInvariant /\ [Next]_vars => [part = "watchdog" => Watch!NotBack]_vars
  <2> SUFFICES ASSUME WatchInvariant, [Next]_vars, part = "watchdog" PROVE Watch!NotBack \/ UNCHANGED vars
    OBVIOUS
  <2>1. CASE WatchDoes(Watch!Next)
    BY <2>1, WatchStep, ConstantsFit DEF WatchInvariant, WatchDoes
  <2>2. CASE Next /\ ~WatchDoes(Watch!Next)
    BY <2>2 DEF Next, SessionDoes, CacheDoes, ExportDoes, MailDoes
  <2> QED BY <2>1, <2>2
<1> QED BY <1>1, WatchInvariantHolds, PTL DEF Spec, NeverBackwards

-----------------------------------------------------------------------------
(* The cache of the show.                                                   *)

CacheTypes ==
    /\ session \in 0..MaxSession
    /\ pc \in [Refreshers -> {"idle", "wait", "export", "read", "write"}]
    /\ item \in [Refreshers -> Cache!Items \cup {NoItem}]
    /\ client \in [Refreshers -> 0..MaxSession]
    /\ row \in [Refreshers -> SUBSET Cache!Answers]
    /\ hpc \in {"idle", "read", "write", "done"} /\ todo \subseteq Resources

WireTypes ==
    /\ coming \in SUBSET Cache!Answers
    /\ received \in [1..MaxSession -> SUBSET Cache!Answers]

CacheFlags ==
    ready \in BOOLEAN /\ alive \in BOOLEAN /\ mingled \in BOOLEAN

FailedType == failed \in [Refreshers -> BOOLEAN]

StoreTypes ==
    /\ store \in [Resources -> Cache!Snapshots]
    /\ seen \in [Refreshers \cup {"host"} -> Cache!Snapshots]

ToldType == told \in [Resources -> Cache!Rows]

RacedType == raced \in [Resources -> BOOLEAN]

LEMMA CacheHasTypes ==
    Cache!TypeOK <=>
        CacheTypes /\ WireTypes /\ CacheFlags /\ FailedType /\ StoreTypes /\ ToldType /\ RacedType
    BY DEF Cache!TypeOK, CacheTypes, WireTypes, CacheFlags, FailedType, StoreTypes, ToldType,
           RacedType,
           Cache!HostThread

LEMMA CacheTypesNext ==
    CacheTypes' /\ WireTypes' /\ CacheFlags' /\ FailedType' /\ StoreTypes' /\ ToldType' /\ RacedType'
        => Cache!TypeOK'
    BY DEF Cache!TypeOK, CacheTypes, WireTypes, CacheFlags, FailedType, StoreTypes, ToldType,
           RacedType,
           Cache!HostThread

\* A thread that is not idle refreshes an item, a disconnect has something left to mark.
Busy ==
    /\ \A t \in Refreshers :
          /\ pc[t] # "idle" => item[t] \in Cache!Items
          /\ pc[t] = "idle" => client[t] = 0 /\ row[t] = {}
          /\ pc[t] = "export" => row[t] = {}
    /\ hpc \in {"read", "write"} => todo # {}
    /\ ready => session > 0
    /\ \A t \in Refreshers : pc[t] = "wait" => client[t] \in 1..session

\* A thread that waits has a client to itself, and what comes is for those who wait.
Waited(c, a) == \E t \in Refreshers : pc[t] = "wait" /\ client[t] = c /\ item[t] = a

ToThemselves ==
    ~mingled =>
        \A t, u \in Refreshers :
            pc[t] = "wait" /\ pc[u] = "wait" /\ client[t] = client[u] => t = u

ForThem ==
    ~mingled /\ ~Late =>
        /\ \A a \in coming : Waited(session, a)
        /\ \A c \in 1..MaxSession : \A a \in received[c] : Waited(c, a)

\* What a thread got, and what it saw of the cache, is filed under its item.
Filed(snapshot, r) ==
    \A k \in Keys : \A a \in snapshot.rows[k] : a.res = r /\ a.key = k

FiledOwn ==
    ~mingled /\ ~Late =>
        /\ \A t \in Refreshers :
              /\ pc[t] \in {"read", "write"} => row[t] \subseteq {item[t]}
              /\ pc[t] = "write" => Filed(seen[t], item[t].res)
        /\ hpc = "write" => Filed(seen["host"], Cache!Marked)
        /\ \A r \in Resources : Filed(store[r], r)

CacheInv ==
    Cache!TypeOK /\ Busy /\ Cache!ReportsStay /\ ToThemselves /\ ForThem /\ FiledOwn

CacheInvariant == part = "cache" => CacheInv

LEMMA AbsentIsSnapshot ==
    /\ Cache!Absent \in Cache!Snapshots
    /\ Cache!NoRows \in Cache!Rows
    /\ \A r \in Resources : Filed(Cache!Absent, r)
    BY DEF Cache!Absent, Cache!Snapshots, Cache!NoRows, Cache!Rows, Filed

LEMMA CacheInit ==
    ASSUME Cache!Init, Cache!ShowStateAssumption PROVE CacheInv
<1> USE CacheHasTypes, AbsentIsSnapshot DEF Cache!Init
<1>1. CacheTypes /\ WireTypes /\ CacheFlags /\ FailedType
  <2>1. MaxSession \in Nat
    BY DEF Cache!ShowStateAssumption
  <2>2. CacheTypes
    BY <2>1 DEF CacheTypes
  <2>3. WireTypes
    BY DEF WireTypes
  <2>4. CacheFlags
    BY DEF CacheFlags
  <2>5. FailedType
    BY DEF FailedType
  <2> QED BY <2>2, <2>3, <2>4, <2>5
<1>2. StoreTypes /\ ToldType /\ RacedType
    BY DEF StoreTypes, ToldType, RacedType, Cache!HostThread
<1>3. Busy /\ ToThemselves /\ ForThem
    BY DEF Busy, ToThemselves, ForThem
<1>4. Cache!ReportsStay
    BY DEF Cache!ReportsStay, Cache!Absent
<1>5. FiledOwn
    BY DEF FiledOwn
<1> QED BY <1>1, <1>2, <1>3, <1>4, <1>5 DEF CacheInv

LEMMA CacheStep ==
    ASSUME CacheInv, Cache!ShowStateAssumption, Cache!Next PROVE CacheInv'
<1> USE CacheHasTypes, CacheTypesNext, AbsentIsSnapshot
    DEF CacheInv, Cache!link, Cache!wire, Cache!work, Cache!host, Cache!history, Cache!HostThread
<1>0. MaxSession \in Nat /\ "host" \notin Refreshers
    BY DEF Cache!ShowStateAssumption
<1>1. ASSUME Cache!Connect PROVE CacheInv'
  <2>1. CacheTypes' /\ StoreTypes' /\ ToldType'
    BY <1>0, <1>1 DEF Cache!Connect, CacheTypes, StoreTypes, ToldType
  <2>2. FailedType' /\ RacedType'
    BY <1>1 DEF Cache!Connect, FailedType, RacedType
  <2>3. CacheFlags'
    BY <1>1 DEF Cache!Connect, CacheFlags
  <2>4. Busy' /\ Cache!ReportsStay' /\ ToThemselves'
    BY <1>1 DEF Cache!Connect, Busy, Cache!ReportsStay, ToThemselves, CacheTypes
  <2>5. ForThem' /\ FiledOwn'
    BY <1>1 DEF Cache!Connect, ForThem, FiledOwn, Waited, CacheTypes, Cache!Marked
  <2>30. WireTypes'
    BY <1>1 DEF Cache!Connect, WireTypes, CacheTypes
  <2> QED BY <2>30, <2>1, <2>2, <2>3, <2>4, <2>5
<1>2. ASSUME Cache!HangUp \/ Cache!Disconnect PROVE CacheInv'
  <2>1. CacheTypes' /\ StoreTypes' /\ ToldType'
    BY <1>2 DEF Cache!HangUp, Cache!Disconnect, CacheTypes, StoreTypes, ToldType
  <2>2. FailedType' /\ RacedType'
    BY <1>2 DEF Cache!HangUp, Cache!Disconnect, FailedType, RacedType
  <2>3. CacheFlags'
    BY <1>2 DEF Cache!HangUp, Cache!Disconnect, CacheFlags
  <2>4. Busy' /\ Cache!ReportsStay' /\ ToThemselves'
    BY <1>2 DEF Cache!HangUp, Cache!Disconnect, Busy, Cache!ReportsStay, ToThemselves,
                Cache!ShowStateAssumption
  <2>5. ForThem'
    BY <1>2 DEF Cache!HangUp, Cache!Disconnect, ForThem, Waited
  <2>6. FiledOwn'
    BY <1>2 DEF Cache!HangUp, Cache!Disconnect, FiledOwn, Cache!Marked
  <2>30. WireTypes'
    BY <1>2 DEF Cache!HangUp, Cache!Disconnect, WireTypes, CacheTypes
  <2> QED BY <2>30, <2>1, <2>2, <2>3, <2>4, <2>5, <2>6
<1>3. ASSUME Cache!MarkReads PROVE CacheInv'
  <2>1. Cache!Marked \in Resources /\ Cache!Marked' = Cache!Marked
    BY <1>3 DEF Cache!MarkReads, Cache!Marked, Busy, CacheTypes
  <2>2. CacheTypes' /\ StoreTypes' /\ ToldType'
    BY <1>3, <2>1 DEF Cache!MarkReads, CacheTypes, StoreTypes, ToldType
  <2>3. FailedType' /\ RacedType' /\ CacheFlags'
    BY <1>3 DEF Cache!MarkReads, FailedType, RacedType, CacheFlags
  <2>4. Busy' /\ Cache!ReportsStay' /\ ToThemselves' /\ ForThem'
    BY <1>3 DEF Cache!MarkReads, Busy, Cache!ReportsStay, ToThemselves, ForThem, Waited
  <2>6. /\ seen'["host"] = store[Cache!Marked] /\ hpc = "read"
        /\ \A t \in Refreshers : seen'[t] = seen[t]
        /\ UNCHANGED <<store, pc, item, row, mingled>>
    BY <1>0, <1>3, <2>1 DEF Cache!MarkReads, StoreTypes
  <2>5. FiledOwn'
    BY <2>1, <2>6 DEF FiledOwn, Filed
  <2>30. WireTypes'
    BY <1>3 DEF Cache!MarkReads, WireTypes, CacheTypes
  <2> QED BY <2>30, <2>2, <2>3, <2>4, <2>5
<1>4. ASSUME Cache!MarkWrites PROVE CacheInv'
  <2> DEFINE marked == [seen["host"] EXCEPT !.stale = TRUE, !.error = TRUE]
  <2>1. Cache!Marked \in Resources /\ seen["host"] \in Cache!Snapshots
    BY <1>4 DEF Cache!MarkWrites, Cache!Marked, Busy, CacheTypes, StoreTypes
  <2>2. marked \in Cache!Snapshots /\ marked.rows = seen["host"].rows
    BY <2>1 DEF Cache!Snapshots
  <2>3. \/ /\ store' = [store EXCEPT ![Cache!Marked] = marked]
           /\ raced' = [raced EXCEPT ![Cache!Marked] = @ \/ store[Cache!Marked] # seen["host"]]
        \/ UNCHANGED <<store, raced>>
    BY <1>4 DEF Cache!MarkWrites, Cache!Write
  <2> HIDE DEF marked
  <2>4. CacheTypes' /\ StoreTypes' /\ ToldType'
    BY <1>4, <2>1, <2>2, <2>3 DEF Cache!MarkWrites, CacheTypes, StoreTypes, ToldType
  <2>5. RacedType'
    BY <2>3 DEF RacedType
  <2>6. FailedType' /\ CacheFlags'
    BY <1>4 DEF Cache!MarkWrites, FailedType, CacheFlags
  <2>7. Busy' /\ ToThemselves' /\ ForThem'
    BY <1>4 DEF Cache!MarkWrites, Busy, ToThemselves, ForThem, Waited
  <2>8. Cache!ReportsStay'
    BY <1>4, <2>1, <2>2, <2>3
    DEF Cache!MarkWrites, Cache!ReportsStay, StoreTypes, RacedType
  <2>10. /\ hpc = "write" /\ hpc' # "write" /\ UNCHANGED <<pc, item, row, mingled>>
         /\ \A t \in Refreshers : seen'[t] = seen[t]
    BY <1>0, <1>4 DEF Cache!MarkWrites, StoreTypes
  <2>11. Filed(seen["host"], Cache!Marked) => Filed(marked, Cache!Marked)
    BY <2>2 DEF Filed
  <2>12. \A r \in Resources :
            store'[r] = store[r] \/ (r = Cache!Marked /\ store'[r] = marked)
    BY <2>3 DEF StoreTypes
  <2>9. FiledOwn'
    BY <2>10, <2>11, <2>12 DEF FiledOwn, Filed
  <2>30. WireTypes'
    BY <1>4 DEF Cache!MarkWrites, WireTypes, CacheTypes
  <2> QED BY <2>30, <2>4, <2>5, <2>6, <2>7, <2>8, <2>9
<1>5. ASSUME Cache!Arrive PROVE CacheInv'
  <2>1. CacheTypes' /\ StoreTypes' /\ ToldType'
    BY <1>5 DEF Cache!Arrive, CacheTypes, StoreTypes, ToldType
  <2>2. FailedType' /\ RacedType' /\ CacheFlags'
    BY <1>5 DEF Cache!Arrive, FailedType, RacedType, CacheFlags
  <2>3. Busy' /\ Cache!ReportsStay' /\ ToThemselves' /\ FiledOwn'
    BY <1>5 DEF Cache!Arrive, Busy, Cache!ReportsStay, ToThemselves, FiledOwn, Cache!Marked
  <2>4. ForThem'
    BY <1>5 DEF Cache!Arrive, ForThem, Waited, CacheTypes
  <2>30. WireTypes'
    BY <1>5 DEF Cache!Arrive, WireTypes, CacheTypes
  <2> QED BY <2>30, <2>1, <2>2, <2>3, <2>4
<1>6. ASSUME NEW t \in Refreshers, Cache!Ask(t) PROVE CacheInv'
  <2>1. PICK i \in Cache!Items :
          /\ item' = [item EXCEPT ![t] = i]
          /\ pc' = [pc EXCEPT ![t] = IF i.res = "cues" THEN "wait" ELSE "export"]
          /\ coming' = IF alive /\ i.res = "cues" THEN coming \cup {i} ELSE coming
    BY <1>6 DEF Cache!Ask
  <2>2. i \in Cache!Answers
    BY DEF Cache!Items, Cache!Answers
  <2>3. CacheTypes'
    BY <1>6, <2>1, <2>2 DEF Cache!Ask, CacheTypes
  <2>4. StoreTypes' /\ ToldType'
    BY <1>6 DEF Cache!Ask, StoreTypes, ToldType
  <2>5. FailedType' /\ RacedType'
    BY <1>6 DEF Cache!Ask, FailedType, RacedType
  <2>6. CacheFlags'
    BY <1>6 DEF Cache!Ask, CacheFlags
  <2>7. Busy' /\ Cache!ReportsStay'
    BY <1>6, <2>1 DEF Cache!Ask, Busy, Cache!ReportsStay, CacheTypes
  <2>11. ~mingled' => ~mingled /\ \A u \in Refreshers : ~(pc[u] = "wait" /\ client[u] = session)
    BY <1>6 DEF Cache!Ask
  <2>12. /\ client' = [client EXCEPT ![t] = session] /\ ready /\ pc[t] = "idle"
         /\ session' = session /\ received' = received
    BY <1>6 DEF Cache!Ask
  <2>8. ToThemselves'
    BY <2>1, <2>11, <2>12 DEF ToThemselves, CacheTypes, Busy
  <2>9. ForThem'
    BY <2>1, <2>11, <2>12 DEF ForThem, Waited, CacheTypes
  <2>10. FiledOwn'
    BY <1>6, <2>1 DEF Cache!Ask, FiledOwn, CacheTypes, Cache!Marked
  <2>30. WireTypes'
    BY <1>6, <2>1, <2>2 DEF Cache!Ask, WireTypes, CacheTypes
  <2> QED BY <2>30, <2>3, <2>4, <2>5, <2>6, <2>7, <2>8, <2>9, <2>10
<1>7. ASSUME NEW t \in Refreshers, Cache!SendFails(t) PROVE CacheInv'
  <2>1. \/ UNCHANGED <<pc, item, failed>>
        \/ \E i \in Cache!Items : /\ item' = [item EXCEPT ![t] = i]
                                  /\ failed' = [failed EXCEPT ![t] = TRUE]
                                  /\ pc' = [pc EXCEPT ![t] = "read"]
    BY <1>7 DEF Cache!SendFails
  <2>2. CacheTypes'
    BY <1>7, <2>1 DEF Cache!SendFails, CacheTypes
  <2>3. StoreTypes' /\ ToldType'
    BY <1>7 DEF Cache!SendFails, StoreTypes, ToldType
  <2>4. FailedType' /\ RacedType'
    BY <1>7, <2>1 DEF Cache!SendFails, FailedType, RacedType
  <2>5. CacheFlags'
    BY <1>7 DEF Cache!SendFails, CacheFlags
  <2>6. Busy' /\ Cache!ReportsStay' /\ ToThemselves'
    BY <1>7, <2>1 DEF Cache!SendFails, Busy, Cache!ReportsStay, ToThemselves, CacheTypes
  <2>7. ForThem'
    BY <1>7, <2>1 DEF Cache!SendFails, ForThem, Waited, CacheTypes
  <2>8. FiledOwn'
    BY <1>7, <2>1 DEF Cache!SendFails, FiledOwn, CacheTypes, Busy, Cache!Marked
  <2>30. WireTypes'
    BY <1>7 DEF Cache!SendFails, WireTypes, CacheTypes
  <2> QED BY <2>30, <2>2, <2>3, <2>4, <2>5, <2>6, <2>7, <2>8
<1>8. ASSUME NEW t \in Refreshers, Cache!Drain(t) PROVE CacheInv'
  <2>1. CacheTypes'
    <3>1. received[client[t]] \in SUBSET Cache!Answers
        BY <1>0, <1>8 DEF Cache!Drain, CacheTypes, WireTypes, Busy
    <3>2. /\ row' = [row EXCEPT ![t] = received[client[t]]]
          /\ pc' = [pc EXCEPT ![t] = "read"] /\ client' = [client EXCEPT ![t] = 0]
          /\ UNCHANGED <<session, item, hpc, todo>>
        BY <1>8 DEF Cache!Drain, Cache!Parsed
    <3> QED BY <1>0, <3>1, <3>2 DEF CacheTypes
  <2>2. StoreTypes' /\ ToldType' /\ FailedType' /\ RacedType' /\ CacheFlags'
    BY <1>8 DEF Cache!Drain, StoreTypes, ToldType, FailedType, RacedType, CacheFlags
  <2>3. Busy' /\ Cache!ReportsStay' /\ ToThemselves'
    BY <1>8 DEF Cache!Drain, Busy, Cache!ReportsStay, ToThemselves, CacheTypes
  <2>7. /\ pc[t] = "wait" /\ client[t] \in 1..session
        /\ pc' = [pc EXCEPT ![t] = "read"] /\ client' = [client EXCEPT ![t] = 0]
        /\ received' = [received EXCEPT ![client[t]] = {}]
        /\ UNCHANGED <<coming, item, session, mingled>>
        /\ ~Late => item[t] \notin coming
    BY <1>8 DEF Cache!Drain, Busy
  <2>8. ASSUME ~mingled, NEW c, NEW a, Waited(c, a), c # client[t] \/ a # item[t]
        PROVE  Waited(c, a)'
    <3>1. PICK u \in Refreshers : pc[u] = "wait" /\ client[u] = c /\ item[u] = a
        BY <2>8 DEF Waited
    <3>2. u # t
        BY <2>8, <3>1
    <3> QED BY <2>7, <3>1, <3>2 DEF Waited, CacheTypes
  <2>9. ASSUME ~mingled, ~Late, NEW c \in 1..MaxSession, NEW a \in received'[c]
        PROVE  Waited(c, a)'
    <3>1. c # client[t] /\ a \in received[c]
        BY <2>7, <2>9, <1>0 DEF WireTypes, CacheTypes
    <3> QED BY <2>8, <2>9, <3>1 DEF ForThem
  <2>4. ForThem'
    BY <2>7, <2>8, <2>9 DEF ForThem
  <2>5. ~mingled /\ ~Late => received[client[t]] \subseteq {item[t]}
    BY <1>0, <2>7 DEF ForThem, ToThemselves, Waited, CacheTypes
  <2>6. FiledOwn'
    BY <1>8, <2>5 DEF Cache!Drain, Cache!Parsed, FiledOwn, CacheTypes, Cache!Marked
  <2>30. WireTypes'
    BY <1>8 DEF Cache!Drain, WireTypes, CacheTypes
  <2> QED BY <2>30, <2>1, <2>2, <2>3, <2>4, <2>6
<1>9. ASSUME NEW t \in Refreshers, Cache!Export(t) PROVE CacheInv'
  <2>1. item[t] \in Cache!Answers
    BY <1>9 DEF Cache!Export, Busy, Cache!Items, Cache!Answers
  <2>2. CacheTypes'
    BY <1>9, <2>1 DEF Cache!Export, CacheTypes
  <2>3. StoreTypes' /\ ToldType' /\ RacedType' /\ CacheFlags'
    BY <1>9 DEF Cache!Export, StoreTypes, ToldType, RacedType, CacheFlags
  <2>4. FailedType'
    BY <1>9 DEF Cache!Export, FailedType
  <2>5. Busy' /\ Cache!ReportsStay' /\ ToThemselves' /\ ForThem'
    BY <1>9 DEF Cache!Export, Busy, Cache!ReportsStay, ToThemselves, ForThem, Waited, CacheTypes
  <2>6. FiledOwn'
    BY <1>9 DEF Cache!Export, FiledOwn, Busy, CacheTypes, Cache!Marked
  <2>30. WireTypes'
    BY <1>9 DEF Cache!Export, WireTypes, CacheTypes
  <2> QED BY <2>30, <2>2, <2>3, <2>4, <2>5, <2>6
<1>10. ASSUME NEW t \in Refreshers, Cache!ReadStore(t) PROVE CacheInv'
  <2>1. item[t].res \in Resources
    BY <1>10 DEF Cache!ReadStore, Busy, Cache!Items
  <2>2. CacheTypes' /\ StoreTypes' /\ ToldType'
    BY <1>10, <2>1 DEF Cache!ReadStore, CacheTypes, StoreTypes, ToldType
  <2>3. FailedType' /\ RacedType' /\ CacheFlags'
    BY <1>10 DEF Cache!ReadStore, FailedType, RacedType, CacheFlags
  <2>4. Busy' /\ Cache!ReportsStay' /\ ToThemselves' /\ ForThem'
    BY <1>10 DEF Cache!ReadStore, Busy, Cache!ReportsStay, ToThemselves, ForThem, Waited,
                 CacheTypes
  <2>7. /\ seen'["host"] = seen["host"] /\ seen'[t] = store[item[t].res] /\ pc[t] = "read"
        /\ \A u \in Refreshers : u # t => seen'[u] = seen[u] /\ pc'[u] = pc[u]
        /\ UNCHANGED <<store, item, row, hpc, todo, mingled>>
    BY <1>0, <1>10 DEF Cache!ReadStore, StoreTypes, CacheTypes
  <2>8. Cache!Marked' = Cache!Marked
    BY <2>7 DEF Cache!Marked
  <2>6. FiledOwn'
    BY <2>1, <2>7, <2>8 DEF FiledOwn, Filed
  <2>30. WireTypes'
    BY <1>10 DEF Cache!ReadStore, WireTypes, CacheTypes
  <2> QED BY <2>30, <2>2, <2>3, <2>4, <2>6
<1>11. ASSUME NEW t \in Refreshers, Cache!WriteStore(t) PROVE CacheInv'
  <2> DEFINE r == item[t].res
             k == item[t].key
  <2>1. /\ pc[t] = "write" /\ item[t] \in Cache!Items /\ r \in Resources /\ k \in Keys
        /\ seen[t] \in Cache!Snapshots /\ row[t] \in SUBSET Cache!Answers
    BY <1>11 DEF Cache!WriteStore, Busy, Cache!Items, StoreTypes, CacheTypes
  <2>2. /\ Cache!Recorded(t) \in Cache!Snapshots
        /\ Cache!Recorded(t).rows = seen[t].rows
    <3>1. seen[t].there \in BOOLEAN /\ seen[t].rows \in Cache!Rows
        BY <2>1 DEF Cache!Snapshots
    <3> QED BY <3>1 DEF Cache!Recorded, Cache!Snapshots
  <2>3. /\ Cache!Replaced(t) \in Cache!Rows
        /\ Cache!Replaced(t) = [seen[t].rows EXCEPT ![k] = row[t]]
        /\ \A j \in Keys : Cache!Replaced(t)[j] = IF j = k THEN row[t] ELSE seen[t].rows[j]
    BY <2>1 DEF Cache!Replaced, Cache!Snapshots, Cache!Rows
  <2>4. PICK snapshot \in Cache!Snapshots :
          /\ store' = [store EXCEPT ![r] = snapshot]
          /\ raced' = [raced EXCEPT ![r] = @ \/ store[r] # seen[t]]
          /\ \/ snapshot.rows = seen[t].rows /\ told' = told
             \/ /\ snapshot.rows = Cache!Replaced(t)
                /\ told' = [told EXCEPT ![r][k] = row[t]]
    <3>1. CASE failed[t]
        BY <1>11, <2>2, <3>1 DEF Cache!WriteStore, Cache!Write
    <3>2. CASE ~failed[t]
      <4> DEFINE reported == [there |-> TRUE, rows |-> Cache!Replaced(t), stale |-> FALSE,
                              error |-> FALSE]
      <4>1. reported \in Cache!Snapshots /\ reported.rows = Cache!Replaced(t)
        BY <2>3 DEF Cache!Snapshots
      <4>2. /\ store' = [store EXCEPT ![r] = reported]
            /\ raced' = [raced EXCEPT ![r] = @ \/ store[r] # seen[t]]
            /\ told' = [told EXCEPT ![r][k] = row[t]]
        BY <1>11, <3>2 DEF Cache!WriteStore, Cache!Write
      <4> QED BY <4>1, <4>2
    <3> QED BY <3>1, <3>2
  <2>5. /\ pc' = [pc EXCEPT ![t] = "idle"] /\ seen' = [seen EXCEPT ![t] = Cache!Absent]
        /\ item' = [item EXCEPT ![t] = NoItem] /\ client' = [client EXCEPT ![t] = 0]
        /\ row' = [row EXCEPT ![t] = {}] /\ failed' = [failed EXCEPT ![t] = FALSE]
        /\ UNCHANGED <<session, ready, alive, coming, received, hpc, todo, mingled>>
    BY <1>11 DEF Cache!WriteStore
  <2> HIDE DEF r, k
  <2>6. CacheTypes' /\ WireTypes'
    BY <1>0, <2>5 DEF CacheTypes, WireTypes
  <2>7. StoreTypes'
    BY <2>1, <2>4, <2>5 DEF StoreTypes
  <2>8. ToldType'
    BY <2>1, <2>4 DEF ToldType, Cache!Rows
  <2>9. RacedType'
    BY <2>4 DEF RacedType
  <2>10. FailedType'
    BY <2>5 DEF FailedType
  <2>11. CacheFlags'
    BY <2>5 DEF CacheFlags
  <2>12. Busy' /\ ToThemselves'
    BY <2>1, <2>5 DEF Busy, ToThemselves, CacheTypes
  <2>13. ForThem'
    BY <2>1, <2>5 DEF ForThem, Waited, CacheTypes
  <2>14. Cache!ReportsStay'
    <3>1. ~raced'[r] => ~raced[r] /\ store[r] = seen[t]
        BY <2>1, <2>4 DEF RacedType
    <3>2. ~raced'[r] => store'[r].rows = told'[r]
      <4>1. store'[r] = snapshot
        BY <2>1, <2>4 DEF StoreTypes
      <4>2. store[r] = seen[t] /\ store[r].rows = told[r] =>
                [told EXCEPT ![r][k] = row[t]][r] = Cache!Replaced(t)
        BY <2>1, <2>3 DEF ToldType
      <4> QED BY <2>1, <2>4, <3>1, <4>1, <4>2 DEF Cache!ReportsStay
    <3>3. \A q \in Resources \ {r} :
              store'[q] = store[q] /\ told'[q] = told[q] /\ raced'[q] = raced[q]
        BY <2>4 DEF StoreTypes, ToldType, RacedType
    <3> QED BY <3>2, <3>3 DEF Cache!ReportsStay
  <2>15. ~mingled /\ ~Late => Filed(snapshot, r)
    <3>1. ~mingled /\ ~Late => Filed(seen[t], r) /\ row[t] \subseteq {item[t]}
        BY <2>1 DEF FiledOwn, r
    <3>2. \A a \in {item[t]} : a.res = r /\ a.key = k
        BY DEF r, k
    <3>3. \A j \in Keys :
              snapshot.rows[j] = seen[t].rows[j] \/ (j = k /\ snapshot.rows[j] = row[t])
        BY <2>3, <2>4
    <3> QED BY <3>1, <3>2, <3>3 DEF Filed
  <2>16. /\ \A q \in Resources : store'[q] = store[q] \/ (q = r /\ store'[q] = snapshot)
         /\ seen'["host"] = seen["host"] /\ Cache!Marked' = Cache!Marked
         /\ \A u \in Refreshers : pc'[u] # "idle" =>
                 /\ u # t /\ pc'[u] = pc[u] /\ seen'[u] = seen[u] /\ row'[u] = row[u]
                 /\ item'[u] = item[u]
    BY <1>0, <2>4, <2>5 DEF StoreTypes, CacheTypes, Cache!Marked
  <2>17. FiledOwn'
    BY <2>5, <2>15, <2>16 DEF FiledOwn, Filed
  <2> QED BY <2>6, <2>7, <2>8, <2>9, <2>10, <2>11, <2>12, <2>13, <2>14, <2>17
<1> QED
    BY <1>1, <1>2, <1>3, <1>4, <1>5, <1>6, <1>7, <1>8, <1>9, <1>10, <1>11
    DEF Cache!Next, Cache!Refresh

LEMMA CacheRests ==
    ASSUME CacheInv,
           UNCHANGED <<OwnCache, pc, hpc, seen, ready, received>>
    PROVE  CacheInv'
    BY DEF CacheInv, OwnCache, Cache!TypeOK, Busy, ToThemselves, ForThem, Waited, FiledOwn, Filed,
           Cache!ReportsStay, Cache!Marked

\* The types, who waits for what, what was reported and under what it is filed, in every
\* state of the cache, whether answers come in time or late.
THEOREM CacheInvariantHolds == Spec => []CacheInvariant
<1>1. Init => CacheInvariant
    BY CacheInit, ConstantsFit
    DEF Init, SessionStarts, WatchStarts, CacheStarts, ExportStarts, MailStarts, CacheInvariant
<1>2. CacheInvariant /\ [Next]_vars => CacheInvariant'
  <2> SUFFICES ASSUME CacheInvariant, [Next]_vars, part' = "cache" PROVE CacheInv'
    BY DEF CacheInvariant
  <2>1. CASE UNCHANGED vars
    BY <2>1, CacheRests DEF CacheInvariant, vars, Shared
  <2>2. CASE CacheDoes(Cache!Next)
    BY <2>2, CacheStep, ConstantsFit DEF CacheInvariant, CacheDoes
  <2>3. CASE Next /\ ~CacheDoes(Cache!Next)
    BY <2>3 DEF Next, SessionDoes, WatchDoes, ExportDoes, MailDoes
  <2> QED BY <2>1, <2>2, <2>3
<1> QED BY <1>1, <1>2, PTL DEF Spec

\* What a refresh reported stays until the next of the same item, as long as no snapshot
\* is written over one that was not seen; and where every answer comes within the time
\* waited for it, it is filed under the item that was asked for.
THEOREM CacheIsTrueInTime ==
    ASSUME ~Late PROVE Spec => []CacheIsTrue
<1>1. CacheInvariant => CacheIsTrue
    BY DEF CacheInvariant, CacheInv, CacheIsTrue, FiledOwn, Filed, Cache!OwnAnswers
<1> QED BY <1>1, CacheInvariantHolds, PTL

\* Also when answers come late: what a refresh reported stays until the next of the same
\* item, as long as no snapshot is written over one that was not seen (StateStore.upsert).
THEOREM ReportsStayLate == Spec => [](part = "cache" => Cache!ReportsStay)
<1>1. CacheInvariant => (part = "cache" => Cache!ReportsStay)
    BY DEF CacheInvariant, CacheInv
<1> QED BY <1>1, CacheInvariantHolds, PTL
=============================================================================
