------------------------------ MODULE ShowState ------------------------------
(***************************************************************************)
(* The cache of what the console holds: StateStore (state/store.py), the   *)
(* refreshes of AgentCore that fill it (core.py, refresh_state) and what   *)
(* connecting and disconnecting do to it.  A refresh of one cue list       *)
(* (listed over Telnet) or of one group's members (exported) keeps the     *)
(* rows of the others.  Nothing is locked: requests are handled by several *)
(* threads, and each reads a snapshot before it writes the next.           *)
(*                                                                         *)
(* A row stands for the answers it was parsed from, each with the item it  *)
(* was asked for and the session it came on.                               *)
(***************************************************************************)
EXTENDS Naturals

CONSTANTS
    Threads,      \* bound: threads that refresh
    Resources,    \* bound: resources refreshed, listed or exported
    Keys,         \* cue lists, groups
    NoItem,       \* no item
    MaxSession,   \* bound: sessions
    Late          \* whether an answer may come after the time waited for it

HostThread == "host"

ShowStateAssumption ==
    /\ HostThread \notin Threads
    /\ Resources \subseteq {"cues", "group_membership"} /\ Resources # {}
    /\ MaxSession \in Nat \ {0} /\ Late \in BOOLEAN

Answers   == [res: Resources, key: Keys]
Rows      == [Keys -> SUBSET Answers]
NoRows    == [k \in Keys |-> {}]

VARIABLES
    session,   \* how many clients were made; the last is AgentRuntime.client
    ready,     \* it is READY
    alive,     \* the console's end of it is up
    coming,    \* answers on their way
    received,  \* _received of each client
    store,     \* _snapshots: whether there is one, its rows, stale, error
    pc,        \* where each thread is
    item,      \* the resource and key it refreshes
    client,    \* the client it asked
    row,       \* what it got
    failed,    \* whether that failed
    seen,      \* the snapshot it, or the host, read before it writes
    hpc,       \* where core.disconnect is
    todo,      \* resources it has yet to mark
    told,      \* history: the row the last refresh of each key reported
    raced,     \* history: a snapshot was written that was not seen
    mingled    \* history: two threads waited on one client at once

link    == <<session, ready, alive>>
wire    == <<coming, received>>
work    == <<pc, item, client, row, failed>>
host    == <<hpc, todo>>
history == <<told, raced, mingled>>
vars    == <<link, wire, store, work, seen, host, history>>

Absent == [there |-> FALSE, rows |-> NoRows, stale |-> FALSE, error |-> FALSE]
Snapshots == [there: BOOLEAN, rows: Rows, stale: BOOLEAN, error: BOOLEAN]
Items == [res: Resources, key: Keys]

TypeOK ==
    /\ session \in 0..MaxSession /\ ready \in BOOLEAN /\ alive \in BOOLEAN
    /\ coming \subseteq Answers
    /\ received \in [1..MaxSession -> SUBSET Answers]
    /\ store \in [Resources -> Snapshots]
    /\ pc \in [Threads -> {"idle", "wait", "export", "read", "write"}]
    /\ item \in [Threads -> Items \cup {NoItem}]
    /\ client \in [Threads -> 0..MaxSession]
    /\ row \in [Threads -> SUBSET Answers]
    /\ failed \in [Threads -> BOOLEAN]
    /\ seen \in [Threads \cup {HostThread} -> Snapshots]
    /\ hpc \in {"idle", "read", "write", "done"} /\ todo \subseteq Resources
    /\ told \in [Resources -> Rows] /\ raced \in [Resources -> BOOLEAN]
    /\ mingled \in BOOLEAN

Init ==
    /\ session = 0 /\ ready = FALSE /\ alive = FALSE
    /\ coming = {} /\ received = [s \in 1..MaxSession |-> {}]
    /\ store = [r \in Resources |-> Absent]
    /\ pc = [t \in Threads |-> "idle"]
    /\ item = [t \in Threads |-> NoItem]
    /\ client = [t \in Threads |-> 0]
    /\ row = [t \in Threads |-> {}]
    /\ failed = [t \in Threads |-> FALSE]
    /\ seen = [w \in Threads \cup {HostThread} |-> Absent]
    /\ hpc = "idle" /\ todo = {}
    /\ told = [r \in Resources |-> NoRows]
    /\ raced = [r \in Resources |-> FALSE]
    /\ mingled = FALSE

\* StateStore.has
Fresh(r) == store[r].there /\ ~store[r].stale /\ ~store[r].error

-----------------------------------------------------------------------------
(* Sessions.                                                                *)

\* connect, by an operator or again by the host's thread: another client.
\* The cache is not touched.
Connect ==
    /\ session < MaxSession /\ ~ready
    /\ session' = session + 1 /\ ready' = TRUE /\ alive' = TRUE
    /\ coming' = {}
    /\ received' = [c \in 1..MaxSession |->
                       IF \E t \in Threads : client[t] = c THEN received[c] ELSE {}]
    /\ hpc' = IF hpc = "done" THEN "idle" ELSE hpc
    /\ UNCHANGED <<store, work, seen, todo, history>>

\* The console ends the session; the client stays READY until a send fails.
HangUp ==
    /\ ready /\ alive
    /\ alive' = FALSE /\ coming' = {}
    /\ UNCHANGED <<session, ready, received, store, work, seen, host, history>>

\* core.disconnect: the client is closed, then every resource is marked.
Disconnect ==
    /\ hpc \in {"idle", "done"}
    /\ ready' = FALSE /\ alive' = FALSE /\ coming' = {}
    /\ hpc' = "read" /\ todo' = Resources
    /\ UNCHANGED <<session, received, store, work, seen, history>>

Write(w, r, snapshot) ==
    /\ store' = [store EXCEPT ![r] = snapshot]
    /\ raced' = [raced EXCEPT ![r] = @ \/ store[r] # seen[w]]

Marked == CHOOSE r \in todo : TRUE

\* mark_stale: get, then the same snapshot again as stale.
MarkReads ==
    /\ hpc = "read"
    /\ seen' = [seen EXCEPT ![HostThread] = store[Marked]]
    /\ hpc' = "write"
    /\ UNCHANGED <<link, wire, store, work, todo, history>>

MarkWrites ==
    /\ hpc = "write"
    /\ IF seen[HostThread].there
       THEN Write(HostThread, Marked,
                  [seen[HostThread] EXCEPT !.stale = TRUE, !.error = TRUE])
       ELSE UNCHANGED <<store, raced>>
    /\ todo' = todo \ {Marked}
    /\ hpc' = IF todo' = {} THEN "done" ELSE "read"
    /\ seen' = [seen EXCEPT ![HostThread] = Absent]
    /\ UNCHANGED <<link, wire, work, told, mingled>>

-----------------------------------------------------------------------------
(* A refresh.                                                               *)

\* read_state sends a List command; an export sends its command.  On a dead
\* session the send succeeds and nothing is answered, or it fails and closes
\* the client: then a List raises and nothing is stored, an export has failed.
Ask(t) ==
    /\ pc[t] = "idle" /\ ready
    /\ \E i \in Items :
          /\ item' = [item EXCEPT ![t] = i]
          /\ pc' = [pc EXCEPT ![t] = IF i.res = "cues" THEN "wait" ELSE "export"]
          /\ coming' = IF alive /\ i.res = "cues"
                       THEN coming \cup {i} ELSE coming
    /\ client' = [client EXCEPT ![t] = session]
    /\ row' = [row EXCEPT ![t] = {}] /\ failed' = [failed EXCEPT ![t] = FALSE]
    /\ mingled' = (mingled \/ \E u \in Threads : pc[u] = "wait" /\ client[u] = session)
    /\ UNCHANGED <<link, received, store, seen, host, told, raced>>

SendFails(t) ==
    /\ pc[t] = "idle" /\ ready /\ ~alive
    /\ ready' = FALSE
    /\ \/ UNCHANGED <<pc, item, failed>>
       \/ /\ \E i \in Items : /\ i.res = "group_membership"
                             /\ item' = [item EXCEPT ![t] = i]
          /\ failed' = [failed EXCEPT ![t] = TRUE]
          /\ pc' = [pc EXCEPT ![t] = "read"]
    /\ UNCHANGED <<session, alive, wire, store, client, row, seen, host, history>>

Arrive ==
    /\ \E a \in coming :
          /\ coming' = coming \ {a}
          /\ received' = [received EXCEPT ![session] = @ \cup {a}]
    /\ UNCHANGED <<link, store, work, seen, host, history>>

\* CueProvider.parse: every line becomes a row of the sequence asked for.
Parsed(t) == received[client[t]]

\* After the time waited: everything received since the last command, also by
\* a client closed meanwhile.
Drain(t) ==
    /\ pc[t] = "wait"
    /\ Late \/ item[t] \notin coming
    /\ row' = [row EXCEPT ![t] = Parsed(t)]
    /\ received' = [received EXCEPT ![client[t]] = {}]
    /\ pc' = [pc EXCEPT ![t] = "read"]
    /\ client' = [client EXCEPT ![t] = 0]
    /\ UNCHANGED <<link, coming, store, item, failed, seen, host, history>>

\* An export ends with its own file or with an error, which is cached.
Export(t) ==
    /\ pc[t] = "export"
    /\ \/ /\ row' = [row EXCEPT ![t] = {item[t]}]
          /\ UNCHANGED failed
       \/ failed' = [failed EXCEPT ![t] = TRUE] /\ UNCHANGED row
    /\ pc' = [pc EXCEPT ![t] = "read"]
    /\ UNCHANGED <<link, wire, store, item, client, seen, host, history>>

\* The existing snapshot, whose other rows are kept.
ReadStore(t) ==
    /\ pc[t] = "read"
    /\ seen' = [seen EXCEPT ![t] = store[item[t].res]]
    /\ pc' = [pc EXCEPT ![t] = "write"]
    /\ UNCHANGED <<link, wire, store, item, client, row, failed, host, history>>

\* Mutant: the rows of other keys are not retained.
ReplacedDrops(t) == [NoRows EXCEPT ![item[t].key] = row[t]]

Replaced(t) == [seen[t].rows EXCEPT ![item[t].key] = row[t]]

Recorded(t) ==
    [there |-> TRUE, rows |-> seen[t].rows, stale |-> seen[t].there, error |-> TRUE]

\* put, or record_error: the rows stay, stale if there were any.
WriteStore(t) ==
    LET i == item[t] IN
    /\ pc[t] = "write"
    /\ IF failed[t]
       THEN Write(t, i.res, Recorded(t)) /\ UNCHANGED told
       ELSE /\ Write(t, i.res, [there |-> TRUE, rows |-> Replaced(t),
                                stale |-> FALSE, error |-> FALSE])
            /\ told' = [told EXCEPT ![i.res][i.key] = row[t]]
    /\ pc' = [pc EXCEPT ![t] = "idle"]
    /\ seen' = [seen EXCEPT ![t] = Absent]
    /\ item' = [item EXCEPT ![t] = NoItem] /\ client' = [client EXCEPT ![t] = 0]
    /\ row' = [row EXCEPT ![t] = {}] /\ failed' = [failed EXCEPT ![t] = FALSE]
    /\ UNCHANGED <<link, wire, host, mingled>>

Refresh(t) ==
    \/ Ask(t) \/ SendFails(t) \/ Drain(t) \/ Export(t)
    \/ ReadStore(t) \/ WriteStore(t)

Next ==
    \/ Connect \/ HangUp \/ Disconnect \/ MarkReads \/ MarkWrites \/ Arrive
    \/ \E t \in Threads : Refresh(t)

Spec == Init /\ [][Next]_vars

-----------------------------------------------------------------------------
(* Rows are the answer to the command that asked for them: cues of one     *)
(* sequence are never filed under another (CueProvider.parse gives every   *)
(* line it was handed the number it asked for).                            *)
OwnAnswers ==
    ~mingled => \A r \in Resources, k \in Keys :
       \A a \in store[r].rows[k] : a.res = r /\ a.key = k

(* What the last refresh of an item reported is what the cache holds of    *)
(* it, whatever was refreshed, failed or was marked since: other items'    *)
(* rows are retained.  Where two writers of one resource overlapped, the   *)
(* later one wins and the earlier one's row is lost: no lock prevents it.  *)
ReportsStay ==
    \A r \in Resources : ~raced[r] => store[r].rows = told[r]
=============================================================================
