-------------------------- MODULE ExportTransaction --------------------------
(***************************************************************************)
(* Reading a group, layout, sequence, preset or fixture type by having the *)
(* console export it to a file: the providers in state/providers and the   *)
(* lock of AgentRuntime they hold meanwhile (export_transaction).          *)
(*                                                                         *)
(* The console writes the file while the provider polls it, so the         *)
(* provider waits until it has seen the same size twice, reads, looks      *)
(* again, and takes only well-formed XML: a document is well-formed when   *)
(* its last chunk is there.  Sizes are what is there of the document:      *)
(* nothing, an empty file, ... , the whole.  Each request names its file   *)
(* at random; the request stands for the name.                             *)
(***************************************************************************)
EXTENDS Naturals, Sequences

CONSTANTS
    Threads,      \* bound: threads that export
    Requests,     \* bound: requests
    Nobody,       \* no thread
    NoRequest,    \* no request
    Whole,        \* size of a whole document
    Kinds         \* what is exported

AllKinds == {"group", "layout", "sequence", "preset", "fixture_type"}

ExportAssumption ==
    /\ Whole \in Nat /\ Whole > 2 /\ Kinds \subseteq AllKinds
    /\ Nobody \notin Threads /\ NoRequest \notin Requests

VARIABLES
    owner,         \* of _export_state_lock, an RLock
    pc,            \* where each thread is
    req,           \* its request
    size,          \* the size it saw last; 0 before, and after a change
    stable,        \* stable_polls
    got,           \* what it read
    up,            \* the session with the console
    orders,        \* Export commands the console has not finished
    file,          \* per request, the size of its file; 0: there is none
    kind,          \* what is asked for
    outcome        \* result of each request: new, open, ok, error

reader  == <<size, stable, got>>
console == <<up, orders, file>>
vars    == <<owner, pc, req, reader, console, kind, outcome>>


Absent == 0
Created  == 1

TypeOK ==
    /\ owner \in Threads \cup {Nobody}
    /\ pc \in [Threads -> {"idle", "begin", "send", "poll", "read", "again",
                           "parse", "leave", "clean"}]
    /\ req \in [Threads -> Requests \cup {NoRequest}]
    /\ size \in [Threads -> 0..Whole] /\ stable \in [Threads -> 0..2]
    /\ got \in [Threads -> 0..Whole]
    /\ up \in BOOLEAN /\ orders \in Seq(Requests)
    /\ file \in [Requests -> 0..Whole]
    /\ kind \in [Requests -> Kinds]
    /\ outcome \in [Requests -> {"new", "open", "ok", "error"}]

Init ==
    /\ owner = Nobody
    /\ pc = [t \in Threads |-> "idle"]
    /\ req = [t \in Threads |-> NoRequest]
    /\ size = [t \in Threads |-> 0] /\ stable = [t \in Threads |-> 0]
    /\ got = [t \in Threads |-> 0]
    /\ up = TRUE /\ orders = <<>>
    /\ file = [r \in Requests |-> Absent]
    /\ kind \in [Requests -> Kinds]
    /\ outcome = [r \in Requests |-> "new"]

-----------------------------------------------------------------------------
(* The console.                                                             *)

\* It handles commands in order: it opens the file and writes on.  It may
\* refuse (no such object), and stop for any time in between.
Refuse ==
    /\ orders # <<>> /\ file[Head(orders)] = Absent
    /\ orders' = Tail(orders)
    /\ UNCHANGED <<owner, pc, req, reader, up, file, kind, outcome>>

WriteChunk ==
    /\ orders # <<>>
    /\ LET r == Head(orders) IN
       /\ file' = [file EXCEPT ![r] = @ + 1]
       /\ orders' = IF file[r] + 1 = Whole THEN Tail(orders) ELSE orders
    /\ UNCHANGED <<owner, pc, req, reader, up, kind, outcome>>

HangUp ==
    /\ up
    /\ up' = FALSE
    /\ UNCHANGED <<owner, pc, req, reader, orders, file, kind, outcome>>

Connected ==
    /\ ~up
    /\ up' = TRUE
    /\ UNCHANGED <<owner, pc, req, reader, orders, file, kind, outcome>>

\* A file the console still writes cannot be removed.
Writing(r) == orders # <<>> /\ Head(orders) = r /\ file[r] # Absent

-----------------------------------------------------------------------------
(* A provider.                                                              *)

Goto(t, where) == pc' = [pc EXCEPT ![t] = where]

Start(t) ==
    /\ pc[t] = "idle"
    /\ \E r \in Requests :
          /\ outcome[r] = "new"
          /\ req' = [req EXCEPT ![t] = r]
          /\ outcome' = [outcome EXCEPT ![r] = "open"]
    /\ Goto(t, "begin")
    /\ UNCHANGED <<owner, reader, console, kind>>

\* with _export_state_lock: its holder enters again.
Enter(t) == owner \in {t, Nobody}

\* The transaction begins; a stale file of this name is removed.
Begin(t) ==
    /\ pc[t] = "begin"
    /\ Enter(t) /\ owner' = t
    /\ file' = [file EXCEPT ![req[t]] = Absent]
    /\ size' = [size EXCEPT ![t] = 0] /\ stable' = [stable EXCEPT ![t] = 0]
    /\ Goto(t, "send")
    /\ UNCHANGED <<req, got, up, orders, kind, outcome>>

Fail(t) ==
    /\ outcome' = [outcome EXCEPT ![req[t]] = "error"]
    /\ Goto(t, "leave")

\* export_*_file: the command is sent under the lock, which stays held; on a
\* lost session it raises.
Send(t) ==
    /\ pc[t] = "send"
    /\ Enter(t) /\ owner' = owner
    /\ \/ /\ orders' = IF up THEN Append(orders, req[t]) ELSE orders
          /\ Goto(t, "poll") /\ UNCHANGED outcome
       \/ ~up /\ Fail(t) /\ UNCHANGED orders
    /\ UNCHANGED <<req, reader, up, file, kind>>

\* One round of the wait: the file is looked at.
Poll(t) ==
    LET now == file[req[t]] IN
    /\ pc[t] = "poll"
    /\ IF now > Created
       THEN /\ stable' = [stable EXCEPT ![t] =
                            IF now # size[t] THEN 1 ELSE IF @ = 2 THEN 2 ELSE @ + 1]
            /\ size' = [size EXCEPT ![t] = now]
            /\ Goto(t, IF stable'[t] = 2 THEN "read" ELSE "poll")
       ELSE UNCHANGED <<stable, size, pc>>
    /\ UNCHANGED <<owner, req, got, console, kind, outcome>>

\* The time is over.
Timeout(t) ==
    /\ pc[t] = "poll"
    /\ Fail(t)
    /\ UNCHANGED <<owner, req, reader, console, kind>>

Read(t) ==
    /\ pc[t] = "read"
    /\ got' = [got EXCEPT ![t] = file[req[t]]]
    /\ Goto(t, "again")
    /\ UNCHANGED <<owner, req, size, stable, console, kind, outcome>>

\* Mutant: what was read twice is taken for whole.
WellFormedAny(n) == n > Created

WellFormed(n) == n = Whole

\* The file is looked at again; what changed meanwhile, or is not well-formed,
\* is polled again.
LookAgain(t) ==
    /\ pc[t] = "again"
    /\ IF file[req[t]] # size[t]
       THEN /\ stable' = [stable EXCEPT ![t] = 0]
            /\ size' = [size EXCEPT ![t] = 0]
            /\ Goto(t, "poll")
       ELSE /\ Goto(t, IF WellFormed(got[t]) THEN "parse" ELSE "poll")
            /\ UNCHANGED <<stable, size>>
    /\ UNCHANGED <<owner, req, got, console, kind, outcome>>

\* The parser checks the number of the object and its structure.
Parse(t) ==
    /\ pc[t] = "parse"
    /\ \/ /\ outcome' = [outcome EXCEPT ![req[t]] = "ok"]
          /\ Goto(t, "leave")
       \/ Fail(t)
    /\ UNCHANGED <<owner, req, reader, console, kind>>

\* The transaction ends, with an exception too.
Leave(t) ==
    /\ pc[t] = "leave"
    /\ owner' = Nobody
    /\ Goto(t, "clean")
    /\ UNCHANGED <<req, reader, console, kind, outcome>>

\* A preset or fixture type is removed in any case, others on success; what
\* failed stays for a diagnosis.
Cleans(r) == kind[r] \in {"preset", "fixture_type"} \/ outcome[r] = "ok"

Cleanup(t) ==
    LET r == req[t] IN
    /\ pc[t] = "clean"
    /\ file' = IF Cleans(r) /\ ~Writing(r) THEN [file EXCEPT ![r] = Absent] ELSE file
    /\ req' = [req EXCEPT ![t] = NoRequest] /\ got' = [got EXCEPT ![t] = 0]
    /\ size' = [size EXCEPT ![t] = 0] /\ stable' = [stable EXCEPT ![t] = 0]
    /\ Goto(t, "idle")
    /\ UNCHANGED <<owner, up, orders, kind, outcome>>

Provide(t) ==
    \/ Begin(t) \/ Send(t) \/ Poll(t) \/ Timeout(t) \/ Read(t) \/ LookAgain(t)
    \/ Parse(t) \/ Leave(t) \/ Cleanup(t)

Next ==
    \/ Refuse \/ WriteChunk \/ HangUp \/ Connected
    \/ \E t \in Threads : Start(t) \/ Provide(t)

Work(t) == Send(t) \/ Read(t) \/ LookAgain(t) \/ Parse(t) \/ Leave(t) \/ Cleanup(t)

(* A transaction does not wait for the console for longer than its time.    *)
Fairness ==
    \A t \in Threads :
       WF_vars(Begin(t) \/ Work(t)) /\ SF_vars(Timeout(t))

Spec == Init /\ [][Next]_vars /\ Fairness

-----------------------------------------------------------------------------
(* What is parsed is the whole document, however slowly the console writes *)
(* it and wherever it pauses.                                              *)
OnlyWhole == \A t \in Threads : pc[t] = "parse" => got[t] = Whole

(* From the removal of a stale file until the parse no other thread is in a *)
(* transaction: the lock is held for all of it, not for the command only.  *)
InTransaction(t) == pc[t] \notin {"idle", "begin", "clean"}

OneTransaction ==
    \A t, u \in Threads : InTransaction(t) /\ InTransaction(u) => t = u

(* A request that returned a result leaves no file, and none comes later.  *)
NothingLeft ==
    \A r \in Requests :
       outcome[r] = "ok" /\ (\A t \in Threads : req[t] # r) => file[r] = Absent

(* Every request gets an answer, a result or an error, also when the       *)
(* console refuses, is lost or stops in the middle of a file, and whatever *)
(* the requests before it met.                                             *)
Answered ==
    \A r \in Requests : outcome[r] = "open" ~> outcome[r] \in {"ok", "error"}
=============================================================================
