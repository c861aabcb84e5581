------------------------------- MODULE Mailbox -------------------------------
(***************************************************************************)
(* The read-only mailbox between AgentRuntime.read_adapter_state           *)
(* (runtime.py) and the console plugin lua/ZEN_AGENT.lua.  A reader puts a *)
(* request into a user variable of the console, runs the plugin, and looks *)
(* in what the console said for lines that name its request.  The plugin   *)
(* empties the variable before it does anything else.                      *)
(*                                                                         *)
(* A lock keeps readers apart, but the Telnet session is shared: any other *)
(* command takes what was received, a lost session is replaced between two *)
(* commands, and an operator can run the plugin at the console.            *)
(***************************************************************************)
EXTENDS Naturals, Sequences, SequencesExt

CONSTANTS
    Threads,    \* bound: readers
    Requests,   \* bound: requests, each with an id of its own
    Nobody, Empty

MailboxAssumption == Nobody \notin Threads /\ Empty \notin Requests

Commands == [cmd: {"set", "plugin"}, req: Requests \cup {Empty}]
Lines    == [req: Requests, kind: {"BEGIN", "END", "ERROR"}]

VARIABLES
    owner,     \* of _state_adapter_lock
    pc, req,   \* where each reader is, and its request
    up,        \* the console's end of the session
    ready,     \* the client is READY
    wire,      \* commands the console has not handled
    var,       \* the user variable ZEN_AGENT_REQUEST
    last,      \* last_request_id of the plugin
    lines,     \* feedback on its way
    received,  \* _received of the client
    answer,    \* what the reader took
    outcome,   \* per request: new, open, then how it ended
    ran,       \* history: how often the plugin ran the request
    lost,      \* history: a session was lost
    crossed    \* history: a plugin run took another reader's request

reader  == <<pc, req, answer>>
link    == <<up, ready>>
console == <<wire, var, last>>
said    == <<lines, received>>
vars    == <<owner, reader, link, console, said, outcome, ran, lost, crossed>>

TypeOK ==
    /\ owner \in Threads \cup {Nobody}
    /\ pc \in [Threads -> {"idle", "lock", "set", "sleep", "plugin", "wait",
                           "clear", "release"}]
    /\ req \in [Threads -> Requests \cup {Empty}]
    /\ up \in BOOLEAN /\ ready \in BOOLEAN
    /\ wire \in Seq(Commands) /\ var \in Requests \cup {Empty}
    /\ last \in Requests \cup {Empty}
    /\ lines \in Seq(Lines) /\ received \in Seq(Lines)
    /\ answer \in [Threads -> Seq(Lines)]
    /\ outcome \in [Requests -> {"new", "open", "ok", "unsupported", "error",
                                 "raised", "timeout"}]
    /\ ran \in [Requests -> Nat]
    /\ lost \in BOOLEAN /\ crossed \in BOOLEAN

Init ==
    /\ owner = Nobody
    /\ pc = [t \in Threads |-> "idle"] /\ req = [t \in Threads |-> Empty]
    /\ up = TRUE /\ ready = TRUE
    /\ wire = <<>> /\ var = Empty /\ last = Empty
    /\ lines = <<>> /\ received = <<>>
    /\ answer = [t \in Threads |-> <<>>]
    /\ outcome = [r \in Requests |-> "new"]
    /\ ran = [r \in Requests |-> 0]
    /\ lost = FALSE /\ crossed = FALSE

Set(r)    == [cmd |-> "set", req |-> r]
Plugin(r) == [cmd |-> "plugin", req |-> r]   \* req: whose run it is
Line(r, k) == [req |-> r, kind |-> k]

-----------------------------------------------------------------------------
(* The console.                                                             *)

\* A probe says BEGIN and END, or END alone, or reports an error.
Framed(r) == {<<Line(r, "BEGIN"), Line(r, "END")>>, <<Line(r, "END")>>,
              <<Line(r, "ERROR")>>}

\* main() of the plugin: copy and empty the variable, refuse the request it
\* ran last, else run it.
Main ==
    LET r == var IN
    /\ var' = Empty
    /\ IF r = Empty \/ r = last
       THEN /\ lines' = IF r = Empty THEN lines ELSE Append(lines, Line(r, "ERROR"))
            /\ UNCHANGED <<last, ran>>
       ELSE /\ last' = r /\ ran' = [ran EXCEPT ![r] = @ + 1]
            /\ \E f \in Framed(r) : lines' = lines \o f

Handle ==
    LET c == Head(wire) IN
    /\ wire # <<>>
    /\ wire' = Tail(wire)
    /\ IF c.cmd = "set"
       THEN var' = c.req /\ UNCHANGED <<last, lines, ran, crossed>>
       ELSE /\ Main
            /\ crossed' = (crossed \/ var \notin {c.req, Empty})
    /\ UNCHANGED <<owner, reader, link, received, outcome, lost>>

\* An operator runs the plugin at the console.
RunByHand ==
    /\ var # Empty
    /\ Main
    /\ UNCHANGED <<owner, reader, link, wire, received, outcome, lost, crossed>>

Arrive ==
    /\ lines # <<>>
    /\ lines' = Tail(lines)
    /\ received' = IF up THEN Append(received, Head(lines)) ELSE received
    /\ UNCHANGED <<owner, reader, link, console, outcome, ran, lost, crossed>>

\* The session ends; the commands not yet handled are gone with it.
HangUp ==
    /\ up
    /\ up' = FALSE /\ lost' = TRUE /\ wire' = <<>>
    /\ UNCHANGED <<owner, reader, ready, var, last, said, outcome, ran, crossed>>

\* Another thread's send fails and closes the client; the host connects again.
Close ==
    /\ ready /\ ~up
    /\ ready' = FALSE
    /\ UNCHANGED <<owner, reader, up, console, said, outcome, ran, lost, crossed>>

Connect ==
    /\ ~ready
    /\ up' = TRUE /\ ready' = TRUE /\ received' = <<>>
    /\ UNCHANGED <<owner, reader, console, lines, outcome, ran, lost, crossed>>

\* Any other command returns, and so takes, what was received.
Steal ==
    /\ received # <<>>
    /\ received' = <<>>
    /\ UNCHANGED <<owner, reader, link, console, lines, outcome, ran, lost, crossed>>

-----------------------------------------------------------------------------
(* A reader.                                                                *)

Goto(t, where) == pc' = [pc EXCEPT ![t] = where]

Ask(t) ==
    /\ pc[t] = "idle" /\ ready
    /\ \E r \in Requests :
          /\ outcome[r] = "new"
          /\ req' = [req EXCEPT ![t] = r]
          /\ outcome' = [outcome EXCEPT ![r] = "open"]
    /\ Goto(t, "lock")
    /\ UNCHANGED <<owner, answer, link, console, said, ran, lost, crossed>>

Acquire(t) ==
    /\ pc[t] = "lock" /\ owner = Nobody
    /\ owner' = t /\ Goto(t, "set")
    /\ UNCHANGED <<req, answer, link, console, said, outcome, ran, lost, crossed>>

GiveUp(t) ==
    /\ pc[t] = "lock" /\ owner # Nobody
    /\ outcome' = [outcome EXCEPT ![req[t]] = "timeout"]
    /\ req' = [req EXCEPT ![t] = Empty]
    /\ Goto(t, "idle")
    /\ UNCHANGED <<owner, answer, link, console, said, ran, lost, crossed>>

\* execute: on a session the console has left, the command is lost or the
\* send fails, which closes the client.
Sent(c) == wire' = (IF up THEN Append(wire, c) ELSE wire) /\ UNCHANGED ready
SendFails == ~ready \/ ~up

Send(t, at, c, next) ==
    /\ pc[t] = at
    /\ \/ /\ ready /\ Sent(c)
          /\ received' = received
          /\ Goto(t, next) /\ UNCHANGED outcome
       \/ /\ SendFails /\ ready' = FALSE
          /\ outcome' = [outcome EXCEPT ![req[t]] = "raised"]
          /\ Goto(t, "clear")
          /\ UNCHANGED <<wire, received>>
    /\ UNCHANGED <<owner, req, answer, up, var, last, lines, ran, lost, crossed>>

PutRequest(t) == Send(t, "set", Set(req[t]), "sleep")

\* Whatever the console says to that is not looked at.
Drained(t) ==
    /\ pc[t] = "sleep"
    /\ received' = <<>>
    /\ Goto(t, "plugin")
    /\ UNCHANGED <<owner, req, answer, link, console, lines, outcome, ran, lost, crossed>>

RunPlugin(t) == Send(t, "plugin", Plugin(req[t]), "wait")

\* Mutant: the frames of any request are taken for this one's.
OwnAny(said_, r) == DOMAIN said_

\* _frames: where the lines are that name this request.
Own(said_, r) == {i \in DOMAIN said_ : said_[i].req = r}

\* From a BEGIN, the first of them, to an END, the last.
Framing(said_, frames) ==
    \E i, j \in frames :
        /\ \A k \in frames : i <= k /\ k <= j
        /\ said_[i].kind = "BEGIN" /\ said_[j].kind = "END"

Verdict(said_, frames) ==
    IF \E i \in frames : said_[i].kind = "ERROR" THEN "unsupported"
    ELSE IF Framing(said_, frames) THEN "ok" ELSE "error"

Collect(t) ==
    /\ pc[t] = "wait"
    /\ answer' = [answer EXCEPT ![t] = received] /\ received' = <<>>
    /\ \/ /\ outcome' = [outcome EXCEPT
                            ![req[t]] = Verdict(received, Own(received, req[t]))]
          /\ Goto(t, "release")
       \/ /\ outcome' = [outcome EXCEPT ![req[t]] = "timeout"]
          /\ Goto(t, "clear")
    /\ UNCHANGED <<owner, req, link, console, lines, ran, lost, crossed>>

\* After an exception the variable is emptied; that this may fail is ignored.
Clear(t) ==
    /\ pc[t] = "clear"
    /\ \/ ready /\ Sent(Set(Empty))
       \/ SendFails /\ ready' = FALSE /\ UNCHANGED wire
    /\ Goto(t, "release")
    /\ UNCHANGED <<owner, req, answer, up, var, last, said, outcome, ran, lost, crossed>>

Release(t) ==
    /\ pc[t] = "release"
    /\ owner' = Nobody
    /\ req' = [req EXCEPT ![t] = Empty] /\ answer' = [answer EXCEPT ![t] = <<>>]
    /\ Goto(t, "idle")
    /\ UNCHANGED <<link, console, said, outcome, ran, lost, crossed>>

Step(t) ==
    \/ Acquire(t) \/ GiveUp(t) \/ PutRequest(t) \/ Drained(t) \/ RunPlugin(t)
    \/ Collect(t) \/ Clear(t) \/ Release(t)

Next ==
    \/ Handle \/ RunByHand \/ Arrive \/ HangUp \/ Close \/ Connect \/ Steal
    \/ \E t \in Threads : Ask(t) \/ Step(t)

Spec == Init /\ [][Next]_vars

-----------------------------------------------------------------------------
(* A result is the plugin's answer to this very request, which it ran      *)
(* exactly once, whoever else ran the plugin or took feedback, and however *)
(* sessions came and went in between.                                      *)
AcceptedIsOwn ==
    \A t \in Threads : pc[t] = "release" /\ outcome[req[t]] = "ok" =>
       /\ ran[req[t]] = 1
       /\ \A k \in {"BEGIN", "END"} : Line(req[t], k) \in ToSet(answer[t])

(* As long as no session is lost, a plugin run finds the request of the    *)
(* reader that started it, or nothing: no other reader has put its own in  *)
(* between, and none left one behind.                                      *)
RunsOwn == ~lost => ~crossed

(* The lock is held by a reader that works on a request, and by no other: a *)
(* request that failed, however it did, has not left it behind.             *)
LockIsUsed ==
    \A t \in Threads : owner = t <=> pc[t] \notin {"idle", "lock"}
=============================================================================
