----------------------------- MODULE Connection -----------------------------
(***************************************************************************)
(* The Telnet session with the console: MA2TelnetClient                    *)
(* (telnet_client.py), its owner AgentRuntime (runtime.py) and the thread  *)
(* of FieldHost that opens it and moves the login on (field_host.py).      *)
(*                                                                         *)
(* Three parties touch a client without a lock: that thread, operator      *)
(* threads that send commands and close the client when a send fails, and  *)
(* the host, which disconnects when it stops.  Each connection has a       *)
(* client object of its own; an object nobody refers to is used again for  *)
(* a later one, so the model needs no bound on connections.                *)
(***************************************************************************)
EXTENDS Naturals

CONSTANTS
    Clients,    \* bound: client objects referred to at the same time
    NoClient,   \* None
    Operators,  \* bound: threads that send commands
    Settings    \* host, port and user names to connect with

ConnectionAssumption == NoClient \notin Clients

\* NEGOTIATING lasts from one assignment to the next and is left out.
States == {"DISCONNECTED", "TCP_CONNECTED", "AUTHENTICATING", "AUTH_FAILED", "READY"}

VARIABLES
    state,      \* MA2TelnetClient.state
    sock,       \* whether the client holds a socket
    user,       \* current_session_user
    retried,    \* _login_retry_sent
    inbox,      \* what _received says while it logs in: the last user named,
                \* a prompt, a refusal
    current,    \* AgentRuntime.client
    settings,   \* AgentRuntime.preferences
    reconnect,  \* reconnect_required
    due,        \* the time _ma_next_retry_at has come
    stop,       \* the event _stop
    pc,         \* where the thread of FieldHost is
    opening,    \* the client it connects
    hpc,        \* where the host is in stop
    opc,        \* where each operator thread is
    held,       \* the client it sends to
    peer,       \* the console's end of each session: none, up, gone
    who,        \* the user of that session
    greeted,    \* its banner is out
    wire,       \* Login commands the console has not yet handled
    made,       \* history: the settings the last client was made for
    asked,      \* history: Login commands sent on each
    overran     \* history: stop gave up waiting for the thread

client  == <<state, sock, user, retried, inbox>>
runtime == <<current, settings, reconnect>>
poller  == <<due, pc, opening>>
host    == <<stop, hpc, overran>>
ops     == <<opc, held>>
console == <<peer, who, greeted, wire>>
history == <<made, asked>>
vars == <<client, runtime, poller, host, ops, console, history>>

Users  == {"none", "guest", "requested"}
Nothing == [last |-> "none", prompt |-> FALSE, refused |-> FALSE]

TypeOK ==
    /\ state \in [Clients -> States] /\ sock \in [Clients -> BOOLEAN]
    /\ user \in [Clients -> Users]   /\ retried \in [Clients -> BOOLEAN]
    /\ inbox \in [Clients -> [last: Users, prompt: BOOLEAN, refused: BOOLEAN]]
    /\ current \in Clients \cup {NoClient}
    /\ settings \in Settings /\ reconnect \in BOOLEAN
    /\ due \in BOOLEAN /\ stop \in BOOLEAN /\ overran \in BOOLEAN
    /\ pc \in {"idle", "open", "login", "first", "tick", "ended"}
    /\ opening \in Clients \cup {NoClient}
    /\ hpc \in {"runs", "join", "close", "forget", "stopped"}
    /\ opc \in [Operators -> {"idle", "send", "close"}]
    /\ held \in [Operators -> Clients \cup {NoClient}]
    /\ peer \in [Clients -> {"none", "up", "gone"}]
    /\ who \in [Clients -> {"guest", "requested"}]
    /\ greeted \in [Clients -> BOOLEAN]
    /\ wire \in [Clients -> Nat]
    /\ made \in Settings /\ asked \in [Clients -> Nat]

Init ==
    /\ state = [c \in Clients |-> "DISCONNECTED"]
    /\ sock = [c \in Clients |-> FALSE]
    /\ user = [c \in Clients |-> "none"]
    /\ retried = [c \in Clients |-> FALSE]
    /\ inbox = [c \in Clients |-> Nothing]
    /\ current = NoClient /\ reconnect = FALSE
    /\ settings \in Settings
    /\ due = TRUE /\ stop = FALSE /\ overran = FALSE
    /\ pc = "idle" /\ opening = NoClient /\ hpc = "runs"
    /\ opc = [o \in Operators |-> "idle"]
    /\ held = [o \in Operators |-> NoClient]
    /\ peer = [c \in Clients |-> "none"]
    /\ who = [c \in Clients |-> "guest"]
    /\ greeted = [c \in Clients |-> FALSE]
    /\ wire = [c \in Clients |-> 0]
    /\ made = settings
    /\ asked = [c \in Clients |-> 0]

\* AgentRuntime.state and AgentRuntime.ready
RuntimeState == IF current = NoClient THEN "DISCONNECTED" ELSE state[current]
Ready == RuntimeState = "READY" /\ ~reconnect

Unused(c) == c # current /\ c # opening /\ \A o \in Operators : held[o] # c

-----------------------------------------------------------------------------
(* The console.                                                             *)

\* Text is looked at during the login only, that which came before it included.
Says(c, text) ==
    inbox' = IF state[c] \in {"TCP_CONNECTED", "AUTHENTICATING"}
             THEN [inbox EXCEPT ![c] = text] ELSE inbox

\* The banner names the user of the session and may ask for a login, also
\* repeatedly.  What is said may arrive in two pieces with a poll in between:
\* then nobody recognises it, as if it had not been said.
Banner(c) ==
    /\ peer[c] = "up"
    /\ greeted' = [greeted EXCEPT ![c] = TRUE]
    /\ \/ UNCHANGED inbox
       \/ \E prompt \in {inbox[c].prompt, inbox[c].prompt \/ who[c] = "guest"} :
             Says(c, [inbox[c] EXCEPT !.last = who[c], !.prompt = prompt])
    /\ UNCHANGED <<state, sock, user, retried, peer, who, wire>>
    /\ UNCHANGED <<runtime, poller, host, ops, history>>

\* A Login is granted, refused, or, before the banner, discarded.
AnswerLogin(c) ==
    /\ peer[c] = "up" /\ wire[c] > 0
    /\ wire' = [wire EXCEPT ![c] = @ - 1]
    /\ \/ /\ who' = [who EXCEPT ![c] = "requested"]
          /\ UNCHANGED inbox \/ Says(c, [inbox[c] EXCEPT !.last = "requested"])
       \/ /\ Says(c, [inbox[c] EXCEPT !.refused = TRUE])
          /\ UNCHANGED who
       \/ ~greeted[c] /\ UNCHANGED <<who, inbox>>
    /\ UNCHANGED <<state, sock, user, retried, peer, greeted>>
    /\ UNCHANGED <<runtime, poller, host, ops, history>>

\* The end of a session that is up: what the console has not read is gone.
Ends(c) ==
    /\ peer'    = [peer EXCEPT ![c] = IF @ = "up" THEN "gone" ELSE @]
    /\ greeted' = [greeted EXCEPT ![c] = FALSE]
    /\ wire'    = [wire EXCEPT ![c] = 0]

\* The console ends the session.  The receiver thread ends with it, and
\* nothing else changes: the state stays what it was.
HangUp(c) ==
    /\ peer[c] = "up" /\ Ends(c)
    /\ UNCHANGED <<client, who>>
    /\ UNCHANGED <<runtime, poller, host, ops, history>>

-----------------------------------------------------------------------------
(* The thread of FieldHost: connect, then tick.                             *)

\* Mutant: a socket that failed is not closed.
LetGoNot(c) == UNCHANGED sock /\ Ends(c)

\* close(): the client lets its socket go, later it says DISCONNECTED.
LetGo(c) ==
    /\ sock' = [sock EXCEPT ![c] = FALSE]
    /\ Ends(c)

Reset(c) ==
    /\ state' = [state EXCEPT ![c] = "DISCONNECTED"]
    /\ user' = [user EXCEPT ![c] = "none"]
    /\ retried' = [retried EXCEPT ![c] = FALSE]

MakeClient ==
    /\ \E c \in Clients :
          /\ Unused(c)
          /\ current' = c /\ opening' = c
          /\ state' = [state EXCEPT ![c] = "DISCONNECTED"]
          /\ sock' = [sock EXCEPT ![c] = FALSE]
          /\ user' = [user EXCEPT ![c] = "none"]
          /\ retried' = [retried EXCEPT ![c] = FALSE]
          /\ inbox' = [inbox EXCEPT ![c] = Nothing]
          /\ peer' = [peer EXCEPT ![c] = "none"]
          /\ made' = settings
          /\ asked' = [asked EXCEPT ![c] = 0]
    /\ pc' = "open"
    /\ UNCHANGED <<settings, reconnect, due, host, ops, who, greeted, wire>>

\* Mutant: only a runtime without a client connects.
TryConnectOnce ==
    /\ pc = "idle" /\ ~stop /\ current = NoClient /\ due
    /\ MakeClient

\* runtime.connect up to client.connect: a new client for the settings.
TryConnect ==
    /\ pc = "idle" /\ ~stop /\ RuntimeState = "DISCONNECTED" /\ due
    /\ MakeClient

\* connect raised: the client is dropped, the next attempt waits.
ConnectRaised ==
    /\ current' = NoClient /\ opening' = NoClient
    /\ due' = FALSE /\ pc' = "tick"

OpenFails ==
    /\ pc = "open"
    /\ ConnectRaised
    /\ UNCHANGED <<client, settings, reconnect, host, ops, console, history>>

\* The socket is open and the receiver runs.
Opened ==
    LET c == opening IN
    /\ pc = "open"
    /\ sock' = [sock EXCEPT ![c] = TRUE]
    /\ state' = [state EXCEPT ![c] = "TCP_CONNECTED"]
    /\ peer' = [peer EXCEPT ![c] = "up"]
    /\ who' = [who EXCEPT ![c] = "guest"]
    /\ greeted' = [greeted EXCEPT ![c] = FALSE]
    /\ wire' = [wire EXCEPT ![c] = 0]
    /\ pc' = "login"
    /\ UNCHANGED <<user, retried, inbox, runtime, due, opening, host, ops, history>>

\* The Login is out, which a console that is gone may not show at once.
LoginSent ==
    LET c == opening IN
    /\ pc = "login" /\ sock[c]
    /\ state' = [state EXCEPT ![c] = "AUTHENTICATING"]
    /\ wire' = [wire EXCEPT ![c] = IF peer[c] = "up" THEN @ + 1 ELSE @]
    /\ asked' = [asked EXCEPT ![c] = @ + 1]
    /\ pc' = "first"
    /\ UNCHANGED <<sock, user, retried, inbox, runtime, due, opening, host, ops,
                   peer, who, greeted, made>>

\* sendall raises, and the client is closed; or there is no socket any more.
LoginFails ==
    LET c == opening IN
    /\ pc = "login"
    /\ \/ sock[c] /\ LetGo(c) /\ Reset(c)
       \/ /\ ~sock[c] /\ state' = [state EXCEPT ![c] = "AUTHENTICATING"]
          /\ UNCHANGED <<sock, user, retried, peer, greeted, wire>>
    /\ ConnectRaised
    /\ UNCHANGED <<inbox, who, settings, reconnect, host, ops, history>>

\* What poll_authentication makes of the text, if it sends nothing.
NowUser(c) == IF inbox[c].last = "none" THEN user[c] ELSE inbox[c].last

Retries(c) ==
    /\ ~inbox[c].refused /\ inbox[c].prompt /\ ~retried[c]
    /\ NowUser(c) # "requested"

\* Mutant: any user will do.
VerdictAnyUser(c) ==
    IF inbox[c].refused THEN {"AUTH_FAILED"}
    ELSE IF inbox[c].last # "none" THEN {"READY"}
    ELSE {"AUTHENTICATING", "AUTH_FAILED"}

\* Mutant: there is no timeout.
VerdictPatient(c) ==
    IF inbox[c].refused THEN {"AUTH_FAILED"}
    ELSE IF inbox[c].last = "requested" THEN {"READY"}
    ELSE {"AUTHENTICATING"}

\* Time runs out at any poll that does not decide.
Verdict(c) ==
    IF inbox[c].refused THEN {"AUTH_FAILED"}
    ELSE IF inbox[c].last = "requested" THEN {"READY"}
    ELSE {"AUTHENTICATING", "AUTH_FAILED"}

Drained(c) ==
    /\ inbox' = [inbox EXCEPT ![c] = Nothing]
    /\ user' = [user EXCEPT ![c] = IF inbox[c].refused THEN @ ELSE NowUser(c)]
    /\ state' \in {[state EXCEPT ![c] = v] : v \in Verdict(c)}

\* poll_authentication of a client that is AUTHENTICATING.
Poll(c) ==
    /\ state[c] = "AUTHENTICATING" /\ Drained(c)
    /\ UNCHANGED <<sock, peer, who, greeted, made>>
    /\ IF Retries(c)
       THEN /\ retried' = [retried EXCEPT ![c] = TRUE]
            /\ wire' = [wire EXCEPT ![c] = IF peer[c] = "up" THEN @ + 1 ELSE @]
            /\ asked' = [asked EXCEPT ![c] = @ + 1]
       ELSE UNCHANGED <<retried, wire, asked>>

\* The retry of the Login cannot be sent: the client is closed.
RetryFails(c) ==
    /\ state[c] = "AUTHENTICATING" /\ Retries(c)
    /\ inbox' = [inbox EXCEPT ![c] = Nothing]
    /\ LetGo(c) /\ Reset(c)
    /\ UNCHANGED <<who, made, asked>>

\* The first poll is within connect.
ConnectReturns ==
    /\ pc = "first"
    /\ \/ Poll(opening)
       \/ /\ state[opening] # "AUTHENTICATING"
          /\ UNCHANGED <<client, console, history>>
    /\ reconnect' = FALSE /\ due' = TRUE
    /\ pc' = "tick" /\ opening' = NoClient
    /\ UNCHANGED <<current, settings, host, ops>>

ConnectFails ==
    /\ pc = "first"
    /\ RetryFails(opening)
    /\ ConnectRaised
    /\ UNCHANGED <<settings, reconnect, host, ops>>

\* core.tick, also when there was no connection to open.
Tick ==
    /\ \/ pc = "tick"
       \/ pc = "idle" /\ ~stop /\ ~(RuntimeState = "DISCONNECTED" /\ due)
    /\ pc' = "idle"
    /\ IF RuntimeState = "AUTHENTICATING"
       THEN Poll(current) \/ RetryFails(current)
       ELSE UNCHANGED <<client, console, history>>
    /\ UNCHANGED <<runtime, due, opening, host, ops>>

\* ma_reconnect_interval_seconds have passed.
RetryDue ==
    /\ ~due /\ due' = TRUE
    /\ UNCHANGED <<client, runtime, pc, opening, host, ops, console, history>>

\* The loop sees the event _stop.
Leave ==
    /\ pc = "idle" /\ stop /\ pc' = "ended"
    /\ UNCHANGED <<client, runtime, due, opening, host, ops, console, history>>

-----------------------------------------------------------------------------
(* Operator threads and settings.                                           *)

\* execute finds the client READY.
Begin(o) ==
    /\ opc[o] = "idle" /\ Ready
    /\ opc' = [opc EXCEPT ![o] = "send"]
    /\ held' = [held EXCEPT ![o] = current]
    /\ UNCHANGED <<client, runtime, poller, host, console, history>>

\* The bytes are on their way, or the client has no socket any more.  A send
\* to a console that is gone may succeed.
Send(o) ==
    /\ opc[o] = "send"
    /\ opc' = [opc EXCEPT ![o] = "idle"]
    /\ held' = [held EXCEPT ![o] = NoClient]
    /\ UNCHANGED <<client, runtime, poller, host, console, history>>

\* sendall raises, for a console that is gone or one that reads too slowly: the
\* thread closes the client it holds.
SendFails(o) ==
    /\ opc[o] = "send"
    /\ LetGo(held[o])
    /\ opc' = [opc EXCEPT ![o] = "close"]
    /\ UNCHANGED <<state, user, retried, inbox, held, who>>
    /\ UNCHANGED <<runtime, poller, host, history>>

\* Mutant: the thread closes the connection of the moment.
CloseOfTheMoment(o) ==
    /\ opc[o] = "close" /\ current # NoClient
    /\ Reset(current)
    /\ opc' = [opc EXCEPT ![o] = "idle"]
    /\ held' = [held EXCEPT ![o] = NoClient]
    /\ UNCHANGED <<sock, inbox, runtime, poller, host, console, history>>

\* The receiver is joined, the fields are reset.
Close(o) ==
    /\ opc[o] = "close"
    /\ Reset(held[o])
    /\ opc' = [opc EXCEPT ![o] = "idle"]
    /\ held' = [held EXCEPT ![o] = NoClient]
    /\ UNCHANGED <<sock, inbox, runtime, poller, host, console, history>>

\* update_connection_settings called from outside runtime.connect.  Not while a
\* connection is being opened: connect would then clear reconnect_required for
\* settings it does not connect with.  Only a test calls it, and not then.
UpdateSettings ==
    /\ pc \notin {"open", "login", "first"}
    /\ settings' \in Settings \ {settings}
    /\ reconnect' = (reconnect \/ RuntimeState # "DISCONNECTED")
    /\ UNCHANGED <<client, current, poller, host, ops, console, history>>

-----------------------------------------------------------------------------
(* FieldHost.stop.                                                          *)

Stop ==
    /\ hpc = "runs"
    /\ stop' = TRUE /\ hpc' = "join"
    /\ UNCHANGED <<overran, client, runtime, poller, ops, console, history>>

\* The join ends with the thread or after a second.
Join ==
    /\ hpc = "join" /\ hpc' = "close"
    /\ overran' = (pc # "ended")
    /\ UNCHANGED <<stop, client, runtime, poller, ops, console, history>>

\* disconnect: the socket first, then the fields and the client itself.
Disconnect ==
    /\ hpc = "close" /\ hpc' = "forget"
    /\ IF current = NoClient THEN UNCHANGED <<sock, peer, greeted, wire>>
                            ELSE LetGo(current)
    /\ UNCHANGED <<state, user, retried, inbox, who>>
    /\ UNCHANGED <<stop, overran, runtime, poller, ops, history>>

Forget ==
    /\ hpc = "forget" /\ hpc' = "stopped"
    /\ IF current = NoClient THEN UNCHANGED <<state, user, retried>> ELSE Reset(current)
    /\ current' = NoClient /\ reconnect' = FALSE
    /\ UNCHANGED <<sock, inbox, settings, stop, overran, poller, ops, console, history>>

-----------------------------------------------------------------------------

Console == \E c \in Clients : Banner(c) \/ AnswerLogin(c) \/ HangUp(c)

Poller == TryConnect \/ OpenFails \/ Opened \/ LoginSent \/ LoginFails
            \/ ConnectReturns \/ ConnectFails \/ Tick \/ Leave

Operator(o) == Begin(o) \/ Send(o) \/ SendFails(o) \/ Close(o)

HostCalls == Stop \/ Join \/ Disconnect \/ Forget

Next == Console \/ Poller \/ RetryDue \/ UpdateSettings \/ HostCalls
          \/ \E o \in Operators : Operator(o)

Spec == Init /\ [][Next]_vars

\* A poll that decides, as one does once auth_timeout_seconds have passed.
Decides ==
    /\ ConnectReturns \/ Tick
    /\ \E c \in Clients : state[c] = "AUTHENTICATING" /\ state'[c] # "AUTHENTICATING"

\* Every step of the thread and of stop carries a timeout, and time passes.
\* The console accepts a connection, and a Login on it, once it has been asked
\* often enough.
Fairness ==
    /\ WF_vars(Poller) /\ WF_vars(RetryDue) /\ WF_vars(Join \/ Disconnect \/ Forget)
    /\ SF_vars(Opened) /\ SF_vars(LoginSent) /\ SF_vars(Decides)
    /\ \A o \in Operators : WF_vars(Close(o))

FairSpec == Spec /\ Fairness

Authenticating(c) == state[c] = "AUTHENTICATING"
Down == RuntimeState \in {"DISCONNECTED", "TCP_CONNECTED"}

-----------------------------------------------------------------------------

\* A READY client speaks for the requested user at the console: whatever the
\* order of banner, discarded login, retry and answers, and although answers
\* are seen late or not at all (poll_authentication).
ReadyIsRequested ==
    \A c \in Clients : state[c] = "READY" => who[c] = "requested"

\* A connection asks for its login at most twice (the one bounded retry).
LoginsBounded ==
    \A c \in Clients : asked[c] <= 2

\* The console has one session of the agent at most, that of the runtime's
\* client, and none when the host has stopped; not so after a join that gave
\* up, when connect goes on (FieldHost.stop).
OneSession ==
    overran \/ \A c \in Clients :
        sock[c] => /\ c = current
                   /\ hpc # "stopped"

\* Who sees ready talks to the console the settings name (reconnect_required).
ReadyFitsSettings == Ready => made = settings

\* A session whose socket is open ends by stop only: a thread that closes late,
\* after its send had failed and the socket was let go, closes the client it
\* sent to and no newer one.
KeepsWorking ==
    \A c \in Clients :
        state[c] = "READY" /\ peer[c] = "up" /\ state'[c] # "READY"
           => hpc = "forget"

WorkingStays == [][KeepsWorking]_vars

\* As long as the host runs it tries to leave DISCONNECTED, and a login begins.
Reconnects == Down ~> (~Down \/ stop)

=============================================================================
