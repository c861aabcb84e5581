---------------------------- MODULE ConsoleProofs ---------------------------
(***************************************************************************)
(* How the host reaches the console, for any number of threads, clients,   *)
(* operators and requests: the Telnet session, and the two ways of reading *)
(* the show that are not a List command, the export and the mailbox.       *)
(***************************************************************************)
EXTENDS MCHost, SequenceTheorems, TLAPS

-----------------------------------------------------------------------------
(***************************************************************************)
(* The session with the console, for any number of clients, operators and  *)
(* settings: what READY means, that the console has one session at most,   *)
(* and that one which works ends by stop only.                             *)
(*                                                                         *)
(* All of it rests on who refers to a client: the one a connection is      *)
(* opened for is held by no operator and says DISCONNECTED, and the one an *)
(* operator closes has no session any more.                                *)
(***************************************************************************)

Connecting == pc \in {"open", "login", "first"}

\* The client that is being opened is new, and no operator has it before its Login.
Opens ==
    /\ Connecting => opening \in Clients /\ made = settings
    /\ pc = "open" =>
          /\ inbox[opening] = Session!Nothing /\ state[opening] = "DISCONNECTED"
          /\ ~sock[opening]
    /\ pc \in {"open", "login"} =>
          /\ state[opening] \in {"DISCONNECTED", "TCP_CONNECTED"}
          /\ asked[opening] = 0 /\ \A o \in Operators : held[o] # opening

\* An operator that is busy holds a client; one that closes it, a dead one.
Holds ==
    \A o \in Operators :
        /\ opc[o] # "idle" => held[o] \in Clients
        /\ opc[o] = "close" => peer[held[o]] # "up" /\ ~sock[held[o]]

\* What was said last is so, and so is what was concluded from it.
Heard ==
    \A c \in Clients :
        inbox[c].last = "requested" \/ state[c] = "READY" => who[c] = "requested"

\* A Login is sent when the connection is opened, and once more.
Logins ==
    \A c \in Clients :
        /\ asked[c] <= 2
        /\ state[c] = "AUTHENTICATING" /\ ~retried[c] => asked[c] <= 1

Fits == Session!RuntimeState # "DISCONNECTED" /\ ~reconnect => made = settings

\* How far stop has got.
Stops ==
    /\ hpc # "runs" => stop
    /\ overran => hpc \notin {"runs", "join"}
    /\ ~overran /\ hpc \notin {"runs", "join"} => pc = "ended"

\* Until stop every client in use is the runtime's, and its socket stays for the Login.
Current ==
    ~stop =>
        /\ Connecting => opening = current
        /\ pc = "login" => sock[opening]
        /\ \A c \in Clients : state[c] # "DISCONNECTED" => c = current

\* And unless stop gave up its thread there is no other socket.
Sockets ==
    ~overran =>
        /\ Connecting => opening = current
        /\ \A c \in Clients :
              sock[c] => /\ c = current /\ hpc \notin {"forget", "stopped"}
                         /\ state[c] # "DISCONNECTED"

SessionInv ==
    /\ Session!TypeOK /\ Opens /\ Holds /\ Heard /\ Logins /\ Fits
    /\ Stops /\ Current /\ Sockets

SessionInvariant == part = "session" => SessionInv

-----------------------------------------------------------------------------
(* The type invariant in parts: a step disturbs few of them.                *)

Messages == [last: Session!Users, prompt: BOOLEAN, refused: BOOLEAN]

InboxType == inbox \in [Clients -> Messages]

ClientTypes ==
    /\ state \in [Clients -> Session!States] /\ sock \in [Clients -> BOOLEAN]
    /\ user \in [Clients -> Session!Users]   /\ retried \in [Clients -> BOOLEAN]

Flags == reconnect \in BOOLEAN /\ due \in BOOLEAN /\ stop \in BOOLEAN /\ overran \in BOOLEAN

HostTypes ==
    /\ current \in Clients \cup {NoClient} /\ opening \in Clients \cup {NoClient}
    /\ settings \in Settings
    /\ pc \in {"idle", "open", "login", "first", "tick", "ended"}
    /\ hpc \in {"runs", "join", "close", "forget", "stopped"}
    /\ opc \in [Operators -> {"idle", "send", "close"}]
    /\ held \in [Operators -> Clients \cup {NoClient}]

ConsoleTypes ==
    /\ peer \in [Clients -> {"none", "up", "gone"}]
    /\ who \in [Clients -> {"guest", "requested"}]
    /\ greeted \in [Clients -> BOOLEAN]
    /\ wire \in [Clients -> Nat]
    /\ made \in Settings /\ asked \in [Clients -> Nat]

LEMMA SessionTypes ==
    Session!TypeOK <=> InboxType /\ ClientTypes /\ Flags /\ HostTypes /\ ConsoleTypes
    BY DEF Session!TypeOK, InboxType, Messages, ClientTypes, Flags, HostTypes, ConsoleTypes

LEMMA SessionTypesNext ==
    InboxType' /\ ClientTypes' /\ Flags' /\ HostTypes' /\ ConsoleTypes' => Session!TypeOK'
    BY DEF Session!TypeOK, InboxType, Messages, ClientTypes, Flags, HostTypes, ConsoleTypes

\* What is said to a client is a message.
LEMMA SaysType ==
    ASSUME InboxType, NEW c \in Clients, NEW text \in Messages, Session!Says(c, text)
    PROVE  InboxType'
    BY DEF Session!Says, InboxType

\* A poll drains the inbox and leaves AUTHENTICATING, if it does, for what it read.
LEMMA PollDoes ==
    ASSUME SessionInv, NEW c \in Clients, Session!Poll(c)
    PROVE  /\ InboxType' /\ ClientTypes' /\ ConsoleTypes'
           /\ Heard' /\ Logins'
           /\ sock' = sock /\ peer' = peer /\ made' = made
           /\ \A d \in Clients : inbox[d] = Session!Nothing => inbox'[d] = inbox[d]
           /\ \A d \in Clients : d # c => state'[d] = state[d]
           /\ state[c] = "AUTHENTICATING" /\ state'[c] # "DISCONNECTED"
<1> USE SessionTypes DEF SessionInv
<1>1. PICK v \in Session!Verdict(c) : state' = [state EXCEPT ![c] = v]
    BY DEF Session!Poll, Session!Drained
<1>2. /\ v \in {"AUTHENTICATING", "AUTH_FAILED", "READY"}
      /\ v = "READY" => inbox[c].last = "requested"
    BY <1>1 DEF Session!Verdict
<1>3. Session!Nothing \in Messages
    BY DEF Session!Nothing, Messages, Session!Users
<1>4. inbox' = [inbox EXCEPT ![c] = Session!Nothing]
    BY DEF Session!Poll, Session!Drained
<1>5. InboxType'
    BY <1>3, <1>4 DEF InboxType
<1>6. inbox[c].last \in Session!Users
    BY DEF InboxType, Messages
<1>7. /\ user' \in [Clients -> Session!Users]
      /\ retried' \in [Clients -> BOOLEAN]
      /\ wire' \in [Clients -> Nat] /\ asked' \in [Clients -> Nat]
      /\ UNCHANGED <<sock, peer, who, greeted, made>>
  <2>1. user' \in [Clients -> Session!Users]
    BY <1>6 DEF Session!Poll, Session!Drained, Session!NowUser, ClientTypes
  <2>2. UNCHANGED <<sock, peer, who, greeted, made>>
    BY DEF Session!Poll
  <2>3. CASE Session!Retries(c)
    <3>1. retried' = [retried EXCEPT ![c] = TRUE]
        BY <2>3 DEF Session!Poll
    <3>2. wire' = [wire EXCEPT ![c] = IF peer[c] = "up" THEN @ + 1 ELSE @]
        BY <2>3 DEF Session!Poll
    <3>3. asked' = [asked EXCEPT ![c] = @ + 1]
        BY <2>3 DEF Session!Poll
    <3>4. retried' \in [Clients -> BOOLEAN]
        BY <3>1 DEF ClientTypes
    <3>5. wire' \in [Clients -> Nat] /\ asked' \in [Clients -> Nat]
        BY <3>2, <3>3 DEF ConsoleTypes
    <3> QED BY <2>1, <2>2, <3>4, <3>5
  <2>4. CASE ~Session!Retries(c)
    BY <2>1, <2>2, <2>4 DEF Session!Poll, ClientTypes, ConsoleTypes
  <2> QED BY <2>3, <2>4
<1>8. ClientTypes' /\ ConsoleTypes'
    BY <1>1, <1>2, <1>7 DEF ClientTypes, ConsoleTypes, Session!States
<1>9. Heard'
    BY <1>1, <1>2, <1>4, <1>7 DEF Heard, Session!Nothing, ClientTypes, InboxType
<1>10. state[c] = "AUTHENTICATING"
    BY DEF Session!Poll
<1>11. Logins'
  <2>1. CASE Session!Retries(c)
    <3>1. ~retried[c]
        BY <2>1 DEF Session!Retries
    <3>2. /\ retried' = [retried EXCEPT ![c] = TRUE]
          /\ asked' = [asked EXCEPT ![c] = @ + 1]
        BY <2>1 DEF Session!Poll
    <3> QED BY <1>1, <1>10, <3>1, <3>2 DEF Logins, ClientTypes, ConsoleTypes
  <2>2. CASE ~Session!Retries(c)
    BY <1>1, <1>2, <1>10, <2>2 DEF Logins, Session!Poll, ClientTypes, ConsoleTypes
  <2> QED BY <2>1, <2>2
<1> QED BY <1>1, <1>2, <1>4, <1>5, <1>7, <1>8, <1>9, <1>10, <1>11 DEF ClientTypes, InboxType

\* A retry that cannot be sent ends the session of its client.
LEMMA RetryFailsDoes ==
    ASSUME SessionInv, NEW c \in Clients, Session!RetryFails(c)
    PROVE  /\ InboxType' /\ ClientTypes' /\ ConsoleTypes'
           /\ Heard' /\ Logins'
           /\ sock' = [sock EXCEPT ![c] = FALSE]
           /\ \A d \in Clients : peer'[d] = "up" => peer[d] = "up"
           /\ made' = made
           /\ \A d \in Clients : inbox[d] = Session!Nothing => inbox'[d] = inbox[d]
           /\ state[c] = "AUTHENTICATING" /\ state' = [state EXCEPT ![c] = "DISCONNECTED"]
<1> USE SessionTypes DEF SessionInv, Session!RetryFails, Session!LetGo, Session!Ends, Session!Reset
<1>1. Session!Nothing \in Messages
    BY DEF Session!Nothing, Messages, Session!Users
<1>2. InboxType'
    BY <1>1 DEF InboxType
<1>3. ClientTypes'
    BY DEF ClientTypes, Session!States, Session!Users
<1>4. ConsoleTypes'
    BY DEF ConsoleTypes
<1>5. Heard' /\ Logins'
    BY DEF Heard, Logins, Session!Nothing, ClientTypes, InboxType, ConsoleTypes
<1> QED BY <1>2, <1>3, <1>4, <1>5 DEF ClientTypes, InboxType, ConsoleTypes

-----------------------------------------------------------------------------

\* Every step of the session keeps the invariant.
LEMMA SessionStep ==
    ASSUME SessionInv, Session!ConnectionAssumption, Session!Next
    PROVE  SessionInv'
<1> USE SessionTypes, SessionTypesNext
    DEF SessionInv, Session!client, Session!runtime, Session!poller, Session!host, Session!ops,
        Session!console, Session!history, Session!ConnectionAssumption, Connecting,
        Session!RuntimeState
<1>1. ASSUME NEW c \in Clients, Session!Banner(c) PROVE SessionInv'
  <2>1. UNCHANGED inbox \/ \E text \in Messages :
                              Session!Says(c, text) /\ (text.last = "requested" => who[c] = "requested")
    <3>1. SUFFICES ASSUME NEW prompt \in {inbox[c].prompt, inbox[c].prompt \/ who[c] = "guest"},
                          Session!Says(c, [inbox[c] EXCEPT !.last = who[c], !.prompt = prompt])
                   PROVE  \E text \in Messages :
                              Session!Says(c, text) /\ (text.last = "requested" => who[c] = "requested")
        BY <1>1 DEF Session!Banner
    <3>2. prompt \in BOOLEAN
        BY DEF InboxType, Messages
    <3>3. [inbox[c] EXCEPT !.last = who[c], !.prompt = prompt] \in Messages
      <4>1. inbox[c] \in Messages /\ who[c] \in Session!Users
        BY DEF InboxType, ConsoleTypes, Session!Users
      <4> QED BY <3>2, <4>1 DEF Messages
    <3> QED BY <3>1, <3>3 DEF InboxType, Messages
  <2>2. InboxType' /\ Heard' /\ (\A d \in Clients : inbox'[d] = inbox[d] \/ state[d] # "DISCONNECTED")
    BY <1>1, <2>1 DEF Session!Banner, Session!Says, Heard, InboxType, Messages
  <2>3. ClientTypes' /\ Flags' /\ HostTypes' /\ ConsoleTypes'
    BY <1>1 DEF Session!Banner, ClientTypes, Flags, HostTypes, ConsoleTypes
  <2>4. Opens' /\ Holds' /\ Logins' /\ Fits' /\ Stops' /\ Current' /\ Sockets'
    BY <1>1, <2>2 DEF Session!Banner, Opens, Holds, Logins, Fits, Stops, Current, Sockets,
                      HostTypes
  <2> QED BY <2>2, <2>3, <2>4
<1>2. ASSUME NEW c \in Clients, Session!AnswerLogin(c) PROVE SessionInv'
  <2>1. InboxType'
    BY <1>2, SaysType DEF Session!AnswerLogin, InboxType, Messages, Session!Users
  <2>2. Heard' /\ (\A d \in Clients : inbox'[d] = inbox[d] \/ state[d] # "DISCONNECTED")
    BY <1>2 DEF Session!AnswerLogin, Session!Says, Heard, InboxType, Messages, ConsoleTypes
  <2>3. ClientTypes' /\ Flags' /\ HostTypes'
    BY <1>2 DEF Session!AnswerLogin, ClientTypes, Flags, HostTypes
  <2>4. ConsoleTypes'
    BY <1>2 DEF Session!AnswerLogin, ConsoleTypes
  <2>5. Opens' /\ Holds' /\ Logins' /\ Fits' /\ Stops' /\ Current' /\ Sockets'
    BY <1>2, <2>2 DEF Session!AnswerLogin, Opens, Holds, Logins, Fits, Stops, Current, Sockets,
                      HostTypes
  <2> QED BY <2>1, <2>2, <2>3, <2>4, <2>5
<1>3. ASSUME NEW c \in Clients, Session!HangUp(c) PROVE SessionInv'
  <2>1. InboxType' /\ ClientTypes' /\ Flags' /\ HostTypes' /\ ConsoleTypes'
    BY <1>3 DEF Session!HangUp, Session!Ends, InboxType, ClientTypes, Flags, HostTypes,
                ConsoleTypes
  <2>2. Opens' /\ Holds' /\ Heard' /\ Logins' /\ Fits' /\ Stops' /\ Current' /\ Sockets'
    BY <1>3 DEF Session!HangUp, Session!Ends, Opens, Holds, Heard, Logins, Fits, Stops, Current,
                Sockets, HostTypes, ConsoleTypes
  <2> QED BY <2>1, <2>2
<1>4. ASSUME Session!TryConnect PROVE SessionInv'
  <2>1. PICK c \in Clients : Session!Unused(c) /\ current' = c /\ opening' = c
                             /\ state' = [state EXCEPT ![c] = "DISCONNECTED"]
                             /\ sock' = [sock EXCEPT ![c] = FALSE]
                             /\ user' = [user EXCEPT ![c] = "none"]
                             /\ retried' = [retried EXCEPT ![c] = FALSE]
                             /\ inbox' = [inbox EXCEPT ![c] = Session!Nothing]
                             /\ peer' = [peer EXCEPT ![c] = "none"]
                             /\ made' = settings
                             /\ asked' = [asked EXCEPT ![c] = 0]
    BY <1>4 DEF Session!TryConnect, Session!MakeClient
  <2>2. /\ pc = "idle" /\ ~stop /\ pc' = "open"
        /\ current = NoClient \/ state[current] = "DISCONNECTED"
        /\ UNCHANGED <<settings, reconnect, due, Session!host, Session!ops, who, greeted, wire>>
    BY <1>4 DEF Session!TryConnect, Session!MakeClient
  <2>3. Session!Nothing \in Messages
    BY DEF Session!Nothing, Messages, Session!Users
  <2>4. InboxType' /\ ClientTypes' /\ HostTypes' /\ ConsoleTypes'
    BY <2>1, <2>2, <2>3 DEF InboxType, ClientTypes, HostTypes, ConsoleTypes, Session!States,
                            Session!Users
  <2>5. Flags'
    BY <2>2 DEF Flags
  <2>6. Opens' /\ Holds' /\ Heard' /\ Logins'
    BY <2>1, <2>2 DEF Session!Unused, Session!Nothing, Opens, Holds, Heard, Logins, InboxType,
                      ClientTypes, HostTypes, ConsoleTypes
  <2>7. Fits' /\ Stops' /\ Current' /\ Sockets'
    BY <2>1, <2>2 DEF Fits, Stops, Current, Sockets, ClientTypes, HostTypes
  <2> QED BY <2>4, <2>5, <2>6, <2>7
<1>5. ASSUME Session!OpenFails PROVE SessionInv'
  <2>1. InboxType' /\ ClientTypes' /\ HostTypes' /\ ConsoleTypes'
    BY <1>5 DEF Session!OpenFails, Session!ConnectRaised, InboxType, ClientTypes, HostTypes,
                ConsoleTypes
  <2>2. Flags'
    BY <1>5 DEF Session!OpenFails, Session!ConnectRaised, Flags
  <2>3. Opens' /\ Holds' /\ Heard' /\ Logins' /\ Fits' /\ Stops' /\ Current' /\ Sockets'
    BY <1>5 DEF Session!OpenFails, Session!ConnectRaised, Opens, Holds, Heard, Logins, Fits,
                Stops, Current,
                Sockets
  <2> QED BY <2>1, <2>2, <2>3
<1>6. ASSUME Session!Opened PROVE SessionInv'
  <2>1. opening \in Clients
    BY <1>6 DEF Session!Opened, Opens
  <2>2. InboxType' /\ ClientTypes' /\ HostTypes' /\ ConsoleTypes'
    BY <1>6, <2>1 DEF Session!Opened, InboxType, ClientTypes, HostTypes, ConsoleTypes,
                      Session!States, Session!Users
  <2>3. Flags'
    BY <1>6 DEF Session!Opened, Flags
  <2>4. Opens' /\ Holds' /\ Heard' /\ Logins'
    BY <1>6, <2>1 DEF Session!Opened, Opens, Holds, Heard, Logins, Session!Nothing, InboxType,
                      ClientTypes, HostTypes, ConsoleTypes
  <2>5. Fits' /\ Stops' /\ Current' /\ Sockets'
    BY <1>6, <2>1 DEF Session!Opened, Opens, Fits, Stops, Current, Sockets, ClientTypes, HostTypes
  <2> QED BY <2>2, <2>3, <2>4, <2>5
<1>21. ASSUME Session!LoginSent PROVE SessionInv'
  <2>1. opening \in Clients /\ asked[opening] = 0 /\ sock[opening]
    BY <1>21 DEF Session!LoginSent, Opens
  <2>2. InboxType' /\ ClientTypes' /\ HostTypes' /\ ConsoleTypes'
    BY <1>21, <2>1 DEF Session!LoginSent, InboxType, ClientTypes, HostTypes, ConsoleTypes,
                       Session!States
  <2>3. Flags'
    BY <1>21 DEF Session!LoginSent, Flags
  <2>4. Opens' /\ Holds' /\ Heard' /\ Logins'
    BY <1>21, <2>1 DEF Session!LoginSent, Opens, Holds, Heard, Logins, ClientTypes, HostTypes,
                       ConsoleTypes
  <2>5. Fits' /\ Stops' /\ Current' /\ Sockets'
    BY <1>21, <2>1 DEF Session!LoginSent, Opens, Fits, Stops, Current, Sockets, ClientTypes,
                       HostTypes
  <2> QED BY <2>2, <2>3, <2>4, <2>5
<1>22. ASSUME Session!LoginFails PROVE SessionInv'
  <2>1. /\ pc = "login" /\ opening \in Clients
        /\ pc' = "tick" /\ opening' = NoClient /\ current' = NoClient /\ due' = FALSE
        /\ UNCHANGED <<inbox, who, settings, reconnect, Session!host, Session!ops,
                       Session!history>>
    BY <1>22 DEF Session!LoginFails, Session!ConnectRaised, Opens
  <2>2. Flags' /\ InboxType' /\ HostTypes'
    BY <2>1 DEF Flags, InboxType, HostTypes
  <2>3. CASE Session!LetGo(opening) /\ Session!Reset(opening)
    <3>1. ClientTypes' /\ ConsoleTypes'
        BY <2>1, <2>3 DEF Session!LetGo, Session!Ends, Session!Reset, ClientTypes, ConsoleTypes,
                          Session!States, Session!Users
    <3>2. Opens' /\ Holds' /\ Heard' /\ Logins'
        BY <2>1, <2>3 DEF Session!LetGo, Session!Ends, Session!Reset, Opens, Holds, Heard, Logins,
                          ClientTypes, ConsoleTypes
    <3>3. Fits' /\ Stops' /\ Current' /\ Sockets'
        BY <2>1, <2>3 DEF Session!LetGo, Session!Reset, Fits, Stops, Current, Sockets, ClientTypes
    <3> QED BY <2>2, <3>1, <3>2, <3>3
  <2>4. CASE /\ ~sock[opening] /\ state' = [state EXCEPT ![opening] = "AUTHENTICATING"]
             /\ UNCHANGED <<sock, user, retried, peer, greeted, wire>>
    <3>1. ClientTypes' /\ ConsoleTypes'
        BY <2>1, <2>4 DEF ClientTypes, ConsoleTypes, Session!States
    <3>2. Opens' /\ Holds' /\ Heard' /\ Logins'
        BY <2>1, <2>4 DEF Opens, Holds, Heard, Logins, ClientTypes, ConsoleTypes
    <3>3. Fits' /\ Stops' /\ Current' /\ Sockets'
        BY <2>1, <2>4 DEF Fits, Stops, Current, Sockets, ClientTypes
    <3> QED BY <2>2, <3>1, <3>2, <3>3
  <2> QED BY <1>22, <2>3, <2>4 DEF Session!LoginFails
<1>7. ASSUME Session!ConnectReturns PROVE SessionInv'
  <2>1. /\ pc = "first" /\ opening \in Clients
        /\ pc' = "tick" /\ opening' = NoClient
        /\ UNCHANGED <<current, settings, Session!host, Session!ops>>
    BY <1>7 DEF Session!ConnectReturns, Opens
  <2>2. reconnect' = FALSE /\ due' = TRUE
    BY <1>7 DEF Session!ConnectReturns
  <2>3. CASE Session!Poll(opening)
    <3>1. InboxType' /\ ClientTypes' /\ ConsoleTypes' /\ Heard' /\ Logins'
        BY <2>1, <2>3, PollDoes
    <3>2. HostTypes'
        BY <2>1 DEF HostTypes
    <3>3. Flags'
        BY <2>1, <2>2 DEF Flags
    <3>4. Opens' /\ Holds'
        BY <2>1, <2>3, PollDoes DEF Opens, Holds
    <3>5. Fits' /\ Stops' /\ Current' /\ Sockets'
        BY <2>1, <2>2, <2>3, PollDoes DEF Opens, Fits, Stops, Current, Sockets, HostTypes
    <3> QED BY <3>1, <3>2, <3>3, <3>4, <3>5
  <2>4. CASE UNCHANGED <<Session!client, Session!console, Session!history>>
    <3>1. InboxType' /\ ClientTypes' /\ ConsoleTypes' /\ HostTypes' /\ Heard' /\ Logins'
        BY <2>1, <2>4 DEF InboxType, ClientTypes, ConsoleTypes, HostTypes, Heard, Logins
    <3>2. Flags'
        BY <2>1, <2>2 DEF Flags
    <3>3. Opens' /\ Holds' /\ Fits' /\ Stops' /\ Current' /\ Sockets'
        BY <2>1, <2>2, <2>4 DEF Opens, Holds, Fits, Stops, Current, Sockets
    <3> QED BY <3>1, <3>2, <3>3
  <2> QED BY <1>7, <2>3, <2>4 DEF Session!ConnectReturns
<1>8. ASSUME Session!ConnectFails PROVE SessionInv'
  <2>1. /\ pc = "first" /\ opening \in Clients /\ Session!RetryFails(opening)
        /\ pc' = "tick" /\ opening' = NoClient /\ current' = NoClient
        /\ UNCHANGED <<settings, reconnect, Session!host, Session!ops>>
    BY <1>8 DEF Session!ConnectFails, Session!ConnectRaised, Opens
  <2>2. InboxType' /\ ClientTypes' /\ ConsoleTypes' /\ Heard' /\ Logins'
    BY <2>1, RetryFailsDoes
  <2>3. HostTypes'
    BY <2>1 DEF HostTypes
  <2>4. Flags'
    BY <1>8 DEF Session!ConnectFails, Session!ConnectRaised, Flags
  <2>5. Opens' /\ Holds'
    BY <2>1, RetryFailsDoes DEF Opens, Holds, ClientTypes
  <2>6. Fits' /\ Stops' /\ Current' /\ Sockets'
    BY <2>1, RetryFailsDoes DEF Fits, Stops, Current, Sockets, ClientTypes
  <2> QED BY <2>2, <2>3, <2>4, <2>5, <2>6
<1>9. ASSUME Session!Tick PROVE SessionInv'
  <2>1. /\ pc \in {"idle", "tick"} /\ pc' = "idle"
        /\ UNCHANGED <<Session!runtime, due, opening, Session!host, Session!ops>>
    BY <1>9 DEF Session!Tick
  <2>2. HostTypes' /\ Flags'
    <3>1. HostTypes'
        BY <2>1 DEF HostTypes
    <3>2. Flags'
        BY <2>1 DEF Flags
    <3> QED BY <3>1, <3>2
  <2>3. ASSUME current \in Clients, Session!Poll(current) PROVE SessionInv'
    <3>1. InboxType' /\ ClientTypes' /\ ConsoleTypes' /\ Heard' /\ Logins'
        BY <2>3, PollDoes
    <3>2. Opens' /\ Holds'
        BY <2>1, <2>3, PollDoes DEF Opens, Holds
    <3>3. Fits' /\ Stops' /\ Current' /\ Sockets'
        BY <2>1, <2>3, PollDoes DEF Fits, Stops, Current, Sockets, HostTypes
    <3> QED BY <2>2, <3>1, <3>2, <3>3
  <2>4. ASSUME current \in Clients, Session!RetryFails(current) PROVE SessionInv'
    <3>1. InboxType' /\ ClientTypes' /\ ConsoleTypes' /\ Heard' /\ Logins'
        BY <2>4, RetryFailsDoes
    <3>2. Opens' /\ Holds'
        BY <2>1, <2>4, RetryFailsDoes DEF Opens, Holds, ClientTypes, HostTypes
    <3>3. Fits' /\ Stops' /\ Current' /\ Sockets'
        BY <2>1, <2>4, RetryFailsDoes DEF Fits, Stops, Current, Sockets, ClientTypes
    <3> QED BY <2>2, <3>1, <3>2, <3>3
  <2>5. CASE UNCHANGED <<Session!client, Session!console, Session!history>>
    <3>1. InboxType' /\ ClientTypes' /\ ConsoleTypes' /\ Heard' /\ Logins'
        BY <2>5 DEF InboxType, ClientTypes, ConsoleTypes, Heard, Logins
    <3>2. Opens' /\ Holds' /\ Fits' /\ Stops' /\ Current' /\ Sockets'
        BY <2>1, <2>5 DEF Opens, Holds, Fits, Stops, Current, Sockets
    <3> QED BY <2>2, <3>1, <3>2
  <2> QED BY <1>9, <2>3, <2>4, <2>5 DEF Session!Tick, HostTypes
<1>10. ASSUME Session!Leave PROVE SessionInv'
  <2>1. InboxType' /\ ClientTypes' /\ HostTypes' /\ ConsoleTypes'
    BY <1>10 DEF Session!Leave, InboxType, ClientTypes, HostTypes, ConsoleTypes
  <2>2. Flags'
    BY <1>10 DEF Session!Leave, Flags
  <2>3. Opens' /\ Holds' /\ Heard' /\ Logins'
    BY <1>10 DEF Session!Leave, Opens, Holds, Heard, Logins, ClientTypes, HostTypes, ConsoleTypes
  <2>4. Fits' /\ Stops' /\ Current' /\ Sockets'
    BY <1>10 DEF Session!Leave, Fits, Stops, Current, Sockets, ClientTypes, HostTypes
  <2> QED BY <2>1, <2>2, <2>3, <2>4
<1>11. ASSUME Session!RetryDue PROVE SessionInv'
  <2>1. InboxType' /\ ClientTypes' /\ HostTypes' /\ ConsoleTypes'
    BY <1>11 DEF Session!RetryDue, InboxType, ClientTypes, HostTypes, ConsoleTypes
  <2>2. Flags'
    BY <1>11 DEF Session!RetryDue, Flags
  <2>3. Opens' /\ Holds' /\ Heard' /\ Logins'
    BY <1>11 DEF Session!RetryDue, Opens, Holds, Heard, Logins, ClientTypes, HostTypes,
                 ConsoleTypes
  <2>4. Fits' /\ Stops' /\ Current' /\ Sockets'
    BY <1>11 DEF Session!RetryDue, Fits, Stops, Current, Sockets, ClientTypes, HostTypes
  <2> QED BY <2>1, <2>2, <2>3, <2>4
<1>12. ASSUME Session!UpdateSettings PROVE SessionInv'
  <2>1. InboxType' /\ ClientTypes' /\ HostTypes' /\ ConsoleTypes'
    BY <1>12 DEF Session!UpdateSettings, InboxType, ClientTypes, HostTypes, ConsoleTypes
  <2>2. Flags'
    BY <1>12 DEF Session!UpdateSettings, Flags
  <2>3. Opens' /\ Holds' /\ Heard' /\ Logins'
    BY <1>12 DEF Session!UpdateSettings, Opens, Holds, Heard, Logins, ClientTypes, HostTypes,
                 ConsoleTypes
  <2>4. Fits' /\ Stops' /\ Current' /\ Sockets'
    BY <1>12 DEF Session!UpdateSettings, Fits, Stops, Current, Sockets, ClientTypes, HostTypes
  <2> QED BY <2>1, <2>2, <2>3, <2>4
<1>13. ASSUME Session!Stop PROVE SessionInv'
  <2>1. InboxType' /\ ClientTypes' /\ HostTypes' /\ ConsoleTypes'
    BY <1>13 DEF Session!Stop, InboxType, ClientTypes, HostTypes, ConsoleTypes
  <2>2. Flags'
    BY <1>13 DEF Session!Stop, Flags
  <2>3. Opens' /\ Holds' /\ Heard' /\ Logins'
    BY <1>13 DEF Session!Stop, Opens, Holds, Heard, Logins, ClientTypes, HostTypes, ConsoleTypes
  <2>4. Fits' /\ Stops' /\ Current' /\ Sockets'
    BY <1>13 DEF Session!Stop, Fits, Stops, Current, Sockets, ClientTypes, HostTypes
  <2> QED BY <2>1, <2>2, <2>3, <2>4
<1>14. ASSUME Session!Join PROVE SessionInv'
  <2>1. InboxType' /\ ClientTypes' /\ HostTypes' /\ ConsoleTypes'
    BY <1>14 DEF Session!Join, InboxType, ClientTypes, HostTypes, ConsoleTypes
  <2>2. Flags'
    BY <1>14 DEF Session!Join, Flags
  <2>3. Opens' /\ Holds' /\ Heard' /\ Logins'
    BY <1>14 DEF Session!Join, Opens, Holds, Heard, Logins, ClientTypes, HostTypes, ConsoleTypes
  <2>4. Fits' /\ Stops' /\ Current' /\ Sockets'
    BY <1>14 DEF Session!Join, Fits, Stops, Current, Sockets, ClientTypes, HostTypes
  <2> QED BY <2>1, <2>2, <2>3, <2>4
<1>15. ASSUME Session!Disconnect PROVE SessionInv'
  <2>1. InboxType' /\ ClientTypes' /\ HostTypes' /\ ConsoleTypes'
    <3>1. InboxType' /\ HostTypes'
        BY <1>15 DEF Session!Disconnect, InboxType, HostTypes
    <3>2. CASE current = NoClient
        BY <1>15, <3>1, <3>2 DEF Session!Disconnect, ClientTypes, ConsoleTypes
    <3>3. CASE current # NoClient
      <4>1. ClientTypes'
        BY <1>15, <3>3 DEF Session!Disconnect, Session!LetGo, ClientTypes
      <4>2. Session!Ends(current) /\ UNCHANGED <<who, made, asked>>
        BY <1>15, <3>3 DEF Session!Disconnect, Session!LetGo
      <4>3. ConsoleTypes'
        BY <4>2 DEF Session!Ends, ConsoleTypes
      <4> QED BY <3>1, <4>1, <4>3
    <3> QED BY <3>2, <3>3
  <2>2. Flags'
    BY <1>15 DEF Session!Disconnect, Session!LetGo, Session!Ends, Flags
  <2>3. Opens' /\ Holds' /\ Heard' /\ Logins'
    BY <1>15 DEF Session!Disconnect, Session!LetGo, Session!Ends, Opens, Holds, Heard, Logins,
                 ClientTypes, HostTypes, ConsoleTypes
  <2>4. Fits' /\ Stops' /\ Current' /\ Sockets'
    BY <1>15 DEF Session!Disconnect, Session!LetGo, Session!Ends, Fits, Stops, Current, Sockets,
                 ClientTypes, HostTypes
  <2> QED BY <2>1, <2>2, <2>3, <2>4
<1>16. ASSUME Session!Forget PROVE SessionInv'
  <2>1. InboxType' /\ ClientTypes' /\ HostTypes' /\ ConsoleTypes'
    BY <1>16 DEF Session!Forget, Session!Reset, Session!States, Session!Users, InboxType,
                 ClientTypes, HostTypes, ConsoleTypes
  <2>2. Flags'
    BY <1>16 DEF Session!Forget, Session!Reset, Session!States, Session!Users, Flags
  <2>3. Opens' /\ Holds' /\ Heard' /\ Logins'
    BY <1>16 DEF Session!Forget, Session!Reset, Session!States, Session!Users, Opens, Holds,
                 Heard, Logins, ClientTypes, HostTypes, ConsoleTypes
  <2>4. Fits' /\ Stops' /\ Current' /\ Sockets'
    BY <1>16 DEF Session!Forget, Session!Reset, Session!States, Session!Users, Fits, Stops,
                 Current, Sockets, ClientTypes, HostTypes
  <2> QED BY <2>1, <2>2, <2>3, <2>4
<1>17. ASSUME NEW o \in Operators, Session!Begin(o) PROVE SessionInv'
  <2>1. InboxType' /\ ClientTypes' /\ HostTypes' /\ ConsoleTypes'
    BY <1>17 DEF Session!Begin, Session!Ready, InboxType, ClientTypes, HostTypes, ConsoleTypes
  <2>2. Flags'
    BY <1>17 DEF Session!Begin, Session!Ready, Flags
  <2>3. Opens' /\ Holds' /\ Heard' /\ Logins'
    BY <1>17 DEF Session!Begin, Session!Ready, Opens, Holds, Heard, Logins, ClientTypes,
                 HostTypes, ConsoleTypes
  <2>4. Fits' /\ Stops' /\ Current' /\ Sockets'
    BY <1>17 DEF Session!Begin, Session!Ready, Fits, Stops, Current, Sockets, ClientTypes,
                 HostTypes
  <2> QED BY <2>1, <2>2, <2>3, <2>4
<1>18. ASSUME NEW o \in Operators, Session!Send(o) PROVE SessionInv'
  <2>1. InboxType' /\ ClientTypes' /\ HostTypes' /\ ConsoleTypes'
    BY <1>18 DEF Session!Send, InboxType, ClientTypes, HostTypes, ConsoleTypes
  <2>2. Flags'
    BY <1>18 DEF Session!Send, Flags
  <2>3. Opens' /\ Holds' /\ Heard' /\ Logins'
    BY <1>18 DEF Session!Send, Opens, Holds, Heard, Logins, ClientTypes, HostTypes, ConsoleTypes
  <2>4. Fits' /\ Stops' /\ Current' /\ Sockets'
    BY <1>18 DEF Session!Send, Fits, Stops, Current, Sockets, ClientTypes, HostTypes
  <2> QED BY <2>1, <2>2, <2>3, <2>4
<1>19. ASSUME NEW o \in Operators, Session!SendFails(o) PROVE SessionInv'
  <2>1. InboxType' /\ ClientTypes' /\ HostTypes' /\ ConsoleTypes'
    BY <1>19 DEF Session!SendFails, Session!LetGo, Session!Ends, InboxType, ClientTypes,
                 HostTypes, ConsoleTypes
  <2>2. Flags'
    BY <1>19 DEF Session!SendFails, Session!LetGo, Session!Ends, Flags
  <2>3. Opens' /\ Holds' /\ Heard' /\ Logins'
    BY <1>19 DEF Session!SendFails, Session!LetGo, Session!Ends, Opens, Holds, Heard, Logins,
                 ClientTypes, HostTypes, ConsoleTypes
  <2>4. Fits' /\ Stops' /\ Current' /\ Sockets'
    BY <1>19 DEF Session!SendFails, Session!LetGo, Session!Ends, Opens, Fits, Stops, Current,
                 Sockets, ClientTypes, HostTypes
  <2> QED BY <2>1, <2>2, <2>3, <2>4
<1>20. ASSUME NEW o \in Operators, Session!Close(o) PROVE SessionInv'
  <2>1. InboxType' /\ ClientTypes' /\ HostTypes' /\ ConsoleTypes'
    BY <1>20 DEF Session!Close, Session!Reset, Session!States, Session!Users, InboxType,
                 ClientTypes, HostTypes, ConsoleTypes
  <2>2. Flags'
    BY <1>20 DEF Session!Close, Session!Reset, Session!States, Session!Users, Flags
  <2>3. Opens' /\ Holds' /\ Heard' /\ Logins'
    BY <1>20 DEF Session!Close, Session!Reset, Session!States, Session!Users, Opens, Holds,
                 Heard, Logins, ClientTypes, HostTypes, ConsoleTypes
  <2>4. Fits' /\ Stops' /\ Current' /\ Sockets'
    BY <1>20 DEF Session!Close, Session!Reset, Session!States, Session!Users, Holds, Fits, Stops,
                 Current, Sockets, ClientTypes, HostTypes
  <2> QED BY <2>1, <2>2, <2>3, <2>4
<1> QED BY <1>1, <1>2, <1>3, <1>4, <1>5, <1>6, <1>7, <1>8, <1>9, <1>10, <1>11, <1>12, <1>13,
           <1>14, <1>15, <1>16, <1>17, <1>18, <1>19, <1>20, <1>21, <1>22
    DEF Session!Next, Session!Console, Session!Poller, Session!HostCalls, Session!Operator

-----------------------------------------------------------------------------

LEMMA SessionInit ==
    ASSUME Session!Init PROVE SessionInv
<1> USE DEF Session!Init
<1>1. Session!TypeOK
    BY DEF Session!TypeOK, Session!Nothing, Session!States, Session!Users
<1>2. Opens /\ Holds /\ Heard /\ Logins
    BY DEF Opens, Holds, Heard, Logins, Connecting, Session!Nothing
<1>3. Fits /\ Stops /\ Current /\ Sockets
    BY DEF Fits, Stops, Current, Sockets, Connecting, Session!RuntimeState
<1> QED BY <1>1, <1>2, <1>3 DEF SessionInv

\* A host that does not run its session, and a step that changes nothing, keep it.
LEMMA SessionRests ==
    ASSUME SessionInv, UNCHANGED <<OwnSession, pc, hpc, wire, overran>> PROVE SessionInv'
    BY DEF SessionInv, OwnSession, Session!TypeOK, Opens, Holds, Heard, Logins, Fits, Stops,
           Current,
           Sockets, Connecting, Session!RuntimeState

THEOREM SessionInvariantHolds == Spec => []SessionInvariant
<1>1. Init => SessionInvariant
    BY SessionInit DEF Init, SessionStarts, WatchStarts, CacheStarts, ExportStarts, MailStarts,
                       SessionInvariant
<1>2. SessionInvariant /\ [Next]_vars => SessionInvariant'
  <2> SUFFICES ASSUME SessionInvariant, [Next]_vars, part' = "session" PROVE SessionInv'
    BY DEF SessionInvariant
  <2>1. CASE UNCHANGED vars
    BY <2>1, SessionRests DEF SessionInvariant, vars, Shared
  <2>2. CASE SessionDoes(Session!Next)
    BY <2>2, SessionStep, ConstantsFit DEF SessionInvariant, SessionDoes
  <2>3. CASE Next /\ ~SessionDoes(Session!Next)
    BY <2>3 DEF Next, WatchDoes, CacheDoes, ExportDoes, MailDoes
  <2> QED BY <2>1, <2>2, <2>3
<1> QED BY <1>1, <1>2, PTL DEF Spec

\* READY means that the console has granted the requested user (ReadyMeans of MCHost),
\* and no connection asks for its login more than twice.
THEOREM ReadyMeansIt == Spec => []ReadyMeans
<1>1. SessionInvariant => ReadyMeans
    BY DEF SessionInvariant, SessionInv, ReadyMeans, Heard, Logins, Fits,
           Session!ReadyIsRequested,
           Session!LoginsBounded, Session!ReadyFitsSettings, Session!Ready
<1> QED BY <1>1, SessionInvariantHolds, PTL

\* The console has one session of the agent at most, and none after stop, unless stop gave
\* up its thread.
THEOREM OneSessionOnly == Spec => []OneSession
<1>1. SessionInvariant => OneSession
    BY DEF SessionInvariant, SessionInv, OneSession, Session!OneSession, Sockets
<1> QED BY <1>1, SessionInvariantHolds, PTL

LEMMA WorkingEndsByStop ==
    ASSUME SessionInv, Session!ConnectionAssumption, Session!Next,
           NEW c \in Clients, state[c] = "READY", peer[c] = "up", state'[c] # "READY"
    PROVE  hpc = "forget"
<1> USE SessionTypes DEF SessionInv, Connecting, ClientTypes
<1>1. CASE UNCHANGED state
    BY <1>1
<1>2. CASE Session!TryConnect
    BY <1>2 DEF Session!TryConnect, Session!MakeClient, Session!Unused, Session!RuntimeState,
                Current
<1>3. CASE Session!Opened \/ Session!LoginSent \/ Session!LoginFails
    BY <1>3 DEF Session!Opened, Session!LoginSent, Session!LoginFails, Session!Reset, Opens
<1>4. CASE Session!ConnectReturns \/ Session!ConnectFails
    BY <1>4, PollDoes, RetryFailsDoes
    DEF Session!ConnectReturns, Session!ConnectFails, Session!client, Opens
<1>5. CASE Session!Tick
    BY <1>5, PollDoes, RetryFailsDoes
    DEF Session!Tick, Session!RuntimeState, Session!client, HostTypes
<1>6. CASE Session!Forget
    BY <1>6 DEF Session!Forget
<1>7. ASSUME NEW o \in Operators, Session!Close(o) PROVE FALSE
    BY <1>7 DEF Session!Close, Session!Reset, Holds
<1>8. CASE \/ Session!OpenFails \/ Session!Leave \/ Session!RetryDue
           \/ Session!UpdateSettings \/ Session!Stop \/ Session!Join \/ Session!Disconnect
  <2>1. UNCHANGED state
    BY <1>8 DEF Session!OpenFails, Session!Leave, Session!RetryDue, Session!UpdateSettings,
                Session!Stop, Session!Join, Session!Disconnect, Session!client
  <2> QED BY <1>1, <2>1
<1>9. ASSUME NEW d \in Clients, Session!Banner(d) \/ Session!AnswerLogin(d) \/ Session!HangUp(d)
      PROVE  UNCHANGED state
    BY <1>9 DEF Session!Banner, Session!AnswerLogin, Session!HangUp, Session!client
<1>10. ASSUME NEW o \in Operators, Session!Begin(o) \/ Session!Send(o) \/ Session!SendFails(o)
       PROVE  UNCHANGED state
    BY <1>10 DEF Session!Begin, Session!Send, Session!SendFails, Session!client
<1> QED
    BY <1>1, <1>2, <1>3, <1>4, <1>5, <1>6, <1>7, <1>8, <1>9, <1>10
    DEF Session!Next, Session!Console, Session!Poller, Session!HostCalls, Session!Operator

\* A session that works ends by stop only: whoever closes a client late closes a dead one.
THEOREM WorkingSessionsStay == Spec => WorkingStays
<1>1. SessionInvariant /\ [Next]_vars => [part = "session" => Session!KeepsWorking]_vars
  <2> SUFFICES ASSUME SessionInv, Session!Next, part = "session",
                      NEW c \in Clients, state[c] = "READY", peer[c] = "up", state'[c] # "READY"
               PROVE  hpc = "forget"
    BY DEF SessionInvariant, Next, SessionDoes, WatchDoes, CacheDoes, ExportDoes, MailDoes,
           Session!KeepsWorking
  <2> QED BY WorkingEndsByStop, ConstantsFit
<1> QED BY <1>1, SessionInvariantHolds, PTL DEF Spec, WorkingStays

-----------------------------------------------------------------------------
(***************************************************************************)
(* The two ways of reading the show that are not a List command, for any   *)
(* number of threads and requests and files of any length.                 *)
(*                                                                         *)
(* The export: a request is ordered once, after its file was removed, so a *)
(* file that is whole is not written any more (OrderedOnce), and nobody    *)
(* else removes it (OwnRequest).                                           *)
(*                                                                         *)
(* The mailbox: a request is put into the variable once, so it is on its   *)
(* way there, is there or was run (PutOnce), and the plugin names no       *)
(* request that it did not run (NamedRan).  Without a lost session every   *)
(* run of the plugin comes right behind the request of the reader that     *)
(* starts it (Behind).                                                     *)
(***************************************************************************)

\* What is left of a queue when its first entry is taken, or one is put at its end.
LEMMA TailOf ==
    ASSUME NEW S, NEW q \in Seq(S), q # <<>>
    PROVE  /\ Head(q) = q[1] /\ Head(q) \in S /\ Len(q) \in Nat \ {0}
           /\ Tail(q) \in Seq(S) /\ Len(Tail(q)) = Len(q) - 1
           /\ \A i \in 1..(Len(q) - 1) : Tail(q)[i] = q[i + 1]
    BY HeadTailProperties

LEMMA AppendTo ==
    ASSUME NEW S, NEW q \in Seq(S), NEW e \in S
    PROVE  /\ Append(q, e) \in Seq(S) /\ Len(q) \in Nat /\ Len(Append(q, e)) = Len(q) + 1
           /\ \A i \in 1..Len(q) : Append(q, e)[i] = q[i]
           /\ Append(q, e)[Len(q) + 1] = e
    BY AppendProperties

-----------------------------------------------------------------------------
(* The export.                                                              *)

ExportTypes ==
    /\ owner \in Threads \cup {Nobody}
    /\ pc \in [Threads -> {"idle", "begin", "send", "poll", "read", "again", "parse",
                           "leave", "clean"}]
    /\ req \in [Threads -> Requests \cup {NoRequest}]
    /\ outcome \in [Requests -> {"new", "open", "ok", "error"}]
    /\ kind \in [Requests -> Kinds]

ReaderTypes ==
    /\ size \in [Threads -> 0..Whole] /\ stable \in [Threads -> 0..2]
    /\ got \in [Threads -> 0..Whole]

OrdersType == orders \in Seq(Requests)

FileType == file \in [Requests -> 0..Whole]

UpType == up \in BOOLEAN

LEMMA ExportHasTypes ==
    Export!TypeOK <=> ExportTypes /\ ReaderTypes /\ OrdersType /\ FileType /\ UpType
    BY DEF Export!TypeOK, ExportTypes, ReaderTypes, OrdersType, FileType, UpType

LEMMA ExportTypesNext ==
    ExportTypes' /\ ReaderTypes' /\ OrdersType' /\ FileType' /\ UpType' => Export!TypeOK'
    BY DEF Export!TypeOK, ExportTypes, ReaderTypes, OrdersType, FileType, UpType

\* Who is in a transaction holds the lock, and works on a request of its own.
Locked == \A t \in Threads : Export!InTransaction(t) => owner = t

OwnRequest ==
    /\ \A t \in Threads : pc[t] # "idle" => req[t] \in Requests /\ outcome[req[t]] # "new"
    /\ \A t \in Threads : pc[t] = "idle" <=> req[t] = NoRequest
    /\ \A t, u \in Threads : pc[t] # "idle" /\ pc[u] # "idle" /\ req[t] = req[u] => t = u
    /\ \A t \in Threads : pc[t] \notin {"idle", "leave", "clean"} => outcome[req[t]] = "open"

\* A request is ordered once, after its file was removed, and the console has
\* done with it when the file is whole.
Ordered(r) == \E i \in 1..Len(orders) : orders[i] = r

OrderedOnce ==
    /\ \A i, j \in 1..Len(orders) : orders[i] = orders[j] => i = j
    /\ \A r \in Requests : outcome[r] = "new" => ~Ordered(r)
    /\ \A t \in Threads : pc[t] \in {"begin", "send"} => ~Ordered(req[t])
    /\ \A t \in Threads : pc[t] = "send" => file[req[t]] = Export!Absent
    /\ \A r \in Requests : file[r] = Whole => ~Ordered(r)

\* What was read whole is whole still.
ReadWhole ==
    \A t \in Threads :
        /\ pc[t] = "parse" => got[t] = Whole
        /\ \/ pc[t] \in {"again", "parse"} /\ got[t] = Whole
           \/ pc[t] \in {"leave", "clean"} /\ outcome[req[t]] = "ok"
           => file[req[t]] = Whole

Gone ==
    \A r \in Requests :
        outcome[r] = "ok" /\ (\A t \in Threads : req[t] # r)
            => file[r] = Export!Absent /\ ~Ordered(r)

ExportInv ==
    Export!TypeOK /\ Locked /\ OwnRequest /\ OrderedOnce /\ ReadWhole /\ Gone

ExportInvariant == part = "export" => ExportInv

LEMMA ExportInit ==
    ASSUME Export!Init, Export!ExportAssumption PROVE ExportInv
<1> USE ExportHasTypes DEF Export!Init, Export!ExportAssumption, Export!Absent
<1>1. ExportTypes /\ ReaderTypes /\ FileType
    BY DEF ExportTypes, ReaderTypes, FileType
<1>2. OrdersType /\ Len(orders) = 0
    BY DEF OrdersType
<1>3. UpType
    BY DEF UpType
<1>4. Locked /\ OwnRequest /\ ReadWhole /\ Gone
    BY <1>2 DEF Locked, OwnRequest, ReadWhole, Gone, Export!InTransaction
<1>5. OrderedOnce
    BY <1>2 DEF OrderedOnce, Ordered
<1> QED BY <1>1, <1>2, <1>3, <1>4, <1>5 DEF ExportInv

\* A step of one thread that neither orders nor writes a file, and stays in
\* its transaction.
LEMMA ExportStep ==
    ASSUME ExportInv, Export!ExportAssumption, Export!Next PROVE ExportInv'
<1> USE ExportHasTypes, ExportTypesNext
    DEF ExportInv, Export!reader, Export!console, Export!Absent, Export!Goto, Export!Fail,
        Export!Enter
<1>0. Whole \in Nat /\ Whole > 2 /\ Nobody \notin Threads /\ NoRequest \notin Requests
    BY DEF Export!ExportAssumption
<1>1. ASSUME Export!Refuse PROVE ExportInv'
  <2>1. orders # <<>> /\ orders' = Tail(orders)
    BY <1>1 DEF Export!Refuse
  <2>2. /\ OrdersType' /\ Len(orders) \in Nat
        /\ \A i \in 1..Len(orders') : i + 1 \in 1..Len(orders) /\ orders'[i] = orders[i + 1]
    BY <2>1, TailOf DEF OrdersType
  <2>3. \A r : Ordered(r)' => Ordered(r)
    BY <2>2 DEF Ordered
  <2>4. ExportTypes' /\ ReaderTypes' /\ FileType' /\ UpType'
    BY <1>1 DEF Export!Refuse, ExportTypes, ReaderTypes, FileType, UpType
  <2>5. Locked' /\ OwnRequest' /\ ReadWhole'
    BY <1>1 DEF Export!Refuse, Locked, OwnRequest, ReadWhole, Export!InTransaction
  <2>6. OrderedOnce' /\ Gone'
    <3>1. UNCHANGED <<outcome, pc, req, file>>
        BY <1>1 DEF Export!Refuse
    <3>2. \A i, j \in 1..Len(orders') : orders'[i] = orders'[j] => i = j
        BY <2>2 DEF OrderedOnce, OrdersType
    <3> QED BY <2>3, <3>1, <3>2 DEF OrderedOnce, Gone
  <2> QED BY <2>2, <2>4, <2>5, <2>6
<1>2. ASSUME Export!WriteChunk PROVE ExportInv'
  <2>0. PICK r : r = Head(orders)
    OBVIOUS
  <2>1. /\ orders # <<>> /\ file' = [file EXCEPT ![r] = @ + 1]
        /\ orders' = IF file[r] + 1 = Whole THEN Tail(orders) ELSE orders
        /\ UNCHANGED <<owner, pc, req, size, stable, got, up, kind, outcome>>
    BY <1>2, <2>0 DEF Export!WriteChunk
  <2>2. /\ r \in Requests /\ r = orders[1] /\ Len(orders) \in Nat \ {0}
        /\ Tail(orders) \in Seq(Requests) /\ Len(Tail(orders)) = Len(orders) - 1
        /\ \A i \in 1..(Len(orders) - 1) : Tail(orders)[i] = orders[i + 1]
    BY <2>0, <2>1, TailOf DEF OrdersType
  <2>3. Ordered(r)
    BY <2>2 DEF Ordered
  <2>4. file[r] # Whole /\ FileType'
    BY <1>0, <2>1, <2>2, <2>3 DEF OrderedOnce, FileType
  <2>5. ExportTypes' /\ ReaderTypes' /\ UpType'
    BY <2>1 DEF ExportTypes, ReaderTypes, UpType
  <2>6. OrdersType'
    BY <2>1, <2>2 DEF OrdersType
  <2>7. Locked' /\ OwnRequest'
    BY <2>1 DEF Locked, OwnRequest, Export!InTransaction
  <2>8. /\ \A i, j \in 1..Len(orders') : orders'[i] = orders'[j] => i = j
        /\ \A q : Ordered(q)' => Ordered(q)
        /\ file[r] + 1 = Whole => ~Ordered(r)'
    <3>1. CASE file[r] + 1 # Whole
        BY <2>1, <3>1 DEF OrderedOnce, Ordered
    <3>2. CASE file[r] + 1 = Whole
      <4>1. /\ Len(orders) \in Nat \ {0} /\ r = orders[1] /\ Len(orders') = Len(orders) - 1
            /\ \A i \in 1..Len(orders') : i + 1 \in 1..Len(orders) /\ orders'[i] = orders[i + 1]
        BY <2>1, <2>2, <3>2
      <4>2. \A i, j \in 1..Len(orders) : orders[i] = orders[j] => i = j
        BY DEF OrderedOnce
      <4>3. \A i, j \in 1..Len(orders') : orders'[i] = orders'[j] => i = j
        BY <4>1, <4>2
      <4>4. \A i \in 1..Len(orders') : orders'[i] # r
        BY <4>1, <4>2
      <4>5. \A q : Ordered(q)' => Ordered(q)
        BY <4>1 DEF Ordered
      <4>6. ~Ordered(r)'
        BY <4>4 DEF Ordered
      <4> QED BY <4>3, <4>5, <4>6
    <3> QED BY <3>1, <3>2
  <2>9. /\ file'[r] = file[r] + 1
        /\ \A q \in Requests \ {r} : file'[q] = file[q]
    BY <2>1, <2>2 DEF FileType
  <2>10. OrderedOnce'
    <3>1. \A t \in Threads : pc[t] = "send" => req[t] \in Requests \ {r}
        BY <2>3 DEF OrderedOnce, OwnRequest
    <3>2. \A q \in Requests : file'[q] = Whole => ~Ordered(q)'
      <4> SUFFICES ASSUME NEW q \in Requests, file'[q] = Whole PROVE ~Ordered(q)'
        OBVIOUS
      <4>1. CASE q = r
        BY <2>8, <2>9, <4>1
      <4>2. CASE q # r
        BY <2>8, <2>9, <4>2 DEF OrderedOnce
      <4> QED BY <4>1, <4>2
    <3>3. \A t \in Threads : pc[t] = "send" => file'[req[t]] = 0
        BY <2>9, <3>1 DEF OrderedOnce
    <3> QED BY <2>1, <2>8, <3>2, <3>3 DEF OrderedOnce
  <2>11. ReadWhole' /\ Gone'
    BY <2>1, <2>2, <2>3, <2>4, <2>8, <2>9 DEF OrderedOnce, ReadWhole, Gone, OwnRequest
  <2> QED BY <2>4, <2>5, <2>6, <2>7, <2>10, <2>11
<1>3. ASSUME Export!HangUp \/ Export!Connected PROVE ExportInv'
  <2>1. ExportTypes' /\ ReaderTypes' /\ OrdersType' /\ FileType'
    BY <1>3 DEF Export!HangUp, Export!Connected, ExportTypes, ReaderTypes, OrdersType, FileType
  <2>2. UpType'
    BY <1>3 DEF Export!HangUp, Export!Connected, UpType
  <2>3. Locked' /\ OwnRequest' /\ OrderedOnce' /\ ReadWhole' /\ Gone'
    BY <1>3 DEF Export!HangUp, Export!Connected, Locked, OwnRequest, OrderedOnce, Ordered,
                ReadWhole, Gone, Export!InTransaction
  <2> QED BY <2>1, <2>2, <2>3
<1>4. ASSUME NEW t \in Threads, Export!Start(t) PROVE ExportInv'
  <2>1. PICK r \in Requests : /\ outcome[r] = "new" /\ req' = [req EXCEPT ![t] = r]
                              /\ outcome' = [outcome EXCEPT ![r] = "open"]
    BY <1>4 DEF Export!Start
  <2>2. /\ pc[t] = "idle" /\ pc' = [pc EXCEPT ![t] = "begin"]
        /\ UNCHANGED <<owner, size, stable, got, up, orders, file, kind>>
    BY <1>4 DEF Export!Start
  <2>3. ExportTypes'
    BY <2>1, <2>2 DEF ExportTypes
  <2>4. ReaderTypes' /\ OrdersType' /\ FileType' /\ UpType'
    BY <2>2 DEF ReaderTypes, OrdersType, FileType, UpType
  <2>5. Locked' /\ OwnRequest'
    BY <1>0, <2>1, <2>2 DEF Locked, OwnRequest, Export!InTransaction, ExportTypes
  <2>6. OrderedOnce' /\ ReadWhole' /\ Gone'
    BY <1>0, <2>1, <2>2 DEF OrderedOnce, Ordered, ReadWhole, Gone, OwnRequest, ExportTypes
  <2> QED BY <2>3, <2>4, <2>5, <2>6
<1>5. ASSUME NEW t \in Threads, Export!Begin(t) PROVE ExportInv'
  <2>1. /\ pc[t] = "begin" /\ owner \in {t, Nobody} /\ owner' = t
        /\ file' = [file EXCEPT ![req[t]] = 0]
        /\ size' = [size EXCEPT ![t] = 0] /\ stable' = [stable EXCEPT ![t] = 0]
        /\ pc' = [pc EXCEPT ![t] = "send"]
        /\ UNCHANGED <<req, got, up, orders, kind, outcome>>
    BY <1>5 DEF Export!Begin
  <2>2. ExportTypes' /\ ReaderTypes'
    BY <1>0, <2>1 DEF ExportTypes, ReaderTypes
  <2>3. OrdersType' /\ UpType'
    BY <2>1 DEF OrdersType, UpType
  <2>4. FileType'
    <3>1. file' = [file EXCEPT ![req[t]] = 0]
        BY <2>1
    <3>2. 0 \in 0..Whole /\ file \in [Requests -> 0..Whole]
        BY <1>0 DEF FileType
    <3> QED BY <3>1, <3>2 DEF FileType
  <2>5. Locked' /\ OwnRequest'
    BY <1>0, <2>1 DEF Locked, OwnRequest, Export!InTransaction, ExportTypes
  <2>6. OrderedOnce' /\ ReadWhole' /\ Gone'
    BY <1>0, <2>1 DEF OrderedOnce, Ordered, ReadWhole, Gone, OwnRequest, ExportTypes, FileType
  <2> QED BY <2>2, <2>3, <2>4, <2>5, <2>6
<1>6. ASSUME NEW t \in Threads, Export!Send(t) PROVE ExportInv'
  <2>1. /\ pc[t] = "send" /\ req[t] \in Requests /\ owner' = owner
        /\ UNCHANGED <<req, size, stable, got, up, file, kind>>
    BY <1>6 DEF Export!Send, OwnRequest
  <2>2. \/ /\ orders' = Append(orders, req[t]) \/ orders' = orders
           /\ pc' = [pc EXCEPT ![t] = "poll"] /\ outcome' = outcome
        \/ /\ orders' = orders /\ pc' = [pc EXCEPT ![t] = "leave"]
           /\ outcome' = [outcome EXCEPT ![req[t]] = "error"]
    BY <1>6 DEF Export!Send
  <2>3. ExportTypes'
    BY <2>1, <2>2 DEF ExportTypes
  <2>4. ReaderTypes' /\ FileType' /\ UpType'
    BY <2>1 DEF ReaderTypes, FileType, UpType
  <2>5. OrdersType'
    BY <2>1, <2>2, AppendTo DEF OrdersType
  <2>6. Locked' /\ OwnRequest'
    BY <1>0, <2>1, <2>2 DEF Locked, OwnRequest, Export!InTransaction, ExportTypes
  <2>7. /\ \A i, j \in 1..Len(orders') : orders'[i] = orders'[j] => i = j
        /\ \A q : Ordered(q)' => Ordered(q) \/ q = req[t]
    <3>1. CASE orders' = orders
        BY <3>1 DEF OrderedOnce, Ordered
    <3>2. CASE orders' = Append(orders, req[t])
      <4>1. /\ Len(orders) \in Nat /\ Len(orders') = Len(orders) + 1
            /\ \A i \in 1..Len(orders) : orders'[i] = orders[i]
            /\ orders'[Len(orders) + 1] = req[t]
        BY <2>1, <3>2, AppendTo DEF OrdersType
      <4>2. ~Ordered(req[t])
        BY <2>1 DEF OrderedOnce
      <4> QED BY <4>1, <4>2 DEF OrderedOnce, Ordered
    <3> QED BY <2>2, <3>1, <3>2
  <2>8. OrderedOnce'
    <3>1. file[req[t]] # Whole /\ outcome[req[t]] = "open"
        BY <1>0, <2>1 DEF OrderedOnce, OwnRequest
    <3>2. \A r \in Requests : outcome'[r] = "new" => outcome[r] = "new"
        BY <2>1, <2>2 DEF ExportTypes
    <3>3. /\ pc'[t] \notin {"begin", "send"}
          /\ \A u \in Threads \ {t} : pc'[u] = pc[u] /\ (pc[u] # "idle" => req[u] # req[t])
        BY <2>1, <2>2 DEF ExportTypes, OwnRequest
    <3> QED BY <2>1, <2>7, <3>1, <3>2, <3>3 DEF OrderedOnce
  <2>9. ReadWhole'
    BY <1>0, <2>1, <2>2 DEF ReadWhole, OwnRequest, ExportTypes
  <2>10. Gone'
    BY <1>0, <2>1, <2>2, <2>7 DEF Gone, OwnRequest, ExportTypes
  <2> QED BY <2>3, <2>4, <2>5, <2>6, <2>8, <2>9, <2>10
<1>7. ASSUME NEW t \in Threads, Export!Timeout(t) \/ Export!Parse(t) PROVE ExportInv'
  <2>1. /\ pc[t] \in {"poll", "parse"} /\ req[t] \in Requests
        /\ pc' = [pc EXCEPT ![t] = "leave"]
        /\ \/ outcome' = [outcome EXCEPT ![req[t]] = "error"]
           \/ pc[t] = "parse" /\ outcome' = [outcome EXCEPT ![req[t]] = "ok"]
        /\ UNCHANGED <<owner, req, size, stable, got, up, orders, file, kind>>
    BY <1>7 DEF Export!Timeout, Export!Parse, OwnRequest
  <2>2. ExportTypes'
    BY <2>1 DEF ExportTypes
  <2>3. ReaderTypes' /\ FileType' /\ OrdersType' /\ UpType'
    BY <2>1 DEF ReaderTypes, FileType, OrdersType, UpType
  <2>4. Locked' /\ OwnRequest'
    BY <1>0, <2>1 DEF Locked, OwnRequest, Export!InTransaction, ExportTypes
  <2>5. OrderedOnce' /\ ReadWhole' /\ Gone'
    BY <1>0, <2>1 DEF OrderedOnce, Ordered, ReadWhole, Gone, OwnRequest, ExportTypes
  <2> QED BY <2>2, <2>3, <2>4, <2>5
<1>8. ASSUME NEW t \in Threads, Export!Poll(t) \/ Export!Read(t) \/ Export!LookAgain(t)
      PROVE ExportInv'
  <2>1. /\ pc[t] \in {"poll", "read", "again"} /\ req[t] \in Requests
        /\ UNCHANGED <<owner, req, up, orders, file, kind, outcome>>
    BY <1>8 DEF Export!Poll, Export!Read, Export!LookAgain, OwnRequest
  <2>2. \/ pc' = pc /\ got' = got
        \/ \E w \in {"poll", "read"} : pc' = [pc EXCEPT ![t] = w] /\ got' = got
        \/ pc' = [pc EXCEPT ![t] = "again"] /\ got' = [got EXCEPT ![t] = file[req[t]]]
        \/ /\ pc[t] = "again" /\ got[t] = Whole /\ got' = got
           /\ pc' = [pc EXCEPT ![t] = "parse"]
    BY <1>8 DEF Export!Poll, Export!Read, Export!LookAgain, Export!WellFormed
  <2>3. size' \in [Threads -> 0..Whole]
    <3>1. file[req[t]] \in 0..Whole
        BY <2>1 DEF FileType
    <3>2. size' = size \/ size' = [size EXCEPT ![t] = file[req[t]]] \/ size' = [size EXCEPT ![t] = 0]
        BY <1>8 DEF Export!Poll, Export!Read, Export!LookAgain
    <3> QED BY <1>0, <3>1, <3>2 DEF ReaderTypes
  <2>4. stable' \in [Threads -> 0..2]
    <3>1. stable[t] \in 0..2
        BY DEF ReaderTypes
    <3>2. stable' = stable \/ \E n \in 0..2 : stable' = [stable EXCEPT ![t] = n]
        BY <1>8, <3>1 DEF Export!Poll, Export!Read, Export!LookAgain
    <3> QED BY <3>2 DEF ReaderTypes
  <2>5. got' \in [Threads -> 0..Whole]
    BY <2>1, <2>2 DEF ReaderTypes, FileType
  <2>6. ReaderTypes'
    BY <2>3, <2>4, <2>5 DEF ReaderTypes
  <2>7. ExportTypes'
    BY <2>1, <2>2 DEF ExportTypes
  <2>8. FileType' /\ OrdersType' /\ UpType'
    BY <2>1 DEF FileType, OrdersType, UpType
  <2>9. Locked' /\ OwnRequest'
    BY <1>0, <2>1, <2>2 DEF Locked, OwnRequest, Export!InTransaction, ExportTypes
  <2>10. OrderedOnce' /\ Gone'
    BY <2>1, <2>2 DEF OrderedOnce, Ordered, Gone, ExportTypes
  <2>11. ReadWhole'
    BY <2>1, <2>2 DEF ReadWhole, ExportTypes, ReaderTypes
  <2> QED BY <2>6, <2>7, <2>8, <2>9, <2>10, <2>11
<1>9. ASSUME NEW t \in Threads, Export!Leave(t) PROVE ExportInv'
  <2>1. /\ pc[t] = "leave" /\ owner' = Nobody /\ pc' = [pc EXCEPT ![t] = "clean"]
        /\ UNCHANGED <<req, size, stable, got, up, orders, file, kind, outcome>>
    BY <1>9 DEF Export!Leave
  <2>2. ExportTypes'
    BY <2>1 DEF ExportTypes
  <2>3. ReaderTypes' /\ FileType' /\ OrdersType' /\ UpType'
    BY <2>1 DEF ReaderTypes, FileType, OrdersType, UpType
  <2>4. Locked' /\ OwnRequest'
    BY <1>0, <2>1 DEF Locked, OwnRequest, Export!InTransaction, ExportTypes
  <2>5. OrderedOnce' /\ ReadWhole' /\ Gone'
    BY <1>0, <2>1 DEF OrderedOnce, Ordered, ReadWhole, Gone, OwnRequest, ExportTypes
  <2> QED BY <2>2, <2>3, <2>4, <2>5
<1>10. ASSUME NEW t \in Threads, Export!Cleanup(t) PROVE ExportInv'
  <2>1. /\ pc[t] = "clean" /\ req[t] \in Requests /\ pc' = [pc EXCEPT ![t] = "idle"]
        /\ req' = [req EXCEPT ![t] = NoRequest] /\ got' = [got EXCEPT ![t] = 0]
        /\ size' = [size EXCEPT ![t] = 0] /\ stable' = [stable EXCEPT ![t] = 0]
        /\ UNCHANGED <<owner, up, orders, kind, outcome>>
    BY <1>10 DEF Export!Cleanup, OwnRequest
  <2>2. file' = file \/ file' = [file EXCEPT ![req[t]] = 0]
    BY <1>10 DEF Export!Cleanup
  <2>3. outcome[req[t]] = "ok" => file' = [file EXCEPT ![req[t]] = 0] /\ ~Ordered(req[t])
    <3>1. SUFFICES ASSUME outcome[req[t]] = "ok"
                   PROVE  file' = [file EXCEPT ![req[t]] = 0] /\ ~Ordered(req[t])
        OBVIOUS
    <3>2. ~Ordered(req[t])
        BY <2>1, <3>1 DEF ReadWhole, OrderedOnce
    <3>3. ~Export!Writing(req[t])
        BY <3>2, TailOf DEF Export!Writing, Ordered, OrdersType
    <3> QED BY <1>10, <3>1, <3>2, <3>3 DEF Export!Cleanup, Export!Cleans
  <2>4. ExportTypes' /\ ReaderTypes'
    BY <1>0, <2>1 DEF ExportTypes, ReaderTypes
  <2>5. FileType'
    BY <1>0, <2>2 DEF FileType
  <2>6. OrdersType' /\ UpType'
    BY <2>1 DEF OrdersType, UpType
  <2>7. Locked' /\ OwnRequest'
    BY <1>0, <2>1 DEF Locked, OwnRequest, Export!InTransaction, ExportTypes
  <2>10. /\ pc'[t] = "idle"
         /\ \A u \in Threads \ {t} : pc'[u] = pc[u] /\ req'[u] = req[u] /\ got'[u] = got[u]
         /\ \A u \in Threads \ {t} : pc[u] # "idle" => req[u] # req[t]
    BY <2>1 DEF OwnRequest, ExportTypes, ReaderTypes
  <2>11. \A r \in Requests :
            /\ r # req[t] => file'[r] = file[r]
            /\ file'[r] = Whole => file[r] = Whole
            /\ file[r] = 0 => file'[r] = 0
    BY <1>0, <2>1, <2>2 DEF FileType
  <2>12. OrderedOnce'
    BY <2>1, <2>10, <2>11 DEF OrderedOnce, Ordered, OwnRequest
  <2>8. ReadWhole'
    BY <2>1, <2>10, <2>11 DEF ReadWhole, OwnRequest
  <2>9. Gone'
    BY <1>0, <2>1, <2>2, <2>3 DEF Gone, Ordered, OwnRequest, ExportTypes, FileType
  <2> QED BY <2>4, <2>5, <2>6, <2>7, <2>8, <2>9, <2>12
<1> QED
    BY <1>1, <1>2, <1>3, <1>4, <1>5, <1>6, <1>7, <1>8, <1>9, <1>10
    DEF Export!Next, Export!Provide

LEMMA ExportRests ==
    ASSUME ExportInv, UNCHANGED <<OwnExport, pc, owner, req, up, outcome>> PROVE ExportInv'
    BY DEF ExportInv, OwnExport, Export!TypeOK, Locked, OwnRequest, OrderedOnce, Ordered,
           ReadWhole, Gone, Export!InTransaction

\* The types, the lock, whose request is whose, and what a whole file tells, in every state
\* of the export transaction (FieldHost's export providers).
THEOREM ExportInvariantHolds == Spec => []ExportInvariant
<1>1. Init => ExportInvariant
    BY ExportInit, ConstantsFit
    DEF Init, SessionStarts, WatchStarts, CacheStarts, ExportStarts, MailStarts, ExportInvariant
<1>2. ExportInvariant /\ [Next]_vars => ExportInvariant'
  <2> SUFFICES ASSUME ExportInvariant, [Next]_vars, part' = "export" PROVE ExportInv'
    BY DEF ExportInvariant
  <2>1. CASE UNCHANGED vars
    BY <2>1, ExportRests DEF ExportInvariant, vars, Shared
  <2>2. CASE ExportDoes(Export!Next)
    BY <2>2, ExportStep, ConstantsFit DEF ExportInvariant, ExportDoes
  <2>3. CASE Next /\ ~ExportDoes(Export!Next)
    BY <2>3 DEF Next, SessionDoes, WatchDoes, CacheDoes, MailDoes
  <2> QED BY <2>1, <2>2, <2>3
<1> QED BY <1>1, <1>2, PTL DEF Spec

\* What is parsed is a whole document, one thread at a time is in a transaction, and what
\* returned a result left no file behind.
THEOREM ExportsAreWhole == Spec => []ExportsWhole
<1>1. ExportInvariant => ExportsWhole
  <2> SUFFICES ASSUME ExportInv PROVE Export!TypeOK /\ Export!OnlyWhole /\ Export!OneTransaction
                                      /\ Export!NothingLeft
    BY DEF ExportInvariant, ExportsWhole
  <2>1. Export!OneTransaction
    BY DEF ExportInv, Locked, Export!OneTransaction
  <2> QED BY <2>1 DEF ExportInv, ReadWhole, Gone, Export!OnlyWhole, Export!NothingLeft
<1> QED BY <1>1, ExportInvariantHolds, PTL

-----------------------------------------------------------------------------
(* The mailbox.                                                             *)

\* A line of request r is among them.
Names(said, r) == \E i \in 1..Len(said) : said[i].req = r

LEMMA NamesNone == \A r : ~Names(<<>>, r)
    BY DEF Names

LEMMA NamesLater ==
    ASSUME NEW S, NEW q \in Seq(S), q # <<>>, NEW r
    PROVE  /\ Names(Tail(q), r) => Names(q, r)
           /\ Head(q).req = r => Names(q, r)
<1>1. Names(Tail(q), r) => Names(q, r)
  <2>1. /\ Len(q) \in Nat \ {0} /\ Len(Tail(q)) = Len(q) - 1
        /\ \A i \in 1..(Len(q) - 1) : Tail(q)[i] = q[i + 1]
    BY TailOf
  <2> QED BY <2>1 DEF Names
<1>2. Head(q).req = r => Names(q, r)
  <2>1. Len(q) \in Nat \ {0} /\ Head(q) = q[1]
    BY TailOf
  <2> QED BY <2>1 DEF Names
<1> QED BY <1>1, <1>2

LEMMA NamesOneMore ==
    ASSUME NEW S, NEW q \in Seq(S), NEW e \in S, NEW r, Names(Append(q, e), r)
    PROVE  Names(q, r) \/ e.req = r
<1>1. /\ Len(q) \in Nat /\ Len(Append(q, e)) = Len(q) + 1
      /\ \A i \in 1..Len(q) : Append(q, e)[i] = q[i]
      /\ Append(q, e)[Len(q) + 1] = e
    BY AppendTo
<1> QED BY <1>1 DEF Names

LEMMA NamesBoth ==
    ASSUME NEW S, NEW q \in Seq(S), NEW f \in Seq(S), NEW r, Names(q \o f, r)
    PROVE  Names(q, r) \/ Names(f, r)
<1>1. /\ Len(q) \in Nat /\ Len(f) \in Nat /\ Len(q \o f) = Len(q) + Len(f)
      /\ \A i \in 1..(Len(q) + Len(f)) :
            (q \o f)[i] = IF i <= Len(q) THEN q[i] ELSE f[i - Len(q)]
    BY ConcatProperties, LenProperties
<1>2. PICK i \in 1..(Len(q) + Len(f)) : (q \o f)[i].req = r
    BY <1>1 DEF Names
<1>3. CASE i <= Len(q)
    BY <1>1, <1>2, <1>3 DEF Names
<1>4. CASE i > Len(q)
  <2>1. i - Len(q) \in 1..Len(f) /\ f[i - Len(q)].req = r
    BY <1>1, <1>2, <1>4
  <2> QED BY <2>1 DEF Names
<1> QED BY <1>1, <1>3, <1>4

MailTypes ==
    /\ owner \in Threads \cup {Nobody}
    /\ pc \in [Threads -> {"idle", "lock", "set", "sleep", "plugin", "wait", "clear", "release"}]
    /\ req \in [Threads -> Requests \cup {Empty}]
    /\ outcome \in [Requests -> {"new", "open", "ok", "unsupported", "error", "raised", "timeout"}]

CommandTypes ==
    /\ wire \in Seq(Mail!Commands)
    /\ var \in Requests \cup {Empty} /\ last \in Requests \cup {Empty}
    /\ ran \in [Requests -> Nat]

SaidTypes ==
    /\ lines \in Seq(Mail!Lines) /\ received \in Seq(Mail!Lines)
    /\ answer \in [Threads -> Seq(Mail!Lines)]

MailFlags == up \in BOOLEAN /\ ready \in BOOLEAN /\ lost \in BOOLEAN /\ crossed \in BOOLEAN

LEMMA MailHasTypes ==
    Mail!TypeOK <=> MailTypes /\ CommandTypes /\ SaidTypes /\ MailFlags
    BY DEF Mail!TypeOK, MailTypes, CommandTypes, SaidTypes, MailFlags

LEMMA MailTypesNext ==
    MailTypes' /\ CommandTypes' /\ SaidTypes' /\ MailFlags' => Mail!TypeOK'
    BY DEF Mail!TypeOK, MailTypes, CommandTypes, SaidTypes, MailFlags

\* Readers have requests of their own.
Asked ==
    /\ \A t \in Threads : pc[t] # "idle" <=> req[t] # Empty
    /\ \A t \in Threads :
          pc[t] # "idle" => req[t] \in Requests /\ outcome[req[t]] # "new"
    /\ \A t, u \in Threads : pc[t] # "idle" /\ pc[u] # "idle" /\ req[t] = req[u] => t = u
    /\ \A t \in Threads : pc[t] = "clear" => outcome[req[t]] \in {"raised", "timeout"}

\* A request is put into the variable once, so it is on its way there, or is
\* there, or was run once at most.
Put(r) == \E i \in 1..Len(wire) : wire[i] = Mail!Set(r)

Fresh(r) == ~Put(r) /\ var # r /\ ran[r] = 0

PutOnce ==
    /\ \A r \in Requests : ran[r] <= 1
    /\ \A r \in Requests : outcome[r] = "new" => Fresh(r)
    /\ \A t \in Threads : pc[t] \in {"lock", "set"} => Fresh(req[t])
    /\ \A r \in Requests : var = r => ran[r] = 0 /\ ~Put(r)
    /\ \A r \in Requests : Put(r) => ran[r] = 0
    /\ \A r \in Requests : \A i, j \in 1..Len(wire) :
          wire[i] = Mail!Set(r) /\ wire[j] = Mail!Set(r) => i = j

\* The plugin names no request that it did not run.
NamedRan ==
    /\ \A r \in Requests :
          Names(lines, r) \/ Names(received, r) \/ last = r => ran[r] > 0
    /\ \A t \in Threads, r \in Requests : Names(answer[t], r) => ran[r] > 0

\* What was accepted is in the answer.
Accepted ==
    \A t \in Threads : pc[t] = "release" /\ outcome[req[t]] = "ok" =>
        \A k \in {"BEGIN", "END"} :
            \E i \in 1..Len(answer[t]) : answer[t][i] = Mail!Line(req[t], k)

\* Without a loss every run of the plugin comes right behind the request of
\* the reader that starts it.
Behind ==
    ~lost =>
        /\ up /\ ready /\ ~crossed
        /\ \A i \in 1..Len(wire) : wire[i].cmd = "plugin" =>
              IF i = 1 THEN var \in {wire[1].req, Empty}
              ELSE wire[i - 1] = Mail!Set(wire[i].req)
        /\ \A t \in Threads : pc[t] \in {"sleep", "plugin"} =>
              IF wire = <<>> THEN var \in {req[t], Empty}
              ELSE wire[Len(wire)] = Mail!Set(req[t])

MailInv ==
    /\ Mail!TypeOK /\ Mail!LockIsUsed /\ Asked /\ PutOnce /\ NamedRan /\ Accepted /\ Behind

MailInvariant == part = "mailbox" => MailInv

LEMMA MailInit ==
    ASSUME Mail!Init, Mail!MailboxAssumption PROVE MailInv
<1> USE MailHasTypes DEF Mail!Init, Mail!MailboxAssumption
<1>1. MailTypes
    BY DEF MailTypes
<1>2. CommandTypes
    BY DEF CommandTypes
<1>3. SaidTypes
    BY DEF SaidTypes
<1>4. MailFlags
    BY DEF MailFlags
<1>5. Mail!LockIsUsed /\ Asked /\ NamedRan /\ Accepted
    BY NamesNone DEF Mail!LockIsUsed, Asked, NamedRan, Accepted
<1>6. Len(wire) = 0
    OBVIOUS
<1>7. PutOnce
    BY <1>6 DEF PutOnce, Put, Fresh
<1>8. Behind
    BY <1>6 DEF Behind
<1> QED BY <1>1, <1>2, <1>3, <1>4, <1>5, <1>7, <1>8 DEF MailInv

\* The plugin empties the variable, runs the request it finds unless it ran it
\* last, and names no other.
LEMMA MainDoes ==
    ASSUME MailInv, Mail!MailboxAssumption, Mail!Main
    PROVE  /\ var' = Empty /\ last' \in Requests \cup {Empty} /\ ran' \in [Requests -> Nat]
           /\ lines' \in Seq(Mail!Lines)
           /\ \A r \in Requests :
                 /\ r # var => ran'[r] = ran[r]
                 /\ ran'[r] <= 1 /\ ran'[r] >= ran[r]
                 /\ Names(lines', r) \/ last' = r => ran'[r] > 0
<1> USE MailHasTypes DEF MailInv
<1>1. Empty \notin Requests
    BY DEF Mail!MailboxAssumption
<1>2. var \in Requests \cup {Empty} /\ ran \in [Requests -> Nat] /\ lines \in Seq(Mail!Lines)
      /\ last \in Requests \cup {Empty}
    BY DEF CommandTypes, SaidTypes
<1>3. var' = Empty
    BY DEF Mail!Main
<1>4. \A r \in Requests : ran[r] <= 1 /\ (Names(lines, r) \/ last = r => ran[r] > 0)
    BY DEF PutOnce, NamedRan
<1>5. CASE var = Empty
  <2>1. UNCHANGED <<lines, last, ran>>
    BY <1>5 DEF Mail!Main
  <2> QED BY <1>2, <1>3, <1>4, <2>1 DEF CommandTypes
<1>6. CASE var # Empty /\ var = last
  <2> DEFINE e == Mail!Line(var, "ERROR")
  <2>1. lines' = Append(lines, e) /\ UNCHANGED <<last, ran>>
    BY <1>6 DEF Mail!Main
  <2>2. e \in Mail!Lines /\ e.req = var
    BY <1>2, <1>6 DEF Mail!Line, Mail!Lines
  <2> HIDE DEF e
  <2>3. lines' \in Seq(Mail!Lines)
    BY <1>2, <2>1, <2>2, AppendTo
  <2>4. \A r \in Requests : Names(lines', r) => Names(lines, r) \/ r = last
    BY <1>2, <1>6, <2>1, <2>2, NamesOneMore
  <2> QED BY <1>2, <1>3, <1>4, <2>1, <2>3, <2>4
<1>7. CASE var # Empty /\ var # last
  <2>1. PICK f \in Mail!Framed(var) : lines' = lines \o f
    BY <1>7 DEF Mail!Main
  <2>2. last' = var /\ ran' = [ran EXCEPT ![var] = @ + 1]
    BY <1>7 DEF Mail!Main
  <2>3. /\ f \in Seq(Mail!Lines)
        /\ \A i \in 1..Len(f) : f[i].req = var
    <3>1. \A k \in {"BEGIN", "END", "ERROR"} :
              Mail!Line(var, k) \in Mail!Lines /\ Mail!Line(var, k).req = var
        BY <1>2, <1>7 DEF Mail!Line, Mail!Lines
    <3>2. \/ f = <<Mail!Line(var, "BEGIN"), Mail!Line(var, "END")>>
          \/ f = <<Mail!Line(var, "END")>>
          \/ f = <<Mail!Line(var, "ERROR")>>
        BY DEF Mail!Framed
    <3>3. CASE f = <<Mail!Line(var, "BEGIN"), Mail!Line(var, "END")>>
        BY <3>1, <3>3
    <3>4. CASE f = <<Mail!Line(var, "END")>>
        BY <3>1, <3>4
    <3>5. CASE f = <<Mail!Line(var, "ERROR")>>
        BY <3>1, <3>5
    <3> QED BY <3>2, <3>3, <3>4, <3>5
  <2>4. lines' \in Seq(Mail!Lines)
    BY <1>2, <2>1, <2>3, ConcatProperties
  <2>5. \A r \in Requests : Names(lines', r) => Names(lines, r) \/ r = var
    <3> SUFFICES ASSUME NEW r \in Requests, Names(lines \o f, r)
                 PROVE  Names(lines, r) \/ r = var
        BY <2>1
    <3>1. Names(lines, r) \/ Names(f, r)
        BY <1>2, <2>3, NamesBoth
    <3> QED BY <2>3, <3>1 DEF Names
  <2>6. var \in Requests /\ ran[var] = 0
    BY <1>2, <1>7 DEF PutOnce
  <2> QED BY <1>2, <1>3, <1>4, <2>2, <2>4, <2>5, <2>6
<1> QED BY <1>5, <1>6, <1>7

\* A step of a reader that leaves the wire, the variable and what was run alone.
LEMMA MailStep ==
    ASSUME MailInv, Mail!MailboxAssumption, Mail!Next PROVE MailInv'
<1> USE MailHasTypes, MailTypesNext
    DEF MailInv, Mail!reader, Mail!link, Mail!console, Mail!said, Mail!Goto
<1>0. Empty \notin Requests /\ Nobody \notin Threads
    BY DEF Mail!MailboxAssumption
<1>1. ASSUME Mail!RunByHand PROVE MailInv'
  <2>1. UNCHANGED <<owner, pc, req, answer, up, ready, wire, received, outcome, lost, crossed>>
        /\ Mail!Main
    BY <1>1 DEF Mail!RunByHand
  <2>2. /\ var' = Empty /\ last' \in Requests \cup {Empty} /\ ran' \in [Requests -> Nat]
        /\ lines' \in Seq(Mail!Lines)
        /\ \A r \in Requests :
              /\ r # var => ran'[r] = ran[r]
              /\ ran'[r] <= 1 /\ ran'[r] >= ran[r]
              /\ Names(lines', r) \/ last' = r => ran'[r] > 0
    BY <2>1, MainDoes
  <2>3. MailTypes' /\ MailFlags'
    BY <2>1 DEF MailTypes, MailFlags
  <2>4. CommandTypes' /\ SaidTypes'
    BY <2>1, <2>2 DEF CommandTypes, SaidTypes
  <2>5. Mail!LockIsUsed' /\ Asked' /\ Accepted'
    BY <2>1 DEF Mail!LockIsUsed, Asked, Accepted
  <2>6. \A r : Put(r)' = Put(r)
    BY <2>1 DEF Put
  <2>7. \A r \in Requests : Fresh(r) => Fresh(r)'
    BY <1>0, <2>1, <2>2, <2>6 DEF Fresh
  <2>8. \A r \in Requests : Put(r)' => ran'[r] = 0
    BY <2>2, <2>6 DEF PutOnce
  <2>9. PutOnce'
    BY <1>0, <2>1, <2>2, <2>7, <2>8 DEF PutOnce, Asked
  <2>10. NamedRan'
    BY <2>1, <2>2 DEF NamedRan, CommandTypes
  <2>11. Behind'
    BY <2>1, <2>2 DEF Behind
  <2> QED BY <2>3, <2>4, <2>5, <2>9, <2>10, <2>11
<1>2. ASSUME Mail!Handle PROVE MailInv'
  <2>0. PICK c : c = Head(wire)
    OBVIOUS
  <2>1. /\ wire # <<>> /\ wire' = Tail(wire)
        /\ UNCHANGED <<owner, pc, req, answer, up, ready, received, outcome, lost>>
    BY <1>2 DEF Mail!Handle
  <2>2. /\ c \in Mail!Commands /\ c = wire[1] /\ Len(wire) \in Nat \ {0}
        /\ wire' \in Seq(Mail!Commands) /\ Len(wire') = Len(wire) - 1
        /\ \A i \in 1..Len(wire') : i + 1 \in 1..Len(wire) /\ wire'[i] = wire[i + 1]
    BY <2>0, <2>1, TailOf DEF CommandTypes
  <2>3. /\ \A r : Put(r)' => Put(r)
        /\ \A r \in Requests : \A i, j \in 1..Len(wire') :
              wire'[i] = Mail!Set(r) /\ wire'[j] = Mail!Set(r) => i = j
    <3>1. \A r : Put(r)' => Put(r)
        BY <2>2 DEF Put
    <3>2. \A r \in Requests : \A i, j \in 1..Len(wire) :
              wire[i] = Mail!Set(r) /\ wire[j] = Mail!Set(r) => i = j
        BY DEF PutOnce
    <3>3. ASSUME NEW r \in Requests, NEW i \in 1..Len(wire'), NEW j \in 1..Len(wire'),
                 wire'[i] = Mail!Set(r), wire'[j] = Mail!Set(r)
          PROVE  i = j
      <4>1. wire[i + 1] = Mail!Set(r) /\ wire[j + 1] = Mail!Set(r)
        BY <2>2, <3>3
      <4>2. i + 1 = j + 1
        BY <2>2, <3>2, <4>1
      <4> QED BY <2>2, <4>2
    <3> QED BY <3>1, <3>3
  <2>4. Mail!LockIsUsed' /\ Asked' /\ Accepted' /\ MailTypes'
    BY <2>1 DEF Mail!LockIsUsed, Asked, Accepted, MailTypes
  <2>5. CASE c.cmd = "set"
    <3>1. var' = c.req /\ UNCHANGED <<last, lines, ran, crossed>>
        BY <1>2, <2>0, <2>5 DEF Mail!Handle
    <3>2. c.req \in Requests \cup {Empty} /\ c = Mail!Set(c.req)
        BY <2>2, <2>5 DEF Mail!Commands, Mail!Set
    <3>3. MailFlags'
        BY <2>1, <3>1 DEF MailFlags
    <3>4. CommandTypes' /\ SaidTypes'
        BY <2>1, <2>2, <3>1, <3>2 DEF CommandTypes, SaidTypes
    <3>5. Put(c.req)
        BY <2>2, <3>2 DEF Put
    <3>6. c.req \in Requests => ~Put(c.req)'
      <4>1. \A r \in Requests : \A i, j \in 1..Len(wire) :
                wire[i] = Mail!Set(r) /\ wire[j] = Mail!Set(r) => i = j
        BY DEF PutOnce
      <4>2. ASSUME c.req \in Requests, NEW i \in 1..Len(wire'), wire'[i] = Mail!Set(c.req)
            PROVE  FALSE
        <5>1. i + 1 = 1
            BY <2>2, <3>2, <4>1, <4>2
        <5> QED BY <2>2, <5>1
      <4> QED BY <4>2 DEF Put
    <3>7. \A r \in Requests : Fresh(r) => Fresh(r)'
        BY <2>3, <3>1, <3>5 DEF Fresh
    <3>8. PutOnce'
        BY <1>0, <2>1, <2>3, <3>1, <3>2, <3>5, <3>6, <3>7 DEF PutOnce, Asked
    <3>9. NamedRan'
        BY <2>1, <3>1 DEF NamedRan
    <3>10. Behind'
      <4> SUFFICES ASSUME ~lost PROVE Behind'
        BY <2>1 DEF Behind
      <4>1. up' /\ ready' /\ ~crossed'
        BY <2>1, <3>1 DEF Behind
      <4>2. ASSUME NEW i \in 1..Len(wire'), wire'[i].cmd = "plugin"
            PROVE  IF i = 1 THEN var' \in {wire'[1].req, Empty}
                   ELSE wire'[i - 1] = Mail!Set(wire'[i].req)
        <5>1. wire'[i] = wire[i + 1] /\ i + 1 \in 1..Len(wire) /\ i + 1 # 1
            BY <2>2
        <5>2. wire[i] = Mail!Set(wire[i + 1].req)
            BY <2>2, <4>2, <5>1 DEF Behind
        <5>3. CASE i = 1
            BY <2>2, <3>1, <5>1, <5>2, <5>3 DEF Mail!Set
        <5>4. CASE i # 1
          <6>1. i - 1 \in 1..Len(wire') /\ (i - 1) + 1 = i
            BY <2>2, <5>4
          <6>2. wire'[i - 1] = wire[i]
            BY <2>2, <6>1
          <6> QED BY <5>1, <5>2, <5>4, <6>2
        <5> QED BY <5>3, <5>4
      <4>3. ASSUME NEW t \in Threads, pc'[t] \in {"sleep", "plugin"}
            PROVE  IF wire' = <<>> THEN var' \in {req'[t], Empty}
                   ELSE wire'[Len(wire')] = Mail!Set(req'[t])
        <5>1. wire[Len(wire)] = Mail!Set(req[t])
            BY <2>1, <4>3 DEF Behind
        <5>2. CASE wire' = <<>>
          <6>1. Len(wire) = 1
            BY <2>2, <5>2, EmptySeq
          <6>2. c = Mail!Set(req[t])
            BY <2>2, <5>1, <6>1
          <6> QED BY <2>1, <3>1, <5>2, <6>2 DEF Mail!Set
        <5>3. CASE wire' # <<>>
          <6>1. Len(wire') \in 1..Len(wire')
            BY <2>2, <5>3, EmptySeq
          <6> QED BY <2>1, <2>2, <5>1, <5>3, <6>1
        <5> QED BY <5>2, <5>3
      <4> QED BY <2>1, <4>1, <4>2, <4>3 DEF Behind
    <3> QED BY <2>4, <3>3, <3>4, <3>8, <3>9, <3>10
  <2>6. CASE c.cmd = "plugin"
    <3>1. Mail!Main /\ crossed' = (crossed \/ var \notin {c.req, Empty})
        BY <1>2, <2>0, <2>6 DEF Mail!Handle
    <3>2. /\ var' = Empty /\ last' \in Requests \cup {Empty} /\ ran' \in [Requests -> Nat]
          /\ lines' \in Seq(Mail!Lines)
          /\ \A r \in Requests :
                /\ r # var => ran'[r] = ran[r]
                /\ ran'[r] <= 1 /\ ran'[r] >= ran[r]
                /\ Names(lines', r) \/ last' = r => ran'[r] > 0
        BY <3>1, MainDoes
    <3>3. MailFlags'
        BY <2>1, <3>1 DEF MailFlags
    <3>4. CommandTypes' /\ SaidTypes'
        BY <2>1, <2>2, <3>2 DEF CommandTypes, SaidTypes
    <3>5. \A r \in Requests : Fresh(r) => Fresh(r)'
        BY <1>0, <2>3, <3>2 DEF Fresh
    <3>6. \A r \in Requests : Put(r)' => ran'[r] = 0
        BY <2>3, <3>2 DEF PutOnce
    <3>7. PutOnce'
        BY <1>0, <2>1, <2>3, <3>2, <3>5, <3>6 DEF PutOnce, Asked
    <3>8. NamedRan'
        BY <2>1, <3>2 DEF NamedRan, CommandTypes
    <3>9. Behind'
      <4> SUFFICES ASSUME ~lost PROVE Behind'
        BY <2>1 DEF Behind
      <4>4. var \in {c.req, Empty}
        BY <2>2, <2>6 DEF Behind
      <4>5. up /\ ready /\ ~crossed
        BY DEF Behind
      <4>1. up' /\ ready' /\ ~crossed'
        BY <2>1, <3>1, <4>4, <4>5
      <4>2. ASSUME NEW i \in 1..Len(wire'), wire'[i].cmd = "plugin"
            PROVE  IF i = 1 THEN var' \in {wire'[1].req, Empty}
                   ELSE wire'[i - 1] = Mail!Set(wire'[i].req)
        <5>1. wire'[i] = wire[i + 1] /\ i + 1 \in 1..Len(wire) /\ i + 1 # 1
            BY <2>2
        <5>2. wire[i] = Mail!Set(wire[i + 1].req)
            BY <2>2, <4>2, <5>1 DEF Behind
        <5>3. CASE i = 1
            BY <3>2, <5>3
        <5>4. CASE i # 1
          <6>1. i - 1 \in 1..Len(wire') /\ (i - 1) + 1 = i
            BY <2>2, <5>4
          <6>2. wire'[i - 1] = wire[i]
            BY <2>2, <6>1
          <6> QED BY <5>1, <5>2, <5>4, <6>2
        <5> QED BY <5>3, <5>4
      <4>3. ASSUME NEW t \in Threads, pc'[t] \in {"sleep", "plugin"}
            PROVE  IF wire' = <<>> THEN var' \in {req'[t], Empty}
                   ELSE wire'[Len(wire')] = Mail!Set(req'[t])
        <5>1. wire[Len(wire)] = Mail!Set(req[t])
            BY <2>1, <4>3 DEF Behind
        <5>2. CASE wire' # <<>>
          <6>1. Len(wire') \in 1..Len(wire')
            BY <2>2, <5>2, EmptySeq
          <6> QED BY <2>1, <2>2, <5>1, <5>2, <6>1
        <5> QED BY <3>2, <5>2
      <4> QED BY <2>1, <4>1, <4>2, <4>3 DEF Behind
    <3> QED BY <2>4, <3>3, <3>4, <3>7, <3>8, <3>9
  <2> QED BY <2>2, <2>5, <2>6 DEF Mail!Commands
<1>3. ASSUME Mail!Arrive PROVE MailInv'
  <2>1. /\ lines # <<>> /\ lines' = Tail(lines)
        /\ received' = IF up THEN Append(received, Head(lines)) ELSE received
        /\ UNCHANGED <<owner, pc, req, answer, up, ready, wire, var, last, outcome, ran, lost,
                       crossed>>
    BY <1>3 DEF Mail!Arrive
  <2>2. lines \in Seq(Mail!Lines) /\ received \in Seq(Mail!Lines)
    BY DEF SaidTypes
  <2>3. Head(lines) \in Mail!Lines /\ lines' \in Seq(Mail!Lines)
    BY <2>1, <2>2, TailOf
  <2>4. received' \in Seq(Mail!Lines)
    BY <2>1, <2>2, <2>3, AppendTo
  <2>5. MailTypes' /\ CommandTypes' /\ SaidTypes' /\ MailFlags'
    BY <2>1, <2>3, <2>4 DEF MailTypes, CommandTypes, SaidTypes, MailFlags
  <2>6. ASSUME NEW r \in Requests, Names(lines', r) \/ Names(received', r)
        PROVE  Names(lines, r) \/ Names(received, r)
    <3>1. Names(lines', r) => Names(lines, r)
        BY <2>1, <2>2, NamesLater
    <3>2. Head(lines).req = r => Names(lines, r)
        BY <2>1, <2>2, NamesLater
    <3>3. Names(received', r) => Names(received, r) \/ Head(lines).req = r
        BY <2>1, <2>2, <2>3, NamesOneMore
    <3> QED BY <2>6, <3>1, <3>2, <3>3
  <2>7. NamedRan'
    BY <2>1, <2>6 DEF NamedRan
  <2>8. Mail!LockIsUsed' /\ Asked' /\ PutOnce' /\ Accepted' /\ Behind'
    BY <2>1 DEF Mail!LockIsUsed, Asked, PutOnce, Put, Fresh, Accepted, Behind
  <2> QED BY <2>5, <2>7, <2>8
<1>4. ASSUME Mail!HangUp PROVE MailInv'
  <2>1. /\ lost' = TRUE /\ wire' = <<>> /\ up' = FALSE
        /\ UNCHANGED <<owner, pc, req, answer, ready, var, last, lines, received, outcome, ran,
                       crossed>>
    BY <1>4 DEF Mail!HangUp
  <2>2. MailTypes' /\ CommandTypes' /\ SaidTypes'
    BY <2>1 DEF MailTypes, CommandTypes, SaidTypes
  <2>3. MailFlags'
    BY <2>1 DEF MailFlags
  <2>4. Mail!LockIsUsed' /\ Asked' /\ NamedRan' /\ Accepted' /\ Behind'
    BY <2>1 DEF Mail!LockIsUsed, Asked, NamedRan, Accepted, Behind
  <2>5. \A r : ~Put(r)'
    BY <2>1 DEF Put
  <2>6. PutOnce'
    BY <2>1, <2>5 DEF PutOnce, Fresh
  <2> QED BY <2>2, <2>3, <2>4, <2>6
<1>5. ASSUME Mail!Close \/ Mail!Connect \/ Mail!Steal PROVE MailInv'
  <2>1. UNCHANGED <<owner, pc, req, answer, wire, var, last, lines, outcome, ran, lost, crossed>>
    BY <1>5 DEF Mail!Close, Mail!Connect, Mail!Steal
  <2>2. received' = received \/ received' = <<>>
    BY <1>5 DEF Mail!Close, Mail!Connect, Mail!Steal
  <2>3. MailFlags'
    BY <1>5 DEF Mail!Close, Mail!Connect, Mail!Steal, MailFlags
  <2>4. ~lost => up' = up /\ ready' = ready
    BY <1>5 DEF Mail!Close, Mail!Connect, Mail!Steal, Behind
  <2>8. MailTypes' /\ CommandTypes'
    BY <2>1 DEF MailTypes, CommandTypes
  <2>9. received' \in Seq(Mail!Lines)
    <3>1. <<>> \in Seq(Mail!Lines)
        OBVIOUS
    <3> QED BY <2>2, <3>1 DEF SaidTypes
  <2>5. SaidTypes'
    BY <2>1, <2>9 DEF SaidTypes
  <2>6. NamedRan'
    BY <2>1, <2>2, NamesNone DEF NamedRan
  <2>7. Mail!LockIsUsed' /\ Asked' /\ PutOnce' /\ Accepted' /\ Behind'
    BY <2>1, <2>4 DEF Mail!LockIsUsed, Asked, PutOnce, Put, Fresh, Accepted, Behind
  <2> QED BY <2>3, <2>5, <2>6, <2>7, <2>8
<1>6. ASSUME NEW t \in Threads, Mail!Ask(t) PROVE MailInv'
  <2>1. PICK r \in Requests : /\ outcome[r] = "new" /\ req' = [req EXCEPT ![t] = r]
                              /\ outcome' = [outcome EXCEPT ![r] = "open"]
    BY <1>6 DEF Mail!Ask
  <2>2. /\ pc[t] = "idle" /\ pc' = [pc EXCEPT ![t] = "lock"]
        /\ UNCHANGED <<owner, answer, up, ready, wire, var, last, lines, received, ran, lost,
                       crossed>>
    BY <1>6 DEF Mail!Ask
  <2>3. MailTypes'
    BY <2>1, <2>2 DEF MailTypes
  <2>4. CommandTypes' /\ SaidTypes' /\ MailFlags' /\ NamedRan'
    BY <2>2 DEF CommandTypes, SaidTypes, MailFlags, NamedRan
  <2>5. Mail!LockIsUsed' /\ Asked'
    BY <1>0, <2>1, <2>2 DEF Mail!LockIsUsed, Asked, MailTypes
  <2>6. PutOnce'
    BY <1>0, <2>1, <2>2 DEF PutOnce, Put, Fresh, Asked, MailTypes
  <2>7. Accepted' /\ Behind'
    BY <1>0, <2>1, <2>2 DEF Accepted, Behind, Asked, MailTypes
  <2> QED BY <2>3, <2>4, <2>5, <2>6, <2>7
<1>7. ASSUME NEW t \in Threads, Mail!Acquire(t) PROVE MailInv'
  <2>1. /\ pc[t] = "lock" /\ owner = Nobody /\ owner' = t /\ pc' = [pc EXCEPT ![t] = "set"]
        /\ UNCHANGED <<req, answer, up, ready, wire, var, last, lines, received, outcome, ran,
                       lost, crossed>>
    BY <1>7 DEF Mail!Acquire
  <2>2. MailTypes' /\ CommandTypes' /\ SaidTypes' /\ MailFlags'
    BY <2>1 DEF MailTypes, CommandTypes, SaidTypes, MailFlags
  <2>3. Mail!LockIsUsed' /\ Asked'
    BY <1>0, <2>1 DEF Mail!LockIsUsed, Asked, MailTypes
  <2>4. PutOnce' /\ NamedRan' /\ Accepted' /\ Behind'
    BY <2>1 DEF PutOnce, Put, Fresh, NamedRan, Accepted, Behind, MailTypes
  <2> QED BY <2>2, <2>3, <2>4
<1>8. ASSUME NEW t \in Threads, Mail!GiveUp(t) PROVE MailInv'
  <2>1. /\ pc[t] = "lock" /\ req[t] \in Requests /\ pc' = [pc EXCEPT ![t] = "idle"]
        /\ outcome' = [outcome EXCEPT ![req[t]] = "timeout"]
        /\ req' = [req EXCEPT ![t] = Empty]
        /\ UNCHANGED <<owner, answer, up, ready, wire, var, last, lines, received, ran, lost,
                       crossed>>
    BY <1>8 DEF Mail!GiveUp, Asked
  <2>2. MailTypes'
    BY <2>1 DEF MailTypes
  <2>3. CommandTypes' /\ SaidTypes' /\ MailFlags' /\ NamedRan'
    BY <2>1 DEF CommandTypes, SaidTypes, MailFlags, NamedRan
  <2>4. Mail!LockIsUsed' /\ Asked'
    BY <1>0, <2>1 DEF Mail!LockIsUsed, Asked, MailTypes
  <2>5. PutOnce'
    BY <1>0, <2>1 DEF PutOnce, Put, Fresh, Asked, MailTypes
  <2>6. Accepted' /\ Behind'
    BY <1>0, <2>1 DEF Accepted, Behind, Asked, MailTypes
  <2> QED BY <2>2, <2>3, <2>4, <2>5, <2>6
<1>9. ASSUME NEW t \in Threads, Mail!PutRequest(t) PROVE MailInv'
  <2>1. /\ pc[t] = "set" /\ req[t] \in Requests /\ Fresh(req[t])
        /\ UNCHANGED <<owner, req, answer, up, var, last, lines, received, ran, lost, crossed>>
    BY <1>9 DEF Mail!PutRequest, Mail!Send, Asked, PutOnce
  <2>2. \/ /\ wire' = Append(wire, Mail!Set(req[t])) \/ (~up /\ wire' = wire)
           /\ pc' = [pc EXCEPT ![t] = "sleep"] /\ UNCHANGED <<ready, outcome>>
        \/ /\ ~ready \/ ~up
           /\ wire' = wire /\ pc' = [pc EXCEPT ![t] = "clear"] /\ ready' = FALSE
           /\ outcome' = [outcome EXCEPT ![req[t]] = "raised"]
    BY <1>9 DEF Mail!PutRequest, Mail!Send, Mail!Sent, Mail!SendFails
  <2>3. Mail!Set(req[t]) \in Mail!Commands
    BY <2>1 DEF Mail!Set, Mail!Commands
  <2>4. MailFlags'
    BY <2>1, <2>2 DEF MailFlags
  <2>5. MailTypes'
    BY <2>1, <2>2 DEF MailTypes
  <2>6. wire \in Seq(Mail!Commands) /\ wire' \in Seq(Mail!Commands)
    <3>1. wire \in Seq(Mail!Commands)
        BY DEF CommandTypes
    <3>2. Append(wire, Mail!Set(req[t])) \in Seq(Mail!Commands)
        BY <2>3, <3>1, AppendTo
    <3> QED BY <2>2, <3>1, <3>2
  <2>7. CommandTypes' /\ SaidTypes'
    BY <2>1, <2>6 DEF CommandTypes, SaidTypes
  <2>8. Mail!LockIsUsed'
    BY <2>1, <2>2 DEF Mail!LockIsUsed, MailTypes
  <2>9. Asked' /\ NamedRan' /\ Accepted'
    BY <1>0, <2>1, <2>2 DEF Asked, NamedRan, Accepted, MailTypes
  <2>10. PutOnce'
    <3>1. /\ pc'[t] \notin {"lock", "set"}
          /\ \A u \in Threads \ {t} : pc'[u] = pc[u] /\ (pc[u] # "idle" => req[u] # req[t])
          /\ \A r \in Requests : outcome'[r] = "new" => outcome[r] = "new" /\ r # req[t]
        BY <2>1, <2>2 DEF MailTypes, Asked
    <3>2. CASE wire' = wire
        BY <2>1, <3>1, <3>2 DEF PutOnce, Put, Fresh
    <3>3. CASE wire' = Append(wire, Mail!Set(req[t]))
      <4>1. /\ Len(wire) \in Nat /\ Len(wire') = Len(wire) + 1
            /\ \A i \in 1..Len(wire) : wire'[i] = wire[i]
            /\ wire'[Len(wire) + 1] = Mail!Set(req[t])
        BY <2>3, <2>6, <3>3, AppendTo
      <4>2. \A r : Mail!Set(r) = Mail!Set(req[t]) => r = req[t]
        BY DEF Mail!Set
      <4>3. \A r : Put(r)' => Put(r) \/ r = req[t]
        BY <4>1, <4>2 DEF Put
      <4>4. \A r \in Requests : \A i, j \in 1..Len(wire') :
                wire'[i] = Mail!Set(r) /\ wire'[j] = Mail!Set(r) => i = j
        BY <2>1, <4>1, <4>2 DEF PutOnce, Put, Fresh
      <4> QED BY <2>1, <3>1, <4>3, <4>4 DEF PutOnce, Fresh, Asked
    <3> QED BY <2>2, <3>2, <3>3
  <2>11. Behind'
    <3> SUFFICES ASSUME ~lost PROVE Behind'
        BY <2>1 DEF Behind
    <3>1. /\ up /\ ready /\ wire' = Append(wire, Mail!Set(req[t])) /\ ready' = ready
          /\ pc' = [pc EXCEPT ![t] = "sleep"]
        BY <2>2 DEF Behind
    <3>2. /\ Len(wire) \in Nat /\ Len(wire') = Len(wire) + 1
          /\ \A i \in 1..Len(wire) : wire'[i] = wire[i]
          /\ wire'[Len(wire) + 1] = Mail!Set(req[t])
        BY <2>3, <2>6, <3>1, AppendTo
    <3>3. Mail!Set(req[t]).cmd = "set"
        BY DEF Mail!Set
    <3>4. \A u \in Threads : pc'[u] \in {"sleep", "plugin"} => u = t
        BY <2>1, <3>1 DEF Mail!LockIsUsed, MailTypes
    <3>5. ASSUME NEW i \in 1..Len(wire'), wire'[i].cmd = "plugin"
          PROVE  IF i = 1 THEN var' \in {wire'[1].req, Empty}
                 ELSE wire'[i - 1] = Mail!Set(wire'[i].req)
      <4>1. i \in 1..Len(wire)
        BY <3>2, <3>3, <3>5
      <4> QED BY <2>1, <3>2, <3>5, <4>1 DEF Behind
    <3>6. wire' # <<>>
        BY <2>6, <3>2, EmptySeq
    <3> QED BY <2>1, <3>1, <3>2, <3>4, <3>5, <3>6 DEF Behind
  <2> QED BY <2>4, <2>5, <2>7, <2>8, <2>9, <2>10, <2>11
<1>10. ASSUME NEW t \in Threads, Mail!Drained(t) PROVE MailInv'
  <2>1. /\ pc[t] = "sleep" /\ received' = <<>> /\ pc' = [pc EXCEPT ![t] = "plugin"]
        /\ UNCHANGED <<owner, req, answer, up, ready, wire, var, last, lines, outcome, ran, lost,
                       crossed>>
    BY <1>10 DEF Mail!Drained
  <2>2. MailTypes' /\ CommandTypes' /\ SaidTypes' /\ MailFlags'
    BY <2>1 DEF MailTypes, CommandTypes, SaidTypes, MailFlags
  <2>3. Mail!LockIsUsed' /\ Asked' /\ PutOnce' /\ Accepted' /\ Behind'
    BY <1>0, <2>1 DEF Mail!LockIsUsed, Asked, PutOnce, Put, Fresh, Accepted, Behind, MailTypes
  <2>4. NamedRan'
    BY <2>1, NamesNone DEF NamedRan
  <2> QED BY <2>2, <2>3, <2>4
<1>11. ASSUME NEW t \in Threads, Mail!RunPlugin(t) \/ Mail!Clear(t) PROVE MailInv'
  <2>1. PICK c \in Mail!Commands :
          /\ wire' = wire \/ wire' = Append(wire, c)
          /\ up => wire' = Append(wire, c) \/ ~ready
          /\ \/ c = Mail!Plugin(req[t]) /\ pc[t] = "plugin"
             \/ c = Mail!Set(Empty) /\ pc[t] = "clear"
    <3>1. req[t] \in Requests /\ Empty \notin Requests
        BY <1>0, <1>11 DEF Mail!RunPlugin, Mail!Send, Mail!Clear, Asked
    <3>2. Mail!Plugin(req[t]) \in Mail!Commands /\ Mail!Set(Empty) \in Mail!Commands
        BY <3>1 DEF Mail!Plugin, Mail!Set, Mail!Commands
    <3>3. CASE Mail!RunPlugin(t)
        BY <3>2, <3>3 DEF Mail!RunPlugin, Mail!Send, Mail!Sent, Mail!SendFails
    <3>4. CASE Mail!Clear(t)
        BY <3>2, <3>4 DEF Mail!Clear, Mail!Sent, Mail!SendFails
    <3> QED BY <1>11, <3>3, <3>4
  <2>2. /\ pc[t] \in {"plugin", "clear"} /\ req[t] \in Requests
        /\ UNCHANGED <<owner, req, answer, up, var, last, lines, received, ran, lost, crossed>>
    BY <1>11 DEF Mail!RunPlugin, Mail!Clear, Mail!Send, Asked
  <2>3. \/ /\ pc[t] = "plugin" /\ pc' = [pc EXCEPT ![t] = "wait"] /\ outcome' = outcome
        \/ /\ pc[t] = "plugin" /\ pc' = [pc EXCEPT ![t] = "clear"]
           /\ outcome' = [outcome EXCEPT ![req[t]] = "raised"]
        \/ /\ pc[t] = "clear" /\ pc' = [pc EXCEPT ![t] = "release"] /\ outcome' = outcome
    BY <1>11 DEF Mail!RunPlugin, Mail!Clear, Mail!Send
  <2>4. ready' = ready \/ (ready' = FALSE /\ (~ready \/ ~up))
    BY <1>11 DEF Mail!RunPlugin, Mail!Clear, Mail!Send, Mail!Sent, Mail!SendFails
  <2>5. MailFlags'
    BY <2>2, <2>4 DEF MailFlags
  <2>6. MailTypes'
    BY <2>2, <2>3 DEF MailTypes
  <2>7. wire \in Seq(Mail!Commands) /\ wire' \in Seq(Mail!Commands)
    BY <2>1, AppendTo DEF CommandTypes
  <2>8. CommandTypes' /\ SaidTypes'
    BY <2>2, <2>7 DEF CommandTypes, SaidTypes
  <2>9. Mail!LockIsUsed'
    BY <2>2, <2>3 DEF Mail!LockIsUsed, MailTypes
  <2>10. Asked' /\ NamedRan' /\ Accepted'
    BY <1>0, <2>2, <2>3 DEF Asked, NamedRan, Accepted, MailTypes
  <2>11. /\ Len(wire) \in Nat
         /\ \/ wire' = wire
            \/ /\ Len(wire') = Len(wire) + 1 /\ wire'[Len(wire) + 1] = c
               /\ \A i \in 1..Len(wire) : wire'[i] = wire[i]
    BY <2>1, <2>7, AppendTo
  <2>12. \A r \in Requests : c # Mail!Set(r)
    BY <1>0, <2>1 DEF Mail!Plugin, Mail!Set
  <2>13. PutOnce'
    <3>1. /\ pc'[t] \notin {"lock", "set"}
          /\ \A u \in Threads \ {t} : pc'[u] = pc[u]
          /\ \A r \in Requests : outcome'[r] = "new" => outcome[r] = "new"
        BY <2>2, <2>3 DEF MailTypes
    <3>2. \A r \in Requests :
            /\ Put(r)' => Put(r)
            /\ \A i, j \in 1..Len(wire') :
                  wire'[i] = Mail!Set(r) /\ wire'[j] = Mail!Set(r) => i = j
        BY <2>11, <2>12 DEF PutOnce, Put
    <3> QED BY <2>2, <3>1, <3>2 DEF PutOnce, Fresh, Asked
  <2>14. Behind'
    <3> SUFFICES ASSUME ~lost PROVE Behind'
        BY <2>2 DEF Behind
    <3>1. /\ up /\ ready /\ wire' = Append(wire, c) /\ ready' = ready
        BY <2>1, <2>4 DEF Behind
    <3>2. /\ Len(wire) \in Nat /\ Len(wire') = Len(wire) + 1 /\ wire'[Len(wire) + 1] = c
          /\ \A i \in 1..Len(wire) : wire'[i] = wire[i]
        BY <2>7, <3>1, AppendTo
    <3>3. \A u \in Threads : pc'[u] \notin {"sleep", "plugin"}
        BY <2>2, <2>3 DEF Mail!LockIsUsed, MailTypes
    <3>4. ASSUME NEW i \in 1..Len(wire'), wire'[i].cmd = "plugin"
          PROVE  IF i = 1 THEN var' \in {wire'[1].req, Empty}
                 ELSE wire'[i - 1] = Mail!Set(wire'[i].req)
      <4>1. CASE i \in 1..Len(wire)
        BY <2>2, <3>2, <3>4, <4>1 DEF Behind
      <4>2. CASE i = Len(wire) + 1
        <5>1. pc[t] = "plugin" /\ wire'[i].req = req[t]
            BY <2>1, <3>2, <3>4, <4>2 DEF Mail!Plugin, Mail!Set
        <5>2. CASE wire = <<>>
            BY <2>2, <3>2, <4>2, <5>1, <5>2, EmptySeq DEF Behind
        <5>3. CASE wire # <<>>
          <6>1. Len(wire) \in 1..Len(wire) /\ i # 1
            BY <2>7, <4>2, <5>3, EmptySeq
          <6>2. wire[Len(wire)] = Mail!Set(req[t])
            BY <5>1, <5>3 DEF Behind
          <6> QED BY <3>2, <4>2, <5>1, <6>1, <6>2
        <5> QED BY <5>2, <5>3
      <4> QED BY <3>2, <4>1, <4>2
    <3> QED BY <2>2, <3>1, <3>3, <3>4 DEF Behind
  <2> QED BY <2>5, <2>6, <2>8, <2>9, <2>10, <2>13, <2>14
<1>12. ASSUME NEW t \in Threads, Mail!Collect(t) PROVE MailInv'
  <2> DEFINE verdict == Mail!Verdict(received, Mail!Own(received, req[t]))
  <2>1. /\ pc[t] = "wait" /\ req[t] \in Requests
        /\ answer' = [answer EXCEPT ![t] = received] /\ received' = <<>>
        /\ UNCHANGED <<owner, req, up, ready, wire, var, last, lines, ran, lost, crossed>>
    BY <1>12 DEF Mail!Collect, Asked
  <2>2. \/ /\ pc' = [pc EXCEPT ![t] = "release"]
           /\ outcome' = [outcome EXCEPT ![req[t]] = verdict]
        \/ /\ pc' = [pc EXCEPT ![t] = "clear"]
           /\ outcome' = [outcome EXCEPT ![req[t]] = "timeout"]
    BY <1>12 DEF Mail!Collect
  <2>3. verdict \in {"ok", "unsupported", "error"}
    BY DEF Mail!Verdict
  <2>4. verdict = "ok" => \A k \in {"BEGIN", "END"} :
                             \E i \in 1..Len(received) : received[i] = Mail!Line(req[t], k)
    <3> SUFFICES ASSUME verdict = "ok", NEW k \in {"BEGIN", "END"}
                 PROVE  \E i \in 1..Len(received) : received[i] = Mail!Line(req[t], k)
        OBVIOUS
    <3>1. \E i \in Mail!Own(received, req[t]) : received[i].kind = k
        BY DEF Mail!Verdict, Mail!Framing
    <3>2. PICK i \in DOMAIN received : received[i].req = req[t] /\ received[i].kind = k
        BY <3>1 DEF Mail!Own
    <3>3. i \in 1..Len(received) /\ received[i] \in Mail!Lines
        BY LenProperties DEF SaidTypes
    <3> QED BY <3>2, <3>3 DEF Mail!Lines, Mail!Line
  <2> HIDE DEF verdict
  <2>5. MailTypes'
    BY <2>1, <2>2, <2>3 DEF MailTypes
  <2>6. CommandTypes' /\ MailFlags'
    BY <2>1 DEF CommandTypes, MailFlags
  <2>7. SaidTypes'
    BY <2>1 DEF SaidTypes
  <2>8. Mail!LockIsUsed' /\ Asked'
    BY <1>0, <2>1, <2>2, <2>3 DEF Mail!LockIsUsed, Asked, MailTypes
  <2>9. PutOnce' /\ Behind'
    BY <2>1, <2>2, <2>3 DEF PutOnce, Put, Fresh, Behind, MailTypes
  <2>10. NamedRan'
    BY <2>1, NamesNone DEF NamedRan, SaidTypes
  <2>11. Accepted'
    <3>1. \A u \in Threads \ {t} : pc'[u] = "release" =>
              pc[u] = "release" /\ answer'[u] = answer[u] /\ outcome'[req[u]] = outcome[req[u]]
        BY <2>1, <2>2 DEF MailTypes, SaidTypes, Asked
    <3>2. pc'[t] = "release" /\ outcome'[req[t]] = "ok" => verdict = "ok" /\ answer'[t] = received
        BY <2>1, <2>2 DEF MailTypes, SaidTypes
    <3> QED BY <2>1, <2>4, <3>1, <3>2 DEF Accepted
  <2> QED BY <2>5, <2>6, <2>7, <2>8, <2>9, <2>10, <2>11
<1>13. ASSUME NEW t \in Threads, Mail!Release(t) PROVE MailInv'
  <2>1. /\ pc[t] = "release" /\ owner' = Nobody /\ pc' = [pc EXCEPT ![t] = "idle"]
        /\ req' = [req EXCEPT ![t] = Empty] /\ answer' = [answer EXCEPT ![t] = <<>>]
        /\ UNCHANGED <<up, ready, wire, var, last, lines, received, outcome, ran, lost, crossed>>
    BY <1>13 DEF Mail!Release
  <2>2. MailTypes'
    BY <2>1 DEF MailTypes
  <2>3. CommandTypes' /\ MailFlags'
    BY <2>1 DEF CommandTypes, MailFlags
  <2>4. SaidTypes'
    BY <2>1 DEF SaidTypes
  <2>5. Mail!LockIsUsed' /\ Asked'
    BY <1>0, <2>1 DEF Mail!LockIsUsed, Asked, MailTypes
  <2>6. PutOnce' /\ Behind'
    BY <2>1 DEF PutOnce, Put, Fresh, Behind, MailTypes
  <2>7. NamedRan' /\ Accepted'
    BY <2>1, NamesNone DEF NamedRan, Accepted, SaidTypes, MailTypes
  <2> QED BY <2>2, <2>3, <2>4, <2>5, <2>6, <2>7
<1> QED
    BY <1>1, <1>2, <1>3, <1>4, <1>5, <1>6, <1>7, <1>8, <1>9, <1>10, <1>11, <1>12, <1>13
    DEF Mail!Next, Mail!Step

LEMMA MailRests ==
    ASSUME MailInv, UNCHANGED <<OwnMail, pc, wire, ready, received, owner, req, up, outcome>>
    PROVE  MailInv'
    BY DEF MailInv, OwnMail, Mail!TypeOK, Mail!LockIsUsed, Asked, PutOnce, Put, Fresh, NamedRan,
           Names, Accepted, Behind

\* The types, whose request is whose, and where a request is between the reader and the
\* plugin, in every state of the mailbox (read_adapter_state).
THEOREM MailInvariantHolds == Spec => []MailInvariant
<1>1. Init => MailInvariant
    BY MailInit, ConstantsFit
    DEF Init, SessionStarts, WatchStarts, CacheStarts, ExportStarts, MailStarts, MailInvariant
<1>2. MailInvariant /\ [Next]_vars => MailInvariant'
  <2> SUFFICES ASSUME MailInvariant, [Next]_vars, part' = "mailbox" PROVE MailInv'
    BY DEF MailInvariant
  <2>1. CASE UNCHANGED vars
    BY <2>1, MailRests DEF MailInvariant, vars, Shared
  <2>2. CASE MailDoes(Mail!Next)
    BY <2>2, MailStep, ConstantsFit DEF MailInvariant, MailDoes
  <2>3. CASE Next /\ ~MailDoes(Mail!Next)
    BY <2>3 DEF Next, SessionDoes, WatchDoes, CacheDoes, ExportDoes
  <2> QED BY <2>1, <2>2, <2>3
<1> QED BY <1>1, <1>2, PTL DEF Spec

\* An accepted answer is the plugin's to this request, which it ran once; without a lost
\* session no run takes another reader's request; no failure keeps the lock.
THEOREM MailIsOwn == Spec => []MailboxOwn
<1>1. MailInvariant => MailboxOwn
  <2> SUFFICES ASSUME MailInv PROVE Mail!TypeOK /\ Mail!AcceptedIsOwn /\ Mail!RunsOwn /\ Mail!LockIsUsed
    BY DEF MailInvariant, MailboxOwn
  <2> USE MailHasTypes DEF MailInv
  <2>1. ASSUME NEW t \in Threads, pc[t] = "release", outcome[req[t]] = "ok"
        PROVE  /\ ran[req[t]] = 1
               /\ \A k \in {"BEGIN", "END"} : Mail!Line(req[t], k) \in Mail!ToSet(answer[t])
    <3>1. req[t] \in Requests /\ answer[t] \in Seq(Mail!Lines)
        BY <2>1 DEF Asked, SaidTypes
    <3>2. \A k \in {"BEGIN", "END"} : \E i \in 1..Len(answer[t]) : answer[t][i] = Mail!Line(req[t], k)
        BY <2>1 DEF Accepted
    <3>3. Names(answer[t], req[t])
        BY <3>2 DEF Names, Mail!Line
    <3>4. ran[req[t]] = 1
        BY <3>1, <3>3 DEF NamedRan, PutOnce, CommandTypes
    <3>5. DOMAIN answer[t] = 1..Len(answer[t])
        BY <3>1, LenProperties
    <3> QED BY <3>2, <3>4, <3>5 DEF Mail!ToSet
  <2> QED BY <2>1 DEF Behind, Mail!AcceptedIsOwn, Mail!RunsOwn
<1> QED BY <1>1, MailInvariantHolds, PTL
=============================================================================
