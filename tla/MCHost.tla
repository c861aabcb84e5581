------------------------------- MODULE MCHost -------------------------------
(***************************************************************************)
(* What one process of the field host does beside its approval registry:   *)
(* the session with the console, the watchdog, the cache of the show, and  *)
(* the two ways of reading the show that are not a List command.           *)
(*                                                                         *)
(* Their models share no state, so nothing is gained by interleaving them: *)
(* a behaviour is one of a part, chosen at the start, while the variables  *)
(* of the others are Off.  Variables of the same name serve whichever part *)
(* runs.                                                                   *)
(***************************************************************************)
EXTENDS Integers, Sequences, FiniteSets, TLC

CONSTANTS
    Parts, Off,
    Clients, NoClient, Operators, Settings,                    \* Connection
    N, Required, Capacity, Host, NoThread, Seen, MaxChanges,   \* Watchdog
    Refreshers, Resources, Keys, NoItem, MaxSession, Late,     \* ShowState
    NoRequest, Whole, Kinds,                           \* ExportTransaction
    Threads, Requests, Nobody, Empty

VARIABLES
    part,   \* the component that runs: session, watchdog, cache, export, mailbox
    state, sock, user, retried, inbox, current, settings, reconnect, due,
    stop, opening, opc, held, peer, who, greeted, made, asked,
    actual, known, events, sequence, stopped, thread, at, age, noted,
    applied,
    session, alive, coming, store, item, client, row, failed, todo, told,
    raced, mingled,
    size, stable, got, orders, file, kind,
    var, last, lines, answer, ran, lost, crossed,
    pc, hpc, wire, overran, seen, ready, received, owner, req, up, outcome

Session == INSTANCE Connection
Watch   == INSTANCE Watchdog
Cache   == INSTANCE ShowState WITH Threads <- Refreshers
Export  == INSTANCE ExportTransaction
Mail    == INSTANCE Mailbox

OwnSession ==
    <<state, sock, user, retried, inbox, current, settings, reconnect, due,
      stop, opening, opc, held, peer, who, greeted, made, asked>>
OwnWatch ==
    <<actual, known, events, sequence, stopped, thread, at, age, noted,
      applied>>
OwnCache ==
    <<session, alive, coming, store, item, client, row, failed, todo, told,
      raced, mingled>>
OwnExport ==
    <<size, stable, got, orders, file, kind>>
OwnMail ==
    <<var, last, lines, answer, ran, lost, crossed>>
Shared ==
    <<pc, hpc, wire, overran, seen, ready, received, owner, req, up, outcome>>
vars == <<part, OwnSession, OwnWatch, OwnCache, OwnExport, OwnMail, Shared>>

ASSUME ConstantsFit ==
    /\ Session!ConnectionAssumption /\ Watch!WatchdogAssumption
    /\ Cache!ShowStateAssumption /\ Export!ExportAssumption
    /\ Mail!MailboxAssumption

-----------------------------------------------------------------------------
OffSession ==
    /\ state = Off /\ sock = Off /\ user = Off /\ retried = Off
    /\ inbox = Off /\ current = Off /\ settings = Off /\ reconnect = Off
    /\ due = Off /\ stop = Off /\ opening = Off /\ opc = Off /\ held = Off
    /\ peer = Off /\ who = Off /\ greeted = Off /\ made = Off /\ asked = Off

OffWatch ==
    /\ actual = Off /\ known = Off /\ events = Off /\ sequence = Off
    /\ stopped = Off /\ thread = Off /\ at = Off /\ age = Off
    /\ noted = Off /\ applied = Off

OffCache ==
    /\ session = Off /\ alive = Off /\ coming = Off /\ store = Off
    /\ item = Off /\ client = Off /\ row = Off /\ failed = Off
    /\ todo = Off /\ told = Off /\ raced = Off /\ mingled = Off

OffExport ==
    /\ size = Off /\ stable = Off /\ got = Off /\ orders = Off
    /\ file = Off /\ kind = Off

OffMail ==
    /\ var = Off /\ last = Off /\ lines = Off /\ answer = Off /\ ran = Off
    /\ lost = Off /\ crossed = Off

SessionStarts ==
    /\ part = "session" /\ Session!Init
    /\ OffWatch /\ OffCache /\ OffExport /\ OffMail
    /\ seen = Off /\ ready = Off /\ received = Off /\ owner = Off
    /\ req = Off /\ up = Off /\ outcome = Off

WatchStarts ==
    /\ part = "watchdog" /\ Watch!Init
    /\ OffSession /\ OffCache /\ OffExport /\ OffMail
    /\ hpc = Off /\ wire = Off /\ ready = Off /\ received = Off
    /\ owner = Off /\ req = Off /\ up = Off /\ outcome = Off

CacheStarts ==
    /\ part = "cache" /\ Cache!Init
    /\ OffSession /\ OffWatch /\ OffExport /\ OffMail
    /\ wire = Off /\ overran = Off /\ owner = Off /\ req = Off /\ up = Off
    /\ outcome = Off

ExportStarts ==
    /\ part = "export" /\ Export!Init
    /\ OffSession /\ OffWatch /\ OffCache /\ OffMail
    /\ hpc = Off /\ wire = Off /\ overran = Off /\ seen = Off
    /\ ready = Off /\ received = Off

MailStarts ==
    /\ part = "mailbox" /\ Mail!Init
    /\ OffSession /\ OffWatch /\ OffCache /\ OffExport
    /\ hpc = Off /\ overran = Off /\ seen = Off

Init ==
    /\ part \in Parts
    /\ SessionStarts \/ WatchStarts \/ CacheStarts \/ ExportStarts \/ MailStarts

SessionDoes(A) ==
    /\ part = "session" /\ A
    /\ UNCHANGED <<part, OwnWatch, OwnCache, OwnExport, OwnMail, seen,
                   ready, received, owner, req, up, outcome>>

WatchDoes(A) ==
    /\ part = "watchdog" /\ A
    /\ UNCHANGED <<part, OwnSession, OwnCache, OwnExport, OwnMail, hpc,
                   wire, ready, received, owner, req, up, outcome>>

CacheDoes(A) ==
    /\ part = "cache" /\ A
    /\ UNCHANGED <<part, OwnSession, OwnWatch, OwnExport, OwnMail, wire,
                   overran, owner, req, up, outcome>>

ExportDoes(A) ==
    /\ part = "export" /\ A
    /\ UNCHANGED <<part, OwnSession, OwnWatch, OwnCache, OwnMail, hpc,
                   wire, overran, seen, ready, received>>

MailDoes(A) ==
    /\ part = "mailbox" /\ A
    /\ UNCHANGED <<part, OwnSession, OwnWatch, OwnCache, OwnExport, hpc,
                   overran, seen>>

Next ==
    \/ SessionDoes(Session!Next)
    \/ WatchDoes(Watch!Next)
    \/ CacheDoes(Cache!Next)
    \/ ExportDoes(Export!Next)
    \/ MailDoes(Mail!Next)

Spec == Init /\ [][Next]_vars

\* The fairness of each part (Fairness in its module).  Only one runs, so a
\* conjunct can speak of a step of several.
FairSpec ==
    /\ Spec
    /\ WF_vars(SessionDoes(Session!Poller))
    /\ WF_vars(SessionDoes(Session!RetryDue))
    /\ WF_vars(SessionDoes(Session!Join \/ Session!Disconnect \/ Session!Forget))
    /\ SF_vars(SessionDoes(Session!Opened))
    /\ SF_vars(SessionDoes(Session!LoginSent))
    /\ SF_vars(SessionDoes(Session!Decides))
    /\ \A o \in Operators : WF_vars(SessionDoes(Session!Close(o)))
    /\ \A t \in Threads :
          /\ WF_vars(\/ WatchDoes(Watch!Serve(t))
                     \/ ExportDoes(Export!Begin(t) \/ Export!Work(t)))
          /\ SF_vars(\/ WatchDoes(Watch!Look(t))
                     \/ ExportDoes(Export!Timeout(t)))
          /\ SF_vars(WatchDoes(Watch!Apply(t)))

-----------------------------------------------------------------------------

\* The types of a part are stated with its first invariant.

\* What READY means (Connection): the console's session is of the requested
\* user and fits the settings, after two Login commands at most.
ReadyMeans ==
    part = "session" =>
        /\ Session!TypeOK
        /\ Session!ReadyIsRequested /\ Session!ReadyFitsSettings /\ Session!LoginsBounded

\* The console has one session of the agent at most, and none after stop; not
\* so once a join has given up (overran), when the thread left behind connects
\* after the stop (Connection, FieldHost.stop).
OneSession == part = "session" => Session!OneSession

\* A session that works ends by stop or by a send that fails on it, however
\* late the thread that sent closes
\* (Connection, MA2TelnetClient._send_line).
WorkingStays == [][part = "session" => Session!KeepsWorking]_vars

\* The watchdog's events are one history, and a snapshot does not contradict
\* it (Watchdog, observe and snapshot).
EventsAgree ==
    part = "watchdog" => Watch!TypeOK /\ Watch!EventsChained /\ Watch!SnapshotAgrees

\* An observation never replaces a later one; not so once a join has given up,
\* when two threads poll (Watchdog, observe).
NeverBackwards == [][part = "watchdog" => Watch!NotBack]_vars

\* What a refresh reported stays until the next one of the same item, unless a
\* snapshot was written over one not seen (raced), and an answer is filed under
\* the item asked for, unless two threads waited on one client (mingled)
\* (ShowState, StateStore.upsert and CueProvider.parse).
CacheIsTrue ==
    part = "cache" => Cache!TypeOK /\ Cache!ReportsStay /\ Cache!OwnAnswers

\* An export is parsed whole, by one transaction at a time, and a successful
\* one leaves no file (ExportTransaction).
ExportsWhole ==
    part = "export" =>
        Export!TypeOK /\ Export!OnlyWhole /\ Export!OneTransaction /\ Export!NothingLeft

\* A reader of the mailbox accepts the answer to its own request, a run of the
\* plugin is not given another reader's, and no failure keeps the lock
\* (Mailbox, read_adapter_state).
MailboxOwn ==
    part = "mailbox" =>
        Mail!TypeOK /\ Mail!AcceptedIsOwn /\ Mail!RunsOwn /\ Mail!LockIsUsed

\* A host that is DISCONNECTED comes to a login as long as it is not stopped
\* (Connection, FieldHost._poll_ma_runtime_once).
Down == part = "session" /\ Session!Down /\ ~stop

Reconnects == Down ~> ~Down

\* A login and an export come to an end, whatever the console does.  Clients
\* are alike, and so are requests: one stands for all.
Waiting ==
    \/ part = "session" /\ Session!Authenticating(CHOOSE c \in Clients : TRUE)
    \/ part = "export"  /\ outcome[CHOOSE r \in Requests : TRUE] = "open"

WaitsEnd == Waiting ~> (~Waiting \/ overran = TRUE)

\* A component that is lost for good is shown as lost in the end (Watchdog).
LossIsShown ==
    \A c \in 1..N :
        <>[](part = "watchdog" /\ Watch!Lost(c)) => <>[](part = "watchdog" /\ Watch!Shown(c))

Symmetry == Permutations(Requests)
=============================================================================
