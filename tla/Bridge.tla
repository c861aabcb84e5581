------------------------------- MODULE Bridge -------------------------------
(***************************************************************************)
(* The dispatcher of the MA-initiated bridge (zen_ma2_agent/ma_bridge):    *)
(* how ZEN/1 requests are recognised as new, duplicate or conflicting, and *)
(* answered from a bounded cache.                                          *)
(*                                                                         *)
(* Two OrderedDicts work side by side, each least recently used first:     *)
(* RequestDeduplicator._seen remembers which payload an id was used for,   *)
(* BridgeDispatcher._responses what it was answered.  dispatch holds one   *)
(* lock from the first lookup to the last eviction, so one request is one  *)
(* step whatever thread serves its connection; a client that repeats a     *)
(* request after a timeout is one more request.                            *)
(***************************************************************************)
EXTENDS Naturals, Sequences, SequencesExt

CONSTANTS
    RequestIds,     \* request ids the clients use
    Arguments,      \* arguments of DIMMER and DESIGN
    NoArgument,     \* PING and STATUS take none
    Capacity,       \* of each cache; 256 in the code
    StatusMayFail   \* whether the status provider may raise

ASSUME BridgeAssumption ==
    /\ Capacity \in Nat \ {0}
    /\ StatusMayFail \in BOOLEAN
    /\ NoArgument \notin Arguments

Payloads == ({"PING", "STATUS"} \X {NoArgument}) \cup ({"DIMMER", "DESIGN"} \X Arguments)

NoPayload == <<"NONE", NoArgument>>

\* What the status payload can say of REMOTE_AI_AVAILABLE.
Availability == {"YES", "NO"}

Answers == {"PONG", "NOT_EXECUTED", "NOT_IMPLEMENTED"} \cup Availability

NoAnswer == "NONE"

Errors == {"REQUEST_ID_CONFLICT", "INTERNAL_ERROR"}

VARIABLES
    seen,      \* ids in _seen, least recently used first
    payload,   \* their payloads (the code keeps a hash)
    cached,    \* ids in _responses, least recently used first
    answer,    \* their responses
    remote,    \* what the status provider would say now
    reply,     \* the last response line, its id and whether it was a duplicate
    original,  \* history: the answer an id got when it was processed as new
    trouble    \* history: the kinds of errors replied so far

memory == <<seen, payload, cached, answer>>
vars   == <<memory, remote, reply, original, trouble>>

-----------------------------------------------------------------------------
(* An OrderedDict used as an LRU cache.                                     *)

Position(lru, id) == CHOOSE k \in DOMAIN lru : lru[k] = id

\* Assignment or lookup followed by move_to_end.
Touch(lru, id) ==
    IF Contains(lru, id) THEN Append(RemoveAt(lru, Position(lru, id)), id)
                         ELSE Append(lru, id)

\* while len(...) > capacity: popitem(last=False); one entry is added at a time.
Trim(lru) == IF Len(lru) > Capacity THEN Tail(lru) ELSE lru

\* The values of the ids an LRU keeps, after value is assigned to id.
Assign(values, lru, id, value, none) ==
    [j \in RequestIds |-> IF j \notin ToSet(lru) THEN none
                          ELSE IF j = id THEN value ELSE values[j]]

-----------------------------------------------------------------------------

\* The response the dispatcher computes for a payload.
AnswerTo(p) ==
    CASE p[1] = "PING"   -> "PONG"
      [] p[1] = "STATUS" -> remote
      [] p[1] = "DIMMER" -> "NOT_EXECUTED"
      [] p[1] = "DESIGN" -> "NOT_IMPLEMENTED"

NoReply == [id |-> NoArgument, says |-> NoAnswer, duplicate |-> FALSE]

Init ==
    /\ seen     = <<>>
    /\ cached   = <<>>
    /\ payload  = [i \in RequestIds |-> NoPayload]
    /\ answer   = [i \in RequestIds |-> NoAnswer]
    /\ remote   \in Availability
    /\ reply    = NoReply
    /\ original = [i \in RequestIds |-> NoAnswer]
    /\ trouble  = {}

Known(i) == Contains(seen, i)

Duplicate(i, p) == Known(i) /\ payload[i] = p

\* RequestDeduplicator.check: the id is remembered, as the most recent one.
Remember(i, p) ==
    /\ seen' = Trim(Touch(seen, i))
    /\ payload' = Assign(payload, seen', i, p, NoPayload)

\* The id was used for another payload.  It still becomes the most recent one
\* of _seen, while its place in _responses does not change.
Conflict(i, p) ==
    /\ Known(i) /\ payload[i] # p
    /\ seen' = Touch(seen, i)
    /\ reply' = [id |-> i, says |-> "REQUEST_ID_CONFLICT", duplicate |-> FALSE]
    /\ trouble' = trouble \cup {"CONFLICT"}
    /\ UNCHANGED <<payload, cached, answer, remote, original>>

\* Mutant: a hit does not refresh the response, as in a FIFO cache.
FromCacheUnmoved(i, p) ==
    /\ Duplicate(i, p) /\ Contains(cached, i)
    /\ seen' = Touch(seen, i)
    /\ UNCHANGED cached
    /\ reply' = [id |-> i, says |-> answer[i], duplicate |-> TRUE]
    /\ UNCHANGED <<payload, answer, remote, original, trouble>>

\* A duplicate whose response is still cached.
FromCache(i, p) ==
    /\ Duplicate(i, p) /\ Contains(cached, i)
    /\ seen' = Touch(seen, i)
    /\ cached' = Touch(cached, i)
    /\ reply' = [id |-> i, says |-> answer[i], duplicate |-> TRUE]
    /\ UNCHANGED <<payload, answer, remote, original, trouble>>

\* Mutant: setdefault in place of the assignment.
KeepResponse(i, p) ==
    /\ cached' = Trim(Touch(cached, i))
    /\ answer' = Assign(answer, cached', i, IF Contains(cached, i) THEN answer[i] ELSE AnswerTo(p), NoAnswer)

\* The response is stored under its id, whatever was there.
StoreResponse(i, p) ==
    /\ cached' = Trim(Touch(cached, i))
    /\ answer' = Assign(answer, cached', i, AnswerTo(p), NoAnswer)

\* A new request, or a duplicate whose response is gone.
Process(i, p) ==
    /\ ~Known(i) \/ (Duplicate(i, p) /\ ~Contains(cached, i))
    /\ Remember(i, p)
    /\ StoreResponse(i, p)
    /\ reply' = [id |-> i, says |-> AnswerTo(p), duplicate |-> Duplicate(i, p)]
    /\ original' = IF Duplicate(i, p) THEN original
                   ELSE [original EXCEPT ![i] = AnswerTo(p)]
    /\ UNCHANGED <<remote, trouble>>

\* The status provider raises: handle_line answers INTERNAL_ERROR, the id is
\* remembered and no response is stored.
StatusFails(i, p) ==
    /\ StatusMayFail /\ p[1] = "STATUS"
    /\ ~Known(i) \/ (Duplicate(i, p) /\ ~Contains(cached, i))
    /\ Remember(i, p)
    /\ reply' = [id |-> i, says |-> "INTERNAL_ERROR", duplicate |-> Duplicate(i, p)]
    /\ original' = IF Duplicate(i, p) THEN original
                   ELSE [original EXCEPT ![i] = "INTERNAL_ERROR"]
    /\ trouble' = trouble \cup {"FAILURE"}
    /\ UNCHANGED <<cached, answer, remote>>

Dispatch(i, p) == Conflict(i, p) \/ FromCache(i, p) \/ Process(i, p) \/ StatusFails(i, p)

\* A worker comes or goes.
WorkersChange ==
    /\ remote' \in Availability \ {remote}
    /\ UNCHANGED <<memory, reply, original, trouble>>

Next == WorkersChange \/ \E i \in RequestIds, p \in Payloads : Dispatch(i, p)

Spec == Init /\ [][Next]_vars

-----------------------------------------------------------------------------

LRUs == {s \in SeqOf(RequestIds, Capacity) : \A j, k \in DOMAIN s : j # k => s[j] # s[k]}

TypeOK ==
    /\ seen     \in LRUs
    /\ cached   \in LRUs
    /\ payload  \in [RequestIds -> Payloads \cup {NoPayload}]
    /\ answer   \in [RequestIds -> Answers \cup {NoAnswer}]
    /\ remote   \in Availability
    /\ reply    \in [id : RequestIds \cup {NoArgument},
                     says : Answers \cup Errors \cup {NoAnswer}, duplicate : BOOLEAN]
    /\ original \in [RequestIds -> Answers \cup Errors \cup {NoAnswer}]
    /\ trouble  \in SUBSET {"CONFLICT", "FAILURE"}

\* The two caches evict independently and may keep different ids.  Still the
\* response a duplicate would be served belongs to its own payload, as long as
\* the status provider has not failed.
AnswerFits ==
    "FAILURE" \notin trouble =>
        \A i \in ToSet(seen) \cap ToSet(cached) :
            answer[i] \in CASE payload[i][1] = "PING"   -> {"PONG"}
                            [] payload[i][1] = "STATUS" -> Availability
                            [] payload[i][1] = "DIMMER" -> {"NOT_EXECUTED"}
                            [] payload[i][1] = "DESIGN" -> {"NOT_IMPLEMENTED"}

\* Until an id is reused for another payload or the provider fails, the caches
\* stay in step: same ids, same order, so every known id has its response.
InStep == trouble = {} => seen = cached

\* Then a repeated request gets what the first one got, however often the
\* status has changed and however many ids have been evicted in between.
RetryIsIdempotent ==
    trouble = {} /\ reply.duplicate => reply.says = original[reply.id]

\* The promise of the protocol document, without that condition: same
\* request_id and same payload, the original response.
DuplicateGetsOriginal ==
    reply.duplicate => reply.says = original[reply.id]

=============================================================================
