---------------------------- MODULE ProviderRouter ----------------------------
(***************************************************************************)
(* One request to the pool of LLM providers (llm/router.py).  The          *)
(* configured slots that serve the role are put in the order of the mode.  *)
(* A serial request asks one after another until one answers; a parallel   *)
(* one asks batches at once until it has the number of answers it wants,   *)
(* and their threads end in any order.                                     *)
(*                                                                         *)
(* A provider answers, is unavailable in a way the adapter recognises      *)
(* (HTTP error, timeout, no content), or breaks in another way: the        *)
(* connection drops while the response is read, or it is not UTF-8.        *)
(***************************************************************************)
EXTENDS Integers, Sequences, FiniteSets, Functions

CONSTANTS
    N,          \* bound: provider slots
    Profiles,   \* bound: how a slot may be configured
    Widths      \* bound: parallelism and limit of a request

Slots   == 1..N
Modes   == {"PRIMARY_ONLY", "FALLBACK", "ROUTED", "FREE_FIRST"}
Costs   == {"FREE", "LOCAL", "UNKNOWN", "PAID"}
Kinds   == {"off", "other", "specific", "general"}
Replies == {"ok", "unavailable", "broken"}

\* Whether a slot is configured and which roles it names (the role asked for,
\* others only, or none, which serves every role), its cost and priority.
Profile == [kind: Kinds, cost: Costs, priority: Nat]

RouterAssumption ==
    N \in Nat \ {0} /\ Widths \subseteq Nat \ {0} /\ Profiles \subseteq Profile

VARIABLES
    mode, pool,   \* the configuration
    parallel,     \* how the role is requested,
    parallelism,  \*   requests in flight at most,
    limit,        \*   answers wanted
    candidates,   \* the slots of the request in order of preference
    phase,        \* new, asking, returned, raised
    asked,        \* slots in the order of their attempts
    running,      \* slots whose thread has not ended
    reply,        \* what each slot said
    results       \* slots whose answers are returned

config == <<mode, pool, parallel, parallelism, limit>>
vars   == <<config, candidates, phase, asked, running, reply, results>>

TypeOK ==
    /\ mode \in Modes /\ pool \in [Slots -> Profile]
    /\ parallel \in BOOLEAN /\ parallelism \in Nat /\ limit \in Nat
    /\ phase \in {"new", "asking", "returned", "raised"}
    /\ candidates \in Seq(Slots)
    /\ asked \in Seq(Slots) /\ running \subseteq Slots
    /\ reply \in [Slots -> Replies \cup {"none"}]
    /\ results \in Seq(Slots)

Init ==
    /\ mode \in Modes /\ pool \in [Slots -> Profiles]
    /\ parallel \in BOOLEAN
    /\ IF parallel THEN parallelism \in Widths /\ limit \in Widths
                   ELSE parallelism = 1 /\ limit = 1
    /\ phase = "new" /\ candidates = <<>>
    /\ asked = <<>> /\ running = {} /\ results = <<>>
    /\ reply = [s \in Slots |-> "none"]

-----------------------------------------------------------------------------
(* The order of the candidates.                                             *)

Configured(s) == pool[s].kind # "off"
Supports(s)   == pool[s].kind \in {"specific", "general"}
Eligible      == {s \in Slots : Configured(s) /\ Supports(s)}

CostRank == <<"FREE", "LOCAL", "UNKNOWN", "PAID">>

Rank(s) == CHOOSE i \in DOMAIN CostRank : CostRank[i] = pool[s].cost

General(s) == IF pool[s].kind = "general" THEN 1 ELSE 0

Key(s) ==
    CASE mode = "ROUTED"     -> <<General(s), pool[s].priority, s>>
      [] mode = "FREE_FIRST" -> <<Rank(s), General(s), pool[s].priority, s>>
      [] OTHER               -> <<s>>

Before(s, t) ==
    LET k == Key(s)
        l == Key(t)
    IN  \E i \in DOMAIN k : k[i] < l[i] /\ \A j \in 1..(i - 1) : k[j] = l[j]

\* The members of S in the order of R, a set of pairs.
Listed(S, R) ==
    [i \in 1..Cardinality(S) |->
        CHOOSE s \in S : Cardinality({t \in S : <<t, s>> \in R}) = i - 1]

Preference == {x \in Slots \X Slots : Before(x[1], x[2])}

Candidates ==
    LET sorted == Listed(Eligible, Preference)
    IN  IF mode = "PRIMARY_ONLY" /\ sorted # <<>> THEN <<Head(sorted)>> ELSE sorted

-----------------------------------------------------------------------------
Smaller(a, b) == IF a < b THEN a ELSE b

Desired     == Smaller(limit, Len(candidates))
Concurrency == Smaller(parallelism, Desired)

\* The next slots to ask at once.
Batch ==
    LET width == Smaller(Concurrency, Desired - Len(results))
    IN  SubSeq(candidates, Len(asked) + 1, Smaller(Len(asked) + width, Len(candidates)))

Call ==
    /\ phase = "new"
    /\ candidates' = Candidates
    /\ phase' = IF candidates' = <<>> THEN "raised" ELSE "asking"
    /\ UNCHANGED <<config, asked, running, reply, results>>

\* The next batch is started; a serial request is a batch of one.
Submit ==
    /\ phase = "asking" /\ running = {}
    /\ Len(results) < Desired /\ Len(asked) < Len(candidates)
    /\ asked' = asked \o Batch
    /\ running' = Range(Batch)
    /\ UNCHANGED <<config, candidates, phase, reply, results>>

\* Mutant: the answers are kept in the order they come.
FinishAsCompleted(s) ==
    /\ s \in running /\ parallel
    /\ running' = running \ {s}
    /\ \E r \in Replies :
          /\ reply' = [reply EXCEPT ![s] = r]
          /\ results' = IF r = "ok" THEN Append(results, s) ELSE results
    /\ UNCHANGED <<config, candidates, phase, asked>>

\* A thread of a batch ends; the last one lets the answers be taken, which are
\* put in the order of the candidates.
Finish(s) ==
    /\ s \in running /\ parallel
    /\ running' = running \ {s}
    /\ \E r \in Replies : reply' = [reply EXCEPT ![s] = r]
    /\ results' = IF running' # {} THEN results
                  ELSE Listed({t \in Slots : reply'[t] = "ok"}, Preference)
    /\ UNCHANGED <<config, candidates, phase, asked>>

\* The end of a serial attempt: any exception the adapter did not turn into
\* ProviderUnavailable ends the request.
Serial(s) ==
    /\ s \in running /\ ~parallel
    /\ running' = {}
    /\ \E r \in Replies : reply' = [reply EXCEPT ![s] = r]
    /\ results' = IF reply'[s] = "ok" THEN <<s>> ELSE results
    /\ phase' = IF reply'[s] = "broken" THEN "raised" ELSE phase
    /\ UNCHANGED <<config, candidates, asked>>

\* Enough answers, or nobody left to ask.
Return ==
    /\ phase = "asking" /\ running = {}
    /\ Len(results) = Desired \/ Len(asked) = Len(candidates)
    /\ phase' = IF results = <<>> THEN "raised" ELSE "returned"
    /\ UNCHANGED <<config, candidates, asked, running, reply, results>>

Done == phase \in {"returned", "raised"} /\ UNCHANGED vars

Step == Call \/ Submit \/ Return \/ \E s \in Slots : Finish(s) \/ Serial(s)
Next == Step \/ Done

(* Every attempt ends, by its timeout at the latest.                        *)
Spec == Init /\ [][Next]_vars /\ WF_vars(Step)

-----------------------------------------------------------------------------
Ok(s) == reply[s] = "ok"

(* complete_parallel_with_diagnostics: however the attempts of a batch are *)
(* timed, what is returned are the answers of the most preferred providers *)
(* that gave one, in the order of preference, and every provider passed    *)
(* over was asked and failed.                                              *)
ReturnsPreferred ==
    phase = "returned" =>
       /\ Range(results) = {s \in Slots : Ok(s)}
       /\ \A i, j \in DOMAIN results : i < j <=> Before(results[i], results[j])
       /\ \A i \in DOMAIN results : \A s \in Eligible :
             Before(s, results[i]) => reply[s] # "none"

(* A failed provider is replaced by the next one: fewer answers than       *)
(* wanted are returned only when the whole pool was asked, each once.      *)
Backfilled ==
    phase = "returned" =>
       /\ IsInjective(asked)
       /\ Len(results) < limit => asked = Candidates

(* No provider is called for an answer nobody wants: the attempts under    *)
(* way never exceed the parallelism, nor the answers still missing.        *)
NoneWasted ==
    /\ Cardinality(running) <= parallelism
    /\ Cardinality(running) + Cardinality({s \in Slots : Ok(s)}) <= limit

(* FREE_FIRST: a dearer provider is asked only when every cheaper one that *)
(* could serve the role was asked before or with it.                       *)
CheapFirst ==
    mode = "FREE_FIRST" =>
       \A s \in Range(asked), t \in Eligible :
          Rank(t) < Rank(s) => t \in Range(asked)

(* The caller waits for an answer.                                         *)
Waiting == phase \in {"new", "asking"}
=============================================================================
