-------------------------- MODULE EmbeddingRuntime --------------------------
(***************************************************************************)
(* embedding.Runtime: the circuit, the vector cache and the shared flights *)
(* around one embedding endpoint, as used by searches (Guard, then Embed)  *)
(* and by index jobs (Guard, a probing Embed, then EmbedBatch on the same  *)
(* provider).  Every step is one hold of Runtime.mu or one upstream call.  *)
(*                                                                         *)
(* A flight is a goroutine of its own: the caller that started it may give *)
(* up, the upstream call goes on (context.WithoutCancel).                  *)
(***************************************************************************)
EXTENDS Naturals, FiniteSets

CONSTANTS
    Searchers,        \* goroutines that embed a query
    Indexers,         \* goroutines that run an index job
    Texts,
    FailureThreshold,
    CacheEntries,     \* entries the cache may hold
    MaxEvents         \* bound: failed calls, callers that give up, expired entries

ASSUME RuntimeAssumption ==
    /\ FailureThreshold \in Nat \ {0}
    /\ CacheEntries \in Nat \ {0}
    /\ MaxEvents \in Nat
    /\ Texts # {}
    /\ Searchers \cap Indexers = {}

Callers == Searchers \cup Indexers

VARIABLES
    circuit,    \* runtimeState: consecutiveFailures, openUntil, halfOpen
    cache,
    caching,    \* CacheTTL > 0
    flights,
    calls,
    events

runtimeVars == <<circuit, cache, caching, flights, calls, events>>

Event == events < MaxEvents /\ events' = events + 1

Closed == [failures |-> 0, open |-> "no", halfOpen |-> FALSE]
NoFlight == [pc |-> "none", probe |-> FALSE, ok |-> FALSE]
NoCall == [pc |-> "idle", probe |-> FALSE, text |-> CHOOSE t \in Texts : TRUE]

(***************************************************************************)
(* finish: what one outcome does to the circuit.                           *)
(***************************************************************************)

\* Mutant: a success leaves the cooldown.
LeavesCircuitOpen(c) == [Closed EXCEPT !.open = c.open]
Succeeded(c) == Closed

\* context.Canceled says nothing of the endpoint.
Cancelled(c) == [c EXCEPT !.halfOpen = FALSE]

\* Mutant: one failure is counted twice.
CountedTwice(c) ==
    LET n == IF c.failures + 2 < FailureThreshold THEN c.failures + 2 ELSE FailureThreshold
    IN  [failures |-> n, halfOpen |-> FALSE,
         open |-> IF n >= FailureThreshold THEN "until" ELSE c.open]

\* Any other error: a deadline counts.  The count is kept up to the threshold.
Failed(c) ==
    LET n == IF c.failures < FailureThreshold THEN c.failures + 1 ELSE c.failures
    IN  [failures |-> n, halfOpen |-> FALSE,
         open |-> IF n >= FailureThreshold THEN "until" ELSE c.open]

(***************************************************************************)
(* Guard.                                                                  *)
(***************************************************************************)

\* Mutant: there is no probe.
AdmitsWhenClosed == circuit.open = "no"
\* allow: a closed circuit, or the one probe after the cooldown.
Admits == circuit.open = "no" \/ (circuit.open = "elapsed" /\ ~circuit.halfOpen)

Guard(c, t) ==
    /\ calls[c].pc = "idle"
    /\ Admits
    /\ LET probe == circuit.open = "elapsed"
       IN  /\ circuit' = [circuit EXCEPT !.halfOpen = @ \/ probe]
           /\ calls' = [calls EXCEPT ![c] = [NoCall EXCEPT !.pc = "lookup", !.probe = probe, !.text = t]]
    /\ UNCHANGED <<cache, caching, flights, events>>

\* The provider cannot be built from the settings.
FactoryFails(c) ==
    /\ calls[c].pc = "idle"
    /\ Admits
    /\ Event
    /\ circuit' = Failed(circuit)
    /\ UNCHANGED <<cache, caching, flights, calls>>

(***************************************************************************)
(* runtimeProvider.Embed.                                                  *)
(***************************************************************************)

\* Mutant: a probe may be answered from the cache.
ServesProbes(probe, t) == caching /\ t \in cache
\* A probe must reach the endpoint.
Cached(probe, t) == ~probe /\ caching /\ t \in cache

\* What the caller does with the answer: a search is done, an index job whose
\* probe was answered goes on with EmbedBatch on the provider it has.
Returned(c, ok) == IF c \in Indexers /\ ok THEN [calls[c] EXCEPT !.pc = "batch"] ELSE NoCall

Return(c, ok) == calls' = [calls EXCEPT ![c] = Returned(c, ok)]

Lookup(c) ==
    /\ calls[c].pc = "lookup"
    /\ IF Cached(calls[c].probe, calls[c].text)
       THEN Return(c, TRUE)
       ELSE calls' = [calls EXCEPT ![c].pc = "begin"]
    /\ UNCHANGED <<circuit, cache, caching, flights, events>>

\* beginFlight: join the text's flight or start it.
Begin(c) ==
    /\ calls[c].pc = "begin"
    /\ flights' = IF flights[calls[c].text].pc # "none" THEN flights
                  ELSE [flights EXCEPT ![calls[c].text] = [NoFlight EXCEPT !.pc = "recheck", !.probe = calls[c].probe]]
    /\ calls' = [calls EXCEPT ![c].pc = "wait"]
    /\ UNCHANGED <<circuit, cache, caching, events>>

\* The caller's context ends; its flight does not.
GiveUp(c) ==
    /\ calls[c].pc = "wait"
    /\ Event
    /\ Return(c, FALSE)
    /\ UNCHANGED <<circuit, cache, caching, flights>>

(***************************************************************************)
(* runFlight.                                                              *)
(***************************************************************************)

Waiting(t) == {c \in Callers : calls[c].pc = "wait" /\ calls[c].text = t}

\* Mutant: the channel wakes one waiter.
OnlyOneWoken(t) == {c \in Waiting(t) : c = CHOOSE d \in Waiting(t) : TRUE}
Woken(t) == Waiting(t)

\* completeFlight closes the channel every waiter holds.
Complete(t, ok) ==
    /\ calls' = [c \in Callers |-> IF c \in Woken(t) THEN Returned(c, ok) ELSE calls[c]]
    /\ flights' = [flights EXCEPT ![t] = NoFlight]

Recheck(t) ==
    /\ flights[t].pc = "recheck"
    /\ IF Cached(flights[t].probe, t)
       THEN Complete(t, TRUE)
       ELSE flights' = [flights EXCEPT ![t].pc = "upstream"] /\ UNCHANGED calls
    /\ UNCHANGED <<circuit, cache, caching, events>>

Answered(t) ==
    /\ flights[t].pc = "upstream"
    /\ circuit' = Succeeded(circuit)
    /\ flights' = [flights EXCEPT ![t].pc = "store", ![t].ok = TRUE]
    /\ UNCHANGED <<cache, caching, calls, events>>

\* An error, an empty vector or the leader's deadline.
UpstreamFails(t) ==
    /\ flights[t].pc = "upstream"
    /\ Event
    /\ circuit' = Failed(circuit)
    /\ flights' = [flights EXCEPT ![t].pc = "complete"]
    /\ UNCHANGED <<cache, caching, calls>>

\* storeVector: entries in any order make room.
Stored(t) ==
    IF ~caching THEN {cache}
    ELSE {kept \cup {t} : kept \in {s \in SUBSET cache :
             Cardinality(s) = IF Cardinality(cache) < CacheEntries THEN Cardinality(cache) ELSE CacheEntries - 1}}

Store(t) ==
    /\ flights[t].pc = "store"
    /\ cache' \in Stored(t)
    /\ flights' = [flights EXCEPT ![t].pc = "complete"]
    /\ UNCHANGED <<circuit, caching, calls, events>>

CompleteFlight(t) ==
    /\ flights[t].pc = "complete"
    /\ Complete(t, flights[t].ok)
    /\ UNCHANGED <<circuit, cache, caching, events>>

(***************************************************************************)
(* EmbedBatch, once for every batch of the job.  A failed batch is the     *)
(* job's last (activeEmbedder = nil, or the job fails).                    *)
(***************************************************************************)

BatchAnswered(c, t) ==
    /\ calls[c].pc = "batch"
    /\ circuit' = IF Cached(calls[c].probe, t) THEN circuit ELSE Succeeded(circuit)
    /\ cache' \in IF Cached(calls[c].probe, t) THEN {cache} ELSE Stored(t)
    /\ calls' \in {calls, [calls EXCEPT ![c] = NoCall]}
    /\ UNCHANGED <<caching, flights, events>>

BatchFails(c) ==
    /\ calls[c].pc = "batch"
    /\ \E t \in Texts : ~Cached(calls[c].probe, t)
    /\ Event
    /\ circuit' \in {Failed(circuit), Cancelled(circuit)}
    /\ calls' = [calls EXCEPT ![c] = NoCall]
    /\ UNCHANGED <<cache, caching, flights>>

(***************************************************************************)
(* Time.                                                                   *)
(***************************************************************************)

\* A goroutine between two steps of the runtime, waiting for nothing.
Underway ==
    \/ \E c \in Callers : calls[c].pc \in {"lookup", "begin"}
    \/ \E t \in Texts : flights[t].pc \in {"recheck", "store", "complete"}

\* The cooldown is a second at least; the few instructions between two steps of
\* the runtime are over before it is.
CooldownPasses ==
    /\ circuit.open = "until"
    /\ ~Underway
    /\ circuit' = [circuit EXCEPT !.open = "elapsed"]
    /\ UNCHANGED <<cache, caching, flights, calls, events>>

Expire(t) ==
    /\ t \in cache
    /\ Event
    /\ cache' = cache \ {t}
    /\ UNCHANGED <<circuit, caching, flights, calls>>

RuntimeInit ==
    /\ circuit = Closed
    /\ cache = {}
    /\ caching \in BOOLEAN
    /\ flights = [t \in Texts |-> NoFlight]
    /\ calls = [c \in Callers |-> NoCall]
    /\ events = 0

Call(c) ==
    \/ \E t \in Texts : Guard(c, t)
    \/ Lookup(c) \/ Begin(c)
    \/ \E t \in Texts : BatchAnswered(c, t)

Flight(t) == Recheck(t) \/ Answered(t) \/ Store(t) \/ CompleteFlight(t)

RuntimeNext ==
    \/ \E c \in Callers : Call(c) \/ FactoryFails(c) \/ GiveUp(c) \/ BatchFails(c)
    \/ \E t \in Texts : Flight(t) \/ UpstreamFails(t) \/ Expire(t)
    \/ CooldownPasses

\* Goroutines run, upstream calls end (they have a deadline or a client
\* timeout), time passes, and requests keep coming.
RuntimeSpec ==
    /\ RuntimeInit /\ [][RuntimeNext]_runtimeVars
    /\ \A c \in Callers : WF_runtimeVars(Call(c))
    /\ \A t \in Texts : WF_runtimeVars(Flight(t))
    /\ WF_runtimeVars(CooldownPasses)

-----------------------------------------------------------------------------
(* Properties *)

CircuitType == [failures : 0..FailureThreshold, open : {"no", "until", "elapsed"}, halfOpen : BOOLEAN]
FlightType == [pc : {"none", "recheck", "upstream", "store", "complete"}, probe : BOOLEAN, ok : BOOLEAN]
CallType == [pc : {"idle", "lookup", "begin", "wait", "batch"}, probe : BOOLEAN, text : Texts]

\* Every variable has its type, and the cache its size (embeddingCacheEntries).
RuntimeTypeOK ==
    /\ circuit \in CircuitType
    /\ cache \subseteq Texts /\ Cardinality(cache) <= CacheEntries
    /\ caching \in BOOLEAN
    /\ flights \in [Texts -> FlightType]
    /\ calls \in [Callers -> CallType]
    /\ events \in 0..MaxEvents

\* The circuit is open or half-open only while the endpoint's last outcomes are
\* FailureThreshold failures: cancelled jobs, late answers of calls from before
\* the outage and probes that overlap never leave it open for less.
OpenForCause ==
    circuit.open # "no" \/ circuit.halfOpen => circuit.failures = FailureThreshold

\* No wake-up is lost: whoever waits, waits for a flight that still has to be
\* completed, although flights are joined in every state of theirs, their
\* starter may have given up and a new flight of the text may have begun.
WaitersHaveFlight ==
    \A c \in Callers : calls[c].pc = "wait" => flights[calls[c].text].pc # "none"

\* A half-open circuit has a probe that will report: a call on its way to a
\* flight or a flight on its way to finish.
HalfOpenHasProbe ==
    circuit.halfOpen =>
        \/ \E c \in Callers : calls[c].probe /\ calls[c].pc \in {"lookup", "begin"}
        \/ \E t \in Texts : flights[t].pc \in {"recheck", "upstream"}

\* An endpoint that answers again is used again: the cooldown ends, one call
\* probes, and the circuit closes ("recovers automatically on success",
\* docs/configuration.md), whatever was cancelled or given up meanwhile.
Recovers == []<>(circuit.open = "no")

\* The phase of the circuit: it has cooled down once openUntil has passed.
RuntimePhase == IF circuit.open = "no" THEN "closed" ELSE IF circuit.open = "until" THEN "open" ELSE "cooled"

\* What callers of the runtime may rely on.
RuntimePromise == INSTANCE Circuit WITH
    Threshold <- FailureThreshold, Hard <- FALSE, count <- circuit.failures, state <- RuntimePhase

\* The runtime's circuit is a Circuit without refusals: flights that outlive their
\* callers, batches on a provider obtained before an outage, cancelled jobs and
\* overlapping probes move it as single successes and failures (allow, finish).
RuntimeIsACircuit == RuntimePromise!Spec
=============================================================================
