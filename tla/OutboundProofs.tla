---------------------------- MODULE OutboundProofs ----------------------------
(***************************************************************************)
(* The parts through which the process talks to other systems: the         *)
(* embedding runtime, the notification outbox and the breaker of a source  *)
(* server.  They share no variable: each theorem is about the behaviour of *)
(* one of them.                                                            *)
(***************************************************************************)
EXTENDS SourceBreaker, EmbeddingRuntime, NotificationOutbox, TLAPS

-----------------------------------------------------------------------------
(***************************************************************************)
(* The circuit and the shared flights of EmbeddingRuntime for any number   *)
(* of searches, index jobs and texts and any threshold.                    *)
(*                                                                         *)
(* OpenForCause needs the type of the circuit: the count is cut off at the *)
(* threshold, and only the type says that it is below it when it is not    *)
(* there.  WaitersHaveFlight needs the types of the calls and the flights, *)
(* and is inductive with them.  HalfOpenHasProbe needs to know what a      *)
(* cooldown that elapsed found: nobody between two steps, so that every    *)
(* call and flight since then is a probe and none has reported.            *)
(***************************************************************************)

CircuitInv == circuit \in CircuitType /\ OpenForCause

FlightInv ==
    /\ flights \in [Texts -> FlightType]
    /\ calls \in [Callers -> CallType]
    /\ WaitersHaveFlight

-----------------------------------------------------------------------------
(* finish keeps the circuit well formed. *)

\* An outcome of any kind leaves an open circuit only with its count at the
\* threshold (Runtime.finish).
LEMMA FinishKeepsCause ==
    ASSUME NEW c \in CircuitType,
           c.open # "no" \/ c.halfOpen => c.failures = FailureThreshold,
           NEW d \in {Succeeded(c), Cancelled(c), Failed(c)}
    PROVE  /\ d \in CircuitType
           /\ d.open # "no" \/ d.halfOpen => d.failures = FailureThreshold
<1>1. CASE d = Succeeded(c)
    BY <1>1, RuntimeAssumption DEF Succeeded, Closed, CircuitType
<1>2. CASE d = Cancelled(c)
    BY <1>2 DEF Cancelled, CircuitType
<1>3. CASE d = Failed(c)
    <2> DEFINE n == IF c.failures < FailureThreshold THEN c.failures + 1 ELSE c.failures
    <2>1. n \in 0..FailureThreshold
        BY RuntimeAssumption DEF CircuitType
    <2>2. n >= FailureThreshold => n = FailureThreshold
        BY <2>1, RuntimeAssumption
    <2>3. n < FailureThreshold => c.open = "no"
        BY RuntimeAssumption DEF CircuitType
    <2>4. d = [failures |-> n, halfOpen |-> FALSE,
               open |-> IF n >= FailureThreshold THEN "until" ELSE c.open]
        BY <1>3 DEF Failed
    <2>5. c.open \in {"no", "until", "elapsed"}
        BY DEF CircuitType
    <2> HIDE DEF n
    <2> QED BY <2>1, <2>2, <2>3, <2>4, <2>5, RuntimeAssumption DEF CircuitType
<1> QED BY <1>1, <1>2, <1>3

LEMMA CircuitStep == CircuitInv /\ [RuntimeNext]_runtimeVars => CircuitInv'
<1> SUFFICES ASSUME CircuitInv, [RuntimeNext]_runtimeVars PROVE CircuitInv'
    OBVIOUS
<1> USE DEF CircuitInv, OpenForCause
<1>1. ASSUME circuit' \in {Succeeded(circuit), Cancelled(circuit), Failed(circuit)} PROVE CircuitInv'
    BY <1>1, FinishKeepsCause
<1>2. CASE UNCHANGED circuit
    BY <1>2
<1>3. ASSUME NEW c \in Callers, NEW t \in Texts, Guard(c, t) PROVE CircuitInv'
    BY <1>3 DEF Guard, CircuitType
<1>4. CASE CooldownPasses
    BY <1>4 DEF CooldownPasses, CircuitType
<1>5. ASSUME NEW c \in Callers, Call(c) PROVE CircuitInv'
    <2>1. CASE \E t \in Texts : Guard(c, t)
        BY <2>1, <1>3
    <2>2. CASE Lookup(c) \/ Begin(c)
        BY <2>2, <1>2 DEF Lookup, Begin
    <2>3. CASE \E t \in Texts : BatchAnswered(c, t)
        BY <2>3, <1>1, <1>2 DEF BatchAnswered
    <2> QED BY <1>5, <2>1, <2>2, <2>3 DEF Call
<1>6. ASSUME NEW c \in Callers, FactoryFails(c) \/ GiveUp(c) \/ BatchFails(c) PROVE CircuitInv'
    <2>1. UNCHANGED circuit \/ circuit' \in {Succeeded(circuit), Cancelled(circuit), Failed(circuit)}
        BY <1>6 DEF FactoryFails, GiveUp, BatchFails
    <2> QED BY <2>1, <1>1, <1>2
<1>7. ASSUME NEW t \in Texts, Flight(t) \/ UpstreamFails(t) \/ Expire(t) PROVE CircuitInv'
    <2>1. UNCHANGED circuit \/ circuit' \in {Succeeded(circuit), Cancelled(circuit), Failed(circuit)}
        BY <1>7 DEF Flight, Recheck, Answered, Store, CompleteFlight, UpstreamFails, Expire
    <2> QED BY <2>1, <1>1, <1>2
<1> QED BY <1>2, <1>4, <1>5, <1>6, <1>7 DEF RuntimeNext, runtimeVars

\* Runtime.finish and allow never leave the circuit open or half-open unless the
\* count of consecutive failures is at the threshold, whatever is cancelled,
\* answered late or probed at the same time.
THEOREM CircuitOpensForCause == RuntimeSpec => []OpenForCause
<1>1. RuntimeInit => CircuitInv
    BY RuntimeAssumption DEF RuntimeInit, CircuitInv, CircuitType, Closed, OpenForCause
<1>2. CircuitInv => OpenForCause
    BY DEF CircuitInv
<1> QED BY <1>1, <1>2, CircuitStep, PTL DEF RuntimeSpec

-----------------------------------------------------------------------------
(* The circuit as its callers know it. *)

\* An outcome is a success, a failure or nothing at all to the Circuit (Runtime.finish).
LEMMA FinishIsCircuitStep ==
    ASSUME CircuitInv,
           circuit' \in {Succeeded(circuit), Cancelled(circuit), Failed(circuit)}
    PROVE  RuntimePromise!Next \/ UNCHANGED <<circuit.failures, RuntimePhase>>
<1> USE DEF CircuitInv, CircuitType, RuntimePhase
<1>1. CASE circuit' = Succeeded(circuit)
    BY <1>1 DEF Succeeded, Closed, RuntimePromise!Next, RuntimePromise!Succeed
<1>2. CASE circuit' = Cancelled(circuit)
    BY <1>2 DEF Cancelled
<1>3. CASE circuit' = Failed(circuit)
    <2> DEFINE n == IF circuit.failures < FailureThreshold THEN circuit.failures + 1 ELSE circuit.failures
    <2>1. /\ circuit'.failures = n
          /\ circuit'.open = IF n >= FailureThreshold THEN "until" ELSE circuit.open
        BY <1>3 DEF Failed
    <2>2. RuntimePhase' = IF n >= FailureThreshold THEN "open" ELSE RuntimePhase
        BY <2>1
    <2> QED BY <2>1, <2>2 DEF RuntimePromise!Next, RuntimePromise!Fail, RuntimePromise!Counted
<1> QED BY <1>1, <1>2, <1>3

\* The embedding runtime implements a Circuit without refusals: flights that outlive
\* their callers, batches on a provider from before an outage, cancelled jobs and
\* overlapping probes move it as single successes and failures would (allow, finish).
THEOREM RuntimeImplementsCircuit == RuntimeSpec => RuntimeIsACircuit
<1>1. RuntimeInit => RuntimePromise!Init /\ CircuitInv
    BY RuntimeAssumption DEF RuntimeInit, RuntimePromise!Init, RuntimePhase, Closed, CircuitInv, CircuitType, OpenForCause
<1>2. CircuitInv /\ [RuntimeNext]_runtimeVars => [RuntimePromise!Next]_<<circuit.failures, RuntimePhase>>
    <2> SUFFICES ASSUME CircuitInv, [RuntimeNext]_runtimeVars
                 PROVE  RuntimePromise!Next \/ UNCHANGED <<circuit.failures, RuntimePhase>>
        OBVIOUS
    <2>1. CASE UNCHANGED circuit
        BY <2>1 DEF RuntimePhase
    <2>2. CASE circuit' \in {Succeeded(circuit), Cancelled(circuit), Failed(circuit)}
        BY <2>2, FinishIsCircuitStep
    <2>3. ASSUME NEW c \in Callers, NEW t \in Texts, Guard(c, t)
          PROVE  UNCHANGED <<circuit.failures, RuntimePhase>>
        BY <2>3 DEF Guard, CircuitInv, CircuitType, RuntimePhase
    <2>4. CASE CooldownPasses
        BY <2>4 DEF CooldownPasses, CircuitInv, CircuitType, RuntimePhase, RuntimePromise!Next, RuntimePromise!Cool
    <2>5. ASSUME NEW c \in Callers, Call(c)
          PROVE  RuntimePromise!Next \/ UNCHANGED <<circuit.failures, RuntimePhase>>
        BY <2>5, <2>1, <2>2, <2>3 DEF Call, Lookup, Begin, BatchAnswered
    <2>6. ASSUME NEW c \in Callers, FactoryFails(c) \/ GiveUp(c) \/ BatchFails(c)
          PROVE  RuntimePromise!Next \/ UNCHANGED <<circuit.failures, RuntimePhase>>
        BY <2>6, <2>1, <2>2 DEF FactoryFails, GiveUp, BatchFails
    <2>7. ASSUME NEW t \in Texts, Flight(t) \/ UpstreamFails(t) \/ Expire(t)
          PROVE  RuntimePromise!Next \/ UNCHANGED <<circuit.failures, RuntimePhase>>
        BY <2>7, <2>1, <2>2 DEF Flight, Recheck, Answered, Store, CompleteFlight, UpstreamFails, Expire
    <2> QED BY <2>1, <2>4, <2>5, <2>6, <2>7 DEF RuntimeNext, runtimeVars
<1> QED BY <1>1, <1>2, CircuitStep, PTL DEF RuntimeSpec, RuntimeIsACircuit, RuntimePromise!Spec

-----------------------------------------------------------------------------
(* Flights: nobody waits for nothing. *)

LEMMA NoCallType == NoCall \in CallType /\ NoCall.pc = "idle"
<1>1. (CHOOSE t \in Texts : TRUE) \in Texts
    BY RuntimeAssumption
<1> QED BY <1>1 DEF NoCall, CallType

\* A caller that returned waits for nothing.
LEMMA ReturnedType ==
    ASSUME NEW c \in Callers, calls \in [Callers -> CallType], NEW ok
    PROVE  Returned(c, ok) \in CallType /\ Returned(c, ok).pc # "wait"
BY NoCallType DEF Returned, CallType

LEMMA FlightStep == FlightInv /\ [RuntimeNext]_runtimeVars => FlightInv'
<1> SUFFICES ASSUME FlightInv, [RuntimeNext]_runtimeVars PROVE FlightInv'
    OBVIOUS
<1> USE DEF FlightInv, WaitersHaveFlight
<1>1. CASE UNCHANGED <<calls, flights>>
    BY <1>1
\* One call is given a value that does not wait.
<1>2. ASSUME NEW c \in Callers, NEW v \in CallType, v.pc # "wait",
             calls' = [calls EXCEPT ![c] = v], UNCHANGED flights
      PROVE  FlightInv'
    BY <1>2
\* A flight goes on.
<1>3. ASSUME NEW t \in Texts, NEW v \in FlightType, v.pc # "none",
             flights' = [flights EXCEPT ![t] = v], UNCHANGED calls
      PROVE  FlightInv'
    BY <1>3 DEF CallType
<1>4. ASSUME NEW t \in Texts, NEW ok \in BOOLEAN, Complete(t, ok) PROVE FlightInv'
    <2>1. NoFlight \in FlightType
        BY DEF NoFlight, FlightType
    <2>2. flights' \in [Texts -> FlightType]
        BY <1>4, <2>1 DEF Complete
    <2>3. calls' \in [Callers -> CallType]
        BY <1>4, ReturnedType DEF Complete
    <2>4. ASSUME NEW c \in Callers, calls'[c].pc = "wait" PROVE flights'[calls'[c].text].pc # "none"
        <3>1. c \notin Woken(t)
            BY <1>4, <2>4, ReturnedType DEF Complete
        <3>2. calls'[c] = calls[c]
            BY <1>4, <3>1 DEF Complete
        <3>3. calls[c].text # t
            BY <2>4, <3>1, <3>2 DEF Woken, Waiting
        <3>4. flights'[calls[c].text] = flights[calls[c].text]
            BY <1>4, <3>3 DEF Complete, CallType
        <3> QED BY <2>4, <3>2, <3>4
    <2> QED BY <2>2, <2>3, <2>4
<1>5. ASSUME NEW c \in Callers, Call(c) PROVE FlightInv'
    <2>1. ASSUME NEW t \in Texts, Guard(c, t) PROVE FlightInv'
        <3> DEFINE v == [NoCall EXCEPT !.pc = "lookup", !.probe = (circuit.open = "elapsed"), !.text = t]
        <3>1. v \in CallType /\ v.pc # "wait"
            BY NoCallType DEF CallType
        <3>2. calls' = [calls EXCEPT ![c] = v] /\ UNCHANGED flights
            BY <2>1 DEF Guard
        <3> HIDE DEF v
        <3> QED BY <3>1, <3>2, <1>2
    <2>2. CASE Lookup(c)
        <3>1. CASE calls' = [calls EXCEPT ![c].pc = "begin"]
            BY <2>2, <3>1 DEF Lookup, CallType
        <3>2. CASE Return(c, TRUE)
            BY <2>2, <3>2, <1>2, ReturnedType DEF Lookup, Return
        <3> QED BY <2>2, <3>1, <3>2 DEF Lookup
    <2>3. CASE Begin(c)
        <3>1. calls[c].text \in Texts
            BY DEF CallType
        <3>2. [NoFlight EXCEPT !.pc = "recheck", !.probe = calls[c].probe] \in FlightType
            BY DEF NoFlight, FlightType, CallType
        <3>3. flights' \in [Texts -> FlightType]
            BY <2>3, <3>1, <3>2 DEF Begin
        <3>4. calls' \in [Callers -> CallType] /\ \A d \in Callers : calls'[d].text = calls[d].text
            BY <2>3 DEF Begin, CallType
        <3>5. flights'[calls[c].text].pc # "none"
            BY <2>3, <3>1 DEF Begin, NoFlight
        <3>6. \A t \in Texts : flights[t].pc # "none" => flights'[t].pc # "none"
            BY <2>3, <3>1, <3>5 DEF Begin
        <3>7. \A d \in Callers : d # c => calls'[d] = calls[d]
            BY <2>3 DEF Begin
        <3>8. \A d \in Callers : calls[d].text \in Texts
            BY DEF CallType
        <3> QED BY <3>3, <3>4, <3>5, <3>6, <3>7, <3>8
    <2>4. ASSUME NEW t \in Texts, BatchAnswered(c, t) PROVE FlightInv'
        <3>1. CASE calls' = calls
            BY <2>4, <3>1, <1>1 DEF BatchAnswered
        <3>2. CASE calls' = [calls EXCEPT ![c] = NoCall]
            BY <2>4, <3>2, <1>2, NoCallType DEF BatchAnswered
        <3> QED BY <2>4, <3>1, <3>2 DEF BatchAnswered
    <2> QED BY <1>5, <2>1, <2>2, <2>3, <2>4 DEF Call
<1>6. ASSUME NEW c \in Callers, FactoryFails(c) \/ GiveUp(c) \/ BatchFails(c) PROVE FlightInv'
    <2>1. CASE FactoryFails(c)
        BY <2>1, <1>1 DEF FactoryFails
    <2>2. CASE GiveUp(c)
        BY <2>2, <1>2, ReturnedType DEF GiveUp, Return
    <2>3. CASE BatchFails(c)
        BY <2>3, <1>2, NoCallType DEF BatchFails
    <2> QED BY <1>6, <2>1, <2>2, <2>3
<1>7. ASSUME NEW t \in Texts, Flight(t) \/ UpstreamFails(t) \/ Expire(t) PROVE FlightInv'
    <2>1. CASE Recheck(t)
        <3> DEFINE v == [flights[t] EXCEPT !.pc = "upstream"]
        <3>1. v \in FlightType /\ v.pc # "none"
            BY DEF FlightType
        <3>2. CASE flights' = [flights EXCEPT ![t] = v] /\ UNCHANGED calls
            BY <3>1, <3>2, <1>3
        <3>3. CASE Complete(t, TRUE)
            BY <3>3, <1>4
        <3> QED BY <2>1, <3>2, <3>3 DEF Recheck
    <2>2. CASE Answered(t)
        <3> DEFINE v == [flights[t] EXCEPT !.pc = "store", !.ok = TRUE]
        <3>1. v \in FlightType /\ v.pc # "none"
            BY DEF FlightType
        <3>2. flights' = [flights EXCEPT ![t] = v] /\ UNCHANGED calls
            BY <2>2 DEF Answered
        <3> QED BY <3>1, <3>2, <1>3
    <2>3. CASE Store(t) \/ UpstreamFails(t)
        <3> DEFINE v == [flights[t] EXCEPT !.pc = "complete"]
        <3>1. v \in FlightType /\ v.pc # "none"
            BY DEF FlightType
        <3>2. flights' = [flights EXCEPT ![t] = v] /\ UNCHANGED calls
            BY <2>3 DEF Store, UpstreamFails
        <3> QED BY <3>1, <3>2, <1>3
    <2>4. CASE CompleteFlight(t)
        BY <2>4, <1>4 DEF CompleteFlight, FlightType
    <2>5. CASE Expire(t)
        BY <2>5, <1>1 DEF Expire
    <2> QED BY <1>7, <2>1, <2>2, <2>3, <2>4, <2>5 DEF Flight
<1>8. CASE CooldownPasses
    BY <1>8, <1>1 DEF CooldownPasses
<1> QED BY <1>1, <1>5, <1>6, <1>7, <1>8 DEF RuntimeNext, runtimeVars

\* No wake-up is lost in beginFlight, waitFlight and completeFlight: a caller that
\* waits always has a flight that will be completed.
THEOREM NoLostWakeUp == RuntimeSpec => []WaitersHaveFlight
<1>1. RuntimeInit => FlightInv
    <2> SUFFICES ASSUME RuntimeInit PROVE FlightInv
        OBVIOUS
    <2>1. NoFlight \in FlightType
        BY DEF NoFlight, FlightType
    <2> QED BY <2>1, NoCallType DEF RuntimeInit, FlightInv, WaitersHaveFlight
<1>2. FlightInv => WaitersHaveFlight
    BY DEF FlightInv
<1> QED BY <1>1, <1>2, FlightStep, PTL DEF RuntimeSpec
-----------------------------------------------------------------------------
(* Probes: a half-open circuit always gets an answer. *)

\* A half-open circuit is one whose cooldown is over, and since then every call on its way
\* to a flight is a probe, every flight that may still look into the cache is one, and no
\* flight has reported.
ProbesOnly ==
    /\ circuit.halfOpen => circuit.open = "elapsed"
    /\ circuit.open = "elapsed" =>
          /\ \A c \in Callers : calls[c].pc \in {"lookup", "begin"} => calls[c].probe
          /\ \A t \in Texts : /\ flights[t].pc \notin {"store", "complete"}
                              /\ flights[t].pc = "recheck" => flights[t].probe

ProbeInv == CircuitInv /\ FlightInv /\ ProbesOnly /\ HalfOpenHasProbe

\* An outcome ends the probe: the circuit is not half-open after it, and its cooldown is
\* over only if it was and the outcome said nothing of the endpoint (Runtime.finish).
LEMMA FinishEndsProbe ==
    ASSUME CircuitInv,
           circuit' \in {Succeeded(circuit), Cancelled(circuit), Failed(circuit)}
    PROVE  /\ ~circuit'.halfOpen
           /\ circuit'.open = "elapsed" => circuit.open = "elapsed" /\ circuit' = Cancelled(circuit)
<1> USE DEF CircuitInv, CircuitType, OpenForCause
<1>1. CASE circuit' = Succeeded(circuit)
    BY <1>1 DEF Succeeded, Closed
<1>2. CASE circuit' = Cancelled(circuit)
    BY <1>2 DEF Cancelled
<1>3. CASE circuit' = Failed(circuit)
    BY <1>3, RuntimeAssumption DEF Failed
<1> QED BY <1>1, <1>2, <1>3

LEMMA ProbeStep == ProbeInv /\ [RuntimeNext]_runtimeVars => ProbesOnly' /\ HalfOpenHasProbe'
<1> SUFFICES ASSUME ProbeInv, [RuntimeNext]_runtimeVars PROVE ProbesOnly' /\ HalfOpenHasProbe'
    OBVIOUS
<1> DEFINE Finishes == circuit' \in {Succeeded(circuit), Cancelled(circuit), Failed(circuit)}
<1> USE DEF ProbeInv, FlightInv
<1>1. CASE UNCHANGED <<circuit, calls, flights>>
    BY <1>1 DEF ProbesOnly, HalfOpenHasProbe
\* One call ends or goes on without being on its way to a flight, with or without an outcome.
<1>2. ASSUME NEW c \in Callers, calls[c].pc \notin {"lookup", "begin"}, NEW v \in CallType,
             v.pc \notin {"lookup", "begin"}, calls' = [calls EXCEPT ![c] = v], UNCHANGED flights,
             UNCHANGED circuit \/ Finishes
      PROVE  ProbesOnly' /\ HalfOpenHasProbe'
    <2>1. CASE UNCHANGED circuit
        BY <1>2, <2>1 DEF ProbesOnly, HalfOpenHasProbe
    <2>2. CASE Finishes
        BY <1>2, <2>2, FinishEndsProbe DEF ProbesOnly, HalfOpenHasProbe
    <2> QED BY <1>2, <2>1, <2>2
<1>3. ASSUME NEW t \in Texts, NEW ok \in BOOLEAN, Complete(t, ok), UNCHANGED circuit,
             circuit.open = "elapsed" => flights[t].pc \notin {"recheck", "upstream"}
      PROVE  ProbesOnly' /\ HalfOpenHasProbe'
    <2>1. \A c \in Callers : calls'[c] = calls[c]
                             \/ (calls[c].pc = "wait" /\ calls'[c].pc \in {"idle", "batch"})
        BY <1>3, NoCallType DEF Complete, Woken, Waiting, Returned, CallType
    <2>2. \A u \in Texts : flights'[u] = flights[u] \/ (u = t /\ flights'[u].pc = "none")
        BY <1>3 DEF Complete, NoFlight
    <2>3. ProbesOnly'
        BY <1>3, <2>1, <2>2 DEF ProbesOnly
    <2>4. HalfOpenHasProbe'
        BY <1>3, <2>1, <2>2 DEF ProbesOnly, HalfOpenHasProbe
    <2> QED BY <2>3, <2>4
<1>4. ASSUME NEW c \in Callers, Call(c) PROVE ProbesOnly' /\ HalfOpenHasProbe'
    <2>1. ASSUME NEW t \in Texts, Guard(c, t) PROVE ProbesOnly' /\ HalfOpenHasProbe'
        <3> DEFINE probe == circuit.open = "elapsed"
        <3> DEFINE v == [NoCall EXCEPT !.pc = "lookup", !.probe = probe, !.text = t]
        <3>1. calls' = [calls EXCEPT ![c] = v] /\ v.pc = "lookup" /\ v.probe = probe
            BY <2>1, NoCallType DEF Guard, CallType
        <3>2. /\ circuit'.open = circuit.open
              /\ circuit'.halfOpen = (circuit.halfOpen \/ probe)
              /\ flights' = flights
            BY <2>1 DEF Guard, CircuitInv, CircuitType
        <3> HIDE DEF v
        <3>3. calls'[c] = v /\ \A d \in Callers : d # c => calls'[d] = calls[d]
            BY <3>1
        <3>4. ProbesOnly'
            BY <3>1, <3>2, <3>3 DEF ProbesOnly
        <3>5. HalfOpenHasProbe'
            BY <3>1, <3>2, <3>3 DEF ProbesOnly, HalfOpenHasProbe
        <3> QED BY <3>4, <3>5
    <2>2. CASE Lookup(c)
        <3>1. CASE Cached(calls[c].probe, calls[c].text)
            <4>1. ~calls[c].probe /\ circuit.open # "elapsed" /\ ~circuit.halfOpen
                BY <2>2, <3>1 DEF Lookup, Cached, ProbesOnly
            <4> QED BY <2>2, <4>1 DEF Lookup, ProbesOnly, HalfOpenHasProbe
        <3>2. CASE calls' = [calls EXCEPT ![c].pc = "begin"]
            BY <2>2, <3>2 DEF Lookup, ProbesOnly, HalfOpenHasProbe, CallType
        <3> QED BY <2>2, <3>1, <3>2 DEF Lookup
    <2>3. CASE Begin(c)
        <3>1. CASE circuit.open # "elapsed"
            BY <2>3, <3>1 DEF Begin, ProbesOnly, HalfOpenHasProbe
        <3>2. CASE circuit.open = "elapsed"
            <4> DEFINE u == calls[c].text
            <4>1. u \in Texts /\ calls[c].probe
                BY <2>3, <3>2 DEF Begin, ProbesOnly, CallType
            <4>2. /\ calls'[c].pc = "wait" /\ \A d \in Callers : d # c => calls'[d] = calls[d]
                  /\ UNCHANGED circuit
                BY <2>3 DEF Begin
            <4>3. flights'[u].pc \in {"recheck", "upstream"} /\ (flights'[u].pc = "recheck" => flights'[u].probe)
                BY <2>3, <3>2, <4>1 DEF Begin, ProbesOnly, NoFlight, FlightType
            <4>4. \A t \in Texts : t # u => flights'[t] = flights[t]
                BY <2>3, <4>1 DEF Begin
            <4> HIDE DEF u
            <4> QED BY <4>1, <4>2, <4>3, <4>4 DEF ProbesOnly, HalfOpenHasProbe
        <3> QED BY <3>1, <3>2
    <2>4. ASSUME NEW t \in Texts, BatchAnswered(c, t) PROVE ProbesOnly' /\ HalfOpenHasProbe'
        <3>1. NoCall \in CallType /\ NoCall.pc = "idle" /\ calls[c] \in CallType /\ calls[c].pc = "batch"
            BY <2>4, NoCallType DEF BatchAnswered
        <3>2. \E v \in {calls[c], NoCall} : calls' = [calls EXCEPT ![c] = v]
            BY <2>4 DEF BatchAnswered
        <3>3. UNCHANGED flights /\ (UNCHANGED circuit \/ Finishes)
            BY <2>4 DEF BatchAnswered
        <3> HIDE DEF Finishes
        <3> QED BY <3>1, <3>2, <3>3, <1>2
    <2> QED BY <1>4, <2>1, <2>2, <2>3, <2>4 DEF Call
<1>5. ASSUME NEW c \in Callers, FactoryFails(c) \/ GiveUp(c) \/ BatchFails(c)
      PROVE  ProbesOnly' /\ HalfOpenHasProbe'
    <2>1. CASE FactoryFails(c)
        BY <2>1, FinishEndsProbe DEF FactoryFails, ProbesOnly, HalfOpenHasProbe
    <2>2. CASE GiveUp(c)
        <3>1. Returned(c, FALSE) = NoCall
            BY DEF Returned
        <3> QED BY <2>2, <3>1, <1>2, NoCallType DEF GiveUp, Return
    <2>3. CASE BatchFails(c)
        BY <2>3, <1>2, NoCallType DEF BatchFails
    <2> QED BY <1>5, <2>1, <2>2, <2>3
<1>6. ASSUME NEW t \in Texts, Flight(t) \/ UpstreamFails(t) \/ Expire(t)
      PROVE  ProbesOnly' /\ HalfOpenHasProbe'
    <2>1. CASE Recheck(t)
        <3>1. CASE Cached(flights[t].probe, t)
            <4>1. circuit.open # "elapsed"
                BY <2>1, <3>1 DEF Recheck, Cached, ProbesOnly
            <4> QED BY <2>1, <3>1, <4>1, <1>3 DEF Recheck
        <3>2. CASE flights' = [flights EXCEPT ![t].pc = "upstream"] /\ UNCHANGED calls
            BY <2>1, <3>2 DEF Recheck, ProbesOnly, HalfOpenHasProbe
        <3> QED BY <2>1, <3>1, <3>2 DEF Recheck
    <2>2. CASE Answered(t)
        BY <2>2 DEF Answered, Succeeded, Closed, ProbesOnly, HalfOpenHasProbe
    <2>3. CASE UpstreamFails(t)
        <3>1. circuit'.open # "elapsed" /\ ~circuit'.halfOpen
            BY <2>3, FinishEndsProbe, RuntimeAssumption
               DEF UpstreamFails, Failed, CircuitInv, CircuitType, OpenForCause
        <3> QED BY <3>1 DEF ProbesOnly, HalfOpenHasProbe
    <2>4. CASE Store(t)
        BY <2>4 DEF Store, ProbesOnly, HalfOpenHasProbe
    <2>5. CASE CompleteFlight(t)
        BY <2>5, <1>3 DEF CompleteFlight, FlightType
    <2>6. CASE Expire(t)
        BY <2>6, <1>1 DEF Expire
    <2> QED BY <1>6, <2>1, <2>2, <2>3, <2>4, <2>5, <2>6 DEF Flight
<1>7. CASE CooldownPasses
    BY <1>7 DEF CooldownPasses, Underway, ProbesOnly, HalfOpenHasProbe, CircuitInv, CircuitType
<1> QED BY <1>1, <1>4, <1>5, <1>6, <1>7 DEF RuntimeNext, runtimeVars

\* A half-open circuit never waits for a probe that is gone: the call allow let through, or
\* the flight it became, is still on its way to finish, whatever is cancelled, given up,
\* cached or joined meanwhile (allow, finish, beginFlight).
THEOREM ProbeWillReport == RuntimeSpec => []HalfOpenHasProbe
<1>1. RuntimeInit => ProbeInv
    <2> SUFFICES ASSUME RuntimeInit PROVE ProbeInv
        OBVIOUS
    <2>1. NoFlight \in FlightType
        BY DEF NoFlight, FlightType
    <2>2. CircuitInv
        BY RuntimeAssumption DEF RuntimeInit, CircuitInv, CircuitType, Closed, OpenForCause
    <2>3. FlightInv
        BY <2>1, NoCallType DEF RuntimeInit, FlightInv, WaitersHaveFlight
    <2> QED BY <2>2, <2>3 DEF RuntimeInit, ProbeInv, ProbesOnly, HalfOpenHasProbe, Closed
<1>2. ProbeInv /\ [RuntimeNext]_runtimeVars => ProbeInv'
    BY CircuitStep, FlightStep, ProbeStep DEF ProbeInv
<1>3. ProbeInv => HalfOpenHasProbe
    BY DEF ProbeInv
<1> QED BY <1>1, <1>2, <1>3, PTL DEF RuntimeSpec

-----------------------------------------------------------------------------
(***************************************************************************)
(* The deliveries of NotificationOutbox for any number of replicas,        *)
(* notifications and destinations and any limit of attempts.               *)
(*                                                                         *)
(* Both properties are about what a pass carries from one statement to the *)
(* next while others change the rows and the settings: the item it claimed *)
(* still names its destination, and the row's count of attempts is ahead   *)
(* of every copy of it (CarriedInv).                                       *)
(***************************************************************************)

\* What a replica selected and what it claimed: the copies of the counter are not ahead of
\* the row, the claimed one is behind it, and a send that worked has reached somebody.
Carried(r) ==
    /\ \A item \in pass[r].todo : item.attempts <= rows[item.key].attempts
    /\ \A item \in pass[r].item :
          /\ StillWanted(r, item)
          /\ item.attempts + 1 <= rows[item.key].attempts
          /\ pass[r].pc = "record" /\ pass[r].ok => \E m \in reached : m.key = item.key
    /\ IF pass[r].pc \in {"send", "record"} THEN \E item \in Items : pass[r].item = {item}
                                            ELSE pass[r].item = {}

CarriedInv == \A r \in Replicas : Carried(r)

\* A row that was not made has made no attempt.
UnmadeInv == \A k \in Keys : rows[k].status = "none" => rows[k].attempts = 0

OutboxInv == OutboxTypeOK /\ CarriedInv /\ UnmadeInv /\ SentToItsDestination /\ SettledForCause

-----------------------------------------------------------------------------
(* Types. *)

LEMMA NoPassType == NoPass \in PassType /\ NoPass.todo = {} /\ NoPass.item = {} /\ NoPass.pc = "idle"
BY DEF NoPass, PassType, Disabled, Configs

LEMMA NoRowType == NoRow \in RowType /\ NoRow.attempts = 0
BY DEF NoRow, RowType

\* A pass whose record changes keeps the other passes.
LEMMA StepType ==
    ASSUME OutboxTypeOK, NEW r \in Replicas, NEW next \in PassType, Step(r, next)
    PROVE  /\ pass' \in [Replicas -> PassType]
           /\ pass'[r] = next
           /\ \A q \in Replicas : q # r => pass'[q] = pass[q]
BY DEF OutboxTypeOK, Step

LEMMA EventType == ASSUME OutboxTypeOK, Change PROVE changes' \in 0..MaxChanges
BY OutboxAssumption DEF OutboxTypeOK, Change

\* The item of a pass that claimed one.
LEMMA ItemIsTheOne ==
    ASSUME NEW r, NEW item, pass[r].item = {item}
    PROVE  Item(r) = item
BY DEF Item

LEMMA TypeStep == OutboxTypeOK /\ [OutboxNext]_outboxVars => OutboxTypeOK'
<1> SUFFICES ASSUME OutboxTypeOK, [OutboxNext]_outboxVars PROVE OutboxTypeOK'
    OBVIOUS
<1>1. CASE UNCHANGED outboxVars
    BY <1>1 DEF OutboxTypeOK, outboxVars
<1>2. ASSUME NEW cfg \in Configs, SaveSettings(cfg) PROVE OutboxTypeOK'
    BY <1>2, EventType DEF OutboxTypeOK, SaveSettings
<1>3. ASSUME NEW e \in Emails, ChangeEmail(e) PROVE OutboxTypeOK'
    BY <1>3, EventType DEF OutboxTypeOK, ChangeEmail
<1>4. ASSUME NEW n \in Notifications, Notify(n) \/ NotifyAgain(n) PROVE OutboxTypeOK'
    BY <1>4, EventType DEF OutboxTypeOK, Notify, NotifyAgain
<1>5. ASSUME NEW k \in Keys, Retry(k) \/ ComeDue(k) \/ Age(k) PROVE OutboxTypeOK'
    <2> DEFINE v == [rows[k] EXCEPT !.status = "pending", !.due = TRUE]
               u == [rows[k] EXCEPT !.due = TRUE]
               o == [rows[k] EXCEPT !.old = TRUE]
    <2>0. v \in RowType /\ u \in RowType /\ o \in RowType
        BY DEF OutboxTypeOK, RowType, Unfinished
    <2>1. rows' \in [Keys -> RowType]
        <3>1. rows' \in {[rows EXCEPT ![k] = v], [rows EXCEPT ![k] = u], [rows EXCEPT ![k] = o]}
            BY <1>5 DEF OutboxTypeOK, Retry, ComeDue, Age
        <3> HIDE DEF v, u, o
        <3> QED BY <2>0, <3>1 DEF OutboxTypeOK
    <2> QED BY <1>5, <2>1, EventType DEF OutboxTypeOK, Retry, ComeDue, Age
<1>6. ASSUME NEW r \in Replicas, RunOnce(r) \/ SendFails(r) \/ LoseRecord(r) \/ Crash(r) \/ SlowPass(r)
      PROVE  OutboxTypeOK'
    <2> USE DEF OutboxTypeOK
    \* One pass goes on; the rows keep their type.
    <2>1. ASSUME NEW next \in PassType, Step(r, next), rows' \in [Keys -> RowType],
                 UNCHANGED <<config, before, email, created>>, changes' \in 0..MaxChanges,
                 orphaned' \subseteq Keys
          PROVE  OutboxTypeOK'
        BY <2>1, StepType
    <2>2. pass[r] \in PassType
        OBVIOUS
    <2>3. CASE Start(r)
        <3>1. [NoPass EXCEPT !.pc = "seed", !.config = config, !.before = before] \in PassType
            BY NoPassType DEF PassType
        <3>2. rows' \in [Keys -> RowType]
            BY <2>3, ZenonT(40) DEF Start, Expired, RowType, Unfinished
        <3> QED BY <2>1, <2>3, <3>1, <3>2 DEF Start
    <2>4. CASE Seed(r)
        <3>1. [NoRow EXCEPT !.status = "pending", !.due = TRUE] \in RowType
            BY DEF NoRow, RowType, Unfinished
        <3>2. rows' \in [Keys -> RowType]
            BY <2>4, <3>1 DEF Seed
        <3>3. [pass[r] EXCEPT !.pc = "select"] \in PassType
            BY <2>2 DEF PassType
        <3> QED BY <2>1, <2>4, <3>2, <3>3 DEF Seed
    <2>5. CASE Select(r)
        <3> DEFINE todo == {[key |-> k, attempts |-> rows[k].attempts, email |-> email]
                              : k \in {x \in Keys : rows[x].status \in Unfinished /\ rows[x].due}}
        <3>1. todo \subseteq Items
            BY DEF Items, RowType
        <3> HIDE DEF todo
        <3>2. [pass[r] EXCEPT !.pc = "loop", !.todo = todo] \in PassType
            BY <2>2, <3>1 DEF PassType
        <3>3. Step(r, [pass[r] EXCEPT !.pc = "loop", !.todo = todo])
            BY <2>5 DEF Select, todo
        <3> QED BY <2>1, <2>5, <3>2, <3>3 DEF Select
    <2>6. ASSUME NEW item \in pass[r].todo, Supersede(r, item) \/ Claim(r, item) \/ Skip(r, item)
          PROVE  OutboxTypeOK'
        <3>1. item \in Items /\ item.key \in Keys
            BY <2>2, <2>6 DEF PassType, Items
        <3>2. /\ [pass[r] EXCEPT !.todo = @ \ {item}] \in PassType
              /\ [pass[r] EXCEPT !.pc = "send", !.todo = @ \ {item}, !.item = {item}] \in PassType
            BY <2>2, <3>1 DEF PassType
        <3>3. rows[item.key] \in RowType /\ pass[r].slow \in BOOLEAN
            BY <2>2, <3>1 DEF PassType
        <3>4. CASE Supersede(r, item)
            <4>0. [rows[item.key] EXCEPT !.status = "superseded"] \in RowType
                BY <3>3 DEF RowType, Settled
            <4>1. rows' \in [Keys -> RowType]
                BY <3>1, <3>4, <4>0 DEF Supersede
            <4>2. orphaned' \subseteq Keys
                BY <3>1, <3>4 DEF Supersede
            <4> QED BY <2>1, <3>2, <3>4, <4>1, <4>2 DEF Supersede
        <3>5. CASE Claim(r, item)
            <4>1. rows' \in [Keys -> RowType]
                BY <3>1, <3>3, <3>5 DEF Claim, RowType
            <4> QED BY <2>1, <3>2, <3>5, <4>1 DEF Claim
        <3>6. CASE Skip(r, item)
            BY <2>1, <3>2, <3>6 DEF Skip
        <3> QED BY <2>6, <3>4, <3>5, <3>6
    <2>7. CASE Send(r) \/ SendFails(r)
        <3>1. \A ok \in BOOLEAN : [pass[r] EXCEPT !.pc = "record", !.ok = ok] \in PassType
            BY <2>2 DEF PassType
        <3> QED BY <2>1, <2>7, <3>1, EventType DEF Send, SendFails
    <2>8. Recorded(r) \in PassType
        BY <2>2 DEF Recorded, PassType
    <2>9. CASE Record(r)
        <3>1. Result(r) \in {"delivered", "dead", "failed"}
            BY DEF Result
        <3> DEFINE k == Item(r).key
                   v == [rows[k] EXCEPT !.status = Result(r), !.due = FALSE, !.owner = NoReplica, !.old = FALSE]
        <3>2. rows' \in [Keys -> RowType]
            <4>1. ASSUME k \in Keys PROVE v \in RowType
                BY <3>1, <4>1, ZenonT(40) DEF RowType, Unfinished, Settled
            <4>2. rows' \in {rows, [rows EXCEPT ![k] = v]}
                BY <2>9 DEF Record
            <4> HIDE DEF k, v
            <4> QED BY <4>1, <4>2
        <3> QED BY <2>1, <2>8, <2>9, <3>2 DEF Record
    <2>10. CASE Finish(r)
        BY <2>1, <2>10, NoPassType DEF Finish
    <2>11. Disowned(r) \in [Keys -> RowType]
        BY DEF Disowned, RowType
    <2>12. CASE LoseRecord(r) \/ Crash(r)
        BY <2>1, <2>8, <2>11, <2>12, NoPassType, EventType DEF LoseRecord, Crash
    <2>13. CASE SlowPass(r)
        <3>1. [pass[r] EXCEPT !.slow = TRUE] \in PassType
            BY <2>2 DEF PassType
        <3>2. rows' \in [Keys -> RowType]
            BY <2>13 DEF SlowPass, RowType
        <3> QED BY <2>1, <2>13, <3>1, <3>2, EventType DEF SlowPass
    <2> QED BY <1>6, <2>3, <2>4, <2>5, <2>6, <2>7, <2>9, <2>10, <2>12, <2>13 DEF RunOnce, Handle
<1> QED BY <1>1, <1>2, <1>3, <1>4, <1>5, <1>6 DEF OutboxNext, TimePasses

-----------------------------------------------------------------------------
(* Rows. *)

\* What a step may do to a row: the count never goes back, an unmade row has none, and only
\* Record settles a row as delivered or dead.
RowKept(k) ==
    /\ rows[k].attempts <= rows'[k].attempts
    /\ rows'[k].status = "none" => rows'[k].attempts = 0
    /\ rows'[k].status \in {"delivered", "dead"} =>
          \/ rows'[k].status = rows[k].status
          \/ \E r \in Replicas : Record(r) /\ k = Item(r).key /\ rows'[k].status = Result(r)

LEMMA RowsKept ==
    ASSUME OutboxTypeOK, UnmadeInv, [OutboxNext]_outboxVars, NEW k \in Keys
    PROVE  RowKept(k)
<1> USE DEF OutboxTypeOK, RowKept, UnmadeInv
<1>0. rows[k] \in RowType /\ rows[k].attempts \in Nat
    BY DEF RowType
<1>1. CASE rows'[k] = rows[k]
    BY <1>0, <1>1
\* A row that was made gets another status but delivered and dead.
<1>2. ASSUME rows[k].status # "none", rows'[k].status \notin {"none", "delivered", "dead"},
             rows'[k].attempts \in {rows[k].attempts, rows[k].attempts + 1}
      PROVE  RowKept(k)
    BY <1>0, <1>2
<1>3. ASSUME NEW x \in Keys, Retry(x) \/ ComeDue(x) \/ Age(x) PROVE RowKept(k)
    <2>1. CASE k # x
        BY <1>1, <1>3, <2>1 DEF Retry, ComeDue, Age
    <2>2. CASE k = x
        BY <1>0, <1>2, <1>3, <2>2 DEF Retry, ComeDue, Age, RowType
    <2> QED BY <2>1, <2>2
<1>4. ASSUME NEW r \in Replicas, RunOnce(r) \/ SendFails(r) \/ LoseRecord(r) \/ Crash(r) \/ SlowPass(r)
      PROVE  RowKept(k)
    <2>1. CASE Start(r)
        <3>1. rows'[k] = IF rows[k].status = "sending" /\ rows[k].old THEN Expired(rows[k]) ELSE rows[k]
            BY <2>1 DEF Start
        <3>2. Expired(rows[k]).status = "failed" /\ Expired(rows[k]).attempts = rows[k].attempts
            BY <1>0 DEF Expired, RowType
        <3> QED BY <1>1, <1>2, <3>1, <3>2
    <2>2. CASE Seed(r)
        BY <1>0, <1>1, <2>2, NoRowType DEF Seed, NoRow
    <2>3. ASSUME NEW item \in pass[r].todo, Supersede(r, item) \/ Claim(r, item) PROVE RowKept(k)
        <3>1. item.key \in Keys
            BY <2>3 DEF PassType, Items
        <3>2. CASE k # item.key
            BY <1>1, <2>3, <3>2 DEF Supersede, Claim
        <3>3. CASE k = item.key
            BY <1>0, <1>1, <1>2, <2>3, <3>3 DEF Supersede, Claim, Unfinished, RowType
        <3> QED BY <3>2, <3>3
    <2>4. CASE Record(r)
        <3> DEFINE x == Item(r).key
        <3>1. CASE k = x /\ rows[k].status = "sending"
            <4>1. rows'[k].status = Result(r) /\ rows'[k].attempts = rows[k].attempts
                BY <1>0, <2>4, <3>1 DEF Record, RowType
            <4>2. Result(r) # "none"
                BY DEF Result
            <4> QED BY <1>0, <2>4, <3>1, <4>1, <4>2
        <3>2. CASE k # x \/ rows[k].status # "sending"
            BY <1>1, <2>4, <3>2 DEF Record
        <3> QED BY <3>1, <3>2
    <2>5. ASSUME rows' = Disowned(r) \/ rows' = [x \in Keys |-> IF rows[x].owner = r
                                                  THEN [rows[x] EXCEPT !.old = TRUE] ELSE rows[x]]
          PROVE  RowKept(k)
        <3>1. rows'[k].status = rows[k].status /\ rows'[k].attempts = rows[k].attempts
            BY <1>0, <2>5 DEF Disowned, RowType
        <3> QED BY <1>0, <3>1
    <2>6. CASE LoseRecord(r) \/ Crash(r) \/ SlowPass(r)
        BY <2>5, <2>6 DEF LoseRecord, Crash, SlowPass
    <2>7. CASE UNCHANGED rows
        BY <1>1, <2>7
    <2> QED BY <1>4, <2>1, <2>2, <2>3, <2>4, <2>6, <2>7
            DEF RunOnce, Handle, Select, Skip, Send, SendFails, Finish
<1>5. CASE UNCHANGED rows
    BY <1>1, <1>5
<1> QED BY <1>3, <1>4, <1>5
        DEF OutboxNext, TimePasses, SaveSettings, ChangeEmail, Notify, NotifyAgain, outboxVars

-----------------------------------------------------------------------------
(* What a pass carries. *)

\* Only a send adds to what was reached, and it adds the item's own destination.
LEMMA ReachedGrows ==
    ASSUME OutboxInv, [OutboxNext]_outboxVars
    PROVE  reached \subseteq reached' /\ SentToItsDestination'
<1> USE DEF OutboxInv, SentToItsDestination
<1>1. ASSUME NEW r \in Replicas, Reach(r), pass[r].pc = "send"
      PROVE  reached \subseteq reached' /\ SentToItsDestination'
    <2>1. PICK item \in Items : pass[r].item = {item}
        BY <1>1 DEF CarriedInv, Carried
    <2>2. Item(r) = item /\ item.key.destination = Destination(r, item)
        BY <2>1, ItemIsTheOne DEF CarriedInv, Carried, StillWanted
    <2>3. reached' = reached \cup {[key |-> item.key, to |-> Destination(r, item)]}
        BY <1>1, <2>2 DEF Reach
    <2> QED BY <2>2, <2>3
<1>2. CASE UNCHANGED reached
    BY <1>2
<1>3. ASSUME NEW r \in Replicas, RunOnce(r) \/ SendFails(r) \/ LoseRecord(r) \/ Crash(r) \/ SlowPass(r)
      PROVE  reached \subseteq reached' /\ SentToItsDestination'
    BY <1>1, <1>2, <1>3 DEF RunOnce, Start, Seed, Select, Handle, Supersede, Claim, Skip, Send, Record,
                            Finish, SendFails, LoseRecord, Crash, SlowPass
<1> QED BY <1>2, <1>3
        DEF OutboxNext, TimePasses, SaveSettings, ChangeEmail, Notify, NotifyAgain, Retry, ComeDue, Age, outboxVars

\* A pass that is left alone still carries what it did.
LEMMA CarriedByOthers ==
    ASSUME OutboxInv, [OutboxNext]_outboxVars, NEW r \in Replicas,
           pass'[r].todo \subseteq pass[r].todo, pass'[r].item = pass[r].item,
           pass'[r].config = pass[r].config, pass'[r].pc = pass[r].pc, pass'[r].ok = pass[r].ok
    PROVE  Carried(r)'
<1>1. pass[r].todo \subseteq Items /\ pass[r].item \subseteq Items
    BY DEF OutboxInv, OutboxTypeOK, PassType
<1>2. \A k \in Keys : rows[k].attempts \in Nat /\ rows'[k].attempts \in Nat
                      /\ rows[k].attempts <= rows'[k].attempts
    BY RowsKept, TypeStep DEF OutboxInv, RowKept, OutboxTypeOK, RowType
<1>3. \A item \in Items : item.attempts \in Nat /\ item.key \in Keys
    BY DEF Items
<1>4. \A item \in pass'[r].todo : item.attempts <= rows'[item.key].attempts
    BY <1>1, <1>2, <1>3 DEF OutboxInv, CarriedInv, Carried
<1>5. ASSUME NEW item \in pass'[r].item
      PROVE  /\ item.key.destination = currentDestination(pass'[r].config, item.key.channel, item.email)
             /\ item.attempts + 1 <= rows'[item.key].attempts
             /\ pass'[r].pc = "record" /\ pass'[r].ok => \E m \in reached' : m.key = item.key
    <2>1. item \in pass[r].item
        OBVIOUS
    <2>2. item.key.destination = currentDestination(pass[r].config, item.key.channel, item.email)
        BY <2>1 DEF OutboxInv, CarriedInv, Carried, StillWanted, Destination
    <2>3. item.attempts + 1 <= rows'[item.key].attempts
        BY <1>1, <1>2, <1>3, <2>1 DEF OutboxInv, CarriedInv, Carried
    <2>4. pass'[r].pc = "record" /\ pass'[r].ok => \E m \in reached' : m.key = item.key
        BY <2>1, ReachedGrows DEF OutboxInv, CarriedInv, Carried
    <2> QED BY <2>2, <2>3, <2>4
<1>6. IF pass'[r].pc \in {"send", "record"} THEN \E item \in Items : pass'[r].item = {item}
                                             ELSE pass'[r].item = {}
    BY DEF OutboxInv, CarriedInv, Carried
<1> QED BY <1>4, <1>5, <1>6 DEF Carried, StillWanted, Destination

LEMMA CarriedStep == OutboxInv /\ [OutboxNext]_outboxVars => CarriedInv'
<1> SUFFICES ASSUME OutboxInv, [OutboxNext]_outboxVars, NEW q \in Replicas PROVE Carried(q)'
    BY DEF CarriedInv
<1> USE DEF OutboxInv
<1>1. CASE UNCHANGED pass
    BY <1>1, CarriedByOthers
<1>2. ASSUME NEW r \in Replicas, RunOnce(r) \/ SendFails(r) \/ LoseRecord(r) \/ Crash(r) \/ SlowPass(r)
      PROVE  Carried(q)'
    <2>0. pass[r] \in PassType /\ pass' \in [Replicas -> PassType]
        BY TypeStep DEF OutboxTypeOK
    <2>1. CASE q # r
        <3>1. pass'[q] = pass[q]
            BY <1>2, <2>1 DEF OutboxTypeOK, RunOnce, Start, Seed, Select, Handle, Supersede, Claim, Skip, Send,
                              Record, Finish, SendFails, LoseRecord, Crash, SlowPass, Step
        <3> QED BY <3>1, CarriedByOthers
    \* The pass goes on without a claim.
    <2>2. ASSUME q = r, pass'[r].pc \notin {"send", "record"}, pass'[r].item = {},
                 pass'[r].todo = {} \/ pass'[r].todo \subseteq pass[r].todo
          PROVE  Carried(q)'
        <3>1. ASSUME NEW item \in pass[r].todo PROVE item.attempts <= rows'[item.key].attempts
            <4>1. item.attempts \in Nat /\ item.key \in Keys /\ item.attempts <= rows[item.key].attempts
                BY <2>0 DEF PassType, Items, CarriedInv, Carried
            <4>2. rows[item.key].attempts \in Nat /\ rows'[item.key].attempts \in Nat
                BY <4>1, TypeStep DEF OutboxTypeOK, RowType
            <4> QED BY <4>1, <4>2, RowsKept DEF RowKept
        <3> QED BY <2>2, <3>1 DEF Carried
    <2>3. CASE q = r /\ (Start(r) \/ Finish(r) \/ Crash(r))
        <3>1. pass'[r].pc \in {"idle", "seed"} /\ pass'[r].item = {} /\ pass'[r].todo = {}
            <4> DEFINE v == [NoPass EXCEPT !.pc = "seed", !.config = config, !.before = before]
            <4>1. v.pc = "seed" /\ v.item = {} /\ v.todo = {}
                BY NoPassType DEF PassType
            <4>2. pass'[r] = NoPass \/ pass'[r] = v
                BY <2>3 DEF OutboxTypeOK, Start, Finish, Crash, Step
            <4> HIDE DEF v
            <4> QED BY <4>1, <4>2, NoPassType
        <3> QED BY <2>2, <2>3, <3>1
    <2>4. CASE q = r /\ Seed(r)
        <3>1. pass'[r].pc = "select" /\ pass'[r].item = pass[r].item /\ pass'[r].todo = pass[r].todo
            BY <2>0, <2>4 DEF OutboxTypeOK, Seed, Step, PassType
        <3>2. pass[r].item = {}
            BY <2>4 DEF Seed, CarriedInv, Carried
        <3> QED BY <2>2, <2>4, <3>1, <3>2
    <2>5. CASE q = r /\ Select(r)
        <3>1. pass'[r].pc = "loop" /\ pass'[r].item = pass[r].item
            BY <2>0, <2>5 DEF OutboxTypeOK, Select, Step, PassType
        <3>2. pass[r].item = {}
            BY <2>5 DEF Select, CarriedInv, Carried
        <3>3. ASSUME NEW item \in pass'[r].todo PROVE item.attempts <= rows'[item.key].attempts
            <4>1. pass'[r].todo = {[key |-> k, attempts |-> rows[k].attempts, email |-> email]
                                     : k \in {x \in Keys : rows[x].status \in Unfinished /\ rows[x].due}}
                BY <2>0, <2>5 DEF OutboxTypeOK, Select, Step, PassType
            <4>2. item.key \in Keys /\ item.attempts = rows[item.key].attempts
                BY <4>1
            <4> QED BY <2>5, <4>2 DEF Select, OutboxTypeOK, RowType
        <3> QED BY <2>5, <3>1, <3>2, <3>3 DEF Carried
    <2>6. ASSUME q = r, NEW item \in pass[r].todo, Supersede(r, item) \/ Skip(r, item) PROVE Carried(q)'
        <3>1. pass'[r].pc = "loop" /\ pass'[r].item = pass[r].item /\ pass'[r].todo \subseteq pass[r].todo
            BY <2>0, <2>6 DEF OutboxTypeOK, Supersede, Skip, Step, PassType
        <3>2. pass[r].item = {}
            BY <2>6 DEF Supersede, Skip, CarriedInv, Carried
        <3> QED BY <2>2, <2>6, <3>1, <3>2
    <2>7. ASSUME q = r, NEW item \in pass[r].todo, Claim(r, item) PROVE Carried(q)'
        <3>1. /\ pass'[r].pc = "send" /\ pass'[r].item = {item} /\ pass'[r].todo \subseteq pass[r].todo
              /\ pass'[r].config = pass[r].config
            BY <2>0, <2>7 DEF OutboxTypeOK, Claim, Step, PassType
        <3>2. pass[r].todo \subseteq Items /\ \A it \in Items : it.attempts \in Nat /\ it.key \in Keys
            BY <2>0 DEF PassType, Items
        <3>3. \A k \in Keys : /\ rows[k].attempts \in Nat /\ rows'[k].attempts \in Nat
                              /\ rows[k].attempts <= rows'[k].attempts
            BY RowsKept, TypeStep DEF RowKept, OutboxTypeOK, RowType
        <3>4. \A it \in pass'[r].todo : it.attempts <= rows'[it.key].attempts
            BY <3>1, <3>2, <3>3 DEF CarriedInv, Carried
        <3>5. item.attempts + 1 <= rows'[item.key].attempts
            <4>1. rows[item.key] \in RowType /\ item.key \in Keys
                BY <3>2 DEF OutboxTypeOK
            <4>2. rows'[item.key].attempts = rows[item.key].attempts + 1
                BY <2>7, <4>1 DEF OutboxTypeOK, Claim, RowType
            <4>3. item.attempts <= rows[item.key].attempts
                BY DEF CarriedInv, Carried
            <4> QED BY <3>2, <3>3, <4>2, <4>3
        <3>6. item.key.destination = currentDestination(pass'[r].config, item.key.channel, item.email)
            BY <2>7, <3>1 DEF Claim, StillWanted, Destination
        <3> QED BY <2>7, <3>1, <3>2, <3>4, <3>5, <3>6 DEF Carried, StillWanted, Destination
    <2>8. CASE q = r /\ (Send(r) \/ SendFails(r))
        <3>1. /\ pass'[r].pc = "record" /\ pass'[r].item = pass[r].item /\ pass'[r].todo = pass[r].todo
              /\ pass'[r].config = pass[r].config /\ pass[r].pc = "send" /\ rows' = rows
            <4>1. \E ok \in BOOLEAN : pass'[r] = [pass[r] EXCEPT !.pc = "record", !.ok = ok]
                BY <2>8 DEF OutboxTypeOK, Send, SendFails, Step
            <4> QED BY <2>0, <2>8, <4>1 DEF Send, SendFails, PassType
        <3>2. pass'[r].ok => Reach(r)
            <4>1. CASE SendFails(r)
                <5>1. pass'[r] = [pass[r] EXCEPT !.pc = "record", !.ok = FALSE]
                    BY <4>1 DEF OutboxTypeOK, SendFails, Step
                <5> QED BY <2>0, <5>1 DEF PassType
            <4> QED BY <2>8, <4>1 DEF Send
        <3>3. PICK item \in Items : pass[r].item = {item}
            BY <3>1 DEF CarriedInv, Carried
        <3>4. pass'[r].ok => \E m \in reached' : m.key = item.key
            <4>1. Item(r) = item
                BY <3>3, ItemIsTheOne
            <4>2. pass'[r].ok => [key |-> item.key, to |-> Destination(r, item)] \in reached'
                BY <3>2, <4>1 DEF Reach
            <4> QED BY <4>2
        <3>5. item.key.destination = currentDestination(pass[r].config, item.key.channel, item.email)
            BY <3>3 DEF CarriedInv, Carried, StillWanted, Destination
        <3>6. item.attempts + 1 <= rows[item.key].attempts /\ \A it \in pass[r].todo : it.attempts <= rows[it.key].attempts
            BY <3>3 DEF CarriedInv, Carried
        <3> QED BY <2>8, <3>1, <3>3, <3>4, <3>5, <3>6 DEF Carried, StillWanted, Destination
    <2>9. CASE q = r /\ (Record(r) \/ LoseRecord(r))
        <3>1. pass'[r].pc = "loop" /\ pass'[r].item = {} /\ pass'[r].todo = pass[r].todo
            <4>1. pass'[r] = Recorded(r)
                BY <2>9 DEF OutboxTypeOK, Record, LoseRecord, Step
            <4> QED BY <2>0, <4>1 DEF Recorded, PassType
        <3> QED BY <2>2, <2>9, <3>1
    <2>10. CASE q = r /\ SlowPass(r)
        <3>1. /\ pass'[r].pc = pass[r].pc /\ pass'[r].item = pass[r].item /\ pass'[r].todo = pass[r].todo
              /\ pass'[r].config = pass[r].config /\ pass'[r].ok = pass[r].ok
            BY <2>0, <2>10 DEF OutboxTypeOK, SlowPass, Step, PassType
        <3> QED BY <2>10, <3>1, CarriedByOthers
    <2> QED BY <1>2, <2>1, <2>3, <2>4, <2>5, <2>6, <2>7, <2>8, <2>9, <2>10 DEF RunOnce, Handle
<1> QED BY <1>1, <1>2
        DEF OutboxNext, TimePasses, SaveSettings, ChangeEmail, Notify, NotifyAgain, Retry, ComeDue, Age, outboxVars

-----------------------------------------------------------------------------
(* The theorems. *)

LEMMA SettledStep == OutboxInv /\ [OutboxNext]_outboxVars => SettledForCause'
<1> SUFFICES ASSUME OutboxInv, [OutboxNext]_outboxVars, NEW k \in Keys
             PROVE  /\ rows'[k].status = "delivered" => \E m \in reached' : m.key = k
                    /\ rows'[k].status = "dead" => rows'[k].attempts >= MaxAttempts
    BY DEF SettledForCause, DeliveredArrived, DeadAfterAllAttempts
<1> USE DEF OutboxInv
<1>1. /\ RowKept(k) /\ reached \subseteq reached'
      /\ rows[k].attempts \in Nat /\ rows'[k].attempts \in Nat /\ MaxAttempts \in Nat
    BY RowsKept, ReachedGrows, TypeStep, OutboxAssumption DEF OutboxTypeOK, RowType
<1>2. CASE rows'[k].status = rows[k].status
    BY <1>1, <1>2 DEF RowKept, SettledForCause, DeliveredArrived, DeadAfterAllAttempts
<1>3. ASSUME NEW r \in Replicas, Record(r), k = Item(r).key, rows'[k].status = Result(r)
      PROVE  /\ rows'[k].status = "delivered" => \E m \in reached' : m.key = k
             /\ rows'[k].status = "dead" => rows'[k].attempts >= MaxAttempts
    <2>1. PICK item \in Items : pass[r].item = {item}
        BY <1>3 DEF Record, CarriedInv, Carried
    <2>2. Item(r) = item /\ item.key = k /\ item.attempts \in Nat
        BY <1>3, <2>1, ItemIsTheOne DEF Items
    <2>3. /\ item.attempts + 1 <= rows[k].attempts
          /\ pass[r].ok => \E m \in reached : m.key = k
        BY <1>3, <2>1, <2>2 DEF Record, CarriedInv, Carried
    <2>4. Result(r) = "delivered" => pass[r].ok
        BY DEF Result
    <2>5. Result(r) = "dead" => item.attempts + 1 >= MaxAttempts
        BY <2>2 DEF Result, LastAttempt
    <2> QED BY <1>1, <1>3, <2>2, <2>3, <2>4, <2>5 DEF RowKept
<1> QED BY <1>1, <1>2, <1>3 DEF RowKept

LEMMA OutboxInvariant == OutboxSpec => []OutboxInv
<1>1. OutboxInit => OutboxInv
    <2> SUFFICES ASSUME OutboxInit PROVE OutboxInv
        OBVIOUS
    <2>1. OutboxTypeOK
        BY NoPassType, NoRowType, OutboxAssumption DEF OutboxInit, OutboxTypeOK, Configs
    <2>2. CarriedInv
        BY NoPassType DEF OutboxInit, CarriedInv, Carried
    <2>3. UnmadeInv /\ SentToItsDestination /\ SettledForCause
        BY NoRowType DEF OutboxInit, UnmadeInv, SentToItsDestination, SettledForCause, DeliveredArrived,
                         DeadAfterAllAttempts, NoRow
    <2> QED BY <2>1, <2>2, <2>3 DEF OutboxInv
<1>2. OutboxInv /\ [OutboxNext]_outboxVars => OutboxInv'
    <2> SUFFICES ASSUME OutboxInv, [OutboxNext]_outboxVars PROVE OutboxInv'
        OBVIOUS
    <2>1. UnmadeInv'
        BY RowsKept DEF OutboxInv, UnmadeInv, RowKept
    <2> QED BY <2>1, TypeStep, CarriedStep, ReachedGrows, SettledStep DEF OutboxInv
<1> QED BY <1>1, <1>2, PTL DEF OutboxSpec

\* However settings, addresses and rows change between seeding, selecting, claiming and
\* sending on any number of replicas, a row's message goes only to the destination the row
\* was made for (the comparison with currentDestination in RunOnce).
THEOREM MessagesReachTheirDestination == OutboxSpec => []SentToItsDestination
<1>1. OutboxInv => SentToItsDestination
    BY DEF OutboxInv
<1> QED BY <1>1, OutboxInvariant, PTL

\* A row is delivered only if its message arrived and dead only after all its attempts,
\* although its lease may have passed to another replica, results are recorded by whoever
\* finds it being sent, and attempts are counted in stale copies (RunOnce, record).
THEOREM RowsSettleForCause == OutboxSpec => []SettledForCause
<1>1. OutboxInv => SettledForCause
    BY DEF OutboxInv
<1> QED BY <1>1, OutboxInvariant, PTL

-----------------------------------------------------------------------------
(***************************************************************************)
(* Proofs about SourceBreaker for any number of concurrent callers and any *)
(* threshold and durations.                                                *)
(***************************************************************************)

USE BreakerAssumption DEF SourceCallers, Outcomes, Answers, ServerFailures, LocalOutcomes, ServerStates, NoProbe

\* Types and a clean closed state are preserved together: what a late failure
\* adds to a closed breaker is bounded by the count a success left behind.
LEMMA BreakerStep == BreakerTypeOK /\ ClosedIsClean /\ [BreakerNext]_sourceVars => BreakerTypeOK' /\ ClosedIsClean'
  <1> SUFFICES ASSUME BreakerTypeOK, ClosedIsClean, [BreakerNext]_sourceVars
               PROVE  BreakerTypeOK' /\ ClosedIsClean'
    OBVIOUS
  <1> USE DEF BreakerTypeOK, ClosedIsClean
  <1>1. ASSUME NEW c \in SourceCallers, Allow(c) PROVE BreakerTypeOK' /\ ClosedIsClean'
    BY <1>1 DEF Allow
  <1>2. ASSUME NEW c \in SourceCallers, Abandon(c) PROVE BreakerTypeOK' /\ ClosedIsClean'
    BY <1>2 DEF Abandon, EndCall
  <1>3. ASSUME NEW c \in SourceCallers, NEW o \in Outcomes, Report(c, o)
        PROVE  BreakerTypeOK' /\ ClosedIsClean'
    <2>1. /\ calling' \subseteq SourceCallers
          /\ probes' \subseteq calling'
          /\ callAge' \in [SourceCallers -> 0..ProbeTimeout]
          /\ server' \in ServerStates
          /\ reported' \in Outcomes \cup {"none", "reset"}
      BY <1>3 DEF Report, EndCall
    <2>2. CASE Success
      BY <2>1, <2>2 DEF Success
    <2>3. CASE UNCHANGED breakerVars
      BY <2>1, <2>3 DEF breakerVars
    <2>4. ASSUME NEW r, CountFailure(r) PROVE BreakerTypeOK' /\ ClosedIsClean'
      BY <2>1, <2>4 DEF CountFailure
    <2>5. QED
      BY <1>3, <2>2, <2>3, <2>4 DEF Report, Failure
  <1>4. ASSUME ResetSourceHealth PROVE BreakerTypeOK' /\ ClosedIsClean'
    BY <1>4 DEF ResetSourceHealth, Success
  <1>5. ASSUME Tick PROVE BreakerTypeOK' /\ ClosedIsClean'
    BY <1>5 DEF Tick, Saturate
  <1>6. ASSUME ServerChanges PROVE BreakerTypeOK' /\ ClosedIsClean'
    BY <1>6 DEF ServerChanges
  <1>7. ASSUME UNCHANGED sourceVars PROVE BreakerTypeOK' /\ ClosedIsClean'
    BY <1>7 DEF sourceVars
  <1>8. QED
    BY <1>1, <1>2, <1>3, <1>4, <1>5, <1>6, <1>7 DEF BreakerNext

\* In every interleaving of callers, late reports and administrator resets a
\* closed breaker keeps nothing of an earlier outage.
THEOREM ClosedBreakerIsClean == BreakerSpec => [](BreakerTypeOK /\ ClosedIsClean)
  <1>1. BreakerInit => BreakerTypeOK /\ ClosedIsClean
    BY DEF BreakerInit, BreakerTypeOK, ClosedIsClean
  <1>2. QED
    BY <1>1, BreakerStep, PTL DEF BreakerSpec

\* Answers, cancelled requests, missing repositories, unsupported features and
\* sources without a connector are never counted and never prolong a pause, whoever
\* reports them, however late and in whichever state of the breaker.
THEOREM HarmlessOutcomesNeverCount == BreakerSpec => HarmlessIsNotCounted
  <1>1. BreakerTypeOK /\ [BreakerNext]_sourceVars =>
          [failures' > failures \/ retryWait' > retryWait => reported' \notin Harmless]_sourceVars
    <2> SUFFICES ASSUME BreakerTypeOK, BreakerNext, failures' > failures \/ retryWait' > retryWait
                 PROVE  reported' \notin Harmless
      BY DEF sourceVars
    <2>1. ~Success /\ ~UNCHANGED <<failures, retryWait>>
      BY DEF Success, BreakerTypeOK
    <2>2. ~Tick
      BY DEF Tick, BreakerTypeOK
    <2>3. PICK c \in SourceCallers, o \in Outcomes : Report(c, o)
      BY <2>1, <2>2 DEF BreakerNext, Allow, Abandon, ResetSourceHealth, ServerChanges
    <2>4. ReportedAs(c, o) \notin {"ok", "canceled", "notFound"}
      BY <2>1, <2>3 DEF Report, Failure, breakerVars
    <2>5. o \notin Harmless
      BY <2>4 DEF ReportedAs, reportRemote, outageOnly, sourceOutage, Harmless
    <2>6. QED
      BY <2>3, <2>5 DEF Report
  <1>2. QED
    BY <1>1, ClosedBreakerIsClean, PTL DEF BreakerSpec, HarmlessIsNotCounted

\* The breaker implements the Circuit its callers rely on: whatever order reports,
\* probes, resets and ticks come in, each moves it as a success, a failure, a
\* refused credential or the end of the cooldown would (Allow, Success, Failure).
THEOREM BreakerImplementsCircuit == BreakerSpec => BreakerIsACircuit
  <1>1. BreakerInit => BreakerPromise!Init
    BY DEF BreakerInit, BreakerPromise!Init, BreakerPhase
  <1>2. BreakerTypeOK /\ ClosedIsClean /\ [BreakerNext]_sourceVars => [BreakerPromise!Next]_<<failures, BreakerPhase>>
    <2> SUFFICES ASSUME BreakerTypeOK, ClosedIsClean, [BreakerNext]_sourceVars
                 PROVE  BreakerPromise!Next \/ UNCHANGED <<failures, BreakerPhase>>
      OBVIOUS
    <2> USE DEF BreakerTypeOK, ClosedIsClean, BreakerPhase
    <2>1. CASE UNCHANGED <<failures, breaker, retryWait>>
      BY <2>1
    <2>2. CASE Success
      BY <2>2 DEF Success, BreakerPromise!Next, BreakerPromise!Succeed
    <2>3. ASSUME NEW o, CountFailure(o) PROVE BreakerPromise!Next \/ UNCHANGED <<failures, BreakerPhase>>
      <3> DEFINE n == IF failures < Threshold THEN failures + 1 ELSE failures
      <3>1. CASE n >= Threshold \/ IsAuthFailure(o)
        <4>1. failures' = n /\ breaker' = "open" /\ retryWait' = OpenDuration
          BY <2>3, <3>1 DEF CountFailure
        <4>2. BreakerPhase' = "open"
          BY <4>1
        <4> QED BY <4>1, <4>2 DEF BreakerPromise!Next, BreakerPromise!Refuse, BreakerPromise!Counted
      <3>2. CASE ~(n >= Threshold \/ IsAuthFailure(o))
        <4>1. failures' = n /\ n < Threshold /\ UNCHANGED <<breaker, retryWait>>
          BY <2>3, <3>2 DEF CountFailure
        <4> QED BY <4>1 DEF BreakerPromise!Next, BreakerPromise!Fail, BreakerPromise!Counted
      <3> QED BY <3>1, <3>2
    <2>4. CASE Tick
      <3>1. failures' = failures /\ breaker' = breaker
        BY <2>4 DEF Tick
      <3>2. CASE breaker = "closed" \/ retryWait # 1
        BY <2>4, <3>1, <3>2 DEF Tick
      <3>3. CASE breaker = "open" /\ retryWait = 1
        BY <2>4, <3>1, <3>3 DEF Tick, BreakerPromise!Next, BreakerPromise!Cool
      <3> QED BY <3>2, <3>3
    <2>5. ASSUME NEW c \in SourceCallers, NEW o \in Outcomes, Report(c, o)
          PROVE  BreakerPromise!Next \/ UNCHANGED <<failures, BreakerPhase>>
      BY <2>5, <2>1, <2>2, <2>3 DEF Report, Failure, breakerVars
    <2> QED BY <2>1, <2>2, <2>4, <2>5 DEF BreakerNext, Allow, Abandon, ResetSourceHealth, ServerChanges, sourceVars
  <1> QED BY <1>1, <1>2, ClosedBreakerIsClean, PTL DEF BreakerSpec, BreakerIsACircuit, BreakerPromise!Spec
=============================================================================
