---------------------------- MODULE SourceBreaker ----------------------------
(***************************************************************************)
(* The circuit breaker of one source server (source.Breaker), shared inside *)
(* one process by the live search calls and by the index worker.           *)
(*                                                                         *)
(* Instants are kept relative to now: retryWait is retryAt - now, probeAge *)
(* is now - probeAt and callAge the time since a call was admitted, each   *)
(* saturating where the code stops telling values apart.  failures         *)
(* saturates at Threshold, the only number it is compared with.            *)
(***************************************************************************)
EXTENDS Integers, FiniteSets

CONSTANTS
    LiveSearches,   \* live search calls (search.Service.remoteSource)
    IndexWorkers,   \* index workers of the process (worker.RunOnce)
    Threshold,      \* consecutive failures before opening
    OpenDuration,   \* ticks an open breaker refuses before a probe
    ProbeTimeout    \* ticks an unreported probe blocks the next one

ASSUME BreakerAssumption ==
    /\ LiveSearches \cap IndexWorkers = {}
    /\ Threshold \in Nat \ {0}
    /\ OpenDuration \in Nat \ {0}
    /\ ProbeTimeout \in Nat \ {0}

NoProbe == -1

SourceCallers == LiveSearches \cup IndexWorkers

VARIABLES
    failures,    \* Breaker.failures
    breaker,     \* "open" when openedAt is set, "closed" otherwise
    retryWait,   \* retryAt - now, 0 once it has passed
    probeAge,    \* now - probeAt, NoProbe when Breaker.probing is false
    calling,     \* callers between Allow and the report of the outcome
    probes,      \* calling callers an open breaker admitted
    callAge,     \* per caller, time since it was admitted
    server,      \* "up", "down", or "unset": its setting or secret cannot be loaded
    reported     \* outcome of the latest report (history)

breakerVars == <<failures, breaker, retryWait, probeAge>>
sourceVars == <<failures, breaker, retryWait, probeAge,
                calling, probes, callAge, server, reported>>

(***************************************************************************)
(* Outcomes of one admitted call.                                          *)
(***************************************************************************)

\* Outcomes that carry the source server's answer ("rejected" is a status such as
\* 400 or 422) or its failure to answer.
Answers == {"ok", "notFound", "rejected"}
ServerFailures == {"unavailable", "unauthorized", "forbidden"}

\* "canceled" is the caller's context; "unconfigured" no connector or a disabled
\* repository row, "unsupported" a feature the adapter lacks, "setup" a setting,
\* secret or configuration that App.sourceAdapter could not use; "dependency" an
\* unreachable embedding endpoint, search projection or vault of an index run.
LocalOutcomes == {"canceled", "unconfigured", "unsupported", "setup"}
Outcomes == Answers \cup ServerFailures \cup LocalOutcomes \cup {"dependency"}

IsAuthFailure(o) == o \in {"unauthorized", "forbidden"}

\* worker.sourceOutage: 401, a cancelled context, a retryable status and a
\* deadline or connection error of whatever endpoint the run was talking to.
\* 403 and 404 are "the server's considered answer".
sourceOutage(o) == o \in {"unavailable", "unauthorized", "canceled", "dependency"}

\* search.reportRemote: everything but a missing repository, an unsupported
\* feature and an unconfigured source is passed on, so a rejected request and a
\* source that cannot be set up are counted as failures of the server.
reportRemote(o) == IF o \in {"notFound", "unsupported", "unconfigured"} THEN "ok" ELSE o

\* worker.outageOnly, applied by RunOnce before Report.
outageOnly(o) == IF sourceOutage(o) THEN o ELSE "ok"

ReportedAs(c, o) == IF c \in LiveSearches THEN reportRemote(o) ELSE outageOnly(o)

(***************************************************************************)
(* The breaker.                                                            *)
(***************************************************************************)

NoProbeExpiryAdmits == retryWait = 0 /\ probeAge = NoProbe

\* The half-open branch of Breaker.Allow: one probe at a time, unless the
\* outstanding one has expired.
ProbeAdmits == retryWait = 0 /\ (probeAge = NoProbe \/ probeAge >= ProbeTimeout)

\* Breaker.Allow for an admitted call; a refused one changes nothing.
Allow(c) ==
    /\ c \notin calling
    /\ calling' = calling \cup {c}
    /\ callAge' = [callAge EXCEPT ![c] = 0]
    /\ \/ /\ breaker = "closed"
          /\ UNCHANGED <<probeAge, probes>>
       \/ /\ breaker = "open"
          /\ ProbeAdmits
          /\ probeAge' = 0
          /\ probes' = probes \cup {c}
    /\ UNCHANGED <<failures, breaker, retryWait, server, reported>>

SuccessKeepsCount ==
    /\ breaker' = "closed"
    /\ retryWait' = 0
    /\ probeAge' = NoProbe
    /\ UNCHANGED failures

\* Breaker.Success, also Breaker.Reset.
Success ==
    /\ failures' = 0
    /\ breaker' = "closed"
    /\ retryWait' = 0
    /\ probeAge' = NoProbe

\* Breaker.Failure for a counted error: a refused credential opens at once.
CountFailure(o) ==
    LET n == IF failures < Threshold THEN failures + 1 ELSE failures
        opens == n >= Threshold \/ IsAuthFailure(o)
    IN  /\ probeAge' = NoProbe
        /\ failures' = n
        /\ breaker' = IF opens THEN "open" ELSE breaker
        /\ retryWait' = IF opens THEN OpenDuration ELSE retryWait

FailureCountsCancellation(o) == CountFailure(o)

\* Breaker.Failure.
Failure(o) ==
    \/ /\ o \in {"canceled", "notFound"}
       /\ UNCHANGED breakerVars
    \/ /\ o \notin {"canceled", "notFound"}
       /\ CountFailure(o)

\* An outcome is possible only while the server is in the matching state.
Possible(c, o) ==
    /\ o \in Answers => server = "up"
    /\ o \in ServerFailures => server = "down"
    /\ o = "setup" => server = "unset"
    /\ o = "unsupported" => c \in LiveSearches
    /\ o = "dependency" => c \in IndexWorkers

EndCall(c) ==
    /\ c \in calling
    /\ calling' = calling \ {c}
    /\ probes' = probes \ {c}
    /\ UNCHANGED <<callAge, server>>

\* App.Report, reached from search.reportRemote or from worker.RunOnce.
Report(c, o) ==
    /\ Possible(c, o)
    /\ EndCall(c)
    /\ reported' = o
    /\ \/ ReportedAs(c, o) = "ok" /\ Success
       \/ ReportedAs(c, o) # "ok" /\ Failure(ReportedAs(c, o))

\* A search caller loads an adapter and returns without making a call.
Abandon(c) ==
    /\ c \in LiveSearches
    /\ EndCall(c)
    /\ UNCHANGED <<failures, breaker, retryWait, probeAge, reported>>

\* App.resetSourceHealth: the administrator's "try again now".
ResetSourceHealth ==
    /\ Success
    /\ reported' = "reset"
    /\ UNCHANGED <<calling, probes, callAge, server>>

(***************************************************************************)
(* Environment: time and the source server.                                *)
(***************************************************************************)

ServerStates == {"up", "down", "unset"}

Saturate(n, bound) == IF n < bound THEN n + 1 ELSE bound

Tick ==
    /\ retryWait' = IF retryWait > 0 THEN retryWait - 1 ELSE 0
    /\ probeAge' = IF probeAge = NoProbe THEN NoProbe ELSE Saturate(probeAge, ProbeTimeout)
    /\ callAge' = [c \in SourceCallers |->
                    IF c \in calling THEN Saturate(callAge[c], ProbeTimeout) ELSE callAge[c]]
    /\ UNCHANGED <<failures, breaker, calling, probes, server, reported>>

ServerChanges ==
    /\ server' \in ServerStates \ {server}
    /\ UNCHANGED <<failures, breaker, retryWait, probeAge,
                   calling, probes, callAge, reported>>

BreakerInit ==
    /\ failures = 0
    /\ breaker = "closed"
    /\ retryWait = 0
    /\ probeAge = NoProbe
    /\ calling = {}
    /\ probes = {}
    /\ callAge = [c \in SourceCallers |-> 0]
    /\ server \in ServerStates
    /\ reported = "none"

BreakerNext ==
    \/ \E c \in SourceCallers : Allow(c) \/ Abandon(c)
    \/ \E c \in SourceCallers, o \in Outcomes : Report(c, o)
    \/ ResetSourceHealth
    \/ Tick
    \/ ServerChanges

BreakerSpec == BreakerInit /\ [][BreakerNext]_sourceVars

(***************************************************************************)
(* Fairness: time passes, callers keep coming (the worker polls its queue),*)
(* and a call that can be answered time and again is answered.  Nothing is *)
(* assumed of cancellations, abandoned probes or administrator resets.     *)
(***************************************************************************)
BreakerFairness ==
    /\ WF_sourceVars(Tick)
    /\ \A c \in SourceCallers : WF_sourceVars(Allow(c))
    /\ \A c \in SourceCallers : SF_sourceVars(Report(c, "ok"))

BreakerFairSpec == BreakerSpec /\ BreakerFairness

-----------------------------------------------------------------------------
(* Properties *)

\* Every variable has its type.
BreakerTypeOK ==
    /\ failures \in 0..Threshold
    /\ breaker \in {"open", "closed"}
    /\ retryWait \in 0..OpenDuration
    /\ probeAge \in NoProbe..ProbeTimeout
    /\ calling \subseteq SourceCallers
    /\ probes \subseteq calling
    /\ callAge \in [SourceCallers -> 0..ProbeTimeout]
    /\ server \in ServerStates
    /\ reported \in Outcomes \cup {"none", "reset"}

\* Whatever order late reports, probes and resets arrive in, a closed breaker
\* carries nothing of an earlier outage: no full failure count that would make
\* the next single failure open it, no running back-off and no outstanding
\* probe slot (Breaker.Success, Breaker.Failure).
ClosedIsClean ==
    breaker = "closed" => failures < Threshold /\ retryWait = 0 /\ probeAge = NoProbe

\* Outcomes that say nothing against the source server.
Harmless == {"ok", "notFound", "unsupported", "unconfigured", "canceled"}

\* No harmless outcome adds to the failures of a source or prolongs its pause,
\* whoever reports it, in time or late, with the breaker closed, open or probing
\* (Breaker.Failure: "a missing repository, a cancelled request" do not count,
\* "otherwise a scan over deleted repositories would disable a healthy source").
HarmlessIsNotCounted ==
    [][failures' > failures \/ retryWait' > retryWait => reported' \notin Harmless]_sourceVars

\* If the source stays up and usable from some moment on, the breaker never stays open for
\* good, even when probes are cancelled or abandoned without a report: it closes
\* again and again ("it closes again on its own", Breaker).
ClosesOnItsOwn == <>[](server = "up") => []<>(breaker = "closed")

\* The phase of the circuit: an open one has cooled down once retryAt has passed.
BreakerPhase == IF breaker = "closed" THEN "closed" ELSE IF retryWait > 0 THEN "open" ELSE "cooled"

\* What the callers of the breaker may rely on.
BreakerPromise == INSTANCE Circuit WITH Hard <- TRUE, count <- failures, state <- BreakerPhase

\* The breaker is a Circuit: late reports, overlapping probes, abandoned calls and
\* resets never move it otherwise than a success, a failure, a refused credential
\* or the passing of time would (Breaker.Allow, Success, Failure, Reset).
BreakerIsACircuit == BreakerPromise!Spec

(* What comments of the code promise and the code does not keep (README,   *)
(* section 6).                                                             *)

\* Breaker.Allow: "One probe at a time: a half-open breaker that lets a whole
\* fan-out through would hammer a server that is still down."
OneProbeAtATime ==
    Cardinality({c \in probes : callAge[c] < ProbeTimeout}) <= 1

\* worker.RunOnce: "Only outages count: a missing repository or a policy that
\* indexes nothing says nothing about the server." - so a run that never called
\* the source must not close the breaker either.
ClosesOnlyOnAnswer ==
    [][breaker = "open" /\ breaker' = "closed" => reported' \in Answers \cup {"reset"}]_sourceVars

\* worker.sourceOutage: "reports whether the failure is the source server being
\* unavailable" - so only the source server's failures open its breaker.  A failed
\* embedding endpoint opens it too, and so do, through search.reportRemote, a setting
\* or a secret that cannot be loaded and requests the server rejects.
OpensOnlyOnServerFailure ==
    [][breaker = "closed" /\ breaker' = "open" => reported' \in ServerFailures]_sourceVars
=============================================================================
