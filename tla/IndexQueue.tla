----------------------------- MODULE IndexQueue -----------------------------
(***************************************************************************)
(* The index job queue: rows of index_jobs claimed by one worker per       *)
(* replica, lease recovery, retry and outage accounting, administrator     *)
(* retry and retention.  What a run does to the index is in RefIndex; here *)
(* a run has an outcome.                                                   *)
(*                                                                         *)
(* Instants are kept relative to now: wait is next_run_at - now, age is    *)
(* now - started_at, outage is now - outage_since.  started_at is the      *)
(* lease token; a worker holds one claim at a time, so the token is named  *)
(* by the worker whose claim wrote it (startedBy).                         *)
(***************************************************************************)
EXTENDS Integers

CONSTANTS
    Jobs,            \* row ids of index_jobs
    Workers,         \* replicas, one index worker each
    NoWorker,        \* started_at IS NULL
    NoJob,           \* a worker without a claim
    MaxAttempts,     \* Worker.maxAttempts
    JobTimeout,      \* ticks a run may take (jobTimeout)
    Lease,           \* ticks before a running row is stale (JobLeaseDuration)
    RetryDelay,      \* ticks before a failed run is retried (the back-off)
    OutageDelay,     \* ticks before a run hit by an outage is retried
    PausedDelay,     \* ticks a job of a paused source waits
    OutageReported,  \* ticks of outage before somebody is told
    MaxEnqueues,     \* bound: rows inserted or requeued by an administrator
    MaxFaults        \* bound: shutdowns, crashes, stalls, lost writes

ASSUME QueueAssumption ==
    /\ NoWorker \notin Workers
    /\ NoJob \notin Jobs
    /\ MaxAttempts \in Nat \ {0}
    /\ JobTimeout \in Nat
    /\ Lease \in Nat
    /\ JobTimeout < Lease
    /\ RetryDelay \in Nat
    /\ OutageDelay \in Nat
    /\ PausedDelay \in Nat
    /\ OutageReported \in Nat
    /\ MaxEnqueues \in Nat
    /\ MaxFaults \in Nat

NoOutage == -1

VARIABLES
    (* index_jobs *)
    status,      \* "absent" is a row that does not exist
    wait,
    attempts,
    age,
    startedBy,
    outage,
    created,     \* created_at, as the order of insertion
    (* workers *)
    pc,          \* where the worker's loop is
    claimed,     \* the job of the current claim
    tried,       \* the claim's copy of attempts (job.Attempts)
    elapsed,     \* time since the claim
    late,        \* the run overstayed its deadline (a stalled process)
    outcome,     \* outcome of execute
    paused,      \* the replica's breaker refuses the source
    (* environment *)
    up,          \* the servers that serve their requests
    enqueued,    \* rows inserted or requeued so far
    faults,      \* shutdowns, crashes, stalls, lost writes so far
    (* history *)
    charged,     \* claims of this row that spent its retry budget
    told         \* notification types raised for this row

rowVars == <<status, wait, attempts, age, startedBy, outage, created>>
workerVars == <<pc, claimed, tried, elapsed, late, outcome>>
envVars == <<up, enqueued, faults>>
vars == <<status, wait, attempts, age, startedBy, outage, created,
          pc, claimed, tried, elapsed, late, outcome, paused,
          up, enqueued, faults, charged, told>>

Status == {"absent", "pending", "running", "completed", "failed"}
Places == {"idle", "gate", "exec", "finish", "notify", "down"}
Running == {"gate", "exec", "finish"}      \* places where a claim is held
\* What a run depends on: the source, whose breaker live searches share, and the
\* endpoints of the run alone (embedding, OpenSearch, vector database, vault).
Servers == {"source", "endpoints"}
Outcomes == {"none", "ok", "error", "outage", "canceled"}

\* sourceOutage: a deadline, a lost connection or a retryable status of whatever
\* server the run was talking to, and a cancelled context.
sourceOutage(o) == o \in {"outage", "canceled"}

\* RunOnce returns, or the process dies: the claim in memory is gone.
Release(w, place) ==
    /\ pc' = [pc EXCEPT ![w] = place]
    /\ claimed' = [claimed EXCEPT ![w] = NoJob]
    /\ tried' = [tried EXCEPT ![w] = 0]
    /\ elapsed' = [elapsed EXCEPT ![w] = 0]
    /\ late' = [late EXCEPT ![w] = FALSE]
    /\ outcome' = [outcome EXCEPT ![w] = "none"]

Fault == faults < MaxFaults /\ faults' = faults + 1

(***************************************************************************)
(* Producers and housekeeping.                                             *)
(***************************************************************************)

\* App.enqueueIndex, webhook.Service.Enqueue and Scheduler.RunOnce all insert a
\* pending row that is due at once.
Enqueue(j) ==
    /\ status[j] = "absent"
    /\ enqueued < MaxEnqueues
    /\ enqueued' = enqueued + 1
    /\ status' = [status EXCEPT ![j] = "pending"]
    /\ wait' = [wait EXCEPT ![j] = 0]
    /\ attempts' = [attempts EXCEPT ![j] = 0]
    /\ startedBy' = [startedBy EXCEPT ![j] = NoWorker]
    /\ outage' = [outage EXCEPT ![j] = NoOutage]
    /\ created' = [created EXCEPT ![j] = enqueued]
    /\ charged' = [charged EXCEPT ![j] = 0]
    /\ told' = [told EXCEPT ![j] = {}]
    /\ UNCHANGED <<age, workerVars, paused, up, faults>>

\* App.retryIndexJob.
RetryIndexJob(j) ==
    /\ status[j] = "failed"
    /\ enqueued < MaxEnqueues
    /\ enqueued' = enqueued + 1
    /\ status' = [status EXCEPT ![j] = "pending"]
    /\ wait' = [wait EXCEPT ![j] = 0]
    /\ attempts' = [attempts EXCEPT ![j] = 0]
    /\ charged' = [charged EXCEPT ![j] = 0]
    /\ UNCHANGED <<age, startedBy, outage, created, workerVars, paused, up, faults, told>>

\* Scheduler.applyRetention on index_jobs.
ApplyRetention(j) ==
    /\ status[j] \in {"completed", "failed"}
    /\ status' = [status EXCEPT ![j] = "absent"]
    /\ UNCHANGED <<wait, attempts, age, startedBy, outage, created, workerVars,
                   paused, envVars, charged, told>>

StaleAtTimeout(j) == status[j] = "running" /\ age[j] >= JobTimeout
NeverStale(j) == FALSE
Stale(j) == status[j] = "running" /\ age[j] > Lease

\* Worker.RecoverStaleJobs and the same statement in Scheduler.RunOnce: every
\* running row whose lease ran out goes back to pending, attempts preserved.
RecoverStaleJobs(w) ==
    /\ pc[w] # "down"
    /\ \E j \in Jobs : Stale(j)
    /\ status' = [j \in Jobs |-> IF Stale(j) THEN "pending" ELSE status[j]]
    /\ wait' = [j \in Jobs |-> IF Stale(j) THEN 0 ELSE wait[j]]
    /\ age' = [j \in Jobs |-> IF Stale(j) THEN 0 ELSE age[j]]
    /\ charged' = [j \in Jobs |-> IF Stale(j) THEN charged[j] + 1 ELSE charged[j]]
    /\ UNCHANGED <<attempts, startedBy, outage, created, workerVars, paused,
                   envVars, told>>

(***************************************************************************)
(* One pass of Worker.RunOnce.                                             *)
(***************************************************************************)

Due(j) == status[j] = "pending" /\ wait[j] = 0

\* Worker.claim: the oldest due row, taken in one transaction.
Claim(w, j) ==
    /\ pc[w] = "idle"
    /\ Due(j)
    /\ \A k \in Jobs : Due(k) => created[j] <= created[k]
    /\ status' = [status EXCEPT ![j] = "running"]
    /\ attempts' = [attempts EXCEPT ![j] = @ + 1]
    /\ age' = [age EXCEPT ![j] = 0]
    /\ startedBy' = [startedBy EXCEPT ![j] = w]
    /\ pc' = [pc EXCEPT ![w] = "gate"]
    /\ claimed' = [claimed EXCEPT ![w] = j]
    /\ tried' = [tried EXCEPT ![w] = attempts[j] + 1]
    /\ UNCHANGED <<elapsed, late, outcome, wait, outage, created, paused, envVars, charged, told>>

OwnsStatusOnly(w) == status[claimed[w]] = "running"

\* The condition of every state transition and publish of a claim:
\* WHERE id=? AND status='running' AND started_at=?
Owns(w) == status[claimed[w]] = "running" /\ startedBy[claimed[w]] = w

Refunded(w) == IF tried[w] > 0 THEN tried[w] - 1 ELSE 0

\* Worker.requeuePaused: the source's breaker refuses; the attempt is returned.
RequeuePaused(w) ==
    /\ pc[w] = "gate"
    /\ paused[w]
    /\ Release(w, "idle")
    /\ IF Owns(w)
       THEN /\ status' = [status EXCEPT ![claimed[w]] = "pending"]
            /\ attempts' = [attempts EXCEPT ![claimed[w]] = Refunded(w)]
            /\ wait' = [wait EXCEPT ![claimed[w]] = PausedDelay]
            /\ age' = [age EXCEPT ![claimed[w]] = 0]
       ELSE UNCHANGED <<status, attempts, wait, age>>
    /\ UNCHANGED <<startedBy, outage, created, paused, envVars, charged, told>>

\* The gate lets the claim through to execute.
Start(w) ==
    /\ pc[w] = "gate"
    /\ ~paused[w]
    /\ pc' = [pc EXCEPT ![w] = "exec"]
    /\ UNCHANGED <<rowVars, claimed, tried, elapsed, late, outcome, paused, envVars,
                   charged, told>>

\* Worker.execute returns; RunOnce reports the outcome to the breaker, which may
\* now refuse (see SourceBreaker).  A request may fail at any time, and the deadline
\* is an outage too.
Execute(w, o) ==
    /\ pc[w] = "exec"
    /\ o \in {"ok", "error", "outage"}
    /\ o = "ok" => "source" \in up
    /\ pc' = [pc EXCEPT ![w] = "finish"]
    /\ outcome' = [outcome EXCEPT ![w] = o]
    /\ \E p \in (IF o = "outage" THEN {paused[w], TRUE} ELSE {FALSE}) :
          paused' = [paused EXCEPT ![w] = p]
    /\ UNCHANGED <<rowVars, claimed, tried, elapsed, late, envVars, charged, told>>

\* A graceful shutdown cancels the worker's context: the run returns
\* context.Canceled and its outcome is still recorded, on a detached context.
Shutdown(w) ==
    /\ pc[w] \in {"gate", "exec"}
    /\ Fault
    /\ pc' = [pc EXCEPT ![w] = "finish"]
    /\ outcome' = [outcome EXCEPT ![w] = "canceled"]
    /\ UNCHANGED <<rowVars, claimed, tried, elapsed, late, paused, up, enqueued,
                   charged, told>>

\* RunOnce, err == nil.
Complete(w) ==
    /\ pc[w] = "finish"
    /\ outcome[w] = "ok"
    /\ Release(w, "idle")
    /\ IF Owns(w)
       THEN /\ status' = [status EXCEPT ![claimed[w]] = "completed"]
            /\ outage' = [outage EXCEPT ![claimed[w]] = NoOutage]
            /\ age' = [age EXCEPT ![claimed[w]] = 0]
       ELSE UNCHANGED <<status, outage, age>>
    /\ UNCHANGED <<wait, attempts, startedBy, created, paused, envVars, charged, told>>

\* The retry budget: an outage never exhausts it.
Fails(w) == ~sourceOutage(outcome[w]) /\ tried[w] >= MaxAttempts

ChargesOutage(w) == tried[w]

AttemptsAfter(w) == IF sourceOutage(outcome[w]) THEN Refunded(w) ELSE tried[w]

\* next_run_at of a requeued job, from the moment its run ended.
DelayAfter(w) == CASE outcome[w] = "canceled" -> 0
                   [] outcome[w] = "outage" -> OutageDelay
                   [] OTHER -> RetryDelay

ForgetsOutageStart(w) == IF sourceOutage(outcome[w]) THEN 0 ELSE NoOutage

\* COALESCE(outage_since, now) while the outage lasts, NULL otherwise.
OutageAfter(w) ==
    IF sourceOutage(outcome[w])
    THEN IF outage[claimed[w]] = NoOutage THEN 0 ELSE outage[claimed[w]]
    ELSE NoOutage

\* RunOnce, err # nil: the row is requeued or failed under the lease guard.
RecordError(w) ==
    /\ pc[w] = "finish"
    /\ outcome[w] # "ok"
    /\ LET j == claimed[w] IN
       IF Owns(w)
       THEN /\ status' = [status EXCEPT ![j] = IF Fails(w) THEN "failed" ELSE "pending"]
            /\ attempts' = [attempts EXCEPT ![j] = AttemptsAfter(w)]
            /\ wait' = [wait EXCEPT ![j] = DelayAfter(w)]
            /\ age' = [age EXCEPT ![j] = 0]
            /\ outage' = [outage EXCEPT ![j] = OutageAfter(w)]
            /\ charged' = [charged EXCEPT ![j] =
                              IF sourceOutage(outcome[w]) THEN @ ELSE @ + 1]
            /\ \/ /\ Fails(w) \/ sourceOutage(outcome[w])
                  /\ pc' = [pc EXCEPT ![w] = "notify"]
                  /\ UNCHANGED <<claimed, tried, elapsed, late, outcome>>
               \/ /\ ~Fails(w) /\ ~sourceOutage(outcome[w])
                  /\ Release(w, "idle")
       ELSE /\ Release(w, "idle")
            /\ UNCHANGED <<status, attempts, wait, age, outage, charged>>
    /\ UNCHANGED <<startedBy, created, paused, envVars, told>>

\* notifyFailure and notifyPersistentOutage: after the row was written, without
\* the lease, on whatever outage_since the row has by then.
Notify(w) ==
    /\ pc[w] = "notify"
    /\ Release(w, "idle")
    /\ LET j == claimed[w] IN
       told' = [told EXCEPT ![j] = @ \cup
                  {t \in {"index_job_failed"} : outcome[w] = "error"} \cup
                  {t \in {"index_source_outage"} :
                       outcome[w] # "error" /\ outage[j] >= OutageReported}]
    /\ UNCHANGED <<rowVars, paused, envVars, charged>>

(***************************************************************************)
(* Faults and the environment.                                             *)
(***************************************************************************)

\* A database error loses the transition of a claim: RunOnce returns and the
\* row stays running until its lease expires.  The requeue of a paused job
\* during a shutdown ends the same way, and an error of the notification is dropped.
LoseWrite(w) ==
    /\ pc[w] \in {"gate", "finish", "notify"}
    /\ Fault
    /\ Release(w, "idle")
    /\ UNCHANGED <<rowVars, paused, up, enqueued, charged, told>>

\* The process is suspended: its run may outlive its deadline and its lease.
Stall(w) ==
    /\ pc[w] \in Running
    /\ ~late[w]
    /\ Fault
    /\ late' = [late EXCEPT ![w] = TRUE]
    /\ UNCHANGED <<rowVars, pc, claimed, tried, elapsed, outcome, paused, up, enqueued,
                   charged, told>>

Crash(w) ==
    /\ pc[w] # "down"
    /\ Fault
    /\ Release(w, "down")
    /\ UNCHANGED <<rowVars, paused, up, enqueued, charged, told>>

\* A restarted replica has a new, closed breaker.
Restart(w) ==
    /\ pc[w] = "down"
    /\ pc' = [pc EXCEPT ![w] = "idle"]
    /\ paused' = [paused EXCEPT ![w] = FALSE]
    /\ UNCHANGED <<rowVars, claimed, tried, elapsed, late, outcome, envVars, charged, told>>

\* The breaker's window passes (SourceBreaker): the next claim probes.
BreakerWindowPasses(w) ==
    /\ paused[w]
    /\ paused' = [paused EXCEPT ![w] = FALSE]
    /\ UNCHANGED <<rowVars, workerVars, envVars, charged, told>>

\* A live search of the replica reports a failed call to the breaker it shares with
\* the worker (search.reportRemote), which refuses again.
SearchFails(w) ==
    /\ pc[w] # "down"
    /\ "source" \notin up
    /\ ~paused[w]
    /\ paused' = [paused EXCEPT ![w] = TRUE]
    /\ UNCHANGED <<rowVars, workerVars, envVars, charged, told>>

ServersChange ==
    /\ up' \in SUBSET Servers \ {up}
    /\ UNCHANGED <<rowVars, workerVars, paused, enqueued, faults, charged, told>>

\* A run that is not stalled ends at its deadline, and its database steps take
\* less than one tick.
OnTime(w) ==
    late[w] \/ pc[w] \in {"idle", "down"}
            \/ (pc[w] = "exec" /\ elapsed[w] < JobTimeout)

AtMost(n, bound) == IF n < bound THEN n ELSE bound

Tick ==
    /\ \A w \in Workers : OnTime(w)
    /\ wait' = [j \in Jobs |-> IF wait[j] > 0 THEN wait[j] - 1 ELSE 0]
    /\ age' = [j \in Jobs |-> IF status[j] = "running"
                              THEN AtMost(age[j] + 1, Lease + 1) ELSE age[j]]
    /\ outage' = [j \in Jobs |-> IF outage[j] = NoOutage THEN NoOutage
                                 ELSE AtMost(outage[j] + 1, OutageReported)]
    /\ elapsed' = [w \in Workers |-> IF pc[w] \in Running
                                     THEN AtMost(elapsed[w] + 1, Lease + 1)
                                     ELSE elapsed[w]]
    /\ UNCHANGED <<status, attempts, startedBy, created, pc, claimed, tried, late,
                   outcome, paused, envVars, charged, told>>

Init ==
    /\ status = [j \in Jobs |-> "absent"]
    /\ wait = [j \in Jobs |-> 0]
    /\ attempts = [j \in Jobs |-> 0]
    /\ age = [j \in Jobs |-> 0]
    /\ startedBy = [j \in Jobs |-> NoWorker]
    /\ outage = [j \in Jobs |-> NoOutage]
    /\ created = [j \in Jobs |-> 0]
    /\ pc = [w \in Workers |-> "idle"]
    /\ claimed = [w \in Workers |-> NoJob]
    /\ tried = [w \in Workers |-> 0]
    /\ elapsed = [w \in Workers |-> 0]
    /\ late = [w \in Workers |-> FALSE]
    /\ outcome = [w \in Workers |-> "none"]
    /\ paused = [w \in Workers |-> FALSE]
    /\ up = Servers
    /\ enqueued = 0
    /\ faults = 0
    /\ charged = [j \in Jobs |-> 0]
    /\ told = [j \in Jobs |-> {}]

RunOnce(w) ==
    \/ \E j \in Jobs : Claim(w, j)
    \/ RequeuePaused(w)
    \/ Start(w)
    \/ \E o \in Outcomes : Execute(w, o)
    \/ Complete(w)
    \/ RecordError(w)
    \/ Notify(w)

Next ==
    \/ \E j \in Jobs : Enqueue(j) \/ RetryIndexJob(j) \/ ApplyRetention(j)
    \/ \E w \in Workers : \/ RecoverStaleJobs(w)
                          \/ RunOnce(w)
                          \/ Shutdown(w)
                          \/ LoseWrite(w)
                          \/ Stall(w)
                          \/ Crash(w)
                          \/ Restart(w)
                          \/ BreakerWindowPasses(w)
                          \/ SearchFails(w)
    \/ ServersChange
    \/ Tick

Spec == Init /\ [][Next]_vars

(***************************************************************************)
(* Fairness: time diverges, every replica's loops keep running, a crashed  *)
(* replica is restarted and the breaker's window passes.  An idle worker   *)
(* polls more often than any retry delay, so a row that is time and again  *)
(* the oldest due one is claimed; a run started time and again while every *)
(* server serves its requests ends by itself at least once.  Nothing is    *)
(* assumed of searches: they may reopen the breaker after every window.    *)
(***************************************************************************)
Settle(w, j) ==
    /\ claimed[w] = j
    /\ up = Servers
    /\ Execute(w, "ok") \/ Execute(w, "error")

Fairness ==
    /\ SF_vars(Tick)
    /\ \A w \in Workers : /\ WF_vars(RecoverStaleJobs(w))
                          /\ WF_vars(RunOnce(w))
                          /\ WF_vars(Restart(w))
                          /\ WF_vars(BreakerWindowPasses(w))
                          /\ \A j \in Jobs : SF_vars(Claim(w, j)) /\ SF_vars(Settle(w, j))

FairSpec == Spec /\ Fairness

-----------------------------------------------------------------------------
(* Properties *)

\* Every variable has its type.
TypeOK ==
    /\ status \in [Jobs -> Status]
    /\ wait \in [Jobs -> Nat]
    /\ attempts \in [Jobs -> Nat]
    /\ age \in [Jobs -> 0..(Lease + 1)]
    /\ startedBy \in [Jobs -> Workers \cup {NoWorker}]
    /\ outage \in [Jobs -> Nat \cup {NoOutage}]
    /\ created \in [Jobs -> Nat]
    /\ pc \in [Workers -> Places]
    /\ claimed \in [Workers -> Jobs \cup {NoJob}]
    /\ tried \in [Workers -> Nat]
    /\ elapsed \in [Workers -> 0..(Lease + 1)]
    /\ late \in [Workers -> BOOLEAN]
    /\ outcome \in [Workers -> Outcomes]
    /\ paused \in [Workers -> BOOLEAN]
    /\ up \subseteq Servers
    /\ enqueued \in 0..MaxEnqueues
    /\ faults \in 0..MaxFaults
    /\ charged \in [Jobs -> Nat]
    /\ told \in [Jobs -> SUBSET {"index_job_failed", "index_source_outage"}]

\* A run that keeps its deadline keeps its lease: however many replicas recover
\* stale rows, none takes a job from a worker that is still healthy
\* (JobLeaseDuration: "a shorter lease lets a second worker claim a healthy
\* long-running job while the first worker is still writing its result").
HealthyRunOwnsItsJob ==
    \A w \in Workers : pc[w] \in Running /\ ~late[w] => Owns(w)

\* The retry budget is spent by genuine errors and by leases that ran out, and
\* by nothing else: outages, shutdowns and pauses return the attempt, whatever
\* late workers try to write (RunOnce, requeuePaused, RecoverStaleJobs).
BudgetAccounting ==
    \A j \in Jobs :
        /\ status[j] = "pending" => attempts[j] = charged[j]
        /\ status[j] = "running" => attempts[j] = charged[j] + 1
        /\ status[j] = "failed" => charged[j] >= MaxAttempts

\* What the two invariants above need to be inductive: a run that keeps its
\* deadline has seen exactly the age of its lease, the lease holder's copy of
\* attempts is the row's, and a worker without a claim has nothing left of one.
RunState ==
    \A w \in Workers :
        /\ pc[w] \in Running \cup {"notify"} => claimed[w] \in Jobs
        /\ pc[w] \in {"idle", "down"} => elapsed[w] = 0 /\ ~late[w]
        /\ pc[w] \in Running /\ ~late[w] =>
              elapsed[w] <= JobTimeout /\ age[claimed[w]] = elapsed[w]
        /\ pc[w] \in Running /\ Owns(w) => tried[w] = attempts[claimed[w]]

\* The inductive invariant of IndexQueueProofs.
IndInv == TypeOK /\ RunState /\ HealthyRunOwnsItsJob /\ BudgetAccounting

\* A row becomes completed or failed only from running, and only by the worker
\* holding its current lease, with the outcome that worker's run had: a late
\* worker never settles a job another one is running (the guarded UPDATEs of
\* RunOnce and requireOwnedLease).
SettledByLeaseHolder ==
    [][\A j \in Jobs :
          status'[j] \in {"completed", "failed"} /\ status'[j] # status[j] =>
              /\ status[j] = "running"
              /\ \E w \in Workers :
                    /\ startedBy[j] = w
                    /\ claimed[w] = j
                    /\ pc[w] = "finish"
                    /\ status'[j] = IF outcome[w] = "ok" THEN "completed" ELSE "failed"
                    /\ ~sourceOutage(outcome[w])]_vars

\* Once the source and the endpoints of a run serve every request, each queued job is
\* settled: no crash, lost write, stall, shutdown or pause strands it, and no outage
\* before that moment has used up what it needs (RecoverStaleJobs, RunOnce).
EveryJobSettles ==
    <>[](up = Servers) => \A j \in Jobs : (status[j] \in {"pending", "running"}) ~>
                                            (status[j] \in {"completed", "failed", "absent"})

OutageTold(j) == "index_source_outage" \in told[j]
Settled(j) == status[j] \in {"completed", "failed", "absent"}
IsTried(j) == \E w \in Workers : claimed[w] = j /\ pc[w] = "exec"

\* No job is tried for ever in silence: whichever server keeps failing it, and
\* whatever errors, shutdowns and crashes come in between, the operators hear of it
\* (notifyPersistentOutage; before migration 051 it was retried forever and "never
\* notified anybody").
RetriedJobIsReported == \A j \in Jobs : []<>IsTried(j) => <>OutageTold(j)

\* RunOnce: "once it has lasted long enough somebody is told" - which the code does
\* not keep: searches that reopen the breaker they share with the worker send the job
\* through requeuePaused, which tells nobody (README, section 6).
LongOutageIsReported ==
    <>[]("source" \notin up) =>
        \A j \in Jobs : ~Settled(j) ~> (Settled(j) \/ \E k \in Jobs : OutageTold(k))
=============================================================================
