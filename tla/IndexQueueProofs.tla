-------------------------- MODULE IndexQueueProofs --------------------------
(***************************************************************************)
(* Proofs about IndexQueue for any number of rows and replicas and any     *)
(* timeouts with JobTimeout < Lease.                                       *)
(***************************************************************************)
EXTENDS IndexQueue, TLAPS

USE QueueAssumption DEF NoOutage, Status, Places, Running, Outcomes

\* The initial state satisfies the inductive invariant.
LEMMA InitIndInv == Init => IndInv
  BY DEF Init, IndInv, TypeOK, RunState, HealthyRunOwnsItsJob, BudgetAccounting, Owns

\* No step of the queue breaks the types.
LEMMA NextTypeOK == TypeOK /\ RunState /\ [Next]_vars => TypeOK'
  <1> SUFFICES ASSUME TypeOK, RunState, [Next]_vars PROVE TypeOK'
    OBVIOUS
  <1> USE DEF TypeOK
  <1>1. ASSUME NEW j \in Jobs, Enqueue(j) PROVE TypeOK'
    BY <1>1 DEF Enqueue, workerVars
  <1>2. ASSUME NEW j \in Jobs, RetryIndexJob(j) PROVE TypeOK'
    BY <1>2 DEF RetryIndexJob, workerVars
  <1>3. ASSUME NEW j \in Jobs, ApplyRetention(j) PROVE TypeOK'
    BY <1>3 DEF ApplyRetention, workerVars, envVars
  <1>4. ASSUME NEW w \in Workers, RecoverStaleJobs(w) PROVE TypeOK'
    BY <1>4 DEF RecoverStaleJobs, workerVars, envVars
  <1>5. ASSUME NEW w \in Workers, NEW j \in Jobs, Claim(w, j) PROVE TypeOK'
    BY <1>5 DEF Claim, envVars
  <1>6. ASSUME NEW w \in Workers, RequeuePaused(w) PROVE TypeOK'
    <2>1. Refunded(w) \in Nat
      BY DEF Refunded
    <2>2. QED
      BY <1>6, <2>1, SMTT(20) DEF RequeuePaused, Release, envVars
  <1>7. ASSUME NEW w \in Workers, Start(w) PROVE TypeOK'
    BY <1>7 DEF Start, rowVars, envVars
  <1>8. ASSUME NEW w \in Workers, NEW o \in Outcomes, Execute(w, o) PROVE TypeOK'
    <2>1. PICK p \in BOOLEAN : paused' = [paused EXCEPT ![w] = p]
      BY <1>8 DEF Execute
    <2>2. QED
      BY <1>8, <2>1 DEF Execute, rowVars, envVars
  <1>9. ASSUME NEW w \in Workers, Shutdown(w) PROVE TypeOK'
    BY <1>9 DEF Shutdown, Fault, rowVars
  <1>10. ASSUME NEW w \in Workers, Complete(w) PROVE TypeOK'
    BY <1>10 DEF Complete, Release, envVars
  <1>11. ASSUME NEW w \in Workers, RecordError(w) PROVE TypeOK'
    <2>1. AttemptsAfter(w) \in Nat /\ DelayAfter(w) \in Nat
      BY DEF AttemptsAfter, Refunded, DelayAfter
    <2>2. claimed[w] \in Jobs
      BY <1>11 DEF RecordError, RunState
    <2>3. OutageAfter(w) \in Nat \cup {NoOutage}
      BY <2>2 DEF OutageAfter
    <2>4. /\ status' \in [Jobs -> Status]
          /\ attempts' \in [Jobs -> Nat]
          /\ wait' \in [Jobs -> Nat]
          /\ age' \in [Jobs -> 0..(Lease + 1)]
          /\ outage' \in [Jobs -> Nat \cup {NoOutage}]
          /\ charged' \in [Jobs -> Nat]
      <3> DEFINE j == claimed[w]
      <3>1. CASE UNCHANGED <<status, attempts, wait, age, outage, charged>>
        BY <3>1
      <3>2. CASE Owns(w)
        <4>1. status' = [status EXCEPT ![j] = IF Fails(w) THEN "failed" ELSE "pending"]
          BY <1>11, <3>2 DEF RecordError
        <4>2. attempts' = [attempts EXCEPT ![j] = AttemptsAfter(w)]
          BY <1>11, <3>2 DEF RecordError
        <4>3. wait' = [wait EXCEPT ![j] = DelayAfter(w)]
          BY <1>11, <3>2 DEF RecordError
        <4>4. age' = [age EXCEPT ![j] = 0]
          BY <1>11, <3>2 DEF RecordError
        <4>5. outage' = [outage EXCEPT ![j] = OutageAfter(w)]
          BY <1>11, <3>2 DEF RecordError
        <4>6. charged' = [charged EXCEPT ![j] = IF sourceOutage(outcome[w]) THEN @ ELSE @ + 1]
          BY <1>11, <3>2 DEF RecordError
        <4>7. status' \in [Jobs -> Status]
          BY <4>1
        <4>8. 0 \in 0..(Lease + 1)
          OBVIOUS
        <4>9. age' \in [Jobs -> 0..(Lease + 1)]
          BY <4>4, <4>8
        <4>10. attempts' \in [Jobs -> Nat] /\ wait' \in [Jobs -> Nat]
          BY <4>2, <4>3, <2>1
        <4>11. outage' \in [Jobs -> Nat \cup {NoOutage}]
          BY <4>5, <2>3
        <4>12. charged' \in [Jobs -> Nat]
          BY <4>6, <2>2
        <4> QED BY <4>7, <4>9, <4>10, <4>11, <4>12
      <3> QED BY <1>11, <3>1, <3>2 DEF RecordError
    <2>5. /\ pc' \in [Workers -> Places]
          /\ claimed' \in [Workers -> Jobs \cup {NoJob}]
          /\ tried' \in [Workers -> Nat]
          /\ elapsed' \in [Workers -> 0..(Lease + 1)]
          /\ late' \in [Workers -> BOOLEAN]
          /\ outcome' \in [Workers -> Outcomes]
      <3>1. CASE UNCHANGED <<claimed, tried, elapsed, late, outcome>>
                 /\ pc' = [pc EXCEPT ![w] = "notify"]
        BY <3>1
      <3>2. CASE Release(w, "idle")
        BY <3>2 DEF Release
      <3>3. QED
        BY <1>11, <3>1, <3>2 DEF RecordError
    <2>6. QED
      BY <1>11, <2>4, <2>5 DEF RecordError, envVars
  <1>12. ASSUME NEW w \in Workers, Notify(w) PROVE TypeOK'
    <2>1. told' \in [Jobs -> SUBSET {"index_job_failed", "index_source_outage"}]
      BY <1>12 DEF Notify
    <2>2. Release(w, "idle") /\ UNCHANGED <<rowVars, paused, envVars, charged>>
      BY <1>12 DEF Notify
    <2>3. QED
      BY <2>1, <2>2 DEF Release, rowVars, envVars
  <1>13. ASSUME NEW w \in Workers, LoseWrite(w) PROVE TypeOK'
    BY <1>13 DEF LoseWrite, Release, Fault, rowVars
  <1>14. ASSUME NEW w \in Workers, Stall(w) PROVE TypeOK'
    BY <1>14 DEF Stall, Fault, rowVars
  <1>15. ASSUME NEW w \in Workers, Crash(w) PROVE TypeOK'
    BY <1>15 DEF Crash, Release, Fault, rowVars
  <1>16. ASSUME NEW w \in Workers, Restart(w) PROVE TypeOK'
    BY <1>16 DEF Restart, rowVars, envVars
  <1>17. ASSUME NEW w \in Workers, BreakerWindowPasses(w) PROVE TypeOK'
    BY <1>17 DEF BreakerWindowPasses, rowVars, workerVars, envVars
  <1>17a. ASSUME NEW w \in Workers, SearchFails(w) PROVE TypeOK'
    BY <1>17a DEF SearchFails, rowVars, workerVars, envVars
  <1>18. ASSUME ServersChange PROVE TypeOK'
    BY <1>18 DEF ServersChange, rowVars, workerVars
  <1>19. ASSUME Tick PROVE TypeOK'
    BY <1>19 DEF Tick, AtMost, envVars
  <1>20. ASSUME UNCHANGED vars PROVE TypeOK'
    BY <1>20 DEF vars
  <1>21. QED
    BY SMTT(20), <1>1, <1>2, <1>3, <1>4, <1>5, <1>6, <1>7, <1>8, <1>9, <1>10, <1>11, <1>12,
       <1>13, <1>14, <1>15, <1>16, <1>17, <1>17a, <1>18, <1>19, <1>20 DEF Next, RunOnce

\* A step keeps the claims in memory consistent with the rows they are claims of.
LEMMA NextRunState == IndInv /\ TypeOK' /\ [Next]_vars => RunState'
  <1> SUFFICES ASSUME IndInv, TypeOK', [Next]_vars PROVE RunState'
    OBVIOUS
  <1> USE DEF IndInv, TypeOK, RunState, HealthyRunOwnsItsJob, Owns
  <1>1. ASSUME NEW j \in Jobs, Enqueue(j) PROVE RunState'
    BY <1>1 DEF Enqueue, workerVars
  <1>2. ASSUME NEW j \in Jobs, RetryIndexJob(j) PROVE RunState'
    BY <1>2 DEF RetryIndexJob, workerVars
  <1>3. ASSUME NEW j \in Jobs, ApplyRetention(j) PROVE RunState'
    BY <1>3 DEF ApplyRetention, workerVars, envVars
  <1>4. ASSUME NEW w \in Workers, RecoverStaleJobs(w) PROVE RunState'
    BY <1>4 DEF RecoverStaleJobs, Stale, workerVars, envVars
  <1>5. ASSUME NEW w \in Workers, NEW j \in Jobs, Claim(w, j) PROVE RunState'
    BY <1>5 DEF Claim, Due, envVars
  <1>6. ASSUME NEW w \in Workers, RequeuePaused(w) PROVE RunState'
    BY <1>6 DEF RequeuePaused, Release, Refunded, envVars
  <1>7. ASSUME NEW w \in Workers, Start(w) PROVE RunState'
    BY <1>7 DEF Start, rowVars, envVars
  <1>8. ASSUME NEW w \in Workers, NEW o \in Outcomes, Execute(w, o) PROVE RunState'
    BY <1>8 DEF Execute, rowVars, envVars
  <1>9. ASSUME NEW w \in Workers, Shutdown(w) PROVE RunState'
    BY <1>9 DEF Shutdown, Fault, rowVars
  <1>10. ASSUME NEW w \in Workers, Complete(w) PROVE RunState'
    BY <1>10 DEF Complete, Release, envVars
  <1>11. ASSUME NEW w \in Workers, RecordError(w) PROVE RunState'
    BY <1>11, SMTT(20) DEF RecordError, Release, envVars, Fails, AttemptsAfter, Refunded, sourceOutage
  <1>12. ASSUME NEW w \in Workers, Notify(w) PROVE RunState'
    BY <1>12 DEF Notify, Release, rowVars, envVars
  <1>13. ASSUME NEW w \in Workers, LoseWrite(w) PROVE RunState'
    BY <1>13 DEF LoseWrite, Release, Fault, rowVars
  <1>14. ASSUME NEW w \in Workers, Stall(w) PROVE RunState'
    BY <1>14 DEF Stall, Fault, rowVars
  <1>15. ASSUME NEW w \in Workers, Crash(w) PROVE RunState'
    BY <1>15 DEF Crash, Release, Fault, rowVars
  <1>16. ASSUME NEW w \in Workers, Restart(w) PROVE RunState'
    BY <1>16 DEF Restart, rowVars, envVars
  <1>17. ASSUME NEW w \in Workers, BreakerWindowPasses(w) PROVE RunState'
    BY <1>17 DEF BreakerWindowPasses, rowVars, workerVars, envVars
  <1>17a. ASSUME NEW w \in Workers, SearchFails(w) PROVE RunState'
    BY <1>17a DEF SearchFails, rowVars, workerVars, envVars
  <1>18. ASSUME ServersChange PROVE RunState'
    BY <1>18 DEF ServersChange, rowVars, workerVars
  <1>19. ASSUME Tick PROVE RunState'
    BY <1>19 DEF Tick, OnTime, AtMost, envVars
  <1>20. ASSUME UNCHANGED vars PROVE RunState'
    BY <1>20 DEF vars
  <1>21. QED
    BY <1>1, <1>2, <1>3, <1>4, <1>5, <1>6, <1>7, <1>8, <1>9, <1>10, <1>11, <1>12, <1>13, <1>14, <1>15, <1>16, <1>17, <1>17a, <1>18, <1>19, <1>20
       DEF Next, RunOnce

\* No step takes a job from a worker that keeps its deadline.
LEMMA NextHealthyRunOwnsItsJob == IndInv /\ TypeOK' /\ [Next]_vars => HealthyRunOwnsItsJob'
  <1> SUFFICES ASSUME IndInv, TypeOK', [Next]_vars PROVE HealthyRunOwnsItsJob'
    OBVIOUS
  <1> USE DEF IndInv, TypeOK, RunState, HealthyRunOwnsItsJob, Owns
  <1>1. ASSUME NEW j \in Jobs, Enqueue(j) PROVE HealthyRunOwnsItsJob'
    BY <1>1 DEF Enqueue, workerVars
  <1>2. ASSUME NEW j \in Jobs, RetryIndexJob(j) PROVE HealthyRunOwnsItsJob'
    BY <1>2 DEF RetryIndexJob, workerVars
  <1>3. ASSUME NEW j \in Jobs, ApplyRetention(j) PROVE HealthyRunOwnsItsJob'
    BY <1>3 DEF ApplyRetention, workerVars, envVars
  <1>4. ASSUME NEW w \in Workers, RecoverStaleJobs(w) PROVE HealthyRunOwnsItsJob'
    BY <1>4 DEF RecoverStaleJobs, Stale, workerVars, envVars
  <1>5. ASSUME NEW w \in Workers, NEW j \in Jobs, Claim(w, j) PROVE HealthyRunOwnsItsJob'
    BY <1>5 DEF Claim, Due, envVars
  <1>6. ASSUME NEW w \in Workers, RequeuePaused(w) PROVE HealthyRunOwnsItsJob'
    BY <1>6 DEF RequeuePaused, Release, Refunded, envVars
  <1>7. ASSUME NEW w \in Workers, Start(w) PROVE HealthyRunOwnsItsJob'
    BY <1>7 DEF Start, rowVars, envVars
  <1>8. ASSUME NEW w \in Workers, NEW o \in Outcomes, Execute(w, o) PROVE HealthyRunOwnsItsJob'
    BY <1>8 DEF Execute, rowVars, envVars
  <1>9. ASSUME NEW w \in Workers, Shutdown(w) PROVE HealthyRunOwnsItsJob'
    BY <1>9 DEF Shutdown, Fault, rowVars
  <1>10. ASSUME NEW w \in Workers, Complete(w) PROVE HealthyRunOwnsItsJob'
    BY <1>10 DEF Complete, Release, envVars
  <1>11. ASSUME NEW w \in Workers, RecordError(w) PROVE HealthyRunOwnsItsJob'
    BY <1>11 DEF RecordError, Release, envVars, Fails, AttemptsAfter, Refunded, sourceOutage
  <1>12. ASSUME NEW w \in Workers, Notify(w) PROVE HealthyRunOwnsItsJob'
    BY <1>12 DEF Notify, Release, rowVars, envVars
  <1>13. ASSUME NEW w \in Workers, LoseWrite(w) PROVE HealthyRunOwnsItsJob'
    BY <1>13 DEF LoseWrite, Release, Fault, rowVars
  <1>14. ASSUME NEW w \in Workers, Stall(w) PROVE HealthyRunOwnsItsJob'
    BY <1>14 DEF Stall, Fault, rowVars
  <1>15. ASSUME NEW w \in Workers, Crash(w) PROVE HealthyRunOwnsItsJob'
    BY <1>15 DEF Crash, Release, Fault, rowVars
  <1>16. ASSUME NEW w \in Workers, Restart(w) PROVE HealthyRunOwnsItsJob'
    BY <1>16 DEF Restart, rowVars, envVars
  <1>17. ASSUME NEW w \in Workers, BreakerWindowPasses(w) PROVE HealthyRunOwnsItsJob'
    BY <1>17 DEF BreakerWindowPasses, rowVars, workerVars, envVars
  <1>17a. ASSUME NEW w \in Workers, SearchFails(w) PROVE HealthyRunOwnsItsJob'
    BY <1>17a DEF SearchFails, rowVars, workerVars, envVars
  <1>18. ASSUME ServersChange PROVE HealthyRunOwnsItsJob'
    BY <1>18 DEF ServersChange, rowVars, workerVars
  <1>19. ASSUME Tick PROVE HealthyRunOwnsItsJob'
    BY <1>19 DEF Tick, OnTime, AtMost, envVars
  <1>20. ASSUME UNCHANGED vars PROVE HealthyRunOwnsItsJob'
    BY <1>20 DEF vars
  <1>21. QED
    BY <1>1, <1>2, <1>3, <1>4, <1>5, <1>6, <1>7, <1>8, <1>9, <1>10, <1>11, <1>12, <1>13, <1>14, <1>15, <1>16, <1>17, <1>17a, <1>18, <1>19, <1>20
       DEF Next, RunOnce

\* Every step charges the retry budget exactly for errors and lost leases.
LEMMA NextBudgetAccounting == IndInv /\ TypeOK' /\ [Next]_vars => BudgetAccounting'
  <1> SUFFICES ASSUME IndInv, TypeOK', [Next]_vars PROVE BudgetAccounting'
    OBVIOUS
  <1> USE DEF IndInv, TypeOK, RunState, BudgetAccounting, Owns
  <1>1. ASSUME NEW j \in Jobs, Enqueue(j) PROVE BudgetAccounting'
    BY <1>1 DEF Enqueue, workerVars
  <1>2. ASSUME NEW j \in Jobs, RetryIndexJob(j) PROVE BudgetAccounting'
    BY <1>2 DEF RetryIndexJob, workerVars
  <1>3. ASSUME NEW j \in Jobs, ApplyRetention(j) PROVE BudgetAccounting'
    BY <1>3 DEF ApplyRetention, workerVars, envVars
  <1>4. ASSUME NEW w \in Workers, RecoverStaleJobs(w) PROVE BudgetAccounting'
    BY <1>4 DEF RecoverStaleJobs, Stale, workerVars, envVars
  <1>5. ASSUME NEW w \in Workers, NEW j \in Jobs, Claim(w, j) PROVE BudgetAccounting'
    BY <1>5 DEF Claim, Due, envVars
  <1>6. ASSUME NEW w \in Workers, RequeuePaused(w) PROVE BudgetAccounting'
    BY <1>6 DEF RequeuePaused, Release, Refunded, envVars
  <1>7. ASSUME NEW w \in Workers, Start(w) PROVE BudgetAccounting'
    BY <1>7 DEF Start, rowVars, envVars
  <1>8. ASSUME NEW w \in Workers, NEW o \in Outcomes, Execute(w, o) PROVE BudgetAccounting'
    BY <1>8 DEF Execute, rowVars, envVars
  <1>9. ASSUME NEW w \in Workers, Shutdown(w) PROVE BudgetAccounting'
    BY <1>9 DEF Shutdown, Fault, rowVars
  <1>10. ASSUME NEW w \in Workers, Complete(w) PROVE BudgetAccounting'
    BY <1>10 DEF Complete, Release, envVars
  <1>11. ASSUME NEW w \in Workers, RecordError(w) PROVE BudgetAccounting'
    BY <1>11 DEF RecordError, Release, envVars, Fails, AttemptsAfter, Refunded, sourceOutage
  <1>12. ASSUME NEW w \in Workers, Notify(w) PROVE BudgetAccounting'
    BY <1>12 DEF Notify, Release, rowVars, envVars
  <1>13. ASSUME NEW w \in Workers, LoseWrite(w) PROVE BudgetAccounting'
    BY <1>13 DEF LoseWrite, Release, Fault, rowVars
  <1>14. ASSUME NEW w \in Workers, Stall(w) PROVE BudgetAccounting'
    BY <1>14 DEF Stall, Fault, rowVars
  <1>15. ASSUME NEW w \in Workers, Crash(w) PROVE BudgetAccounting'
    BY <1>15 DEF Crash, Release, Fault, rowVars
  <1>16. ASSUME NEW w \in Workers, Restart(w) PROVE BudgetAccounting'
    BY <1>16 DEF Restart, rowVars, envVars
  <1>17. ASSUME NEW w \in Workers, BreakerWindowPasses(w) PROVE BudgetAccounting'
    BY <1>17 DEF BreakerWindowPasses, rowVars, workerVars, envVars
  <1>17a. ASSUME NEW w \in Workers, SearchFails(w) PROVE BudgetAccounting'
    BY <1>17a DEF SearchFails, rowVars, workerVars, envVars
  <1>18. ASSUME ServersChange PROVE BudgetAccounting'
    BY <1>18 DEF ServersChange, rowVars, workerVars
  <1>19. ASSUME Tick PROVE BudgetAccounting'
    BY <1>19 DEF Tick, OnTime, AtMost, envVars
  <1>20. ASSUME UNCHANGED vars PROVE BudgetAccounting'
    BY <1>20 DEF vars
  <1>21. QED
    BY <1>1, <1>2, <1>3, <1>4, <1>5, <1>6, <1>7, <1>8, <1>9, <1>10, <1>11, <1>12, <1>13, <1>14, <1>15, <1>16, <1>17, <1>17a, <1>18, <1>19, <1>20
       DEF Next, RunOnce

\* The inductive invariant holds of every reachable state.
LEMMA SpecIndInv == Spec => []IndInv
  <1>1. Init => IndInv
    BY InitIndInv
  <1>2. IndInv /\ [Next]_vars => IndInv'
    BY NextTypeOK, NextRunState, NextHealthyRunOwnsItsJob, NextBudgetAccounting DEF IndInv
  <1>3. QED
    BY <1>1, <1>2, PTL DEF Spec

\* The rows and the workers' claims always have their types.
THEOREM QueueTypeOK == Spec => []TypeOK
  <1>1. IndInv => TypeOK
    BY DEF IndInv
  <1>2. QED
    BY <1>1, SpecIndInv, PTL

\* Whatever crashes, stalls and lost writes happen elsewhere, a worker that keeps
\* its deadline holds its lease until it has recorded its outcome: it follows
\* from jobTimeout < JobLeaseDuration and the guarded updates of worker.go.
THEOREM HealthyRunKeepsLease == Spec => []HealthyRunOwnsItsJob
  <1>1. IndInv => HealthyRunOwnsItsJob
    BY DEF IndInv
  <1>2. QED
    BY <1>1, SpecIndInv, PTL

\* The retry budget counts genuine errors and lost leases and nothing else, and a
\* job is failed only with its budget spent.
THEOREM BudgetIsExact == Spec => []BudgetAccounting
  <1>1. IndInv => BudgetAccounting
    BY DEF IndInv
  <1>2. QED
    BY <1>1, SpecIndInv, PTL

\* One step settles a row only as the outcome of the run that holds its lease.
LEMMA StepSettledByLeaseHolder ==
  ASSUME IndInv, [Next]_vars, NEW j \in Jobs,
         status'[j] \in {"completed", "failed"}, status'[j] # status[j]
  PROVE  /\ status[j] = "running"
         /\ \E w \in Workers :
               /\ startedBy[j] = w
               /\ claimed[w] = j
               /\ pc[w] = "finish"
               /\ status'[j] = IF outcome[w] = "ok" THEN "completed" ELSE "failed"
               /\ ~sourceOutage(outcome[w])
  <1> USE DEF IndInv, TypeOK
  <1>1. \E w \in Workers : Complete(w) \/ RecordError(w)
    BY DEF Next, RunOnce, Enqueue, RetryIndexJob, ApplyRetention, RecoverStaleJobs, Claim,
           RequeuePaused, Start, Execute, Shutdown, Notify, LoseWrite, Stall, Crash, Restart,
           BreakerWindowPasses, SearchFails, ServersChange, Tick, vars, rowVars
  <1>2. PICK w \in Workers : Complete(w) \/ RecordError(w)
    BY <1>1
  <1>3. claimed[w] \in Jobs
    BY <1>2 DEF Complete, RecordError, RunState
  <1>4. Owns(w) /\ claimed[w] = j
    BY <1>2, <1>3 DEF Complete, RecordError
  <1>5. CASE Complete(w)
    BY <1>4, <1>5 DEF Complete, Owns, sourceOutage
  <1>6. CASE RecordError(w)
    BY <1>4, <1>6 DEF RecordError, Owns, Fails
  <1>7. QED
    BY <1>2, <1>5, <1>6

\* No late or foreign worker ever completes or fails a job: only the holder of
\* the current lease does, with the outcome of its own run.
THEOREM OnlyLeaseHolderSettles == Spec => SettledByLeaseHolder
  <1>1. IndInv /\ [Next]_vars =>
          [\A j \in Jobs :
              status'[j] \in {"completed", "failed"} /\ status'[j] # status[j] =>
                 /\ status[j] = "running"
                 /\ \E w \in Workers :
                       /\ startedBy[j] = w
                       /\ claimed[w] = j
                       /\ pc[w] = "finish"
                       /\ status'[j] = IF outcome[w] = "ok" THEN "completed" ELSE "failed"
                       /\ ~sourceOutage(outcome[w])]_vars
    BY StepSettledByLeaseHolder
  <1>2. QED
    BY <1>1, SpecIndInv, PTL DEF Spec, SettledByLeaseHolder
=============================================================================
