-------------------------- MODULE PushDeliveryProofs --------------------------
(***************************************************************************)
(* Webhook intake (PushDelivery) for any number of refs, pushes,           *)
(* deliveries, requests and faults and any kind of event id: a push is     *)
(* queued once, and again only after retention deleted its row, and with   *)
(* one worker a push that was queued is indexed.                           *)
(*                                                                         *)
(* The first rests on webhook_events: a queued push has a row of the       *)
(* registered repository with its payload, which is what the unique index  *)
(* refuses a second time, until retention has deleted it.  The second on   *)
(* what is left of the queued push:                                        *)
(* a job that is still to read the head, one that has read it, one that    *)
(* failed, or the index at the head with nothing on its way to move it     *)
(* back.                                                                   *)
(***************************************************************************)
EXTENDS PushDelivery, FiniteSetTheorems, TLAPS

\* What a row, a job or a request is made of, whatever its fields hold.
EventShape(e) == e \in [id : {e.id}, repository : {e.repository}, payload : {e.payload},
                        status : {e.status}, duplicated : {e.duplicated}]
JobShape(j) == j \in [id : {j.id}, ref : {j.ref}, status : {j.status}, commit : {j.commit}]
RequestShape(q) == q \in [pc : {q.pc}, push : {q.push}, attempt : {q.attempt}, id : {q.id}]

JobOK(j) == /\ JobShape(j) /\ j.ref \in Refs /\ j.commit \in Commits \cup {NoCommit}
            /\ j.id = PollJob => j.ref = Default
RequestOK(q, n) == RequestShape(q) /\ q.push \in 1..n /\ q.id # PollJob

ShapesInv ==
  /\ idKind \in IdKinds
  /\ head \in [Refs -> Commits]
  /\ pushes \in Seq(Payloads) /\ Len(pushes) <= MaxPushes
  /\ queued \in [PushIds -> Nat] /\ forgotten \in [PushIds -> Nat]
  /\ indexed \in [Refs -> Commits \cup {NoCommit}]
  /\ \A q \in requests : RequestOK(q, Len(pushes))
  /\ \A e \in events : EventShape(e)
  /\ \A j \in jobs : JobOK(j)

RegisteredFor(n, rows) == \E e \in rows : e.repository = "registered" /\ e.payload = pushes[n]

\* The row that keeps a push from being queued again.
QueuedInv == \A n \in PushIds :
  /\ queued[n] <= forgotten[n] + 1
  /\ queued[n] > forgotten[n] => RegisteredFor(n, events)
  /\ queued[n] > 0 => n \in DOMAIN pushes

LatestIsQueued(r) ==
  \E n \in DOMAIN pushes : /\ pushes[n].ref = r /\ queued[n] > 0
                           /\ \A m \in DOMAIN pushes : pushes[m].ref = r => m <= n

\* Nothing that runs for the ref has read another commit than the head.
OnlyTheHead(r) == \A j \in jobs : j.ref = r /\ j.status = "running" => j.commit = head[r]

Underway(r) == \E j \in jobs :
  /\ j.ref = r
  /\ \/ j.status \in {"pending", "failed"}
     \/ j.status = "running" /\ j.commit = head[r]

HeadsInv == \A r \in Refs :
  LatestIsQueued(r) => Underway(r) \/ (indexed[r] = head[r] /\ OnlyTheHead(r))

\* One worker runs one job.
JobsInv == /\ IsFiniteSet(jobs)
           /\ \A j, k \in jobs : j.status = "running" /\ k.status = "running" => j = k

DeliveryInv == ShapesInv /\ QueuedInv
IndexedInv == DeliveryInv /\ JobsInv /\ HeadsInv

-----------------------------------------------------------------------------
(* One step. *)

\* No row is deleted, and each keeps its repository and its payload.
RowsKept == \A e \in events : \E f \in events' : f.repository = e.repository /\ f.payload = e.payload

\* What one recorded delivery does: a duplicate, or a job for a push that has no row.
Recorded(q) ==
  \/ UNCHANGED <<queued, jobs>>
  \/ /\ ~RegisteredFor(q.push, events) /\ queued' = [queued EXCEPT ![q.push] = @ + 1]
     /\ RegisteredFor(q.push, events')
     /\ jobs' = jobs \cup {Pending(q.id, pushes[q.push].ref)}

LEMMA PushTypes ==
  ASSUME ShapesInv
  PROVE  /\ DOMAIN pushes = 1..Len(pushes) /\ Len(pushes) \in Nat /\ DOMAIN pushes \subseteq PushIds
         /\ \A n \in DOMAIN pushes : pushes[n] \in Payloads /\ pushes[n].ref \in Refs
         /\ \A q \in requests : q.push \in PushIds /\ q.push \in DOMAIN pushes
<1>1. pushes \in Seq(Payloads) /\ Len(pushes) <= MaxPushes /\ MaxPushes \in Nat
  BY DeliveryAssumption DEF ShapesInv
<1>2. DOMAIN pushes = 1..Len(pushes) /\ Len(pushes) \in Nat /\ \A n \in DOMAIN pushes : pushes[n] \in Payloads
  BY <1>1
<1> QED BY <1>1, <1>2 DEF ShapesInv, PushIds, Payloads, RequestOK

LEMMA RecordStep ==
  ASSUME DeliveryInv, NEW q \in requests, Record(q)
  PROVE  Recorded(q) /\ RowsKept /\ \A e \in events' : EventShape(e)
<1> DEFINE row == Row(q, "registered", "queued")
           counted == {e \in events : SamePayload(e, row)}
<1>0. /\ q.push \in PushIds /\ queued[q.push] \in Nat /\ \A e \in events : EventShape(e)
      /\ row.repository = "registered" /\ row.payload = pushes[q.push] /\ EventShape(row)
  <2>1. q.push \in PushIds
    BY PushTypes DEF DeliveryInv
  <2>2. queued[q.push] \in Nat
    BY <2>1 DEF DeliveryInv, ShapesInv
  <2> QED BY <2>1, <2>2 DEF DeliveryInv, ShapesInv, Row, Payload, EventShape
<1> HIDE DEF row
<1>1. CASE Conflicts(row)
  <2>1. /\ events' = (events \ counted) \cup {[e EXCEPT !.duplicated = TRUE] : e \in counted}
        /\ UNCHANGED <<queued, jobs>>
    BY <1>1 DEF Record, row
  <2>2. \A e \in events : LET f == [e EXCEPT !.duplicated = TRUE]
                          IN  EventShape(f) /\ f.repository = e.repository /\ f.payload = e.payload
    <3>1. ASSUME NEW e \in events
          PROVE  LET f == [e EXCEPT !.duplicated = TRUE]
                 IN  EventShape(f) /\ f.repository = e.repository /\ f.payload = e.payload
      <4> DEFINE f == [e EXCEPT !.duplicated = TRUE]
      <4>1. e \in [id : {e.id}, repository : {e.repository}, payload : {e.payload},
                   status : {e.status}, duplicated : {e.duplicated}]
        BY <1>0 DEF EventShape
      <4>2. /\ f.id = e.id /\ f.repository = e.repository /\ f.payload = e.payload
            /\ f.status = e.status /\ f.duplicated = TRUE
        BY <4>1
      <4>3. f \in [id : {e.id}, repository : {e.repository}, payload : {e.payload},
                   status : {e.status}, duplicated : {TRUE}]
        BY <4>1
      <4> HIDE DEF f
      <4>4. EventShape(f)
        BY <4>2, <4>3 DEF EventShape
      <4> QED BY <4>2, <4>4 DEF f
    <3> QED BY <3>1
  <2> QED BY <1>0, <2>1, <2>2 DEF Recorded, RowsKept
<1>2. CASE ~Conflicts(row)
  <2>1. /\ events' = events \cup {row} /\ queued' = [queued EXCEPT ![q.push] = @ + 1]
        /\ jobs' = jobs \cup {Pending(q.id, pushes[q.push].ref)}
    BY <1>2 DEF Record, row, NewJob, Payload
  <2>2. ~RegisteredFor(q.push, events)
    BY <1>0, <1>2 DEF Conflicts, SamePayload, RegisteredFor
  <2> QED BY <1>0, <2>1, <2>2 DEF Recorded, RowsKept, RegisteredFor
<1> QED BY <1>1, <1>2

\* A rejection is a row of the source's own repository.
LEMMA RejectedStep ==
  ASSUME DeliveryInv, NEW q \in requests, events' \in {events, Rejected(q)}
  PROVE  RowsKept /\ \A e \in events' : EventShape(e)
<1>1. EventShape(Row(q, "external", "rejected"))
  BY DEF EventShape, Row
<1> QED BY <1>1 DEF Rejected, RowsKept, DeliveryInv, ShapesInv

\* Rows are kept and what is queued is recorded, or retention deletes a row.
EventsStep ==
  /\ \A e \in events' : EventShape(e)
  /\ \/ /\ RowsKept /\ UNCHANGED forgotten
        /\ UNCHANGED queued \/ \E q \in requests : Recorded(q)
     \/ \E e \in events : ApplyRetention(e)

LEMMA EventsAreKept ==
  ASSUME DeliveryInv, [Next]_vars
  PROVE  EventsStep
<1>1. CASE UNCHANGED <<events, queued, forgotten>>
  BY <1>1 DEF EventsStep, RowsKept, DeliveryInv, ShapesInv
<1>2. ASSUME NEW q \in requests, Receive(q) PROVE EventsStep
  <2>1. CASE Unauthorized(q) \/ Lookup(q) \/ DatabaseFails(q)
    BY <1>1, <2>1 DEF Unauthorized, Lookup, DatabaseFails, history
  <2>2. CASE UnknownRepository(q) \/ LookupFails(q)
    <3>1. events' \in {events, Rejected(q)} /\ UNCHANGED <<queued, forgotten>>
      BY <2>2 DEF UnknownRepository, LookupFails, history
    <3> QED BY <3>1, RejectedStep DEF EventsStep
  <2>3. CASE Write(q) \/ LoseAnswer(q)
    BY <2>3, RecordStep DEF Write, LoseAnswer, EventsStep
  <2> QED BY <1>2, <2>1, <2>2, <2>3 DEF Receive
<1>3. CASE UNCHANGED vars \/ InstallHook \/ InsertRepository \/ QueueInitial \/ Grow \/ Poll \/ AnotherRun
             \/ (\E r, c : Push(r, c)) \/ (\E n : Deliver(n))
  BY <1>1, <1>3 DEF vars, InstallHook, InsertRepository, QueueInitial, Grow, Poll, AnotherRun, Push, Deliver, history
<1>4. ASSUME NEW j \in jobs, StartJob(j) \/ FinishJob(j) \/ JobFails(j) PROVE EventsStep
  BY <1>1, <1>4 DEF StartJob, FinishJob, JobFails, history
<1>5. ASSUME NEW e \in events, ApplyRetention(e) PROVE EventsStep
  <2>1. events' \subseteq events
    BY <1>5 DEF ApplyRetention
  <2> QED BY <1>5, <2>1 DEF EventsStep, DeliveryInv, ShapesInv
<1> QED BY <1>2, <1>3, <1>4, <1>5 DEF Next, Work

\* A push stays what it was.
PushesKept == /\ DOMAIN pushes \subseteq DOMAIN pushes' /\ \A n \in DOMAIN pushes : pushes'[n] = pushes[n]

LEMMA PushesAreKept ==
  ASSUME DeliveryInv, [Next]_vars
  PROVE  PushesKept /\ pushes' \in Seq(Payloads) /\ Len(pushes') <= MaxPushes /\ head' \in [Refs -> Commits]
           /\ (UNCHANGED <<pushes, head>> \/ \E r \in Refs, c \in Commits : Push(r, c))
<1>1. CASE UNCHANGED <<pushes, head>>
  BY <1>1 DEF PushesKept, DeliveryInv, ShapesInv
<1>2. ASSUME NEW r \in Refs, NEW c \in Commits, Push(r, c)
      PROVE  PushesKept /\ pushes' \in Seq(Payloads) /\ Len(pushes') <= MaxPushes /\ head' \in [Refs -> Commits]
  <2> DEFINE p == [ref |-> r, before |-> head[r], after |-> c]
  <2>1. pushes \in Seq(Payloads) /\ head \in [Refs -> Commits] /\ p \in Payloads
    BY DEF DeliveryInv, ShapesInv, Payloads
  <2>2. pushes' = Append(pushes, p) /\ Len(pushes) < MaxPushes /\ head' = [head EXCEPT ![r] = c]
    BY <1>2 DEF Push
  <2> HIDE DEF p
  <2> QED BY <2>1, <2>2, DeliveryAssumption DEF PushesKept
<1>3. ASSUME NEW q \in requests, Receive(q) PROVE UNCHANGED <<pushes, head>>
  BY <1>3 DEF Receive, Unauthorized, Lookup, UnknownRepository, LookupFails, Write, LoseAnswer, DatabaseFails,
              senderVars
<1>4. CASE UNCHANGED vars \/ InstallHook \/ InsertRepository \/ QueueInitial \/ Grow \/ Poll \/ AnotherRun
             \/ (\E n : Deliver(n)) \/ (\E e \in events : ApplyRetention(e))
             \/ (\E j \in jobs : StartJob(j) \/ FinishJob(j) \/ JobFails(j))
  BY <1>1, <1>4 DEF vars, InstallHook, InsertRepository, QueueInitial, Grow, Poll, AnotherRun, Deliver,
                    ApplyRetention, StartJob, FinishJob, JobFails, senderVars
<1> QED BY <1>1, <1>2, <1>3, <1>4 DEF Next, Work

\* A row is missing only for a push that was queued no more often than its row was deleted.
LEMMA QueuedStep ==
  ASSUME DeliveryInv, [Next]_vars
  PROVE  QueuedInv' /\ queued' \in [PushIds -> Nat] /\ forgotten' \in [PushIds -> Nat]
<1>0. /\ EventsStep /\ PushesKept /\ QueuedInv
      /\ queued \in [PushIds -> Nat] /\ forgotten \in [PushIds -> Nat]
  BY EventsAreKept, PushesAreKept DEF DeliveryInv, ShapesInv
<1> DEFINE Holds(n) == /\ queued[n] <= forgotten[n] + 1
                       /\ queued[n] > forgotten[n] => RegisteredFor(n, events)
                       /\ queued[n] > 0 => n \in DOMAIN pushes
<1>1. ASSUME NEW n \in PushIds, queued'[n] = queued[n], RowsKept, UNCHANGED forgotten PROVE Holds(n)'
  <2>1. queued[n] \in Nat /\ forgotten[n] \in Nat /\ Holds(n)
    BY <1>0 DEF QueuedInv
  <2>2. queued[n] > 0 => n \in DOMAIN pushes' /\ pushes'[n] = pushes[n]
    BY <1>0, <2>1 DEF PushesKept
  <2>3. queued[n] > forgotten[n] => RegisteredFor(n, events)'
    BY <1>1, <2>1, <2>2 DEF RegisteredFor, RowsKept
  <2> QED BY <1>1, <2>1, <2>2, <2>3
<1>2. ASSUME RowsKept, UNCHANGED <<queued, forgotten>>
      PROVE  QueuedInv' /\ queued' \in [PushIds -> Nat] /\ forgotten' \in [PushIds -> Nat]
  <2>1. \A n \in PushIds : Holds(n)'
    BY <1>1, <1>2
  <2> QED BY <1>0, <1>2, <2>1 DEF QueuedInv
<1>3. ASSUME NEW q \in requests, Recorded(q), queued' # queued, RowsKept, UNCHANGED forgotten
      PROVE  QueuedInv' /\ queued' \in [PushIds -> Nat] /\ forgotten' \in [PushIds -> Nat]
  <2>1. /\ queued' = [queued EXCEPT ![q.push] = @ + 1] /\ RegisteredFor(q.push, events')
        /\ ~RegisteredFor(q.push, events)
        /\ q.push \in DOMAIN pushes /\ q.push \in PushIds
    BY <1>3, PushTypes DEF Recorded, DeliveryInv
  <2>2. queued[q.push] \in Nat /\ forgotten[q.push] \in Nat /\ queued[q.push] <= forgotten[q.push]
    BY <1>0, <2>1 DEF QueuedInv
  <2>3. queued' \in [PushIds -> Nat] /\ queued'[q.push] <= forgotten[q.push] + 1 /\ q.push \in DOMAIN pushes'
          /\ pushes'[q.push] = pushes[q.push]
    BY <1>0, <2>1, <2>2 DEF PushesKept
  <2>4. Holds(q.push)'
    BY <1>3, <2>1, <2>3 DEF RegisteredFor
  <2>5. \A n \in PushIds : n # q.push => Holds(n)'
    BY <1>0, <1>1, <1>3, <2>1
  <2> QED BY <1>0, <1>3, <2>3, <2>4, <2>5 DEF QueuedInv
<1>4. ASSUME NEW e \in events, ApplyRetention(e)
      PROVE  QueuedInv' /\ queued' \in [PushIds -> Nat] /\ forgotten' \in [PushIds -> Nat]
  <2> DEFINE gone(n) == IF /\ e.repository = "registered" /\ n \in DOMAIN pushes /\ e.payload = pushes[n]
                        THEN 1 ELSE 0
  <2>1. /\ forgotten' = [n \in PushIds |-> forgotten[n] + gone(n)] /\ events' = events \ {e}
        /\ UNCHANGED <<queued, pushes>>
    BY <1>4 DEF ApplyRetention, Payload, senderVars
  <2>2. forgotten' \in [PushIds -> Nat]
    BY <1>0, <2>1
  <2>3. ASSUME NEW n \in PushIds PROVE Holds(n)'
    <3>1. queued[n] \in Nat /\ forgotten[n] \in Nat /\ Holds(n) /\ forgotten'[n] = forgotten[n] + gone(n)
      BY <1>0, <2>1 DEF QueuedInv
    <3>2. CASE gone(n) = 1
      BY <2>1, <3>1, <3>2
    <3>3. CASE gone(n) # 1
      <4>1. forgotten'[n] = forgotten[n]
        BY <3>1, <3>3
      <4>2. queued[n] > forgotten[n] => RegisteredFor(n, events \ {e})
        BY <3>1, <3>3 DEF RegisteredFor
      <4> QED BY <2>1, <3>1, <4>1, <4>2 DEF RegisteredFor
    <3> QED BY <3>2, <3>3
  <2> QED BY <1>0, <2>1, <2>2, <2>3 DEF QueuedInv
<1> QED BY <1>0, <1>2, <1>3, <1>4 DEF EventsStep
LEMMA PendingIsOK ==
  ASSUME NEW id, NEW r \in Refs, id = PollJob => r = Default
  PROVE  /\ JobOK(Pending(id, r)) /\ Pending(id, r).ref = r /\ Pending(id, r).status = "pending"
         /\ Pending(id, r).id = id
BY DEF JobOK, JobShape, Pending

\* A job is given another status and perhaps a commit.
LEMMA ChangedJob ==
  ASSUME NEW j, JobOK(j), NEW status, NEW c \in Commits \cup {NoCommit}
  PROVE  /\ LET k == [j EXCEPT !.status = status, !.commit = c]
            IN  JobOK(k) /\ k.ref = j.ref /\ k.status = status /\ k.commit = c
         /\ LET k == [j EXCEPT !.status = status]
            IN  JobOK(k) /\ k.ref = j.ref /\ k.status = status /\ k.commit = j.commit
<1> DEFINE k == [j EXCEPT !.status = status, !.commit = c]
           l == [j EXCEPT !.status = status]
<1>1. j \in [id : {j.id}, ref : {j.ref}, status : {j.status}, commit : {j.commit}]
  BY DEF JobOK, JobShape
<1>2. k.id = j.id /\ k.ref = j.ref /\ k.status = status /\ k.commit = c
  BY <1>1
<1>3. l.id = j.id /\ l.ref = j.ref /\ l.status = status /\ l.commit = j.commit
  BY <1>1
<1>4. /\ k \in [id : {j.id}, ref : {j.ref}, status : {status}, commit : {c}]
      /\ l \in [id : {j.id}, ref : {j.ref}, status : {status}, commit : {j.commit}]
  BY <1>1
<1> HIDE DEF k, l
<1>5. JobOK(k) /\ JobOK(l)
  BY <1>2, <1>3, <1>4 DEF JobOK, JobShape
<1> QED BY <1>2, <1>3, <1>5 DEF k, l

\* What one step does to the jobs and to the index.
AddsJob == \E r \in Refs : \E id : /\ id = PollJob => r = Default
                                  /\ jobs' = jobs \cup {Pending(id, r)} /\ UNCHANGED indexed
WorkStep(j) == StartJob(j) \/ FinishJob(j) \/ JobFails(j)

JobsStep ==
  \/ /\ UNCHANGED queued
     /\ \/ UNCHANGED <<jobs, indexed>> \/ AddsJob \/ Poll
        \/ (\E j \in jobs : WorkStep(j)) /\ UNCHANGED <<pushes, head>>
  \/ \E q \in requests : Recorded(q) /\ UNCHANGED <<indexed, pushes, head>>

LEMMA JobsAreStepped ==
  ASSUME DeliveryInv, [Next]_vars
  PROVE  JobsStep
<1>1. CASE UNCHANGED <<queued, jobs, indexed>>
  BY <1>1 DEF JobsStep
<1>2. CASE UNCHANGED vars \/ InstallHook \/ InsertRepository \/ Grow \/ AnotherRun
             \/ (\E r, c : Push(r, c)) \/ (\E n : Deliver(n)) \/ (\E e \in events : ApplyRetention(e))
  BY <1>1, <1>2 DEF vars, InstallHook, InsertRepository, Grow, AnotherRun, Push, Deliver, ApplyRetention,
                    history, indexVars
<1>3. CASE QueueInitial
  <2>1. jobs' = jobs \cup {Pending(InitialJob, Default)} /\ UNCHANGED <<indexed, queued>>
    BY <1>3 DEF QueueInitial, history, indexVars
  <2>2. Default \in Refs
    BY DeliveryAssumption
  <2>3. AddsJob
    BY <2>1, <2>2 DEF AddsJob
  <2> QED BY <2>1, <2>3 DEF JobsStep
<1>4. CASE Poll
  BY <1>4 DEF JobsStep, Poll, history
<1>5. ASSUME NEW j \in jobs, WorkStep(j) PROVE JobsStep
  BY <1>5 DEF JobsStep, WorkStep, StartJob, FinishJob, JobFails, history, senderVars
<1>6. ASSUME NEW q \in requests, Receive(q) PROVE JobsStep
  <2>1. CASE Unauthorized(q) \/ Lookup(q) \/ DatabaseFails(q) \/ UnknownRepository(q) \/ LookupFails(q)
    BY <1>1, <2>1 DEF Unauthorized, Lookup, DatabaseFails, UnknownRepository, LookupFails, history, indexVars
  <2>2. CASE Write(q) \/ LoseAnswer(q)
    BY <2>2, RecordStep DEF Write, LoseAnswer, JobsStep, senderVars, indexVars
  <2> QED BY <1>6, <2>1, <2>2 DEF Receive
<1> QED BY <1>2, <1>3, <1>4, <1>5, <1>6 DEF Next, Work, WorkStep

LEMMA ShapesStep ==
  ASSUME DeliveryInv, [Next]_vars
  PROVE  ShapesInv'
<1>0. ShapesInv /\ EventsStep /\ PushesKept
  BY EventsAreKept, PushesAreKept DEF DeliveryInv
<1>1. pushes' \in Seq(Payloads) /\ Len(pushes') <= MaxPushes /\ head' \in [Refs -> Commits]
        /\ queued' \in [PushIds -> Nat] /\ forgotten' \in [PushIds -> Nat] /\ \A e \in events' : EventShape(e)
  BY <1>0, PushesAreKept, QueuedStep DEF EventsStep
<1>2. idKind' = idKind
  BY DEF Next, vars, Push, Deliver, Receive, Unauthorized, Lookup, UnknownRepository, LookupFails, Write,
         LoseAnswer, DatabaseFails, InstallHook, InsertRepository, QueueInitial, Grow, Poll, ApplyRetention,
         AnotherRun, Work, StartJob, FinishJob, JobFails, senderVars
<1>3. Len(pushes) \in Nat /\ Len(pushes') \in Nat /\ Len(pushes) <= Len(pushes')
  <2>1. DOMAIN pushes = 1..Len(pushes) /\ DOMAIN pushes' = 1..Len(pushes') /\ Len(pushes) \in Nat /\ Len(pushes') \in Nat
    BY <1>0, <1>1 DEF ShapesInv
  <2> QED BY <1>0, <2>1 DEF PushesKept
<1>4. \A q : RequestOK(q, Len(pushes)) => RequestOK(q, Len(pushes'))
  BY <1>3 DEF RequestOK
<1>5. \A q \in requests' : RequestOK(q, Len(pushes'))
  <2>1. CASE requests' \subseteq requests
    BY <1>0, <1>4, <2>1 DEF ShapesInv
  <2>2. ASSUME NEW q \in requests, Receive(q) PROVE \A p \in requests' : RequestOK(p, Len(pushes'))
    <3>1. CASE Lookup(q)
      <4> DEFINE p == [q EXCEPT !.pc = "write"]
      <4>1. q \in [pc : {q.pc}, push : {q.push}, attempt : {q.attempt}, id : {q.id}]
              /\ q.push \in 1..Len(pushes) /\ q.id # PollJob
        BY <1>0 DEF ShapesInv, RequestOK, RequestShape
      <4>2. p.pc = "write" /\ p.push = q.push /\ p.attempt = q.attempt /\ p.id = q.id
        BY <4>1
      <4>3. p \in [pc : {"write"}, push : {q.push}, attempt : {q.attempt}, id : {q.id}]
        BY <4>1
      <4>4. requests' = (requests \ {q}) \cup {p}
        BY <3>1 DEF Lookup, Continue
      <4> HIDE DEF p
      <4>5. RequestOK(p, Len(pushes))
        BY <4>1, <4>2, <4>3 DEF RequestOK, RequestShape
      <4> QED BY <1>0, <1>4, <4>4, <4>5 DEF ShapesInv
    <3>2. CASE requests' = requests \ {q}
      BY <2>1, <3>2
    <3> QED BY <2>2, <3>1, <3>2 DEF Receive, Unauthorized, UnknownRepository, LookupFails, Write, LoseAnswer,
                                    DatabaseFails, Tell, Unanswered
  <2>3. ASSUME NEW n \in DOMAIN pushes, Deliver(n) PROVE \A p \in requests' : RequestOK(p, Len(pushes'))
    <3> DEFINE id == EventId(n, attempts'[n])
               k == attempts'[n]
               p == [pc |-> "receive", push |-> n, attempt |-> k, id |-> id]
    <3>1. id # PollJob
      <4>1. idKind \in {"event", "request", "hash"}
        BY <1>0, DeliveryAssumption DEF ShapesInv
      <4>2. id.kind = idKind
        BY <4>1 DEF EventId
      <4> HIDE DEF id
      <4> QED BY <4>1, <4>2 DEF PollJob
    <3>2. requests' = requests \cup {p}
      BY <2>3 DEF Deliver
    <3>3. n \in 1..Len(pushes)
      BY <1>0, PushTypes
    <3> HIDE DEF id, k
    <3>4. RequestOK(p, Len(pushes))
      BY <3>1, <3>3 DEF RequestOK, RequestShape
    <3> QED BY <1>0, <1>4, <3>2, <3>4 DEF ShapesInv
  <2>4. CASE UNCHANGED vars \/ InstallHook \/ InsertRepository \/ QueueInitial \/ Grow \/ Poll \/ AnotherRun
               \/ (\E r, c : Push(r, c)) \/ (\E e \in events : ApplyRetention(e)) \/ (\E j \in jobs : WorkStep(j))
    BY <2>1, <2>4 DEF vars, InstallHook, InsertRepository, QueueInitial, Grow, Poll, AnotherRun, Push,
                      ApplyRetention, WorkStep, StartJob, FinishJob, JobFails
  <2> QED BY <2>2, <2>3, <2>4 DEF Next, Work, WorkStep
<1>6. (\A j \in jobs' : JobOK(j)) /\ indexed' \in [Refs -> Commits \cup {NoCommit}]
  <2> DEFINE Goal == (\A j \in jobs' : JobOK(j)) /\ indexed' \in [Refs -> Commits \cup {NoCommit}]
  <2>0. (\A j \in jobs : JobOK(j)) /\ indexed \in [Refs -> Commits \cup {NoCommit}] /\ head \in [Refs -> Commits]
    BY <1>0 DEF ShapesInv
  <2>1. CASE UNCHANGED <<jobs, indexed>>
    BY <2>0, <2>1
  <2>2. CASE AddsJob
    BY <2>0, <2>2, PendingIsOK DEF AddsJob
  <2>3. CASE Poll
    <3>1. jobs' = {j \in jobs : j.id # PollJob} \cup {Pending(PollJob, Default)} /\ indexed' = indexed
      BY <2>3 DEF Poll, indexVars
    <3>2. JobOK(Pending(PollJob, Default))
      BY PendingIsOK, DeliveryAssumption
    <3> QED BY <2>0, <3>1, <3>2
  <2>4. ASSUME NEW q \in requests, Recorded(q), UNCHANGED indexed PROVE Goal
    <3>1. q.id # PollJob /\ pushes[q.push].ref \in Refs
      BY <1>0, PushTypes DEF ShapesInv, RequestOK
    <3> QED BY <2>0, <2>4, <3>1, PendingIsOK DEF Recorded
  <2>5. ASSUME NEW j \in jobs, WorkStep(j) PROVE Goal
    <3>1. JobOK(j) /\ head[j.ref] \in Commits /\ j.commit \in Commits \cup {NoCommit}
      BY <2>0 DEF JobOK
    <3>2. CASE StartJob(j)
      <4>1. jobs' = (jobs \ {j}) \cup {[j EXCEPT !.status = "running", !.commit = head[j.ref]]} /\ indexed' = indexed
        BY <3>2 DEF StartJob, SetJob, indexVars
      <4>2. JobOK([j EXCEPT !.status = "running", !.commit = head[j.ref]])
        BY <3>1, ChangedJob
      <4> QED BY <2>0, <4>1, <4>2
    <3>3. CASE FinishJob(j)
      BY <2>0, <3>1, <3>3 DEF FinishJob, Completed
    <3>4. CASE JobFails(j)
      <4>1. jobs' = (jobs \ {j}) \cup {[j EXCEPT !.status = "failed"]} /\ indexed' = indexed
        BY <3>4 DEF JobFails, SetJob, indexVars
      <4>2. JobOK([j EXCEPT !.status = "failed"])
        BY <3>1, ChangedJob
      <4> QED BY <2>0, <4>1, <4>2
    <3> QED BY <2>5, <3>2, <3>3, <3>4 DEF WorkStep
  <2> HIDE DEF Goal
  <2>6. Goal
    BY <2>1, <2>2, <2>3, <2>4, <2>5, JobsAreStepped DEF JobsStep, Goal
  <2> QED BY <2>6 DEF Goal
<1> QED BY <1>0, <1>1, <1>2, <1>5, <1>6 DEF ShapesInv

LEMMA DeliveryInvariant == Spec => []DeliveryInv
<1>1. Init => DeliveryInv
  <2> SUFFICES ASSUME Init PROVE DeliveryInv
    OBVIOUS
  <2>1. pushes = <<>> /\ pushes \in Seq(Payloads) /\ Len(pushes) = 0 /\ 0 <= MaxPushes
    BY DeliveryAssumption DEF Init
  <2>2. head \in [Refs -> Commits]
    BY CommitsAssumption DEF Init
  <2> QED BY <2>1, <2>2 DEF Init, DeliveryInv, ShapesInv, QueuedInv
<1>2. DeliveryInv /\ [Next]_vars => DeliveryInv'
  BY ShapesStep, QueuedStep DEF DeliveryInv
<1> QED BY <1>1, <1>2, PTL DEF Spec

\* However many deliveries of a push are served side by side and repeated, under whatever
\* event ids, the unique indexes of webhook_events let one of them queue a job, and one more
\* for every time that applyRetention has deleted the push's row.
THEOREM PushIsNotQueuedAgain == Spec => []PushIsQueuedOnce
<1>1. DeliveryInv => PushIsQueuedOnce
  <2> SUFFICES ASSUME DeliveryInv, NEW n \in PushIds PROVE queued[n] <= 1 + forgotten[n]
    BY DEF PushIsQueuedOnce
  <2>1. queued[n] <= forgotten[n] + 1 /\ queued[n] \in Nat /\ forgotten[n] \in Nat
    BY DEF DeliveryInv, QueuedInv, ShapesInv
  <2> QED BY <2>1
<1> QED BY <1>1, DeliveryInvariant, PTL
-----------------------------------------------------------------------------
(* One worker. *)

OneWorker == Cardinality(Workers) = 1

\* A job is not started while another one runs.
LEMMA OneRuns ==
  ASSUME JobsInv, OneWorker, NEW j \in jobs, StartJob(j)
  PROVE  \A k \in jobs : k.status # "running"
<1> DEFINE runs == {k \in jobs : k.status = "running"}
<1>1. IsFiniteSet(runs)
  BY FS_Subset DEF JobsInv
<1>2. Cardinality(runs) < 1
  BY DEF StartJob, OneWorker
<1>3. Cardinality(runs) = 0
  <2> HIDE DEF runs
  <2> QED BY <1>1, <1>2, FS_CardinalityType
<1>4. runs = {}
  BY <1>1, <1>3, FS_EmptySet
<1> QED BY <1>4

LEMMA JobsInvStep ==
  ASSUME IndexedInv, OneWorker, [Next]_vars
  PROVE  JobsInv'
<1>0. JobsInv /\ \A j \in jobs : JobOK(j)
  BY DEF IndexedInv, DeliveryInv, ShapesInv
<1>1. CASE jobs' = jobs
  BY <1>0, <1>1 DEF JobsInv
\* A job that does not run is put in the place of some.
<1>2. ASSUME NEW old \in SUBSET jobs, NEW k, jobs' = old \cup {k},
             k.status = "running" => \A j \in jobs : j.status # "running"
      PROVE  JobsInv'
  <2>1. IsFiniteSet(old)
    BY <1>0, FS_Subset DEF JobsInv
  <2>2. IsFiniteSet(jobs')
    BY <1>2, <2>1, FS_AddElement
  <2> QED BY <1>0, <1>2, <2>2 DEF JobsInv
<1>3. ASSUME NEW r \in Refs, NEW id, id = PollJob => r = Default, jobs' = jobs \cup {Pending(id, r)}
      PROVE  JobsInv'
  <2>1. Pending(id, r).status = "pending"
    BY DEF Pending
  <2> QED BY <1>2, <1>3, <2>1
<1>4. CASE Poll
  <2>1. jobs' = {j \in jobs : j.id # PollJob} \cup {Pending(PollJob, Default)}
    BY <1>4 DEF Poll
  <2>2. Pending(PollJob, Default).status = "pending"
    BY DEF Pending
  <2> QED BY <1>2, <2>1, <2>2
<1>5. ASSUME NEW j \in jobs, StartJob(j) PROVE JobsInv'
  <2>1. jobs' = (jobs \ {j}) \cup {[j EXCEPT !.status = "running", !.commit = head[j.ref]]}
    BY <1>5 DEF StartJob, SetJob
  <2> QED BY <1>0, <1>2, <1>5, <2>1, OneRuns
<1>6. ASSUME NEW j \in jobs, FinishJob(j) PROVE JobsInv'
  <2>1. jobs' = jobs \ {j}
    BY <1>6 DEF FinishJob, Completed
  <2>2. IsFiniteSet(jobs')
    BY <1>0, <2>1, FS_Subset DEF JobsInv
  <2> QED BY <1>0, <2>1, <2>2 DEF JobsInv
<1>7. ASSUME NEW j \in jobs, JobFails(j) PROVE JobsInv'
  <2>1. jobs' = (jobs \ {j}) \cup {[j EXCEPT !.status = "failed"]}
    BY <1>7 DEF JobFails, SetJob
  <2>2. [j EXCEPT !.status = "failed"].status = "failed"
    BY <1>0, ChangedJob, CommitsAssumption, ZenonT(40)
  <2> QED BY <1>2, <2>1, <2>2
<1>8. ASSUME NEW q \in requests, Recorded(q) PROVE JobsInv'
  <2>1. pushes[q.push].ref \in Refs /\ q.id # PollJob
    BY PushTypes DEF IndexedInv, DeliveryInv, ShapesInv, RequestOK
  <2> QED BY <1>1, <1>3, <1>8, <2>1 DEF Recorded
<1> QED BY <1>1, <1>3, <1>4, <1>5, <1>6, <1>7, <1>8, JobsAreStepped
        DEF IndexedInv, JobsStep, AddsJob, WorkStep

LEMMA HeadsStep ==
  ASSUME IndexedInv, OneWorker, [Next]_vars
  PROVE  HeadsInv'
<1> DEFINE Good(r) == Underway(r) \/ (indexed[r] = head[r] /\ OnlyTheHead(r))
<1> SUFFICES ASSUME NEW r \in Refs, LatestIsQueued(r)' PROVE Good(r)'
  BY DEF HeadsInv
<1>0. /\ DeliveryInv /\ ShapesInv /\ JobsInv /\ \A j \in jobs : JobOK(j)
      /\ indexed \in [Refs -> Commits \cup {NoCommit}] /\ head \in [Refs -> Commits]
      /\ LatestIsQueued(r) => Good(r)
  BY DEF IndexedInv, DeliveryInv, ShapesInv, HeadsInv
<1>1. CASE LatestIsQueued(r) /\ head'[r] = head[r] /\ UNCHANGED <<jobs, indexed>>
  BY <1>0, <1>1 DEF Underway, OnlyTheHead
\* The newest push of a ref is queued only after it came.
<1>2. ASSUME NEW x \in Refs, NEW c \in Commits, Push(x, c) PROVE Good(r)'
  <2> DEFINE p == [ref |-> x, before |-> head[x], after |-> c]
  <2>1. /\ pushes' = Append(pushes, p) /\ p.ref = x
        /\ head' = [head EXCEPT ![x] = c] /\ UNCHANGED <<jobs, indexed, queued>>
    BY <1>2 DEF Push, indexVars, history
  <2> HIDE DEF p
  <2>2. /\ DOMAIN pushes = 1..Len(pushes) /\ Len(pushes) \in Nat /\ Len(pushes) + 1 <= MaxPushes
        /\ DOMAIN pushes' = 1..(Len(pushes) + 1) /\ pushes'[Len(pushes) + 1] = p
        /\ \A n \in DOMAIN pushes : pushes'[n] = pushes[n]
    <3>1. Len(pushes) + 1 <= MaxPushes
      BY <1>0, <1>2, PushTypes, DeliveryAssumption DEF Push
    <3>2. pushes \in Seq(Payloads) /\ p \in Payloads
      BY <1>0 DEF ShapesInv, p, Payloads
    <3> QED BY <1>0, <2>1, <3>1, <3>2, PushTypes
  <2>3. PICK n \in DOMAIN pushes' : /\ pushes'[n].ref = r /\ queued[n] > 0
                                    /\ \A m \in DOMAIN pushes' : pushes'[m].ref = r => m <= n
    BY <2>1 DEF LatestIsQueued
  <2>4. n \in PushIds /\ n \in DOMAIN pushes
    <3>1. n \in PushIds
      BY <2>2, DeliveryAssumption DEF PushIds
    <3> QED BY <1>0, <2>3, <3>1 DEF DeliveryInv, QueuedInv
  <2>5. x # r
    BY <2>1, <2>2, <2>3, <2>4
  <2>6. LatestIsQueued(r)
    BY <2>2, <2>3, <2>4 DEF LatestIsQueued
  <2> QED BY <1>0, <1>1, <2>1, <2>5, <2>6
<1>3. CASE UNCHANGED <<pushes, head>>
  <2>1. UNCHANGED queued => LatestIsQueued(r)
    BY <1>3 DEF LatestIsQueued
  <2>2. CASE UNCHANGED <<queued, jobs, indexed>>
    BY <1>1, <1>3, <2>1, <2>2
  \* A job that is still to run.
  <2>3. ASSUME NEW id, NEW x \in Refs, id = PollJob => x = Default,
               jobs' = jobs \cup {Pending(id, x)}, UNCHANGED indexed, x = r \/ LatestIsQueued(r)
        PROVE  Good(r)'
    <3> DEFINE k == Pending(id, x)
    <3>1. k.ref = x /\ k.status = "pending" /\ jobs' = jobs \cup {k}
      BY <2>3, PendingIsOK
    <3> HIDE DEF k
    <3>2. CASE x = r
      BY <3>1, <3>2 DEF Underway
    <3>3. CASE LatestIsQueued(r)
      BY <1>0, <1>3, <2>3, <3>1, <3>3 DEF Underway, OnlyTheHead
    <3> QED BY <2>3, <3>2, <3>3
  <2>4. CASE UNCHANGED queued /\ AddsJob
    BY <2>1, <2>3, <2>4 DEF AddsJob
  <2>5. ASSUME NEW q \in requests, Recorded(q), UNCHANGED indexed PROVE Good(r)'
    <3>1. /\ q.push \in PushIds /\ pushes[q.push].ref \in Refs /\ q.id # PollJob /\ DOMAIN pushes \subseteq PushIds
          /\ queued \in [PushIds -> Nat]
      BY <1>0, PushTypes DEF ShapesInv, RequestOK
    <3>2. CASE UNCHANGED <<queued, jobs>>
      BY <2>2, <2>5, <3>2
    <3>3. CASE queued' = [queued EXCEPT ![q.push] = @ + 1] /\ jobs' = jobs \cup {Pending(q.id, pushes[q.push].ref)}
      <4>1. pushes[q.push].ref = r \/ LatestIsQueued(r)
        BY <1>3, <3>1, <3>3 DEF LatestIsQueued
      <4> QED BY <2>3, <2>5, <3>1, <3>3, <4>1
    <3> QED BY <2>5, <3>2, <3>3 DEF Recorded
  <2>6. CASE UNCHANGED queued /\ Poll
    <3> DEFINE k == Pending(PollJob, Default)
    <3>1. jobs' = {j \in jobs : j.id # PollJob} \cup {k} /\ UNCHANGED indexed
      BY <2>6 DEF Poll, indexVars
    <3>2. k.ref = Default /\ k.status = "pending"
      BY PendingIsOK, DeliveryAssumption
    <3> HIDE DEF k
    <3>3. CASE Underway(r)
      <4>1. PICK j \in jobs : /\ j.ref = r
                              /\ \/ j.status \in {"pending", "failed"}
                                 \/ j.status = "running" /\ j.commit = head[r]
        BY <3>3 DEF Underway
      <4>2. CASE j.id = PollJob
        BY <1>0, <3>1, <3>2, <4>1, <4>2 DEF Underway, JobOK
      <4>3. CASE j.id # PollJob
        BY <1>3, <3>1, <4>1, <4>3 DEF Underway
      <4> QED BY <4>2, <4>3
    <3>4. CASE indexed[r] = head[r] /\ OnlyTheHead(r)
      BY <1>3, <3>1, <3>2, <3>4 DEF OnlyTheHead
    <3> QED BY <1>0, <2>1, <2>6, <3>3, <3>4
  <2>7. ASSUME NEW j \in jobs, StartJob(j), UNCHANGED queued PROVE Good(r)'
    <3> DEFINE k == [j EXCEPT !.status = "running", !.commit = head[j.ref]]
    <3>1. jobs' = (jobs \ {j}) \cup {k} /\ UNCHANGED indexed
      BY <2>7 DEF StartJob, SetJob, indexVars
    <3>2. k.ref = j.ref /\ k.status = "running" /\ k.commit = head[j.ref]
      <4>1. head[j.ref] \in Commits \cup {NoCommit} /\ JobOK(j)
        BY <1>0 DEF JobOK
      <4>2. j \in [id : {j.id}, ref : {j.ref}, status : {j.status}, commit : {j.commit}]
        BY <4>1 DEF JobOK, JobShape
      <4> QED BY <4>2
    <3> HIDE DEF k
    <3>3. CASE j.ref = r
      BY <1>3, <3>1, <3>2, <3>3 DEF Underway
    <3>4. CASE j.ref # r
      BY <1>0, <1>3, <2>1, <2>7, <3>1, <3>2, <3>4 DEF Underway, OnlyTheHead
    <3> QED BY <3>3, <3>4
  <2>8. ASSUME NEW j \in jobs, JobFails(j), UNCHANGED queued PROVE Good(r)'
    <3> DEFINE k == [j EXCEPT !.status = "failed"]
    <3>1. jobs' = (jobs \ {j}) \cup {k} /\ UNCHANGED indexed
      BY <2>8 DEF JobFails, SetJob, indexVars
    <3>2. k.ref = j.ref /\ k.status = "failed"
      BY <1>0, ChangedJob, CommitsAssumption, ZenonT(40)
    <3> HIDE DEF k
    <3>3. CASE j.ref = r
      BY <3>1, <3>2, <3>3 DEF Underway
    <3>4. CASE j.ref # r
      BY <1>0, <1>3, <2>1, <2>8, <3>1, <3>2, <3>4 DEF Underway, OnlyTheHead
    <3> QED BY <3>3, <3>4
  \* The only job that runs is finished: the index gets the commit it has read.
  <2>9. ASSUME NEW j \in jobs, FinishJob(j), UNCHANGED queued PROVE Good(r)'
    <3>1. /\ jobs' = jobs \ {j} /\ indexed' = [indexed EXCEPT ![j.ref] = j.commit] /\ j.status = "running"
          /\ \A k \in jobs : k.status = "running" => k = j
      BY <1>0, <2>9 DEF FinishJob, Completed, JobsInv
    <3>2. CASE Underway(r)
      <4>1. PICK k \in jobs : /\ k.ref = r
                              /\ \/ k.status \in {"pending", "failed"}
                                 \/ k.status = "running" /\ k.commit = head[r]
        BY <3>2 DEF Underway
      <4>2. CASE k = j
        BY <1>0, <1>3, <3>1, <4>1, <4>2 DEF OnlyTheHead
      <4>3. CASE k # j
        BY <1>3, <3>1, <4>1, <4>3 DEF Underway
      <4> QED BY <4>2, <4>3
    <3>3. CASE indexed[r] = head[r] /\ OnlyTheHead(r)
      BY <1>0, <1>3, <3>1, <3>3 DEF OnlyTheHead
    <3> QED BY <1>0, <2>1, <2>9, <3>2, <3>3
  <2> HIDE DEF Good
  <2> QED BY <1>0, <2>2, <2>4, <2>5, <2>6, <2>7, <2>8, <2>9, JobsAreStepped DEF JobsStep, WorkStep
<1> HIDE DEF Good
<1> QED BY <1>0, <1>2, <1>3, PushesAreKept

\* A push that was queued reaches the index also when it came while a running job had
\* already read the old head: the job that was queued for it reads the head when it starts
\* (worker.execute), and nothing that read an older one is left to overwrite it.
THEOREM QueuedPushReachesTheIndex == OneWorker => (Spec => []QueuedPushIsIndexed)
<1> SUFFICES ASSUME OneWorker PROVE Spec => []QueuedPushIsIndexed
  OBVIOUS
<1>1. Init => IndexedInv
  <2> SUFFICES ASSUME Init PROVE IndexedInv
    OBVIOUS
  <2>1. JobsInv
    BY FS_EmptySet DEF Init, JobsInv
  <2>2. HeadsInv
    BY DEF Init, HeadsInv, LatestIsQueued
  <2>3. pushes = <<>> /\ pushes \in Seq(Payloads) /\ Len(pushes) = 0 /\ 0 <= MaxPushes
    BY DeliveryAssumption DEF Init
  <2>4. head \in [Refs -> Commits]
    BY CommitsAssumption DEF Init
  <2> QED BY <2>1, <2>2, <2>3, <2>4 DEF Init, IndexedInv, DeliveryInv, ShapesInv, QueuedInv
<1>2. IndexedInv /\ [Next]_vars => IndexedInv'
  BY ShapesStep, QueuedStep, JobsInvStep, HeadsStep DEF IndexedInv, DeliveryInv
<1>3. IndexedInv => QueuedPushIsIndexed
  BY DEF IndexedInv, HeadsInv, LatestIsQueued, Underway, QueuedPushIsIndexed
<1> QED BY <1>1, <1>2, <1>3, PTL DEF Spec
=============================================================================
