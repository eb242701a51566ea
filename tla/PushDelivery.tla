---------------------------- MODULE PushDelivery ----------------------------
(***************************************************************************)
(* How a push to one repository becomes index work: the source server      *)
(* delivers an event, repeats it until it is answered, receiveWebhook and  *)
(* webhook.Service.Enqueue record it and queue a job, the scheduler's poll *)
(* queues what no event brought, and a worker's job publishes the head it  *)
(* reads (IndexQueue and RefIndex have the details of the job).            *)
(*                                                                         *)
(* The repository is registered meanwhile: registerRepository installs the *)
(* hook at the source before it inserts the row events are matched with.   *)
(***************************************************************************)
EXTENDS Integers, Sequences, FiniteSets

CONSTANTS
    Refs,
    Default,       \* the default branch
    IdKinds,       \* the kinds of servers
    MaxRequests,   \* bound: webhook requests served at the same time
    Workers,       \* index jobs run at the same time
    Commits,
    MaxPushes,     \* bound: pushes
    MaxAttempts,   \* bound: deliveries of a push before its sender gives up
    MaxFaults      \* bound: database errors, lost answers, failed jobs, wrong secrets, expired rows

ASSUME DeliveryAssumption ==
    /\ Default \in Refs
    /\ IdKinds \subseteq {"event", "request", "hash"}
    /\ MaxPushes \in Nat
    /\ MaxAttempts \in Nat \ {0}
    /\ MaxRequests \in Nat \ {0}
    /\ MaxFaults \in Nat

NoCommit == 0
ASSUME CommitsAssumption == Commits # {} /\ Commits \subseteq Nat \ {NoCommit}

VARIABLES
    (* the source server *)
    idKind,     \* what identifies its events, see EventId
    head,       \* the commit of every ref
    pushes,     \* the pushes so far; a push is its payload
    answer,     \* the answer that ended the deliveries of each; misled: a 404 that stands
                \* for a lookup that failed
    attempts,   \* how often it was delivered
    (* the platform *)
    setup,      \* how far registerRepository has come
    events,     \* webhook_events
    jobs,       \* index_jobs that are not completed; retention also deletes failed ones, which
                \* nothing reads any more: they are kept here
    recent,     \* repositories.indexed_at is younger than the poll interval
    indexed,    \* repository_ref_states.commit_id
    requests,   \* receiveWebhook calls under way
    (* history *)
    faults,
    queued,     \* jobs made of each push
    forgotten,  \* how often retention deleted the row of each push
    uncounted   \* an event was answered as a duplicate and counted nowhere

senderVars == <<idKind, head, pushes>>
indexVars == <<recent, indexed>>
history == <<queued, forgotten, uncounted>>
vars == <<idKind, head, pushes, answer, attempts, setup, events, jobs, recent, indexed,
          requests, faults, queued, forgotten, uncounted>>

Fault == faults < MaxFaults /\ faults' = faults + 1

PushIds == 1..MaxPushes
Payload(n) == pushes[n]
Payloads == [ref : Refs, before : Commits, after : Commits]

\* The header that identifies an event: one the sender keeps for every delivery
\* (X-Gitlab-Event-UUID), one of each request (X-Request-Id), or none, when
\* Enqueue takes the payload's hash.
EventId(n, k) ==
    CASE idKind = "event"   -> [kind |-> idKind, push |-> n, attempt |-> 0]
      [] idKind = "request" -> [kind |-> idKind, push |-> n, attempt |-> k]
      [] idKind = "hash"    -> [kind |-> idKind, attempt |-> 0,
                              push |-> CHOOSE m \in DOMAIN pushes :
                                         /\ Payload(m) = Payload(n)
                                         /\ \A l \in 1..(m - 1) : Payload(l) # Payload(n)]

PollJob == [kind |-> "poll", push |-> 0, attempt |-> 0]
InitialJob == [kind |-> "initial", push |-> 0, attempt |-> 0]
JobIds == [kind : {"event", "request", "hash"}, push : PushIds, attempt : 0..MaxAttempts]
              \cup {PollJob, InitialJob}

registered == setup \in {"inserted", "done"}
Live == {"pending", "running"}

Pending(id, r) == [id |-> id, ref |-> r, status |-> "pending", commit |-> NoCommit]

(***************************************************************************)
(* The source server.                                                      *)
(***************************************************************************)

Push(r, c) ==
    /\ Len(pushes) < MaxPushes
    /\ c # head[r]
    /\ pushes' = Append(pushes, [ref |-> r, before |-> head[r], after |-> c])
    /\ head' = [head EXCEPT ![r] = c]
    /\ UNCHANGED <<idKind, answer, attempts, setup, events, jobs, indexVars, requests, faults, history>>

\* A delivery, its repetition after no answer or a 5xx, or one that somebody asks the
\* server to send again.
Deliver(n) ==
    /\ setup # "none"
    /\ Cardinality(requests) < MaxRequests
    /\ attempts[n] < MaxAttempts
    /\ attempts' = [attempts EXCEPT ![n] = @ + 1]
    /\ requests' = requests \cup
         {[pc |-> "receive", push |-> n, attempt |-> attempts'[n], id |-> EventId(n, attempts'[n])]}
    /\ UNCHANGED <<senderVars, answer, setup, events, jobs, indexVars, faults, history>>

Continue(q, pc) == requests' = (requests \ {q}) \cup {[q EXCEPT !.pc = pc]}

\* A 5xx, or an answer that does not arrive: the sender repeats the delivery.
Unanswered(q) == requests' = requests \ {q} /\ UNCHANGED answer

\* Anything else ends the deliveries.
Tell(q, status) ==
    /\ requests' = requests \ {q}
    /\ answer' = [answer EXCEPT ![q.push] = IF @ = "none" THEN status ELSE @]

(***************************************************************************)
(* receiveWebhook and Enqueue.                                             *)
(***************************************************************************)

\* The webhook secret changed on one side: 401.
Unauthorized(q) ==
    /\ q.pc = "receive"
    /\ Fault
    /\ Tell(q, "refused")
    /\ UNCHANGED <<senderVars, attempts, setup, events, jobs, indexVars, history>>

Row(q, repository, status) ==
    [id |-> q.id, repository |-> repository, payload |-> Payload(q.push),
     status |-> status, duplicated |-> FALSE]

SameId(e, row) == e.id = row.id
SamePayload(e, row) == e.repository = row.repository /\ e.payload = row.payload

DedupById(row) == \E e \in events : SameId(e, row)

\* The unique indexes of webhook_events.
Conflicts(row) == \E e \in events : SameId(e, row) \/ SamePayload(e, row)

\* reject: ON CONFLICT DO NOTHING, under the source's own repository id.
Rejected(q) ==
    LET row == Row(q, "external", "rejected")
    IN  IF Conflicts(row) THEN events ELSE events \cup {row}

Lookup(q) ==
    /\ q.pc = "receive"
    /\ registered
    /\ Continue(q, "write")
    /\ UNCHANGED <<senderVars, answer, attempts, setup, events, jobs, indexVars, faults, history>>

UnknownRepository(q) ==
    /\ q.pc = "receive"
    /\ ~registered
    /\ events' = Rejected(q)
    /\ Tell(q, "refused")
    /\ UNCHANGED <<senderVars, attempts, setup, jobs, indexVars, faults, history>>

\* Any error of the lookup is answered like an unknown repository; the
\* rejection is recorded if the database answers again.
LookupFails(q) ==
    /\ q.pc = "receive"
    /\ Fault
    /\ events' \in {events, Rejected(q)}
    /\ Tell(q, IF registered THEN "misled" ELSE "refused")
    /\ UNCHANGED <<senderVars, attempts, setup, jobs, indexVars, history>>

CoalescedJob(q) ==
    LET ref == Payload(q.push).ref
    IN  IF \E j \in jobs : j.ref = ref /\ j.status \in Live THEN {} ELSE {Pending(q.id, ref)}
NewJob(q) == {Pending(q.id, Payload(q.push).ref)}

\* The transaction: the event and its job, or a duplicate that is counted on
\* the event with the same payload (duplicate_count).
Record(q) ==
    LET row == Row(q, "registered", "queued")
        counted == {e \in events : SamePayload(e, row)}
    IN  IF Conflicts(row)
        THEN /\ events' = (events \ counted) \cup {[e EXCEPT !.duplicated = TRUE] : e \in counted}
             /\ uncounted' = (uncounted \/ counted = {})
             /\ UNCHANGED <<jobs, queued>>
        ELSE /\ events' = events \cup {row}
             /\ jobs' = jobs \cup NewJob(q)
             /\ queued' = [queued EXCEPT ![q.push] = @ + 1]
             /\ UNCHANGED uncounted

Write(q) ==
    /\ q.pc = "write"
    /\ Record(q)
    /\ Tell(q, "accepted")
    /\ UNCHANGED <<senderVars, attempts, setup, indexVars, faults, forgotten>>

\* The transaction commits, the answer does not arrive.
LoseAnswer(q) ==
    /\ q.pc = "write"
    /\ Fault
    /\ Record(q)
    /\ Unanswered(q)
    /\ UNCHANGED <<senderVars, attempts, setup, indexVars, forgotten>>

\* The settings or the transaction fail.
DatabaseFails(q) ==
    /\ q.pc \in {"receive", "write"}
    /\ Fault
    /\ Unanswered(q)
    /\ UNCHANGED <<senderVars, attempts, setup, events, jobs, indexVars, history>>

(***************************************************************************)
(* registerRepository.                                                     *)
(***************************************************************************)

InstallHook ==
    /\ setup = "none"
    /\ setup' = "hooked"
    /\ UNCHANGED <<senderVars, answer, attempts, events, jobs, indexVars, requests, faults, history>>

InsertRepository ==
    /\ setup = "hooked"
    /\ setup' = "inserted"
    /\ UNCHANGED <<senderVars, answer, attempts, events, jobs, indexVars, requests, faults, history>>

QueueInitial ==
    /\ setup = "inserted"
    /\ setup' = "done"
    /\ jobs' = jobs \cup {Pending(InitialJob, Default)}
    /\ UNCHANGED <<senderVars, answer, attempts, events, indexVars, requests, faults, history>>

(***************************************************************************)
(* Scheduler.RunOnce.                                                      *)
(***************************************************************************)

Grow ==
    /\ recent
    /\ recent' = FALSE
    /\ UNCHANGED <<senderVars, answer, attempts, setup, events, jobs, indexed, requests, faults, history>>

PollsUnindexed == registered /\ \A r \in Refs : indexed[r] = NoCommit
DueForPoll == registered /\ ~recent /\ \A j \in jobs : j.status \notin Live

Poll ==
    /\ DueForPoll
    /\ jobs' = {j \in jobs : j.id # PollJob} \cup {Pending(PollJob, Default)}
    /\ UNCHANGED <<senderVars, answer, attempts, setup, events, indexVars, requests, faults, history>>

\* applyRetention: a row older than retention.webhookEventDays is deleted, whatever
\* became of its push.
ApplyRetention(e) ==
    /\ Fault
    /\ events' = events \ {e}
    /\ forgotten' = [n \in PushIds |->
         forgotten[n] + IF /\ e.repository = "registered"
                           /\ n \in DOMAIN pushes /\ e.payload = Payload(n)
                        THEN 1 ELSE 0]
    /\ UNCHANGED <<senderVars, answer, attempts, setup, jobs, indexVars, requests, queued, uncounted>>

(***************************************************************************)
(* The workers.                                                            *)
(***************************************************************************)

SetJob(j, k) == jobs' = (jobs \ {j}) \cup {k}

\* A completed job is never looked at again.
Completed(j) == jobs \ {j}

\* execute lists the branches and takes the ref's head.
StartJob(j) ==
    /\ j.status = "pending"
    /\ Cardinality({k \in jobs : k.status = "running"}) < Cardinality(Workers)
    /\ SetJob(j, [j EXCEPT !.status = "running", !.commit = head[j.ref]])
    /\ UNCHANGED <<senderVars, answer, attempts, setup, events, indexVars, requests, faults, history>>

\* Any ref's run renews the repository's indexed_at.
FinishJob(j) ==
    /\ j.status = "running"
    /\ jobs' = Completed(j)
    /\ indexed' = [indexed EXCEPT ![j.ref] = j.commit]
    /\ recent' = TRUE
    /\ UNCHANGED <<senderVars, answer, attempts, setup, events, requests, faults, history>>

\* A run of one of the repository's other branches, which are without number.
AnotherRun ==
    /\ registered
    /\ recent' = TRUE
    /\ UNCHANGED <<senderVars, answer, attempts, setup, events, jobs, indexed, requests, faults, history>>

JobFails(j) ==
    /\ j.status = "running"
    /\ Fault
    /\ SetJob(j, [j EXCEPT !.status = "failed"])
    /\ UNCHANGED <<senderVars, answer, attempts, setup, events, indexVars, requests, history>>

Init ==
    /\ idKind \in IdKinds
    /\ head = [r \in Refs |-> CHOOSE c \in Commits : TRUE]
    /\ pushes = <<>>
    /\ answer = [n \in PushIds |-> "none"]
    /\ attempts = [n \in PushIds |-> 0]
    /\ setup = "none"
    /\ events = {}
    /\ jobs = {}
    /\ recent = FALSE
    /\ indexed = [r \in Refs |-> NoCommit]
    /\ requests = {}
    /\ faults = 0
    /\ queued = [n \in PushIds |-> 0]
    /\ forgotten = [n \in PushIds |-> 0]
    /\ uncounted = FALSE

Receive(q) ==
    \/ Unauthorized(q) \/ Lookup(q) \/ UnknownRepository(q) \/ LookupFails(q)
    \/ Write(q) \/ LoseAnswer(q) \/ DatabaseFails(q)

Work == \E j \in jobs : StartJob(j) \/ FinishJob(j)

Next ==
    \/ \E r \in Refs, c \in Commits : Push(r, c)
    \/ \E n \in DOMAIN pushes : Deliver(n)
    \/ \E q \in requests : Receive(q)
    \/ InstallHook \/ InsertRepository \/ QueueInitial
    \/ Grow \/ Poll
    \/ \E e \in events : ApplyRetention(e)
    \/ Work \/ AnotherRun
    \/ \E j \in jobs : JobFails(j)

\* The scheduler ticks and the workers take jobs as long as the server runs.
Spec == Init /\ [][Next]_vars /\ WF_vars(Grow) /\ WF_vars(Poll) /\ WF_vars(Work)

-----------------------------------------------------------------------------
(* Properties *)

\* Every variable has its type.
TypeOK ==
    /\ idKind \in IdKinds
    /\ head \in [Refs -> Commits]
    /\ pushes \in Seq(Payloads) /\ Len(pushes) <= MaxPushes
    /\ answer \in [PushIds -> {"none", "accepted", "refused", "misled"}]
    /\ attempts \in [PushIds -> 0..MaxAttempts]
    /\ setup \in {"none", "hooked", "inserted", "done"}
    /\ \A e \in events : e.id \in JobIds /\ e.repository \in {"external", "registered"}
                         /\ e.payload \in Payloads /\ e.status \in {"queued", "rejected"}
    /\ \A j \in jobs : j.id \in JobIds /\ j.ref \in Refs /\ j.commit \in Commits \cup {NoCommit}
                       /\ j.status \in Live \cup {"failed"}
    /\ recent \in BOOLEAN
    /\ indexed \in [Refs -> Commits \cup {NoCommit}]
    /\ requests \subseteq [pc : {"receive", "write"}, push : PushIds,
                            attempt : 1..MaxAttempts, id : JobIds]

\* However often a push is delivered, under whatever event ids, with requests
\* served side by side and answers lost, it is queued once (webhook_events' unique
\* indexes with ON CONFLICT DO NOTHING), and again only when applyRetention has
\* deleted its row in between.
PushIsQueuedOnce == \A n \in PushIds : queued[n] <= 1 + forgotten[n]

\* A push that was queued is indexed: when no job of its ref is left and none
\* failed, the ref's head is published, even if the push came while a job that
\* had already read the old head was running.  (Two workers on one ref can
\* publish in the wrong order, see RefIndex, so this is for one worker.)
QueuedPushIsIndexed ==
    \A r \in Refs :
        LET of == {n \in DOMAIN pushes : pushes[n].ref = r}
        IN  (\E n \in of : queued[n] > 0 /\ \A m \in of : m <= n)
            /\ (\A j \in jobs : j.ref # r)
            => indexed[r] = head[r]

\* Whatever events are lost, refused or never sent, the poll brings the default
\* branch of a registered repository up to date again and again, once the
\* repository's further branches are quiet: RunOnce polls by the repository's
\* indexed_at, which a run of any ref renews.
DefaultBranchCatchesUp ==
    <>[][~AnotherRun]_vars => []<>(registered => indexed[Default] = head[Default])

\* "30분 polling 보정": a push to the default branch whose event is lost reaches the index
\* with a poll, without the condition above.  Disagreement (README, section 6).
MissedPushIsPolled == []<>(registered => indexed[Default] = head[Default])

\* "Anything else - a database that is down, for instance - must not be reported
\* as either, or the source server stops retrying": the sender is told to stop
\* only for what it or the operator got wrong.
RefusedForCause == \A n \in PushIds : answer[n] # "misled"

\* What the code's own comment promises and the code does not keep (README,
\* section 6): "The event is deduplicated, not forgotten": every event answered as a
\* duplicate is counted on the event it repeats.
DuplicatesAreCounted == ~uncounted
=============================================================================
