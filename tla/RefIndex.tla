------------------------------ MODULE RefIndex ------------------------------
(***************************************************************************)
(* What index runs do to one ref of one repository (indexer.syncRef, called *)
(* by worker.execute): the staging generation, the unchanged fast path, the *)
(* incremental and the full replacement, the publish transaction with its  *)
(* lease lock and its commit check, and the stamps repository_ref_states   *)
(* keeps of the policy and of the embedding model.                         *)
(*                                                                         *)
(* The job queue itself is IndexQueue; here a job is pending, running under*)
(* the lease of one worker, or absent.  A commit is its position in the    *)
(* ref's history and tree gives the version of every file at every commit. *)
(* A file's chunks, symbols and dependencies are one row: they are staged, *)
(* deleted and copied by the same statements.                              *)
(***************************************************************************)
EXTENDS Integers, FiniteSets, TLC

CONSTANTS
    Files,        \* paths of the repository
    Hidden,       \* paths only the wide policy accepts
    Manifests,    \* paths manifest.Recognize or RecognizeLock accepts
    Versions,     \* contents of a file
    Absent,       \* the file does not exist at a commit
    Models,       \* embedding identities (embedding.Metadata.Identity)
    Jobs,         \* index_jobs rows of this ref
    Workers,      \* replicas
    NoJob,
    NoWorker,
    MaxCommits,   \* bound: commits of the ref
    MaxEvents     \* bound: crashes, stalls, errors and changed settings

Unset == ""       \* a stamp that was never written

ASSUME RefIndexAssumption ==
    /\ Hidden \subseteq Files
    /\ Manifests \subseteq Files
    /\ Absent \notin Versions
    /\ "keyword-only" \notin Models
    /\ Unset \notin Models
    /\ NoJob \notin Jobs
    /\ NoWorker \notin Workers
    /\ MaxCommits \in Nat \ {0}
    /\ MaxEvents \in Nat

Policies == {"narrow", "wide"}
PolicyChangedRevision == "policy-changed"
NoCommit == 0
Commits == 1..MaxCommits
Revisions == Models \cup {"keyword-only"}
Rows == [path : Files, version : Versions, revision : Revisions]
Packages == [path : Manifests, version : Versions]

VARIABLES
    (* the source and the settings *)
    tree,       \* the version of every file at every commit up to head
    head,       \* the branch's latest commit
    policy,     \* repository_index_policies
    model,      \* the configured embedding model
    events,     \* crashes, stalls, errors and changed settings so far
    (* the database *)
    live,       \* document_chunks, code_symbols, code_dependencies
    listed,     \* repository_files
    packages,   \* repository_packages
    refState,   \* repository_ref_states: commit, policy and embedding revision
    staging,    \* per worker, the staged rows of its generation
    manifests,  \* per worker, the staged packages of its generation
    orphans,    \* staged rows of generations whose process died
    job,        \* status of the ref's jobs
    owner,      \* worker whose claim wrote started_at
    (* the workers *)
    run,        \* per worker, the locals of execute and syncRef
    (* history *)
    stale,      \* per worker, the ref was published since the run read it
    raced       \* two leased jobs of the ref have overtaken each other

settingVars == <<tree, head, policy, model>>
indexVars == <<live, listed, packages, refState>>
stagingVars == <<staging, manifests, orphans>>
jobVars == <<job, owner>>
vars == <<tree, head, policy, model, events, live, listed, packages, refState,
          staging, manifests, orphans, job, owner, run, stale, raced>>

NoRun == [pc |-> "idle", job |-> NoJob, target |-> NoCommit, policy |-> Unset,
          revision |-> Unset, prev |-> NoCommit, incremental |-> FALSE,
          removed |-> {}, doomed |-> {}]

Reading == {"collect", "refresh", "publish", "delete", "commit"}
InTransaction == {"delete", "commit"}
Places == {"idle", "prepare", "read", "done"} \cup Reading

(***************************************************************************)
(* Helpers of syncRef.                                                     *)
(***************************************************************************)

\* Policy and Indexer.allowed, reduced to the files the policies tell apart.
Allowed(p) == IF p = "wide" THEN Files ELSE Files \ Hidden

Present(c) == {f \in Files : tree[c][f] # Absent}

\* source.ChangeFeed.Changes: the paths that differ between two commits.
Changed(from, to) == {f \in Files : tree[from][f] # tree[to][f]}

policyChanged(w) ==
    refState.policy # Unset /\ refState.policy # run[w].policy

\* The ref needs nothing: same commit, same model, same policy.
Unchanged(w) ==
    /\ refState.commit # NoCommit
    /\ refState.commit = run[w].target
    /\ refState.revision = run[w].revision
    /\ ~policyChanged(w)

forceFull(w) ==
    /\ refState.commit = run[w].target
    /\ refState.revision # run[w].revision \/ policyChanged(w)

\* Indexer.lockJobLease: id, status and started_at still are this claim's.
NoLeaseCheck(w) == TRUE
lockJobLease(w) == job[run[w].job] = "running" /\ owner[run[w].job] = w

\* A published ref makes what the other runs read of it stale.
Published(w) ==
    /\ stale' = [v \in Workers |-> v # w /\ (stale[v] \/ run[v].pc \in Reading)]
    /\ raced' = IF stale[w] /\ lockJobLease(w) THEN "yes" ELSE raced

\* One more event that need not happen.
Event == events < MaxEvents /\ events' = events + 1

(***************************************************************************)
(* Jobs, settings and the source.                                          *)
(***************************************************************************)

\* A job row of the ref is inserted: webhook, poll, administrator.
Enqueue(j) ==
    /\ job[j] = "absent"
    /\ job' = [job EXCEPT ![j] = "pending"]
    /\ UNCHANGED <<events, settingVars, indexVars, stagingVars, owner, run, stale, raced>>

Push(t) ==
    /\ head < MaxCommits
    /\ head' = head + 1
    /\ tree' = [tree EXCEPT ![head + 1] = t]
    /\ UNCHANGED <<events, policy, model, indexVars, stagingVars, jobVars, run, stale, raced>>

\* App.putRepositoryPolicy and queuePolicyRebuild: the ref's fingerprint is
\* marked and a job is queued.
PutRepositoryPolicy(p, j) ==
    /\ p # policy
    /\ Event
    /\ job[j] = "absent"
    /\ policy' = p
    /\ refState' = IF refState.commit = NoCommit THEN refState
                   ELSE [refState EXCEPT !.policy = PolicyChangedRevision]
    /\ job' = [job EXCEPT ![j] = "pending"]
    /\ UNCHANGED <<tree, head, model, live, listed, packages, stagingVars, owner,
                   run, stale, raced>>

\* A new embedding model: App.enqueueReindexTargets queues the ref unless a job
\* of it is already waiting or running.
ChangeModel(m, j) ==
    /\ m # model
    /\ Event
    /\ model' = m
    /\ \/ /\ \A k \in Jobs : job[k] = "absent"
          /\ job' = [job EXCEPT ![j] = "pending"]
       \/ /\ \E k \in Jobs : job[k] # "absent"
          /\ UNCHANGED job
    /\ UNCHANGED <<tree, head, policy, indexVars, stagingVars, owner, run, stale, raced>>

Holds(w, j) == run[w].job = j /\ owner[j] = w

\* Worker.RecoverStaleJobs on a dead or a stalled run.  The lease row is locked while a
\* publish transaction is open, so recovery waits for it.
RecoverStaleJobs(j) ==
    /\ job[j] = "running"
    /\ \/ (\A w \in Workers : ~Holds(w, j)) /\ UNCHANGED events
       \/ \E w \in Workers : Holds(w, j) /\ run[w].pc \notin InTransaction /\ Event
    /\ job' = [job EXCEPT ![j] = "pending"]
    /\ UNCHANGED <<settingVars, indexVars, stagingVars, owner, run, stale, raced>>

\* Scheduler.RunOnce deletes staged rows older than any run.
CleanStaging ==
    /\ orphans # {}
    /\ orphans' = {}
    /\ UNCHANGED <<events, settingVars, indexVars, staging, manifests, jobVars, run, stale, raced>>

(***************************************************************************)
(* One index run.                                                          *)
(***************************************************************************)

Claim(w, j) ==
    /\ run[w].pc = "idle"
    /\ job[j] = "pending"
    /\ job' = [job EXCEPT ![j] = "running"]
    /\ owner' = [owner EXCEPT ![j] = w]
    /\ run' = [run EXCEPT ![w] = [NoRun EXCEPT !.pc = "prepare", !.job = j]]
    /\ UNCHANGED <<events, settingVars, indexVars, stagingVars, stale, raced>>

\* worker.execute up to ApplyPendingJob: the listed commit of the branch, the
\* saved policy, and the model unless its probe fails under hybrid-fallback.
Prepare(w, r) ==
    /\ run[w].pc = "prepare"
    /\ \/ r = model /\ UNCHANGED events
       \/ r = "keyword-only" /\ Event
    /\ run' = [run EXCEPT ![w].pc = "read", ![w].target = head,
                          ![w].policy = policy, ![w].revision = r]
    /\ UNCHANGED <<settingVars, indexVars, stagingVars, jobVars, stale, raced>>

\* syncRef reads the ref's state and chooses the fast path, the incremental
\* replacement (when the change feed answers) or the full one.
ReadState(w, incremental) ==
    /\ run[w].pc = "read"
    /\ incremental => refState.commit # NoCommit /\ ~forceFull(w) /\ ~Unchanged(w)
    /\ run' = [run EXCEPT ![w].pc = IF Unchanged(w) THEN "refresh" ELSE "collect",
                          ![w].prev = refState.commit,
                          ![w].incremental = incremental]
    /\ stale' = [stale EXCEPT ![w] = FALSE]
    /\ UNCHANGED <<events, settingVars, indexVars, stagingVars, jobVars, raced>>

\* The fast path's transaction: the stamps are written again.
Refresh(w) ==
    /\ run[w].pc = "refresh"
    /\ lockJobLease(w)
    /\ refState' = [commit |-> run[w].target, policy |-> run[w].policy,
                    revision |-> run[w].revision]
    /\ Published(w)
    /\ run' = [run EXCEPT ![w] = [NoRun EXCEPT !.pc = "done", !.job = run[w].job]]
    /\ UNCHANGED <<events, settingVars, live, listed, packages, stagingVars, jobVars>>

\* The paths this run was given to replace, and those it reads.
Replaced(w) == IF run[w].incremental THEN Changed(run[w].prev, run[w].target) ELSE Files
Given(w, paths) == paths \cap Present(run[w].target)

\* Every accepted file is read at the immutable commit and staged; an embedding
\* failure part of the way leaves the remaining rows without a vector.  A
\* manifest the policy excludes is read as well, and may be unreadable.
Collect(w, vectored, parsed) ==
    /\ run[w].pc = "collect"
    /\ LET given == Given(w, Replaced(w))
           wanted == given \cap Allowed(run[w].policy)
           readable == given \cap Manifests
           version == tree[run[w].target]
       IN  /\ vectored \subseteq wanted
           /\ wanted \cap Manifests \subseteq parsed
           /\ parsed \subseteq readable
           /\ \/ vectored = wanted /\ parsed = readable /\ UNCHANGED events
              \/ (vectored # wanted \/ parsed # readable) /\ Event
           /\ staging' = [staging EXCEPT ![w] =
                 {[path |-> f, version |-> version[f],
                   revision |-> IF f \in vectored THEN run[w].revision ELSE "keyword-only"]
                     : f \in wanted}]
           /\ manifests' = [manifests EXCEPT ![w] =
                 {[path |-> f, version |-> version[f]] : f \in parsed}]
           /\ run' = [run EXCEPT ![w].pc = "publish",
                                 ![w].removed = Replaced(w),
                                 ![w].incremental = FALSE,
                                 ![w].revision = IF vectored = wanted THEN @ ELSE "keyword-only"]
    /\ UNCHANGED <<settingVars, indexVars, orphans, jobVars, stale, raced>>

\* "index state changed concurrently" otherwise.
SameCommitAsRead(w) == refState.commit # NoCommit => refState.commit = run[w].prev

\* The publish transaction opens: lease lock and commit check.
Begin(w) ==
    /\ run[w].pc = "publish"
    /\ lockJobLease(w)
    /\ SameCommitAsRead(w)
    /\ run' = [run EXCEPT ![w].pc = "delete", ![w].prev = NoCommit]
    /\ UNCHANGED <<events, settingVars, indexVars, stagingVars, jobVars, stale, raced>>

\* The DELETE statements see the rows committed by now; on PostgreSQL another
\* publish of this ref may commit between them and the end of this transaction.
Delete(w) ==
    /\ run[w].pc = "delete"
    /\ run' = [run EXCEPT ![w].pc = "commit",
                          ![w].doomed = {r \in live : r.path \in run[w].removed}]
    /\ UNCHANGED <<events, settingVars, indexVars, stagingVars, jobVars, stale, raced>>

SameId(r, s) == r.path = s.path /\ r.version = s.version

\* The row id is a hash of path and content, so inserting a row that is still
\* there is a primary key violation and the transaction rolls back.
Collides(w) == \E r \in live \ run[w].doomed, s \in staging[w] : SameId(r, s)

CopiesAllStaging(w) == staging[w] \cup orphans
StagedRows(w) == staging[w]

FilesAfter(w) == (listed \ run[w].removed) \cup Given(w, run[w].removed)

PackagesAfter(w) == {p \in packages : p.path \notin run[w].removed} \cup manifests[w]

\* The rest of the transaction: recordFiles, the copy of the staged rows, the
\* package inventory, the stamps, and the end of the generation.
Commit(w) ==
    /\ run[w].pc = "commit"
    /\ ~Collides(w)
    /\ live' = (live \ run[w].doomed) \cup StagedRows(w)
    /\ listed' = FilesAfter(w)
    /\ packages' = PackagesAfter(w)
    /\ refState' = [commit |-> run[w].target, policy |-> run[w].policy,
                    revision |-> run[w].revision]
    /\ staging' = [staging EXCEPT ![w] = {}]
    /\ manifests' = [manifests EXCEPT ![w] = {}]
    /\ Published(w)
    /\ run' = [run EXCEPT ![w] = [NoRun EXCEPT !.pc = "done", !.job = run[w].job]]
    /\ UNCHANGED <<events, settingVars, orphans, jobVars>>

\* The worker settles its claim: completed, failed for good, or requeued.
EndRun(w, status) ==
    /\ \/ /\ lockJobLease(w)
          /\ job' = [job EXCEPT ![run[w].job] = status]
          /\ owner' = [owner EXCEPT ![run[w].job] = IF status = "absent" THEN NoWorker ELSE @]
       \/ /\ ~lockJobLease(w)
          /\ UNCHANGED jobVars
    /\ run' = [run EXCEPT ![w] = NoRun]
    /\ staging' = [staging EXCEPT ![w] = {}]
    /\ manifests' = [manifests EXCEPT ![w] = {}]
    /\ UNCHANGED <<settingVars, indexVars, orphans, stale, raced>>

Finish(w) ==
    /\ run[w].pc = "done"
    /\ EndRun(w, "absent")
    /\ UNCHANGED events

\* The checks of the transactions that reject this generation.
Rejected(w) ==
    \/ run[w].pc = "refresh" /\ ~lockJobLease(w)
    \/ run[w].pc = "publish" /\ ~(lockJobLease(w) /\ SameCommitAsRead(w))
    \/ run[w].pc = "commit" /\ Collides(w)

\* A rejected generation, or any error of the source, the model or the database:
\* fail() deletes the staged rows and the transaction is rolled back.
Fail(w, status) ==
    /\ run[w].pc \notin {"idle", "done"}
    /\ \/ Rejected(w) /\ UNCHANGED events
       \/ ~Rejected(w) /\ Event
    /\ EndRun(w, status)

\* The process dies: the open transaction is rolled back, the staged rows stay.
Crash(w) ==
    /\ run[w].pc # "idle"
    /\ Event
    /\ run' = [run EXCEPT ![w] = NoRun]
    /\ orphans' = orphans \cup staging[w]
    /\ staging' = [staging EXCEPT ![w] = {}]
    /\ manifests' = [manifests EXCEPT ![w] = {}]
    /\ UNCHANGED <<settingVars, indexVars, jobVars, stale, raced>>

Init ==
    /\ \E v \in Versions :
          tree = [c \in Commits |-> [f \in Files |-> IF c = 1 THEN v ELSE Absent]]
    /\ head = 1
    /\ policy = "narrow"
    /\ model \in Models
    /\ events = 0
    /\ live = {}
    /\ listed = {}
    /\ packages = {}
    /\ refState = [commit |-> NoCommit, policy |-> Unset, revision |-> Unset]
    /\ staging = [w \in Workers |-> {}]
    /\ manifests = [w \in Workers |-> {}]
    /\ orphans = {}
    /\ job = [j \in Jobs |-> "absent"]
    /\ owner = [j \in Jobs |-> NoWorker]
    /\ run = [w \in Workers |-> NoRun]
    /\ stale = [w \in Workers |-> FALSE]
    /\ raced = "no"

IndexRun(w) ==
    \/ \E j \in Jobs : Claim(w, j)
    \/ \E r \in Revisions : Prepare(w, r)
    \/ \E incremental \in BOOLEAN : ReadState(w, incremental)
    \/ Refresh(w)
    \/ \E vectored \in SUBSET Files, parsed \in SUBSET Manifests : Collect(w, vectored, parsed)
    \/ Begin(w)
    \/ Delete(w)
    \/ Commit(w)
    \/ Finish(w)
    \/ \E status \in {"pending", "absent"} : Fail(w, status)
    \/ Crash(w)

Next ==
    \/ \E f \in Files, v \in Versions \cup {Absent} : Push([tree[head] EXCEPT ![f] = v])
    \/ \E j \in Jobs : \/ Enqueue(j)
                       \/ RecoverStaleJobs(j)
                       \/ \E p \in Policies : PutRepositoryPolicy(p, j)
                       \/ \E m \in Models : ChangeModel(m, j)
    \/ CleanStaging
    \/ \E w \in Workers : IndexRun(w)

Spec == Init /\ [][Next]_vars

\* File contents, replicas and models are interchangeable.
Symmetry == Permutations(Versions) \cup Permutations(Workers) \cup Permutations(Models)

-----------------------------------------------------------------------------
(* Properties *)

Locals == [pc : Places, job : Jobs \cup {NoJob}, target : 0..MaxCommits,
           policy : Policies \cup {Unset}, revision : Revisions \cup {Unset},
           prev : 0..MaxCommits, incremental : BOOLEAN, removed : SUBSET Files,
           doomed : SUBSET Rows]

\* Every variable has its type.
TypeOK ==
    /\ tree \in [Commits -> [Files -> Versions \cup {Absent}]]
    /\ head \in Commits
    /\ policy \in Policies
    /\ model \in Models
    /\ events \in 0..MaxEvents
    /\ live \subseteq Rows
    /\ listed \subseteq Files
    /\ packages \subseteq Packages
    /\ refState \in [commit : 0..MaxCommits,
                     policy : Policies \cup {Unset, PolicyChangedRevision},
                     revision : Revisions \cup {Unset}]
    /\ staging \in [Workers -> SUBSET Rows]
    /\ manifests \in [Workers -> SUBSET Packages]
    /\ orphans \subseteq Rows
    /\ job \in [Jobs -> {"absent", "pending", "running"}]
    /\ owner \in [Jobs -> Workers \cup {NoWorker}]
    /\ run \in [Workers -> Locals]
    /\ stale \in [Workers -> BOOLEAN]
    /\ raced \in {"yes", "no"}

\* The live rows are the ref at the stamped commit: no file is there in another
\* version than the commit's, or twice, or after the commit removed it, and every
\* file both policies accept is there.
RowsAreTheCommit ==
    refState.commit # NoCommit =>
        /\ \A r \in live : r.version = tree[refState.commit][r.path]
        /\ \A f \in Present(refState.commit) \ Hidden :
              Cardinality({r \in live : r.path = f}) = 1

\* However runs fail, crash, lose their lease and are repeated, and whichever
\* commits, policies and models they meet, the live rows, the file listing and
\* the package inventory are those of the commit repository_ref_states names,
\* as long as no two leased jobs of the ref overtake each other (syncRef).
IndexMatchesCommit ==
    raced = "no" =>
        /\ RowsAreTheCommit
        /\ refState.commit # NoCommit =>
              /\ listed = Present(refState.commit)
              /\ \A p \in packages : p.version = tree[refState.commit][p.path]

\* The index of the ref changes only in a step of a worker that holds the lease
\* of a job of the ref at that moment: a stale worker's generation is rejected
\* (JobLease: "the swap transaction must reject that generation").
OnlyLeaseHolderPublishes ==
    [][<<live, listed, packages, refState.commit>>' # <<live, listed, packages, refState.commit>> =>
          \E w \in Workers : /\ run[w].pc \in {"refresh", "commit"} /\ run'[w].pc = "done"
                             /\ job[run[w].job] = "running" /\ owner[run[w].job] = w]_vars

\* syncRef: "A changed policy invalidates the whole ref, not the files a diff
\* names" - so the paths indexed are those of the policy the ref is stamped with.
StampedPolicyGovernsContent ==
    refState.commit # NoCommit /\ refState.policy \in Policies =>
        {r.path : r \in live} = Present(refState.commit) \cap Allowed(refState.policy)

\* syncRef rejects a publish when the "index state changed concurrently", so that
\* two replicas indexing one ref never mix their generations.
NoMixedGenerations == RowsAreTheCommit
=============================================================================
