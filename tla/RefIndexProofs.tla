---------------------------- MODULE RefIndexProofs ----------------------------
(***************************************************************************)
(* The index of one ref (RefIndex) for any number of files, jobs, workers, *)
(* commits and models: only a run that holds its lease publishes, and what *)
(* is published is the commit repository_ref_states names.                 *)
(*                                                                         *)
(* A run reads the ref's state, the files of its commit and the rows it    *)
(* will delete at different times, while other runs publish, jobs are      *)
(* recovered and commits are pushed.  RunInv says what a run still knows   *)
(* at each place of syncRef: inside the publish transaction it holds the   *)
(* lease; what it staged is its commit's; and, unless another run has      *)
(* published since it read the ref's state, the paths it replaces are all  *)
(* of them or those in which its commit differs from the stamped one.      *)
(***************************************************************************)
EXTENDS RefIndex, FiniteSetTheorems, TLAPS

\* The rows of the given paths: each in the commit's version, none of them twice, and
\* every file that both policies accept.
RowsMatch(rows, paths, version) ==
  /\ \A r \in rows : r.path \in paths /\ r.version = version[r.path]
  /\ \A r, s \in rows : r.path = s.path => r = s
  /\ \A f \in paths \ Hidden : version[f] # Absent => \E r \in rows : r.path = f

PackagesMatch(inventory, version) == \A p \in inventory : p.version = version[p.path]

Publishing == {"publish", "delete", "commit"}

RunInv(w) ==
  /\ run[w].pc # "idle" => run[w].job \in Jobs
  /\ run[w].pc \in InTransaction => lockJobLease(w)
  /\ run[w].pc \in Reading \cup {"read"} => run[w].target \in 1..head /\ run[w].revision \in Revisions
  /\ run[w].pc \in Publishing =>
       /\ RowsMatch(staging[w], run[w].removed, tree[run[w].target])
       /\ PackagesMatch(manifests[w], tree[run[w].target])
  /\ ~stale[w] =>
       /\ run[w].pc = "refresh" => refState.commit = run[w].target
       /\ run[w].pc = "collect" => /\ run[w].prev = refState.commit
                                   /\ run[w].incremental => refState.commit # NoCommit
       /\ run[w].pc \in Publishing =>
            \/ run[w].removed = Files
            \/ /\ refState.commit # NoCommit
               /\ run[w].removed = Changed(refState.commit, run[w].target)
       /\ run[w].pc = "commit" => run[w].doomed = {r \in live : r.path \in run[w].removed}

IndexInv ==
  raced = "no" /\ refState.commit # NoCommit =>
    /\ RowsMatch(live, Files, tree[refState.commit])
    /\ listed = Present(refState.commit)
    /\ PackagesMatch(packages, tree[refState.commit])

RefIndexInv ==
  /\ TypeOK
  /\ refState.commit \in 0..head
  /\ \A w \in Workers : RunInv(w)
  /\ IndexInv

-----------------------------------------------------------------------------
(* Types. *)

LEMMA Bounds == MaxCommits \in Nat \ {0} /\ MaxEvents \in Nat
BY RefIndexAssumption

LEMMA EventType ==
  ASSUME TypeOK, Event
  PROVE  events' \in 0..MaxEvents
<1>1. events \in 0..MaxEvents
  BY DEF TypeOK
<1> QED BY <1>1, Bounds DEF Event

LEMMA RunTypes ==
  ASSUME TypeOK, NEW w \in Workers
  PROVE  /\ run[w] \in Locals /\ run[w].job \in Jobs \cup {NoJob} /\ run[w].target \in 0..MaxCommits
         /\ run[w].policy \in Policies \cup {Unset} /\ run[w].revision \in Revisions \cup {Unset}
         /\ run[w].prev \in 0..MaxCommits /\ run[w].incremental \in BOOLEAN
         /\ run[w].removed \subseteq Files /\ run[w].doomed \subseteq Rows
         /\ staging[w] \subseteq Rows /\ manifests[w] \subseteq Packages
         /\ run \in [Workers -> Locals]
<1>1. run[w] \in Locals /\ run \in [Workers -> Locals]
  BY DEF TypeOK
<1>2. staging[w] \subseteq Rows /\ manifests[w] \subseteq Packages
  BY DEF TypeOK
<1> QED BY <1>1, <1>2 DEF Locals

LEMMA NoRunType ==
  /\ NoRun \in Locals /\ NoRun.pc = "idle"
  /\ \A j \in Jobs, pc \in Places :
       LET v == [NoRun EXCEPT !.pc = pc, !.job = j]
       IN  v \in Locals /\ v.pc = pc /\ v.job = j
<1>1. NoCommit \in 0..MaxCommits
  BY Bounds DEF NoCommit
<1>2. NoRun \in Locals
  BY <1>1 DEF NoRun, Locals, Places
<1>3. \A j \in Jobs, pc \in Places :
        LET v == [NoRun EXCEPT !.pc = pc, !.job = j] IN v \in Locals /\ v.pc = pc /\ v.job = j
  BY <1>2 DEF Locals
<1> QED BY <1>2, <1>3 DEF NoRun

LEMMA TreeType ==
  ASSUME TypeOK, NEW c \in 1..head
  PROVE  /\ c \in Commits /\ c \in 0..MaxCommits
         /\ \A f \in Files : tree[c][f] \in Versions \cup {Absent}
         /\ \A f \in Present(c) : f \in Files /\ tree[c][f] \in Versions
<1>1. c \in Commits /\ c \in 0..MaxCommits
  BY Bounds DEF TypeOK, Commits
<1>2. \A f \in Files : tree[c][f] \in Versions \cup {Absent}
  BY <1>1 DEF TypeOK
<1> QED BY <1>1, <1>2 DEF Present

\* One worker's run is given another value.
LEMMA SetRun ==
  ASSUME run \in [Workers -> Locals], NEW w \in Workers, NEW v \in Locals, run' = [run EXCEPT ![w] = v]
  PROVE  /\ run' \in [Workers -> Locals] /\ run'[w] = v
         /\ \A u \in Workers : u # w => run'[u] = run[u]
OBVIOUS

LEMMA TypeStep == RefIndexInv /\ [Next]_vars => TypeOK'
<1> SUFFICES ASSUME RefIndexInv, [Next]_vars PROVE TypeOK'
  OBVIOUS
<1>0. TypeOK
  BY DEF RefIndexInv
<1>1. CASE UNCHANGED vars
  BY <1>0, <1>1 DEF vars, TypeOK
<1>2. ASSUME NEW f \in Files, NEW v \in Versions \cup {Absent}, Push([tree[head] EXCEPT ![f] = v])
      PROVE  TypeOK'
  <2>1. head \in Commits /\ head' \in Commits
    BY <1>0, <1>2, Bounds DEF TypeOK, Push, Commits
  <2>2. [tree[head] EXCEPT ![f] = v] \in [Files -> Versions \cup {Absent}]
    BY <1>0, <2>1 DEF TypeOK
  <2>3. tree' \in [Commits -> [Files -> Versions \cup {Absent}]]
    BY <1>0, <1>2, <2>2 DEF TypeOK, Push
  <2> QED BY <1>0, <1>2, <2>1, <2>3 DEF TypeOK, Push, indexVars, stagingVars, jobVars
<1>3. ASSUME NEW j \in Jobs, Enqueue(j) \/ RecoverStaleJobs(j) PROVE TypeOK'
  BY <1>0, <1>3, EventType DEF TypeOK, Enqueue, RecoverStaleJobs, settingVars, indexVars, stagingVars
<1>4. ASSUME NEW j \in Jobs, NEW p \in Policies, PutRepositoryPolicy(p, j) PROVE TypeOK'
  <2>1. refState' \in [commit : 0..MaxCommits, policy : Policies \cup {Unset, PolicyChangedRevision},
                       revision : Revisions \cup {Unset}]
    BY <1>0, <1>4 DEF TypeOK, PutRepositoryPolicy
  <2>2. events' \in 0..MaxEvents /\ job' \in [Jobs -> {"absent", "pending", "running"}] /\ policy' \in Policies
    BY <1>0, <1>4, EventType DEF TypeOK, PutRepositoryPolicy
  <2> QED BY <1>0, <1>4, <2>1, <2>2 DEF TypeOK, PutRepositoryPolicy, stagingVars
<1>5. ASSUME NEW j \in Jobs, NEW m \in Models, ChangeModel(m, j) PROVE TypeOK'
  BY <1>0, <1>5, EventType DEF TypeOK, ChangeModel, indexVars, stagingVars
<1>6. CASE CleanStaging
  BY <1>0, <1>6 DEF TypeOK, CleanStaging, settingVars, indexVars, jobVars
<1>7. ASSUME NEW w \in Workers, NEW j \in Jobs, Claim(w, j) PROVE TypeOK'
  <2>1. run' \in [Workers -> Locals]
    BY <1>0, <1>7, NoRunType DEF TypeOK, Claim, Places
  <2> QED BY <1>0, <1>7, <2>1 DEF TypeOK, Claim, settingVars, indexVars, stagingVars
<1>8. ASSUME NEW w \in Workers, NEW r \in Revisions, Prepare(w, r) PROVE TypeOK'
  <2> DEFINE v == [run[w] EXCEPT !.pc = "read", !.target = head, !.policy = policy, !.revision = r]
  <2>1. head \in 0..MaxCommits /\ policy \in Policies
    BY <1>0, Bounds DEF TypeOK, Commits
  <2>2. v \in Locals
    BY <1>0, <2>1, RunTypes DEF Locals, Places
  <2>3. run' = [run EXCEPT ![w] = v]
    BY <1>8 DEF Prepare
  <2> HIDE DEF v
  <2>4. run' \in [Workers -> Locals]
    BY <1>0, <2>2, <2>3 DEF TypeOK
  <2>5. events' \in 0..MaxEvents
    BY <1>0, <1>8, EventType DEF Prepare, TypeOK
  <2> QED BY <1>0, <1>8, <2>4, <2>5 DEF TypeOK, Prepare, settingVars, indexVars, stagingVars, jobVars
<1>9. ASSUME NEW w \in Workers, NEW incremental \in BOOLEAN, ReadState(w, incremental) PROVE TypeOK'
  <2> DEFINE pc == IF Unchanged(w) THEN "refresh" ELSE "collect"
             v == [run[w] EXCEPT !.pc = pc, !.prev = refState.commit, !.incremental = incremental]
  <2>1. refState.commit \in 0..MaxCommits /\ pc \in Places
    BY <1>0 DEF TypeOK, Places, Reading
  <2>2. run' = [run EXCEPT ![w] = v]
    BY <1>9 DEF ReadState
  <2> HIDE DEF pc
  <2>3. v \in Locals
    BY <1>0, <2>1, RunTypes DEF Locals
  <2> HIDE DEF v
  <2>4. run' \in [Workers -> Locals]
    BY <1>0, <2>2, <2>3 DEF TypeOK
  <2>5. stale' \in [Workers -> BOOLEAN]
    <3>1. stale' = [stale EXCEPT ![w] = FALSE] /\ stale \in [Workers -> BOOLEAN]
      BY <1>0, <1>9 DEF TypeOK, ReadState
    <3> QED BY <3>1
  <2> QED BY <1>0, <1>9, <2>4, <2>5 DEF TypeOK, ReadState, settingVars, indexVars, stagingVars, jobVars
<1>10. ASSUME NEW w \in Workers, run[w].pc # "idle",
              refState' = [commit |-> run[w].target, policy |-> run[w].policy, revision |-> run[w].revision],
              Published(w), run' = [run EXCEPT ![w] = [NoRun EXCEPT !.pc = "done", !.job = run[w].job]]
       PROVE  /\ refState' \in [commit : 0..MaxCommits, policy : Policies \cup {Unset, PolicyChangedRevision},
                                revision : Revisions \cup {Unset}]
              /\ run' \in [Workers -> Locals]
              /\ stale' \in [Workers -> BOOLEAN] /\ raced' \in {"yes", "no"}
  <2>1. run[w].job \in Jobs
    BY <1>10 DEF RefIndexInv, RunInv
  <2>2. run' \in [Workers -> Locals]
    <3> DEFINE v == [NoRun EXCEPT !.pc = "done", !.job = run[w].job]
    <3>1. v \in Locals
      BY <2>1, NoRunType DEF Places
    <3>2. run' = [run EXCEPT ![w] = v]
      BY <1>10
    <3> HIDE DEF v
    <3> QED BY <1>0, <3>1, <3>2 DEF TypeOK
  <2>3. stale' \in [Workers -> BOOLEAN] /\ raced' \in {"yes", "no"}
    <3>1. \A v \in Workers : (v # w /\ (stale[v] \/ run[v].pc \in Reading)) \in BOOLEAN
      OBVIOUS
    <3> QED BY <1>0, <1>10, <3>1 DEF TypeOK, Published
  <2> QED BY <1>0, <1>10, <2>2, <2>3, RunTypes
<1>11. ASSUME NEW w \in Workers, Refresh(w) PROVE TypeOK'
  <2>1. run[w].pc # "idle"
    BY <1>11 DEF Refresh
  <2> QED BY <1>0, <1>10, <1>11, <2>1 DEF TypeOK, Refresh, settingVars, stagingVars, jobVars
<1>12. ASSUME NEW w \in Workers, NEW vectored \in SUBSET Files, NEW parsed \in SUBSET Manifests,
              Collect(w, vectored, parsed)
       PROVE  TypeOK'
  <2> DEFINE given == Given(w, Replaced(w))
             wanted == given \cap Allowed(run[w].policy)
             rows == {[path |-> f, version |-> tree[run[w].target][f],
                   revision |-> IF f \in vectored THEN run[w].revision ELSE "keyword-only"] : f \in wanted}
             found == {[path |-> f, version |-> tree[run[w].target][f]] : f \in parsed}
             removed == Replaced(w)
             revision == IF vectored = wanted THEN run[w].revision ELSE "keyword-only"
             v == [run[w] EXCEPT !.pc = "publish", !.removed = removed, !.incremental = FALSE,
                                 !.revision = revision]
  <2>1. /\ staging' = [staging EXCEPT ![w] = rows] /\ manifests' = [manifests EXCEPT ![w] = found]
        /\ run' = [run EXCEPT ![w] = v]
        /\ parsed \subseteq given /\ vectored \subseteq wanted
    BY <1>12 DEF Collect
  <2>2. run[w].target \in 1..head
    BY <1>12 DEF Collect, RefIndexInv, RunInv, Reading
  <2>3. \A f \in given : f \in Files /\ tree[run[w].target][f] \in Versions
    BY <1>0, <2>2, TreeType DEF Given
  <2>4. removed \subseteq Files
    BY DEF Replaced, Changed
  <2>5. "keyword-only" \in Revisions
    BY DEF Revisions
  <2>6. revision \in Revisions \cup {Unset}
    BY <1>0, <2>5, RunTypes
  <2> HIDE DEF revision, removed
  <2>7. v \in Locals
    BY <1>0, <2>4, <2>6, RunTypes, ZenonT(40) DEF Locals, Places, Reading
  <2> HIDE DEF v
  <2>8. found \subseteq Packages
    BY <2>1, <2>3 DEF Packages
  <2> HIDE DEF found
  <2>9. rows \subseteq Rows
    <3>1. run[w].revision \in Revisions
      BY <1>12 DEF Collect, RefIndexInv, RunInv, Reading
    <3> QED BY <2>3, <2>5, <3>1 DEF Rows
  <2> HIDE DEF rows
  <2>10. /\ staging' \in [Workers -> SUBSET Rows] /\ manifests' \in [Workers -> SUBSET Packages]
         /\ run' \in [Workers -> Locals]
    BY <1>0, <2>1, <2>7, <2>8, <2>9 DEF TypeOK
  <2>11. events' \in 0..MaxEvents
    BY <1>0, <1>12, EventType DEF Collect, TypeOK
  <2> QED BY <1>0, <1>12, <2>10, <2>11 DEF TypeOK, Collect, settingVars, indexVars, jobVars
<1>13. ASSUME NEW w \in Workers, Begin(w) \/ Delete(w) PROVE TypeOK'
  <2>1. CASE Begin(w)
    <3> DEFINE v == [run[w] EXCEPT !.pc = "delete", !.prev = NoCommit]
    <3>0. 0 \in 0..MaxCommits
      BY Bounds
    <3>1. v \in Locals
      BY <1>0, <3>0, RunTypes DEF Locals, Places, Reading, NoCommit
    <3>2. run' = [run EXCEPT ![w] = v]
      BY <2>1 DEF Begin
    <3> HIDE DEF v
    <3>3. run' \in [Workers -> Locals]
      BY <1>0, <3>1, <3>2 DEF TypeOK
    <3> QED BY <1>0, <2>1, <3>3 DEF TypeOK, Begin, settingVars, indexVars, stagingVars, jobVars
  <2>2. CASE Delete(w)
    <3> DEFINE doomed == {r \in live : r.path \in run[w].removed}
               v == [run[w] EXCEPT !.pc = "commit", !.doomed = doomed]
    <3>1. doomed \subseteq Rows
      BY <1>0 DEF TypeOK
    <3>2. run' = [run EXCEPT ![w] = v]
      BY <2>2 DEF Delete
    <3> HIDE DEF doomed
    <3>3. v \in Locals
      BY <1>0, <3>1, RunTypes, ZenonT(40) DEF Locals, Places, Reading
    <3> HIDE DEF v
    <3>4. run' \in [Workers -> Locals]
      BY <1>0, <3>2, <3>3 DEF TypeOK
    <3> QED BY <1>0, <2>2, <3>4 DEF TypeOK, Delete, settingVars, indexVars, stagingVars, jobVars
  <2> QED BY <1>13, <2>1, <2>2
<1>14. ASSUME NEW w \in Workers, Commit(w) PROVE TypeOK'
  <2>1. run[w].pc # "idle"
    BY <1>14 DEF Commit
  <2>2. live' \subseteq Rows /\ listed' \subseteq Files /\ packages' \subseteq Packages
    BY <1>0, <1>14, RunTypes DEF TypeOK, Commit, StagedRows, FilesAfter, Given, Present, PackagesAfter
  <2>3. staging' \in [Workers -> SUBSET Rows] /\ manifests' \in [Workers -> SUBSET Packages]
    BY <1>0, <1>14 DEF TypeOK, Commit
  <2> QED BY <1>0, <1>10, <1>14, <2>1, <2>2, <2>3 DEF TypeOK, Commit, settingVars, jobVars
<1>15. ASSUME NEW w \in Workers, NEW status \in {"pending", "absent"}, EndRun(w, status),
              events' \in 0..MaxEvents
       PROVE  TypeOK'
  <2>1. run' \in [Workers -> Locals]
    BY <1>0, <1>15, NoRunType DEF TypeOK, EndRun
  <2>2. staging' \in [Workers -> SUBSET Rows] /\ manifests' \in [Workers -> SUBSET Packages]
    BY <1>0, <1>15 DEF TypeOK, EndRun
  <2>3. job' \in [Jobs -> {"absent", "pending", "running"}] /\ owner' \in [Jobs -> Workers \cup {NoWorker}]
    BY <1>0, <1>15 DEF TypeOK, EndRun, jobVars
  <2> QED BY <1>0, <1>15, <2>1, <2>2, <2>3 DEF TypeOK, EndRun, settingVars, indexVars
<1>16. ASSUME NEW w \in Workers, Finish(w) PROVE TypeOK'
  BY <1>0, <1>15, <1>16 DEF Finish, TypeOK
<1>17. ASSUME NEW w \in Workers, NEW status \in {"pending", "absent"}, Fail(w, status) PROVE TypeOK'
  <2>1. events' \in 0..MaxEvents
    BY <1>0, <1>17, EventType DEF Fail, TypeOK
  <2> QED BY <1>15, <1>17, <2>1 DEF Fail
<1>18. ASSUME NEW w \in Workers, Crash(w) PROVE TypeOK'
  <2>1. run' \in [Workers -> Locals]
    BY <1>0, <1>18, NoRunType DEF TypeOK, Crash
  <2>2. /\ staging' \in [Workers -> SUBSET Rows] /\ manifests' \in [Workers -> SUBSET Packages]
        /\ orphans' \subseteq Rows /\ events' \in 0..MaxEvents
    BY <1>0, <1>18, EventType DEF TypeOK, Crash
  <2> QED BY <1>0, <1>18, <2>1, <2>2 DEF TypeOK, Crash, settingVars, indexVars, jobVars
<1> QED BY <1>1, <1>2, <1>3, <1>4, <1>5, <1>6, <1>7, <1>8, <1>9, <1>11, <1>12, <1>13, <1>14, <1>16, <1>17, <1>18
        DEF Next, IndexRun
-----------------------------------------------------------------------------
(* What a run keeps while others step. *)

\* Pushed commits change none that was there.
TreeKept ==
  /\ head \in Nat /\ head' \in Nat /\ head <= head'
  /\ \A c \in 1..head : tree'[c] = tree[c]

LEMMA TreeStep ==
  ASSUME RefIndexInv, [Next]_vars
  PROVE  TreeKept
<1>0. head \in 1..MaxCommits /\ tree \in [Commits -> [Files -> Versions \cup {Absent}]]
  BY DEF RefIndexInv, TypeOK, Commits
<1>1. CASE UNCHANGED <<tree, head>>
  BY <1>0, <1>1, Bounds DEF TreeKept
<1>2. ASSUME NEW t, Push(t) PROVE TreeKept
  BY <1>0, <1>2, Bounds DEF TreeKept, Push, Commits
<1>3. CASE UNCHANGED vars \/ CleanStaging
  BY <1>1, <1>3 DEF vars, CleanStaging, settingVars
<1>4. ASSUME NEW j \in Jobs, Enqueue(j) \/ RecoverStaleJobs(j) PROVE TreeKept
  BY <1>1, <1>4 DEF Enqueue, RecoverStaleJobs, settingVars
<1>5. ASSUME NEW j \in Jobs, NEW p, PutRepositoryPolicy(p, j) \/ ChangeModel(p, j) PROVE TreeKept
  BY <1>1, <1>5 DEF PutRepositoryPolicy, ChangeModel
<1>6. ASSUME NEW w \in Workers, NEW x, NEW y,
             \/ Claim(w, x) \/ Prepare(w, x) \/ ReadState(w, x) \/ Refresh(w) \/ Collect(w, x, y)
             \/ Begin(w) \/ Delete(w) \/ Commit(w)
      PROVE  TreeKept
  BY <1>1, <1>6 DEF Claim, Prepare, ReadState, Refresh, Collect, Begin, Delete, Commit, settingVars
<1>7. ASSUME NEW w \in Workers, NEW x, Finish(w) \/ Fail(w, x) \/ Crash(w) PROVE TreeKept
  BY <1>1, <1>7 DEF Finish, Fail, Crash, EndRun, settingVars
<1> QED BY <1>2, <1>3, <1>4, <1>5, <1>6, <1>7 DEF Next, IndexRun

\* The lease of an open publish transaction is locked: nobody recovers, settles or claims
\* the job meanwhile.
LEMMA LeaseStep ==
  ASSUME RefIndexInv, [Next]_vars, NEW v \in Workers, run'[v] = run[v], run[v].pc \in InTransaction
  PROVE  lockJobLease(v)'
<1> DEFINE k == run[v].job
           Kept == job'[k] = "running" /\ owner'[k] = v
<1>0. /\ k \in Jobs /\ job[k] = "running" /\ owner[k] = v
      /\ job \in [Jobs -> {"absent", "pending", "running"}] /\ owner \in [Jobs -> Workers \cup {NoWorker}]
  BY DEF RefIndexInv, RunInv, TypeOK, lockJobLease, InTransaction
<1> SUFFICES Kept
  BY DEF lockJobLease
<1> HIDE DEF k
<1>1. CASE UNCHANGED jobVars
  BY <1>0, <1>1 DEF jobVars
<1>2. ASSUME NEW j \in Jobs, NEW p, Enqueue(j) \/ PutRepositoryPolicy(p, j) PROVE Kept
  BY <1>0, <1>2 DEF Enqueue, PutRepositoryPolicy
<1>3. ASSUME NEW j \in Jobs, NEW m, ChangeModel(m, j) PROVE Kept
  BY <1>0, <1>3 DEF ChangeModel
<1>4. ASSUME NEW j \in Jobs, RecoverStaleJobs(j) PROVE Kept
  <2>1. j # k
    BY <1>0, <1>4 DEF RecoverStaleJobs, Holds, k
  <2> QED BY <1>0, <1>4, <2>1 DEF RecoverStaleJobs
<1>5. ASSUME NEW w \in Workers, NEW j \in Jobs, Claim(w, j) PROVE Kept
  BY <1>0, <1>5 DEF Claim
<1>6. ASSUME NEW w \in Workers, NEW status, run[w].pc # "idle", EndRun(w, status) PROVE Kept
  <2>1. w # v
    <3>1. run'[w] = NoRun
      BY <1>6 DEF EndRun, RefIndexInv, TypeOK
    <3> QED BY <3>1, NoRunType DEF InTransaction
  <2>2. CASE lockJobLease(w) /\ job' = [job EXCEPT ![run[w].job] = status]
             /\ owner' = [owner EXCEPT ![run[w].job] = IF status = "absent" THEN NoWorker ELSE @]
    <3>1. run[w].job \in Jobs /\ run[w].job # k
      BY <1>0, <1>6, <2>1, <2>2 DEF RefIndexInv, RunInv, lockJobLease
    <3> QED BY <1>0, <2>2, <3>1
  <2> QED BY <1>1, <1>6, <2>2 DEF EndRun
<1>7. CASE UNCHANGED vars \/ CleanStaging \/ \E t : Push(t)
  BY <1>1, <1>7 DEF vars, CleanStaging, Push, jobVars
<1>8. ASSUME NEW w \in Workers, NEW x, NEW y,
             \/ Prepare(w, x) \/ ReadState(w, x) \/ Refresh(w) \/ Collect(w, x, y)
             \/ Begin(w) \/ Delete(w) \/ Commit(w) \/ Crash(w)
      PROVE  Kept
  BY <1>1, <1>8 DEF Prepare, ReadState, Refresh, Collect, Begin, Delete, Commit, Crash, jobVars
<1>9. ASSUME NEW w \in Workers, NEW status, Finish(w) \/ Fail(w, status) PROVE Kept
  <2>1. run[w].pc # "idle" /\ (EndRun(w, status) \/ EndRun(w, "absent"))
    BY <1>9 DEF Finish, Fail
  <2> QED BY <1>6, <2>1
<1> QED BY <1>2, <1>3, <1>4, <1>5, <1>7, <1>8, <1>9 DEF Next, IndexRun

\* A run that takes no step keeps its part of the invariant, published over or not.
LEMMA RunKept ==
  ASSUME RefIndexInv, [Next]_vars, NEW v \in Workers,
         run'[v] = run[v], staging'[v] = staging[v], manifests'[v] = manifests[v],
         \/ run[v].pc \notin Reading
         \/ stale'[v]
         \/ stale'[v] = stale[v] /\ live' = live /\ refState'.commit = refState.commit
  PROVE  RunInv(v)'
<1> DEFINE t == run[v].target
<1>0. TreeKept /\ RunInv(v)
  BY TreeStep DEF RefIndexInv
<1>1. run[v].pc # "idle" => run[v].job \in Jobs
  BY <1>0 DEF RunInv
<1>2. run[v].pc \in InTransaction => lockJobLease(v)'
  BY LeaseStep
<1>3. run[v].pc \in Reading \cup {"read"} => t \in 1..head /\ t \in 1..head' /\ run[v].revision \in Revisions
                                               /\ tree'[t] = tree[t]
  BY <1>0 DEF RunInv, TreeKept
<1>4. run[v].pc \in Publishing =>
        /\ RowsMatch(staging[v], run[v].removed, tree'[t])
        /\ PackagesMatch(manifests[v], tree'[t])
  BY <1>0, <1>3 DEF RunInv, Publishing, Reading
<1>5. ASSUME ~stale'[v], run[v].pc \in Reading
      PROVE  /\ run[v].pc = "refresh" => refState'.commit = t
             /\ run[v].pc = "collect" => /\ run[v].prev = refState'.commit
                                         /\ run[v].incremental => refState'.commit # NoCommit
             /\ run[v].pc \in Publishing =>
                  \/ run[v].removed = Files
                  \/ /\ refState'.commit # NoCommit
                     /\ run[v].removed = Changed(refState.commit, t)'
             /\ run[v].pc = "commit" => run[v].doomed = {r \in live' : r.path \in run[v].removed}
  <2>1. ~stale[v] /\ live' = live /\ refState'.commit = refState.commit
    BY <1>5
  <2>2. refState.commit # NoCommit => Changed(refState.commit, t)' = Changed(refState.commit, t)
    <3>1. refState.commit # NoCommit => refState.commit \in 1..head
      BY <1>0 DEF RefIndexInv, NoCommit, TreeKept
    <3> QED BY <1>0, <1>3, <1>5, <2>1, <3>1 DEF Changed, TreeKept
  <2> QED BY <1>0, <2>1, <2>2 DEF RunInv
<1> QED BY <1>1, <1>2, <1>3, <1>4, <1>5 DEF RunInv, Publishing, Reading
LEMMA OneRun ==
  ASSUME RefIndexInv, [Next]_vars, NEW w \in Workers, RunInv(w)',
         \A v \in Workers : v # w =>
           /\ run'[v] = run[v] /\ staging'[v] = staging[v] /\ manifests'[v] = manifests[v]
           /\ \/ run[v].pc \notin Reading
              \/ stale'[v]
              \/ stale'[v] = stale[v] /\ live' = live /\ refState'.commit = refState.commit
  PROVE  \A v \in Workers : RunInv(v)'
BY RunKept

\* The rows of a file set replace those that were there of the same files.
LEMMA RowsReplaced ==
  ASSUME NEW old, NEW new, NEW paths, NEW before, NEW after,
         paths \subseteq Files, \A r \in old : r.path \in Files,
         RowsMatch(new, paths, after),
         \/ paths = Files
         \/ /\ RowsMatch(old, Files, before)
            /\ \A f \in Files \ paths : before[f] = after[f]
  PROVE  RowsMatch((old \ {r \in old : r.path \in paths}) \cup new, Files, after)
<1> DEFINE kept == {r \in old : r.path \notin paths}
<1>1. (old \ {r \in old : r.path \in paths}) \cup new = kept \cup new
  OBVIOUS
<1>2. \A r \in kept \cup new : r.path \in Files /\ r.version = after[r.path]
  BY DEF RowsMatch
<1>3. \A r, s \in kept \cup new : r.path = s.path => r = s
  BY DEF RowsMatch
<1>4. \A f \in Files \ Hidden : after[f] # Absent => \E r \in kept \cup new : r.path = f
  BY DEF RowsMatch
<1> QED BY <1>1, <1>2, <1>3, <1>4 DEF RowsMatch

\* Every run keeps its part of the invariant at every step.
LEMMA RunStep ==
  ASSUME RefIndexInv, [Next]_vars
  PROVE  \A v \in Workers : RunInv(v)'
<1> DEFINE Goal == \A v \in Workers : RunInv(v)'
<1>0. TypeOK /\ TypeOK' /\ TreeKept
  BY TypeStep, TreeStep DEF RefIndexInv
<1>1. CASE UNCHANGED <<run, staging, manifests, stale, live, refState.commit>>
  BY <1>1, RunKept
<1>2. CASE UNCHANGED vars \/ CleanStaging \/ \E t : Push(t)
  BY <1>1, <1>2 DEF vars, CleanStaging, Push, indexVars, stagingVars
<1>3. ASSUME NEW j \in Jobs, NEW p,
             Enqueue(j) \/ RecoverStaleJobs(j) \/ PutRepositoryPolicy(p, j) \/ ChangeModel(p, j)
      PROVE  Goal
  <2>1. refState'.commit = refState.commit
    <3>1. CASE PutRepositoryPolicy(p, j)
      BY <1>0, <3>1 DEF PutRepositoryPolicy, TypeOK
    <3> QED BY <1>3, <3>1 DEF Enqueue, RecoverStaleJobs, ChangeModel, indexVars
  <2>2. UNCHANGED <<run, staging, manifests, stale, live>>
    BY <1>3 DEF Enqueue, RecoverStaleJobs, PutRepositoryPolicy, ChangeModel, indexVars, stagingVars
  <2> QED BY <1>1, <2>1, <2>2
\* A step of one run that publishes nothing.
<1>4. ASSUME NEW w \in Workers, NEW u, run' = [run EXCEPT ![w] = u], UNCHANGED <<live, refState>>,
             \A v \in Workers : v # w => /\ stale'[v] = stale[v] /\ staging'[v] = staging[v]
                                         /\ manifests'[v] = manifests[v],
             run'[w] = u => RunInv(w)'
      PROVE  Goal
  <2>1. run'[w] = u /\ \A v \in Workers : v # w => run'[v] = run[v]
    BY <1>0, <1>4 DEF TypeOK
  <2> QED BY <1>4, <2>1, OneRun
<1>5. ASSUME NEW w \in Workers PROVE RunInv(w) /\ run[w] \in Locals
  BY <1>0 DEF RefIndexInv, TypeOK
<1>6. ASSUME NEW w \in Workers, NEW j \in Jobs, Claim(w, j) PROVE Goal
  <2> DEFINE u == [NoRun EXCEPT !.pc = "prepare", !.job = j]
  <2>1. u.pc = "prepare" /\ u.job = j
    BY NoRunType DEF Places
  <2>2. run' = [run EXCEPT ![w] = u] /\ UNCHANGED <<live, refState, stale, staging, manifests>>
    BY <1>6 DEF Claim, indexVars, stagingVars
  <2> HIDE DEF u
  <2>3. run'[w] = u => RunInv(w)'
    BY <2>1 DEF RunInv, InTransaction, Reading, Publishing
  <2> HIDE DEF Goal
  <2> QED BY <1>4, <2>2, <2>3
<1>7. ASSUME NEW w \in Workers, NEW r \in Revisions, Prepare(w, r) PROVE Goal
  <2> DEFINE u == [run[w] EXCEPT !.pc = "read", !.target = head, !.policy = policy, !.revision = r]
  <2>1. u.pc = "read" /\ u.job = run[w].job /\ u.target = head /\ u.revision = r
    BY <1>5 DEF Locals
  <2>2. run' = [run EXCEPT ![w] = u] /\ UNCHANGED <<live, refState, stale, staging, manifests>> /\ head' = head
    BY <1>7 DEF Prepare, indexVars, stagingVars, settingVars
  <2> HIDE DEF u
  <2>3. run[w].job \in Jobs /\ head \in 1..head
    <3>1. run[w].pc = "prepare"
      BY <1>7 DEF Prepare
    <3> QED BY <1>0, <1>5, <3>1, Bounds DEF RunInv, TypeOK, Commits
  <2>4. run'[w] = u => RunInv(w)'
    BY <2>1, <2>2, <2>3 DEF RunInv, InTransaction, Reading, Publishing
  <2> HIDE DEF Goal
  <2> QED BY <1>4, <2>2, <2>4
<1>8. ASSUME NEW w \in Workers, NEW incremental \in BOOLEAN, ReadState(w, incremental) PROVE Goal
  <2> DEFINE pc == IF Unchanged(w) THEN "refresh" ELSE "collect"
             u == [run[w] EXCEPT !.pc = pc, !.prev = refState.commit, !.incremental = incremental]
  <2>1. /\ u.pc = pc /\ u.job = run[w].job /\ u.target = run[w].target /\ u.revision = run[w].revision
        /\ u.prev = refState.commit /\ u.incremental = incremental
    BY <1>5 DEF Locals
  <2>2. /\ run' = [run EXCEPT ![w] = u] /\ UNCHANGED <<live, refState, staging, manifests>> /\ head' = head
        /\ stale' = [stale EXCEPT ![w] = FALSE]
    BY <1>8 DEF ReadState, indexVars, stagingVars, settingVars
  <2>3. \/ pc = "refresh" /\ refState.commit = run[w].target
        \/ pc = "collect" /\ (incremental => refState.commit # NoCommit)
    BY <1>8 DEF ReadState, Unchanged
  <2> HIDE DEF u, pc
  <2>4. run[w].job \in Jobs /\ run[w].target \in 1..head /\ run[w].revision \in Revisions
    BY <1>5, <1>8 DEF ReadState, RunInv
  <2>5. run'[w] = u => RunInv(w)'
    BY <2>1, <2>2, <2>3, <2>4 DEF RunInv, InTransaction, Reading, Publishing
  <2>6. \A v \in Workers : v # w => stale'[v] = stale[v]
    BY <1>0, <2>2 DEF TypeOK
  <2> HIDE DEF Goal
  <2> QED BY <1>4, <2>2, <2>5, <2>6
<1>9. ASSUME NEW w \in Workers, NEW vectored \in SUBSET Files, NEW parsed \in SUBSET Manifests,
             Collect(w, vectored, parsed)
      PROVE  Goal
  <2> DEFINE paths == Replaced(w)
             version == tree[run[w].target]
             wanted == Given(w, paths) \cap Allowed(run[w].policy)
             rows == {[path |-> f, version |-> version[f],
                   revision |-> IF f \in vectored THEN run[w].revision ELSE "keyword-only"] : f \in wanted}
             found == {[path |-> f, version |-> version[f]] : f \in parsed}
             revision == IF vectored = wanted THEN run[w].revision ELSE "keyword-only"
             u == [run[w] EXCEPT !.pc = "publish", !.removed = paths, !.incremental = FALSE,
                                 !.revision = revision]
  <2>1. /\ u.pc = "publish" /\ u.job = run[w].job /\ u.target = run[w].target /\ u.removed = paths
        /\ u.revision = revision
    BY <1>5 DEF Locals
  <2>2. /\ run' = [run EXCEPT ![w] = u] /\ UNCHANGED <<live, refState, stale, tree, head>>
        /\ staging' = [staging EXCEPT ![w] = rows] /\ manifests' = [manifests EXCEPT ![w] = found]
        /\ run[w].pc = "collect"
    BY <1>9 DEF Collect, indexVars, settingVars
  <2>3. staging'[w] = rows /\ manifests'[w] = found
    BY <1>0, <2>2 DEF TypeOK
  <2>4. \A v \in Workers : v # w => staging'[v] = staging[v] /\ manifests'[v] = manifests[v]
    BY <1>0, <2>2 DEF TypeOK
  <2>5. paths \subseteq Files
    BY DEF Replaced, Changed
  <2>6. PackagesMatch(found, version)
    BY DEF PackagesMatch
  <2>7. wanted = {f \in paths : version[f] # Absent} \cap Allowed(run[w].policy)
    BY <2>5 DEF Given, Present
  <2>8. revision \in Revisions
    BY <1>5, <2>2 DEF RunInv, Reading, Revisions
  <2>9. ~stale[w] => \/ paths = Files
                     \/ /\ refState.commit # NoCommit
                        /\ paths = Changed(refState.commit, run[w].target)
    BY <1>5, <2>2 DEF RunInv, Replaced
  <2> HIDE DEF paths, found, revision, u
  \* What a run stages is its commit's, whichever files got no vector.
  <2>10. RowsMatch(rows, paths, version)
    <3> DEFINE row(f) == [path |-> f, version |-> version[f],
                   revision |-> IF f \in vectored THEN run[w].revision ELSE "keyword-only"]
    <3>1. rows = {row(f) : f \in wanted} /\ \A f : row(f).path = f /\ row(f).version = version[f]
      OBVIOUS
    <3>2. wanted \subseteq paths /\ \A f \in paths \ Hidden : version[f] # Absent => f \in wanted
      BY <2>5, <2>7 DEF Allowed
    <3> HIDE DEF row, rows, wanted, version
    <3>3. \A r, s \in rows : r.path = s.path => r = s
      BY <3>1
    <3> QED BY <3>1, <3>2, <3>3 DEF RowsMatch
  <2> HIDE DEF rows, wanted
  <2>11. run[w].job \in Jobs /\ run[w].target \in 1..head
    BY <1>5, <2>2 DEF RunInv, Reading
  <2>12. Changed(refState.commit, run[w].target)' = Changed(refState.commit, run[w].target)
           \/ run'[w] # u
    BY <2>1, <2>2 DEF Changed
  <2>13. run'[w] = u => RunInv(w)'
    BY <2>1, <2>2, <2>3, <2>6, <2>8, <2>9, <2>10, <2>11, <2>12
       DEF RunInv, InTransaction, Reading, Publishing, Changed
  <2> HIDE DEF Goal
  <2> QED BY <1>4, <2>2, <2>4, <2>13
<1>10. ASSUME NEW w \in Workers, Begin(w) \/ Delete(w) PROVE Goal
  <2> DEFINE b == [run[w] EXCEPT !.pc = "delete", !.prev = NoCommit]
             d == [run[w] EXCEPT !.pc = "commit", !.doomed = {r \in live : r.path \in run[w].removed}]
  <2>1. PICK u \in {b, d} : run' = [run EXCEPT ![w] = u] /\ (u = b => lockJobLease(w))
                              /\ (u = b \/ run[w].pc = "delete")
    <3>1. CASE Begin(w)
      <4>1. run' = [run EXCEPT ![w] = b] /\ lockJobLease(w)
        BY <3>1 DEF Begin
      <4> HIDE DEF b, d
      <4> QED BY <4>1
    <3>2. CASE Delete(w)
      <4>1. run' = [run EXCEPT ![w] = d] /\ run[w].pc = "delete" /\ d # b
        <5>1. d.pc = "commit" /\ b.pc = "delete"
          BY <1>5 DEF Locals
        <5> QED BY <3>2, <5>1 DEF Delete
      <4> HIDE DEF b, d
      <4> QED BY <4>1
    <3> QED BY <1>10, <3>1, <3>2
  <2>2. UNCHANGED <<tree, head, live, refState, stale, staging, manifests, job, owner>>
    BY <1>10 DEF Begin, Delete, settingVars, indexVars, stagingVars, jobVars
  <2>3. /\ u.pc \in InTransaction /\ u.job = run[w].job /\ u.target = run[w].target
        /\ u.removed = run[w].removed /\ u.revision = run[w].revision
        /\ u.pc = "commit" => u.doomed = {r \in live : r.path \in run[w].removed}
    BY <1>5, <2>1 DEF Locals, InTransaction
  <2>4. run[w].pc \in {"publish", "delete"}
    BY <1>10 DEF Begin, Delete
  <2>5. lockJobLease(w)
    BY <1>5, <2>1 DEF RunInv, InTransaction
  <2>6. run[w].job \in Jobs /\ run[w].target \in 1..head /\ run[w].revision \in Revisions
          /\ RowsMatch(staging[w], run[w].removed, tree[run[w].target])
          /\ PackagesMatch(manifests[w], tree[run[w].target])
          /\ (~stale[w] => \/ run[w].removed = Files
                           \/ /\ refState.commit # NoCommit
                              /\ run[w].removed = Changed(refState.commit, run[w].target))
    BY <1>5, <2>4 DEF RunInv, Reading, Publishing
  <2> HIDE DEF b, d
  <2>7. run'[w] = u => RunInv(w)'
    BY <2>2, <2>3, <2>5, <2>6 DEF RunInv, InTransaction, Reading, Publishing, Changed, lockJobLease
  <2> HIDE DEF Goal
  <2> QED BY <1>4, <2>1, <2>2, <2>7
\* The end of a run, published or not.
<1>11. ASSUME NEW w \in Workers, NEW u \in Locals, u.pc \in {"idle", "done"}, u.job \in Jobs \/ u.pc = "idle",
              run' = [run EXCEPT ![w] = u]
       PROVE  RunInv(w)' /\ \A v \in Workers : v # w => run'[v] = run[v]
  <2>1. run'[w] = u /\ \A v \in Workers : v # w => run'[v] = run[v]
    BY <1>0, <1>11 DEF TypeOK
  <2> QED BY <1>11, <2>1 DEF RunInv, InTransaction, Reading, Publishing
<1>12. ASSUME NEW w \in Workers, Refresh(w) \/ Commit(w) PROVE Goal
  <2> DEFINE u == [NoRun EXCEPT !.pc = "done", !.job = run[w].job]
  <2>1. run[w].job \in Jobs
    BY <1>5, <1>12 DEF Refresh, Commit, RunInv
  <2>2. u \in Locals /\ u.pc = "done" /\ u.job = run[w].job
    BY <2>1, NoRunType DEF Places
  <2>3. run' = [run EXCEPT ![w] = u] /\ Published(w)
    BY <1>12 DEF Refresh, Commit
  <2>4. \A v \in Workers : v # w => staging'[v] = staging[v] /\ manifests'[v] = manifests[v]
    BY <1>0, <1>12 DEF Refresh, Commit, TypeOK, stagingVars
  <2> HIDE DEF u
  <2>5. \A v \in Workers : v # w => run[v].pc \notin Reading \/ stale'[v]
    BY <2>3 DEF Published
  <2>6. RunInv(w)' /\ \A v \in Workers : v # w => run'[v] = run[v]
    BY <1>11, <2>1, <2>2, <2>3
  <2> QED BY <2>4, <2>5, <2>6, OneRun
<1>13. ASSUME NEW w \in Workers, run' = [run EXCEPT ![w] = NoRun], UNCHANGED <<live, refState, stale>>,
              staging' = [staging EXCEPT ![w] = {}], manifests' = [manifests EXCEPT ![w] = {}]
       PROVE  Goal
  <2>1. \A v \in Workers : v # w => staging'[v] = staging[v] /\ manifests'[v] = manifests[v]
    BY <1>0, <1>13 DEF TypeOK
  <2>2. RunInv(w)' /\ \A v \in Workers : v # w => run'[v] = run[v]
    BY <1>11, <1>13, NoRunType
  <2> QED BY <1>13, <2>1, <2>2, OneRun
<1>14. ASSUME NEW w \in Workers, NEW status, Finish(w) \/ Fail(w, status) \/ Crash(w) PROVE Goal
  <2>1. /\ run' = [run EXCEPT ![w] = NoRun] /\ UNCHANGED <<live, refState, stale>>
        /\ staging' = [staging EXCEPT ![w] = {}] /\ manifests' = [manifests EXCEPT ![w] = {}]
    BY <1>14 DEF Finish, Fail, Crash, EndRun, indexVars
  <2> HIDE DEF Goal
  <2> QED BY <1>13, <2>1
<1> QED BY <1>2, <1>3, <1>6, <1>7, <1>8, <1>9, <1>10, <1>12, <1>14 DEF Next, IndexRun
-----------------------------------------------------------------------------
(* The index and its commit. *)

\* Only the two publish transactions touch the index and the commit it is stamped with.
LEMMA OthersKeepIndex ==
  ASSUME RefIndexInv, [Next]_vars, \A w \in Workers : ~Refresh(w) /\ ~Commit(w)
  PROVE  UNCHANGED <<live, listed, packages, raced>> /\ refState'.commit = refState.commit
<1> DEFINE Kept == UNCHANGED <<live, listed, packages, raced>> /\ refState'.commit = refState.commit
<1> SUFFICES Kept
  OBVIOUS
<1>1. CASE UNCHANGED vars \/ CleanStaging \/ \E t : Push(t)
  BY <1>1 DEF vars, CleanStaging, Push, indexVars
<1>2. ASSUME NEW j \in Jobs, NEW p, PutRepositoryPolicy(p, j) PROVE Kept
  BY <1>2 DEF PutRepositoryPolicy, RefIndexInv, TypeOK
<1>3. ASSUME NEW j \in Jobs, NEW m, Enqueue(j) \/ RecoverStaleJobs(j) \/ ChangeModel(m, j) PROVE Kept
  BY <1>3 DEF Enqueue, RecoverStaleJobs, ChangeModel, indexVars
<1>4. ASSUME NEW w \in Workers, NEW x, NEW y,
             \/ Claim(w, x) \/ Prepare(w, x) \/ ReadState(w, x) \/ Collect(w, x, y) \/ Begin(w) \/ Delete(w)
      PROVE  Kept
  BY <1>4 DEF Claim, Prepare, ReadState, Collect, Begin, Delete, indexVars
<1>5. ASSUME NEW w \in Workers, NEW x, Finish(w) \/ Fail(w, x) \/ Crash(w) PROVE Kept
  BY <1>5 DEF Finish, Fail, Crash, EndRun, indexVars
<1> HIDE DEF Kept
<1> QED BY <1>1, <1>2, <1>3, <1>4, <1>5 DEF Next, IndexRun

\* The stamped commit and the index are never moved apart while no two leased runs race.
LEMMA IndexStep ==
  ASSUME RefIndexInv, [Next]_vars
  PROVE  refState'.commit \in 0..head' /\ IndexInv'
<1>0. /\ TypeOK /\ TypeOK' /\ TreeKept /\ refState.commit \in 0..head /\ IndexInv
      /\ refState.commit # NoCommit => refState.commit \in 1..head
  BY TypeStep, TreeStep DEF RefIndexInv, NoCommit, TreeKept
<1>1. CASE UNCHANGED <<live, listed, packages, raced>> /\ refState'.commit = refState.commit
  <2>1. refState'.commit \in 0..head'
    BY <1>0, <1>1 DEF TreeKept
  <2>2. refState.commit # NoCommit => /\ tree'[refState.commit] = tree[refState.commit]
                                      /\ Present(refState.commit)' = Present(refState.commit)
    BY <1>0, <1>1 DEF TreeKept, Present
  <2> QED BY <1>0, <1>1, <2>1, <2>2 DEF IndexInv
<1>2. ASSUME NEW w \in Workers PROVE RunInv(w) /\ run[w] \in Locals
  BY <1>0 DEF RefIndexInv, TypeOK
\* A run that was overtaken and still holds a lease is a race.
<1>3. ASSUME NEW w \in Workers, Published(w), lockJobLease(w), raced' = "no" PROVE ~stale[w] /\ raced' = raced
  BY <1>3 DEF Published
<1>4. ASSUME NEW w \in Workers, Refresh(w) PROVE refState'.commit \in 0..head' /\ IndexInv'
  <2>1. /\ refState'.commit = run[w].target /\ run[w].target \in 1..head /\ head' = head
        /\ UNCHANGED <<live, listed, packages>>
    BY <1>2, <1>4 DEF Refresh, RunInv, Reading, settingVars
  <2>2. refState'.commit \in 0..head'
    BY <1>0, <2>1 DEF TreeKept
  <2>3. CASE raced' = "no"
    <3>1. ~stale[w] /\ raced' = raced
      BY <1>3, <1>4, <2>3 DEF Refresh
    <3>2. refState'.commit = refState.commit
      BY <1>2, <1>4, <2>1, <3>1 DEF Refresh, RunInv
    <3> QED BY <1>1, <2>1, <3>1, <3>2
  <2> QED BY <2>2, <2>3 DEF IndexInv
<1>5. ASSUME NEW w \in Workers, Commit(w) PROVE refState'.commit \in 0..head' /\ IndexInv'
  <2> DEFINE target == run[w].target
             removed == run[w].removed
             stored == refState.commit
  <2>1. /\ refState'.commit = target /\ target \in 1..head /\ UNCHANGED <<tree, head>>
        /\ lockJobLease(w) /\ Published(w)
        /\ RowsMatch(staging[w], removed, tree[target]) /\ PackagesMatch(manifests[w], tree[target])
    BY <1>2, <1>5 DEF Commit, RunInv, Reading, InTransaction, Publishing, settingVars
  <2>2. refState'.commit \in 0..head'
    BY <1>0, <2>1 DEF TreeKept
  <2>3. CASE raced' = "no"
    <3>1. ~stale[w] /\ raced = "no"
      BY <1>3, <2>1, <2>3
    <3>2. /\ removed = Files \/ (stored # NoCommit /\ removed = Changed(stored, target))
          /\ run[w].doomed = {r \in live : r.path \in removed}
      BY <1>2, <1>5, <3>1 DEF Commit, RunInv, Publishing
    <3>3. removed \subseteq Files /\ (\A r \in live : r.path \in Files) /\ (\A p \in packages : p.path \in Files)
          /\ listed \subseteq Files
      BY <1>0, RunTypes, RefIndexAssumption DEF TypeOK, Rows, Packages
    <3>4. removed # Files =>
            /\ RowsMatch(live, Files, tree[stored]) /\ listed = Present(stored)
            /\ PackagesMatch(packages, tree[stored])
            /\ \A f \in Files \ removed : tree[stored][f] = tree[target][f]
      BY <1>0, <3>1, <3>2 DEF IndexInv, Changed
    <3>5. RowsMatch(live', Files, tree[target])
      <4>1. live' = (live \ {r \in live : r.path \in removed}) \cup staging[w]
        BY <1>5, <3>2 DEF Commit, StagedRows
      <4> DEFINE new == staging[w]
                 before == tree[stored]
                 after == tree[target]
      <4>2. /\ RowsMatch(new, removed, after)
            /\ \/ removed = Files
               \/ RowsMatch(live, Files, before) /\ \A f \in Files \ removed : before[f] = after[f]
        BY <2>1, <3>4
      <4> HIDE DEF target, removed, stored, new, before, after
      <4>3. RowsMatch((live \ {r \in live : r.path \in removed}) \cup new, Files, after)
        BY <3>3, <4>2, RowsReplaced
      <4> QED BY <4>1, <4>3 DEF new, after
    <3>6. listed' = Present(target)
      <4>1. listed' = (listed \ removed) \cup (removed \cap Present(target))
        BY <1>5 DEF Commit, FilesAfter, Given
      <4> HIDE DEF target, removed, stored
      <4> QED BY <3>3, <3>4, <4>1 DEF Present
    <3>7. PackagesMatch(packages', tree[target])
      <4>1. packages' = {p \in packages : p.path \notin removed} \cup manifests[w]
        BY <1>5 DEF Commit, PackagesAfter
      <4> HIDE DEF target, removed, stored
      <4> QED BY <2>1, <3>3, <3>4, <4>1 DEF PackagesMatch
    <3>8. Present(refState.commit)' = Present(target)
      BY <2>1 DEF Present
    <3> QED BY <2>1, <2>2, <3>5, <3>6, <3>7, <3>8 DEF IndexInv
  <2> QED BY <2>2, <2>3 DEF IndexInv
<1> QED BY <1>1, <1>4, <1>5, OthersKeepIndex

LEMMA RefIndexInvariant == Spec => []RefIndexInv
<1>1. Init => RefIndexInv
  <2> SUFFICES ASSUME Init PROVE RefIndexInv
    OBVIOUS
  <2>1. TypeOK
    <3>1. head \in Commits /\ 0 \in 0..MaxCommits /\ events \in 0..MaxEvents
      BY Bounds DEF Init, Commits
    <3>2. tree \in [Commits -> [Files -> Versions \cup {Absent}]]
      BY DEF Init
    <3>3. run \in [Workers -> Locals]
      BY NoRunType DEF Init
    <3> QED BY <3>1, <3>2, <3>3 DEF Init, TypeOK, Policies, NoCommit
  <2>2. refState.commit = 0 /\ head = 1 /\ refState.commit = NoCommit
    BY DEF Init, NoCommit
  <2>3. ASSUME NEW w \in Workers PROVE RunInv(w)
    BY NoRunType DEF Init, RunInv, InTransaction, Reading, Publishing
  <2> QED BY <2>1, <2>2, <2>3 DEF RefIndexInv, IndexInv
<1>2. RefIndexInv /\ [Next]_vars => RefIndexInv'
  BY TypeStep, IndexStep, RunStep DEF RefIndexInv
<1> QED BY <1>1, <1>2, PTL DEF Spec

\* The publish transaction writes what the run staged at its commit in place of the rows it
\* read before, so whatever runs crash, fail, are repeated or lose their lease, the rows,
\* the listing and the package inventory are those of the commit the ref is stamped with.
THEOREM IndexIsItsCommit == Spec => []IndexMatchesCommit
<1>1. RefIndexInv => IndexMatchesCommit
  <2> SUFFICES ASSUME RefIndexInv, raced = "no", refState.commit # NoCommit
               PROVE  RowsAreTheCommit /\ listed = Present(refState.commit)
                        /\ \A p \in packages : p.version = tree[refState.commit][p.path]
    BY DEF IndexMatchesCommit, RowsAreTheCommit
  <2>1. /\ RowsMatch(live, Files, tree[refState.commit]) /\ listed = Present(refState.commit)
        /\ PackagesMatch(packages, tree[refState.commit])
    BY DEF RefIndexInv, IndexInv
  <2>2. ASSUME NEW f \in Present(refState.commit) \ Hidden
        PROVE  Cardinality({r \in live : r.path = f}) = 1
    <3>1. PICK r \in live : r.path = f
      BY <2>1, <2>2 DEF RowsMatch, Present
    <3>2. {s \in live : s.path = f} = {r}
      BY <2>1, <3>1 DEF RowsMatch
    <3> QED BY <3>2, FS_Singleton
  <2> QED BY <2>1, <2>2 DEF RowsMatch, PackagesMatch, RowsAreTheCommit
<1> QED BY <1>1, RefIndexInvariant, PTL

\* The swap transaction rejects the generation of a worker whose lease is gone
\* (lockJobLease): the index and its commit change only under a lease that is held.
THEOREM PublishNeedsTheLease == Spec => OnlyLeaseHolderPublishes
<1>1. RefIndexInv /\ [Next]_vars =>
        (<<live, listed, packages, refState.commit>>' # <<live, listed, packages, refState.commit>> =>
          \E w \in Workers : /\ run[w].pc \in {"refresh", "commit"} /\ run'[w].pc = "done"
                             /\ job[run[w].job] = "running" /\ owner[run[w].job] = w)
  <2> SUFFICES ASSUME RefIndexInv, [Next]_vars,
                      <<live, listed, packages, refState.commit>>' # <<live, listed, packages, refState.commit>>
               PROVE  \E w \in Workers : /\ run[w].pc \in {"refresh", "commit"} /\ run'[w].pc = "done"
                                         /\ job[run[w].job] = "running" /\ owner[run[w].job] = w
    OBVIOUS
  <2>1. PICK w \in Workers : Refresh(w) \/ Commit(w)
    BY OthersKeepIndex
  <2>2. run[w].pc \in {"refresh", "commit"} /\ run[w].job \in Jobs /\ lockJobLease(w)
    BY <2>1 DEF Refresh, Commit, RefIndexInv, RunInv, InTransaction
  <2>3. run'[w].pc = "done"
    <3> DEFINE u == [NoRun EXCEPT !.pc = "done", !.job = run[w].job]
    <3>1. run' = [run EXCEPT ![w] = u]
      BY <2>1 DEF Refresh, Commit
    <3>2. u \in Locals /\ u.pc = "done" /\ u.job = run[w].job
      <4>1. run[w].job \in Jobs
        BY <2>2
      <4> QED BY <4>1, NoRunType DEF Places
    <3> HIDE DEF u
    <3> QED BY <3>1, <3>2 DEF RefIndexInv, TypeOK
  <2> QED BY <2>2, <2>3 DEF lockJobLease
<1> QED BY <1>1, RefIndexInvariant, PTL DEF Spec, OnlyLeaseHolderPublishes
=============================================================================
