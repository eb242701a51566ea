---------------------------- MODULE BackupRestore ----------------------------
(***************************************************************************)
(* Encrypted backups, restore and the platform's own keys:                 *)
(* internal/backup/service.go, internal/app/backups.go, platformkeys.go    *)
(* and the start of a process in app.go.                                   *)
(*                                                                         *)
(* Replicas share the database and the backup directory.  What a sealed    *)
(* value says is left out: a row is the key it is sealed with.  The master *)
(* key and the API-key pepper are stored, wrapped and reloaded together    *)
(* and stand for one another.  A start that rewrites the stored keys is    *)
(* one step: operators do not restore while a replica starts.              *)
(***************************************************************************)
EXTENDS Naturals, FiniteSets, TLC

CONSTANTS Replicas,
          Settings,        \* categories of system_settings, "keycloak" among them
          RecoveryKeys,    \* values of GIT_CTX_RECOVERY_KEY
          Masters,         \* master keys, each derived from some DSN
          RetentionCount,
          Interval,        \* backup.intervalHours, in ticks
          MaxBackups,      \* bound on backups
          MaxNow,          \* bound on the clock
          MaxStarts,       \* bound on process starts
          None

Items == Settings \cup {"bootstrap"}    \* system_settings, platform_bootstrap
Ids == 1..MaxBackups                    \* in the order of created_at

ASSUME BackupAssumption == /\ RetentionCount \in Nat \ {0} /\ Interval \in Nat \ {0}
                           /\ {MaxBackups, MaxNow, MaxStarts} \subseteq Nat
                           /\ "keycloak" \in Settings
                           /\ None \notin RecoveryKeys \cup Masters

VARIABLES db,        \* the tables of a backup: sealed items, platform_keys
          records,   \* backup_records, which no backup carries
          files,     \* the backup directory
          proc,      \* the processes, with what each holds in memory
          now,
          starts,
          origin,    \* history: the archive the database was last restored from
          reported   \* history: the processes that reported that restore as done, over
                     \* the data it had brought

vars == <<db, records, files, proc, now, starts, origin, reported>>

NoRow == [master |-> None, by |-> None]
Rows == [master : Masters, by : RecoveryKeys] \cup {NoRow}
Databases == [items : [Items -> Masters \cup {None}], row : Rows]
NoFile == [by |-> None, body |-> None]
NoRecord == [status |-> "none", slot |-> None, created |-> 0]
Off == [pc |-> "off", rk |-> None, prev |-> None, master |-> None, id |-> 0,
        body |-> None, expired |-> {}]

Init == /\ db = [items |-> [n \in Items |-> None], row |-> NoRow]
        /\ records = [i \in Ids |-> NoRecord]
        /\ files = [i \in Ids |-> NoFile]
        /\ proc = [p \in Replicas |-> Off]
        /\ now = 0 /\ starts = 0
        /\ origin = None /\ reported = {}

Sealed(d) == {n \in Settings : d.items[n] # None}

(***************************************************************************)
(* What one look may answer: the bootstrap row decides, else any one       *)
(* setting, else there is nothing to open and every key is right.          *)
(***************************************************************************)
SealedDataOpensWith(d, m) ==
    IF d.items["bootstrap"] # None THEN {d.items["bootstrap"] = m}
    ELSE IF Sealed(d) = {} THEN {TRUE}
    ELSE {d.items[n] = m : n \in Sealed(d)}

\* Mutant: the derived pair is taken without a look at what is sealed.
ResolveKeysUnchecked(d, rk, prev, derived) ==
    IF d.row # NoRow /\ d.row.by = rk THEN {d.row}
    ELSE IF d.row # NoRow /\ d.row.by = prev THEN {[d.row EXCEPT !.by = rk]}
    ELSE {[master |-> derived, by |-> rk]}

(***************************************************************************)
(* The rows a process may end with: the stored pair when the recovery key  *)
(* unwraps it, the same pair wrapped again when the previous key does, the *)
(* derived pair when it opens what is sealed; NoRow is a refused start.    *)
(***************************************************************************)
ResolveKeys(d, rk, prev, derived) ==
    IF d.row # NoRow /\ d.row.by = rk THEN {d.row}
    ELSE IF d.row # NoRow /\ d.row.by = prev THEN {[d.row EXCEPT !.by = rk]}
    ELSE {IF opens THEN [master |-> derived, by |-> rk] ELSE NoRow
             : opens \in SealedDataOpensWith(d, derived)}

\* platform_bootstrap once the process has its keys; an unreadable token refuses
\* the start.
LoadOrCreateBootstrap(d, m) ==
    IF d.items["bootstrap"] = None /\ d.items["keycloak"] = None
    THEN [d EXCEPT !.items["bootstrap"] = m] ELSE d

Start(p, rk, prev, derived) ==
    /\ proc[p].pc = "off" /\ starts < MaxStarts /\ rk # prev
    /\ \E row \in ResolveKeys(db, rk, prev, derived) \ {NoRow} :
          LET keyed == [db EXCEPT !.row = row] IN
          /\ db' = LoadOrCreateBootstrap(keyed, row.master)
          /\ proc' = IF db.items["bootstrap"] \in {None, row.master}
                     THEN [proc EXCEPT ![p] = [Off EXCEPT !.pc = "idle", !.rk = rk,
                                                  !.prev = prev, !.master = row.master]]
                     ELSE proc
    /\ starts' = starts + 1
    /\ reported' = reported \ {p}
    /\ UNCHANGED <<records, files, now, origin>>

Idle(p) == [proc[p] EXCEPT !.pc = "idle", !.id = 0, !.body = None, !.expired = {}]

\* A crash or a shutdown, between any two steps.
Stop(p) == /\ proc[p].pc # "off"
           /\ proc' = [proc EXCEPT ![p] = Off]
           /\ reported' = reported \ {p}
           /\ UNCHANGED <<db, records, files, now, starts, origin>>

\* Requests pass the gate, which a restore holds on its own process only.
Serving(p) == proc[p].pc \notin {"off", "read", "committed"}

SaveSetting(p, n) ==
    /\ Serving(p)
    /\ db' = [db EXCEPT !.items[n] = proc[p].master]
    /\ UNCHANGED <<records, files, proc, now, starts, origin, reported>>

\* The first administrator who signs in through Keycloak ends the bootstrap token.
EndBootstrap(p) ==
    /\ Serving(p) /\ db.items["bootstrap"] # None /\ db.items["keycloak"] # None
    /\ db' = [db EXCEPT !.items["bootstrap"] = None]
    /\ UNCHANGED <<records, files, proc, now, starts, origin, reported>>

-----------------------------------------------------------------------------
(* Create.                                                                 *)

Fresh == {i \in Ids : records[i] = NoRecord /\ files[i] = NoFile
                        /\ \A j \in Ids : j >= i => records[j] = NoRecord /\ files[j] = NoFile}
Completed == {i \in Ids : records[i].status = "completed"}
Slot(t) == t \div Interval

\* schedule_slot is unique; a manual backup has none.
SlotTaken(slot) == slot # None /\ \E i \in Ids : records[i].slot = slot

InsertRecord(p, slot) ==
    /\ proc[p].pc = "idle" /\ ~SlotTaken(slot)
    /\ \E i \in Fresh :
          /\ \A j \in Fresh : i <= j
          /\ records' = [records EXCEPT ![i] = [status |-> "running", slot |-> slot,
                                                created |-> now]]
          /\ proc' = [proc EXCEPT ![p].pc = "begun", ![p].id = i]
    /\ UNCHANGED <<db, files, now, starts, origin, reported>>

CreateManual(p) == InsertRecord(p, None)

\* RunOnce: every replica looks, once a minute, whether a backup is due.
RunOnce(p) == /\ \A i \in Completed : now - records[i].created >= Interval
              /\ InsertRecord(p, Slot(now))

Step(p, from, to) == /\ proc[p].pc = from
                     /\ proc' = [proc EXCEPT ![p].pc = to]

\* One read-only transaction reads every table; the bytes are sealed with the
\* recovery key, written beside their name and renamed.  Nobody sees them before
\* the rename, so the snapshot and the file are one step.
SnapshotToFile(p) ==
    /\ Step(p, "begun", "written")
    /\ files' = [files EXCEPT ![proc[p].id] = [by |-> proc[p].rk, body |-> db]]
    /\ UNCHANGED <<db, records, now, starts, origin, reported>>

MarkCompleted(p) ==
    /\ Step(p, "written", "completed")
    /\ records' = [records EXCEPT ![proc[p].id].status = "completed"]
    /\ UNCHANGED <<db, files, now, starts, origin, reported>>

\* What a step that fails leaves in the directory: a temporary file is removed,
\* an archive whose record cannot be finished too.
AfterFailure(i) == [files EXCEPT ![i] = NoFile]

\* A step of Create fails (too large, disk, database, a restore stopping the
\* background work); when even marking it failed fails, it stays running, as after
\* a crash.
CreateFails(p) ==
    /\ proc[p].pc \in {"begun", "written"}
    /\ files' = AfterFailure(proc[p].id)
    /\ records' = [records EXCEPT ![proc[p].id].status = "failed"]
    /\ proc' = [proc EXCEPT ![p] = Idle(p)]
    /\ UNCHANGED <<db, now, starts, origin, reported>>

\* Mutant: every backup counts as one that is kept, also one that failed.
ExpiredOfAll ==
    {i \in Completed : Cardinality({j \in Ids : j > i /\ records[j].status # "none"})
                          >= RetentionCount}

Newer(i) == {j \in Completed : j > i}

\* ... ORDER BY created_at DESC LIMIT 1000 OFFSET RetentionCount
Expired == {i \in Completed : Cardinality(Newer(i)) >= RetentionCount}

\* The expired backups are read once and removed one by one, while other
\* replicas finish and remove backups of their own.
SelectExpired(p) ==
    /\ proc[p].pc = "completed"
    /\ proc' = [proc EXCEPT ![p] = IF Expired = {} THEN Idle(p)
                                   ELSE [Idle(p) EXCEPT !.pc = "retaining", !.expired = Expired]]
    /\ UNCHANGED <<db, records, files, now, starts, origin, reported>>

\* os.Remove, whose error is ignored ...
RemoveFile(p) ==
    /\ proc[p].pc = "retaining"
    /\ \E i \in proc[p].expired :
          /\ files' \in {[files EXCEPT ![i] = NoFile], files}
          /\ proc' = [proc EXCEPT ![p].pc = "removing", ![p].id = i]
    /\ UNCHANGED <<db, records, now, starts, origin, reported>>

\* ... then the row; a DELETE that fails leaves what a Stop before it leaves.
DeleteRecord(p) ==
    /\ proc[p].pc = "removing"
    /\ records' = [records EXCEPT ![proc[p].id] = NoRecord]
    /\ LET rest == proc[p].expired \ {proc[p].id} IN
       proc' = [proc EXCEPT ![p] = IF rest = {} THEN Idle(p)
                                   ELSE [Idle(p) EXCEPT !.pc = "retaining", !.expired = rest]]
    /\ UNCHANGED <<db, files, now, starts, origin, reported>>

-----------------------------------------------------------------------------
(* Restore: the archive is read, the tables are replaced in one            *)
(* transaction, and the keys that came with them are taken up.             *)

\* The keys tried on an archive.  The master key opens archives of releases up
\* to v0.66, whose migrations are no longer these: they are refused all the same.
Opens(p, f) == f.by \in {proc[p].rk, proc[p].prev}

\* A completed record names its file and its hash; any other id is looked for
\* in the directory, where a file without a record is a backup too.
ReadVerified(i) == files[i] # NoFile

\* An archive that does not verify, does not open or comes from a release with
\* other migrations (validateArchive) is refused here, before anything changes.
RestoreRead(p, i) ==
    /\ proc[p].pc = "idle"
    /\ ReadVerified(i) /\ Opens(p, files[i])
    /\ proc' = [proc EXCEPT ![p].pc = "read", ![p].body = files[i].body]
    /\ UNCHANGED <<db, records, files, now, starts, origin, reported>>

\* Every table of a backup is replaced, platform_keys and platform_bootstrap
\* with them; backup_records stays.
RestoreCommit(p) ==
    /\ Step(p, "read", "committed")
    /\ db' = proc[p].body
    /\ origin' = proc[p].body
    /\ reported' = {}
    /\ UNCHANGED <<records, files, now, starts>>

RestoreFails(p) == /\ proc[p].pc = "read"
                   /\ proc' = [proc EXCEPT ![p] = Idle(p)]
                   /\ UNCHANGED <<db, records, files, now, starts, origin, reported>>

\* Mutant: the process keeps the keys it started with.
KeysKept(p) == {[master |-> proc[p].master, by |-> proc[p].rk]}

\* resolveKeys, with the master key in use as the derived one.
ReloadedKeys(p) == ResolveKeys(db, proc[p].rk, proc[p].prev, proc[p].master) \ {NoRow}

\* What was sealed and the key it is sealed with; the key may be wrapped again.
SameData(d, e) == d.items = e.items /\ d.row.master = e.row.master

ReloadKeys(p) ==
    /\ proc[p].pc = "committed"
    /\ \E row \in ReloadedKeys(p) :
          /\ db' = [db EXCEPT !.row = row]
          /\ proc' = [proc EXCEPT ![p] = [Idle(p) EXCEPT !.master = row.master]]
    /\ reported' = IF SameData(db, origin) THEN reported \cup {p} ELSE reported
    /\ UNCHANGED <<records, files, now, starts, origin>>

\* The request's context ends with its client, or no key opens what was
\* restored: the restore is reported as failed, over the new tables.
ReloadFails(p) == /\ proc[p].pc = "committed"
                  /\ proc' = [proc EXCEPT ![p] = Idle(p)]
                  /\ UNCHANGED <<db, records, files, now, starts, origin, reported>>

-----------------------------------------------------------------------------
AllOff == \A p \in Replicas : proc[p].pc = "off"

\* The database is lost; the directory and the recovery key are what is left.
NewInstallation ==
    /\ AllOff /\ db.row # NoRow
    /\ db' = [items |-> [n \in Items |-> None], row |-> NoRow]
    /\ records' = [i \in Ids |-> NoRecord]
    /\ origin' = None
    /\ UNCHANGED <<files, proc, now, starts, reported>>

Tick == /\ now < MaxNow
        /\ now' = now + 1
        /\ UNCHANGED <<db, records, files, proc, starts, origin, reported>>

Next == \/ \E p \in Replicas :
              \/ \E rk \in RecoveryKeys, prev \in (RecoveryKeys \cup {None}), m \in Masters :
                    Start(p, rk, prev, m)
              \/ Stop(p)
              \/ \E n \in Settings : SaveSetting(p, n)
              \/ EndBootstrap(p)
              \/ CreateManual(p) \/ RunOnce(p) \/ SnapshotToFile(p)
              \/ MarkCompleted(p) \/ CreateFails(p) \/ SelectExpired(p)
              \/ RemoveFile(p) \/ DeleteRecord(p)
              \/ \E i \in Ids : RestoreRead(p, i)
              \/ RestoreCommit(p) \/ RestoreFails(p) \/ ReloadKeys(p) \/ ReloadFails(p)
        \/ NewInstallation \/ Tick

Spec == Init /\ [][Next]_vars

\* Replicas, recovery keys and master keys are each interchangeable.
Symmetry == Permutations(Replicas) \cup Permutations(RecoveryKeys) \cup Permutations(Masters)

-----------------------------------------------------------------------------
Records == [status : {"none", "running", "completed", "failed"},
            slot : {Slot(t) : t \in 0..MaxNow} \cup {None}, created : 0..MaxNow]
Archives == [by : RecoveryKeys, body : Databases] \cup {NoFile}
Processes == [pc : {"off", "idle", "begun", "written", "completed", "retaining", "removing",
                    "read", "committed"},
              rk : RecoveryKeys \cup {None}, prev : RecoveryKeys \cup {None},
              master : Masters \cup {None}, id : Nat,
              body : Databases \cup {None}, expired : SUBSET Ids]

TypeOK == /\ db \in Databases
          /\ records \in [Ids -> Records]
          /\ files \in [Ids -> Archives]
          /\ proc \in [Replicas -> Processes]
          /\ now \in 0..MaxNow
          /\ origin \in Databases \cup {None}
          /\ reported \subseteq Replicas

\* Everything sealed in a database opens with the master key stored beside it.
Coherent(d) == \A n \in Items : d.items[n] \in {None, d.row.master}

Opened(d, m) == \A n \in Items : d.items[n] \in {None, m}

(* A restore that answers "restored" (backups.go) over the data it brought  *)
(* has left its process with the master key of the archive: whatever the    *)
(* archive holds, it can open, on whichever installation and under          *)
(* whichever of the two recovery keys.                                      *)
RestoredIsReadable ==
    \A p \in reported : Coherent(origin) => Opened(origin, proc[p].master)

(* reloadKeys: "The caller holds the request gate and has stopped background *)
(* work, so this is the moment nothing else is using them."  Every process   *)
(* that takes up the keys of an archive can open what the archive holds,     *)
(* whatever other replicas save between the commit and that moment.          *)
NothingElseUsesTheKeys ==
    [][ \A p \in Replicas :
          ReloadKeys(p) /\ proc[p].body = origin /\ Coherent(origin)
             => Opened(origin, proc'[p].master) ]_vars

(* The newest RetentionCount completed backups have their file, through    *)
(* failing steps, crashes, and replicas that finish and prune backups at    *)
(* the same time (service.go).                                             *)
RestorableIsWhole ==
    \A i \in Completed : Cardinality(Newer(i)) < RetentionCount => files[i] # NoFile

(* A start under a new recovery key, an old one or another DSN keeps the    *)
(* stored master key while the data is sealed with it; only a restore or a  *)
(* new installation brings another (resolveKeys).                           *)
KeepsMaster ==
    \/ db.row # NoRow /\ Coherent(db) => db'.row.master = db.row.master
    \/ NewInstallation \/ \E p \in Replicas : RestoreCommit(p)

-----------------------------------------------------------------------------
(* What keeps the properties: each part is true after every step because   *)
(* all of them were before it.                                             *)

\* A database that was served has its keys, and something sealed with them.
Sound(d) == /\ d \in Databases /\ d.row # NoRow
            /\ d.items["bootstrap"] # None \/ d.items["keycloak"] # None

DataInv == /\ db.row # NoRow => Sound(db)
           /\ \A i \in Ids : files[i] # NoFile => Sound(files[i].body)

\* Over the limit, and so for ever: what is removed from above it is over the limit too.
Overdue(i) == /\ records[i].status \in {"none", "completed"}
              /\ Cardinality(Newer(i)) >= RetentionCount

Creating(r) == r.pc \in {"begun", "written"}

\* What a process has in hand.
ProcInv(r) ==
    /\ r.pc = "off" => r = Off
    /\ r.pc # "off" => r.rk # None /\ r.master # None /\ db.row # NoRow
    /\ Creating(r) => r.id \in Ids /\ records[r.id].status = "running"
    /\ r.pc = "written" => files[r.id] # NoFile
    /\ r.pc = "removing" => r.id \in r.expired
    /\ \A i \in r.expired : Overdue(i)
    /\ r.pc \in {"read", "committed"} => Sound(r.body)
    /\ r.pc = "committed" => origin \in Databases

OneOwner == \A p, q \in Replicas :
               Creating(proc[p]) /\ Creating(proc[q]) /\ proc[p].id = proc[q].id => p = q

\* Who reported a restore has finished it.
ReportInv == \A p \in reported : proc[p].pc \notin {"off", "committed"} /\ origin \in Databases

BackupInv == /\ TypeOK /\ DataInv /\ OneOwner /\ ReportInv
             /\ \A p \in Replicas : ProcInv(proc[p])
             /\ RestoredIsReadable /\ RestorableIsWhole
=============================================================================
