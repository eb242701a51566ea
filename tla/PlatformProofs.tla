--------------------------- MODULE PlatformProofs ---------------------------
(***************************************************************************)
(* What is proved of the components that MCPlatform runs, for every number *)
(* of replicas, administrators, requests, backups, versions and rows.      *)
(* The inductive invariant of each stands in its own module; a component   *)
(* is named here as MCPlatform instantiates it (S, M, F).                  *)
(***************************************************************************)
EXTENDS MCPlatform, FiniteSetTheorems, TLAPS

-----------------------------------------------------------------------------
(* StoreStart.                                                             *)

\* A start that is interrupted, fails or has no FTS5 leaves an index that is in step
\* with the table but for rows never filled in, or a note that it is not, or one of the
\* failures the code does not record (StoreStart: Open, Write).
LEMMA IndexStep == F!IndexInv /\ F!Next => F!IndexInv'
<1> SUFFICES ASSUME F!IndexInv, F!Next PROVE F!IndexInv'
    OBVIOUS
<1> USE DEF F!IndexInv, F!Triggers, F!Described
<1>1. ASSUME NEW build \in BOOLEAN, F!Open(build) PROVE F!IndexInv'
  BY <1>1 DEF F!Open
<1>2. CASE F!Migrate
  BY <1>2 DEF F!Migrate, F!Fault
<1>3. CASE F!Probe \/ F!SchemaUnread
  <2>1. CASE F!Probe
    BY <2>1, SMTT(30) DEF F!Probe, F!Fault
  <2>2. CASE F!SchemaUnread
    BY <2>2, SMTT(30) DEF F!SchemaUnread, F!Fault
  <2> QED
    BY <1>3, <2>1, <2>2
<1>4. CASE F!CreateTable
  <2>1. CASE proc' = "drop" /\ UNCHANGED <<now, files, flaw>>
    BY <1>4, <2>1 DEF F!CreateTable
  <2>2. CASE proc' = "insert" /\ now /\ UNCHANGED <<now, files, flaw>>
    BY <1>4, <2>2 DEF F!CreateTable
  <2>3. CASE /\ proc' = "insert" /\ now' = TRUE
             /\ files' = [r \in RowIds |-> 0] /\ flaw' = "unfilled"
    BY <1>4, <2>3 DEF F!CreateTable, F!Contents
  <2> QED
    BY <1>4, <2>1, <2>2, <2>3 DEF F!CreateTable
<1>5. CASE F!CreateTrigger
  BY <1>5 DEF F!CreateTrigger, F!Fault, F!After
<1>6. CASE F!Fill
  <2>1. starts = F!Triggers
    BY <1>6 DEF F!Fill
  <2>2. CASE files' = records /\ flaw' = "none" /\ proc' = "unnote" /\ UNCHANGED fullText
    BY <1>6, <2>1, <2>2 DEF F!Fill
  <2>3. CASE proc' = "drop" /\ UNCHANGED <<files, flaw, fullText>>
    BY <1>6, <2>1, <2>3 DEF F!Fill
  <2>4. CASE ~F!Unfilled /\ fullText' = TRUE /\ proc' = "serve" /\ UNCHANGED <<files, flaw>>
    BY <1>6, <2>1, <2>4 DEF F!Fill, F!Unfilled
  <2> QED
    BY <1>6, <2>2, <2>3, <2>4 DEF F!Fill
<1>7. CASE F!NoteUnread
  BY <1>7 DEF F!NoteUnread, F!Fault
<1>8. CASE F!Unnote
  <2>1. starts = F!Triggers
    BY <1>8 DEF F!Unnote
  <2>2. CASE origin' = FALSE /\ fullText' = TRUE
    BY <1>8, <2>1, <2>2 DEF F!Unnote
  <2>3. CASE UNCHANGED <<origin, fullText>>
    BY <1>8, <2>1, <2>3 DEF F!Unnote
  <2> QED
    BY <1>8, <2>2, <2>3 DEF F!Unnote
<1>9. CASE F!DropTriggers
  BY <1>9 DEF F!DropTriggers, F!Fault
<1>10. CASE F!WriteNote
  BY <1>10 DEF F!WriteNote, F!Fault
<1>11. CASE F!Stop
  BY <1>11 DEF F!Stop
<1>12. ASSUME NEW r \in RowIds, NEW content \in F!Contents \cup {0}, F!Write(r, content)
       PROVE  F!IndexInv'
  BY <1>12 DEF F!Write, F!Operation
<1> QED
  BY <1>1, <1>2, <1>3, <1>4, <1>5, <1>6, <1>7, <1>8, <1>9, <1>10, <1>11, <1>12 DEF F!Next

-----------------------------------------------------------------------------
(* ManagedSecrets.                                                         *)

\* Two first Puts with different backends both claim version 1, and only one gets it;
\* every later Put has read the backend that one chose (ManagedSecrets: Put).
LEMMA SecretStep == M!SecretInv /\ M!Next => M!SecretInv'
<1> SUFFICES ASSUME M!SecretInv, M!Next PROVE M!SecretInv'
    OBVIOUS
<1>0. None \notin RecoveryKeys
  BY BackupAssumption
<1> USE DEF M!SecretInv, M!TypeOK, M!Rows, M!Requests, M!NoRow, M!Idle, M!Backends
<1>1. ASSUME NEW w \in Admins, NEW b \in M!Backends \cup {M!Unsaid}, NEW val \in RecoveryKeys,
             M!PutRead(w, b, val)
      PROVE  M!SecretInv'
  <2> DEFINE backend == IF b # M!Unsaid THEN b
                        ELSE IF db = M!NoRow THEN "database" ELSE db.backend
             request == [pc |-> IF backend = "vault" THEN "vault" ELSE "record",
                         backend |-> backend, val |-> val, ver |-> db.ver + 1]
  <2>1. /\ db = M!NoRow \/ db.backend = backend
        /\ proc' = [proc EXCEPT ![w] = request] /\ UNCHANGED <<db, records, files>>
    BY <1>1 DEF M!PutRead
  <2>2. backend \in M!Backends
    OBVIOUS
  <2>3. request \in M!Requests /\ (request.ver > 1 => db # M!NoRow)
    BY <2>2
  <2> HIDE DEF backend
  <2>4. /\ request.pc = "vault" => request.backend = "vault"
        /\ ~(request.pc = "record" /\ request.backend = "vault")
        /\ request.backend = backend
    OBVIOUS
  <2> HIDE DEF request
  <2>5. proc' \in [Admins -> M!Requests \cup {M!Idle}]
    BY <2>1, <2>3
  <2>6. \A x \in Admins : proc'[x] = IF x = w THEN request ELSE proc[x]
    BY <2>1
  <2> QED
    BY <2>1, <2>3, <2>4, <2>5, <2>6
<1>2. ASSUME NEW w \in Admins, M!PutVault(w) PROVE M!SecretInv'
  <2>1. proc[w] \in M!Requests /\ proc[w].pc = "vault" /\ proc[w].backend = "vault"
    BY <1>2 DEF M!PutVault
  <2> DEFINE request == [proc[w] EXCEPT !.pc = "record"]
  <2>2. request \in M!Requests /\ request.backend = "vault" /\ request.ver = proc[w].ver
        /\ request.pc = "record"
    BY <2>1
  <2>3. proc' = [proc EXCEPT ![w] = request] /\ files' = proc[w].val /\ UNCHANGED <<db, records>>
    BY <1>2 DEF M!PutVault
  <2> HIDE DEF request
  <2>4. proc' \in [Admins -> M!Requests \cup {M!Idle}] /\ files' \in RecoveryKeys
    BY <2>1, <2>2, <2>3
  <2>5. \A x \in Admins : proc'[x] = IF x = w THEN request ELSE proc[x]
    BY <2>3
  <2> QED
    BY <1>0, <2>1, <2>2, <2>3, <2>4, <2>5
<1>3. ASSUME NEW w \in Admins, M!PutRecord(w) PROVE M!SecretInv'
  <2>1. proc[w] \in M!Requests /\ proc[w].pc = "record" /\ proc' = [proc EXCEPT ![w] = M!Idle]
        /\ files' = files
    BY <1>3 DEF M!PutRecord
  <2>2. proc' \in [Admins -> M!Requests \cup {M!Idle}]
        /\ \A x \in Admins : proc'[x] = IF x = w THEN M!Idle ELSE proc[x]
    BY <2>1
  <2>3. CASE UNCHANGED <<db, records>>
    BY <2>1, <2>2, <2>3
  <2>4. CASE M!VersionIsFree(proc[w].ver)
    <3> DEFINE new == [backend |-> IF db = M!NoRow THEN proc[w].backend ELSE db.backend,
                       sealed |-> IF proc[w].backend = "database" THEN proc[w].val ELSE None,
                       ver |-> proc[w].ver, active |-> TRUE]
    <3>1. db' = new /\ records' = records \cup {proc[w].ver}
      BY <1>3, <2>4 DEF M!PutRecord
    <3>2. proc[w].ver = 1 => db = M!NoRow
      BY <2>1, <2>4 DEF M!VersionIsFree
    <3>3. new.backend = proc[w].backend /\ (db # M!NoRow => db.backend = new.backend)
      BY <2>1, <3>2
    <3>4. new \in M!Rows
      BY <2>1, <3>3
    <3>5. IF new.backend = "vault" THEN files # None ELSE new.sealed # None
      BY <1>0, <2>1, <3>3
    <3>6. 1 \in records'
      BY <2>1, <2>4, <3>1
    <3>7. new # M!NoRow
      BY <3>4
    <3> HIDE DEF new
    <3>8. records' \subseteq Nat
      BY <2>1, <3>1
    <3> QED
      BY <2>1, <2>2, <3>1, <3>3, <3>4, <3>5, <3>6, <3>7, <3>8
  <2> QED
    BY <1>3, <2>3, <2>4 DEF M!PutRecord
<1>4. ASSUME NEW w \in Admins, M!PutFails(w) PROVE M!SecretInv'
  <2>1. proc' = [proc EXCEPT ![w] = M!Idle] /\ UNCHANGED <<db, records, files>>
    BY <1>4 DEF M!PutFails
  <2> QED
    BY <2>1
<1>5. CASE M!Disable
  <2>1. db \in M!Rows /\ db' = [db EXCEPT !.active = FALSE] /\ UNCHANGED <<records, files, proc>>
    BY <1>5 DEF M!Disable
  <2>2. db' \in M!Rows /\ db'.backend = db.backend /\ db'.sealed = db.sealed
    BY <2>1
  <2> QED
    BY <2>1, <2>2
<1> QED
  BY <1>1, <1>2, <1>3, <1>4, <1>5 DEF M!Next

-----------------------------------------------------------------------------
(* Settings.                                                               *)

\* The newest version of a history is one number (Settings: IsNewest).
LEMMA OneIsNewest ==
    ASSUME NEW h, NEW n \in 0..MaxVersion, NEW m \in 0..MaxVersion,
           S!IsNewest(h, n), S!IsNewest(h, m)
    PROVE  n = m
<1>1. MaxVersion \in Nat
  BY PlatformAssumption
<1>2. m > 0 => m <= n
  BY <1>1 DEF S!IsNewest, S!Versions
<1>3. n > 0 => n <= m
  BY <1>1 DEF S!IsNewest, S!Versions
<1> QED
  BY <1>1, <1>2, <1>3

\* The mask gives way to what is stored, or to nothing (Settings: preserveMasked).
LEMMA MaskGivesWay ==
    ASSUME S!TypeOK, NEW previous \in {db, S!NoRow},
           NEW in \in [mode : Modes, secret : S!Secrets \cup {S!Mask}]
    PROVE  S!PreserveMasked(previous, in) \in S!Values
<1>1. previous.val.secret \in S!Secrets
  BY DEF S!TypeOK, S!Rows, S!NoRow, S!NoValue, S!Values, S!Secrets
<1> QED
  BY <1>1 DEF S!PreserveMasked, S!Values

\* Nothing is under way: a request that is not there is where it should be.
LEMMA IdleIsFine ==
    /\ S!Idle.pc = "idle" /\ S!Idle.expected = 0
    /\ \A n \in 0..MaxVersion : S!RequestInv(S!Idle, n)
  BY PlatformAssumption DEF S!RequestInv, S!Idle

\* A step of one request that saves nothing.
LEMMA RequestStep ==
    ASSUME S!SettingsInv, NEW a \in Admins, NEW r \in S!Requests \cup {S!Idle},
           proc' = [proc EXCEPT ![a] = r], UNCHANGED <<db, records, files>>,
           reported' \in BOOLEAN,
           ~reported' => ~reported \/ \A b \in Admins : proc[b].pc = "idle",
           r.pc \in {"validated", "read", "numbered"} => r.in \in S!Values,
           r.pc = "numbered" => r.ver \in S!Versions,
           \A n \in 0..MaxVersion :
              S!IsNewest(records, n) /\ S!RequestInv(proc[a], n) => S!RequestInv(r, n)
    PROVE  S!SettingsInv'
<1>1. S!TypeOK'
  BY DEF S!SettingsInv, S!TypeOK, S!Recorded
<1>2. PICK n \in 0..MaxVersion :
         /\ S!IsNewest(records, n)
         /\ ~reported => \A b \in Admins : S!RequestInv(proc[b], n)
  BY DEF S!SettingsInv
<1>3. S!IsNewest(records, n)'
  BY <1>2 DEF S!IsNewest
<1>4. \A b \in Admins : proc'[b] = IF b = a THEN r ELSE proc[b]
  BY DEF S!SettingsInv, S!TypeOK
<1>5. ASSUME NEW b \in Admins, ~reported' PROVE S!RequestInv(proc[b], n)'
  <2>1. \A c \in Admins : S!RequestInv(proc[c], n)
    <3>1. CASE ~reported
      BY <1>2, <3>1
    <3>2. CASE \A c \in Admins : proc[c].pc = "idle"
      <4>1. \A c \in Admins : proc[c] = S!Idle
        BY <3>2 DEF S!SettingsInv, S!TypeOK, S!Requests
      <4> QED
        BY <4>1, IdleIsFine
    <3> QED
      BY <1>5, <3>1, <3>2
  <2>2. S!RequestInv(proc'[b], n)
    BY <1>2, <1>4, <2>1
  <2> QED
    BY <2>2 DEF S!RequestInv
<1>6. db' # S!NoRow => records'[db'.ver] = db'.val
  BY DEF S!SettingsInv
<1>7. \A b \in Admins : /\ S!Saving(b)' => proc'[b].in \in S!Values
                        /\ proc'[b].pc = "numbered" => proc'[b].ver \in S!Versions
  BY <1>4 DEF S!SettingsInv, S!Saving
<1> QED
  BY <1>1, <1>2, <1>3, <1>5, <1>6, <1>7 DEF S!SettingsInv

\* The first read of a save, wherever its value comes from (Settings: putSetting,
\* restoreSettingVersion, importSettings).
LEMMA ReceivedStep ==
    ASSUME S!SettingsInv, NEW a \in Admins, NEW expected \in Nat,
           NEW in \in [mode : Modes, secret : S!Secrets \cup {S!Mask}],
           NEW previous, NEW err, NEW force, S!Received(a, expected, in, previous, err, force),
           \A n \in 0..MaxVersion : S!RequestInv(proc[a], n) => expected <= n
    PROVE  S!SettingsInv'
<1> DEFINE kept == S!PreserveMasked(previous, in)
           was == IF expected > 0 THEN previous.ver ELSE 0
           r == [S!Idle EXCEPT !.pc = "validated", !.expected = expected, !.in = kept, !.was = was]
<1>0. S!TypeOK /\ MaxVersion \in Nat
  BY PlatformAssumption DEF S!SettingsInv
<1>1. /\ proc' = [proc EXCEPT ![a] = r] /\ UNCHANGED <<db, records, files>>
      /\ previous \in {db, S!NoRow} /\ reported' = S!SweptFor(a)
  BY DEF S!Received
<1>2. kept \in S!Values
  BY <1>0, <1>1, MaskGivesWay
<1>3. was \in Nat /\ was \in {0, db.ver}
  BY <1>0, <1>1 DEF S!TypeOK, S!Rows, S!NoRow, S!Versions
<1>4. reported' \in BOOLEAN /\ (~reported' => ~reported \/ \A b \in Admins : proc[b].pc = "idle")
  BY <1>0, <1>1, ZenonT(20) DEF S!SweptFor, S!TypeOK
<1> HIDE DEF kept, was
<1>5. /\ r \in S!Requests
      /\ r.pc = "validated" /\ r.expected = expected /\ r.in = kept /\ r.was = was
  BY <1>2, <1>3 DEF S!Idle, S!Requests, S!Values
<1> HIDE DEF r
<1>6. ASSUME NEW n \in 0..MaxVersion, S!RequestInv(proc[a], n) PROVE S!RequestInv(r, n)
  BY <1>3, <1>5, <1>6 DEF S!RequestInv
<1> QED
  BY <1>1, <1>2, <1>4, <1>5, <1>6, RequestStep

\* The save that is numbered last of those under way has seen all before it, or its number
\* is taken (Settings: Commit).
LEMMA FreeIsNext ==
    ASSUME S!SettingsInv, ~reported, NEW a \in Admins, proc[a].pc = "numbered",
           S!KeyIsFree(proc[a].ver), NEW n \in 0..MaxVersion, S!IsNewest(records, n)
    PROVE  proc[a].ver = n + 1 /\ \A b \in Admins : S!RequestInv(proc[b], n)
<1>1. MaxVersion \in Nat
  BY PlatformAssumption
<1>2. PICK m \in 0..MaxVersion :
         S!IsNewest(records, m) /\ \A b \in Admins : S!RequestInv(proc[b], m)
  BY DEF S!SettingsInv
<1>3. m = n
  BY <1>2, OneIsNewest
<1>4. proc[a].ver \in S!Versions
  BY DEF S!SettingsInv
<1>5. S!RequestInv(proc[a], n)
  BY <1>2, <1>3
<1>6. proc[a].ver <= n + 1 /\ ~(proc[a].ver <= n)
  BY <1>1, <1>4, <1>5 DEF S!RequestInv, S!KeyIsFree, S!Versions
<1> QED
  BY <1>1, <1>2, <1>3, <1>4, <1>6 DEF S!Versions

\* What a save writes (Settings: putSetting, saveSettingValue).
LEMMA CommitStep ==
    ASSUME S!SettingsInv, NEW a \in Admins, S!Commit(a), S!KeyIsFree(proc[a].ver)
    PROVE  S!SettingsInv'
<1> DEFINE v == proc[a].ver
           new == [ver |-> v, val |-> proc[a].in]
<1>0. S!TypeOK /\ MaxVersion \in Nat /\ None \notin Modes
  BY PlatformAssumption DEF S!SettingsInv
<1>1. /\ proc[a] \in S!Requests /\ proc[a].pc = "numbered" /\ proc[a].in \in S!Values
      /\ v \in S!Versions /\ v \in Nat /\ v > 0 /\ v <= MaxVersion
  BY <1>0 DEF S!SettingsInv, S!Commit, S!TypeOK, S!Idle, S!Saving, S!Versions
<1>2. /\ proc' = [proc EXCEPT ![a] = S!Idle] /\ UNCHANGED <<files, reported>>
      /\ records' = [records EXCEPT ![v] = proc[a].in] /\ db' = new
  BY DEF S!Commit
<1>3. new \in S!Rows /\ new.ver = v /\ new.val = proc[a].in
  BY <1>1 DEF S!Rows
<1> HIDE DEF new
<1>4. proc[a].in # S!NoValue
  BY <1>0, <1>1 DEF S!Values, S!NoValue
<1>5. \A w \in S!Versions : records'[w] = IF w = v THEN proc[a].in ELSE records[w]
  BY <1>0, <1>2 DEF S!TypeOK
<1>6. v \notin files /\ records[v] = S!NoValue
  BY <1>0 DEF S!KeyIsFree, S!TypeOK, S!Recorded
<1>7. \A b \in Admins : proc'[b] = IF b = a THEN S!Idle ELSE proc[b]
  BY <1>0, <1>2 DEF S!TypeOK
<1> DEFINE value == proc[a].in
<1>8. value \in S!Values /\ value # S!NoValue
  BY <1>1, <1>4
<1> HIDE DEF v, value
<1>9. S!TypeOK'
  <2>1. db' \in S!Rows \cup {S!NoRow} /\ proc' \in [Admins -> S!Requests \cup {S!Idle}]
    BY <1>0, <1>2, <1>3 DEF S!TypeOK
  <2>2. records' \in [S!Versions -> S!Values \cup {S!NoValue}]
    BY <1>0, <1>1, <1>2 DEF S!TypeOK
  <2>3. files' \subseteq S!Recorded'
    BY <1>0, <1>2, <1>5, <1>4 DEF S!TypeOK, S!Recorded
  <2> QED
    BY <1>0, <1>2, <2>1, <2>2, <2>3 DEF S!TypeOK
<1>10. records'[db'.ver] = db'.val
  BY <1>1, <1>2, <1>3, <1>5
<1>11. \A b \in Admins : /\ S!Saving(b)' => proc'[b].in \in S!Values
                         /\ proc'[b].pc = "numbered" => proc'[b].ver \in S!Versions
  BY <1>7, IdleIsFine DEF S!SettingsInv, S!Saving
<1>12. PICK n \in 0..MaxVersion : S!IsNewest(records, n)
  BY DEF S!SettingsInv
<1>13. CASE reported
  <2> DEFINE m == IF v > n THEN v ELSE n
  <2>1. m \in 0..MaxVersion
    BY <1>0, <1>1
  <2>2. S!IsNewest(records', m)
    BY <1>0, <1>1, <1>4, <1>5, <1>12 DEF S!IsNewest, S!Versions
  <2> QED
    BY <1>2, <1>9, <1>10, <1>11, <1>13, <2>1, <2>2 DEF S!SettingsInv, S!IsNewest
<1>14. CASE ~reported
  <2>1. v = n + 1 /\ \A b \in Admins : S!RequestInv(proc[b], n)
    BY <1>1, <1>12, <1>14, FreeIsNext DEF v
  <2>2. n + 1 \in 0..MaxVersion /\ S!IsNewest(records', n + 1)
    BY <1>0, <1>1, <1>4, <1>5, <1>12, <2>1 DEF S!IsNewest, S!Versions
  <2>3. ASSUME NEW b \in Admins PROVE S!RequestInv(proc[b], n + 1)'
    <3>1. CASE b = a
      BY <1>7, <3>1, IdleIsFine, <2>2 DEF S!RequestInv
    <3>2. CASE b # a
      <4>1. proc'[b] = proc[b] /\ S!RequestInv(proc[b], n) /\ db'.ver = n + 1
        BY <1>2, <1>3, <1>7, <2>1, <3>2
      <4>2. proc[b].expected \in Nat /\ proc[b].ver \in Nat
        BY <1>0 DEF S!TypeOK, S!Requests, S!Idle
      <4>3. ASSUME proc[b].pc = "numbered", NEW w \in S!Versions, proc[b].ver <= w, w <= n + 1
            PROVE  records'[w] # S!NoValue /\ w \notin files'
        BY <1>0, <1>2, <1>4, <1>5, <1>6, <2>1, <4>1, <4>2, <4>3 DEF S!RequestInv, S!Versions
      <4> QED
        BY <4>1, <4>2, <4>3 DEF S!RequestInv
    <3> QED
      BY <3>1, <3>2
  <2> QED
    BY <1>9, <1>10, <1>11, <2>2, <2>3 DEF S!SettingsInv, S!IsNewest
<1> QED
  BY <1>13, <1>14

\* The retention takes no version that is in use or that was recorded while a save is under
\* way, and says when it takes the newest (Settings: applyRetention).
LEMMA RetentionStep ==
    ASSUME S!SettingsInv, S!ApplyRetention
    PROVE  S!SettingsInv'
<1>0. S!TypeOK /\ MaxVersion \in Nat
  BY PlatformAssumption DEF S!SettingsInv
<1>1. PICK n \in 0..MaxVersion, m \in 0..MaxVersion :
         /\ S!IsNewest(records, n) /\ S!IsNewest(records', m)
         /\ reported' = (reported \/ (m < n /\ \E a \in Admins : proc[a].pc # "idle"))
  BY DEF S!ApplyRetention
<1>2. /\ records' = [v \in S!Versions |-> IF v \in S!Outdated THEN S!NoValue ELSE records[v]]
      /\ files' = files \ S!Outdated /\ UNCHANGED <<db, proc>>
  BY DEF S!ApplyRetention
<1>3. reported' \in BOOLEAN
  BY <1>0, <1>1, ZenonT(20) DEF S!TypeOK
<1>4. S!TypeOK'
  <2>1. records' \in [S!Versions -> S!Values \cup {S!NoValue}]
    BY <1>0, <1>2 DEF S!TypeOK
  <2>2. files' \subseteq S!Recorded'
    BY <1>0, <1>2 DEF S!TypeOK, S!Recorded
  <2> QED
    BY <1>0, <1>2, <1>3, <2>1, <2>2 DEF S!TypeOK
<1>5. db' # S!NoRow => records'[db'.ver] = db'.val
  BY <1>0, <1>2 DEF S!SettingsInv, S!Outdated, S!TypeOK, S!Rows
<1>6. \A b \in Admins : /\ S!Saving(b)' => proc'[b].in \in S!Values
                        /\ proc'[b].pc = "numbered" => proc'[b].ver \in S!Versions
  BY <1>2 DEF S!SettingsInv, S!Saving
<1>7. ASSUME ~reported', NEW b \in Admins PROVE S!RequestInv(proc[b], m)'
  <2>1. CASE \A c \in Admins : proc[c].pc = "idle"
    <3>1. proc'[b] = S!Idle
      BY <1>0, <1>2, <2>1 DEF S!TypeOK, S!Requests
    <3> QED
      BY <3>1, IdleIsFine DEF S!RequestInv
  <2>2. CASE ~(m < n)
    <3>1. m = n
      BY <1>0, <1>1, <1>2, <2>2 DEF S!IsNewest, S!Versions
    <3>2. PICK k \in 0..MaxVersion : S!IsNewest(records, k) /\ S!RequestInv(proc[b], k)
      BY <1>1, <1>7 DEF S!SettingsInv
    <3>3. S!RequestInv(proc[b], n)
      BY <1>1, <3>2, OneIsNewest
    <3>4. \A v \in S!Versions : v \notin files => records'[v] = records[v] /\ v \notin files'
      BY <1>2 DEF S!Outdated
    <3> QED
      BY <1>2, <3>1, <3>3, <3>4 DEF S!RequestInv
  <2> QED
    BY <1>1, <1>7, <2>1, <2>2
<1>8. S!IsNewest(records, m)'
  BY <1>1 DEF S!IsNewest
<1> QED
  BY <1>4, <1>5, <1>6, <1>7, <1>8 DEF S!SettingsInv

\* Versions of a category grow until the retention takes the newest of a deleted one, and a
\* save whose number is free has seen every save before it (Settings: SettingsInv).
LEMMA SettingsStep == S!SettingsInv /\ S!Next => S!SettingsInv'
<1> SUFFICES ASSUME S!SettingsInv, S!Next PROVE S!SettingsInv'
    OBVIOUS
<1>0. /\ S!TypeOK /\ MaxVersion \in Nat /\ None \notin Modes
      /\ S!Secrets \subseteq S!Secrets \cup {S!Mask}
  BY PlatformAssumption DEF S!SettingsInv
<1>1. ASSUME NEW a \in Admins, S!OpenEditor(a) PROVE S!SettingsInv'
  <2> DEFINE shown == S!Masked(db.val)
             r == [S!Idle EXCEPT !.pc = "editing", !.expected = db.ver, !.in = shown]
  <2>1. db \in S!Rows /\ db # S!NoRow /\ db.ver \in S!Versions /\ db.val \in S!Values
    BY <1>0, <1>1 DEF S!OpenEditor, S!TypeOK, S!Rows
  <2>2. shown \in [mode : Modes, secret : S!Secrets \cup {S!Mask}]
    BY <2>1 DEF S!Values, S!Masked
  <2>3. reported' \in BOOLEAN /\ (~reported' => ~reported \/ \A b \in Admins : proc[b].pc = "idle")
    BY <1>0, <1>1, ZenonT(20) DEF S!OpenEditor, S!SweptFor, S!TypeOK
  <2> HIDE DEF shown
  <2>4. r \in S!Requests /\ r.pc = "editing" /\ r.expected = db.ver
    <3>1. db.ver \in Nat
      BY <2>1 DEF S!Versions
    <3> QED
      BY <2>2, <3>1 DEF S!Idle, S!Requests
  <2>5. proc' = [proc EXCEPT ![a] = r] /\ UNCHANGED <<db, records, files>>
    BY <1>1 DEF S!OpenEditor, shown
  <2> HIDE DEF r
  <2>6. records[db.ver] # S!NoValue
    BY <1>0, <2>1 DEF S!SettingsInv, S!Values, S!NoValue
  <2>7. ASSUME NEW n \in 0..MaxVersion, S!IsNewest(records, n) PROVE S!RequestInv(r, n)
    BY <2>1, <2>4, <2>6, <2>7 DEF S!RequestInv, S!IsNewest
  <2> QED
    BY <2>3, <2>4, <2>5, <2>7, RequestStep
<1>2. ASSUME NEW a \in Admins, proc' = [proc EXCEPT ![a] = S!Idle],
             UNCHANGED <<db, records, files, reported>>
      PROVE  S!SettingsInv'
  <2>1. reported' \in BOOLEAN /\ (~reported' => ~reported \/ \A b \in Admins : proc[b].pc = "idle")
    BY <1>0, <1>2 DEF S!TypeOK
  <2> QED
    BY <1>2, <2>1, IdleIsFine, RequestStep
<1>3. ASSUME NEW a \in Admins, S!ReadVersion(a) PROVE S!SettingsInv'
  <2> DEFINE r == [proc[a] EXCEPT !.pc = "read", !.ver = db.ver]
  <2>0. proc \in [Admins -> S!Requests \cup {S!Idle}]
    BY <1>0 DEF S!TypeOK
  <2>1. /\ proc[a] \in S!Requests /\ proc[a].pc = "validated" /\ proc[a].in \in S!Values
        /\ proc' = [proc EXCEPT ![a] = r] /\ UNCHANGED <<db, records, files, reported>>
    <3>1. proc[a] \in S!Requests /\ proc[a].pc = "validated" /\ proc[a].in \in S!Values
      BY <2>0, <1>3 DEF S!ReadVersion, S!Idle, S!SettingsInv, S!Saving
    <3>2. proc' = [proc EXCEPT ![a] = r] /\ UNCHANGED <<db, records, files, reported>>
      BY <2>0, <1>3 DEF S!ReadVersion
    <3> QED
      BY <3>1, <3>2
  <2>2. db.ver \in Nat /\ (db.ver # 0 => db # S!NoRow /\ db.ver \in S!Versions /\ db.val \in S!Values)
    BY <1>0 DEF S!TypeOK, S!Rows, S!NoRow, S!Versions
  <2>3. /\ r \in S!Requests /\ r.pc = "read" /\ r.ver = db.ver
        /\ r.expected = proc[a].expected /\ r.in = proc[a].in /\ r.was = proc[a].was
    BY <2>1, <2>2 DEF S!Requests
  <2> HIDE DEF r
  <2>4. ASSUME NEW n \in 0..MaxVersion, S!IsNewest(records, n) PROVE db.ver <= n
    <3>1. db.ver # 0 => records[db.ver] # S!NoValue
      BY <1>0, <2>2 DEF S!SettingsInv, S!Values, S!NoValue
    <3> QED
      BY <1>0, <2>2, <2>4, <3>1 DEF S!IsNewest
  <2>5. ASSUME NEW n \in 0..MaxVersion, S!IsNewest(records, n), S!RequestInv(proc[a], n)
        PROVE  S!RequestInv(r, n)
    BY <2>1, <2>3, <2>4, <2>5 DEF S!RequestInv
  <2>6. reported' \in BOOLEAN
    BY <1>0, <2>1 DEF S!TypeOK
  <2> QED
    BY <2>1, <2>3, <2>5, <2>6, RequestStep
<1>4. ASSUME NEW a \in Admins, S!ReadHistory(a) PROVE S!SettingsInv'
  <2>1. /\ proc[a] \in S!Requests /\ proc[a].pc = "read" /\ proc[a].in \in S!Values
        /\ UNCHANGED <<db, records, files, reported>> /\ reported \in BOOLEAN
    BY <1>0, <1>4 DEF S!ReadHistory, S!TypeOK, S!Idle, S!SettingsInv, S!Saving
  <2>2. CASE S!Conflicts(proc[a].expected, proc[a].ver)
    BY <1>2, <1>4, <2>1, <2>2 DEF S!ReadHistory
  <2>3. CASE ~S!Conflicts(proc[a].expected, proc[a].ver)
    <3>1. PICK k \in 0..MaxVersion :
             /\ S!IsNewest(records, k) /\ S!NextVersion(proc[a].ver, k) <= MaxVersion
             /\ proc' = [proc EXCEPT ![a] = [proc[a] EXCEPT !.pc = "numbered", !.row = db.ver,
                                                            !.ver = S!NextVersion(proc[a].ver, k)]]
      BY <1>4, <2>3 DEF S!ReadHistory
    <3> DEFINE next == S!NextVersion(proc[a].ver, k)
               r == [proc[a] EXCEPT !.pc = "numbered", !.row = db.ver, !.ver = next]
    <3>2. next \in S!Versions /\ next \in Nat /\ db.ver \in Nat
      BY <1>0, <2>1, <3>1 DEF S!NextVersion, S!Versions, S!Requests, S!TypeOK, S!Rows, S!NoRow
    <3>3. proc[a].ver <= k => next = k + 1
      BY <1>0, <2>1 DEF S!NextVersion, S!Requests
    <3>4. proc' = [proc EXCEPT ![a] = r]
      BY <3>1
    <3> HIDE DEF next
    <3>5. /\ r \in S!Requests /\ r.pc = "numbered" /\ r.ver = next /\ r.row = db.ver
          /\ r.expected = proc[a].expected /\ r.in = proc[a].in /\ r.was = proc[a].was
      BY <2>1, <3>2 DEF S!Requests
    <3> HIDE DEF r
    <3>6. ASSUME NEW n \in 0..MaxVersion, S!IsNewest(records, n), S!RequestInv(proc[a], n)
          PROVE  S!RequestInv(r, n)
      <4>1. n = k
        BY <3>1, <3>6, OneIsNewest
      <4>2. next = n + 1
        BY <2>1, <3>3, <3>6, <4>1 DEF S!RequestInv
      <4>3. r.expected > 0 => r.was \in {0, r.expected}
        BY <2>1, <2>3, <3>5, <3>6 DEF S!RequestInv, S!Conflicts
      <4>4. \A v \in S!Versions : ~(next <= v /\ v <= n)
        BY <1>0, <4>2 DEF S!Versions
      <4>5. r.expected <= n
        BY <3>5, <3>6 DEF S!RequestInv
      <4> QED
        BY <1>0, <3>5, <4>2, <4>3, <4>4, <4>5 DEF S!RequestInv
    <3> QED
      BY <2>1, <3>2, <3>4, <3>5, <3>6, RequestStep
  <2> QED
    BY <2>2, <2>3
<1>5. ASSUME NEW a \in Admins, S!Commit(a) PROVE S!SettingsInv'
  <2>1. CASE S!KeyIsFree(proc[a].ver)
    BY <1>5, <2>1, CommitStep
  <2>2. CASE ~S!KeyIsFree(proc[a].ver)
    BY <1>2, <1>5, <2>2 DEF S!Commit
  <2> QED
    BY <2>1, <2>2
<1>6. ASSUME NEW a \in Admins, S!DeleteSetting(a) PROVE S!SettingsInv'
  <2>1. db' = S!NoRow /\ UNCHANGED <<records, proc, files, reported>>
    BY <1>6 DEF S!DeleteSetting
  <2>2. S!TypeOK'
    BY <1>0, <2>1 DEF S!TypeOK, S!Recorded
  <2>3. PICK n \in 0..MaxVersion :
           S!IsNewest(records, n) /\ (~reported => \A b \in Admins : S!RequestInv(proc[b], n))
    BY DEF S!SettingsInv
  <2>4. S!IsNewest(records, n)' /\ db'.ver = 0
    BY <2>1, <2>3 DEF S!IsNewest, S!NoRow
  <2>5. ASSUME NEW b \in Admins, ~reported' PROVE S!RequestInv(proc[b], n)'
    <3>1. proc[b].expected \in Nat /\ S!RequestInv(proc[b], n)
      BY <1>0, <2>1, <2>3, <2>5 DEF S!TypeOK, S!Requests, S!Idle
    <3> QED
      BY <2>1, <2>4, <3>1 DEF S!RequestInv
  <2>6. \A b \in Admins : /\ S!Saving(b)' => proc'[b].in \in S!Values
                          /\ proc'[b].pc = "numbered" => proc'[b].ver \in S!Versions
    BY <2>1 DEF S!SettingsInv, S!Saving
  <2> QED
    BY <2>1, <2>2, <2>3, <2>4, <2>5, <2>6 DEF S!SettingsInv
<1>7. ASSUME NEW a \in Admins, NEW err \in S!Errors, NEW force \in BOOLEAN, NEW previous,
             NEW in \in [mode : Modes, secret : S!Secrets \cup {S!Mask}],
             S!SubmitEdit(a, in, previous, err, force)
                \/ S!SubmitUnversioned(a, in, previous, err, force)
                \/ S!Import(a, in, previous, err, force)
      PROVE  S!SettingsInv'
  <2>1. CASE S!SubmitEdit(a, in, previous, err, force)
    <3>1. /\ proc[a].expected \in Nat
          /\ S!Received(a, proc[a].expected, in, previous, err, force)
      BY <1>0, <2>1 DEF S!SubmitEdit, S!TypeOK, S!Requests, S!Idle
    <3>2. \A n \in 0..MaxVersion : S!RequestInv(proc[a], n) => proc[a].expected <= n
      BY DEF S!RequestInv
    <3> QED
      BY <3>1, <3>2, ReceivedStep
  <2>2. CASE S!SubmitUnversioned(a, in, previous, err, force) \/ S!Import(a, in, previous, err, force)
    <3>1. S!Received(a, 0, in, previous, err, force)
      BY <2>2 DEF S!SubmitUnversioned, S!Import
    <3>2. \A n \in 0..MaxVersion : 0 <= n
      BY <1>0
    <3> QED
      BY <3>1, <3>2, ReceivedStep
  <2> QED
    BY <1>7, <2>1, <2>2
<1>8. ASSUME NEW a \in Admins, NEW err \in S!Errors, NEW force \in BOOLEAN, NEW previous,
             NEW v \in S!Versions, S!RestoreVersion(a, v, previous, err, force)
      PROVE  S!SettingsInv'
  <2>1. S!Received(a, 0, records[v], previous, err, force) /\ v \in S!Recorded
    BY <1>8 DEF S!RestoreVersion
  <2>2. records[v] \in [mode : Modes, secret : S!Secrets \cup {S!Mask}]
    BY <1>0, <2>1 DEF S!TypeOK, S!Recorded, S!Values
  <2>3. \A n \in 0..MaxVersion : 0 <= n
    BY <1>0
  <2> QED
    BY <2>1, <2>2, <2>3, ReceivedStep
<1>9. CASE S!GrowOld
  <2>1. /\ files' = S!Recorded /\ UNCHANGED <<db, records, proc, reported>>
        /\ \A a \in Admins : ~S!Saving(a)
    BY <1>9 DEF S!GrowOld
  <2>2. S!TypeOK'
    BY <1>0, <2>1 DEF S!TypeOK, S!Recorded
  <2>3. PICK n \in 0..MaxVersion :
           S!IsNewest(records, n) /\ (~reported => \A b \in Admins : S!RequestInv(proc[b], n))
    BY DEF S!SettingsInv
  <2>4. \A b \in Admins : ~reported' => S!RequestInv(proc[b], n)'
    BY <2>1, <2>3 DEF S!RequestInv, S!Saving
  <2>5. S!IsNewest(records, n)'
    BY <2>1, <2>3 DEF S!IsNewest
  <2>6. \A b \in Admins : /\ S!Saving(b)' => proc'[b].in \in S!Values
                          /\ proc'[b].pc = "numbered" => proc'[b].ver \in S!Versions
    BY <2>1 DEF S!SettingsInv, S!Saving
  <2> QED
    BY <2>1, <2>2, <2>3, <2>4, <2>5, <2>6 DEF S!SettingsInv
<1>10. ASSUME NEW a \in Admins, S!CloseEditor(a) \/ S!GiveUp(a) PROVE S!SettingsInv'
  BY <1>2, <1>10 DEF S!CloseEditor, S!GiveUp
<1>11. \A m \in Modes, s \in S!Secrets \cup {S!Mask} :
          [mode |-> m, secret |-> s] \in [mode : Modes, secret : S!Secrets \cup {S!Mask}]
  OBVIOUS
<1>12. ASSUME NEW a \in Admins, NEW err \in S!Errors, NEW force \in BOOLEAN, NEW previous,
              \/ \E m \in Modes, s \in S!Secrets \cup {S!Mask} :
                    \/ S!SubmitEdit(a, [mode |-> m, secret |-> s], previous, err, force)
                    \/ S!SubmitUnversioned(a, [mode |-> m, secret |-> s], previous, err, force)
                    \/ S!Import(a, [mode |-> m, secret |-> s], previous, err, force)
              \/ \E v \in S!Versions : S!RestoreVersion(a, v, previous, err, force)
       PROVE  S!SettingsInv'
  BY <1>7, <1>8, <1>11, <1>12
<1>13. ASSUME NEW a \in Admins,
              \/ S!OpenEditor(a) \/ S!CloseEditor(a) \/ S!ReadVersion(a) \/ S!ReadHistory(a)
              \/ S!Commit(a) \/ S!DeleteSetting(a) \/ S!GiveUp(a)
       PROVE  S!SettingsInv'
  BY <1>1, <1>3, <1>4, <1>5, <1>6, <1>10, <1>13
<1> QED
  BY <1>9, <1>12, <1>13, RetentionStep DEF S!Next

\* The steps that change what is stored (Settings: putSetting, deleteSetting,
\* applyRetention).
LEMMA WhoSaves ==
    ASSUME S!Next
    PROVE  \/ UNCHANGED <<db, records>>
           \/ S!ApplyRetention
           \/ \E a \in Admins : S!DeleteSetting(a)
           \/ \E a \in Admins : S!Commit(a) /\ S!KeyIsFree(proc[a].ver)
<1>1. ASSUME NEW a \in Admins,
             S!OpenEditor(a) \/ S!CloseEditor(a) \/ S!ReadVersion(a) \/ S!ReadHistory(a) \/ S!GiveUp(a)
      PROVE  UNCHANGED <<db, records>>
  BY <1>1 DEF S!OpenEditor, S!CloseEditor, S!ReadVersion, S!ReadHistory, S!GiveUp
<1>2. ASSUME NEW a \in Admins, S!Commit(a), ~S!KeyIsFree(proc[a].ver)
      PROVE  UNCHANGED <<db, records>>
  BY <1>2 DEF S!Commit
<1>3. ASSUME NEW a \in Admins, NEW err \in S!Errors, NEW force \in BOOLEAN, NEW previous,
             \/ \E in : \/ S!SubmitEdit(a, in, previous, err, force)
                        \/ S!SubmitUnversioned(a, in, previous, err, force)
                        \/ S!Import(a, in, previous, err, force)
             \/ \E v \in S!Versions : S!RestoreVersion(a, v, previous, err, force)
      PROVE  UNCHANGED <<db, records>>
  BY <1>3 DEF S!SubmitEdit, S!SubmitUnversioned, S!Import, S!RestoreVersion, S!Received
<1>4. S!GrowOld => UNCHANGED <<db, records>>
  BY DEF S!GrowOld
<1> QED
  BY <1>1, <1>2, <1>3, <1>4 DEF S!Next

\* Of two saves that overlap the later replaces what it read, and the history keeps the
\* version in use (Settings: ReplacesWhatItRead, KeepsHistory).
LEMMA SavesAreKept == S!SettingsInv /\ S!Next => S!ReplacesWhatItRead /\ S!KeepsHistory
<1> SUFFICES ASSUME S!SettingsInv, S!Next PROVE S!ReplacesWhatItRead /\ S!KeepsHistory
    OBVIOUS
<1>0. S!TypeOK
  BY DEF S!SettingsInv
<1>1. CASE UNCHANGED <<db, records>>
  BY <1>1 DEF S!ReplacesWhatItRead, S!KeepsHistory, S!SettingsInv
<1>2. CASE S!ApplyRetention
  <2>1. /\ UNCHANGED <<db, proc>>
        /\ records' = [v \in S!Versions |-> IF v \in S!Outdated THEN S!NoValue ELSE records[v]]
    BY <1>2 DEF S!ApplyRetention
  <2>2. S!KeepsHistory
    BY <1>0, <2>1 DEF S!KeepsHistory, S!Recorded, S!SettingsInv, S!Outdated, S!TypeOK, S!Rows
  <2> QED
    BY <2>1, <2>2 DEF S!ReplacesWhatItRead
<1>3. ASSUME NEW a \in Admins, S!DeleteSetting(a) PROVE S!ReplacesWhatItRead /\ S!KeepsHistory
  <2>1. db' = S!NoRow /\ UNCHANGED <<records, proc>>
    BY <1>3 DEF S!DeleteSetting
  <2> QED
    BY <2>1 DEF S!ReplacesWhatItRead, S!KeepsHistory, S!Recorded, S!Idle
<1>4. ASSUME NEW a \in Admins, S!Commit(a), S!KeyIsFree(proc[a].ver)
      PROVE  S!ReplacesWhatItRead /\ S!KeepsHistory
  <2> DEFINE v == proc[a].ver
             new == [ver |-> v, val |-> proc[a].in]
  <2>1. /\ proc[a].pc = "numbered" /\ proc' = [proc EXCEPT ![a] = S!Idle]
        /\ records' = [records EXCEPT ![v] = proc[a].in] /\ db' = new
        /\ records[v] = S!NoValue
    BY <1>4 DEF S!Commit, S!KeyIsFree
  <2>2. v \in S!Versions
    BY <2>1 DEF S!SettingsInv
  <2>3. S!KeepsHistory
    <3>1. new.ver = v /\ new.val = proc[a].in
      OBVIOUS
    <3> QED
      BY <1>0, <2>1, <2>2, <3>1 DEF S!KeepsHistory, S!Recorded, S!TypeOK
  <2>4. ASSUME NEW b \in Admins, proc[b].pc = "numbered", proc'[b] = S!Idle, ~reported
        PROVE  /\ db.ver \in {0, proc[b].row}
               /\ proc[b].expected > 0 => proc[b].was \in {0, proc[b].expected}
    <3>1. b = a
      BY <1>0, <2>1, <2>4 DEF S!Idle, S!TypeOK
    <3>2. PICK n \in 0..MaxVersion : S!IsNewest(records, n)
      BY DEF S!SettingsInv
    <3>3. proc[a].ver = n + 1 /\ S!RequestInv(proc[a], n)
      BY <1>4, <2>1, <2>4, <3>2, FreeIsNext
    <3> QED
      BY <2>1, <3>1, <3>3 DEF S!RequestInv
  <2> QED
    BY <2>3, <2>4 DEF S!ReplacesWhatItRead
<1> QED
  BY <1>1, <1>2, <1>3, <1>4, WhoSaves

\* The mask is in no row and in no version (Settings: MaskIsNeverStored).
LEMMA StoredIsNoMask == S!SettingsInv => S!MaskIsNeverStored
<1> SUFFICES ASSUME S!SettingsInv PROVE S!MaskIsNeverStored
    OBVIOUS
<1>1. S!Mask \notin S!Secrets /\ None \in S!Secrets
  BY PlatformAssumption DEF S!Secrets, S!Mask
<1> QED
  BY <1>1 DEF S!SettingsInv, S!TypeOK, S!Rows, S!Values, S!NoRow, S!NoValue, S!MaskIsNeverStored

-----------------------------------------------------------------------------
(* BackupRestore: the keys.                                                *)

\* What is sealed may be taken to open with key m.
OwnKeyOpens(d, m) == TRUE \in SealedDataOpensWith(d, m)

\* A key that opens what is sealed is the one everything is sealed with, unless there is
\* nothing sealed (BackupRestore: sealedDataOpensWith).
LEMMA OpeningKey ==
    ASSUME NEW d \in Databases, NEW m \in Masters, NEW k,
           Opened(d, k), OwnKeyOpens(d, m)
    PROVE  m = k \/ \A n \in Items : d.items[n] = None
<1>0. None \notin Masters /\ Settings \subseteq Items /\ "bootstrap" \in Items
  BY BackupAssumption DEF Items
<1>1. CASE d.items["bootstrap"] # None
  BY <1>0, <1>1 DEF OwnKeyOpens, SealedDataOpensWith, Opened
<1>2. CASE d.items["bootstrap"] = None /\ Sealed(d) = {}
  BY <1>0, <1>2 DEF Sealed, Items
<1>3. CASE d.items["bootstrap"] = None /\ Sealed(d) # {}
  <2>1. PICK n \in Sealed(d) : d.items[n] = m
    BY <1>3 DEF OwnKeyOpens, SealedDataOpensWith
  <2> QED
    BY <1>0, <2>1 DEF Sealed, Opened
<1> QED
  BY <1>1, <1>2, <1>3

\* The keys a process may take up are whole, and are the stored ones unless its own
\* open what is sealed (BackupRestore: resolveKeys).
LEMMA KeysTakenUp ==
    ASSUME NEW d \in Databases, NEW rk \in RecoveryKeys, NEW prev, NEW m \in Masters,
           NEW row \in ResolveKeys(d, rk, prev, m) \ {NoRow}
    PROVE  /\ row \in Rows /\ row.master \in Masters
           /\ \/ d.row # NoRow /\ row.master = d.row.master
              \/ row.master = m /\ OwnKeyOpens(d, m)
<1>0. d.row \in Rows /\ None \notin RecoveryKeys
  BY BackupAssumption DEF Databases
<1>1. CASE d.row # NoRow /\ d.row.by = rk
  BY <1>0, <1>1 DEF ResolveKeys, Rows
<1>2. CASE d.row # NoRow /\ d.row.by # rk /\ d.row.by = prev
  <2>1. d.row \in [master : Masters, by : RecoveryKeys]
    BY <1>0, <1>2 DEF Rows
  <2>2. row = [d.row EXCEPT !.by = rk]
    BY <1>2 DEF ResolveKeys
  <2>3. row \in [master : Masters, by : RecoveryKeys] /\ row.master = d.row.master
    BY <2>1, <2>2
  <2> QED
    BY <1>2, <2>3 DEF Rows
<1>3. CASE ~(d.row # NoRow /\ d.row.by = rk) /\ ~(d.row # NoRow /\ d.row.by = prev)
  <2>1. PICK opens \in SealedDataOpensWith(d, m) :
              row = IF opens THEN [master |-> m, by |-> rk] ELSE NoRow
    BY <1>3 DEF ResolveKeys
  <2>2. opens \in BOOLEAN
    <3>1. SealedDataOpensWith(d, m) \subseteq BOOLEAN
      <4>1. \A n : (d.items[n] = m) \in BOOLEAN
        OBVIOUS
      <4>2. {d.items["bootstrap"] = m} \subseteq BOOLEAN
        BY <4>1
      <4>3. {d.items[n] = m : n \in Sealed(d)} \subseteq BOOLEAN
        BY <4>1
      <4> QED
        BY <4>2, <4>3 DEF SealedDataOpensWith
    <3> QED
      BY <2>1, <3>1
  <2>3. opens = TRUE /\ row = [master |-> m, by |-> rk]
    BY <2>1, <2>2
  <2>4. OwnKeyOpens(d, m)
    BY <2>1, <2>3 DEF OwnKeyOpens
  <2>5. row \in Rows /\ row.master = m
    BY <2>3 DEF Rows
  <2> QED
    BY <2>4, <2>5
<1> QED
  BY <1>1, <1>2, <1>3

-----------------------------------------------------------------------------
(* BackupRestore: what retention counts.                                   *)

LEMMA NewerIsFinite ==
    ASSUME NEW i
    PROVE  IsFiniteSet(Newer(i)) /\ Cardinality(Newer(i)) \in Nat /\ Newer(i) \subseteq Ids
<1>1. IsFiniteSet(Ids)
  BY BackupAssumption, FS_Interval DEF Ids
<1>2. Newer(i) \subseteq Ids
  BY DEF Newer, Completed
<1> QED
  BY <1>1, <1>2, FS_Subset, FS_CardinalityType

\* Something completed is newer than a backup over the limit.
LEMMA OverdueHasNewer ==
    ASSUME NEW i, Overdue(i)
    PROVE  \E j \in Completed : j > i
<1>1. Newer(i) # {}
  BY NewerIsFinite, BackupAssumption, FS_EmptySet DEF Overdue
<1> QED
  BY <1>1 DEF Newer

\* More completed backups count for more.
LEMMA NewerGrows ==
    ASSUME NEW i, NEW more \in SUBSET Ids, Newer(i) \subseteq more
    PROVE  Cardinality(more) \in Nat /\ Cardinality(Newer(i)) <= Cardinality(more)
<1>1. IsFiniteSet(Ids)
  BY BackupAssumption, FS_Interval DEF Ids
<1>2. IsFiniteSet(more) /\ Cardinality(more) \in Nat
  BY <1>1, FS_Subset, FS_CardinalityType
<1>3. Newer(i) \in SUBSET more
  OBVIOUS
<1> QED
  BY <1>2, <1>3, FS_Subset

-----------------------------------------------------------------------------
(* BackupRestore: steps.  One process moves from proc[p] to r.             *)

\* A step that leaves the records and the directory alone.
LEMMA DatabaseStep ==
    ASSUME BackupInv, NEW p \in Replicas, NEW r \in Processes, proc' = [proc EXCEPT ![p] = r],
           UNCHANGED <<records, files, now>>,
           UNCHANGED db \/ Sound(db'), UNCHANGED origin \/ origin' \in Databases,
           ProcInv(r)', Creating(r) => Creating(proc[p]) /\ r.id = proc[p].id,
           reported' \subseteq Replicas,
           \A q \in reported' : q # p => q \in reported /\ UNCHANGED origin,
           p \in reported' => /\ r.pc \notin {"off", "committed"} /\ origin' \in Databases
                              /\ Coherent(origin') => Opened(origin', r.master)
    PROVE  BackupInv'
<1> USE DEF BackupInv
<1>1. \A q \in Replicas : proc'[q] = IF q = p THEN r ELSE proc[q]
  BY DEF TypeOK
<1>2. TypeOK'
  BY DEF TypeOK, Sound
<1>3. DataInv'
  BY DEF DataInv, Sound
<1>4. OneOwner'
  BY <1>1 DEF OneOwner, Creating
<1>5. ReportInv'
  BY <1>1 DEF ReportInv, TypeOK
<1>6. ASSUME NEW q \in Replicas PROVE ProcInv(proc[q])'
  <2>1. CASE q = p
    <3>1. proc'[q] = r
      BY <1>1, <2>1
    <3> QED
      BY <3>1 DEF ProcInv, Creating, Overdue, Newer, Completed, Sound
  <2>2. CASE q # p
    <3>1. proc'[q] = proc[q] /\ ProcInv(proc[q])
      BY <1>1, <2>2
    <3>2. (db.row # NoRow => db'.row # NoRow) /\ (origin \in Databases => origin' \in Databases)
      BY DEF Sound
    <3> QED
      BY <3>1, <3>2 DEF ProcInv, Creating, Overdue, Newer, Completed, Sound
  <2> QED
    BY <2>1, <2>2
<1>7. RestoredIsReadable'
  BY <1>1 DEF RestoredIsReadable, Coherent, Opened, TypeOK
<1>8. RestorableIsWhole'
  BY DEF RestorableIsWhole, Newer, Completed
<1> QED
  BY <1>2, <1>3, <1>4, <1>5, <1>6, <1>7, <1>8

\* A step of Create or of the retention: records, files and the process.
LEMMA StoreStep ==
    ASSUME BackupInv, NEW p \in Replicas, NEW r \in Processes, proc' = [proc EXCEPT ![p] = r],
           UNCHANGED <<db, now, origin, reported>>,
           records' \in [Ids -> Records], files' \in [Ids -> Archives],
           \A i \in Ids : files'[i] # NoFile => Sound(files'[i].body),
           r.pc \notin {"off", "committed"}, r.master = proc[p].master, ProcInv(r)',
           \A q \in Replicas \ {p} : Creating(proc[q]) =>
              /\ records'[proc[q].id].status = "running"
              /\ Creating(r) => proc[q].id # r.id
              /\ proc[q].pc = "written" => files'[proc[q].id] # NoFile,
           \A i \in Ids : Overdue(i) => Overdue(i)',
           RestorableIsWhole'
    PROVE  BackupInv'
<1> USE DEF BackupInv
<1>1. \A q \in Replicas : proc'[q] = IF q = p THEN r ELSE proc[q]
  BY DEF TypeOK
<1>2. TypeOK'
  BY DEF TypeOK
<1>3. DataInv'
  BY DEF DataInv, Sound
<1>4. OneOwner'
  BY <1>1 DEF OneOwner, Creating
<1>5. ReportInv'
  BY <1>1 DEF ReportInv, TypeOK
<1>6. ASSUME NEW q \in Replicas PROVE ProcInv(proc[q])'
  <2>1. CASE q = p
    <3>1. proc'[q] = r
      BY <1>1, <2>1
    <3> QED
      BY <3>1 DEF ProcInv, Creating, Overdue, Newer, Completed, Sound
  <2>2. CASE q # p
    <3>1. proc'[q] = proc[q] /\ ProcInv(proc[q]) /\ proc[q].expired \subseteq Ids
      BY <1>1, <2>2 DEF TypeOK, Processes
    <3>2. \A i \in proc'[q].expired : Overdue(i)'
      BY <3>1 DEF ProcInv
    <3> QED
      BY <2>2, <3>1, <3>2 DEF ProcInv, Creating, Sound
  <2> QED
    BY <2>1, <2>2
<1>7. RestoredIsReadable'
  BY <1>1 DEF RestoredIsReadable, Coherent, Opened, TypeOK
<1> QED
  BY <1>2, <1>3, <1>4, <1>5, <1>6, <1>7

LEMMA ItemSaved ==
    ASSUME NEW d \in Databases, NEW n \in Items, NEW m \in Masters \cup {None}
    PROVE  LET e == [d EXCEPT !.items[n] = m]
           IN  /\ e \in Databases /\ e.row = d.row
               /\ \A x \in Items : e.items[x] = IF x = n THEN m ELSE d.items[x]
<1> DEFINE items == [d.items EXCEPT ![n] = m]
<1>1. items \in [Items -> Masters \cup {None}]
      /\ \A x \in Items : items[x] = IF x = n THEN m ELSE d.items[x]
  BY DEF Databases
<1>2. [d EXCEPT !.items[n] = m] = [d EXCEPT !.items = items]
  BY DEF Databases
<1> HIDE DEF items
<1>3. [d EXCEPT !.items = items] \in Databases /\ [d EXCEPT !.items = items].row = d.row
      /\ [d EXCEPT !.items = items].items = items
  BY <1>1 DEF Databases
<1> QED
  BY <1>1, <1>2, <1>3

LEMMA RowStored ==
    ASSUME NEW d \in Databases, NEW row \in Rows
    PROVE  LET e == [d EXCEPT !.row = row]
           IN  e \in Databases /\ e.row = row /\ e.items = d.items
BY DEF Databases

\* A start ends with a database that has its keys and something they seal
\* (BackupRestore: resolveKeys, loadOrCreateBootstrap).
LEMMA StartIsSound ==
    ASSUME NEW d \in Databases, NEW row \in Rows, row # NoRow, row.master \in Masters
    PROVE  /\ Sound(LoadOrCreateBootstrap([d EXCEPT !.row = row], row.master))
           /\ LoadOrCreateBootstrap([d EXCEPT !.row = row], row.master).row = row
<1> DEFINE e == [d EXCEPT !.row = row]
           f == [e EXCEPT !.items["bootstrap"] = row.master]
<1>1. e \in Databases /\ e.row = row
  BY RowStored
<1> HIDE DEF e
<1>2. {"bootstrap", "keycloak"} \subseteq Items /\ None \notin Masters
  BY BackupAssumption DEF Items
<1>3. f \in Databases /\ f.row = row /\ f.items["bootstrap"] = row.master
  BY <1>1, <1>2, ItemSaved
<1> HIDE DEF f
<1>4. LoadOrCreateBootstrap(e, row.master) =
        IF e.items["bootstrap"] = None /\ e.items["keycloak"] = None THEN f ELSE e
  BY DEF LoadOrCreateBootstrap, f
<1>5. /\ Sound(LoadOrCreateBootstrap(e, row.master))
      /\ LoadOrCreateBootstrap(e, row.master).row = row
  BY <1>1, <1>2, <1>3, <1>4 DEF Sound
<1> QED
  BY <1>5 DEF e

LEMMA ProcessState ==
    ASSUME BackupInv, NEW p \in Replicas
    PROVE  /\ proc[p] \in Processes /\ ProcInv(proc[p])
           /\ proc[p].pc # "off" => /\ proc[p].rk \in RecoveryKeys /\ proc[p].master \in Masters
                                    /\ Sound(db)
           /\ Idle(p) \in Processes /\ Idle(p).pc = "idle" /\ Idle(p).rk = proc[p].rk
           /\ Idle(p).master = proc[p].master /\ Idle(p).expired = {}
<1>1. proc[p] \in Processes /\ ProcInv(proc[p])
  BY DEF BackupInv, TypeOK
<1>2. None \in Databases \cup {None} /\ {} \in SUBSET Ids
  OBVIOUS
<1>3. /\ Idle(p) \in Processes /\ Idle(p).pc = "idle" /\ Idle(p).rk = proc[p].rk
      /\ Idle(p).master = proc[p].master /\ Idle(p).expired = {}
  BY <1>1, <1>2 DEF Idle, Processes
<1> QED
  BY <1>1, <1>3 DEF ProcInv, Processes, BackupInv, DataInv

LEMMA IdleHasNothing ==
    ASSUME NEW r \in Processes, r.pc = "idle", r.rk # None, r.master # None, r.expired = {}, db'.row # NoRow
    PROVE  ProcInv(r)'
BY DEF ProcInv, Creating

\* Starts, stops, saves and restores (BackupRestore: resolveKeys, restore, reloadKeys).
LEMMA StartStep ==
    ASSUME BackupInv, NEW p \in Replicas, NEW rk \in RecoveryKeys,
           NEW prev \in RecoveryKeys \cup {None}, NEW m \in Masters, Start(p, rk, prev, m)
    PROVE  BackupInv'
<1>0. /\ db \in Databases /\ None \notin RecoveryKeys \cup Masters
      /\ proc \in [Replicas -> Processes] /\ reported \subseteq Replicas
  BY BackupAssumption DEF BackupInv, TypeOK
<1>1. PICK row \in ResolveKeys(db, rk, prev, m) \ {NoRow} :
         /\ db' = LoadOrCreateBootstrap([db EXCEPT !.row = row], row.master)
         /\ proc' = IF db.items["bootstrap"] \in {None, row.master}
                    THEN [proc EXCEPT ![p] = [Off EXCEPT !.pc = "idle", !.rk = rk,
                                                 !.prev = prev, !.master = row.master]]
                    ELSE proc
  BY DEF Start
<1>2. row \in Rows /\ row # NoRow /\ row.master \in Masters
  BY <1>0, KeysTakenUp
<1>3. Sound(db')
  BY <1>0, <1>1, <1>2, StartIsSound
<1>4. /\ reported' = reported \ {p} /\ UNCHANGED <<records, files, now, origin>>
      /\ proc[p].pc = "off"
  BY DEF Start
<1>5. CASE proc' = proc
  <2>1. PICK r : r = proc[p]
    OBVIOUS
  <2>2. r \in Processes /\ proc' = [proc EXCEPT ![p] = r] /\ ProcInv(proc[p])
    BY <1>0, <1>5, <2>1, ProcessState
  <2>3. r = Off
    BY <1>4, <2>1, <2>2 DEF ProcInv
  <2>4. ProcInv(r)' /\ ~Creating(r)
    BY <2>3 DEF ProcInv, Off, Creating
  <2> QED
    BY <1>0, <1>3, <1>4, <2>2, <2>4, DatabaseStep
<1>6. CASE proc' = [proc EXCEPT ![p] = [Off EXCEPT !.pc = "idle", !.rk = rk, !.prev = prev,
                                                   !.master = row.master]]
  <2>1. PICK r : r = [Off EXCEPT !.pc = "idle", !.rk = rk, !.prev = prev, !.master = row.master]
    OBVIOUS
  <2>2. /\ r \in Processes /\ r.pc = "idle" /\ r.rk = rk /\ r.master = row.master
        /\ r.expired = {}
    BY <1>2, <2>1 DEF Off, Processes
  <2>3. ProcInv(r)' /\ ~Creating(r)
    BY <1>0, <1>2, <1>3, <2>2, IdleHasNothing DEF Sound, Creating
  <2> QED
    BY <1>0, <1>3, <1>4, <1>6, <2>1, <2>2, <2>3, DatabaseStep
<1> QED
  BY <1>1, <1>5, <1>6

LEMMA SaveStep ==
    ASSUME BackupInv, NEW p \in Replicas, EndBootstrap(p) \/ \E n \in Settings : SaveSetting(p, n)
    PROVE  BackupInv'
<1>0. /\ proc[p] \in Processes /\ ProcInv(proc[p]) /\ proc[p].master \in Masters
      /\ Sound(db) /\ db \in Databases
      /\ proc \in [Replicas -> Processes] /\ reported \subseteq Replicas
  BY ProcessState DEF BackupInv, TypeOK, EndBootstrap, SaveSetting, Serving
<1>1. /\ Settings \subseteq Items /\ {"bootstrap", "keycloak"} \subseteq Items
      /\ None \notin Masters
  BY BackupAssumption DEF Items
<1>2. Sound(db')
  <2>1. CASE EndBootstrap(p)
    <3>1. "bootstrap" # "keycloak" /\ db.items["keycloak"] # None
          /\ db' = [db EXCEPT !.items["bootstrap"] = None]
      BY <2>1 DEF EndBootstrap
    <3> QED
      BY <1>0, <1>1, <3>1, ItemSaved DEF Sound
  <2>2. ASSUME NEW n \in Settings, SaveSetting(p, n) PROVE Sound(db')
    <3>1. db' = [db EXCEPT !.items[n] = proc[p].master]
      BY <2>2 DEF SaveSetting
    <3>2. /\ db' \in Databases /\ db'.row = db.row
          /\ \A x \in Items : db'.items[x] = IF x = n THEN proc[p].master ELSE db.items[x]
      BY <1>0, <1>1, <3>1, ItemSaved
    <3> QED
      BY <1>0, <1>1, <3>2 DEF Sound
  <2> QED
    BY <2>1, <2>2
<1>3. UNCHANGED <<records, files, proc, now, origin, reported>>
  BY DEF EndBootstrap, SaveSetting
<1>4. PICK r : r = proc[p]
  OBVIOUS
<1>5. r \in Processes /\ proc' = [proc EXCEPT ![p] = r]
  BY <1>0, <1>3, <1>4
<1>6. ProcInv(r)'
  <2>1. ProcInv(r)
    BY <1>0, <1>4
  <2> QED
    BY <1>2, <1>3, <2>1 DEF ProcInv, Creating, Overdue, Newer, Completed, Sound
<1>7. p \in reported' => /\ r.pc \notin {"off", "committed"} /\ origin' \in Databases
                         /\ Coherent(origin') => Opened(origin', r.master)
  BY <1>3, <1>4 DEF BackupInv, ReportInv, RestoredIsReadable
<1> QED
  BY <1>0, <1>2, <1>3, <1>4, <1>5, <1>6, <1>7, DatabaseStep

\* What a process reports as restored it can open (BackupRestore: restoreBackup, reloadKeys).
LEMMA ReloadStep ==
    ASSUME BackupInv, NEW p \in Replicas, ReloadKeys(p)
    PROVE  BackupInv'
<1>0. /\ proc[p] \in Processes /\ ProcInv(proc[p]) /\ proc[p].pc = "committed"
      /\ proc[p].rk \in RecoveryKeys /\ proc[p].master \in Masters
      /\ Sound(db) /\ db \in Databases /\ origin \in Databases
      /\ proc \in [Replicas -> Processes] /\ reported \subseteq Replicas
      /\ None \notin RecoveryKeys \cup Masters
  BY ProcessState, BackupAssumption DEF BackupInv, TypeOK, ReloadKeys, ProcInv
<1>1. PICK row \in ReloadedKeys(p) :
         /\ db' = [db EXCEPT !.row = row]
         /\ proc' = [proc EXCEPT ![p] = [Idle(p) EXCEPT !.master = row.master]]
  BY DEF ReloadKeys
<1>2. /\ row \in Rows /\ row # NoRow /\ row.master \in Masters
      /\ \/ row.master = db.row.master
         \/ row.master = proc[p].master /\ OwnKeyOpens(db, proc[p].master)
  <2> DEFINE prev == proc[p].prev
  <2>1. row \in ResolveKeys(db, proc[p].rk, prev, proc[p].master) \ {NoRow}
    BY <1>1 DEF ReloadedKeys
  <2> HIDE DEF prev
  <2>2. row \in Rows /\ row.master \in Masters
        /\ ((db.row # NoRow /\ row.master = db.row.master)
             \/ (row.master = proc[p].master /\ OwnKeyOpens(db, proc[p].master)))
    BY <1>0, <2>1, KeysTakenUp
  <2> QED
    BY <2>1, <2>2
<1>3. Sound(db')
  BY <1>0, <1>1, <1>2, RowStored DEF Sound
<1>4. PICK r : r = [Idle(p) EXCEPT !.master = row.master]
  OBVIOUS
<1>5. /\ r \in Processes /\ r.pc = "idle" /\ r.rk = proc[p].rk /\ r.master = row.master
      /\ r.expired = {}
  BY <1>2, <1>4, ProcessState DEF Processes
<1>6. ProcInv(r)' /\ ~Creating(r)
  BY <1>0, <1>2, <1>3, <1>5, IdleHasNothing DEF Sound, Creating
<1>7. /\ UNCHANGED <<records, files, now, origin>> /\ proc' = [proc EXCEPT ![p] = r]
      /\ reported' = IF SameData(db, origin) THEN reported \cup {p} ELSE reported
  BY <1>1, <1>4 DEF ReloadKeys
<1>8. p \in reported' => SameData(db, origin)
  BY <1>0, <1>7 DEF BackupInv, ReportInv
<1>9. ASSUME SameData(db, origin), Coherent(origin) PROVE Opened(origin, r.master)
  <2>1. Opened(origin, origin.row.master) /\ db.items = origin.items
        /\ db.row.master = origin.row.master
    BY <1>9 DEF Coherent, Opened, SameData
  <2>2. Opened(db, origin.row.master)
    BY <2>1 DEF Opened
  <2>3. CASE row.master = origin.row.master
    BY <1>5, <2>1, <2>3
  <2>4. CASE row.master = proc[p].master /\ OwnKeyOpens(db, proc[p].master)
    <3>1. proc[p].master = origin.row.master \/ \A n \in Items : db.items[n] = None
      BY <1>0, <2>2, <2>4, OpeningKey
    <3> QED
      BY <1>5, <2>1, <2>3, <2>4, <3>1 DEF Opened
  <2> QED
    BY <1>2, <2>1, <2>3, <2>4
<1> QED
  <2>1. p \in reported' => /\ r.pc \notin {"off", "committed"} /\ origin' \in Databases
                           /\ Coherent(origin') => Opened(origin', r.master)
    BY <1>0, <1>5, <1>7, <1>8, <1>9
  <2>2. reported' \subseteq Replicas /\ \A q \in reported' : q # p => q \in reported
    BY <1>0, <1>7
  <2>3. UNCHANGED <<records, files, now, origin>> /\ proc' = [proc EXCEPT ![p] = r]
    BY <1>7
  <2> QED
    BY <1>3, <1>5, <1>6, <2>1, <2>2, <2>3, DatabaseStep

LEMMA RestoreStep ==
    ASSUME BackupInv, NEW p \in Replicas,
           \/ Stop(p) \/ RestoreCommit(p) \/ RestoreFails(p) \/ ReloadFails(p)
           \/ \E i \in Ids : RestoreRead(p, i)
    PROVE  BackupInv'
<1>0. /\ proc[p] \in Processes /\ ProcInv(proc[p]) /\ proc \in [Replicas -> Processes]
      /\ db \in Databases /\ files \in [Ids -> Archives] /\ reported \subseteq Replicas
      /\ None \notin RecoveryKeys \cup Masters
  BY BackupAssumption DEF BackupInv, TypeOK
<1>1. CASE Stop(p)
  <2>1. PICK r : r = Off
    OBVIOUS
  <2>2. r \in Processes /\ proc' = [proc EXCEPT ![p] = r]
    BY <1>1, <2>1 DEF Stop, Off, Processes
  <2>3. ProcInv(r)' /\ ~Creating(r)
    BY <2>1 DEF ProcInv, Off, Creating
  <2> QED
    BY <1>0, <1>1, <2>2, <2>3, DatabaseStep DEF Stop
<1>2. CASE RestoreCommit(p)
  <2>1. /\ proc[p].pc = "read" /\ Sound(proc[p].body)
        /\ db' = proc[p].body /\ origin' = proc[p].body /\ reported' = {}
        /\ UNCHANGED <<records, files, now>>
        /\ proc[p].rk # None /\ proc[p].master # None
    BY <1>0, <1>2 DEF RestoreCommit, Step, ProcInv
  <2>2. PICK r : r = [proc[p] EXCEPT !.pc = "committed"]
    OBVIOUS
  <2>3. /\ r \in Processes /\ r.pc = "committed" /\ r.rk = proc[p].rk /\ r.master = proc[p].master
        /\ r.expired = proc[p].expired /\ r.body = proc[p].body
        /\ proc' = [proc EXCEPT ![p] = r]
    BY <1>0, <1>2, <2>2 DEF RestoreCommit, Step, Processes
  <2>4. ProcInv(r)' /\ ~Creating(r)
    BY <1>0, <2>1, <2>3 DEF ProcInv, Creating, Overdue, Newer, Completed, Sound
  <2> QED
    BY <2>1, <2>3, <2>4, DatabaseStep DEF Sound
<1>3. CASE RestoreFails(p) \/ ReloadFails(p)
  <2>1. PICK r : r = Idle(p)
    OBVIOUS
  <2>2. /\ proc' = [proc EXCEPT ![p] = r] /\ proc[p].pc \in {"read", "committed"}
        /\ UNCHANGED <<db, records, files, now, origin, reported>>
    BY <1>3, <2>1 DEF RestoreFails, ReloadFails
  <2>3. /\ r \in Processes /\ r.pc = "idle" /\ r.rk = proc[p].rk /\ r.master = proc[p].master
        /\ r.expired = {}
    BY <2>1, ProcessState
  <2>4. ProcInv(r)' /\ ~Creating(r)
    BY <1>0, <2>2, <2>3, IdleHasNothing DEF ProcInv, Creating
  <2>5. p \in reported => /\ origin \in Databases
                          /\ Coherent(origin) => Opened(origin, proc[p].master)
    BY DEF BackupInv, ReportInv, RestoredIsReadable
  <2> QED
    BY <1>0, <2>2, <2>3, <2>4, <2>5, DatabaseStep
<1>4. ASSUME NEW i \in Ids, RestoreRead(p, i) PROVE BackupInv'
  <2>1. /\ proc[p].pc = "idle" /\ files[i] # NoFile /\ Sound(files[i].body)
        /\ UNCHANGED <<db, records, files, now, origin, reported>>
    BY <1>4 DEF RestoreRead, ReadVerified, BackupInv, DataInv
  <2>2. PICK r : r = [proc[p] EXCEPT !.pc = "read", !.body = files[i].body]
    OBVIOUS
  <2>3. /\ r \in Processes /\ r.pc = "read" /\ r.rk = proc[p].rk /\ r.master = proc[p].master
        /\ r.expired = proc[p].expired /\ r.body = files[i].body
        /\ proc' = [proc EXCEPT ![p] = r]
    BY <1>0, <1>4, <2>1, <2>2 DEF RestoreRead, Processes, Sound
  <2>4. ProcInv(r)' /\ ~Creating(r)
    BY <1>0, <2>1, <2>3 DEF ProcInv, Creating, Overdue, Newer, Completed, Sound
  <2>5. p \in reported => /\ origin \in Databases
                          /\ Coherent(origin) => Opened(origin, proc[p].master)
    BY DEF BackupInv, ReportInv, RestoredIsReadable
  <2> QED
    BY <1>0, <2>1, <2>3, <2>4, <2>5, DatabaseStep
<1> QED
  BY <1>1, <1>2, <1>3, <1>4

\* Reading what is over the limit (BackupRestore: enforceRetention).
LEMMA SelectStep ==
    ASSUME BackupInv, NEW p \in Replicas, SelectExpired(p)
    PROVE  BackupInv'
<1>0. /\ proc[p] \in Processes /\ ProcInv(proc[p]) /\ proc[p].pc = "completed"
      /\ Expired \in SUBSET Ids /\ reported \subseteq Replicas
      /\ UNCHANGED <<db, records, files, now, origin, reported>>
  BY DEF BackupInv, TypeOK, SelectExpired, Expired, Completed
<1>1. PICK r : r = IF Expired = {} THEN Idle(p)
                   ELSE [Idle(p) EXCEPT !.pc = "retaining", !.expired = Expired]
  OBVIOUS
<1>2. /\ r \in Processes /\ r.pc \in {"idle", "retaining"} /\ r.rk = proc[p].rk
      /\ r.master = proc[p].master /\ r.expired \subseteq Expired
  <2>1. CASE Expired = {}
    BY <1>1, <2>1, ProcessState
  <2>2. CASE Expired # {}
    BY <1>0, <1>1, <2>2, ProcessState DEF Processes
  <2> QED
    BY <2>1, <2>2
<1>3. proc' = [proc EXCEPT ![p] = r]
  BY <1>1 DEF SelectExpired
<1>4. \A i \in Expired : Overdue(i)'
  BY <1>0 DEF Expired, Overdue, Newer, Completed
<1>5. ProcInv(r)' /\ ~Creating(r)
  BY <1>0, <1>2, <1>4 DEF ProcInv, Creating
<1>6. p \in reported => /\ origin \in Databases
                        /\ Coherent(origin) => Opened(origin, proc[p].master)
  BY DEF BackupInv, ReportInv, RestoredIsReadable
<1> QED
  BY <1>0, <1>2, <1>3, <1>5, <1>6, DatabaseStep

\* A slot is taken once, and what is new is older than nothing (BackupRestore: RunOnce).
LEMMA InsertStep ==
    ASSUME BackupInv, NEW p \in Replicas, CreateManual(p) \/ RunOnce(p)
    PROVE  BackupInv'
<1>1. PICK slot \in {Slot(t) : t \in 0..MaxNow} \cup {None} : InsertRecord(p, slot)
  BY DEF CreateManual, RunOnce, BackupInv, TypeOK
<1>2. PICK i \in Fresh :
         /\ records' = [records EXCEPT ![i] = [status |-> "running", slot |-> slot, created |-> now]]
         /\ proc' = [proc EXCEPT ![p].pc = "begun", ![p].id = i]
  BY <1>1 DEF InsertRecord
<1>3. /\ i \in Ids /\ i \in Nat /\ records[i] = NoRecord
      /\ \A j \in Ids : j >= i => records[j] = NoRecord
  BY DEF Fresh, Ids
<1>4. /\ proc[p] \in Processes /\ ProcInv(proc[p]) /\ proc[p].pc = "idle"
      /\ UNCHANGED <<db, files, now, origin, reported>>
      /\ records \in [Ids -> Records] /\ files \in [Ids -> Archives] /\ now \in 0..MaxNow
      /\ proc \in [Replicas -> Processes]
  BY <1>1 DEF BackupInv, TypeOK, InsertRecord
<1> DEFINE record == [status |-> "running", slot |-> slot, created |-> now]
<1>5. record \in Records /\ record.status = "running" /\ record.slot = slot
  BY <1>4 DEF Records
<1> HIDE DEF record
<1>6. /\ records' \in [Ids -> Records]
      /\ \A j \in Ids : records'[j] = IF j = i THEN record ELSE records[j]
  BY <1>2, <1>3, <1>4, <1>5 DEF record
<1>7. records[i].status = "none" /\ records[i].slot = None
  BY <1>3 DEF NoRecord
<1>8. Completed' = Completed
  BY <1>5, <1>6, <1>7 DEF Completed
<1>9. \A j \in Ids : Newer(j)' = Newer(j)
  BY <1>8 DEF Newer
<1>10. ASSUME NEW j \in Ids, Overdue(j) PROVE Overdue(j)'
  <2>1. PICK k \in Completed : k > j
    BY <1>10, OverdueHasNewer
  <2>2. k \in Ids /\ records[k] # NoRecord
    BY DEF Completed, NoRecord
  <2>3. j # i
    BY <1>3, <2>1, <2>2 DEF Ids
  <2> QED
    BY <1>6, <1>9, <1>10, <2>3 DEF Overdue
<1>11. RestorableIsWhole'
  BY <1>4, <1>8, <1>9 DEF RestorableIsWhole, BackupInv, Completed
<1>12. PICK r : r = [proc[p] EXCEPT !.pc = "begun", !.id = i]
  OBVIOUS
<1>13. /\ r \in Processes /\ r.pc = "begun" /\ r.id = i /\ r.rk = proc[p].rk
       /\ r.master = proc[p].master /\ r.expired = proc[p].expired
       /\ proc' = [proc EXCEPT ![p] = r]
  BY <1>2, <1>3, <1>4, <1>12 DEF Processes
<1>14. ProcInv(r)'
  <2>1. \A j \in r.expired : Overdue(j)'
    BY <1>4, <1>10, <1>13 DEF ProcInv, Processes
  <2>2. records'[i].status = "running"
    BY <1>3, <1>5, <1>6
  <2> QED
    BY <1>3, <1>4, <1>13, <2>1, <2>2 DEF ProcInv, Creating
<1>15. ASSUME NEW q \in Replicas \ {p}, Creating(proc[q])
       PROVE  /\ records'[proc[q].id].status = "running"
              /\ proc[q].id # r.id
              /\ proc[q].pc = "written" => files'[proc[q].id] # NoFile
  <2>1. ProcInv(proc[q])
    BY DEF BackupInv
  <2>2. proc[q].id \in Ids /\ records[proc[q].id].status = "running"
        /\ (proc[q].pc = "written" => files[proc[q].id] # NoFile)
    BY <1>15, <2>1 DEF ProcInv
  <2> QED
    BY <1>4, <1>6, <1>7, <1>13, <2>2
<1>16. \A j \in Ids : files'[j] # NoFile => Sound(files'[j].body)
  BY <1>4 DEF BackupInv, DataInv
<1> QED
  BY <1>4, <1>6, <1>10, <1>11, <1>13, <1>14, <1>15, <1>16, StoreStep

\* What a process that creates has, and what no other process touches.
LEMMA CreatorState ==
    ASSUME BackupInv, NEW p \in Replicas, Creating(proc[p])
    PROVE  /\ proc[p] \in Processes /\ ProcInv(proc[p]) /\ Sound(db)
           /\ proc[p].id \in Ids /\ records[proc[p].id].status = "running"
           /\ proc[p].id \notin Completed /\ ~Overdue(proc[p].id)
           /\ \A q \in Replicas \ {p} : Creating(proc[q]) =>
                 /\ proc[q].id \in Ids /\ proc[q].id # proc[p].id
                 /\ records[proc[q].id].status = "running"
                 /\ proc[q].pc = "written" => files[proc[q].id] # NoFile
<1>1. \A q \in Replicas : ProcInv(proc[q])
  BY DEF BackupInv
<1>2. ProcInv(proc[p]) /\ proc[p].pc # "off" /\ proc[p] \in Processes /\ Sound(db)
  BY <1>1, ProcessState DEF Creating
<1>3. proc[p].id \in Ids /\ records[proc[p].id].status = "running"
  BY <1>2 DEF ProcInv
<1> QED
  BY <1>1, <1>2, <1>3 DEF ProcInv, BackupInv, OneOwner, Completed, Overdue

\* The file is there before the record says so, and goes with a failure only
\* (BackupRestore: Create).
LEMMA CreateStep ==
    ASSUME BackupInv, NEW p \in Replicas, SnapshotToFile(p) \/ MarkCompleted(p) \/ CreateFails(p)
    PROVE  BackupInv'
<1> DEFINE k == proc[p].id
<1>0. /\ Creating(proc[p]) /\ UNCHANGED <<db, now, origin, reported>>
      /\ records \in [Ids -> Records] /\ files \in [Ids -> Archives]
      /\ proc \in [Replicas -> Processes] /\ None \notin RecoveryKeys
      /\ \A j \in Ids : files[j] # NoFile => Sound(files[j].body)
      /\ RestorableIsWhole
  BY BackupAssumption DEF BackupInv, TypeOK, DataInv, Creating, SnapshotToFile, MarkCompleted,
     CreateFails, Step
<1>1. /\ proc[p] \in Processes /\ ProcInv(proc[p]) /\ k \in Ids /\ records[k].status = "running"
      /\ Sound(db) /\ proc[p].rk \in RecoveryKeys /\ proc[p].master \in Masters
  BY <1>0, CreatorState, ProcessState DEF Creating
<1>2. /\ k \notin Completed /\ ~Overdue(k)
      /\ \A q \in Replicas \ {p} : Creating(proc[q]) =>
            /\ proc[q].id \in Ids /\ proc[q].id # k /\ records[proc[q].id].status = "running"
            /\ proc[q].pc = "written" => files[proc[q].id] # NoFile
  BY <1>0, CreatorState
<1>3. proc[p].expired \subseteq Ids /\ \A j \in proc[p].expired : Overdue(j)
  BY <1>1 DEF ProcInv, Processes
<1> HIDE DEF k
<1>4. CASE SnapshotToFile(p)
  <2> DEFINE archive == [by |-> proc[p].rk, body |-> db]
  <2>1. archive \in Archives /\ archive # NoFile /\ archive.body = db
    BY <1>0, <1>1 DEF Archives, NoFile, Sound
  <2> HIDE DEF archive
  <2>2. /\ files' = [files EXCEPT ![k] = archive] /\ records' = records
        /\ proc' = [proc EXCEPT ![p].pc = "written"]
    BY <1>4 DEF SnapshotToFile, Step, archive, k
  <2>3. files' \in [Ids -> Archives] /\ \A j \in Ids : files'[j] = IF j = k THEN archive ELSE files[j]
    BY <1>0, <2>1, <2>2
  <2>4. PICK r : r = [proc[p] EXCEPT !.pc = "written"]
    OBVIOUS
  <2>5. /\ r \in Processes /\ r.pc = "written" /\ r.id = k /\ r.rk = proc[p].rk
        /\ r.master = proc[p].master /\ r.expired = proc[p].expired
        /\ proc' = [proc EXCEPT ![p] = r]
    BY <1>0, <1>1, <2>2, <2>4 DEF Processes, k
  <2>6. \A j \in Ids : Overdue(j) => Overdue(j)'
    BY <2>2 DEF Overdue, Newer, Completed
  <2>7. ProcInv(r)'
    BY <1>0, <1>1, <1>3, <2>1, <2>2, <2>3, <2>5, <2>6 DEF ProcInv, Creating, Sound
  <2>8. RestorableIsWhole'
    BY <1>0, <2>1, <2>2, <2>3 DEF RestorableIsWhole, Newer, Completed
  <2>9. \A j \in Ids : files'[j] # NoFile => Sound(files'[j].body)
    BY <1>0, <1>1, <2>1, <2>3
  <2> QED
    BY <1>0, <1>2, <2>2, <2>3, <2>5, <2>6, <2>7, <2>8, <2>9, StoreStep, ZenonT(40)
<1>5. CASE MarkCompleted(p)
  <2> DEFINE record == [records[k] EXCEPT !.status = "completed"]
  <2>1. /\ record \in Records /\ record.status = "completed" /\ record.slot = records[k].slot
    BY <1>0, <1>1 DEF Records
  <2>2. /\ records' = [records EXCEPT ![k] = record] /\ files' = files
        /\ proc' = [proc EXCEPT ![p].pc = "completed"] /\ files[k] # NoFile
    BY <1>1, <1>5 DEF MarkCompleted, Step, ProcInv, k
  <2> HIDE DEF record
  <2>3. records' \in [Ids -> Records] /\ \A j \in Ids : records'[j] = IF j = k THEN record ELSE records[j]
    BY <1>0, <2>1, <2>2
  <2>4. Completed' = Completed \cup {k}
    BY <1>1, <2>1, <2>3 DEF Completed
  <2>5. ASSUME NEW j \in Ids
        PROVE  Cardinality(Newer(j)') \in Nat /\ Cardinality(Newer(j)) <= Cardinality(Newer(j)')
    <3>1. Newer(j)' \in SUBSET Ids /\ Newer(j) \subseteq Newer(j)'
      BY <1>1, <2>4 DEF Newer, Completed
    <3> QED
      BY <3>1, NewerGrows
  <2>6. ASSUME NEW j \in Ids, Overdue(j) PROVE Overdue(j)'
    <3>1. j # k
      BY <1>2, <2>6
    <3> QED
      BY <2>3, <2>5, <2>6, <3>1, NewerIsFinite, BackupAssumption DEF Overdue
  <2>7. PICK r : r = [proc[p] EXCEPT !.pc = "completed"]
    OBVIOUS
  <2>8. /\ r \in Processes /\ r.pc = "completed" /\ r.rk = proc[p].rk
        /\ r.master = proc[p].master /\ r.expired = proc[p].expired
        /\ proc' = [proc EXCEPT ![p] = r]
    BY <1>0, <1>1, <2>2, <2>7 DEF Processes
  <2>9. ProcInv(r)' /\ ~Creating(r)
    BY <1>0, <1>1, <1>3, <2>6, <2>8 DEF ProcInv, Creating, Sound
  <2>10. RestorableIsWhole'
    <3>1. ASSUME NEW j \in Completed', Cardinality(Newer(j)') < RetentionCount
          PROVE  files[j] # NoFile
      <4>1. CASE j = k
        BY <2>2, <4>1
      <4>2. CASE j # k
        <5>1. j \in Completed /\ j \in Ids
          BY <2>4, <3>1, <4>2 DEF Completed
        <5>2. Cardinality(Newer(j)) < RetentionCount
          BY <2>5, <3>1, <5>1, NewerIsFinite, BackupAssumption
        <5> QED
          BY <1>0, <5>1, <5>2 DEF RestorableIsWhole
      <4> QED
        BY <4>1, <4>2
    <3> QED
      BY <2>2, <3>1 DEF RestorableIsWhole
  <2> QED
    BY <1>0, <1>2, <2>2, <2>3, <2>6, <2>8, <2>9, <2>10, StoreStep, ZenonT(40)
<1>6. CASE CreateFails(p)
  <2> DEFINE record == [records[k] EXCEPT !.status = "failed"]
  <2>1. /\ record \in Records /\ record.status = "failed" /\ record.slot = records[k].slot
    BY <1>0, <1>1 DEF Records
  <2>2. /\ records' = [records EXCEPT ![k] = record] /\ files' = [files EXCEPT ![k] = NoFile]
        /\ proc' = [proc EXCEPT ![p] = Idle(p)]
    BY <1>6 DEF CreateFails, AfterFailure, k
  <2> HIDE DEF record
  <2>3. /\ records' \in [Ids -> Records]
        /\ \A j \in Ids : records'[j] = IF j = k THEN record ELSE records[j]
    BY <1>0, <2>1, <2>2
  <2>4. /\ files' \in [Ids -> Archives]
        /\ \A j \in Ids : files'[j] = IF j = k THEN NoFile ELSE files[j]
    BY <1>0, <2>2 DEF Archives
  <2>5. Completed' = Completed
    BY <1>1, <2>1, <2>3 DEF Completed
  <2>6. \A j \in Ids : Overdue(j) => Overdue(j)'
    BY <1>2, <2>3, <2>5 DEF Overdue, Newer
  <2>7. PICK r : r = Idle(p)
    OBVIOUS
  <2>8. /\ r \in Processes /\ r.pc = "idle" /\ r.rk = proc[p].rk
        /\ r.master = proc[p].master /\ r.expired = {}
        /\ proc' = [proc EXCEPT ![p] = r]
    BY <2>2, <2>7, ProcessState
  <2>9. ProcInv(r)' /\ ~Creating(r)
    BY <1>0, <1>1, <2>8 DEF ProcInv, Creating, Sound
  <2>10. RestorableIsWhole'
    BY <1>0, <1>2, <2>4, <2>5 DEF RestorableIsWhole, Newer, Completed
  <2>11. \A j \in Ids : files'[j] # NoFile => Sound(files'[j].body)
    BY <1>0, <2>4
  <2>12. \A q \in Replicas \ {p} : Creating(proc[q]) =>
            /\ records'[proc[q].id].status = "running"
            /\ proc[q].pc = "written" => files'[proc[q].id] # NoFile
    BY <1>2, <2>3, <2>4
  <2> QED
    BY <1>0, <2>3, <2>4, <2>6, <2>8, <2>9, <2>10, <2>11, <2>12, StoreStep
<1> QED
  BY <1>4, <1>5, <1>6

\* What is removed is over the limit, and what was over the limit with it counted is over
\* the limit without it (BackupRestore: enforceRetention).
LEMMA RetainStep ==
    ASSUME BackupInv, NEW p \in Replicas, RemoveFile(p) \/ DeleteRecord(p)
    PROVE  BackupInv'
<1>0. /\ proc[p].pc \in {"retaining", "removing"} /\ UNCHANGED <<db, now, origin, reported>>
      /\ records \in [Ids -> Records] /\ files \in [Ids -> Archives]
      /\ proc \in [Replicas -> Processes]
      /\ \A j \in Ids : files[j] # NoFile => Sound(files[j].body)
      /\ RestorableIsWhole
  BY DEF BackupInv, TypeOK, DataInv, RemoveFile, DeleteRecord
<1>1. /\ proc[p] \in Processes /\ ProcInv(proc[p]) /\ Sound(db)
      /\ proc[p].expired \subseteq Ids /\ \A j \in proc[p].expired : Overdue(j)
      /\ RetentionCount \in Nat \ {0}
  BY <1>0, ProcessState, BackupAssumption DEF ProcInv, Processes
<1>2. ASSUME NEW i \in Ids, Overdue(i), NEW q \in Replicas, Creating(proc[q])
      PROVE  /\ proc[q].id \in Ids /\ proc[q].id # i /\ records[proc[q].id].status = "running"
             /\ proc[q].pc = "written" => files[proc[q].id] # NoFile
  BY <1>2, CreatorState DEF ProcInv
<1>3. CASE RemoveFile(p)
  <2>1. PICK i \in proc[p].expired :
           /\ files' \in {[files EXCEPT ![i] = NoFile], files}
           /\ proc' = [proc EXCEPT ![p].pc = "removing", ![p].id = i]
    BY <1>3 DEF RemoveFile
  <2>2. i \in Ids /\ i \in Nat /\ Overdue(i) /\ records' = records
    BY <1>1, <1>3 DEF RemoveFile, Ids
  <2>3. /\ files' \in [Ids -> Archives]
        /\ \A j \in Ids : files'[j] = files[j] \/ (j = i /\ files'[j] = NoFile)
    BY <1>0, <2>1 DEF Archives
  <2>4. PICK r : r = [proc[p] EXCEPT !.pc = "removing", !.id = i]
    OBVIOUS
  <2>5. /\ r \in Processes /\ r.pc = "removing" /\ r.id = i /\ r.rk = proc[p].rk
        /\ r.master = proc[p].master /\ r.expired = proc[p].expired
        /\ proc' = [proc EXCEPT ![p] = r]
    BY <1>0, <1>1, <2>1, <2>2, <2>4 DEF Processes
  <2>6. \A j \in Ids : Overdue(j) => Overdue(j)'
    BY <2>2 DEF Overdue, Newer, Completed
  <2>7. ProcInv(r)' /\ ~Creating(r)
    BY <1>0, <1>1, <2>1, <2>5, <2>6 DEF ProcInv, Creating, Sound
  <2>8. RestorableIsWhole'
    <3>1. ASSUME NEW j \in Completed, Cardinality(Newer(j)) < RetentionCount
          PROVE  files'[j] # NoFile
      <4>1. j \in Ids /\ files[j] # NoFile
        BY <1>0, <3>1 DEF RestorableIsWhole, Completed
      <4>2. j # i
        BY <1>1, <2>2, <3>1, NewerIsFinite DEF Overdue
      <4> QED
        BY <2>3, <4>1, <4>2
    <3> QED
      BY <2>2, <3>1 DEF RestorableIsWhole, Newer, Completed
  <2>9. \A j \in Ids : files'[j] # NoFile => Sound(files'[j].body)
    BY <1>0, <2>3
  <2>10. \A q \in Replicas \ {p} : Creating(proc[q]) =>
            /\ records'[proc[q].id].status = "running"
            /\ proc[q].pc = "written" => files'[proc[q].id] # NoFile
    BY <1>2, <2>2, <2>3
  <2> QED
    BY <1>0, <2>2, <2>3, <2>5, <2>6, <2>7, <2>8, <2>9, <2>10, StoreStep
<1>4. CASE DeleteRecord(p)
  <2> DEFINE k == proc[p].id
             rest == proc[p].expired \ {k}
  <2>1. k \in Ids /\ k \in Nat /\ Overdue(k)
    BY <1>1, <1>4 DEF DeleteRecord, ProcInv, Ids
  <2>2. rest \subseteq Ids /\ \A j \in rest : Overdue(j)
    BY <1>1
  <2>3. /\ records' = [records EXCEPT ![k] = NoRecord] /\ files' = files
        /\ proc' = [proc EXCEPT ![p] = IF rest = {} THEN Idle(p)
                                       ELSE [Idle(p) EXCEPT !.pc = "retaining", !.expired = rest]]
    BY <1>4 DEF DeleteRecord
  <2> HIDE DEF k, rest
  <2>4. NoRecord \in Records /\ NoRecord.status = "none" /\ NoRecord.slot = None
    BY BackupAssumption DEF NoRecord, Records
  <2>5. /\ records' \in [Ids -> Records]
        /\ \A j \in Ids : records'[j] = IF j = k THEN NoRecord ELSE records[j]
    BY <1>0, <2>3, <2>4
  <2>6. Completed' = Completed \ {k}
    BY <2>1, <2>4, <2>5 DEF Completed
  <2>7. ASSUME NEW j \in Ids, Cardinality(Newer(j)') < RetentionCount \/ Overdue(j)
        PROVE  \/ Newer(j)' = Newer(j)
               \/ Cardinality(Newer(j)') \in Nat /\ Cardinality(Newer(j)') >= RetentionCount
    <3>1. CASE k > j
      <4>1. Newer(j)' \in SUBSET Ids /\ Newer(k) \subseteq Newer(j)'
        BY <2>1, <2>6, <3>1 DEF Newer, Completed, Ids
      <4>2. /\ Cardinality(Newer(j)') \in Nat
            /\ Cardinality(Newer(k)) <= Cardinality(Newer(j)')
        BY <4>1, NewerGrows
      <4> QED
        BY <1>1, <2>1, <4>2, NewerIsFinite DEF Overdue
    <3>2. CASE ~(k > j)
      BY <2>6, <3>2 DEF Newer
    <3> QED
      BY <3>1, <3>2
  <2>8. ASSUME NEW j \in Ids, Overdue(j) PROVE Overdue(j)'
    <3>1. records'[j].status \in {"none", "completed"}
      BY <2>4, <2>5, <2>8 DEF Overdue
    <3>2. Cardinality(Newer(j)') >= RetentionCount
      BY <2>7, <2>8 DEF Overdue
    <3> QED
      BY <3>1, <3>2 DEF Overdue
  <2>9. PICK r : r = IF rest = {} THEN Idle(p)
                     ELSE [Idle(p) EXCEPT !.pc = "retaining", !.expired = rest]
    OBVIOUS
  <2>10. /\ r \in Processes /\ r.pc \in {"idle", "retaining"} /\ r.rk = proc[p].rk
         /\ r.master = proc[p].master /\ r.expired \subseteq rest
    <3>1. CASE rest = {}
      BY <2>9, <3>1, ProcessState
    <3>2. CASE rest # {}
      BY <2>2, <2>9, <3>2, ProcessState, ZenonT(40) DEF Processes
    <3> QED
      BY <3>1, <3>2
  <2>11. ProcInv(r)' /\ ~Creating(r)
    BY <1>0, <1>1, <2>2, <2>8, <2>10 DEF ProcInv, Creating, Sound
  <2>12. RestorableIsWhole'
    <3>1. ASSUME NEW j \in Completed', Cardinality(Newer(j)') < RetentionCount
          PROVE  files[j] # NoFile
      <4>1. j \in Completed /\ j \in Ids
        BY <2>6 DEF Completed
      <4>2. Newer(j)' = Newer(j)
        BY <1>1, <2>7, <3>1, <4>1
      <4> QED
        BY <1>0, <3>1, <4>1, <4>2 DEF RestorableIsWhole
    <3> QED
      BY <2>3, <3>1 DEF RestorableIsWhole
  <2>13. \A q \in Replicas \ {p} : Creating(proc[q]) =>
            /\ records'[proc[q].id].status = "running"
            /\ proc[q].pc = "written" => files'[proc[q].id] # NoFile
    BY <1>2, <2>1, <2>3, <2>5
  <2>14. proc' = [proc EXCEPT ![p] = r]
    BY <2>3, <2>9
  <2>15. \A j \in Ids : files'[j] # NoFile => Sound(files'[j].body)
    BY <1>0, <2>3
  <2>16. files' \in [Ids -> Archives]
    BY <1>0, <2>3
  <2> QED
    BY <1>0, <2>5, <2>8, <2>10, <2>11, <2>12, <2>13, <2>14, <2>15, <2>16, StoreStep
<1> QED
  BY <1>3, <1>4

\* Everything but the directory and the recovery keys is lost, or time passes.
LEMMA NewOrTick ==
    ASSUME BackupInv, NewInstallation \/ Tick
    PROVE  BackupInv'
<1> USE DEF BackupInv
<1>1. CASE Tick
  <2>1. TypeOK'
    BY <1>1, BackupAssumption DEF Tick, TypeOK
  <2>2. UNCHANGED <<db, records, files, proc, origin, reported>>
    BY <1>1 DEF Tick
  <2>3. DataInv' /\ OneOwner' /\ ReportInv'
    BY <2>2 DEF DataInv, OneOwner, ReportInv, Creating, Sound
  <2>4. ASSUME NEW p \in Replicas PROVE ProcInv(proc[p])'
    <3>1. ProcInv(proc[p]) /\ (\A i : Overdue(i)' = Overdue(i))
      BY <2>2 DEF Overdue, Newer, Completed
    <3> QED
      BY <2>2, <3>1 DEF ProcInv, Creating, Sound
  <2>5. RestoredIsReadable' /\ RestorableIsWhole'
    BY <2>2 DEF RestoredIsReadable, RestorableIsWhole, Newer, Completed, Coherent,
       Opened
  <2> QED
    BY <2>1, <2>3, <2>4, <2>5
<1>2. CASE NewInstallation
  <2>1. /\ db' = [items |-> [n \in Items |-> None], row |-> NoRow]
        /\ records' = [i \in Ids |-> NoRecord] /\ origin' = None
        /\ UNCHANGED <<files, proc, now, reported>>
        /\ \A p \in Replicas : proc[p].pc = "off" /\ proc[p] = Off
    BY <1>2 DEF NewInstallation, AllOff, ProcInv
  <2>2. reported = {} /\ reported' = {}
    BY <2>1 DEF ReportInv, TypeOK
  <2>3. db' \in Databases /\ db'.row = NoRow
    BY <2>1 DEF Databases, Rows
  <2>4. NoRecord \in Records /\ NoRecord.slot = None /\ NoRecord.status = "none"
    BY <1>1, BackupAssumption DEF NoRecord, Records
  <2>5. records' \in [Ids -> Records] /\ \A i \in Ids : records'[i] = NoRecord
    BY <2>1, <2>4
  <2>6. TypeOK'
    BY <2>1, <2>2, <2>3, <2>5 DEF TypeOK
  <2>7. DataInv' /\ OneOwner' /\ ReportInv'
    BY <2>1, <2>2, <2>3 DEF DataInv, OneOwner, ReportInv, Creating, Sound, Off
  <2>8. ASSUME NEW p \in Replicas PROVE ProcInv(proc[p])'
    <3>1. proc'[p] = Off
      BY <2>1
    <3>2. Off.pc = "off" /\ Off.expired = {}
      BY DEF Off
    <3> QED
      BY <3>1, <3>2 DEF ProcInv, Creating
  <2>9. RestoredIsReadable' /\ RestorableIsWhole'
    BY <2>2, <2>4, <2>5 DEF RestoredIsReadable, RestorableIsWhole, Completed
  <2> QED
    BY <2>6, <2>7, <2>8, <2>9
<1> QED
  BY <1>1, <1>2

LEMMA BackupStep == BackupInv /\ Next => BackupInv'
<1> SUFFICES ASSUME BackupInv, Next PROVE BackupInv'
    OBVIOUS
<1>1. CASE NewInstallation \/ Tick
  BY <1>1, NewOrTick
<1>2. ASSUME NEW p \in Replicas, NEW rk \in RecoveryKeys, NEW prev \in RecoveryKeys \cup {None},
             NEW m \in Masters, Start(p, rk, prev, m)
      PROVE  BackupInv'
  BY <1>2, StartStep
<1>3. ASSUME NEW p \in Replicas, EndBootstrap(p) \/ \E n \in Settings : SaveSetting(p, n)
      PROVE  BackupInv'
  BY <1>3, SaveStep
<1>4. ASSUME NEW p \in Replicas, CreateManual(p) \/ RunOnce(p) PROVE BackupInv'
  BY <1>4, InsertStep
<1>5. ASSUME NEW p \in Replicas, SnapshotToFile(p) \/ MarkCompleted(p) \/ CreateFails(p)
      PROVE  BackupInv'
  BY <1>5, CreateStep
<1>6. ASSUME NEW p \in Replicas, SelectExpired(p) PROVE BackupInv'
  BY <1>6, SelectStep
<1>7. ASSUME NEW p \in Replicas, RemoveFile(p) \/ DeleteRecord(p) PROVE BackupInv'
  BY <1>7, RetainStep
<1>8. ASSUME NEW p \in Replicas,
             \/ Stop(p) \/ RestoreCommit(p) \/ RestoreFails(p) \/ ReloadFails(p)
             \/ \E i \in Ids : RestoreRead(p, i)
      PROVE  BackupInv'
  BY <1>8, RestoreStep
<1>9. ASSUME NEW p \in Replicas, ReloadKeys(p) PROVE BackupInv'
  BY <1>9, ReloadStep
<1> QED
  BY <1>1, <1>2, <1>3, <1>4, <1>5, <1>6, <1>7, <1>8, <1>9 DEF Next

\* Over data that one key seals no other key is taken up (BackupRestore: resolveKeys).
LEMMA StoredKeyStays ==
    ASSUME NEW d \in Databases, Sound(d), Coherent(d), NEW rk \in RecoveryKeys, NEW prev,
           NEW m \in Masters, NEW row \in ResolveKeys(d, rk, prev, m) \ {NoRow}
    PROVE  row.master = d.row.master /\ row \in Rows
<1>1. ~\A n \in Items : d.items[n] = None
  BY BackupAssumption DEF Sound, Items
<1>2. Opened(d, d.row.master)
  BY DEF Coherent, Opened
<1>3. OwnKeyOpens(d, m) => m = d.row.master
  BY <1>1, <1>2, OpeningKey
<1>4. row \in Rows
  BY KeysTakenUp
<1>5. CASE d.row # NoRow /\ row.master = d.row.master
  BY <1>4, <1>5
<1>6. CASE ~(d.row # NoRow /\ row.master = d.row.master)
  <2>1. row.master = m /\ OwnKeyOpens(d, m)
    BY <1>6, KeysTakenUp
  <2> QED
    BY <1>3, <1>4, <2>1
<1> QED
  BY <1>5, <1>6

\* The key that seals what is stored is replaced by a restore or with the installation
\* only, for a stored database always has something that tells a wrong key (BackupRestore:
\* resolveKeys).
LEMMA MasterKept == BackupInv /\ Next => KeepsMaster
<1> SUFFICES ASSUME BackupInv, Next, db.row # NoRow, Coherent(db), ~NewInstallation,
                    ~\E p \in Replicas : RestoreCommit(p)
             PROVE  db'.row.master = db.row.master
    BY DEF KeepsMaster
<1>0. /\ Sound(db) /\ db \in Databases /\ {"bootstrap", "keycloak"} \subseteq Items
      /\ None \notin Masters /\ Settings \subseteq Items
  BY BackupAssumption DEF BackupInv, DataInv, Sound, Items
<1>1. ASSUME NEW rk \in RecoveryKeys, NEW prev, NEW m \in Masters,
             NEW row \in ResolveKeys(db, rk, prev, m) \ {NoRow}
      PROVE  row.master = db.row.master /\ row \in Rows
  BY <1>0, StoredKeyStays
<1>2. CASE UNCHANGED db
  BY <1>2
<1>3. ASSUME NEW p \in Replicas, NEW rk \in RecoveryKeys, NEW prev \in RecoveryKeys \cup {None},
             NEW m \in Masters, Start(p, rk, prev, m)
      PROVE  db'.row.master = db.row.master
  <2>1. PICK row \in ResolveKeys(db, rk, prev, m) \ {NoRow} :
           db' = LoadOrCreateBootstrap([db EXCEPT !.row = row], row.master)
    BY <1>3 DEF Start
  <2>2. row \in Rows /\ row # NoRow /\ row.master \in Masters
    BY <1>0, KeysTakenUp
  <2>3. db'.row = row
    BY <1>0, <2>1, <2>2, StartIsSound
  <2> QED
    BY <1>1, <2>3
<1>4. ASSUME NEW p \in Replicas, EndBootstrap(p) \/ \E n \in Settings : SaveSetting(p, n)
      PROVE  db'.row.master = db.row.master
  <2>1. proc[p].master \in Masters
    BY <1>4, ProcessState DEF EndBootstrap, SaveSetting, Serving
  <2>2. PICK n \in Items, m \in Masters \cup {None} : db' = [db EXCEPT !.items[n] = m]
    BY <1>0, <1>4, <2>1 DEF EndBootstrap, SaveSetting
  <2> QED
    BY <1>0, <2>2, ItemSaved
<1>5. ASSUME NEW p \in Replicas, ReloadKeys(p) PROVE db'.row.master = db.row.master
  <2>1. PICK row \in ReloadedKeys(p) : db' = [db EXCEPT !.row = row]
    BY <1>5 DEF ReloadKeys
  <2> DEFINE rk == proc[p].rk
             prev == proc[p].prev
             m == proc[p].master
  <2>2. rk \in RecoveryKeys /\ m \in Masters
    BY <1>5, ProcessState DEF ReloadKeys
  <2>3. row \in ResolveKeys(db, rk, prev, m) \ {NoRow}
    BY <2>1 DEF ReloadedKeys
  <2> HIDE DEF rk, prev, m
  <2>4. row.master = db.row.master /\ row \in Rows
    BY <1>1, <2>2, <2>3
  <2> QED
    BY <1>0, <2>1, <2>4, RowStored
<1>6. \/ UNCHANGED db
      \/ \E p \in Replicas : \/ EndBootstrap(p) \/ ReloadKeys(p)
                             \/ \E n \in Settings : SaveSetting(p, n)
                             \/ \E rk \in RecoveryKeys, prev \in RecoveryKeys \cup {None}, m \in Masters :
                                    Start(p, rk, prev, m)
  BY DEF Next, Stop, CreateManual, RunOnce, InsertRecord, SnapshotToFile, MarkCompleted, CreateFails,
     SelectExpired, RemoveFile, DeleteRecord, RestoreRead, RestoreFails, ReloadFails, Tick
<1> QED
  BY <1>2, <1>3, <1>4, <1>5, <1>6

-----------------------------------------------------------------------------
(* What holds of a behaviour of MCPlatform: the invariant of the component *)
(* that it is one of.                                                      *)

PlatformInv == /\ part = "backup" => BackupInv
               /\ part = "settings" => S!SettingsInv
               /\ part = "secrets" => M!SecretInv
               /\ part = "startup" => F!IndexInv

LEMMA BackupInit == Init => BackupInv
<1> SUFFICES ASSUME Init PROVE BackupInv
    OBVIOUS
<1>1. db \in Databases /\ db.row = NoRow
  BY DEF Init, Databases, Rows
<1>2. NoRecord \in Records /\ NoRecord.slot = None
  BY BackupAssumption DEF NoRecord, Records
<1>3. records \in [Ids -> Records] /\ \A i \in Ids : records[i].slot = None /\ records[i].status = "none"
  BY <1>2 DEF Init, NoRecord
<1>4. files \in [Ids -> Archives] /\ \A i \in Ids : files[i] = NoFile
  BY DEF Init, Archives
<1>5. Off \in Processes /\ Off.pc = "off" /\ Off.expired = {}
  BY DEF Off, Processes
<1>6. proc \in [Replicas -> Processes] /\ \A p \in Replicas : proc[p] = Off
  BY <1>5 DEF Init
<1>7. now \in 0..MaxNow /\ origin = None /\ reported = {}
  BY BackupAssumption DEF Init
<1>8. TypeOK
  BY <1>1, <1>3, <1>4, <1>6, <1>7 DEF TypeOK
<1>9. DataInv /\ OneOwner /\ ReportInv /\ \A p \in Replicas : ProcInv(proc[p])
  BY <1>1, <1>4, <1>5, <1>6, <1>7 DEF DataInv, OneOwner, ReportInv, ProcInv, Creating
<1>10. RestoredIsReadable /\ RestorableIsWhole
  BY <1>3, <1>7 DEF RestoredIsReadable, RestorableIsWhole, Completed
<1> QED
  BY <1>8, <1>9, <1>10 DEF BackupInv

LEMMA SettingsInit == S!Init => S!SettingsInv
<1> SUFFICES ASSUME S!Init PROVE S!SettingsInv
    OBVIOUS
<1>1. \A a \in Admins : proc[a] = S!Idle
  BY DEF S!Init
<1>2. S!IsNewest(records, 0) /\ 0 \in 0..MaxVersion
  BY PlatformAssumption DEF S!Init, S!IsNewest, S!Versions
<1>3. \A a \in Admins : S!RequestInv(proc[a], 0) /\ proc[a].pc = "idle"
  BY <1>1, <1>2, IdleIsFine
<1>4. S!TypeOK
  BY DEF S!Init, S!TypeOK, S!Recorded
<1> QED
  BY <1>2, <1>3, <1>4 DEF S!SettingsInv, S!Saving, S!Init

LEMMA SecretInit == M!Init => M!SecretInv
  BY DEF M!Init, M!SecretInv, M!TypeOK

LEMMA IndexInit == F!Init => F!IndexInv
<1> SUFFICES ASSUME F!Init PROVE F!IndexInv
    OBVIOUS
<1>1. {0, 1} \subseteq F!Contents \cup {0}
  BY DEF F!Contents
<1>2. files \in [RowIds -> F!Contents \cup {0}] /\ records \in [RowIds -> F!Contents \cup {0}]
  BY <1>1 DEF F!Init
<1>3. /\ now = FALSE /\ origin = FALSE /\ starts = {} /\ flaw = "none" /\ fullText = FALSE
      /\ proc = "down"
  BY DEF F!Init
<1> QED
  BY <1>2, <1>3 DEF F!IndexInv, F!Triggers

LEMMA PlatformInvariant == PlatformSpec => []PlatformInv
<1>1. PlatformInit => PlatformInv
  BY BackupInit, SettingsInit, SecretInit, IndexInit DEF PlatformInit, PlatformInv
<1>2. PlatformInv /\ [PlatformNext]_<<part, vars, startup>> => PlatformInv'
  <2> SUFFICES ASSUME PlatformInv, [PlatformNext]_<<part, vars, startup>> PROVE PlatformInv'
      OBVIOUS
  <2>1. CASE part = "backup" /\ Next /\ part' = part
    BY <2>1, BackupStep DEF PlatformInv
  <2>2. CASE part = "settings" /\ S!Next /\ part' = part
    BY <2>2, SettingsStep DEF PlatformInv
  <2>3. CASE part = "secrets" /\ M!Next /\ part' = part
    BY <2>3, SecretStep DEF PlatformInv
  <2>4. CASE part = "startup" /\ F!Next /\ part' = part
    BY <2>4, IndexStep DEF PlatformInv
  <2>5. CASE UNCHANGED <<part, vars, startup>>
    <3>1. UNCHANGED <<part, db, records, files, proc, now, starts, origin, reported>>
          /\ UNCHANGED <<existing, fullText, flaw, writes, faults>>
      BY <2>5 DEF vars, startup
    <3>2. BackupInv => BackupInv'
      <4> SUFFICES ASSUME BackupInv PROVE BackupInv'
          OBVIOUS
      <4>1. TypeOK' /\ DataInv' /\ OneOwner' /\ ReportInv'
        BY <3>1 DEF BackupInv, TypeOK, DataInv, OneOwner, ReportInv, Creating, Sound
      <4>2. ASSUME NEW p \in Replicas PROVE ProcInv(proc[p])'
        <5>1. ProcInv(proc[p])
          BY DEF BackupInv
        <5>2. \A i : Overdue(i)' <=> Overdue(i)
          BY <3>1 DEF Overdue, Newer, Completed
        <5> QED
          BY <3>1, <5>1, <5>2 DEF ProcInv, Creating, Sound
      <4>3. RestoredIsReadable' /\ RestorableIsWhole'
        BY <3>1 DEF BackupInv, RestoredIsReadable, RestorableIsWhole, Newer, Completed,
           Coherent, Opened
      <4> QED
        BY <4>1, <4>2, <4>3 DEF BackupInv
    <3>3. S!SettingsInv => S!SettingsInv'
      BY <3>1 DEF S!SettingsInv, S!TypeOK, S!Recorded, S!IsNewest, S!RequestInv, S!Saving
    <3>4. M!SecretInv => M!SecretInv'
      BY <3>1 DEF M!SecretInv, M!TypeOK
    <3>5. F!IndexInv => F!IndexInv'
      BY <3>1 DEF F!IndexInv, F!Described
    <3> QED
      BY <3>1, <3>2, <3>3, <3>4, <3>5 DEF PlatformInv
  <2> QED
    BY <2>1, <2>2, <2>3, <2>4, <2>5 DEF PlatformNext
<1> QED
  BY <1>1, <1>2, PTL DEF PlatformSpec

-----------------------------------------------------------------------------

\* A completed backup within the limit has its file, and who reports a restore as done
\* can open all that it brought: under any recovery keys, with any number of replicas
\* that create and prune at the same time (BackupRestore: enforceRetention, restore).
THEOREM BackupsAreOfUse == PlatformSpec => []BackupCanBeRestored
<1>1. PlatformInv => BackupCanBeRestored
  BY DEF PlatformInv, BackupCanBeRestored, BackupInv
<1> QED
  BY <1>1, PlatformInvariant, PTL

\* No mask is stored in a secret's place, and an active secret resolves, however many
\* writers race for it (Settings: preserveMasked; ManagedSecrets: Put, Get).
THEOREM SecretsCanBeUsed == PlatformSpec => []SecretsAreUsable
<1>1. M!SecretInv => M!ActiveSecretResolves
  <2> SUFFICES ASSUME M!SecretInv, db.active PROVE M!Get # None
      BY DEF M!ActiveSecretResolves
  <2>1. db # M!NoRow
    BY DEF M!NoRow
  <2>2. db \in M!Rows
    BY <2>1 DEF M!SecretInv, M!TypeOK
  <2>3. db.backend \in {"database", "vault"}
    BY <2>2 DEF M!Rows, M!Backends
  <2> QED
    BY <2>1, <2>3 DEF M!SecretInv, M!Get
<1>2. PlatformInv => SecretsAreUsable
  BY <1>1, StoredIsNoMask DEF PlatformInv, SecretsAreUsable
<1> QED
  BY <1>2, PlatformInvariant, PTL

\* Whatever binaries ran before, and wherever they stopped, a process that answers from the
\* index finds no row under words it no longer has and misses none, but the rows that a
\* first filling cut short never reached and what the failures do that the code does not
\* record (StoreStart: Open, IndexIsCurrent).
THEOREM IndexStaysCurrent == PlatformSpec => []IndexIsCurrent
<1>1. F!IndexInv => F!IndexIsCurrent
  BY DEF F!IndexInv, F!IndexIsCurrent
<1>2. PlatformInv => IndexIsCurrent
  BY <1>1 DEF PlatformInv, IndexIsCurrent
<1> QED
  BY <1>2, PlatformInvariant, PTL

\* A save replaces the row that was live when it read the history, the version in use is in
\* the history, and no start takes another master key over data that one key seals, for any
\* number of administrators, requests and replicas and with the exceptions ReplacesWhatItRead
\* names (Settings: putSetting, applyRetention; BackupRestore: resolveKeys).
THEOREM NothingStoredIsLost == PlatformSpec => StoredIsKept
<1> DEFINE Kept == /\ part = "settings" => S!ReplacesWhatItRead /\ S!KeepsHistory
                   /\ part = "backup" => KeepsMaster
<1>1. PlatformInv /\ [PlatformNext]_<<part, vars, startup>> => [Kept]_<<part, vars>>
  <2> SUFFICES ASSUME PlatformInv, PlatformNext PROVE Kept \/ UNCHANGED <<part, vars>>
      BY DEF vars
  <2>1. part = "settings" => S!ReplacesWhatItRead /\ S!KeepsHistory
    BY SavesAreKept DEF PlatformInv, PlatformNext
  <2>2. part = "backup" => KeepsMaster
    BY MasterKept DEF PlatformInv, PlatformNext
  <2> QED
    BY <2>1, <2>2
<1> QED
  BY <1>1, PlatformInvariant, PTL DEF PlatformSpec, StoredIsKept
=============================================================================
