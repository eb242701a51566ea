------------------------------ MODULE Settings ------------------------------
(***************************************************************************)
(* Platform settings, their history and masked secrets:                    *)
(* internal/app/settings.go.  One category is modelled; its value is a     *)
(* mode and one secret field.  Administrators save at the same time, each  *)
(* request one statement at a time.  A transaction reads first and writes  *)
(* later: another may commit between (PostgreSQL, read committed), and the *)
(* primary key of the history decides.  The scheduler deletes versions     *)
(* that are some days old and not live; a save takes less than that.  One  *)
(* master key opens everything here (BackupRestore models the keys); the   *)
(* reindex a changed search mode asks for is RefIndex's.                   *)
(***************************************************************************)
EXTENDS Naturals, FiniteSets

CONSTANTS Admins,       \* requests under way at the same time
          Modes,        \* retrieval modes
          Tokens,       \* what the secret field may be set to
          References,   \* names of managed secrets, which the field may hold instead
          MaxVersion,   \* bound on setting versions
          None

Mask == "********"
Secrets == Tokens \cup References \cup {None}
Values == [mode : Modes, secret : Secrets]
Versions == 1..MaxVersion

(***************************************************************************)
(* How validation can end: "ok", a check that fails (of the value, or of a *)
(* target that answers: certificate, redirect, credentials, cancelled      *)
(* request), or a target that cannot be reached (deadline, DNS, refused,   *)
(* gateway).                                                               *)
(***************************************************************************)
Errors == {"ok", "failed", "unreachable"}

VARIABLES live,      \* the row of system_settings
          history,   \* setting_versions
          adm,       \* the requests
          old,       \* versions older than the retention
          swept      \* history: the newest version of a deleted category was deleted under
                     \* an editor or a save that is still there

vars == <<live, history, adm, old, swept>>

NoValue == [mode |-> None, secret |-> None]
NoRow == [ver |-> 0, val |-> NoValue]
Idle == [pc |-> "idle", expected |-> 0, in |-> NoValue, ver |-> 0,
         was |-> 0,    \* history: the version the masks of a versioned save were resolved from
         row |-> 0]    \* history: the live version when the save read the history

Init == /\ live = NoRow
        /\ history = [v \in Versions |-> NoValue]
        /\ adm = [a \in Admins |-> Idle]
        /\ old = {} /\ swept = FALSE

-----------------------------------------------------------------------------
(* Validation, masks and versions.                                         *)

\* classifyExternalSettingError: only a target that cannot be reached.
Unreachable(err) == err = "unreachable"

\* force skips an outage, never a failed check.
Accepted(err, force) == err = "ok" \/ (force /\ Unreachable(err))

\* maskSecrets: a reference to a managed secret is shown as it is.
Masked(val) == IF val.secret \in Tokens THEN [val EXCEPT !.secret = Mask] ELSE val

\* Mutant: a mask with nothing stored behind it is kept as it came.
MaskLeftIn(previous, in) ==
    IF in.secret = Mask /\ previous # NoRow THEN [in EXCEPT !.secret = previous.val.secret] ELSE in

\* The stored secret takes the mask's place; with none stored the field is dropped.
PreserveMasked(previous, in) ==
    IF in.secret = Mask THEN [in EXCEPT !.secret = previous.val.secret] ELSE in

Recorded == {v \in Versions : history[v] # NoValue}

\* SELECT COALESCE(MAX(version),0) of a history.
IsNewest(h, n) == /\ n > 0 => h[n] # NoValue
                  /\ \A v \in Versions : h[v] # NoValue => v <= n

\* The next version continues the history, which a deleted setting leaves behind.
NextVersion(version, newest) == 1 + (IF version > newest THEN version ELSE newest)

\* A request that starts while nobody else is there has nothing from before a sweep.
SweptFor(a) == swept /\ \E b \in Admins : adm[b].pc # "idle"

-----------------------------------------------------------------------------
(* putSetting, from an editor that shows a version, from a script that     *)
(* sends none, or as the replay of an old version.                         *)

\* getSetting: what the editor shows, and the version it will send back.
OpenEditor(a) ==
    /\ adm[a].pc = "idle" /\ live # NoRow
    /\ adm' = [adm EXCEPT ![a] = [Idle EXCEPT !.pc = "editing", !.expected = live.ver,
                                              !.in = Masked(live.val)]]
    /\ swept' = SweptFor(a)
    /\ UNCHANGED <<live, history, old>>

CloseEditor(a) == /\ adm[a].pc = "editing"
                  /\ adm' = [adm EXCEPT ![a] = Idle]
                  /\ UNCHANGED <<live, history, old, swept>>

\* The first read of a save: masks are resolved from the row as it is now, or as if there
\* were none when it cannot be read or opened, and the value is normalised and validated
\* against its target.
Received(a, expected, in, previous, err, force) ==
    /\ previous \in {live, NoRow}
    /\ Accepted(err, force)
    /\ adm' = [adm EXCEPT ![a] = [Idle EXCEPT !.pc = "validated", !.expected = expected,
                                     !.in = PreserveMasked(previous, in),
                                     !.was = IF expected > 0 THEN previous.ver ELSE 0]]
    /\ swept' = SweptFor(a)
    /\ UNCHANGED <<live, history, old>>

SubmitEdit(a, in, previous, err, force) ==
    /\ adm[a].pc = "editing"
    /\ in.secret \in Secrets \cup {adm[a].in.secret}
    /\ Received(a, adm[a].expected, in, previous, err, force)

\* No expectedVersion: the first save of a category, and scripts.
SubmitUnversioned(a, in, previous, err, force) ==
    /\ adm[a].pc = "idle"
    /\ Received(a, 0, in, previous, err, force)

\* restoreSettingVersion replays a stored value, complete, through the same path.
RestoreVersion(a, v, previous, err, force) ==
    /\ adm[a].pc = "idle" /\ v \in Recorded
    /\ Received(a, 0, history[v], previous, err, force)

\* importSettings with apply: masks mean "keep"; what would change nothing, compared with
\* the row it read, is skipped.
Import(a, in, previous, err, force) ==
    /\ adm[a].pc = "idle"
    /\ PreserveMasked(previous, in) # previous.val
    /\ Received(a, 0, in, previous, err, force)

\* Mutant: the conflict check is dropped.
NeverConflicts(expected, version) == FALSE

\* Someone else saved since the editor loaded its version; 0 asks for no check.
Conflicts(expected, version) == expected > 0 /\ expected # version

\* The transaction reads the live version ...
ReadVersion(a) ==
    /\ adm[a].pc = "validated"
    /\ adm' = [adm EXCEPT ![a].pc = "read", ![a].ver = live.ver]
    /\ UNCHANGED <<live, history, old, swept>>

\* ... then the newest of the history, in another statement that sees what was committed
\* since, and then checks the version it read first.
ReadHistory(a) ==
    /\ adm[a].pc = "read"
    /\ \E newest \in 0..MaxVersion :
          /\ IsNewest(history, newest) /\ NextVersion(adm[a].ver, newest) <= MaxVersion
          /\ adm' = [adm EXCEPT ![a] =
                       IF Conflicts(adm[a].expected, adm[a].ver) THEN Idle
                       ELSE [adm[a] EXCEPT !.pc = "numbered", !.row = live.ver,
                                           !.ver = NextVersion(adm[a].ver, newest)]]
    /\ UNCHANGED <<live, history, old, swept>>

\* Mutant: the history row is written over.
AnyKey(v) == TRUE

\* (category,version) is the primary key of the history.
KeyIsFree(v) == history[v] = NoValue

\* The writes and the commit; a taken version fails the save.
Commit(a) ==
    /\ adm[a].pc = "numbered"
    /\ IF KeyIsFree(adm[a].ver)
       THEN /\ history' = [history EXCEPT ![adm[a].ver] = adm[a].in]
            /\ live' = [ver |-> adm[a].ver, val |-> adm[a].in]
       ELSE UNCHANGED <<live, history>>
    /\ adm' = [adm EXCEPT ![a] = Idle]
    /\ UNCHANGED <<old, swept>>

\* deleteSetting: the live row goes, its history stays.
DeleteSetting(a) ==
    /\ adm[a].pc = "idle" /\ live # NoRow
    /\ live' = NoRow
    /\ UNCHANGED <<history, adm, old, swept>>

Saving(a) == adm[a].pc \in {"validated", "read", "numbered"}

\* The request ends between any two statements, or one of them fails.
GiveUp(a) == /\ Saving(a)
             /\ adm' = [adm EXCEPT ![a] = Idle]
             /\ UNCHANGED <<live, history, old, swept>>

-----------------------------------------------------------------------------
(* Retention.                                                              *)

\* Days pass; a save does not take days, an editor may be open for them.
GrowOld == /\ old # Recorded /\ \A a \in Admins : ~Saving(a)
           /\ old' = Recorded
           /\ UNCHANGED <<live, history, adm, swept>>

\* Mutant: the version in use is deleted with the others.
EvenTheLiveOne == old

\* ... AND NOT EXISTS (SELECT 1 FROM system_settings s WHERE ... s.version=...)
Outdated == old \ {live.ver}

\* applyRetention, as far as it is about setting_versions.
ApplyRetention ==
    /\ Outdated # {}
    /\ history' = [v \in Versions |-> IF v \in Outdated THEN NoValue ELSE history[v]]
    /\ old' = old \ Outdated
    /\ \E n, m \in 0..MaxVersion :
          /\ IsNewest(history, n) /\ IsNewest(history', m)
          /\ swept' = (swept \/ (m < n /\ \E a \in Admins : adm[a].pc # "idle"))
    /\ UNCHANGED <<live, adm>>

Next == \/ \E a \in Admins :
              \/ OpenEditor(a) \/ CloseEditor(a) \/ ReadVersion(a) \/ ReadHistory(a) \/ Commit(a)
              \/ DeleteSetting(a) \/ GiveUp(a)
              \/ \E err \in Errors, force \in BOOLEAN, previous \in {live, NoRow} :
                    \/ \E m \in Modes, s \in Secrets \cup {Mask} :
                          LET in == [mode |-> m, secret |-> s] IN
                          \/ SubmitEdit(a, in, previous, err, force)
                          \/ SubmitUnversioned(a, in, previous, err, force)
                          \/ Import(a, in, previous, err, force)
                    \/ \E v \in Versions : RestoreVersion(a, v, previous, err, force)
        \/ GrowOld \/ ApplyRetention

Spec == Init /\ [][Next]_vars

-----------------------------------------------------------------------------
Rows == [ver : Versions, val : Values]
Requests == [pc : {"editing", "validated", "read", "numbered"}, expected : Nat,
             in : [mode : Modes, secret : Secrets \cup {Mask}],
             ver : Nat, was : Nat, row : Nat]

TypeOK == /\ live \in Rows \cup {NoRow}
          /\ history \in [Versions -> Values \cup {NoValue}]
          /\ adm \in [Admins -> Requests \cup {Idle}]
          /\ old \subseteq Recorded /\ swept \in BOOLEAN

(* Of two saves that overlap the later is refused or replaces what it knew   *)
(* of: the row that was live when it read the history, or none when that    *)
(* was deleted.  A save that carries the version its editor loaded found    *)
(* that version live in the statement before, and a secret it kept behind   *)
(* the mask is the secret of that version, unless the stored value could    *)
(* not be read (putSetting).  Excepted are saves and editors that were      *)
(* there while the retention deleted the newest version of a deleted        *)
(* category: the numbers then start again.                                  *)
ReplacesWhatItRead ==
    \A a \in Admins :
       (adm[a].pc = "numbered" /\ live' # live /\ adm'[a] = Idle /\ ~swept)
          => /\ live.ver \in {0, adm[a].row}
             /\ adm[a].expected > 0 => adm[a].was \in {0, adm[a].expected}

(* What a version says never changes as long as it is kept, and the version *)
(* in use is kept with the value in use: through deletes, restores, imports, *)
(* racing saves that count from a history the retention shortens, and       *)
(* numbers that start again (putSetting, saveSettingValue, applyRetention). *)
KeepsHistory ==
    /\ \A v \in Recorded : history'[v] \in {history[v], NoValue}
    /\ live' # NoRow => history'[live'.ver] = live'.val

(* The mask an editor shows in a secret's place is never saved as the       *)
(* secret, even when the setting was deleted under the editor               *)
(* (preserveMasked).                                                        *)
MaskIsNeverStored == live.val.secret # Mask /\ \A v \in Versions : history[v].secret # Mask

(* What the comments promise and the code does not keep (README, section 6). *)

(* "A caller that loaded version N may only save over version N."            *)
SavesOverItsVersion ==
    [][\A a \in Admins :
         adm[a].pc = "numbered" /\ adm[a].expected > 0 /\ live' # live /\ adm'[a] = Idle
            => live.ver \in {0, adm[a].expected}]_vars

(* "The mask means 'keep the target's secret'": it is resolved from the row  *)
(* that is stored.                                                           *)
MaskKeepsTheSecret ==
    [][\A a \in Admins : adm[a].pc = "editing" /\ adm'[a].pc = "validated"
                           => adm'[a].was = live.ver]_vars

-----------------------------------------------------------------------------
(* What keeps the properties: numbers only grow until the retention takes   *)
(* the newest away, and what is recorded while a save is under way is young, *)
(* so a save whose number is still free has seen every save before it.      *)

\* Where a request stands when n is the newest version.
RequestInv(r, n) ==
    /\ r.expected <= n
    /\ r.pc = "validated" /\ r.expected > 0 /\ r.was \notin {0, r.expected} =>
          live.ver # r.expected
    /\ r.pc = "read" => r.ver <= n
    /\ r.pc = "read" /\ r.expected > 0 /\ r.ver = r.expected => r.was \in {0, r.expected}
    /\ r.pc = "numbered" =>
          /\ r.ver <= n + 1
          /\ \A v \in Versions : r.ver <= v /\ v <= n => history[v] # NoValue /\ v \notin old
          /\ r.ver = n + 1 => live.ver \in {0, r.row}
          /\ r.expected > 0 => r.was \in {0, r.expected}

SettingsInv ==
    /\ TypeOK
    /\ live # NoRow => history[live.ver] = live.val
    /\ \A a \in Admins : /\ Saving(a) => adm[a].in \in Values
                         /\ adm[a].pc = "numbered" => adm[a].ver \in Versions
    /\ \E n \in 0..MaxVersion :
          IsNewest(history, n) /\ (~swept => \A a \in Admins : RequestInv(adm[a], n))
=============================================================================
