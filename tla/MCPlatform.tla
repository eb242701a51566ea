----------------------------- MODULE MCPlatform -----------------------------
(***************************************************************************)
(* What an administrator keeps, for TLC: backups and the keys they need    *)
(* (BackupRestore), the settings (Settings), the managed secrets           *)
(* (ManagedSecrets) and the database with its full-text index as a start   *)
(* leaves them (StoreStart).  As modelled they share no state, so a        *)
(* behaviour is one of one of them, and the state space is their sum, not  *)
(* their product: the component that runs uses the variables of            *)
(* BackupRestore as its own, and leaves blank those it has no use for.     *)
(* The administrators and the secret values borrow the model values of the *)
(* replicas and the recovery keys: one symmetry serves all of them.        *)
(***************************************************************************)
EXTENDS BackupRestore

CONSTANTS Admins, Modes, Tokens, References,
          MaxVersion,                                  \* Settings, ManagedSecrets
          RowIds, Migrations, MaxWrites, MaxFaults     \* StoreStart

VARIABLES part,                                        \* which component runs
          existing, fullText, flaw, writes, faults     \* StoreStart

S == INSTANCE Settings WITH live <- db, history <- records, adm <- proc, old <- files,
                            swept <- reported
M == INSTANCE ManagedSecrets WITH row <- db, recorded <- records, vault <- files, put <- proc,
                                  Writers <- Admins, Values <- RecoveryKeys
F == INSTANCE StoreStart WITH applied <- db, chunks <- records, fts <- files, step <- proc,
                              table <- now, triggers <- starts, note <- origin, has5 <- reported,
                              Rows <- RowIds

ASSUME PlatformAssumption ==
    /\ MaxVersion \in Nat
    /\ None \notin Modes \cup Tokens \cup References     \* what is missing is no value
    /\ S!Mask \notin Tokens \cup References \cup {None}  \* and the mask no secret

\* What the three others do not use.
startup == <<existing, fullText, flaw, writes, faults>>
NoStartup == existing = None /\ fullText = None /\ flaw = None /\ writes = None /\ faults = None
clock == <<now, starts, origin>>
NoClock == now = None /\ starts = None /\ origin = None

PlatformInit ==
    \/ part = "backup" /\ Init /\ NoStartup
    \/ part = "settings" /\ S!Init /\ NoClock /\ NoStartup
    \/ part = "secrets" /\ M!Init /\ reported = None /\ NoClock /\ NoStartup
    \/ part = "startup" /\ F!Init

PlatformNext ==
    \/ part = "backup" /\ Next /\ UNCHANGED <<part, startup>>
    \/ part = "settings" /\ S!Next /\ UNCHANGED <<part, clock, startup>>
    \/ part = "secrets" /\ M!Next /\ UNCHANGED <<part, reported, clock, startup>>
    \/ part = "startup" /\ F!Next /\ UNCHANGED part

PlatformSpec == PlatformInit /\ [][PlatformNext]_<<part, vars, startup>>

-----------------------------------------------------------------------------
(* Properties *)

\* A backup can be gone back to: one listed as completed is whole however many replicas
\* prune, and what a restore brings back can be read by the process that reports it done
\* (BackupRestore: enforceRetention, restore, reloadKeys).
BackupCanBeRestored == part = "backup" => RestoredIsReadable /\ RestorableIsWhole

\* What is stored is not lost unseen.  Of two saves that overlap the later is refused or
\* replaces what it had read, and what a kept version says does not change (Settings:
\* putSetting, setting_versions, with the exceptions named there); a start keeps the master
\* key that seals the stored secrets, whatever recovery key it is given (BackupRestore:
\* resolveKeys).
StoredIsKept == [][ /\ part = "settings" => S!ReplacesWhatItRead /\ S!KeepsHistory
                    /\ part = "backup" => KeepsMaster ]_<<part, vars>>

\* A stored secret can be used: the mask an editor shows is never saved in its place
\* (Settings: preserveMasked), and the version the row calls active resolves, whatever
\* writes raced for it (ManagedSecrets: Put, Get).
SecretsAreUsable == /\ part = "settings" => S!MaskIsNeverStored
                    /\ part = "secrets" => M!ActiveSecretResolves

\* A process that answers from the full-text index finds no row under words it no longer
\* has, and misses none but those a filling that was cut short never reached (StoreStart:
\* Open, with the exceptions named there).
IndexIsCurrent == part = "startup" => F!IndexIsCurrent
=============================================================================
