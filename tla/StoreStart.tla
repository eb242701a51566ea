----------------------------- MODULE StoreStart -----------------------------
(***************************************************************************)
(* Opening the SQLite store: the migrations, each in one transaction, and  *)
(* then the preparation of the full-text index, statement by statement and *)
(* without a transaction.  The index outlives the binary that built it: a  *)
(* binary without FTS5 drops the triggers that keep it, so that writes go  *)
(* on, and leaves a note for the next start.  One process has the database *)
(* at a time; it may stop or crash before any statement, and a statement   *)
(* may fail.                                                               *)
(***************************************************************************)
EXTENDS Integers, FiniteSets

CONSTANTS
    Rows,          \* rowids of document_chunks
    Migrations,    \* number of migration files
    MaxWrites,     \* bound: writes of the indexer
    MaxFaults      \* bound: statements that fail

Contents == 1..2
Triggers == {"insert", "delete", "update"}

VARIABLES
    applied,       \* migrations recorded in schema_migrations
    chunks,        \* document_chunks: the content of each row, 0 for none
    fts,           \* what document_chunks_fts has for each row
    table,         \* document_chunks_fts is in the schema
    triggers,
    note,          \* fulltext_unmaintained in index_maintenance
    has5,          \* the running binary has the FTS5 module
    existing,      \* the table was there when this start looked
    fullText,      \* Store.fullText
    step,          \* where Open stands, or "serve", or "down"
    flaw,          \* ghost: what an earlier start left undone about this index: "unfilled",
                   \* the pass that fills it, "unkept", the triggers and the note about them
    writes, faults

vars == <<applied, chunks, fts, table, triggers, note, has5, existing, fullText, step, flaw, writes, faults>>

\* A new database, or one of a release that had no full-text index yet.
Init ==
    /\ applied \in {0, Migrations - 1}
    /\ chunks \in [Rows -> {0, 1}]
    /\ applied = 0 => chunks = [r \in Rows |-> 0]
    /\ fts = [r \in Rows |-> 0]
    /\ table = FALSE
    /\ triggers = {}
    /\ note = FALSE
    /\ has5 = FALSE
    /\ existing = FALSE
    /\ fullText = FALSE
    /\ step = "down"
    /\ flaw = "none"
    /\ writes = 0
    /\ faults = 0

Fault == faults < MaxFaults /\ faults' = faults + 1

(***************************************************************************)
(* Open.                                                                   *)
(***************************************************************************)

Open(build) ==
    /\ step = "down"
    /\ has5' = build
    /\ step' = "migrate"
    /\ fullText' = FALSE
    /\ UNCHANGED <<applied, chunks, fts, table, triggers, note, existing, flaw, writes, faults>>

\* A migration and its row commit together; a failure ends the start.
Migrate ==
    /\ step = "migrate"
    /\ \/ applied < Migrations /\ applied' = applied + 1 /\ UNCHANGED <<step, faults>>
       \/ applied < Migrations /\ Fault /\ step' = "down" /\ UNCHANGED applied
       \/ applied = Migrations /\ step' = "probe" /\ UNCHANGED <<applied, faults>>
    /\ UNCHANGED <<chunks, fts, table, triggers, note, has5, existing, fullText, flaw, writes>>

\* Is the table in the schema, and can this binary read it.
Probe ==
    /\ step = "probe"
    /\ existing' = table
    /\ \/ step' = (IF table /\ ~has5 THEN "drop" ELSE "create") /\ UNCHANGED faults
       \/ table /\ Fault /\ step' = "drop"
    /\ UNCHANGED <<applied, chunks, fts, table, triggers, note, has5, fullText, flaw, writes>>

\* The schema cannot be read: the store serves without the index, under the triggers
\* that happen to be there.
SchemaUnread ==
    /\ step = "probe"
    /\ Fault
    /\ step' = "serve"
    /\ flaw' = IF ~table \/ note \/ triggers = Triggers THEN flaw ELSE "unkept"
    /\ UNCHANGED <<applied, chunks, fts, table, triggers, note, has5, existing, fullText, writes>>

\* The first statement needs the module when the table is not there yet.
CreateTable ==
    /\ step = "create"
    /\ \/ /\ has5 \/ table
          /\ table' = TRUE
          /\ fts' = IF table THEN fts ELSE [r \in Rows |-> 0]
          /\ flaw' = IF table THEN flaw ELSE "unfilled"
          /\ step' = "insert" /\ UNCHANGED faults
       \/ /\ \/ ~has5 /\ ~table /\ UNCHANGED faults
             \/ Fault
          /\ step' = "drop" /\ UNCHANGED <<table, fts, flaw>>
    /\ UNCHANGED <<applied, chunks, triggers, note, has5, existing, fullText, writes>>

\* Mutant: updates have no trigger.
WithoutUpdates(statement) == IF statement = "insert" THEN "delete" ELSE "fill"

\* The order of the statements.
After(statement) ==
    CASE statement = "insert" -> "delete" [] statement = "delete" -> "update" [] OTHER -> "fill"

\* One trigger; the one for updates is dropped first and created again.
CreateTrigger ==
    /\ step \in Triggers
    /\ \/ triggers' = triggers \cup {step} /\ step' = After(step) /\ UNCHANGED faults
       \/ Fault /\ triggers' = triggers \ (IF step = "update" THEN {"update"} ELSE {}) /\ step' = "drop"
    /\ UNCHANGED <<applied, chunks, fts, table, note, has5, existing, fullText, flaw, writes>>

\* existing == 0 || fullTextUnmaintained
Unfilled == ~existing \/ note

\* A full pass over document_chunks.
Fill ==
    /\ step = "fill"
    /\ \/ Unfilled /\ fts' = chunks /\ flaw' = "none" /\ step' = "unnote" /\ UNCHANGED <<fullText, faults>>
       \/ Unfilled /\ Fault /\ step' = "drop" /\ UNCHANGED <<fts, flaw, fullText>>
       \/ ~Unfilled /\ fullText' = TRUE /\ step' = "serve" /\ UNCHANGED <<fts, flaw, faults>>
    /\ UNCHANGED <<applied, chunks, table, triggers, note, has5, existing, writes>>

\* The note cannot be read: fullTextUnmaintained answers false.
NoteUnread ==
    /\ step = "fill"
    /\ note
    /\ existing
    /\ Fault
    /\ fullText' = TRUE
    /\ flaw' = "unkept"
    /\ step' = "serve"
    /\ UNCHANGED <<applied, chunks, fts, table, triggers, note, has5, existing, writes>>

Unnote ==
    /\ step = "unnote"
    /\ step' = "serve"
    /\ \/ note' = FALSE /\ fullText' = TRUE /\ UNCHANGED faults
       \/ Fault /\ UNCHANGED <<note, fullText>>
    /\ UNCHANGED <<applied, chunks, fts, table, triggers, has5, existing, flaw, writes>>

(***************************************************************************)
(* disableSQLiteFullText.                                                  *)
(***************************************************************************)

\* The three triggers in their order; the first failure leaves the rest.
DropTriggers ==
    /\ step = "drop"
    /\ \/ triggers' = {} /\ step' = "note" /\ UNCHANGED <<flaw, faults>>
       \/ /\ Fault
          /\ \E left \in {Triggers, {"delete", "update"}, {"update"}} : triggers' = triggers \cap left
          /\ flaw' = IF note THEN flaw ELSE "unkept"
          /\ step' = "serve"
    /\ UNCHANGED <<applied, chunks, fts, table, note, has5, existing, fullText, writes>>

\* Whether the note was written is not looked at.
WriteNote ==
    /\ step = "note"
    /\ step' = "serve"
    /\ \/ note' = TRUE /\ UNCHANGED <<flaw, faults>>
       \/ Fault /\ flaw' = (IF note THEN flaw ELSE "unkept") /\ UNCHANGED note
    /\ UNCHANGED <<applied, chunks, fts, table, triggers, has5, existing, fullText, writes>>

\* The process ends, between two statements or while it serves.
Stop ==
    /\ step # "down"
    /\ step' = "down"
    /\ fullText' = FALSE
    /\ UNCHANGED <<applied, chunks, fts, table, triggers, note, has5, existing, flaw, writes, faults>>

(***************************************************************************)
(* The indexer writes, the search reads.                                   *)
(***************************************************************************)

Operation(before, after) ==
    CASE before = 0 -> "insert" [] after = 0 -> "delete" [] OTHER -> "update"

\* A write fires its trigger; without the module the write fails with it.
Write(r, content) ==
    /\ step = "serve"
    /\ writes < MaxWrites
    /\ chunks[r] # content
    /\ LET fired == Operation(chunks[r], content) \in triggers
       IN  /\ fired => has5
           /\ fts' = IF fired THEN [fts EXCEPT ![r] = content] ELSE fts
    /\ chunks' = [chunks EXCEPT ![r] = content]
    /\ writes' = writes + 1
    /\ UNCHANGED <<applied, table, triggers, note, has5, existing, fullText, step, flaw, faults>>

Next ==
    \/ \E build \in BOOLEAN : Open(build)
    \/ Migrate \/ Probe \/ SchemaUnread \/ CreateTable \/ CreateTrigger \/ Fill \/ NoteUnread \/ Unnote
    \/ DropTriggers \/ WriteNote \/ Stop
    \/ \E r \in Rows, content \in Contents \cup {0} : Write(r, content)

Spec == Init /\ [][Next]_vars

-----------------------------------------------------------------------------
(* Properties *)

\* What the index has of a row is what the row says; an index whose first filling was cut
\* short may lack the row.
Described(r) == fts[r] = chunks[r] \/ (flaw = "unfilled" /\ fts[r] = 0)

\* A store that answers full-text lookups finds no row under words it no longer has and
\* misses none, whichever binaries had the database before, wherever they were stopped and
\* whatever they wrote while the triggers were gone.  When the start that created the table
\* ended before its full pass, the rows of that time not written since are missed, and none
\* is found wrongly.  Excepted is only an index one of whose earlier starts could not read
\* the schema or the note, drop a trigger or write the note: the code goes on without
\* recording that (prepareSQLiteFullText, disableSQLiteFullText, fullTextUnmaintained).
IndexIsCurrent == step = "serve" /\ fullText /\ flaw # "unkept" => \A r \in Rows : Described(r)

\* prepareSQLiteFullText: "a fresh one is filled at creation time and kept current
\* by triggers from then on".
FilledAtCreation == step = "serve" /\ fullText => fts = chunks

-----------------------------------------------------------------------------
(* What keeps IndexIsCurrent.                                              *)

IndexInv ==
    /\ table \in BOOLEAN /\ note \in BOOLEAN /\ triggers \subseteq Triggers
    /\ flaw \in {"none", "unfilled", "unkept"}
    /\ table /\ flaw # "unkept" /\ ~note =>
          (\A r \in Rows : Described(r)) /\ (step = "serve" => triggers = Triggers)
    /\ fts \in [Rows -> Contents \cup {0}] /\ chunks \in [Rows -> Contents \cup {0}]
    /\ step \in Triggers \cup {"fill", "unnote"} => table
    /\ step \in {"delete", "update", "fill", "unnote"} => "insert" \in triggers
    /\ step \in {"update", "fill", "unnote"} => "delete" \in triggers
    /\ step \in {"fill", "unnote"} => "update" \in triggers
    /\ step = "unnote" => fts = chunks
    /\ fullText => step = "serve" /\ (flaw # "unkept" => table /\ ~note)
=============================================================================
