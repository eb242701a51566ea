--------------------------- MODULE ManagedSecrets ---------------------------
(***************************************************************************)
(* Managed secrets (internal/secret): one name, its row, its versions and  *)
(* the Vault entry behind it.  Put reads the row, writes the value to its  *)
(* backend, and records both in a transaction; several administrators run  *)
(* it at once.                                                             *)
(***************************************************************************)
EXTENDS Naturals, FiniteSets

CONSTANTS Writers,      \* Put requests under way at the same time
          Values,       \* secret values
          MaxVersion,   \* bound on the versions of the name
          None

Backends == {"database", "vault"}
Unsaid == ""      \* a request that names no backend

VARIABLES row,        \* managed_secrets: backend, sealed value, version, status
          recorded,   \* managed_secret_versions: the versions that exist
          vault,      \* the newest value the Vault holds under the name
          put         \* the Put requests

vars == <<row, recorded, vault, put>>

NoRow == [backend |-> None, sealed |-> None, ver |-> 0, active |-> FALSE]
Idle == [pc |-> "idle", backend |-> None, val |-> None, ver |-> 0]

Init == /\ row = NoRow
        /\ recorded = {}
        /\ vault = None
        /\ put = [w \in Writers |-> Idle]

\* The first read: the backend of an existing secret is kept (Unsaid means that
\* one, or the database).
PutRead(w, wanted, val) ==
    LET backend == IF wanted # Unsaid THEN wanted
                   ELSE IF row = NoRow THEN "database" ELSE row.backend
    IN /\ put[w].pc = "idle" /\ row.ver < MaxVersion
       /\ row = NoRow \/ row.backend = backend
       /\ put' = [put EXCEPT ![w] = [pc |-> IF backend = "vault" THEN "vault" ELSE "record",
                                     backend |-> backend, val |-> val, ver |-> row.ver + 1]]
       /\ UNCHANGED <<row, recorded, vault>>

\* Vault.Put: written before the transaction that records it.
PutVault(w) ==
    /\ put[w].pc = "vault"
    /\ vault' = put[w].val
    /\ put' = [put EXCEPT ![w].pc = "record"]
    /\ UNCHANGED <<row, recorded>>

\* Mutant: a version row that exists is written over.
AnyVersion(v) == TRUE

\* (name,version) is the primary key of managed_secret_versions.
VersionIsFree(v) == v \notin recorded

\* The transaction.  The upsert makes the row active and leaves its backend alone.
PutRecord(w) ==
    LET p == put[w] IN
    /\ p.pc = "record"
    /\ IF VersionIsFree(p.ver)
       THEN /\ recorded' = recorded \cup {p.ver}
            /\ row' = [backend |-> IF row = NoRow THEN p.backend ELSE row.backend,
                       sealed |-> IF p.backend = "database" THEN p.val ELSE None,
                       ver |-> p.ver, active |-> TRUE]
       ELSE UNCHANGED <<row, recorded>>
    /\ put' = [put EXCEPT ![w] = Idle]
    /\ UNCHANGED vault

\* Vault unreachable, a lost connection, a cancelled request.
PutFails(w) == /\ put[w].pc \in {"vault", "record"}
               /\ put' = [put EXCEPT ![w] = Idle]
               /\ UNCHANGED <<row, recorded, vault>>

Disable == /\ row.active
           /\ row' = [row EXCEPT !.active = FALSE]
           /\ UNCHANGED <<recorded, vault, put>>

\* Get, and Resolve of a secret:// reference: an unavailable secret is an error.
Get == IF ~row.active THEN None
       ELSE IF row.backend = "database" THEN row.sealed ELSE vault

Next == \/ \E w \in Writers :
              \/ \E b \in Backends \cup {Unsaid}, val \in Values : PutRead(w, b, val)
              \/ PutVault(w) \/ PutRecord(w) \/ PutFails(w)
        \/ Disable

Spec == Init /\ [][Next]_vars

-----------------------------------------------------------------------------
Rows == [backend : Backends, sealed : Values \cup {None}, ver : Nat \ {0}, active : BOOLEAN]
Requests == [pc : {"vault", "record"}, backend : Backends, val : Values, ver : Nat \ {0}]

TypeOK == /\ row \in Rows \cup {NoRow}
          /\ recorded \subseteq Nat
          /\ vault \in Values \cup {None}
          /\ put \in [Writers -> Requests \cup {Idle}]

(* A secret shown as active can be resolved, whichever of two first Puts   *)
(* with different backends won: the row's backend is the one its newest    *)
(* version was written to.                                                 *)
ActiveSecretResolves == row.active => Get # None

-----------------------------------------------------------------------------
(* What keeps ActiveSecretResolves: the first version decides the backend, *)
(* and a request with a later one has read it.                             *)
SecretInv ==
    /\ TypeOK
    /\ row # NoRow => /\ 1 \in recorded
                      /\ IF row.backend = "vault" THEN vault # None ELSE row.sealed # None
    /\ \A w \in Writers : put[w] # Idle =>
          /\ put[w].pc = "vault" => put[w].backend = "vault"
          /\ put[w].pc = "record" /\ put[w].backend = "vault" => vault # None
          /\ put[w].ver > 1 => row # NoRow /\ put[w].backend = row.backend
=============================================================================
