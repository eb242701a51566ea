------------------------------- MODULE McpCall -------------------------------
(***************************************************************************)
(* A tools/call and the tool answer cache (internal/mcp: dispatch.go,      *)
(* cache.go, policy.go, tools.go; internal/app/mcpadmin.go updateMCPTool). *)
(*                                                                         *)
(* One repository and up to three credentials: "member" and "limited" act  *)
(* for the same principal, whom a permission row may name, "limited" under *)
(* a key restricted to other repositories; "admin" is unrestricted and no  *)
(* row names it.  An answer is the index generation and configuration it   *)
(* was made from and its age; its text, the byte budget and the notes      *)
(* appended to it are left out.  Times are what is left, or has passed.    *)
(***************************************************************************)
EXTENDS Naturals, FiniteSets

CONSTANTS MaxGen, MaxConf,    \* index generations and configuration versions
          Timeout, Seconds,   \* timeout_ms, and the cache_seconds an administrator picks
          MaxEntries,         \* maxToolCacheEntries
          Credentials,        \* of "member", "limited" and "admin"
          None

VARIABLES granted,         \* the principal's row in repository_permissions
          gen, stamp,      \* the chunks' generation; the one indexed_at was written for
          conf,            \* version of the search settings
          cache, call

vars == <<granted, gen, stamp, conf, cache, call>>
world == <<granted, gen, stamp, conf>>

\* "indexed" remembers the indexed_at a key was built under.
NoCall == [pc |-> "idle", key |-> None, indexed |-> 0, text |-> None, hit |-> FALSE, left |-> 0]

Init == /\ granted \in BOOLEAN /\ gen = 1 /\ stamp = 1 /\ conf = 1
        /\ cache = {} /\ call = [c \in Credentials |-> NoCall]

Finished(c) == [call EXCEPT ![c] = [NoCall EXCEPT !.pc = "finish", !.left = call[c].left]]

-----------------------------------------------------------------------------
(* One call.                                                               *)

\* toolVisible: a tool that is disabled, outside the key's scopes or hidden by the
\* strict mode is refused, and the refusal written and audited like any other call.
Start(c, visible) ==
    /\ call[c].pc = "idle"
    /\ call' = [call EXCEPT ![c] = [NoCall EXCEPT !.pc = IF visible THEN "key" ELSE "finish", !.left = Timeout]]
    /\ UNCHANGED <<world, cache>>

\* Mutant: the key forgets when the repository was indexed.
PermissionOnly(c) ==
    IF c # "admin" /\ granted THEN [row |-> "read", indexed_at |-> 0] ELSE [row |-> "none", indexed_at |-> 0]

\* aclRevision: the rows that name a principal of the caller, with the
\* repository's indexed_at.
AclRevision(c) ==
    IF c # "admin" /\ granted THEN [row |-> "read", indexed_at |-> stamp] ELSE [row |-> "none", indexed_at |-> 0]

\* A query that fails puts the same word in every key.
Unavailable == [row |-> "unavailable", indexed_at |-> 0]

\* cacheKey: the credential's principals and restriction, and the revisions.
BuildKey(c, acl) ==
    /\ call[c].pc = "key"
    /\ call' = [call EXCEPT ![c].pc = "lookup", ![c].key = [cred |-> c, acl |-> acl, conf |-> conf],
                   ![c].indexed = IF acl.row = "read" THEN stamp ELSE 0]
    /\ UNCHANGED <<world, cache>>

\* Mutant: an entry is served for as long as it is there.
Held(e) == TRUE

Fresh(e) == e.left > 0

\* cached
Lookup(c) ==
    LET found == {e \in cache : e.key = call[c].key} IN
    /\ call[c].pc = "lookup"
    /\ cache' = cache \ {e \in found : ~Fresh(e)}
    /\ \/ /\ \E e \in found : Fresh(e)
          /\ call' = [call EXCEPT ![c].pc = "finish", ![c].hit = TRUE,
                         ![c].text = (CHOOSE e \in found : TRUE).text]
       \/ /\ \A e \in found : ~Fresh(e)
          /\ call' = [call EXCEPT ![c].pc = "handle"]
    /\ UNCHANGED world

\* What the handlers of tools.go let through: the rows of the caller's principals,
\* and of those the repositories the key is restricted to.
Readable(c) == c = "admin" \/ (c = "member" /\ granted)

\* The handler reads the index.  An unreadable library is an error or an empty answer.
Handle(c) ==
    /\ call[c].pc = "handle"
    /\ call' = IF Readable(c)
               THEN [call EXCEPT ![c].pc = "store",
                        ![c].text = [gen |-> gen, conf |-> conf, age |-> 0]]
               ELSE Finished(c)
    /\ UNCHANGED <<world, cache>>

\* The handler fails, at the latest when the call's context ends.
HandleFails(c) ==
    /\ call[c].pc = "handle"
    /\ call' = Finished(c)
    /\ UNCHANGED <<world, cache>>

Soonest(entries) == CHOOSE e \in entries : \A f \in entries : e.left <= f.left

\* deleteExpiredCacheEntriesLocked when the cache is full, then trimCacheLocked
\* until there is room; a key that is there already needs none.
RoomFor(key) ==
    LET kept == IF Cardinality(cache) >= MaxEntries THEN {e \in cache : Fresh(e)} ELSE cache
        same == {e \in kept : e.key = key}
    IN  IF Cardinality(kept) >= MaxEntries /\ same = {} THEN kept \ {Soonest(kept)} ELSE kept \ same

\* What updateMCPTool may have left in the tool's row, the cache as it is.
CacheSeconds == {0, Seconds}

\* storeCache; a cancelled context or a tool that is not cached stores nothing.
Store(c, seconds) ==
    /\ call[c].pc = "store"
    /\ cache' = IF seconds = 0 THEN cache
                ELSE RoomFor(call[c].key) \cup
                        {[key |-> call[c].key, text |-> call[c].text, left |-> seconds]}
    /\ call' = Finished(c)
    /\ UNCHANGED world

\* finishCall: the answer is written, and one row of mcp_calls with it.
Finish(c) ==
    /\ call[c].pc = "finish"
    /\ call' = [call EXCEPT ![c] = NoCall]
    /\ UNCHANGED <<world, cache>>

-----------------------------------------------------------------------------
(* What changes under a call.                                              *)

\* A permission refresh or an administrator.
SetPermission ==
    /\ granted' = ~granted
    /\ UNCHANGED <<gen, stamp, conf, cache, call>>

\* syncRef commits the chunks; the job writes indexed_at when every ref is done.
CommitChunks ==
    /\ gen < MaxGen /\ gen' = gen + 1
    /\ UNCHANGED <<granted, stamp, conf, cache, call>>
WriteIndexedAt ==
    /\ stamp < gen /\ stamp' = gen
    /\ UNCHANGED <<granted, gen, conf, cache, call>>

SaveSearchSettings ==
    /\ conf < MaxConf /\ conf' = conf + 1
    /\ UNCHANGED <<granted, gen, stamp, cache, call>>

\* The oldest an answer may be when it is written: it is read, stored within its
\* call, found within the time to live and written within the finding call.
MaxAge == Seconds + 2 * Timeout
Older(text) == IF text = None \/ text.age > MaxAge THEN text ELSE [text EXCEPT !.age = @ + 1]

\* Time passes; no call outlives its context.
Tick ==
    /\ \A c \in Credentials : call[c].pc # "idle" => call[c].left > 0
    /\ call' = [c \in Credentials |-> [call[c] EXCEPT !.left = IF @ = 0 THEN 0 ELSE @ - 1, !.text = Older(@)]]
    /\ cache' = {[e EXCEPT !.left = IF @ = 0 THEN 0 ELSE @ - 1, !.text = Older(@)] : e \in cache}
    /\ UNCHANGED world

Next ==
    \/ \E c \in Credentials :
          \/ \E visible \in BOOLEAN : Start(c, visible)
          \/ BuildKey(c, AclRevision(c)) \/ BuildKey(c, Unavailable)
          \/ Lookup(c) \/ Handle(c) \/ HandleFails(c) \/ Finish(c)
          \/ \E seconds \in CacheSeconds : Store(c, seconds)
    \/ SetPermission \/ CommitChunks \/ WriteIndexedAt \/ SaveSearchSettings
    \/ Tick

Spec == Init /\ [][Next]_vars

-----------------------------------------------------------------------------

Served(c) == call[c].pc = "finish" /\ call[c].hit

\* An answer from the cache fits the index and the settings its key was built
\* from: nothing indexed or configured before the call is missing from it.  An
\* administrator's key names no row, and an unreadable revision names nothing.
CachedAnswerIsCurrent ==
    \A c \in Credentials : Served(c) =>
        call[c].text.gen >= call[c].indexed /\ call[c].text.conf >= call[c].key.conf

\* A cached answer outlives a withdrawn permission by the time to live at most,
\* apart from the two calls' own duration, and a restricted key is never
\* answered from what an unrestricted one was told.
StalePermissionIsBounded ==
    \A c \in Credentials : Served(c) =>
        /\ c # "limited"
        /\ call[c].text.age <= MaxAge

(***************************************************************************)
(* What the two rest on.  An answer that is in the cache, or on its way    *)
(* there or from there, is no older than its key, and its age and what is  *)
(* left of its entry or its call add up to a bound.                        *)
(***************************************************************************)
Keys == [cred : Credentials, acl : [row : {"read", "none", "unavailable"}, indexed_at : Nat], conf : Nat]
Texts == [gen : Nat, conf : Nat, age : Nat]
CallType == [pc : {"idle", "key", "lookup", "handle", "store", "finish"}, key : Keys \cup {None},
             indexed : Nat, text : Texts \cup {None}, hit : BOOLEAN, left : 0..Timeout]
Busy(c) == call[c].pc \in {"lookup", "handle", "store"}

CallTypes ==
    /\ gen \in Nat /\ stamp \in Nat /\ conf \in Nat /\ stamp <= gen
    /\ cache \subseteq [key : Keys, text : Texts, left : Nat]
    /\ call \in [Credentials -> CallType]

\* The revision a key was built under.
IndexedAt(key) == IF key.acl.row = "read" THEN key.acl.indexed_at ELSE 0
Fits(text, key) == text.gen >= IndexedAt(key) /\ text.conf >= key.conf

\* The key of a running call is of the index and the settings there are.
KeysAreOfTheirCall ==
    \A c \in Credentials : Busy(c) \/ Served(c) =>
        /\ call[c].key \in Keys /\ call[c].key.cred = c
        /\ call[c].indexed = IndexedAt(call[c].key) /\ call[c].indexed <= stamp /\ call[c].key.conf <= conf

AnswersFit ==
    \A c \in Credentials :
        /\ call[c].pc = "store" => c # "limited" /\ call[c].text \in Texts /\ Fits(call[c].text, call[c].key)
                                     /\ call[c].text.age + call[c].left <= Timeout
        /\ Served(c) => c # "limited" /\ call[c].text \in Texts /\ Fits(call[c].text, call[c].key)
                          /\ call[c].text.age + call[c].left <= MaxAge

EntriesFit ==
    /\ \A e, f \in cache : e.key = f.key => e = f
    /\ \A e \in cache : /\ e.key.cred # "limited" /\ Fits(e.text, e.key)
                        /\ e.left > 0 => e.text.age + e.left <= Seconds + Timeout

CacheInv == CallTypes /\ KeysAreOfTheirCall /\ AnswersFit /\ EntriesFit

\* What cache.go says of its keys, and what does not hold: the key is built before
\* the search, so a permission that appears between the two and goes again leaves
\* an answer under the key of a caller who may read nothing.
NeverOutlivesPermission ==
    [][\A c \in Credentials : call[c].pc = "lookup" /\ call'[c].hit => Readable(c)]_vars
=============================================================================
