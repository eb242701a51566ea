# A TLA+ model of git-ctx

git-ctx indexes repositories of a GitLab or Bitbucket server, and spaces of Confluence and
Jira, and serves the index to MCP clients.  Several replicas share one database (PostgreSQL;
SQLite for a single process); each runs one index worker, one scheduler and one notifier, and
answers searches.  This directory holds TLA+ modules of the system, the TLC configurations
that check them and proofs checked by TLAPS.  `PROJECT.json` lists components, runs, mutants,
the map from definitions to source lines, hazards, findings and theorems.

## 1. Inventory

| component | state | operations | hard because | module |
|---|---|---|---|---|
| source breaker (`source/transport.go`) | failures, openedAt, retryAt, probing | Allow, Success, Failure, Reset | shared by searches and the worker; late reports, cancelled probes | SourceBreaker |
| job queue and worker (`worker/`) | `index_jobs` rows; a claim per worker | claim, requeuePaused, execute, record outcome, recover leases, retry, retention | replicas, crashes, leases, retry budget, outages that never end | IndexQueue |
| indexer (`indexer/`) | chunks, symbols, files, packages, staging, `repository_ref_states` | syncRef: fast path, incremental, full, publish | state read long before it is replaced; lost leases; concurrent jobs | RefIndex |
| scheduler (`scheduler/`) | none of its own | poll, lease recovery, cleanup, retention | races with workers and requests | in IndexQueue, PushDelivery, Access |
| webhook intake (`webhook/`) | `webhook_events` | Enqueue, reject | redelivery, duplicates, errors taken for rejections | PushDelivery |
| notification outbox (`notification/`) | `notification_deliveries` | seed, lease recovery, claim, send, record | two notifiers, expired leases, changed destinations | NotificationOutbox |
| search projection (`opensearch/`) | external index, `search_projection_states` | SyncRef, incremental, delete | two stores without a transaction | SearchProjection |
| vector database (`vectorstore/`) | a collection of one dimension | Ensure, DeleteRef, paged Upsert, rebuild, search | pages read while others publish; half-done projections | VectorStore |
| embedding runtime (`embedding/runtime.go`) | circuit, cache, flights | Guard, Embed, EmbedBatch | coalesced callers, probes | EmbeddingRuntime |
| source connectors (`gitlab/`, `bitbucket/`, `confluence/`, `jira/`) | project cache; made-up revisions | permissions, searches, listings | paging over lists that move; bounds; no snapshots | SourceConnectors, DocumentSources |
| search (`search/`) | none | Query, SemanticSearch, SearchCode, the index tools | several queries without a transaction; fallbacks that must not mislead | Retrieval, CodeSearch, IndexTools |
| MCP server (`mcp/`) | sessions, result cache, policies | dispatch, sessions, streams, cache | entries that outlive what they were made from | McpCall, McpSession |
| access (`app/auth.go`, `apikey/`, `app/adminusers.go`, `recovery/`) | sessions, users, roles, keys, rate buckets, tokens | login, renew, rotate, revoke, authenticate | revocation races, two replicas, bootstrap and break-glass access | Access |
| settings and secrets (`app/settings.go`, `secret/`) | `system_settings`, versions, managed secrets, Vault | put, delete, restore, import | racing editors, masks, two backends | Settings, ManagedSecrets |
| backup (`backup/`, `app/platformkeys.go`) | archives, `backup_records`, `platform_keys` | create, retain, restore, resolve keys | keys that travel with the data; one step of several failing | BackupRestore |
| store (`store/`) | schema, full-text index | Open, Migrate, prepareFullText | statements cut short; binaries without FTS5 | StoreStart |

The components meet in the database (jobs, ref states, permissions, settings), in the process's
breaker (`App.Allow`/`App.Report`), and in notifications.

## 2. Modules

**Circuit** is the abstract specification of a circuit breaker, written once for the two the
program has.  Its state is a count of failures in a row and whether calls are let through;
it opens on the threshold or on a refusal, cools down by itself, and only a success closes it.
`SourceBreaker` and `EmbeddingRuntime` instantiate it (`BreakerPromise`, `RuntimePromise`) with
a refinement mapping: `BreakerPhase` computes the abstract state from openedAt and retryAt,
`RuntimePhase` from openUntil, and everything else (probes, calls in flight, cache,
flights) is what the abstraction hides.

**SourceBreaker** models `source.Breaker` and its callers.  `failures`, `breaker`
(openedAt set or not), `retryWait` (retryAt - now) and `probeAge` (now - probeAt, or
NoProbe) are the struct; `calling`, `probes` and `callAge` the calls in flight;
`server` is the environment: a server that serves, one that does not, or one whose setting or
secret cannot be loaded.  `Allow`, `Report` (`App.Report`, reached through
`search.reportRemote` or `worker.outageOnly`), `Abandon` (a search that got an
adapter and made no call) and `ResetSourceHealth` are the operations.  What a search reports
is what `reportRemote` passes on: a missing repository, a feature the adapter lacks and a source
nobody configured count as success; a request the server rejects (400, 422) and a setting, a
secret or a configuration that cannot be used (`setup`) count as failures of the server.

**IndexQueue** models `index_jobs` and `Worker.RunOnce` in the steps between which
other replicas can act: `Claim` (one transaction), the gate (`RequeuePaused` or
`Start`), `Execute`, the record of the outcome under the lease guard (`Complete`,
`RecordError`) and `Notify`, which runs after the row was written and without the
lease.  `RecoverStaleJobs`, `RetryIndexJob`, `ApplyRetention` and `Enqueue` are the
other writers of the table.  A run may end in an outage at any time, with the source up too:
the embedding endpoint, the projections and the vault are servers of their own (`up`), and
`sourceOutage` does not tell them apart.  The breaker is shared with the searches of the replica
(`SearchFails`), which may reopen it after every window as long as the source is down.  Faults:
graceful shutdown, crash, a lost UPDATE, and a
stalled process (`late`), whose run outlives its deadline.  Time is relative:
`wait`, `age`, `outage`, `elapsed`.

**RefIndex** models `Indexer.syncRef` for one ref with the jobs of that ref: the
commit, the policy and the model a run captures, the unchanged fast path, the
incremental and the full replacement, embedding failures part of the way, staging,
and the publish transaction in three steps (`Begin`: lease lock and commit check,
`Delete`: what the DELETE statements see, `Commit`) because PostgreSQL's READ
COMMITTED lets another publish commit between them.  Chunks, symbols and
dependencies of a file are one row: they are staged, deleted and copied by the same
statements.  Row ids are hashes of path and content, so inserting a row that still
exists rolls the transaction back (`Collides`); symbol ids leave the content out and
collide more often, which is covered by `Fail` happening at any time.

**SearchProjection** models `worker.execute`'s last part, `App.projectSearchStores`: the
OpenSearch documents of one ref with the stamp `search_projection_states` keeps of
them, and its vectors.  `Decide` is `syncIncremental`'s choice between nothing, the
recorded diff (`Bulk`) and the whole ref (`Clear`, `Load`, `Fill`); `Mark` is
`markProjection`, which copies the commit the ref has by then.  The publish that
precedes it is one step (`PublishFull`, `PublishIncremental`), with the diff it records
in `repository_ref_changes`; RefIndex has its inside.  A bulk request that fails has applied any of
its items, deletions and upserts alike, and the delete-by-query (`conflicts=proceed`) may leave
behind what another run writes meanwhile.  `overtaken` is a history variable: it names the three
situations of which the stamp keeps no trace, and which the property and its theorem except:
another run of the ref that comes in between, a publish of the very commit the stamp names (a
branch forced back, or a ref rebuilt under another policy), and a projection repeated for new
permissions that fails half way.  In each the code gets it wrong (`StampIsTrue`, §6).

**PushDelivery** models the way of a push to the index: the sender's deliveries and
repetitions (external; it repeats after a 5xx or no answer and stops otherwise),
`receiveWebhook` and `Enqueue` in the two steps between which other requests act (the
lookup, the transaction), `registerRepository` in its three writes, the scheduler's
poll, and jobs as IndexQueue and RefIndex leave them: a job takes the head when it
starts and publishes it when it ends.  The three kinds of event ids are Bitbucket's
(one per request), GitLab's (one per event) and the payload's hash.  Retention deletes an event's
row whatever became of its push (`ApplyRetention`), and somebody may ask the server to send an old
event again: a push is then queued a second time.  The poll goes by the repository's `indexed_at`
(`recent`), which the run of any branch renews, also of those the model has no ref for
(`AnotherRun`).

**NotificationOutbox** models `notification.Service.RunOnce` of several replicas over
`notification_deliveries`: `Start` (settings, expired leases), `Seed`, `Select` (a
snapshot of rows, attempts and addresses), then `Supersede`, `Claim` or `Skip` for each,
`Send`, `Record`.  `slow` and `old` are time: a lease carries the time its pass
began, so after a slow stretch every lease of the pass is old.

**EmbeddingRuntime** models `embedding.Runtime` with the two ways it is used: a search
(`Guard`, `Embed`) and an index job (`Guard`, a probing `Embed`, `EmbedBatch` for every
batch).  A step is one hold of the mutex or one upstream call; a flight is a goroutine
of its own.  The cooldown (a second at least) does not pass while a goroutine is between
two steps that wait for nothing.

**VectorStore** models the collection with its dimension, `projectVectors` (DeleteRef, then
`streamVectors` page by page), the administrator's rebuild, and what a search by revision can
find.  Rows are decoded page by page, so a page may hold fewer vectors than rows.

**SourceConnectors** models one call of the GitLab or Bitbucket client: endpoint by endpoint,
page by page, with retries, while the lists at the server change; a code search with raw hits
that name no file or a project that is gone; and GitLab's project cache.  A listing is the set
the server has at the moment of a request; its order is that of the members, and a page is the
members with a place between two bounds, so what is inserted or removed ahead of the next page
shifts it.  A hit is a page of its own.  **DocumentSources**
models the poll of a Confluence space or a Jira project: revision, listing, one request per
page, and edits in between.

**Retrieval** models `Query` and `SemanticSearch` with the stages the code has (source query,
keyword index, coverage, query embedding, vector database, SQL, scoring, failover) for one
ref that has a chunk sharing a word with the query and one sharing only its meaning.  What a
stage contributes, loses or notes is kept; scores, ranks and limits are not.  The search setting and
the model setting are loaded by each who needs them, and one that cannot be read is taken for one
that is not there: another mode (`LoadedMode`), or no revision to compare vectors by (`rev` 0,
`Searches` "unfiltered").  A configured vectorWeight of 0 uses no embeddings and says nothing.  A
live search that was not made (no connectors, an adapter without code search), or whose hits
`safeSourceHits` all withheld, is an empty one without an error (`Outcomes` "withheld"); a failed
keyword search is silent.
**CodeSearch** models `SearchCode` and the discovery of repositories outside the catalogue
(`remoteScan`), with a permission that changes at any step.  **IndexTools** models the tools
that answer out of the index: an operation of the search service is a plan, a sequence of
queries, and each query is a step; handlers add the filter of the API key.  `FreshnessNote` is
FindDependencyUsage's query of index ages, whose note names the repositories behind the answer
before the handler filters it, and stays as it is.

**McpCall** models a tools/call around them: policy, key, lookup, handler, store; **McpSession**
a session with its row, the entries in the memory of the replicas and the streams.

**Access** models users, browser sessions, API keys with their rate buckets, bootstrap and
break-glass access.  A request is a sequence of SQL statements on one replica; administrators
act and time passes between any two, two rotations of one key overlap, and the statements of
`disableBootstrapAdmin`, whose errors the code discards, may change nothing.  The one exception:
recoveryLogin's check of the token belongs to the step of its transaction.

**BackupRestore** models backups (scheduled and manual, on replicas that share the directory),
retention, restore and the platform keys: what `resolveKeys` makes of a stored pair, a recovery
key, a previous one and what is sealed.  **Settings** models the versioned saves of one category
with a secret field behind a mask: the read behind the mask, which may fail and is then taken for
an absent row; the two SELECTs of the transaction (`ReadVersion`, `ReadHistory`), between which
others commit on PostgreSQL; the write, decided by the primary key of the history; and the
retention that deletes versions some days old and not in use.  **ManagedSecrets** models the two
backends of a secret, **StoreStart** `Open` statement by statement over binaries with and without
FTS5, where the process may end and a statement fail at each; `flaw` is history and names what an
earlier start left undone: the pass that fills the index, or the triggers and the note about them.
In BackupRestore two variables are history: `origin` is the archive the database was last
restored from, and `reported` the processes that reported that restore as done over the data it
had brought; a reload that met other data is another matter (§6, `NothingElseUsesTheKeys`).

**MCAnswering**, **MCExternal** and **MCPlatform** instantiate several of these for one TLC run.
The components of such a module share no state as modelled, so a behaviour is a behaviour of
one of them and the states are their sum: `part` says which one runs, it uses the variables of
the extended module under its own names, and the rest is `None`.  Each property names its part.
The proofs are about these modules: an invariant is a conjunction, one conjunct per part.

## 3. Runs

| run | shows |
|---|---|
| breaker | the breaker is a Circuit, does not count what says nothing against the source, and closes on its own |
| queue | two replicas, one job, two faults: lease, budget, settlement |
| queue_live | every job settles once the source and the endpoints of a run serve; a job that is tried again and again is reported |
| ref_index | the published index is the commit it is stamped with; only a lease holder publishes |
| external | documents under a stamp are the ref's chunks; a projected ref is found in the vector database; permissions and searches read in pages are whole or an error; a Jira edit is noticed |
| push | a push is queued once as long as its row is kept, indexed once queued, and the poll catches up once the further branches are quiet |
| outbox | messages go where their row says, deliveries are settled for cause, every delivery ends |
| embedding | no lost waiter; the circuit is a Circuit, open for cause, and closes again |
| access | nobody locked out is served; what was deleted or revoked stays ended; recovery is narrow; without its row the bootstrap administrator is let in nowhere; the rate limit holds over all replicas |
| platform | a backup can be gone back to, secrets are usable, of two writers that overlap the later is refused or replaces what it had read, the full-text index describes the table but for what was never filled in |
| answering | answers are honest about what they lack, as far as the settings could be read, name only what was verified, fit the index when they come from the cache, and show only what the caller may see; a live stream is not cut |
| confluence_poll | violation: the revision of a Confluence space never moves (§6) |

Most properties join parts that belong together and are stated, each with its comment, in the
module of the component (`AnswerIsHonest` is `EmbeddingContract`, `NoMisleadingEmpty` and
`SameVectorSpace`, for instance).  Several have a mutant
for more than one of their parts.

Bounds.  Breaker: two searches and a worker give every overlap of two calls with a
third; threshold 2 separates the first from the last failure; a probe timeout longer
than the open window lets an old probe meet a new one.  Queue: a lease one tick longer
than the deadline is the tightest the assumption allows, two attempts separate the
last from the first, two faults allow a stall followed by a crash of the second
worker.  Ref: two files (one only the wide policy accepts, which is also a manifest),
two contents and three commits give a changed, a removed and a reappearing file; a push
changes one file, and two pushes between two polls are one change of two; two
events allow a failed or crashed run after a policy or model change.  External: two
paths that come and go over three commits and two events, so that a projection can fail
and the next one meet another commit, an expired diff or a branch forced back; three
chunks of two refs with pages of one, so that a page decodes to nothing; lists of more pages
than the bound allows; three pages of which a listing shows two.  Two models of different
dimensions (`TwoSizes`) let a rebuild find a collection of the wrong size.  Push: two pushes to the
default branch, two deliveries each and two requests at a time give every overlap of a delivery with
its repetition and with the registration; runs of the further branches are `AnotherRun`, as many as
there may be; all three kinds of event ids; one fault is one lost answer, database error, failed job
or deleted row; one worker, see QueuedPushIsIndexed.  Outbox: one notification with a
webhook and two addresses, two notifiers, two attempts, two changes (a slow pass and a
failed send, a crash and a retry).  Embedding: two searches and a job over two texts
and a cache of one entry; three events are the two failures that open the circuit and a
failed probe or a caller that gives up.  Access: one person beside the two built-in
administrators, two requests at a time out of three, on two replicas, two sessions and keys (one
replacement; the theorems allow any number of rotations side by side), a clock that passes every
lifetime, also under a request.  Platform: two replicas, two starts, two
backups over one that is kept, two recovery keys and two master keys; two editors over three
versions, with a secret typed in or masked (a reference to a managed secret is saved and shown as it
is: the run has none, the theorems any); two rows, three writes and one fault over starts by any
binary.  Answering: two
generations of the index and two models or settings, one event of each kind or two events
in all, a session of three ticks renewed every tick, two repositories.

CHECK_DEADLOCK is off where the environment may simply stop: no more pushes,
notifications, settings or requests.

Fairness.  Time diverges (`Tick`, `Grow`, `TimePasses`, `CooldownPasses`); the loops of
a replica (`time.Ticker`) keep running, so the scheduler polls, a worker takes and
finishes jobs and a notifier makes its passes; a crashed replica is restarted by its
orchestrator; the breaker's window passes.  Strong fairness of `Claim` for the oldest due row
reflects a worker that polls more often than any retry delay; of `Settle` that runs started again
and again while the source and every endpoint serve do not all hit their deadline.  Nothing is
assumed of searches, which may reopen the breaker after each window of a source that is down.
DefaultBranchCatchesUp has the quiet of the other branches as its hypothesis, not as fairness.  In EmbeddingRuntime goroutines
run and upstream calls end, which their deadlines ensure; failures are bounded by
MaxEvents, so from some moment on the endpoint answers.  Nothing is assumed of
cancellations, abandoned probes, administrator resets or faults.

## 4. Proofs

Thirty-five theorems, in eight modules.  Each rests on an inductive invariant that holds
initially, is kept by every action (one step per action), and implies the property.  It is stated
at the head of its proof module, or in the module of the component beside the property (IndexQueue
and the components of MCPlatform, MCAnswering and MCExternal).  TLC checked each invariant on the
instance of its run before it was proved.  Every safety property of a run that passes is a theorem.

| module | theorems | properties |
|---|---|---|
| IndexQueueProofs | QueueTypeOK, HealthyRunKeepsLease, BudgetIsExact, OnlyLeaseHolderSettles | TypeOK, HealthyRunOwnsItsJob, BudgetAccounting, SettledByLeaseHolder |
| RefIndexProofs | IndexIsItsCommit, PublishNeedsTheLease | IndexMatchesCommit, OnlyLeaseHolderPublishes |
| PushDeliveryProofs | PushIsNotQueuedAgain, QueuedPushReachesTheIndex | PushIsQueuedOnce, QueuedPushIsIndexed |
| OutboundProofs | ClosedBreakerIsClean, HarmlessOutcomesNeverCount, BreakerImplementsCircuit | ClosedIsClean, HarmlessIsNotCounted, BreakerIsACircuit |
| | CircuitOpensForCause, NoLostWakeUp, ProbeWillReport, RuntimeImplementsCircuit | OpenForCause, WaitersHaveFlight, HalfOpenHasProbe, RuntimeIsACircuit |
| | MessagesReachTheirDestination, RowsSettleForCause | SentToItsDestination, SettledForCause |
| AccessProofs | LockedOutStaysOut, RecoveryStaysNarrow, RateLimitHolds, EndedIsEnded, BootstrapIsOver | LockedOutIsNotServed, RecoveryIsNarrow, WithinRateLimit, EndedStaysEnded, BootstrapEnds |
| PlatformProofs | BackupsAreOfUse, SecretsCanBeUsed, IndexStaysCurrent, NothingStoredIsLost | BackupCanBeRestored, SecretsAreUsable, IndexIsCurrent, StoredIsKept |
| AnsweringProofs | StreamsOutliveSweeps, DiscoveryIsVerified, SearchIsHonest, CacheIsGood, ToolsArePermitted | LiveStreamIsNotCut, VerifiedOnly, AnswerIsHonest, CachedAnswerIsGood, ToolAnswerIsPermitted |
| ExternalProofs | StampStandsForTheChunks, ProjectionIsComplete, JiraRevisionStandsForContent, AnswersAreWhole | StampedRefIsIndexed, ProjectedRefIsFound, JiraEditIsNoticed, SourceAnswerIsWhole |

`OutboundProofs` is about three components between the process and other servers; it extends
their modules without composing them.  SourceBreaker: `ClosedIsClean` is inductive together with
the type invariant; the action property is about what is passed on (`ReportedAs`) and what is
counted of it (`Failure`); the types say that a success and a tick lower the two numbers.
`BreakerImplementsCircuit` shows that every step of the breaker is a step of Circuit or a
stutter: `Allow`, `Abandon` and reports that count for nothing leave count and phase alone, a
success closes, a failure counts and opens at the threshold, a refused credential opens
at once, and a tick that ends the window cools down.  It needs the types, and that a closed
breaker has no window left (`ClosedIsClean`).

EmbeddingRuntime: the circuit and the flights are proved separately.
`CircuitInv` is `OpenForCause` with the circuit's type: the count is cut off at the
threshold, and only with its type is a count that is not below the threshold at it.
`FinishKeepsCause` says it once for the three outcomes of `finish`.  `FlightInv` is
`WaitersHaveFlight` with the types of calls and flights; the step that matters is
`Complete`, which removes a flight and must have woken exactly the callers of its text.

`HalfOpenHasProbe` asks what a cooldown that elapsed found: nobody between two steps (the guard
of `CooldownPasses`).  `ProbesOnly` therefore says that from then on every call on its
way to a flight is a probe, every flight that may still look into the cache is one, and no flight
has reported; a call that gives up leaves its flight behind, which is the case a test would not
reach.

`RuntimeImplementsCircuit` does for the runtime what the first refinement does for the
breaker; `FinishIsCircuitStep` says it once for every action that ends in `finish`.

NotificationOutbox: a pass carries copies of rows from statement to statement.
`CarriedInv` says that the counter of a row is never behind a copy of it and ahead of the copy
that is being sent, that the claimed item still names its destination, and that a send that
worked has reached somebody.

`IndexQueueProofs`: the inductive invariant is `IndInv == TypeOK /\ RunState /\
HealthyRunOwnsItsJob /\ BudgetAccounting`.  `HealthyRunOwnsItsJob` alone is not
inductive: lease recovery looks at the row's age while a run knows its own elapsed
time, so `RunState` adds that a run which keeps its deadline has seen exactly the age
of its lease, that a lease holder's copy of attempts is the row's, and that a worker
without a claim has nothing left of one.  With `JobTimeout < Lease` (the assumption
the constants of `worker.go` satisfy) no such run is ever stale.  The action property
`SettledByLeaseHolder` follows from the lease guard in `Owns`.

`RefIndexProofs`: a run reads the ref's state, its commit's files and the rows it will delete at
three different times.  `RunInv` says what it still knows at each place of syncRef: inside the
publish transaction it holds the lease; what it staged is its commit's content; and, unless
another run has published since it read the state (`stale`, which the commit check of `Begin`
discovers), the paths it replaces are all of them or those in which its commit differs from the
stamped one.  Staged rows in place of the deleted ones are then the rows of the new commit.
IndexMatchesCommit excepts a publish that raced another one past the commit check (`raced`).

`PushDeliveryProofs`: the first theorem rests on webhook_events.  A push queued more often than its
row was deleted has a row of the registered repository with its payload, which the unique index
refuses a second time (`QueuedInv`); every deletion of such a row (`forgotten`) lets it be queued
once more, and nothing else does.  The second follows a queued push to the index: a job that is still
to read the head, or one that has read it, or a failed one, or the index at the head and nothing
running that has read another commit.  It has the hypothesis OneWorker, with which the run checks it:
two workers can publish two commits of one ref in either order, which is RefIndex's subject.

`AccessProofs`: a request carries what it read.  `RequestOK` says what of it is still true: the
account was made and, if the request has not seen it active, it is not active; the session
about to be inserted is nobody's and no other request's; a session about to be renewed is
still its account's, or gone.  Beside it: a used break-glass token stays on record until it has
expired, the shared rate counters are never behind the calls let through, special accounts' sessions
end in time.  EndedStaysEnded and BootstrapEnds are about steps: what a request does with a row it
read long before, and whom a replica that still holds the token lets in once the row is gone.  That
an administrator's login does delete the row is not among them, because it may not (§6,
`LoginEndsBootstrap`), nor that time alone ends a session or a key that a request has in hand
(`ExpiredIsNotRenewed`, `RetiredKeyIsNotProlonged`).

`PlatformProofs` is about the four components of MCPlatform, each with an invariant of its own:
a behaviour of MCPlatform is one of one of them.  BackupRestore (`BackupInv`): a database that
was served has its keys and something sealed with them (`Sound`), so a wrong key is always told;
what a process selected for removal stays over the limit (`Overdue`: newer completed backups can
only be removed when they are over it too, and then enough newer ones remain); a running record
belongs to one process; who reported a restore has the key its archive opens with.  Settings
(`SettingsInv`): there is a newest version n, and the versions from the number a save has drawn up to
n are all kept and young, so a save whose number is free at the commit has seen every save before
it, and the live row is still the one it found when it read the history, or deleted.  Versions have gaps, because
retention deletes any but the one in use; when it takes the newest of a deleted category the numbers
start again, and requests that were there by then (`swept`) are excepted.
ManagedSecrets (`SecretInv`): the first version decides the backend, and a request with a later
number has read it.  StoreStart (`IndexInv`): with the table in place and no note, the index is the
table whichever statement was last, also between creating the table and filling it, but for rows
it never had because a start ended before the full pass (`Described`), unless a statement that keeps
the books failed (`flaw` "unkept").

`AnsweringProofs` is about the five components of MCAnswering.  McpSession (`SessionInv`): a
stream's entry is renewed at each turn of its ticker, so what is left of the entry covers the
life of a session but for the time since the last turn, and no sweep finds it expired as long as
the ticker is shorter than that life; and no two replicas' entries share a done channel, so a
sweep closes nobody else's.  CodeSearch (`VerifiedInv`): a repository becomes a candidate, or
counts as allowed, only by a row or by a lookup of this search.  Retrieval (`RetrievalInv`): from
the moment a request loaded its configuration, going on without vectors is noted and never done
when they are required, as far as the search setting could be read and the weight is not 0, the query
is embedded before anything is compared with it, its revision is the one loaded unless the model
setting is replaced or cannot be read meanwhile, and what is remembered of the source is what it
gave.  McpCall (`CacheInv`): a key stays true of a running call, an answer is no older
than its key, and its age and what is left of its entry, or of the call that will store it, add
up to a bound; the age alone is not inductive.  IndexTools (`PermittedInv`): a row is filtered
steps after it was read, so the invariant speaks of the plan that is still ahead.  What a caller
could read is in `could` from the first query on; what the key allows is said for each of the
four ways a tool honours it (the answer filtered, a required library, a given one, none), with
the shapes a plan keeps while it is worked off (`PlanFits`).

`ExternalProofs` is about the four components of MCExternal.  SearchProjection (`ProjectionInv`):
as long as none of the situations of `overtaken` occurred, one run projects at a time, the recorded
diff leads from the index as it is to the ref's chunks (also when part of it was applied
before: deleting and upserting again changes nothing), and what a run holds in hand does too.
VectorStore (`VectorInv`): a projection that is alone with its ref has, up to the row it has read,
what the rows ask for, and after it nothing, which `DeleteRef` saw to; on its last page there are no
more rows.  A page is the first ids that are left, so between `after` and the end of a page there is
nothing of the ref; that lemma is about finite sets of numbers.  A rebuild may run beside it, and
sends what the settled rows say.  SourceConnectors (`ConnectorInv`): while the source does not
change, the endpoints and pages behind a read are in what it has got, a search has handled the hits
of the pages behind it, and what was granted was granted at some moment of the read.
DocumentSources (`JiraInv`): what a run has read, and what is stored, stays true of
the issues for as long as none is edited or deleted after its revision was asked for; with an edit
afterwards the revision moves, whichever issue it was.

The constants are arbitrary: any finite or infinite set of callers, jobs, replicas, users, keys
and texts, any threshold, limit and window, any lease longer than the deadline
of a run, any life of a session longer than the interval of the keepalives, any assignment of
chunks to refs and of dimensions to models, any page size and any bound on pages.
What is assumed of them is named in the modules and evaluated by TLC: besides bounds being
numbers, that an outbox has an address, that the two built-in administrators are not among the
users, that `None` is no account, key, mode or token, that the mask is no secret, that
"keycloak" is a category of settings, as it is in the code, that chunks, repositories and the users
and groups of a source server are finitely many, that the members of a group are users and that the
administrator's rebuild is none of the workers.

Only model-checked.  Liveness and whatever needs fairness or ENABLED (ClosesOnItsOwn,
EveryJobSettles, RetriedJobIsReported, DefaultBranchCatchesUp, DeliveriesSettle, Recovers): TLAPS
does not reason about it here.  Of PushDelivery the type invariant as a whole: its least unindexed
push is a CHOOSE over a sequence, whose existence needs an induction; the parts the theorems need
are in `ShapesInv`.  The invariants of MCExternal and MCAnswering carry the types their proofs
need, not one for every variable.

## 5. Plan

What is left: an abstract specification "a ref's published state is some commit's state", with
RefIndex shown to implement it, and SearchProjection's publish as its step.

Not modelled: HTTP, JSON and SQL text; ranking, snippets, response budgets and formatting;
parsing of source files, manifests and lockfiles, which work on one file and keep nothing; the
PostgreSQL search column and the content of migrations; MigrateLogical; the web console,
playground and the CRUD of single rows; metrics, traces and health pages, which report state
and change none.

## 6. Disagreements

`confluence_poll` shows the one with the widest effect; `findings` in PROJECT.json quotes the
lines of all.  The others are stated as definitions beside the properties of their module, and
naming one as the only INVARIANT or PROPERTY of a configuration of that module shows the
counterexample:

| module | definitions | how |
|---|---|---|
| SourceBreaker | OneProbeAtATime, ClosesOnlyOnAnswer, OpensOnlyOnServerFailure | expired probes; runs that never called; failures of set-up and of other endpoints |
| IndexQueue | LongOutageIsReported | under FairSpec: searches reopen the breaker they share with the worker, the job goes through `requeuePaused`, which tells nobody |
| RefIndex | StampedPolicyGovernsContent, NoMixedGenerations | a commit between policy change and run; Jobs = {j1, j2}: two publishes under READ COMMITTED |
| SearchProjection | StampIsTrue | what the stamp keeps no trace of |
| PushDelivery | RefusedForCause, DuplicatesAreCounted, MissedPushIsPolled | an error of the lookup; IdKinds = {"hash"}; as a PROPERTY: other branches keep `indexed_at` young |
| NotificationOutbox | SupersededIsReplaced | two Urls |
| VectorStore | FirstProjectionSucceeds | DeleteRef of a collection that is not there |
| SourceConnectors | HitNamesItsProject | a renamed project in the cache |
| Retrieval | NeverMixed, ModeIsKept, ReturnedNothingIsTrue, VectorDatabaseOnlyAdds | a model replaced under the query; settings that cannot be read, a weight of 0; hits that `safeSourceHits` withheld; a prefilter replaced |
| CodeSearch | UnsupportedSearchEnumerates | a failed name search |
| McpCall | NeverOutlivesPermission | a permission granted and withdrawn after the key |
| IndexTools | PackHonoursTheKey, BundleHasTarget, InventoryIsHidden, TestsKeepTheScope | what is gathered before the key filters, the note on old indexes included |
| Access | ExpiredIsNotRenewed, RetiredKeyIsNotProlonged, LoginEndsBootstrap | time under a request; three Keys: two rotations that read the same key; a DELETE that fails |
| Settings | SavesOverItsVersion, MaskKeepsTheSecret | a save between the two SELECTs; a stored value that cannot be read |
| StoreStart | FilledAtCreation | a start that ends between creating the table and filling it |
| BackupRestore | NothingElseUsesTheKeys | MaxStarts = 4, MaxBackups = 1, MaxNow = 0: another replica saves a setting between the commit of a restore and its reload |

Two more definitions of IndexTools are
observations without a comment in the code to hold them against: `OwnersOfOneRepository` and
`OneGeneration`.

Seen while modelling, without a formula: a backup archive of a release up to v0.66 is said to
restore still (`backup/service.go:63`) and is refused for its migrations; `MigrateLogical` says
bootstrap credentials are not copied, and `platform_bootstrap` is among the tables;
`enqueueRetrievalReindex` says every known ref moves to the new policy, and skips refs that have
a job already running under the old one; an import stores settings "exactly the way the HTTP
handler does" (`settings.go:1379`) but queues no reindexing.
