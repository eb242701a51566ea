-------------------------- MODULE SourceConnectors --------------------------
(***************************************************************************)
(* The Bitbucket and GitLab clients: what one adapter call makes of a      *)
(* server that answers in pages, fails, throttles, and changes while it is *)
(* being read.  A call is the read of a repository's permissions, which    *)
(* replaces the stored ones, or a code search, in one repository or over   *)
(* the whole instance.                                                     *)
(*                                                                         *)
(* One call runs at a time: calls share nothing but GitLab's project       *)
(* cache, which is filled under a mutex.                                   *)
(***************************************************************************)
EXTENDS Integers, FiniteSets, Sequences, SequencesExt

CONSTANTS
    Users, Groups,   \* numbers: the order the server lists them in
    Members,         \* who is named for the repository at first
    Licensed,        \* the users the global permissions list without ADMIN
    Everyone,        \* the principal of a repository all users may read
    PageLength,      \* items the server puts on a page, 1 in a search
    MaxPages,        \* 20 and 50 in the code
    MaxAttempts,     \* tries of one request, 3 in the code
    Limit,           \* hits a search asks for
    Projects, Paths, \* GitLab projects and the paths they can have
    Gone,
    MaxRaw,          \* bound: raw hits of a search
    MaxEvents        \* bound: changes at the server and failed requests

Grantees == Users \cup Groups
Hits == [file : 0..2, project : Projects]   \* file 0: a hit without a path

VARIABLES
    client,    \* "bitbucket" or "gitlab"
    remote,    \* who may read the repository at the source, and where the projects are
    cache,     \* GitLab projectCache
    call,      \* the call under way and what it has so far
    stored,    \* repository_permissions
    seen,      \* who was named at some moment of the call, and whether the source changed
    events

vars == <<client, remote, cache, call, stored, seen, events>>

Event == events < MaxEvents /\ events' = events + 1

When(condition, set) == IF condition THEN set ELSE {}

\* Whom the source names as readers of the repository: by name, or everyone by default (a
\* Bitbucket project's default permission, a public GitLab project).
Named(r) ==
    IF client = "bitbucket"
    THEN ((r.repo \cup r.project \cup r.admin) \cap (r.active \cup Groups)) \cup When(r.all, {Everyone})
    ELSE (r.repo \cap r.active) \cup When(r.access = "enabled" /\ r.all, {Everyone})

\* GitLab's feature level can take the repository from all of them.
MayRead(r) == When(client = "gitlab" => r.access # "disabled", Named(r))

Idle == [op |-> "none", pc |-> "idle", at |-> 1, page |-> 1, attempt |-> 1, raw |-> <<>>, ref |-> "default",
         got |-> {}, hits |-> <<>>, result |-> "none", skipped |-> {}]

Nothing == [could |-> {}, changed |-> FALSE]

Init ==
    /\ client \in {"bitbucket", "gitlab"}
    /\ remote = [repo |-> Members, project |-> Groups, admin |-> {}, active |-> Users, all |-> FALSE,
                 access |-> "enabled", paths |-> [p \in Projects |-> p]]
    /\ cache = [p \in Projects |-> Gone]
    /\ call = Idle
    /\ stored = {}
    /\ seen = Nothing
    /\ events = 0

(***************************************************************************)
(* The server.                                                             *)
(***************************************************************************)

Toggle(set, x) == IF x \in set THEN set \ {x} ELSE set \cup {x}

Changes ==
    {[remote EXCEPT !.active = Toggle(@, p)] : p \in Users}
    \cup {[remote EXCEPT !.all = ~@]}
    \cup IF client = "bitbucket"
         THEN {[remote EXCEPT ![f] = Toggle(@, p)] : f \in {"repo", "project", "admin"}, p \in Grantees}
         ELSE {[remote EXCEPT !.repo = Toggle(@, p)] : p \in Users}
              \cup {[remote EXCEPT !.access = a] : a \in {"enabled", "private", "disabled"}}
              \cup {[remote EXCEPT !.paths[p] = q] : p \in Projects, q \in {Gone} \cup (Paths \ Range(remote.paths))}

ServerChanges ==
    /\ Event
    /\ remote' \in Changes \ {remote}
    /\ seen' = IF call = Idle THEN Nothing ELSE [could |-> seen.could \cup Named(remote'), changed |-> TRUE]
    /\ UNCHANGED <<client, cache, call, stored>>

(***************************************************************************)
(* A call: its requests, in order.                                         *)
(***************************************************************************)

Begin(op, raw, ref) ==
    /\ call.pc = "idle"
    /\ call' = [Idle EXCEPT !.op = op, !.pc = "ask", !.raw = raw, !.ref = ref]
    /\ seen' = [could |-> Named(remote), changed |-> FALSE]
    /\ UNCHANGED <<client, remote, cache, stored, events>>

BitbucketPermissions ==
    <<"repo users", "repo groups", "project users", "project groups", "admin users", "admin groups", "all">>
GitLabPermissions == <<"members", "project">>
Endpoints ==
    IF call.op # "permissions" THEN <<"search">>
    ELSE IF client = "bitbucket" THEN BitbucketPermissions ELSE GitLabPermissions
Endpoint == Endpoints[call.at]

\* Whom the server lists at an endpoint, in the order of their numbers.
Listing(endpoint) ==
    CASE endpoint = "repo users"     -> remote.repo \cap Users
      [] endpoint = "repo groups"    -> remote.repo \cap Groups
      [] endpoint = "project users"  -> remote.project \cap Users
      [] endpoint = "project groups" -> remote.project \cap Groups
      [] endpoint = "admin users"    -> (remote.admin \cup Licensed) \cap Users
      [] endpoint = "admin groups"   -> remote.admin \cap Groups
      [] endpoint = "members"        -> remote.repo
      [] OTHER                       -> {}

\* A page of a list: the server passes over the pages before it, as the list is now.
Place(x, list) == Cardinality({y \in list : y < x})
PagesBefore(list) == {x \in list : Place(x, list) < (call.page - 1) * PageLength}
PageOf(list) == {x \in list \ PagesBefore(list) : Place(x, list) < call.page * PageLength}
IsLast(list) == call.page * PageLength >= Cardinality(list)

\* Mutant: every entry of the global permissions counts.
KeepsGlobalEntries(endpoint, page) == page \cap (remote.active \cup Groups)

\* GetPermissions of the Bitbucket client: inactive users and global entries below
\* ADMIN give nothing.
BitbucketGrants(endpoint, page) ==
    {p \in page : /\ p \in remote.active \cup Groups
                  /\ endpoint \in {"admin users", "admin groups"} => p \in remote.admin}

\* GetPermissions of the GitLab client: blocked members give nothing.
GitLabGrants(page) == page \cap remote.active

Grants(endpoint, page) ==
    IF client = "bitbucket" THEN BitbucketGrants(endpoint, page) ELSE GitLabGrants(page)

\* Of the last request: a permission all users have, and GitLab's feature level.
LastGrants(got) ==
    IF client = "bitbucket" THEN got \cup When(remote.all, {Everyone})
    ELSE CASE remote.access = "disabled" -> {}
           [] remote.access = "enabled" /\ remote.all -> got \cup {Everyone}
           [] OTHER -> got

Succeed(got, hits) == [call EXCEPT !.pc = "done", !.got = got, !.hits = hits, !.result = "ok"]
Failed == [call EXCEPT !.pc = "done", !.result = "error"]

\* Mutant: the bound on pages shortens the list.
Truncated == [call EXCEPT !.pc = "done", !.result = "ok"]

\* A list that does not end within the bound is an error.
TooManyPages == Failed

\* The next page of the endpoint, or the next endpoint.
Advance(last, got) ==
    IF last THEN [call EXCEPT !.at = @ + 1, !.page = 1, !.attempt = 1, !.got = got]
    ELSE IF call.page = MaxPages THEN TooManyPages
    ELSE [call EXCEPT !.page = @ + 1, !.attempt = 1, !.got = got]

\* A page of principals (pageItems, pages).
PermissionPage ==
    /\ call.pc = "ask"
    /\ call.op = "permissions"
    /\ Endpoint \notin {"all", "project"}
    /\ LET list == Listing(Endpoint)
       IN  call' = Advance(IsLast(list), call.got \cup Grants(Endpoint, PageOf(list)))
    /\ UNCHANGED <<client, remote, cache, stored, seen, events>>

LastPermission ==
    /\ call.pc = "ask"
    /\ call.op = "permissions"
    /\ Endpoint \in {"all", "project"}
    /\ call' = Succeed(LastGrants(call.got), <<>>)
    /\ UNCHANGED <<client, remote, cache, stored, seen, events>>

\* An answer worth another try: no answer at all, 429 or a gateway's status.
Retried ==
    /\ call.pc \in {"ask", "lookup"}
    /\ call.attempt < MaxAttempts
    /\ Event
    /\ call' = [call EXCEPT !.attempt = @ + 1]
    /\ UNCHANGED <<client, remote, cache, stored, seen>>

\* The last try fails, or the answer is one that no other try changes.
RequestFails ==
    /\ call.pc \in {"ask", "lookup"}
    /\ Event
    /\ call' = Failed
    /\ UNCHANGED <<client, remote, cache, stored, seen>>

\* 401 or 403 for the global permissions, which the token need not see: what was
\* read so far stands, and the call goes on with the project's default.
AdminRefused ==
    /\ call.pc = "ask"
    /\ call.op = "permissions"
    /\ Endpoint \in {"admin users", "admin groups"}
    /\ Event
    /\ call' = [call EXCEPT !.at = Len(BitbucketPermissions), !.page = 1, !.attempt = 1, !.skipped = {"admin"}]
    /\ UNCHANGED <<client, remote, cache, stored, seen>>

(***************************************************************************)
(* Code search.                                                            *)
(***************************************************************************)

\* convertCodeSearchHit needs a file; GitLab names a file of a project once.
UsableHit(h) ==
    /\ h.file # 0
    /\ client = "gitlab" => h \notin call.skipped /\ \A i \in DOMAIN call.hits : call.hits[i].hit # h

Labelled(h, path) == [hit |-> h, path |-> path]

\* SearchQuery of the Bitbucket client: the server only knows the default branch,
\* and its hits are not passed off as those of another ref.
RefUnsupported(hits) == client = "bitbucket" /\ call.ref = "other" /\ hits # <<>>

AfterPage(hits, skipped) ==
    IF Len(hits) = Limit \/ call.page >= Len(call.raw)
    THEN IF RefUnsupported(hits) THEN Failed ELSE [Succeed({}, hits) EXCEPT !.skipped = skipped]
    ELSE IF call.page = MaxPages THEN TooManyPages
    ELSE [call EXCEPT !.page = @ + 1, !.attempt = 1, !.hits = hits, !.skipped = skipped, !.pc = "ask"]

\* searchCode and searchBlobs, one hit to a page: a hit that is not usable is
\* passed over; GitLab's instance-wide search asks for the hit's project first.
SearchPage ==
    /\ call.pc = "ask"
    /\ call.op # "permissions"
    /\ LET h == call.raw[call.page]
       IN  IF call.raw = <<>> \/ ~UsableHit(h) THEN call' = AfterPage(call.hits, call.skipped)
           ELSE IF client = "gitlab" /\ call.op = "global" THEN
                IF cache[h.project] = Gone THEN call' = [call EXCEPT !.pc = "lookup", !.attempt = 1]
                ELSE call' = AfterPage(Append(call.hits, Labelled(h, cache[h.project])), call.skipped)
           ELSE call' = AfterPage(Append(call.hits, Labelled(h, remote.paths[h.project])), call.skipped)
    /\ UNCHANGED <<client, remote, cache, stored, seen, events>>

\* project: the answer is cached for the life of the client; a project that is
\* gone loses its hit.
LookupProject ==
    /\ call.pc = "lookup"
    /\ LET h == call.raw[call.page]
           path == remote.paths[h.project]
       IN  IF path = Gone
           THEN call' = AfterPage(call.hits, call.skipped \cup {h}) /\ UNCHANGED cache
           ELSE /\ call' = AfterPage(Append(call.hits, Labelled(h, path)), call.skipped)
                /\ cache' = [cache EXCEPT ![h.project] = path]
    /\ UNCHANGED <<client, remote, stored, seen, events>>

\* syncRepository replaces the permissions with a list that was read to its end;
\* an error leaves the old ones.
Return ==
    /\ call.pc = "done"
    /\ stored' = IF call.op = "permissions" /\ call.result = "ok" THEN call.got ELSE stored
    /\ call' = Idle
    /\ seen' = Nothing
    /\ UNCHANGED <<client, remote, cache, events>>

Next ==
    \/ ServerChanges
    \/ Begin("permissions", <<>>, "default")
    \/ \E raw \in BoundedSeq(Hits, MaxRaw) :
          \/ Begin("global", raw, "default")
          \/ \E ref \in {"default", "other"} : Begin("query", raw, ref)
    \/ PermissionPage \/ LastPermission \/ AdminRefused
    \/ Retried \/ RequestFails
    \/ SearchPage \/ LookupProject
    \/ Return

Spec == Init /\ [][Next]_vars

-----------------------------------------------------------------------------
(* Properties *)

Answered(op) == call.pc = "done" /\ call.op = op /\ call.result = "ok"

\* Nobody is let in whom the source did not name as a reader at some moment of
\* the read, however the lists shift between its requests, and nobody at all when
\* the repository feature was off throughout (GetPermissions).
GrantedWasGranted ==
    Answered("permissions") => call.got \subseteq IF seen.changed THEN seen.could ELSE MayRead(remote)

\* A read of the permissions that succeeds is whole: unless the lists moved under
\* it, it names everyone who may read, but for the administrators when the token
\* may not see them.
PermissionsAreWhole ==
    Answered("permissions") /\ ~seen.changed
        => MayRead([remote EXCEPT !.admin = IF call.skipped # {} THEN {} ELSE @]) \subseteq call.got

\* A raw hit that is in the answer, or names no file, or is of a project that is gone.
Handled(i) ==
    \/ call.raw[i].file = 0
    \/ call.raw[i] \in call.skipped
    \/ \E j \in DOMAIN call.hits : call.hits[j].hit = call.raw[i]

\* A search that answers with fewer hits than it was asked for has them all: the
\* only ones missing name no file, or a project that is gone.
ShortAnswerIsComplete ==
    \A op \in {"query", "global"} :
        Answered(op) /\ Len(call.hits) < Limit => \A i \in DOMAIN call.raw : Handled(i)

\* A call that succeeds left no page out, whatever page the useful items are on and
\* wherever the bound on pages falls (pageItems, pages, searchCode, searchBlobs).
WholeOrError == PermissionsAreWhole /\ ShortAnswerIsComplete

(* The inductive invariant behind GrantedWasGranted and WholeOrError.      *)

PathNames == Projects \cup Paths \cup {Gone}

ConnectorTypes ==
    /\ client \in {"bitbucket", "gitlab"}
    /\ remote \in [repo : SUBSET Grantees, project : SUBSET Grantees, admin : SUBSET Grantees,
                   active : SUBSET Users, all : BOOLEAN, access : {"enabled", "private", "disabled"},
                   paths : [Projects -> PathNames]]
    /\ client = "gitlab" => remote.repo \subseteq Users
    /\ cache \in [Projects -> PathNames]
    /\ DOMAIN call = DOMAIN Idle
    /\ call.pc \in {"idle", "ask", "lookup", "done"}
    /\ call.pc = "idle" => call = Idle
    /\ call.pc # "idle" => call.op \in {"permissions", "query", "global"}
    /\ call.pc = "lookup" => call.op # "permissions"
    /\ call.page \in Nat \ {0}
    /\ call.raw \in Seq(Hits)
    /\ call.hits \in Seq([hit : Hits, path : PathNames])
    /\ seen.changed \in BOOLEAN

\* What an endpoint grants, and what its pages before this one grant.
ShownAt(i) == Grants(Endpoints[i], Listing(Endpoints[i]))
ShownBefore == Grants(Endpoint, PagesBefore(Listing(Endpoint)))

\* What a read of the permissions has so far was granted at some moment of it, and, if
\* the source did not change, is all that the requests before this one could show.
GrantedSoFar ==
    call.op = "permissions" /\ call.pc # "idle" =>
        /\ Named(remote) \cup call.got \subseteq seen.could
        /\ call.pc = "ask" =>
              /\ call.at \in 1..Len(Endpoints)
              /\ ~seen.changed =>
                    /\ call.got \subseteq Named(remote)
                    /\ ShownBefore \subseteq call.got
                    /\ \A i \in 1..(call.at - 1) :
                          \/ Endpoints[i] \in {"admin users", "admin groups"} /\ call.skipped # {}
                          \/ ShownAt(i) \subseteq call.got

\* The hits of the pages before this one are handled.
HandledSoFar ==
    call.op \in {"query", "global"} /\ call.pc \in {"ask", "lookup"} =>
        /\ call.page \in DOMAIN call.raw \/ (call.pc = "ask" /\ call.raw = <<>>)
        /\ \A i \in DOMAIN call.raw : i < call.page => Handled(i)

ConnectorInv == ConnectorTypes /\ GrantedSoFar /\ HandledSoFar /\ GrantedWasGranted /\ WholeOrError

\* discoverRemoteCode: "Every repository is ACL-verified against the caller
\* principals before any name or snippet is returned", so a hit has to carry the
\* path of its own project.
HitNamesItsProject ==
    Answered("global") /\ ~seen.changed
        => \A i \in DOMAIN call.hits : call.hits[i].path = remote.paths[call.hits[i].hit.project]
=============================================================================
