----------------------------- MODULE CodeSearch -----------------------------
(***************************************************************************)
(* SearchCode (internal/search/service.go): the catalogue and its live     *)
(* queries, the index, and the discovery of repositories outside the       *)
(* catalogue (discoverRemoteCode, remoteScan), for one source and one      *)
(* restricted caller whose permission there can change meanwhile.          *)
(*                                                                         *)
(* A repository either contains the searched code or not, and its name     *)
(* matches the query or not.  Ranking, snippets and the limits on results, *)
(* projects and repositories are left out; so is the administrator, whom   *)
(* every check lets through.                                               *)
(***************************************************************************)
EXTENDS Naturals, FiniteSets

CONSTANTS Repos, None

VARIABLES world,     \* what the repositories hold, and which of them the catalogue has
          granted,   \* repositories the source lets the caller read
          ask,       \* the filters of the request
          req

vars == <<world, granted, ask, req>>

\* rows: the catalogued repositories the caller may read by repository_permissions.
Init == /\ world \in [contains : SUBSET Repos, matches : SUBSET Repos, rows : SUBSET Repos]
        /\ granted \in SUBSET Repos
        /\ ask \in [project : BOOLEAN, named : BOOLEAN, ref : BOOLEAN, scope : SUBSET Repos]
        /\ IF ask.named THEN Cardinality(ask.scope) = 1 ELSE ask.project \/ ask.scope = Repos
        /\ req = [pc |-> "catalogue", hits |-> {}, repos |-> {}, failed |-> FALSE,
                  verify |-> None, allowed |-> {}, denied |-> {}, saw |-> {},
                  cand |-> {}, listed |-> None, unsupported |-> FALSE]

To(r) == req' = r /\ UNCHANGED <<world, granted, ask>>
Failed(r, pc) == [r EXCEPT !.pc = pc, !.failed = TRUE]

-----------------------------------------------------------------------------
(* The catalogue and the index.                                            *)

\* SearchRepositories, then SearchSource: one live query per readable repository
\* in parallel; those of "bad" fail or are paused.  Only a search that found
\* nothing reports it.
Catalogue(bad) ==
    LET asked == world.rows \cap ask.scope
        hits == (asked \ bad) \cap world.contains
    IN  /\ req.pc = "catalogue" /\ bad \subseteq asked
        /\ To([req EXCEPT !.pc = "index", !.repos = asked \cap world.matches, !.hits = hits,
                          !.failed = hits = {} /\ bad # {}])

\* indexedSourceHits; a database that does not answer adds nothing and says nothing.
\* Discovery follows unless the request named a repository and has its answer.
IndexedSourceHits(answers) ==
    LET hits == req.hits \cup (IF answers THEN world.rows \cap ask.scope \cap world.contains ELSE {}) IN
    /\ req.pc = "index"
    /\ To([req EXCEPT !.hits = hits,
              !.pc = IF ~ask.named \/ (~req.failed /\ hits = {}) THEN "adapter" ELSE "finish"])

\* remoteSource: a source that is paused or not configured ends the discovery.
Adapter(available) ==
    /\ req.pc = "adapter"
    /\ To([req EXCEPT !.pc = IF ~available THEN "finish" ELSE IF ask.project THEN "project" ELSE "names"])

-----------------------------------------------------------------------------
(* Verifying what the source named.                                        *)

\* repositoryInScope and boundedRepositories come before every lookup.  "result"
\* says which of the verified repositories are result rows, "code" whether their
\* hits come with them.
Collect(found, result, code, next) ==
    [req EXCEPT !.pc = "verify",
        !.verify = [found |-> found \cap ask.scope, result |-> result, code |-> code, next |-> next]]

\* Mutant: a lookup that fails denies nothing.
OnlyDenied(r, answers) == answers => r \in granted

\* A permission lookup that fails denies.
Decision(r, answers) == answers /\ r \in granted

\* prefetchPermissions and authorize: one lookup per repository, cached for the scan.
Lookup(r, answers) ==
    /\ req.pc = "verify" /\ r \in req.verify.found \ (req.allowed \cup req.denied)
    /\ To([req EXCEPT !.failed = @ \/ ~answers,
              !.allowed = IF Decision(r, answers) THEN @ \cup {r} ELSE @,
              !.denied = IF Decision(r, answers) THEN @ ELSE @ \cup {r},
              !.saw = IF answers /\ r \in granted THEN @ \cup {r} ELSE @])

\* The rest of collect, and of appendGlobalHits.
Verified ==
    LET ok == req.verify.found \cap req.allowed IN
    /\ req.pc = "verify" /\ req.verify.found \subseteq req.allowed \cup req.denied
    /\ To([req EXCEPT !.pc = req.verify.next, !.verify = None,
              !.cand = IF req.verify.code THEN @ ELSE @ \cup ok,
              !.repos = @ \cup (ok \cap req.verify.result),
              !.hits = IF req.verify.code THEN @ \cup ok ELSE @])

-----------------------------------------------------------------------------
(* discoverRepositories.                                                   *)

\* A project filter is listed first.  A rejected credential ends the discovery of
\* repositories, not the search.
ScopedProject(outcome) ==
    /\ req.pc = "project"
    /\ To(CASE outcome = "ok" ->
                 [Collect(Repos, IF ask.named THEN Repos ELSE world.matches, FALSE, "global")
                    EXCEPT !.listed = Repos]
            [] outcome = "unauthorized" -> Failed(req, "global")
            [] outcome = "failed" -> Failed(req, "names"))

\* The source's own search by name; for a named repository, by its name.
SearchNames(outcome) ==
    LET found == IF ask.named THEN ask.scope ELSE world.matches IN
    /\ req.pc = "names"
    /\ To(CASE outcome = "ok" -> Collect(found, Repos, FALSE, "named")
            [] outcome = "unauthorized" -> Failed(req, "global")
            [] outcome = "failed" -> Failed(req, "enumerate"))

\* A name search is enough for an unscoped search of the default branches.
AfterNames ==
    LET enough == IF ask.named THEN req.cand # {} ELSE ~ask.ref IN
    /\ req.pc = "named"
    /\ To([req EXCEPT !.pc = IF enough THEN "global" ELSE "enumerate"])

\* enumerateProjects, once per scan, for its names or (codeFallback) for their code:
\* only the projects that could be listed contribute.
EnumerateProjects(code, listed, next) ==
    LET every == code \/ ask.ref \/ ask.named IN
    To(IF req.listed # None THEN [req EXCEPT !.pc = next]
       ELSE [Collect(listed \cap (IF every THEN Repos ELSE world.matches),
                     IF ask.named THEN Repos ELSE world.matches, FALSE, next)
               EXCEPT !.listed = listed, !.failed = @ \/ listed # Repos])

Enumerate(listed) == req.pc = "enumerate" /\ EnumerateProjects(FALSE, listed, "global")

-----------------------------------------------------------------------------
(* searchCode.                                                             *)

\* The instance-wide code search, which knows no refs; whatever comes of it the
\* repositories found so far are searched too.
SearchGlobal(outcome) ==
    /\ req.pc = "global"
    /\ To(CASE ask.ref -> [req EXCEPT !.pc = "scan"]
            [] ~ask.ref /\ outcome = "ok" -> Collect(world.contains, Repos, TRUE, "scan")
            [] ~ask.ref /\ outcome = "unsupported" -> [req EXCEPT !.pc = "code", !.unsupported = TRUE]
            [] ~ask.ref /\ outcome = "failed" -> Failed(req, "scan"))

CodeFallback(listed) == req.pc = "code" /\ EnumerateProjects(TRUE, listed, "scan")

\* One query per candidate; Bitbucket indexes no ref but the default one.
ScanCandidates(bad, refUnsupported) ==
    /\ req.pc = "scan" /\ bad \subseteq req.cand
    /\ LET searched == IF refUnsupported /\ ask.ref THEN {} ELSE req.cand \ bad IN
       To([req EXCEPT !.pc = "finish", !.hits = @ \cup (searched \cap world.contains),
                      !.failed = @ \/ bad # {} \/ (refUnsupported /\ ask.ref)])

-----------------------------------------------------------------------------

\* repositoriesCarryingHits: a hit's repository is named with it (if the catalogue
\* has it; here it may).
Finish ==
    /\ req.pc = "finish"
    /\ To([req EXCEPT !.pc = "done", !.repos = @ \cup req.hits])

\* The source grants and withdraws permissions while the search runs.
ChangePermission(r) ==
    /\ granted' = IF r \in granted THEN granted \ {r} ELSE granted \cup {r}
    /\ UNCHANGED <<world, ask, req>>

Outcomes == {"ok", "failed", "unauthorized"}

Next ==
    \/ \E bad \in SUBSET Repos : Catalogue(bad)
    \/ \E b \in BOOLEAN : IndexedSourceHits(b) \/ Adapter(b)
    \/ \E r \in Repos, answers \in BOOLEAN : Lookup(r, answers)
    \/ Verified \/ AfterNames \/ Finish
    \/ \E outcome \in Outcomes : ScopedProject(outcome) \/ SearchNames(outcome)
    \/ \E outcome \in {"ok", "failed", "unsupported"} : SearchGlobal(outcome)
    \/ \E listed \in SUBSET Repos : Enumerate(listed) \/ CodeFallback(listed)
    \/ \E bad \in SUBSET Repos, b \in BOOLEAN : ScanCandidates(bad, b)
    \/ \E r \in Repos : ChangePermission(r)

Spec == Init /\ [][Next]_vars

-----------------------------------------------------------------------------

\* No name and no snippet of a repository is returned unless the caller may read
\* it by the catalogue's rows, or a lookup of this very search answered that the
\* source lets the caller read it (discoverRemoteCode).
VerifiedOnly == req.hits \cup req.repos \subseteq world.rows \cup req.saw

\* What VerifiedOnly rests on: no repository becomes a candidate either, and none
\* counts as allowed, without such an answer.
VerifiedInv ==
    /\ DOMAIN req = {"pc", "hits", "repos", "failed", "verify", "allowed", "denied", "saw",
                     "cand", "listed", "unsupported"}
    /\ req.allowed \subseteq req.saw
    /\ req.cand \subseteq world.rows \cup req.saw
    /\ VerifiedOnly

\* What enumerateProjects' comment says of a source without instance-wide code
\* search: the readable repositories are enumerated and searched, whatever they are
\* called.  It does not hold after a failed name search, whose own enumeration, by
\* name, uses up the scan's only one.
UnsupportedSearchEnumerates ==
    req.pc = "scan" /\ req.unsupported => req.listed \cap ask.scope \subseteq req.allowed \cup req.denied
=============================================================================
