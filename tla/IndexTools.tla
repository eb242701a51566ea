----------------------------- MODULE IndexTools -----------------------------
(***************************************************************************)
(* The tools that answer out of the index.  Each is a handler (mcp/tools)  *)
(* around one operation of the search service, and each operation is a     *)
(* short series of queries without a transaction around them: between two  *)
(* of them an index run publishes, a permission is withdrawn, a repository *)
(* is disabled, or the source goes down.  The caller is a user, perhaps    *)
(* through an API key that allows fewer repositories than the user has.    *)
(*                                                                         *)
(* An operation is given by its plan, the queries in their order; a step   *)
(* of the model is one query.                                              *)
(***************************************************************************)
EXTENDS Integers, FiniteSets, Sequences

CONSTANTS
    Repos,
    None,          \* no libraryId given
    MaxEvents      \* bound: publications, changed permissions and outages

Refs == {"main", "next"}

VARIABLES
    visible,       \* enabled repositories whose permission rows name the caller
    allowed,       \* AllowedRepositories of the key, empty without a restriction
    index,         \* the generation of each ref, 0 before its first index run
    defines,       \* repositories whose index has the symbol asked for
    down,          \* the source server cannot be reached
    call,
    could,         \* what was visible at some moment of the call
    events

vars == <<visible, allowed, index, defines, down, call, could, events>>

(***************************************************************************)
(* The operations of the search service.                                   *)
(***************************************************************************)

FindSymbols == <<"symbols">>
FindDependents == <<"symbols">>
SymbolContext == FindSymbols \o <<"pick", "content">>
TraceDependencies == <<"authorize", "content">>
CompareRefs == <<"authorize", "both", "content", "head">>
ChangeImpact == CompareRefs \o TraceDependencies
RepositoryMap == <<"authorize", "map", "content", "content">>
ExplainSearch == <<"authorize", "content">>
FindRunbooks == <<"files", "more">>
FindFiles == <<"files", "trees">>
SearchRepositories == <<"repositories">>
SearchChangeRequests == <<"repositories", "requests">>
ArchitectureOverview == <<"files">>
FindDependencyUsage == <<"symbols", "owners", "freshness">>
FindTests == <<"scope", "references", "tests", "trees">>
AssessChange == CompareRefs \o <<"changes", "consumers", "ages">>
RepositoryHealthReport == <<"authorize", "content", "content", "content", "ages">>
ListDirectory == <<"files", "one">>
ReadFile == <<"files", "one", "body">>
FileHistory == <<"files", "one", "live">>
FindOwners == <<"files", "resolve", "declared">> \o FileHistory
ContextPackFor == <<"pack", "conventions", "entrypoints", "libraries">>
BuildChangeContext == <<"symbols", "target", "dependents", "authorize", "content", "tests", "live">>

\* The last query of ContextPackFor and BuildChangeContext, for the ages of the
\* libraries the answer names, names no other and is left out.

\* A tool: when its handler looks at the libraryId ("none" has no such argument),
\* the operation, and what the handler does with the answer.
Tool(check, plan, filter) == [check |-> check, plan |-> plan, filter |-> filter]

Tools ==
    {Tool("given", FindSymbols, "rows"), Tool("given", FindRunbooks, "rows"),
     Tool("given", BuildChangeContext, "none"),
     Tool("required", SymbolContext, "none"), Tool("required", TraceDependencies, "none"),
     Tool("required", ChangeImpact, "none"), Tool("required", RepositoryMap, "none"),
     Tool("required", ExplainSearch, "none"), Tool("required", CompareRefs, "none"),
     Tool("required", AssessChange, "none"), Tool("required", RepositoryHealthReport, "none"),
     Tool("given", FindTests, "rows"), Tool("given", FindOwners, "answer"),
     Tool("none", FindDependents, "rows"), Tool("none", FindDependencyUsage, "rows"),
     Tool("none", SearchRepositories, "rows"), Tool("none", ArchitectureOverview, "rows"),
     Tool("never", SearchChangeRequests, "rows"), Tool("never", FindFiles, "rows"),
     Tool("never", ListDirectory, "answer"), Tool("never", ReadFile, "answer"),
     Tool("never", FileHistory, "answer"), Tool("none", ContextPackFor, "none")}

Idle == [tool |-> Tool("never", <<>>, "none"), lib |-> None, plan |-> <<>>, todo |-> {}, rows |-> {}, result |-> "none"]

Init ==
    /\ visible \in SUBSET Repos
    /\ allowed \in {{}} \cup {{r} : r \in Repos}
    /\ \E indexed \in SUBSET Repos :
          /\ index = [r \in Repos |-> [f \in Refs |-> IF f = "main" /\ r \in indexed THEN 1 ELSE 0]]
          /\ defines \in SUBSET indexed
    /\ down = FALSE
    /\ call = Idle
    /\ could = {}
    /\ events = 0

Event == events < MaxEvents /\ events' = events + 1

(***************************************************************************)
(* What happens between two queries.                                       *)
(***************************************************************************)

\* A run publishes the ref in one transaction.
Publish(r, f, symbol) ==
    /\ Event
    /\ index' = [index EXCEPT ![r][f] = @ + 1]
    /\ defines' = CASE f # "main" -> defines [] symbol -> defines \cup {r} [] OTHER -> defines \ {r}
    /\ UNCHANGED <<visible, allowed, down, call, could>>

\* The permissions are synchronised, or the repository is switched.
Expose(seen) ==
    /\ Event
    /\ visible' = seen
    /\ could' = IF call = Idle THEN {} ELSE could \cup seen
    /\ UNCHANGED <<allowed, index, defines, down, call>>

SwitchSource ==
    /\ Event
    /\ down' = ~down
    /\ UNCHANGED <<visible, allowed, index, defines, call, could>>

(***************************************************************************)
(* The handlers.                                                           *)
(***************************************************************************)

\* LibraryAllowed; no library is not in any restricted set.
LibraryAllowed(r) == allowed = {} \/ r \in allowed

\* The check of the libraryId argument before the operation.
Refused(tool, lib) ==
    CASE tool.check = "required" -> ~LibraryAllowed(lib)
      [] tool.check = "given"    -> lib # None /\ ~LibraryAllowed(lib)
      [] OTHER                   -> FALSE

Begin(tool, lib) ==
    /\ call = Idle
    /\ ~Refused(tool, lib)
    /\ call' = [Idle EXCEPT !.tool = tool, !.lib = lib, !.plan = tool.plan]
    /\ could' = visible
    /\ UNCHANGED <<visible, allowed, index, defines, down, events>>

\* The filter over the rows of an answer that spans repositories.  The owners of
\* the affected repositories and the note about their age, which
\* rebuildDependencyVersions leaves as they are, are not rows it goes over.
AllowedRows(rows) == {row \in rows : row.by \in {"owners", "freshness"} \/ LibraryAllowed(row.repo)}

Finish ==
    /\ call # Idle
    /\ call.result = "none"
    /\ call.plan = <<>>
    /\ call' = CASE call.tool.filter = "rows" -> [call EXCEPT !.rows = AllowedRows(@), !.result = "answer"]
                 [] call.tool.filter = "answer" /\ ~LibraryAllowed(call.lib) -> [call EXCEPT !.rows = {}, !.result = "error"]
                 [] OTHER -> [call EXCEPT !.result = "answer"]
    /\ UNCHANGED <<visible, allowed, index, defines, down, could, events>>

Return ==
    /\ call.result # "none"
    /\ call' = Idle
    /\ could' = {}
    /\ UNCHANGED <<visible, allowed, index, defines, down, events>>

(***************************************************************************)
(* The queries.                                                            *)
(***************************************************************************)

Row(r, f) == [repo |-> r, ref |-> f, at |-> index[r][f], by |-> Head(call.plan)]

\* Every query that names no repository joins repository_permissions; the scope
\* narrows it to the library given (repositoryACL).
RepositoryACL == {r \in visible : call.lib \in {None, r}}

\* The rows a table has for a ref.
Table(r, f) == IF index[r][f] = 0 THEN {} ELSE {Row(r, f)}

Symbols == UNION {Table(r, "main") : r \in RepositoryACL \cap defines}
Files == UNION {Table(r, "main") : r \in RepositoryACL}

Ready(step) == call.plan # <<>> /\ call.result = "none" /\ Head(call.plan) = step
Goes(rows) == call' = [call EXCEPT !.plan = Tail(@), !.rows = rows]
Errs == call' = [call EXCEPT !.rows = {}, !.result = "error"]
Still == UNCHANGED <<visible, allowed, index, defines, down, could, events>>

\* The owners declared in a repository, which FindOwners keeps apart.
Declared == {row \in call.rows : row.by = "declared"}

\* The libraries the rows come from; most operations go on with the only one.
Libraries == {row.repo : row \in call.rows \ Declared}

\* An operation that cannot go on; FindOwners then answers with what is declared.
GivesUp ==
    IF Declared = {} THEN Errs
    ELSE call' = [call EXCEPT !.plan = <<>>, !.rows = Declared, !.lib = CHOOSE r \in call.todo : TRUE]

SymbolQuery ==
    /\ Ready("symbols")
    /\ Goes(Symbols)
    /\ Still

FileQuery ==
    /\ Ready("files")
    /\ Goes(Declared \cup Files)
    /\ Still

\* SearchRepositories and SearchChangeRequests list repositories, indexed or not.
RepositoryQuery ==
    /\ Ready("repositories")
    /\ Goes({Row(r, "main") : r \in RepositoryACL})
    /\ Still

\* The requests of each repository listed; one that fails is counted and left out.
RequestQuery ==
    /\ Ready("requests")
    /\ Goes(IF down THEN {} ELSE call.rows)
    /\ Still

\* FindRunbooks asks without the full-text index when that found nothing.
MoreQuery ==
    /\ Ready("more")
    /\ Goes(IF call.rows = {} THEN Files ELSE call.rows)
    /\ Still

\* authorizedRepository; BuildChangeContext notes the refusal and goes on.
Authorize ==
    /\ Ready("authorize")
    /\ IF call.lib \in visible THEN Goes(call.rows)
       ELSE IF call.tool.plan = BuildChangeContext THEN call' = [call EXCEPT !.plan = Tail(Tail(@))]
       ELSE Errs
    /\ Still

\* One table of the repository and ref found before; nothing asks for permission.
Content ==
    /\ Ready("content")
    /\ Goes(call.rows \cup Table(call.lib, "main"))
    /\ Still

HeadRef ==
    /\ Ready("head")
    /\ Goes(call.rows \cup Table(call.lib, "next"))
    /\ Still

\* Both refs have to be indexed, and the map has to be there.
Required ==
    /\ Ready("both") \/ Ready("map")
    /\ LET needed == IF Head(call.plan) = "both" THEN Refs ELSE {"main"}
       IN  IF \A f \in needed : index[call.lib][f] > 0 THEN Goes(call.rows) ELSE Errs
    /\ Still

\* SymbolContext takes the best of the symbols found and goes on with its library.
PickSymbol ==
    /\ Ready("pick")
    /\ IF call.rows = {} THEN Errs
       ELSE \E row \in call.rows : call' = [call EXCEPT !.plan = Tail(@), !.rows = {row}, !.lib = row.repo]
    /\ Still

\* ReadFile, ListDirectory and resolveRepositoryPath ask rather than guess.
OneRepository ==
    /\ Ready("one")
    /\ IF Cardinality(Libraries) # 1 THEN GivesUp
       ELSE call' = [call EXCEPT !.plan = Tail(@), !.lib = CHOOSE r \in Libraries : TRUE]
    /\ Still

\* fileBody: the file as the source has it, or out of the index, unless the index
\* policy left its content out.
ReadBody ==
    /\ Ready("body")
    /\ IF ~down THEN Goes(call.rows)
       ELSE Goes(call.rows \cup Table(call.lib, "main")) \/ Errs
    /\ Still

\* FileHistory: only the source has it; BuildChangeContext notes the failure.
ReadLive ==
    /\ Ready("live")
    /\ IF down /\ call.tool.plan # BuildChangeContext THEN GivesUp ELSE Goes(call.rows)
    /\ Still

\* remoteFileListings: the trees of readable repositories without a listing.
RemoteTrees ==
    /\ Ready("trees")
    /\ Goes(call.rows \cup (IF down THEN {} ELSE {Row(r, "main") : r \in {q \in RepositoryACL : \A f \in Refs : index[q][f] = 0}}))
    /\ Still

\* IndexAges, and with it the end of a report about one repository.
Ages ==
    /\ Ready("ages")
    /\ Goes(IF call.lib \in visible THEN call.rows \cup Table(call.lib, "main") ELSE call.rows)
    /\ Still

\* FindOwners resolves the path for the declaration, and again in FileHistory.
ResolvePath ==
    /\ Ready("resolve")
    /\ call' = [call EXCEPT !.plan = Tail(@), !.rows = {},
                            !.todo = IF Cardinality(Libraries) = 1 THEN Libraries ELSE {}]
    /\ Still

\* declaredOwners: the repository may have a CODEOWNERS file that covers the path.
DeclaredOwners ==
    /\ Ready("declared")
    /\ Goes({}) \/ Goes(UNION {Table(r, "main") : r \in call.todo})
    /\ Still

\* declaredOwnersFor: once one of the affected repositories has a declaration, the
\* answer lists all of them, read over the rows found before.
AffectedOwners ==
    /\ Ready("owners")
    /\ \/ Goes(call.rows)
       \/ /\ Libraries \cap visible # {}
          /\ Goes(call.rows \cup {[row EXCEPT !.by = "owners"] : row \in call.rows})
    /\ Still

\* FreshnessNote over the index ages of the repositories found: those it names are the
\* ones with an old index.
FreshnessNote ==
    /\ Ready("freshness")
    /\ \E old \in SUBSET (Libraries \cap visible) : Goes(call.rows \cup UNION {Table(r, "main") : r \in old})
    /\ Still

\* testsReferencing: a libraryId that is not authorised does not narrow the query.
TestScope ==
    /\ Ready("scope")
    /\ call' = [call EXCEPT !.plan = Tail(@), !.todo = IF call.lib \in visible THEN {call.lib} ELSE Repos]
    /\ Still

TestsReferencing ==
    /\ Ready("references")
    /\ Goes(UNION {Table(r, "main") : r \in visible \cap call.todo \cap defines})
    /\ Still

\* AssessChange ends early when the refs do not differ.
Changes ==
    /\ Ready("changes")
    /\ Goes(call.rows) \/ call' = [call EXCEPT !.plan = <<>>]
    /\ Still

\* consumerFactor: FindDependents in every other repository of the user.
Consumers ==
    /\ Ready("consumers")
    /\ Goes(call.rows \cup UNION {Table(r, "main") : r \in (visible \cap defines) \ {call.lib}})
    /\ Still

(***************************************************************************)
(* BuildChangeContext.                                                     *)
(***************************************************************************)

\* resolveTarget and what follows it.  One symbol is the target, which the key has
\* to allow; of several the allowed ones are listed.  When none of several is
\* allowed the bundle is built without a target: of the queries only the one for
\* tests finds anything, in every repository.
ResolveTarget ==
    /\ Ready("target")
    /\ \/ call.rows = {} /\ Errs
       \/ /\ Cardinality(Libraries) = 1
          /\ IF AllowedRows(call.rows) = {} THEN Errs
             ELSE call' = [call EXCEPT !.plan = Tail(@), !.lib = CHOOSE r \in Libraries : TRUE]
       \/ /\ call.rows # {}
          /\ call' = IF AllowedRows(call.rows) # {}
                     THEN [call EXCEPT !.rows = AllowedRows(@), !.plan = <<>>]
                     ELSE [call EXCEPT !.rows = {}, !.plan = <<"tests">>]
    /\ Still

\* The callers are looked for in every repository.
Dependents ==
    /\ Ready("dependents")
    /\ Goes(call.rows \cup AllowedRows(UNION {Table(r, "main") : r \in visible}))
    /\ Still

\* gatherTests and testsNearby: FindFiles in the library.
Tests ==
    /\ Ready("tests")
    /\ Goes(call.rows \cup Files)
    /\ Still

(***************************************************************************)
(* ContextPackFor.  The pack names every repository, as an item and with   *)
(* an entrypoint.                                                          *)
(***************************************************************************)

\* Mutant: the key's list is not applied to the pack.
WholePack == Repos

\* restrictPack, before anything is gathered.
RestrictPack == {r \in Repos : LibraryAllowed(r)}

LoadPack ==
    /\ Ready("pack")
    /\ call' = [call EXCEPT !.plan = Tail(@), !.todo = RestrictPack]
    /\ Still

\* One item: gatherConventions, gatherEntrypoints and gatherPackLibraries ask for
\* the permission again for every item, and pass over what they may not read.
PackItem(r) ==
    /\ \E step \in {"conventions", "entrypoints", "libraries"} : Ready(step)
    /\ r \in call.todo
    /\ call' = [call EXCEPT !.todo = @ \ {r},
                            !.rows = IF r \in visible THEN @ \cup Table(r, "main") ELSE @]
    /\ Still

PackSection ==
    /\ \E step \in {"conventions", "entrypoints", "libraries"} : Ready(step)
    /\ call.todo = {}
    /\ IF Tail(call.plan) # <<>> THEN call' = [call EXCEPT !.plan = Tail(@), !.todo = RestrictPack]
       ELSE IF call.rows = {} THEN Errs ELSE Goes(call.rows)
    /\ Still

\* An entrypoint without a library is looked for wherever the user may read.
LooseEntrypoint ==
    /\ Ready("entrypoints")
    /\ call.todo = {}
    /\ Symbols # {}
    /\ \E row \in Symbols : call' = [call EXCEPT !.rows = @ \cup {[row EXCEPT !.by = "loose"]}]
    /\ call' # call
    /\ Still

Next ==
    \/ \E r \in Repos, f \in Refs, symbol \in BOOLEAN : Publish(r, f, symbol)
    \/ \E seen \in SUBSET Repos \ {visible} : Expose(seen)
    \/ SwitchSource
    \/ \E tool \in Tools, lib \in Repos \cup {None} :
          /\ tool.check = "required" /\ tool.plan # SymbolContext => lib # None
          /\ tool.check = "none" => lib = None
          /\ Begin(tool, lib)
    \/ RepositoryQuery \/ RequestQuery \/ Ages \/ ResolvePath \/ DeclaredOwners
    \/ AffectedOwners \/ FreshnessNote
    \/ TestScope \/ TestsReferencing \/ Changes \/ Consumers
    \/ SymbolQuery \/ FileQuery \/ MoreQuery \/ Authorize \/ Content \/ HeadRef \/ Required
    \/ PickSymbol \/ OneRepository \/ ReadBody \/ ReadLive \/ RemoteTrees
    \/ ResolveTarget \/ Dependents \/ Tests
    \/ LoadPack \/ PackSection \/ LooseEntrypoint
    \/ \E r \in Repos : PackItem(r)
    \/ Finish \/ Return

Spec == Init /\ [][Next]_vars

-----------------------------------------------------------------------------
(* Properties *)

Answered == call.result = "answer"

\* Rows the key's restriction is known not to reach: the entrypoints of a pack that
\* name no library (PackHonoursTheKey), the tests of a bundle without a target
\* (BundleHasTarget), the consumers of a change, the owners of an advisory and the
\* repositories with an old index among the users of a package (InventoryIsHidden), and owners declared elsewhere (OwnersOfOneRepository).
OutsideTheKey(row) ==
    \/ row.by \in {"loose", "consumers", "owners", "freshness"}
    \/ row.by = "tests" /\ call.tool.plan = BuildChangeContext /\ call.lib = None
    \/ row.by = "declared" /\ row.repo # call.lib

\* Whatever changes between the queries of a call, its answer holds nothing of a
\* repository the user could not read at some moment of the call, and nothing of
\* one the key does not allow, whichever of the queries it came from
\* (authorizedRepository, repositoryACL, LibraryAllowed, restrictPack).
AnswerIsPermitted ==
    Answered => \A row \in call.rows :
                   row.repo \in could /\ (OutsideTheKey(row) \/ LibraryAllowed(row.repo))

(***************************************************************************)
(* What AnswerIsPermitted rests on.  The plan of a call keeps the order a  *)
(* permission needs: nothing is read of a library before something found   *)
(* out that the user may read it, and what a tool shows without a filter   *)
(* comes from queries that the check of its libraryId covers.              *)
(***************************************************************************)
Steps == {"symbols", "pick", "content", "authorize", "both", "head", "map", "changes", "consumers", "ages",
          "files", "more", "trees", "one", "body", "live", "resolve", "declared", "owners", "freshness",
          "repositories", "requests", "scope", "references", "tests", "target", "dependents",
          "pack", "conventions", "entrypoints", "libraries"}

After(plan, steps, first) ==
    \A i \in 1..Len(plan) : plan[i] \in steps => \E j \in 1..(i - 1) : plan[j] \in first
Only(plan, steps) == \A i \in 1..Len(plan) : plan[i] \in steps
Ahead(plan, step) == \E i \in 1..Len(plan) : plan[i] = step

Finds == {"authorize", "pick", "one"}
Reads == {"content", "head", "body"}

\* Of the file tools: only the one repository is read after it was found.
AnswerPlan(plan) ==
    /\ Only(plan, {"files", "resolve", "declared", "one", "body", "live"})
    /\ \A i \in 1..Len(plan) :
          plan[i] \in {"files", "resolve", "declared"} => \E j \in (i + 1)..Len(plan) : plan[j] = "one"

\* Of the tools whose libraryId is checked first: a symbol is picked right after the symbols.
RequiredPlan(plan) ==
    /\ Only(plan, {"symbols", "pick", "content", "authorize", "both", "head", "map",
                   "changes", "consumers", "ages"})
    /\ \A i \in 1..Len(plan) : plan[i] = "pick" => \A j \in 1..(i - 1) : plan[j] = "symbols"

PackSteps == {"pack", "conventions", "entrypoints", "libraries"}

\* Of BuildChangeContext: the target comes right after the symbols, and its content
\* right after the authorization.
BundlePlan(plan) ==
    /\ Only(plan, {"symbols", "target", "dependents", "authorize", "content", "tests", "live"})
    /\ \A i \in 1..Len(plan) :
          /\ plan[i] = "symbols" => \E j \in (i + 1)..Len(plan) : plan[j] = "target"
          /\ plan[i] = "target" => \A j \in 1..(i - 1) : plan[j] = "symbols"
          /\ plan[i] = "authorize" => i < Len(plan) /\ plan[i + 1] = "content"
          /\ plan[i] = "content" => \A j \in 1..Len(plan) : plan[j] = "content" => i = j

Unfiltered(tool, check) == tool.filter = "none" /\ tool.check = check

PlanFits(tool, plan) ==
    /\ plan \in Seq(Steps)
    /\ IF tool.filter = "answer" THEN AnswerPlan(plan) ELSE ~Ahead(plan, "declared")
    /\ Unfiltered(tool, "required") => RequiredPlan(plan)
    /\ Unfiltered(tool, "given") => BundlePlan(plan)
    /\ Unfiltered(tool, "none") => Only(plan, PackSteps)

CallTypes ==
    /\ visible \subseteq Repos /\ allowed \subseteq Repos /\ could \subseteq Repos
    /\ DOMAIN call = DOMAIN Idle /\ call.result \in {"none", "answer", "error"}
    /\ PlanFits(call.tool, call.plan)
    /\ call # Idle => call.tool \in Tools /\ visible \subseteq could

\* What the caller could read.
RowsWereVisible ==
    \A row \in call.rows : DOMAIN row = {"repo", "ref", "at", "by"} /\ row.repo \in could
LibraryIsFound == call.lib \in could \/ After(call.plan, Reads, Finds)
DeclarersAreFound ==
    call.tool.filter = "answer" => call.todo \subseteq could \/ After(call.plan, {"declared"}, {"resolve"})

\* What the key allows.
RowsAreOfTheFile ==
    call.tool.filter = "answer" /\ ~Ahead(call.plan, "one") =>
        \A row \in call.rows : row.by = "declared" \/ row.repo = call.lib
RowsAreOfTheLibrary ==
    Unfiltered(call.tool, "required") =>
        /\ LibraryAllowed(call.lib)
        /\ \A row \in call.rows :
              LibraryAllowed(row.repo) \/ (row.by = "consumers" /\ ~Ahead(call.plan, "pick"))
RowsAreOfTheTarget ==
    Unfiltered(call.tool, "given") =>
        /\ call.lib = None \/ LibraryAllowed(call.lib)
        /\ IF Ahead(call.plan, "target") THEN \A row \in call.rows : row.by = "symbols"
           ELSE \A row \in call.rows : LibraryAllowed(row.repo) \/ (row.by = "tests" /\ call.lib = None)
RowsAreOfThePack ==
    Unfiltered(call.tool, "none") =>
        /\ \A r \in call.todo : LibraryAllowed(r)
        /\ \A row \in call.rows : row.by = "loose" \/ LibraryAllowed(row.repo)

PermittedInv ==
    /\ CallTypes /\ RowsWereVisible /\ LibraryIsFound /\ DeclarersAreFound
    /\ call.result = "none" =>
          RowsAreOfTheFile /\ RowsAreOfTheLibrary /\ RowsAreOfTheTarget /\ RowsAreOfThePack
    /\ AnswerIsPermitted

\* ContextPackFor: "a key restricted to one repository would otherwise receive
\* the contents of every other repository in the pack that its user can read".
PackHonoursTheKey ==
    Answered /\ call.tool.plan = ContextPackFor => \A row \in call.rows : LibraryAllowed(row.repo)

\* resolveTarget: a bundle is built around a symbol that was found, never around
\* none: "a bundle built around a guess would describe the wrong blast radius".
BundleHasTarget ==
    Answered /\ call.tool.plan = BuildChangeContext => \E row \in call.rows : row.by = "symbols"

\* handleFindDependencyUsage: "A key restricted to certain repositories must not
\* learn the inventory of the others".
InventoryIsHidden ==
    Answered /\ call.tool.plan \in {FindDependencyUsage, AssessChange} =>
        \A row \in call.rows : LibraryAllowed(row.repo)

\* FindOwners: the declared owners and the history are of the repository named.
OwnersOfOneRepository ==
    Answered /\ call.tool.plan = FindOwners => \A row \in call.rows : row.repo = call.lib

\* testsReferencing: "Resolving through authorizedRepository keeps the scope check
\* on the same path every other tool uses": the answer is about the library given.
TestsKeepTheScope ==
    Answered /\ call.tool.plan = FindTests /\ call.lib # None =>
        \A row \in call.rows : row.repo = call.lib

\* The symbol and the content shown for it are of one commit.
OneGeneration ==
    Answered => \A one, other \in call.rows :
                   one.repo = other.repo /\ one.ref = other.ref => one.at = other.at
=============================================================================
