---------------------------- MODULE MCAnswering -----------------------------
(***************************************************************************)
(* What answers an agent, for TLC: the queries (Retrieval, CodeSearch,     *)
(* IndexTools), and the tool call and the session around them (McpCall,    *)
(* McpSession).  As modelled they share no state, so a behaviour is one of *)
(* one of them, and the state space is their sum, not their product: the   *)
(* component that runs uses the variables of IndexTools as its own, and    *)
(* leaves blank those it has no use for.                                   *)
(***************************************************************************)
EXTENDS IndexTools

CONSTANTS MaxGen, MaxModel,                                       \* Retrieval
          MaxConf, Timeout, Seconds, MaxEntries, Credentials,     \* McpCall
          Replicas, Life, Every, MaxMade                          \* McpSession

\* What the proofs assume of them.  A session lives 30 minutes and a stream renews it
\* every 15 seconds; None is no value of any state.
ASSUME AnsweringAssumption ==
    /\ Life \in Nat /\ Every \in Nat /\ Every < Life
    /\ Timeout \in Nat /\ Seconds \in Nat
    /\ IsFiniteSet(Repos)
    /\ None \notin Repos \cup Replicas \cup Nat \cup {"ref", "denied"}
    /\ None \notin [left : Nat, done : Nat] \cup [gen : Nat, conf : Nat, age : Nat]

VARIABLE part     \* which component runs

Q == INSTANCE Retrieval WITH cfg <- visible, model <- allowed, idx <- index, os <- defines,
                             vec <- down, readable <- call, req <- could
C == INSTANCE CodeSearch WITH world <- visible, granted <- allowed, ask <- index, req <- defines
T == INSTANCE McpCall WITH granted <- visible, gen <- allowed, stamp <- index, conf <- defines,
                           cache <- down
S == INSTANCE McpSession WITH row <- visible, entry <- allowed, made <- index,
                              closed <- defines, closing <- down, stream <- call

AnsweringInit ==
    \/ part = "tools" /\ Init
    \/ part = "retrieval" /\ Q!Init /\ events = None
    \/ part = "codesearch" /\ C!Init /\ down = None /\ call = None /\ could = None /\ events = None
    \/ part = "toolcall" /\ T!Init /\ could = None /\ events = None
    \/ part = "session" /\ S!Init /\ could = None /\ events = None

AnsweringNext ==
    \/ part = "tools" /\ Next /\ UNCHANGED part
    \/ part = "retrieval" /\ Q!Next /\ UNCHANGED <<part, events>>
    \/ part = "codesearch" /\ C!Next /\ UNCHANGED <<part, down, call, could, events>>
    \/ part = "toolcall" /\ T!Next /\ UNCHANGED <<part, could, events>>
    \/ part = "session" /\ S!Next /\ UNCHANGED <<part, could, events>>

AnsweringSpec == AnsweringInit /\ [][AnsweringNext]_<<part, vars>>

-----------------------------------------------------------------------------
(* Properties *)

\* An answer says what it lacks: none without the embeddings that were required, no empty
\* one that hides what could not be asked, no score across two embedding spaces
\* (Retrieval: Query, SemanticSearch).
AnswerIsHonest == part = "retrieval" => Q!EmbeddingContract /\ Q!NoMisleadingEmpty /\ Q!SameVectorSpace

\* Discovery names no repository it has not verified for this caller (CodeSearch:
\* discoverRemoteCode, remoteScan).
VerifiedOnly == part = "codesearch" => C!VerifiedOnly

\* An answer from the cache fits what was indexed before the call, and outlives the
\* permission it was made under by its time to live at most (McpCall: cacheKey, cached).
CachedAnswerIsGood == part = "toolcall" => T!CachedAnswerIsCurrent /\ T!StalePermissionIsBounded

\* No sweep on any replica ends a stream whose session is alive (McpSession: newSession).
LiveStreamIsNotCut == part = "session" => S!LiveStreamIsNotCut

\* Whatever interleaves with a tool that reads the index in several queries, it shows what
\* the caller could read at some moment of the call, and the key allows (IndexTools).
ToolAnswerIsPermitted == part = "tools" => AnswerIsPermitted
=============================================================================
