--------------------------- MODULE AnsweringProofs ---------------------------
(***************************************************************************)
(* Proofs about what answers an agent, for any number of replicas,         *)
(* credentials and repositories and any durations with Every < Life.       *)
(*                                                                         *)
(* One section per component: what its invariant says initially, and that  *)
(* its steps keep it.  The invariants are stated in the components.  The   *)
(* last section puts the components together, as MCAnswering does.         *)
(***************************************************************************)
EXTENDS MCAnswering, FiniteSetTheorems, TLAPS

-----------------------------------------------------------------------------
(* McpSession. *)

LEMMA SessionInit == S!Init => S!SessionInv
<1> SUFFICES ASSUME S!Init PROVE S!SessionInv
    OBVIOUS
<1> USE AnsweringAssumption DEF S!Init, S!NoStream
<1>1. S!SessionTypes
    BY DEF S!SessionTypes
<1>2. S!ChannelsAreOwned
    BY DEF S!ChannelsAreOwned
<1>3. S!OpeningIsFresh /\ S!StreamsAreHeld
    BY DEF S!OpeningIsFresh, S!StreamsAreHeld
<1> QED BY <1>1, <1>2, <1>3 DEF S!SessionInv
LEMMA SessionStep == S!SessionInv /\ [S!Next]_(S!vars) => S!SessionInv'
<1> SUFFICES ASSUME S!SessionInv, [S!Next]_(S!vars) PROVE S!SessionInv'
    OBVIOUS
<1>0. S!SessionTypes /\ S!ChannelsAreOwned /\ S!OpeningIsFresh /\ S!StreamsAreHeld /\ (down = None \/ visible = None)
    BY DEF S!SessionInv
<1> USE AnsweringAssumption DEF S!NoStream
<1>1. ASSUME NEW r \in Replicas, S!Post(r) PROVE S!SessionInv'
    <2>1. S!SessionTypes'
        BY <1>0, <1>1 DEF S!SessionTypes, S!Post, S!RenewEntry, S!RowIsValid
    <2>2. S!ChannelsAreOwned'
        BY <1>0, <1>1
           DEF S!SessionTypes, S!ChannelsAreOwned, S!OpeningIsFresh, S!StreamsAreHeld,
               S!StreamHasItsEntry, S!Post, S!RenewEntry, S!RowIsValid
    <2>3. S!OpeningIsFresh'
        BY <1>0, <1>1 DEF S!SessionTypes, S!OpeningIsFresh, S!Post, S!RenewEntry, S!RowIsValid
    <2>4. S!StreamsAreHeld'
        BY <1>0, <1>1
           DEF S!SessionTypes, S!ChannelsAreOwned, S!OpeningIsFresh, S!StreamsAreHeld,
               S!StreamHasItsEntry, S!Post, S!RenewEntry, S!RowIsValid
    <2>5. (down = None \/ visible = None)'
        BY <1>0, <1>1 DEF S!Post, S!RenewEntry, S!RowIsValid
    <2> QED BY <2>1, <2>2, <2>3, <2>4, <2>5 DEF S!SessionInv
<1>2. ASSUME NEW r \in Replicas, S!OpenStream(r) PROVE S!SessionInv'
    <2>1. S!SessionTypes'
        BY <1>0, <1>2 DEF S!SessionTypes, S!OpenStream, S!RowIsValid
    <2>2. S!ChannelsAreOwned'
        BY <1>0, <1>2
           DEF S!SessionTypes, S!ChannelsAreOwned, S!OpeningIsFresh, S!StreamsAreHeld,
               S!StreamHasItsEntry, S!OpenStream, S!RowIsValid
    <2>3. S!OpeningIsFresh'
        BY <1>0, <1>2 DEF S!SessionTypes, S!OpeningIsFresh, S!OpenStream, S!RowIsValid
    <2>4. S!StreamsAreHeld'
        BY <1>0, <1>2
           DEF S!SessionTypes, S!ChannelsAreOwned, S!OpeningIsFresh, S!StreamsAreHeld,
               S!StreamHasItsEntry, S!OpenStream, S!RowIsValid
    <2>5. (down = None \/ visible = None)'
        BY <1>0, <1>2 DEF S!OpenStream, S!RowIsValid
    <2> QED BY <2>1, <2>2, <2>3, <2>4, <2>5 DEF S!SessionInv
<1>3. ASSUME NEW r \in Replicas, S!Keepalive(r) PROVE S!SessionInv'
    <2>1. S!SessionTypes'
        BY <1>0, <1>3 DEF S!SessionTypes, S!Keepalive, S!RowIsValid
    <2>2. S!ChannelsAreOwned'
        BY <1>0, <1>3
           DEF S!SessionTypes, S!ChannelsAreOwned, S!OpeningIsFresh, S!StreamsAreHeld,
               S!StreamHasItsEntry, S!Keepalive, S!RowIsValid
    <2>3. S!OpeningIsFresh'
        BY <1>0, <1>3 DEF S!SessionTypes, S!OpeningIsFresh, S!Keepalive, S!RowIsValid
    <2>4. S!StreamsAreHeld'
        BY <1>0, <1>3
           DEF S!SessionTypes, S!ChannelsAreOwned, S!OpeningIsFresh, S!StreamsAreHeld,
               S!StreamHasItsEntry, S!Keepalive, S!RowIsValid
    <2>5. (down = None \/ visible = None)'
        BY <1>0, <1>3 DEF S!Keepalive, S!RowIsValid
    <2> QED BY <2>1, <2>2, <2>3, <2>4, <2>5 DEF S!SessionInv
<1>4. ASSUME NEW r \in Replicas, S!Renew(r) PROVE S!SessionInv'
    <2>1. S!SessionTypes'
        BY <1>0, <1>4 DEF S!SessionTypes, S!Renew, S!RenewEntry
    <2>2. S!ChannelsAreOwned'
        BY <1>0, <1>4
           DEF S!SessionTypes, S!ChannelsAreOwned, S!OpeningIsFresh, S!StreamsAreHeld,
               S!StreamHasItsEntry, S!Renew, S!RenewEntry
    <2>3. S!OpeningIsFresh'
        BY <1>0, <1>4 DEF S!SessionTypes, S!OpeningIsFresh, S!Renew, S!RenewEntry
    <2>4. S!StreamsAreHeld'
        BY <1>0, <1>4
           DEF S!SessionTypes, S!ChannelsAreOwned, S!OpeningIsFresh, S!StreamsAreHeld,
               S!StreamHasItsEntry, S!Renew, S!RenewEntry
    <2>5. (down = None \/ visible = None)'
        BY <1>0, <1>4 DEF S!Renew, S!RenewEntry
    <2> QED BY <2>1, <2>2, <2>3, <2>4, <2>5 DEF S!SessionInv
<1>5. ASSUME NEW r \in Replicas, S!Enter(r) PROVE S!SessionInv'
    <2>1. S!SessionTypes'
        BY <1>0, <1>5 DEF S!SessionTypes, S!Enter
    <2>2. S!ChannelsAreOwned'
        BY <1>0, <1>5
           DEF S!SessionTypes, S!ChannelsAreOwned, S!OpeningIsFresh, S!StreamsAreHeld,
               S!StreamHasItsEntry, S!Enter
    <2>3. S!OpeningIsFresh'
        BY <1>0, <1>5 DEF S!SessionTypes, S!OpeningIsFresh, S!Enter
    <2>4. S!StreamsAreHeld'
        BY <1>0, <1>5
           DEF S!SessionTypes, S!ChannelsAreOwned, S!OpeningIsFresh, S!StreamsAreHeld,
               S!StreamHasItsEntry, S!Enter
    <2>5. (down = None \/ visible = None)'
        BY <1>0, <1>5 DEF S!Enter
    <2> QED BY <2>1, <2>2, <2>3, <2>4, <2>5 DEF S!SessionInv
<1>6. ASSUME NEW r \in Replicas, S!EndStream(r) PROVE S!SessionInv'
    <2>1. S!SessionTypes'
        BY <1>0, <1>6 DEF S!SessionTypes, S!EndStream
    <2>2. S!ChannelsAreOwned'
        BY <1>0, <1>6
           DEF S!SessionTypes, S!ChannelsAreOwned, S!OpeningIsFresh, S!StreamsAreHeld,
               S!StreamHasItsEntry, S!EndStream
    <2>3. S!OpeningIsFresh'
        BY <1>0, <1>6 DEF S!SessionTypes, S!OpeningIsFresh, S!EndStream
    <2>4. S!StreamsAreHeld'
        BY <1>0, <1>6
           DEF S!SessionTypes, S!ChannelsAreOwned, S!OpeningIsFresh, S!StreamsAreHeld,
               S!StreamHasItsEntry, S!EndStream
    <2>5. (down = None \/ visible = None)'
        BY <1>0, <1>6 DEF S!EndStream
    <2> QED BY <2>1, <2>2, <2>3, <2>4, <2>5 DEF S!SessionInv
<1>7. ASSUME NEW r \in Replicas, S!CloseRow(r) PROVE S!SessionInv'
    <2>1. S!SessionTypes'
        BY <1>0, <1>7 DEF S!SessionTypes, S!CloseRow, S!RowIsValid
    <2>2. S!ChannelsAreOwned'
        BY <1>0, <1>7
           DEF S!SessionTypes, S!ChannelsAreOwned, S!OpeningIsFresh, S!StreamsAreHeld,
               S!StreamHasItsEntry, S!CloseRow, S!RowIsValid
    <2>3. S!OpeningIsFresh'
        BY <1>0, <1>7 DEF S!SessionTypes, S!OpeningIsFresh, S!CloseRow, S!RowIsValid
    <2>4. S!StreamsAreHeld'
        BY <1>0, <1>7
           DEF S!SessionTypes, S!ChannelsAreOwned, S!OpeningIsFresh, S!StreamsAreHeld,
               S!StreamHasItsEntry, S!CloseRow, S!RowIsValid
    <2>5. (down = None \/ visible = None)'
        BY <1>0, <1>7 DEF S!CloseRow, S!RowIsValid
    <2> QED BY <2>1, <2>2, <2>3, <2>4, <2>5 DEF S!SessionInv
<1>8. ASSUME NEW r \in Replicas, S!CloseEntry(r) PROVE S!SessionInv'
    <2>1. S!SessionTypes'
        <3>1. CASE allowed[r] = None
            BY <1>0, <1>8, <3>1 DEF S!SessionTypes, S!CloseEntry
        <3>2. CASE allowed[r] # None
            <4>1. S!Drop(r)
                BY <1>8, <3>2 DEF S!CloseEntry
            <4> QED BY <1>0, <3>2, <4>1 DEF S!SessionTypes, S!Drop
        <3> QED BY <3>1, <3>2
    <2>2. S!ChannelsAreOwned'
        BY <1>0, <1>8
           DEF S!SessionTypes, S!ChannelsAreOwned, S!OpeningIsFresh, S!StreamsAreHeld,
               S!StreamHasItsEntry, S!CloseEntry, S!Drop
    <2>3. S!OpeningIsFresh'
        BY <1>0, <1>8 DEF S!SessionTypes, S!OpeningIsFresh, S!CloseEntry, S!Drop
    <2>4. S!StreamsAreHeld'
        BY <1>0, <1>8
           DEF S!SessionTypes, S!ChannelsAreOwned, S!OpeningIsFresh, S!StreamsAreHeld,
               S!StreamHasItsEntry, S!CloseEntry, S!Drop
    <2>5. (down = None \/ visible = None)'
        BY <1>0, <1>8 DEF S!CloseEntry, S!Drop
    <2> QED BY <2>1, <2>2, <2>3, <2>4, <2>5 DEF S!SessionInv
<1>9. ASSUME NEW r \in Replicas, S!Sweep(r) PROVE S!SessionInv'
    <2>1. S!SessionTypes'
        BY <1>0, <1>9 DEF S!SessionTypes, S!Sweep, S!Drop
    <2>2. S!ChannelsAreOwned'
        BY <1>0, <1>9
           DEF S!SessionTypes, S!ChannelsAreOwned, S!OpeningIsFresh, S!StreamsAreHeld,
               S!StreamHasItsEntry, S!Sweep, S!Drop
    <2>3. S!OpeningIsFresh'
        BY <1>0, <1>9 DEF S!SessionTypes, S!OpeningIsFresh, S!Sweep, S!Drop
    <2>4. S!StreamsAreHeld'
        BY <1>0, <1>9
           DEF S!SessionTypes, S!ChannelsAreOwned, S!OpeningIsFresh, S!StreamsAreHeld,
               S!StreamHasItsEntry, S!Sweep, S!Drop
    <2>5. (down = None \/ visible = None)'
        BY <1>0, <1>9 DEF S!Sweep, S!Drop
    <2> QED BY <2>1, <2>2, <2>3, <2>4, <2>5 DEF S!SessionInv
<1>10. ASSUME S!Tick PROVE S!SessionInv'
    <2>1. S!SessionTypes'
        BY <1>0, <1>10 DEF S!SessionTypes, S!Tick, S!RowIsValid
    <2>2. S!ChannelsAreOwned'
        BY <1>0, <1>10
           DEF S!SessionTypes, S!ChannelsAreOwned, S!OpeningIsFresh, S!StreamsAreHeld,
               S!StreamHasItsEntry, S!Tick, S!RowIsValid
    <2>3. S!OpeningIsFresh'
        BY <1>0, <1>10 DEF S!SessionTypes, S!OpeningIsFresh, S!Tick, S!RowIsValid
    <2>4. S!StreamsAreHeld'
        BY <1>0, <1>10
           DEF S!SessionTypes, S!ChannelsAreOwned, S!OpeningIsFresh, S!StreamsAreHeld,
               S!StreamHasItsEntry, S!Tick, S!RowIsValid
    <2>5. (down = None \/ visible = None)'
        BY <1>0, <1>10 DEF S!Tick, S!RowIsValid
    <2> QED BY <2>1, <2>2, <2>3, <2>4, <2>5 DEF S!SessionInv
<1>11. CASE UNCHANGED S!vars
    BY <1>0, <1>11
       DEF S!vars, S!SessionInv, S!SessionTypes, S!ChannelsAreOwned, S!OpeningIsFresh,
           S!StreamsAreHeld, S!StreamHasItsEntry
<1> QED BY <1>1, <1>2, <1>3, <1>4, <1>5, <1>6, <1>7, <1>8, <1>9, <1>10, <1>11 DEF S!Next

-----------------------------------------------------------------------------
(* CodeSearch. *)

LEMMA SearchInit == C!Init => C!VerifiedInv
    BY DEF C!Init, C!VerifiedInv, C!VerifiedOnly

LEMMA SearchStep == C!VerifiedInv /\ [C!Next]_(C!vars) => C!VerifiedInv'
<1> SUFFICES ASSUME C!VerifiedInv, [C!Next]_(C!vars) PROVE C!VerifiedInv'
    OBVIOUS
<1> USE DEF C!VerifiedInv, C!VerifiedOnly
<1>1. ASSUME NEW bad \in SUBSET Repos, C!Catalogue(bad) PROVE C!VerifiedInv'
    BY <1>1 DEF C!Catalogue, C!To
<1>2. ASSUME NEW b \in BOOLEAN, C!IndexedSourceHits(b) PROVE C!VerifiedInv'
    BY <1>2 DEF C!IndexedSourceHits, C!To
<1>3. ASSUME NEW b \in BOOLEAN, C!Adapter(b) PROVE C!VerifiedInv'
    BY <1>3 DEF C!Adapter, C!To
<1>4. ASSUME NEW r \in Repos, NEW answers \in BOOLEAN, C!Lookup(r, answers) PROVE C!VerifiedInv'
    BY <1>4 DEF C!Lookup, C!Decision, C!To
<1>5. ASSUME C!Verified PROVE C!VerifiedInv'
    BY <1>5 DEF C!Verified, C!To
<1>6. ASSUME C!AfterNames PROVE C!VerifiedInv'
    BY <1>6 DEF C!AfterNames, C!To
<1>7. ASSUME C!Finish PROVE C!VerifiedInv'
    BY <1>7 DEF C!Finish, C!To
<1>8. ASSUME NEW outcome \in C!Outcomes, C!ScopedProject(outcome) PROVE C!VerifiedInv'
    BY <1>8 DEF C!Outcomes, C!ScopedProject, C!Collect, C!Failed, C!To
<1>9. ASSUME NEW outcome \in C!Outcomes, C!SearchNames(outcome) PROVE C!VerifiedInv'
    BY <1>9 DEF C!Outcomes, C!SearchNames, C!Collect, C!Failed, C!To
<1>10. ASSUME NEW outcome \in {"ok", "failed", "unsupported"}, C!SearchGlobal(outcome) PROVE C!VerifiedInv'
    BY <1>10 DEF C!SearchGlobal, C!Collect, C!Failed, C!To
<1>11. ASSUME NEW listed \in SUBSET Repos, C!Enumerate(listed) PROVE C!VerifiedInv'
    BY <1>11 DEF C!Enumerate, C!EnumerateProjects, C!Collect, C!To
<1>12. ASSUME NEW listed \in SUBSET Repos, C!CodeFallback(listed) PROVE C!VerifiedInv'
    BY <1>12 DEF C!CodeFallback, C!EnumerateProjects, C!Collect, C!To
<1>13. ASSUME NEW bad \in SUBSET Repos, NEW b \in BOOLEAN, C!ScanCandidates(bad, b) PROVE C!VerifiedInv'
    BY <1>13 DEF C!ScanCandidates, C!To
<1>14. ASSUME NEW r \in Repos, C!ChangePermission(r) PROVE C!VerifiedInv'
    BY <1>14 DEF C!ChangePermission
<1>15. ASSUME UNCHANGED C!vars PROVE C!VerifiedInv'
    BY <1>15 DEF C!vars
<1> QED BY <1>1, <1>2, <1>3, <1>4, <1>5, <1>6, <1>7, <1>8, <1>9, <1>10, <1>11, <1>12, <1>13, <1>14,
           <1>15 DEF C!Next
-----------------------------------------------------------------------------
(* Retrieval. *)

LEMMA RetrievalInit == Q!Init => Q!RetrievalInv
<1> SUFFICES ASSUME Q!Init PROVE Q!RetrievalInv
    OBVIOUS
<1> USE AnsweringAssumption DEF Q!Init, Q!NoReq
<1>1. Q!RequestTypes
    <2>1. could = Q!NoReq /\ allowed = 1
        OBVIOUS
    <2>2. DOMAIN could = DOMAIN Q!NoReq /\ could.vectors = FALSE /\ could.changed = FALSE
        BY <2>1
    <2>3. could.pc = "none" /\ could.from = None
        BY <2>1
    <2>4. 1 \in Nat \ {0}
        OBVIOUS
    <2>5. FALSE \in BOOLEAN
        OBVIOUS
    <2> HIDE DEF Q!NoReq, Q!Init
    <2> QED BY <2>2, <2>3, <2>4, <2>5, <2>1 DEF Q!RequestTypes, Q!QuerySteps, Q!SemanticSteps
<1>2. Q!DegradedOpenly /\ Q!OneRevision
    BY DEF Q!DegradedOpenly, Q!OneRevision, Q!Loaded
<1>3. Q!QueryIsEmbedded
    BY DEF Q!QueryIsEmbedded
<1>4. Q!SourceIsRemembered
    BY DEF Q!SourceIsRemembered, Q!Loaded
<1>5. Q!NoMisleadingEmpty /\ Q!SameVectorSpace
    BY DEF Q!NoMisleadingEmpty, Q!SameVectorSpace
<1> QED BY <1>1, <1>2, <1>3, <1>4, <1>5 DEF Q!RetrievalInv

LEMMA RetrievalStep == Q!RetrievalInv /\ [Q!Next]_(Q!vars) => Q!RetrievalInv'
<1> SUFFICES ASSUME Q!RetrievalInv, [Q!Next]_(Q!vars) PROVE Q!RetrievalInv'
    OBVIOUS
<1>0. /\ Q!RequestTypes /\ Q!DegradedOpenly /\ Q!QueryIsEmbedded /\ Q!OneRevision
      /\ Q!SourceIsRemembered /\ Q!NoMisleadingEmpty /\ Q!SameVectorSpace
    BY DEF Q!RetrievalInv
<1> USE AnsweringAssumption DEF Q!NoReq, Q!QuerySteps, Q!SemanticSteps, Q!To, Q!UNCHANGED_WORLD, Q!Done
<1>1. ASSUME NEW kind \in {"query", "semantic"}, NEW unread \in SUBSET Q!Settings, Q!Begin(kind, unread) PROVE Q!RetrievalInv'
    <2>a. Q!Uses(unread) \in BOOLEAN
        BY DEF Q!Uses
    <2>b. ASSUME ~(kind = "query" /\ ~call)
          PROVE  /\ DOMAIN could' = DOMAIN Q!NoReq /\ could'.kind = kind
                 /\ could'.mode = Q!LoadedMode(unread) /\ could'.unread = unread
                 /\ could'.vectors = Q!Uses(unread) /\ could'.from = None /\ could'.changed = FALSE
                 /\ could'.notes = IF kind = "semantic" /\ ~Q!Uses(unread) THEN {"disabled"} ELSE {}
                 /\ could'.pc = IF Q!Uses(unread) THEN "coverage"
                                ELSE IF kind = "query" THEN "first" ELSE "lexical"
                 /\ visible' = visible /\ allowed' = allowed
        BY <1>1, <2>b DEF Q!Begin
    <2>1. Q!RequestTypes'
        <3>1. CASE kind = "query" /\ ~call
            BY <1>0, <1>1, <3>1 DEF Q!RequestTypes, Q!Begin
        <3>2. CASE ~(kind = "query" /\ ~call)
            BY <1>0, <1>1, <3>2, <2>a, <2>b DEF Q!RequestTypes
        <3> QED BY <3>1, <3>2
    <2>2. Q!DegradedOpenly'
        <3>1. CASE kind = "query" /\ ~call
            BY <1>0, <1>1, <3>1 DEF Q!DegradedOpenly, Q!Loaded, Q!Local, Q!RequestTypes, Q!Begin
        <3>2. CASE ~(kind = "query" /\ ~call)
            <4>1. ~Q!Uses(unread) /\ visible.weight => Q!LoadedMode(unread) = "keyword-only"
                BY DEF Q!Uses
            <4>2. visible.mode = "hybrid-required" /\ "search" \notin unread => Q!LoadedMode(unread) = "hybrid-required"
                BY DEF Q!LoadedMode
            <4>3. CASE Q!Uses(unread)
                BY <3>2, <2>b, <4>2, <4>3 DEF Q!DegradedOpenly
            <4>4. CASE ~Q!Uses(unread) /\ kind = "query"
                <5>1. could'.pc = "first"
                    BY <3>2, <2>b, <4>4
                <5> QED BY <3>2, <2>b, <4>1, <4>2, <4>4, <5>1 DEF Q!DegradedOpenly, Q!Local
            <4>5. CASE ~Q!Uses(unread) /\ kind # "query"
                <5>1. could'.notes = {"disabled"}
                    BY <1>1, <3>2, <2>b, <4>5
                <5> QED BY <3>2, <2>b, <4>1, <4>2, <4>5, <5>1 DEF Q!DegradedOpenly, Q!Degraded
            <4> QED BY <2>a, <4>3, <4>4, <4>5
        <3> QED BY <3>1, <3>2
    <2>3. Q!QueryIsEmbedded'
        <3>1. CASE kind = "query" /\ ~call
            BY <1>0, <1>1, <3>1 DEF Q!QueryIsEmbedded, Q!Local, Q!RequestTypes, Q!Begin
        <3>2. CASE ~(kind = "query" /\ ~call)
            BY <1>1, <3>2, <2>a, <2>b DEF Q!QueryIsEmbedded, Q!Local
        <3> QED BY <3>1, <3>2
    <2>4. Q!OneRevision'
        BY <1>0, <1>1 DEF Q!OneRevision, Q!RequestTypes, Q!Loaded, Q!Begin, Q!LoadedMode, Q!Uses
    <2>5. Q!SourceIsRemembered'
        BY <1>0, <1>1
           DEF Q!SourceIsRemembered, Q!RequestTypes, Q!Loaded, Q!Outcomes, Q!Begin, Q!LoadedMode,
               Q!Uses
    <2>6. Q!NoMisleadingEmpty'
        BY <1>0, <1>1
           DEF Q!NoMisleadingEmpty, Q!RequestTypes, Q!SourceIsRemembered, Q!Loaded, Q!Begin,
               Q!LoadedMode, Q!Uses
    <2>7. Q!SameVectorSpace'
        BY <1>0, <1>1
           DEF Q!SameVectorSpace, Q!RequestTypes, Q!OneRevision, Q!QueryIsEmbedded, Q!Loaded,
               Q!Local, Q!Begin, Q!LoadedMode, Q!Uses
    <2> QED BY <2>1, <2>2, <2>3, <2>4, <2>5, <2>6, <2>7 DEF Q!RetrievalInv
<1>2. ASSUME NEW b \in BOOLEAN, Q!Coverage(b) PROVE Q!RetrievalInv'
    <2>1. Q!RequestTypes'
        BY <1>0, <1>2 DEF Q!RequestTypes, Q!Coverage, Q!Degrade
    <2>2. Q!DegradedOpenly'
        BY <1>0, <1>2
           DEF Q!DegradedOpenly, Q!RequestTypes, Q!Loaded, Q!Local, Q!Degraded, Q!Coverage,
               Q!Degrade
    <2>3. Q!QueryIsEmbedded'
        BY <1>0, <1>2 DEF Q!QueryIsEmbedded, Q!RequestTypes, Q!Local, Q!Coverage, Q!Degrade
    <2>4. Q!OneRevision'
        BY <1>0, <1>2 DEF Q!OneRevision, Q!RequestTypes, Q!Loaded, Q!Coverage, Q!Degrade
    <2>5. Q!SourceIsRemembered'
        BY <1>0, <1>2
           DEF Q!SourceIsRemembered, Q!RequestTypes, Q!Loaded, Q!Outcomes, Q!Coverage, Q!Degrade
    <2>6. Q!NoMisleadingEmpty'
        BY <1>0, <1>2
           DEF Q!NoMisleadingEmpty, Q!RequestTypes, Q!SourceIsRemembered, Q!Loaded, Q!Coverage,
               Q!Degrade
    <2>7. Q!SameVectorSpace'
        BY <1>0, <1>2
           DEF Q!SameVectorSpace, Q!RequestTypes, Q!OneRevision, Q!QueryIsEmbedded, Q!Loaded,
               Q!Local, Q!Coverage, Q!Degrade
    <2> QED BY <2>1, <2>2, <2>3, <2>4, <2>5, <2>6, <2>7 DEF Q!RetrievalInv
<1>3. ASSUME NEW b \in BOOLEAN, Q!Embed(b) PROVE Q!RetrievalInv'
    <2>1. Q!RequestTypes'
        BY <1>0, <1>3 DEF Q!RequestTypes, Q!Embed, Q!Degrade
    <2>2. Q!DegradedOpenly'
        <3>1. CASE could.kind = "query" /\ ~could.vectors
            BY <1>0, <1>3, <3>1
               DEF Q!DegradedOpenly, Q!RequestTypes, Q!Loaded, Q!Local, Q!Degraded, Q!Embed
        <3>2. CASE ~(could.kind = "query" /\ ~could.vectors) /\ b
            BY <1>0, <1>3, <3>2
               DEF Q!DegradedOpenly, Q!RequestTypes, Q!Loaded, Q!Local, Q!Degraded, Q!Embed,
                   Q!Degrade
        <3>3. CASE ~(could.kind = "query" /\ ~could.vectors) /\ ~b
            BY <1>0, <1>3, <3>3
               DEF Q!DegradedOpenly, Q!RequestTypes, Q!Loaded, Q!Local, Q!Degraded, Q!Embed,
                   Q!QueryIsEmbedded
        <3> QED BY <3>1, <3>2, <3>3
    <2>3. Q!QueryIsEmbedded'
        BY <1>0, <1>3 DEF Q!QueryIsEmbedded, Q!RequestTypes, Q!Local, Q!Embed, Q!Degrade
    <2>4. Q!OneRevision'
        BY <1>0, <1>3 DEF Q!OneRevision, Q!RequestTypes, Q!Loaded, Q!Embed, Q!Degrade
    <2>5. Q!SourceIsRemembered'
        BY <1>0, <1>3
           DEF Q!SourceIsRemembered, Q!RequestTypes, Q!Loaded, Q!Outcomes, Q!Embed, Q!Degrade
    <2>6. Q!NoMisleadingEmpty'
        BY <1>0, <1>3
           DEF Q!NoMisleadingEmpty, Q!RequestTypes, Q!SourceIsRemembered, Q!Loaded, Q!Embed,
               Q!Degrade
    <2>7. Q!SameVectorSpace'
        BY <1>0, <1>3
           DEF Q!SameVectorSpace, Q!RequestTypes, Q!OneRevision, Q!QueryIsEmbedded, Q!Loaded,
               Q!Local, Q!Embed, Q!Degrade
    <2> QED BY <2>1, <2>2, <2>3, <2>4, <2>5, <2>6, <2>7 DEF Q!RetrievalInv
<1>4. ASSUME NEW b \in BOOLEAN, Q!Keyword(b) PROVE Q!RetrievalInv'
    <2>1. Q!RequestTypes'
        BY <1>0, <1>4 DEF Q!RequestTypes, Q!Keyword
    <2>2. Q!DegradedOpenly'
        BY <1>0, <1>4
           DEF Q!DegradedOpenly, Q!RequestTypes, Q!Loaded, Q!Local, Q!Degraded, Q!Keyword
    <2>3. Q!QueryIsEmbedded'
        BY <1>0, <1>4 DEF Q!QueryIsEmbedded, Q!RequestTypes, Q!Local, Q!Keyword
    <2>4. Q!OneRevision'
        BY <1>0, <1>4 DEF Q!OneRevision, Q!RequestTypes, Q!Loaded, Q!Keyword
    <2>5. Q!SourceIsRemembered'
        BY <1>0, <1>4 DEF Q!SourceIsRemembered, Q!RequestTypes, Q!Loaded, Q!Outcomes, Q!Keyword
    <2>6. Q!NoMisleadingEmpty'
        BY <1>0, <1>4
           DEF Q!NoMisleadingEmpty, Q!RequestTypes, Q!SourceIsRemembered, Q!Loaded, Q!Keyword
    <2>7. Q!SameVectorSpace'
        BY <1>0, <1>4
           DEF Q!SameVectorSpace, Q!RequestTypes, Q!OneRevision, Q!QueryIsEmbedded, Q!Loaded,
               Q!Local, Q!Keyword
    <2> QED BY <2>1, <2>2, <2>3, <2>4, <2>5, <2>6, <2>7 DEF Q!RetrievalInv
<1>5. ASSUME NEW found \in Q!Searches, Q!Vector(found) PROVE Q!RetrievalInv'
    <2>1. Q!RequestTypes'
        BY <1>0, <1>5 DEF Q!RequestTypes, Q!Vector, Q!Nearest, Q!Unread
    <2>2. Q!DegradedOpenly'
        BY <1>0, <1>5
           DEF Q!DegradedOpenly, Q!RequestTypes, Q!Loaded, Q!Local, Q!Degraded, Q!Vector,
               Q!Nearest, Q!Unread
    <2>3. Q!QueryIsEmbedded'
        BY <1>0, <1>5
           DEF Q!QueryIsEmbedded, Q!RequestTypes, Q!Local, Q!Vector, Q!Nearest, Q!Unread
    <2>4. Q!OneRevision'
        BY <1>0, <1>5 DEF Q!OneRevision, Q!RequestTypes, Q!Loaded, Q!Vector, Q!Nearest, Q!Unread
    <2>5. Q!SourceIsRemembered'
        BY <1>0, <1>5
           DEF Q!SourceIsRemembered, Q!RequestTypes, Q!Loaded, Q!Outcomes, Q!Vector, Q!Nearest,
               Q!Unread
    <2>6. Q!NoMisleadingEmpty'
        BY <1>0, <1>5
           DEF Q!NoMisleadingEmpty, Q!RequestTypes, Q!SourceIsRemembered, Q!Loaded, Q!Vector,
               Q!Nearest, Q!Unread
    <2>7. Q!SameVectorSpace'
        BY <1>0, <1>5
           DEF Q!SameVectorSpace, Q!RequestTypes, Q!OneRevision, Q!QueryIsEmbedded, Q!Loaded,
               Q!Local, Q!Vector, Q!Nearest, Q!Unread
    <2> QED BY <2>1, <2>2, <2>3, <2>4, <2>5, <2>6, <2>7 DEF Q!RetrievalInv
<1>6. ASSUME NEW found \in Q!Searches, Q!Ann(found) PROVE Q!RetrievalInv'
    <2>1. Q!RequestTypes'
        BY <1>0, <1>6 DEF Q!RequestTypes, Q!Ann, Q!Nearest, Q!Unread, Q!Near, Q!OfRevision
    <2>2. Q!DegradedOpenly'
        BY <1>0, <1>6
           DEF Q!DegradedOpenly, Q!RequestTypes, Q!Loaded, Q!Local, Q!Degraded, Q!Ann, Q!Nearest,
               Q!Unread, Q!Near, Q!OfRevision
    <2>3. Q!QueryIsEmbedded'
        BY <1>0, <1>6
           DEF Q!QueryIsEmbedded, Q!RequestTypes, Q!Local, Q!Ann, Q!Nearest, Q!Unread, Q!Near,
               Q!OfRevision
    <2>4. Q!OneRevision'
        BY <1>0, <1>6
           DEF Q!OneRevision, Q!RequestTypes, Q!Loaded, Q!Ann, Q!Nearest, Q!Unread, Q!Near,
               Q!OfRevision
    <2>5. Q!SourceIsRemembered'
        BY <1>0, <1>6
           DEF Q!SourceIsRemembered, Q!RequestTypes, Q!Loaded, Q!Outcomes, Q!Ann, Q!Nearest,
               Q!Unread, Q!Near, Q!OfRevision
    <2>6. Q!NoMisleadingEmpty'
        BY <1>0, <1>6
           DEF Q!NoMisleadingEmpty, Q!RequestTypes, Q!SourceIsRemembered, Q!Loaded, Q!Ann,
               Q!Nearest, Q!Unread, Q!Near, Q!OfRevision
    <2>7. Q!SameVectorSpace'
        BY <1>0, <1>6
           DEF Q!SameVectorSpace, Q!RequestTypes, Q!OneRevision, Q!QueryIsEmbedded, Q!Loaded,
               Q!Local, Q!Ann, Q!Nearest, Q!Unread, Q!Near, Q!OfRevision
    <2> QED BY <2>1, <2>2, <2>3, <2>4, <2>5, <2>6, <2>7 DEF Q!RetrievalInv
<1>7. ASSUME NEW out \in Q!Outcomes, Q!First(out) PROVE Q!RetrievalInv'
    <2>1. Q!RequestTypes'
        BY <1>0, <1>7 DEF Q!RequestTypes, Q!First, Q!RemoteDocuments, Q!Asked, Q!Outcomes
    <2>2. Q!DegradedOpenly'
        BY <1>0, <1>7
           DEF Q!DegradedOpenly, Q!RequestTypes, Q!Loaded, Q!Local, Q!Degraded, Q!First,
               Q!RemoteDocuments, Q!Asked, Q!Outcomes
    <2>3. Q!QueryIsEmbedded'
        BY <1>0, <1>7
           DEF Q!QueryIsEmbedded, Q!RequestTypes, Q!Local, Q!First, Q!RemoteDocuments, Q!Asked,
               Q!Outcomes
    <2>4. Q!OneRevision'
        BY <1>0, <1>7
           DEF Q!OneRevision, Q!RequestTypes, Q!Loaded, Q!First, Q!RemoteDocuments, Q!Asked,
               Q!Outcomes
    <2>5. Q!SourceIsRemembered'
        BY <1>0, <1>7
           DEF Q!SourceIsRemembered, Q!RequestTypes, Q!Loaded, Q!Outcomes, Q!First,
               Q!RemoteDocuments, Q!Asked
    <2>6. Q!NoMisleadingEmpty'
        BY <1>0, <1>7
           DEF Q!NoMisleadingEmpty, Q!RequestTypes, Q!SourceIsRemembered, Q!Loaded, Q!First,
               Q!RemoteDocuments, Q!Asked, Q!Outcomes
    <2>7. Q!SameVectorSpace'
        BY <1>0, <1>7
           DEF Q!SameVectorSpace, Q!RequestTypes, Q!OneRevision, Q!QueryIsEmbedded, Q!Loaded,
               Q!Local, Q!First, Q!RemoteDocuments, Q!Asked, Q!Outcomes
    <2> QED BY <2>1, <2>2, <2>3, <2>4, <2>5, <2>6, <2>7 DEF Q!RetrievalInv
<1>8. ASSUME NEW out \in Q!Outcomes, Q!Answer(out) PROVE Q!RetrievalInv'
    <2>1. Q!RequestTypes'
        BY <1>0, <1>8
           DEF Q!RequestTypes, Q!Answer, Q!Kept, Q!VectorScored, Q!Remarks, Q!RemoteDocuments,
               Q!Asked, Q!Outcomes
    <2>2. Q!DegradedOpenly'
        BY <1>0, <1>8
           DEF Q!DegradedOpenly, Q!RequestTypes, Q!Loaded, Q!Local, Q!Degraded, Q!Answer, Q!Kept,
               Q!VectorScored, Q!Remarks, Q!RemoteDocuments, Q!Asked, Q!Outcomes
    <2>3. Q!QueryIsEmbedded'
        BY <1>0, <1>8
           DEF Q!QueryIsEmbedded, Q!RequestTypes, Q!Local, Q!Answer, Q!Kept, Q!VectorScored,
               Q!Remarks, Q!RemoteDocuments, Q!Asked, Q!Outcomes
    <2>4. Q!OneRevision'
        BY <1>0, <1>8
           DEF Q!OneRevision, Q!RequestTypes, Q!Loaded, Q!Answer, Q!Kept, Q!VectorScored,
               Q!Remarks, Q!RemoteDocuments, Q!Asked, Q!Outcomes
    <2>5. Q!SourceIsRemembered'
        BY <1>0, <1>8
           DEF Q!SourceIsRemembered, Q!RequestTypes, Q!Loaded, Q!Outcomes, Q!Answer, Q!Kept,
               Q!VectorScored, Q!Remarks, Q!RemoteDocuments, Q!Asked
    <2>6. Q!NoMisleadingEmpty'
        BY <1>0, <1>8
           DEF Q!NoMisleadingEmpty, Q!RequestTypes, Q!SourceIsRemembered, Q!Loaded, Q!Answer,
               Q!Kept, Q!VectorScored, Q!Remarks, Q!RemoteDocuments, Q!Asked, Q!Outcomes
    <2>7. Q!SameVectorSpace'
        BY <1>0, <1>8
           DEF Q!SameVectorSpace, Q!RequestTypes, Q!OneRevision, Q!QueryIsEmbedded, Q!Loaded,
               Q!Local, Q!Answer, Q!Kept, Q!VectorScored, Q!Remarks, Q!RemoteDocuments, Q!Asked,
               Q!Outcomes
    <2> QED BY <2>1, <2>2, <2>3, <2>4, <2>5, <2>6, <2>7 DEF Q!RetrievalInv
<1>9. ASSUME NEW out \in Q!Outcomes, NEW enough \in BOOLEAN, Q!Lexical(enough, out) PROVE Q!RetrievalInv'
    <2>1. Q!RequestTypes'
        BY <1>0, <1>9 DEF Q!RequestTypes, Q!Lexical, Q!RemoteDocuments, Q!Asked, Q!Outcomes
    <2>2. Q!DegradedOpenly'
        <3>1. could.pc = "lexical" /\ could.from # "denied" /\ ~could.vectors /\ visible' = visible
            BY <1>0, <1>9 DEF Q!RequestTypes, Q!QueryIsEmbedded, Q!Lexical
        <3>2. /\ could.notes \subseteq could'.notes
              /\ could'.mode = could.mode /\ could'.unread = could.unread /\ ~could'.vectors
            BY <1>0, <1>9 DEF Q!RequestTypes, Q!Lexical, Q!RemoteDocuments, Q!Asked
        <3>3. could.pc \in Q!SemanticSteps
            BY <3>1
        <3> QED BY <1>0, <3>1, <3>2, <3>3 DEF Q!DegradedOpenly, Q!Loaded, Q!Degraded
    <2>3. Q!QueryIsEmbedded'
        BY <1>0, <1>9
           DEF Q!QueryIsEmbedded, Q!RequestTypes, Q!Local, Q!Lexical, Q!RemoteDocuments, Q!Asked,
               Q!Outcomes
    <2>4. Q!OneRevision'
        BY <1>0, <1>9
           DEF Q!OneRevision, Q!RequestTypes, Q!Loaded, Q!Lexical, Q!RemoteDocuments, Q!Asked,
               Q!Outcomes
    <2>5. Q!SourceIsRemembered'
        BY <1>0, <1>9
           DEF Q!SourceIsRemembered, Q!RequestTypes, Q!Loaded, Q!Outcomes, Q!Lexical,
               Q!RemoteDocuments, Q!Asked
    <2>6. Q!NoMisleadingEmpty'
        BY <1>0, <1>9
           DEF Q!NoMisleadingEmpty, Q!RequestTypes, Q!SourceIsRemembered, Q!Loaded, Q!Lexical,
               Q!RemoteDocuments, Q!Asked, Q!Outcomes
    <2>7. Q!SameVectorSpace'
        BY <1>0, <1>9
           DEF Q!SameVectorSpace, Q!RequestTypes, Q!OneRevision, Q!QueryIsEmbedded, Q!Loaded,
               Q!Local, Q!Lexical, Q!RemoteDocuments, Q!Asked, Q!Outcomes
    <2> QED BY <2>1, <2>2, <2>3, <2>4, <2>5, <2>6, <2>7 DEF Q!RetrievalInv
<1>10. ASSUME Q!Read PROVE Q!RetrievalInv'
    <2>1. Q!RequestTypes'
        BY <1>0, <1>10 DEF Q!RequestTypes, Q!Read
    <2>2. Q!DegradedOpenly'
        BY <1>0, <1>10 DEF Q!DegradedOpenly, Q!RequestTypes, Q!Loaded, Q!Local, Q!Degraded, Q!Read
    <2>3. Q!QueryIsEmbedded'
        BY <1>0, <1>10 DEF Q!QueryIsEmbedded, Q!RequestTypes, Q!Local, Q!Read
    <2>4. Q!OneRevision'
        BY <1>0, <1>10 DEF Q!OneRevision, Q!RequestTypes, Q!Loaded, Q!Read
    <2>5. Q!SourceIsRemembered'
        BY <1>0, <1>10 DEF Q!SourceIsRemembered, Q!RequestTypes, Q!Loaded, Q!Outcomes, Q!Read
    <2>6. Q!NoMisleadingEmpty'
        BY <1>0, <1>10
           DEF Q!NoMisleadingEmpty, Q!RequestTypes, Q!SourceIsRemembered, Q!Loaded, Q!Read
    <2>7. Q!SameVectorSpace'
        BY <1>0, <1>10
           DEF Q!SameVectorSpace, Q!RequestTypes, Q!OneRevision, Q!QueryIsEmbedded, Q!Loaded,
               Q!Local, Q!Read
    <2> QED BY <2>1, <2>2, <2>3, <2>4, <2>5, <2>6, <2>7 DEF Q!RetrievalInv
<1>11. ASSUME Q!Scan PROVE Q!RetrievalInv'
    <2>1. Q!RequestTypes'
        BY <1>0, <1>11 DEF Q!RequestTypes, Q!Scan, Q!Near, Q!Degrade, Q!OfRevision
    <2>2. Q!DegradedOpenly'
        BY <1>0, <1>11
           DEF Q!DegradedOpenly, Q!RequestTypes, Q!Loaded, Q!Local, Q!Degraded, Q!Scan, Q!Near,
               Q!Degrade, Q!OfRevision
    <2>3. Q!QueryIsEmbedded'
        BY <1>0, <1>11
           DEF Q!QueryIsEmbedded, Q!RequestTypes, Q!Local, Q!Scan, Q!Near, Q!Degrade, Q!OfRevision
    <2>4. Q!OneRevision'
        BY <1>0, <1>11
           DEF Q!OneRevision, Q!RequestTypes, Q!Loaded, Q!Scan, Q!Near, Q!Degrade, Q!OfRevision
    <2>5. Q!SourceIsRemembered'
        BY <1>0, <1>11
           DEF Q!SourceIsRemembered, Q!RequestTypes, Q!Loaded, Q!Outcomes, Q!Scan, Q!Near,
               Q!Degrade, Q!OfRevision
    <2>6. Q!NoMisleadingEmpty'
        BY <1>0, <1>11
           DEF Q!NoMisleadingEmpty, Q!RequestTypes, Q!SourceIsRemembered, Q!Loaded, Q!Scan,
               Q!Near, Q!Degrade, Q!OfRevision
    <2>7. Q!SameVectorSpace'
        BY <1>0, <1>11
           DEF Q!SameVectorSpace, Q!RequestTypes, Q!OneRevision, Q!QueryIsEmbedded, Q!Loaded,
               Q!Local, Q!Scan, Q!Near, Q!Degrade, Q!OfRevision
    <2> QED BY <2>1, <2>2, <2>3, <2>4, <2>5, <2>6, <2>7 DEF Q!RetrievalInv
<1>12. ASSUME NEW gen, NEW rev, Q!Reindex(gen, rev) PROVE Q!RetrievalInv'
    <2>1. Q!RequestTypes'
        BY <1>0, <1>12 DEF Q!RequestTypes, Q!Reindex, Q!Running
    <2>2. Q!DegradedOpenly'
        BY <1>0, <1>12
           DEF Q!DegradedOpenly, Q!RequestTypes, Q!Loaded, Q!Local, Q!Degraded, Q!Reindex,
               Q!Running
    <2>3. Q!QueryIsEmbedded'
        BY <1>0, <1>12 DEF Q!QueryIsEmbedded, Q!RequestTypes, Q!Local, Q!Reindex, Q!Running
    <2>4. Q!OneRevision'
        BY <1>0, <1>12 DEF Q!OneRevision, Q!RequestTypes, Q!Loaded, Q!Reindex, Q!Running
    <2>5. Q!SourceIsRemembered'
        BY <1>0, <1>12
           DEF Q!SourceIsRemembered, Q!RequestTypes, Q!Loaded, Q!Outcomes, Q!Reindex, Q!Running
    <2>6. Q!NoMisleadingEmpty'
        BY <1>0, <1>12
           DEF Q!NoMisleadingEmpty, Q!RequestTypes, Q!SourceIsRemembered, Q!Loaded, Q!Reindex,
               Q!Running
    <2>7. Q!SameVectorSpace'
        BY <1>0, <1>12
           DEF Q!SameVectorSpace, Q!RequestTypes, Q!OneRevision, Q!QueryIsEmbedded, Q!Loaded,
               Q!Local, Q!Reindex, Q!Running
    <2> QED BY <2>1, <2>2, <2>3, <2>4, <2>5, <2>6, <2>7 DEF Q!RetrievalInv
<1>13. ASSUME Q!Project PROVE Q!RetrievalInv'
    <2>1. Q!RequestTypes'
        BY <1>0, <1>13 DEF Q!RequestTypes, Q!Project, Q!Running
    <2>2. Q!DegradedOpenly'
        BY <1>0, <1>13
           DEF Q!DegradedOpenly, Q!RequestTypes, Q!Loaded, Q!Local, Q!Degraded, Q!Project,
               Q!Running
    <2>3. Q!QueryIsEmbedded'
        BY <1>0, <1>13 DEF Q!QueryIsEmbedded, Q!RequestTypes, Q!Local, Q!Project, Q!Running
    <2>4. Q!OneRevision'
        BY <1>0, <1>13 DEF Q!OneRevision, Q!RequestTypes, Q!Loaded, Q!Project, Q!Running
    <2>5. Q!SourceIsRemembered'
        BY <1>0, <1>13
           DEF Q!SourceIsRemembered, Q!RequestTypes, Q!Loaded, Q!Outcomes, Q!Project, Q!Running
    <2>6. Q!NoMisleadingEmpty'
        BY <1>0, <1>13
           DEF Q!NoMisleadingEmpty, Q!RequestTypes, Q!SourceIsRemembered, Q!Loaded, Q!Project,
               Q!Running
    <2>7. Q!SameVectorSpace'
        BY <1>0, <1>13
           DEF Q!SameVectorSpace, Q!RequestTypes, Q!OneRevision, Q!QueryIsEmbedded, Q!Loaded,
               Q!Local, Q!Project, Q!Running
    <2> QED BY <2>1, <2>2, <2>3, <2>4, <2>5, <2>6, <2>7 DEF Q!RetrievalInv
<1>14. ASSUME Q!ChangeModel PROVE Q!RetrievalInv'
    <2>1. Q!RequestTypes'
        <3>1. could' = [could EXCEPT !.changed = could'.changed] /\ could'.changed \in BOOLEAN
            BY <1>0, <1>14 DEF Q!RequestTypes, Q!ChangeModel
        <3> QED BY <1>0, <1>14, <3>1 DEF Q!RequestTypes, Q!ChangeModel, Q!Running
    <2>2. Q!DegradedOpenly'
        BY <1>0, <1>14
           DEF Q!DegradedOpenly, Q!RequestTypes, Q!Loaded, Q!Local, Q!Degraded, Q!ChangeModel,
               Q!Running
    <2>3. Q!QueryIsEmbedded'
        BY <1>0, <1>14 DEF Q!QueryIsEmbedded, Q!RequestTypes, Q!Local, Q!ChangeModel, Q!Running
    <2>4. Q!OneRevision'
        BY <1>0, <1>14 DEF Q!OneRevision, Q!RequestTypes, Q!Loaded, Q!ChangeModel, Q!Running
    <2>5. Q!SourceIsRemembered'
        BY <1>0, <1>14
           DEF Q!SourceIsRemembered, Q!RequestTypes, Q!Loaded, Q!Outcomes, Q!ChangeModel,
               Q!Running
    <2>6. Q!NoMisleadingEmpty'
        BY <1>0, <1>14
           DEF Q!NoMisleadingEmpty, Q!RequestTypes, Q!SourceIsRemembered, Q!Loaded, Q!ChangeModel,
               Q!Running
    <2>7. Q!SameVectorSpace'
        BY <1>0, <1>14
           DEF Q!SameVectorSpace, Q!RequestTypes, Q!OneRevision, Q!QueryIsEmbedded, Q!Loaded,
               Q!Local, Q!ChangeModel, Q!Running
    <2> QED BY <2>1, <2>2, <2>3, <2>4, <2>5, <2>6, <2>7 DEF Q!RetrievalInv
<1>15. ASSUME Q!Revoke PROVE Q!RetrievalInv'
    <2>1. Q!RequestTypes'
        BY <1>0, <1>15 DEF Q!RequestTypes, Q!Revoke, Q!Running
    <2>2. Q!DegradedOpenly'
        BY <1>0, <1>15
           DEF Q!DegradedOpenly, Q!RequestTypes, Q!Loaded, Q!Local, Q!Degraded, Q!Revoke,
               Q!Running
    <2>3. Q!QueryIsEmbedded'
        BY <1>0, <1>15 DEF Q!QueryIsEmbedded, Q!RequestTypes, Q!Local, Q!Revoke, Q!Running
    <2>4. Q!OneRevision'
        BY <1>0, <1>15 DEF Q!OneRevision, Q!RequestTypes, Q!Loaded, Q!Revoke, Q!Running
    <2>5. Q!SourceIsRemembered'
        BY <1>0, <1>15
           DEF Q!SourceIsRemembered, Q!RequestTypes, Q!Loaded, Q!Outcomes, Q!Revoke, Q!Running
    <2>6. Q!NoMisleadingEmpty'
        BY <1>0, <1>15
           DEF Q!NoMisleadingEmpty, Q!RequestTypes, Q!SourceIsRemembered, Q!Loaded, Q!Revoke,
               Q!Running
    <2>7. Q!SameVectorSpace'
        BY <1>0, <1>15
           DEF Q!SameVectorSpace, Q!RequestTypes, Q!OneRevision, Q!QueryIsEmbedded, Q!Loaded,
               Q!Local, Q!Revoke, Q!Running
    <2> QED BY <2>1, <2>2, <2>3, <2>4, <2>5, <2>6, <2>7 DEF Q!RetrievalInv
<1>16. ASSUME UNCHANGED Q!vars PROVE Q!RetrievalInv'
    <2>1. Q!RequestTypes'
        BY <1>0, <1>16 DEF Q!RequestTypes, Q!vars
    <2>2. Q!DegradedOpenly'
        BY <1>0, <1>16 DEF Q!DegradedOpenly, Q!RequestTypes, Q!Loaded, Q!Local, Q!Degraded, Q!vars
    <2>3. Q!QueryIsEmbedded'
        BY <1>0, <1>16 DEF Q!QueryIsEmbedded, Q!RequestTypes, Q!Local, Q!vars
    <2>4. Q!OneRevision'
        BY <1>0, <1>16 DEF Q!OneRevision, Q!RequestTypes, Q!Loaded, Q!vars
    <2>5. Q!SourceIsRemembered'
        BY <1>0, <1>16 DEF Q!SourceIsRemembered, Q!RequestTypes, Q!Loaded, Q!Outcomes, Q!vars
    <2>6. Q!NoMisleadingEmpty'
        BY <1>0, <1>16
           DEF Q!NoMisleadingEmpty, Q!RequestTypes, Q!SourceIsRemembered, Q!Loaded, Q!vars
    <2>7. Q!SameVectorSpace'
        BY <1>0, <1>16
           DEF Q!SameVectorSpace, Q!RequestTypes, Q!OneRevision, Q!QueryIsEmbedded, Q!Loaded,
               Q!Local, Q!vars
    <2> QED BY <2>1, <2>2, <2>3, <2>4, <2>5, <2>6, <2>7 DEF Q!RetrievalInv
<1> QED BY <1>1, <1>2, <1>3, <1>4, <1>5, <1>6, <1>7, <1>8, <1>9, <1>10, <1>11, <1>12, <1>13, <1>14,
           <1>15, <1>16 DEF Q!Next
-----------------------------------------------------------------------------
(* McpCall. *)

\* What is left of a time after a tick, and what the tick leaves of a call and of an
\* entry of the cache.
Less(left) == IF left = 0 THEN 0 ELSE left - 1

LEMMA OlderText ==
    ASSUME NEW t \in T!Texts
    PROVE  /\ T!Older(t) \in T!Texts
           /\ T!Older(t).gen = t.gen /\ T!Older(t).conf = t.conf
           /\ t.age <= T!MaxAge => T!Older(t).age = t.age + 1
BY AnsweringAssumption DEF T!Older, T!Texts, T!MaxAge

LEMMA AgedCall ==
    ASSUME NEW d \in T!CallType
    PROVE  LET aged == [d EXCEPT !.left = Less(@), !.text = T!Older(@)]
           IN  /\ aged \in T!CallType
               /\ aged.pc = d.pc /\ aged.key = d.key /\ aged.indexed = d.indexed /\ aged.hit = d.hit
               /\ aged.left = Less(d.left) /\ aged.text = T!Older(d.text)
<1>1. Less(d.left) \in 0..Timeout
    BY AnsweringAssumption DEF T!CallType, Less
<1>2. T!Older(d.text) \in T!Texts \cup {None}
    <2>1. CASE d.text = None
        BY <2>1 DEF T!Older
    <2>2. CASE d.text # None
        BY <2>2, OlderText DEF T!CallType
    <2> QED BY <2>1, <2>2
<1> QED BY <1>1, <1>2 DEF T!CallType

LEMMA AgedEntry ==
    ASSUME NEW e \in [key : T!Keys, text : T!Texts, left : Nat]
    PROVE  LET aged == [e EXCEPT !.left = Less(@), !.text = T!Older(@)]
           IN  /\ aged \in [key : T!Keys, text : T!Texts, left : Nat]
               /\ aged.key = e.key /\ aged.left = Less(e.left) /\ aged.text = T!Older(e.text)
<1>1. Less(e.left) \in Nat
    BY DEF Less
<1>2. T!Older(e.text) \in T!Texts
    BY OlderText
<1> QED BY <1>1, <1>2

LEMMA StoreType ==
    ASSUME NEW d \in T!CallType, NEW text \in T!Texts
    PROVE  [d EXCEPT !.pc = "store", !.text = text] \in T!CallType
BY DEF T!CallType

LEMMA LookupType ==
    ASSUME NEW d \in T!CallType, NEW key \in T!Keys, NEW n \in Nat
    PROVE  [d EXCEPT !.pc = "lookup", !.key = key, !.indexed = n] \in T!CallType
BY DEF T!CallType

LEMMA FinishedType ==
    ASSUME call \in [Credentials -> T!CallType], NEW c \in Credentials
    PROVE  T!Finished(c) \in [Credentials -> T!CallType]
<1> DEFINE f == [T!NoCall EXCEPT !.pc = "finish", !.left = call[c].left]
<1>1. FALSE \in BOOLEAN
    OBVIOUS
<1>2. f \in T!CallType
    BY <1>1 DEF T!NoCall, T!CallType
<1> HIDE DEF f
<1>3. T!Finished(c) = [call EXCEPT ![c] = f]
    BY DEF T!Finished, f
<1> QED BY <1>2, <1>3

LEMMA CallInit == T!Init => T!CacheInv
<1> SUFFICES ASSUME T!Init PROVE T!CacheInv
    OBVIOUS
<1> USE AnsweringAssumption DEF T!Init, T!NoCall
<1>1. T!CallTypes
    BY DEF T!CallTypes, T!CallType
<1>2. T!KeysAreOfTheirCall /\ T!AnswersFit /\ T!EntriesFit
    BY DEF T!KeysAreOfTheirCall, T!AnswersFit, T!EntriesFit, T!Busy, T!Served
<1> QED BY <1>1, <1>2 DEF T!CacheInv

\* Making room for a key only drops entries, and leaves none under that key
\* (trimCacheLocked).
LEMMA RoomIsMade ==
    ASSUME NEW key
    PROVE  T!RoomFor(key) \subseteq down /\ \A e \in T!RoomFor(key) : e.key # key
BY DEF T!RoomFor

LEMMA CallStep == T!CacheInv /\ [T!Next]_(T!vars) => T!CacheInv'
<1> SUFFICES ASSUME T!CacheInv, [T!Next]_(T!vars) PROVE T!CacheInv'
    OBVIOUS
<1>0. T!CallTypes /\ T!KeysAreOfTheirCall /\ T!AnswersFit /\ T!EntriesFit
    BY DEF T!CacheInv
<1> USE AnsweringAssumption DEF T!NoCall
<1>1. ASSUME NEW c \in Credentials, NEW v \in BOOLEAN, T!Start(c, v) PROVE T!CacheInv'
    <2>1. T!CallTypes'
        <3>1. PICK p \in {"key", "finish"} : call' = [call EXCEPT ![c] = [T!NoCall EXCEPT !.pc = p, !.left = Timeout]]
            BY <1>1 DEF T!Start
        <3>2. FALSE \in BOOLEAN /\ Timeout \in 0..Timeout
            OBVIOUS
        <3>3. [T!NoCall EXCEPT !.pc = p, !.left = Timeout] \in T!CallType
            BY <3>2 DEF T!CallType
        <3> HIDE DEF T!NoCall
        <3> QED BY <1>0, <1>1, <3>1, <3>3 DEF T!CallTypes, T!Start, T!world
    <2>2. T!KeysAreOfTheirCall'
        BY <1>0, <1>1
           DEF T!CallTypes, T!CallType, T!KeysAreOfTheirCall, T!Busy, T!Served, T!Keys, T!IndexedAt,
               T!Texts, T!Start, T!world
    <2>3. T!AnswersFit'
        BY <1>0, <1>1
           DEF T!CallTypes, T!CallType, T!KeysAreOfTheirCall, T!Busy, T!Served, T!Keys, T!IndexedAt,
               T!Texts, T!AnswersFit, T!Fits, T!EntriesFit, T!MaxAge, T!Start, T!world
    <2>4. T!EntriesFit'
        BY <1>0, <1>1
           DEF T!CallTypes, T!CallType, T!KeysAreOfTheirCall, T!Busy, T!Served, T!Keys, T!IndexedAt,
               T!Texts, T!AnswersFit, T!Fits, T!EntriesFit, T!Start, T!world
    <2> QED BY <2>1, <2>2, <2>3, <2>4 DEF T!CacheInv
<1>2. ASSUME NEW c \in Credentials, NEW acl \in {T!AclRevision(c), T!Unavailable}, T!BuildKey(c, acl) PROVE T!CacheInv'
    <2>1. T!CallTypes'
        <3>1. [cred |-> c, acl |-> acl, conf |-> defines] \in T!Keys
            BY <1>0, <1>2 DEF T!CallTypes, T!Keys, T!AclRevision, T!Unavailable
        <3>2. PICK n \in Nat : n = IF acl.row = "read" THEN index ELSE 0
            BY <1>0 DEF T!CallTypes
        <3> DEFINE key == [cred |-> c, acl |-> acl, conf |-> defines]
        <3> HIDE DEF key
        <3>3. key \in T!Keys
            BY <3>1 DEF key
        <3>4. [call[c] EXCEPT !.pc = "lookup", !.key = key, !.indexed = n] \in T!CallType
            BY <1>0, <3>3, LookupType DEF T!CallTypes
        <3>5. call' = [call EXCEPT ![c] = [call[c] EXCEPT !.pc = "lookup", !.key = key, !.indexed = n]]
            BY <1>0, <1>2, <3>2 DEF T!CallTypes, T!BuildKey, key
        <3>6. call' \in [Credentials -> T!CallType]
            BY <1>0, <3>4, <3>5 DEF T!CallTypes
        <3> QED BY <1>0, <1>2, <3>6 DEF T!CallTypes, T!BuildKey, T!world
    <2>2. T!KeysAreOfTheirCall'
        BY <1>0, <1>2
           DEF T!CallTypes, T!CallType, T!KeysAreOfTheirCall, T!Busy, T!Served, T!Keys, T!IndexedAt,
               T!Texts, T!BuildKey, T!AclRevision, T!Unavailable, T!world
    <2>3. T!AnswersFit'
        BY <1>0, <1>2
           DEF T!CallTypes, T!CallType, T!KeysAreOfTheirCall, T!Busy, T!Served, T!Keys, T!IndexedAt,
               T!Texts, T!AnswersFit, T!Fits, T!EntriesFit, T!MaxAge, T!BuildKey, T!AclRevision,
               T!Unavailable, T!world
    <2>4. T!EntriesFit'
        BY <1>0, <1>2
           DEF T!CallTypes, T!CallType, T!KeysAreOfTheirCall, T!Busy, T!Served, T!Keys, T!IndexedAt,
               T!Texts, T!AnswersFit, T!Fits, T!EntriesFit, T!BuildKey, T!AclRevision,
               T!Unavailable, T!world
    <2> QED BY <2>1, <2>2, <2>3, <2>4 DEF T!CacheInv
<1>3. ASSUME NEW c \in Credentials, T!Lookup(c) PROVE T!CacheInv'
    <2>1. T!CallTypes'
        BY <1>0, <1>3
           DEF T!CallTypes, T!CallType, T!Keys, T!Texts, T!KeysAreOfTheirCall, T!AnswersFit, T!Busy,
               T!Lookup, T!Fresh, T!MaxAge, T!world
    <2>2. T!KeysAreOfTheirCall'
        BY <1>0, <1>3
           DEF T!CallTypes, T!CallType, T!KeysAreOfTheirCall, T!Busy, T!Served, T!Keys, T!IndexedAt,
               T!Texts, T!Lookup, T!Fresh, T!MaxAge, T!world
    <2>3. T!AnswersFit'
        BY <1>0, <1>3
           DEF T!CallTypes, T!CallType, T!KeysAreOfTheirCall, T!Busy, T!Served, T!Keys, T!IndexedAt,
               T!Texts, T!AnswersFit, T!Fits, T!EntriesFit, T!Lookup, T!Fresh, T!MaxAge, T!world
    <2>4. T!EntriesFit'
        BY <1>0, <1>3
           DEF T!CallTypes, T!CallType, T!KeysAreOfTheirCall, T!Busy, T!Served, T!Keys, T!IndexedAt,
               T!Texts, T!AnswersFit, T!Fits, T!EntriesFit, T!Lookup, T!Fresh, T!MaxAge, T!world
    <2> QED BY <2>1, <2>2, <2>3, <2>4 DEF T!CacheInv
<1>4. ASSUME NEW c \in Credentials, T!Handle(c) PROVE T!CacheInv'
    <2>1. T!CallTypes'
        <3>1. call' \in [Credentials -> T!CallType]
            <4> DEFINE text == [gen |-> allowed, conf |-> defines, age |-> 0]
            <4>1. text \in T!Texts
                BY <1>0 DEF T!CallTypes, T!Texts
            <4>2. [call[c] EXCEPT !.pc = "store", !.text = text] \in T!CallType
                BY <1>0, <4>1, StoreType DEF T!CallTypes
            <4>3. T!Readable(c) => call' = [call EXCEPT ![c] = [call[c] EXCEPT !.pc = "store", !.text = text]]
                BY <1>0, <1>4 DEF T!CallTypes, T!Handle
            <4>4. ~T!Readable(c) => call' = T!Finished(c)
                BY <1>4 DEF T!Handle
            <4> HIDE DEF text
            <4> QED BY <1>0, <4>2, <4>3, <4>4, FinishedType DEF T!CallTypes
        <3> QED BY <1>0, <1>4, <3>1 DEF T!CallTypes, T!Handle, T!world
    <2>2. T!KeysAreOfTheirCall'
        BY <1>0, <1>4
           DEF T!CallTypes, T!CallType, T!KeysAreOfTheirCall, T!Busy, T!Served, T!Keys, T!IndexedAt,
               T!Texts, T!Handle, T!Readable, T!Finished, T!world
    <2>3. T!AnswersFit'
        BY <1>0, <1>4
           DEF T!CallTypes, T!CallType, T!KeysAreOfTheirCall, T!Busy, T!Served, T!Keys, T!IndexedAt,
               T!Texts, T!AnswersFit, T!Fits, T!EntriesFit, T!MaxAge, T!Handle, T!Readable,
               T!Finished, T!world
    <2>4. T!EntriesFit'
        BY <1>0, <1>4
           DEF T!CallTypes, T!CallType, T!KeysAreOfTheirCall, T!Busy, T!Served, T!Keys, T!IndexedAt,
               T!Texts, T!AnswersFit, T!Fits, T!EntriesFit, T!Handle, T!Readable, T!Finished,
               T!world
    <2> QED BY <2>1, <2>2, <2>3, <2>4 DEF T!CacheInv
<1>5. ASSUME NEW c \in Credentials, T!HandleFails(c) PROVE T!CacheInv'
    <2>1. T!CallTypes'
        BY <1>0, <1>5, FinishedType DEF T!CallTypes, T!HandleFails, T!world
    <2>2. T!KeysAreOfTheirCall'
        BY <1>0, <1>5
           DEF T!CallTypes, T!CallType, T!KeysAreOfTheirCall, T!Busy, T!Served, T!Keys, T!IndexedAt,
               T!Texts, T!HandleFails, T!Finished, T!world
    <2>3. T!AnswersFit'
        BY <1>0, <1>5
           DEF T!CallTypes, T!CallType, T!KeysAreOfTheirCall, T!Busy, T!Served, T!Keys, T!IndexedAt,
               T!Texts, T!AnswersFit, T!Fits, T!EntriesFit, T!MaxAge, T!HandleFails, T!Finished,
               T!world
    <2>4. T!EntriesFit'
        BY <1>0, <1>5
           DEF T!CallTypes, T!CallType, T!KeysAreOfTheirCall, T!Busy, T!Served, T!Keys, T!IndexedAt,
               T!Texts, T!AnswersFit, T!Fits, T!EntriesFit, T!HandleFails, T!Finished, T!world
    <2> QED BY <2>1, <2>2, <2>3, <2>4 DEF T!CacheInv
<1>6. ASSUME NEW c \in Credentials, T!Finish(c) PROVE T!CacheInv'
    <2>1. T!CallTypes'
        BY <1>0, <1>6
           DEF T!CallTypes, T!CallType, T!Keys, T!Texts, T!KeysAreOfTheirCall, T!AnswersFit, T!Busy,
               T!Finish, T!world
    <2>2. T!KeysAreOfTheirCall'
        BY <1>0, <1>6
           DEF T!CallTypes, T!CallType, T!KeysAreOfTheirCall, T!Busy, T!Served, T!Keys, T!IndexedAt,
               T!Texts, T!Finish, T!world
    <2>3. T!AnswersFit'
        BY <1>0, <1>6
           DEF T!CallTypes, T!CallType, T!KeysAreOfTheirCall, T!Busy, T!Served, T!Keys, T!IndexedAt,
               T!Texts, T!AnswersFit, T!Fits, T!EntriesFit, T!MaxAge, T!Finish, T!world
    <2>4. T!EntriesFit'
        BY <1>0, <1>6
           DEF T!CallTypes, T!CallType, T!KeysAreOfTheirCall, T!Busy, T!Served, T!Keys, T!IndexedAt,
               T!Texts, T!AnswersFit, T!Fits, T!EntriesFit, T!Finish, T!world
    <2> QED BY <2>1, <2>2, <2>3, <2>4 DEF T!CacheInv
<1>7. ASSUME NEW c \in Credentials, NEW seconds \in T!CacheSeconds, T!Store(c, seconds) PROVE T!CacheInv'
    <2>1. T!CallTypes'
        <3>1. call' \in [Credentials -> T!CallType]
            BY <1>0, <1>7, FinishedType DEF T!CallTypes, T!Store
        <3>2. CASE seconds = 0
            BY <1>0, <1>7, <3>1, <3>2 DEF T!CallTypes, T!Store, T!world
        <3>3. CASE seconds # 0
            <4>1. [key |-> call[c].key, text |-> call[c].text, left |-> seconds] \in [key : T!Keys, text : T!Texts, left : Nat]
                BY <1>0, <1>7
                   DEF T!KeysAreOfTheirCall, T!AnswersFit, T!Busy, T!Store, T!CacheSeconds
            <4> QED BY <1>0, <1>7, <3>1, <3>3, <4>1, RoomIsMade DEF T!CallTypes, T!Store, T!world
        <3> QED BY <3>2, <3>3
    <2>2. T!KeysAreOfTheirCall'
        BY <1>0, <1>7
           DEF T!CallTypes, T!CallType, T!KeysAreOfTheirCall, T!Busy, T!Served, T!Keys, T!IndexedAt,
               T!Texts, T!Store, T!Finished, T!CacheSeconds, T!world
    <2>3. T!AnswersFit'
        BY <1>0, <1>7
           DEF T!CallTypes, T!CallType, T!KeysAreOfTheirCall, T!Busy, T!Served, T!Keys, T!IndexedAt,
               T!Texts, T!AnswersFit, T!Fits, T!EntriesFit, T!MaxAge, T!Store, T!Finished,
               T!CacheSeconds, T!world
    <2>4. T!EntriesFit'
        <3>1. CASE seconds = 0
            BY <1>0, <1>7, <3>1 DEF T!EntriesFit, T!Store, T!Fits, T!IndexedAt
        <3>2. CASE seconds # 0
            <4> DEFINE new == [key |-> call[c].key, text |-> call[c].text, left |-> seconds]
            <4>1. down' = T!RoomFor(call[c].key) \cup {new} /\ seconds = Seconds
                BY <1>7, <3>2 DEF T!Store, T!CacheSeconds
            <4>2. new.key = call[c].key /\ new.text = call[c].text /\ new.left = seconds
                OBVIOUS
            <4>3. /\ call[c].key.cred # "limited" /\ T!Fits(call[c].text, call[c].key)
                  /\ call[c].text.age + seconds <= Seconds + Timeout
                <5>1. call[c].pc = "store" /\ call[c].key.cred = c /\ call[c].text \in T!Texts
                    BY <1>0, <1>7 DEF T!Store, T!KeysAreOfTheirCall, T!AnswersFit, T!Busy
                <5>2. call[c].text.age \in Nat /\ call[c].left \in Nat
                    BY <1>0, <5>1 DEF T!Texts, T!CallTypes, T!CallType
                <5> QED BY <1>0, <4>1, <5>1, <5>2 DEF T!AnswersFit
            <4> HIDE DEF new
            <4> QED BY <1>0, <4>1, <4>2, <4>3, RoomIsMade DEF T!EntriesFit, T!Fits, T!IndexedAt
        <3> QED BY <3>1, <3>2
    <2> QED BY <2>1, <2>2, <2>3, <2>4 DEF T!CacheInv
<1>8. ASSUME T!SetPermission PROVE T!CacheInv'
    <2>1. T!CallTypes'
        BY <1>0, <1>8
           DEF T!CallTypes, T!CallType, T!Keys, T!Texts, T!KeysAreOfTheirCall, T!AnswersFit, T!Busy,
               T!SetPermission
    <2>2. T!KeysAreOfTheirCall'
        BY <1>0, <1>8
           DEF T!CallTypes, T!CallType, T!KeysAreOfTheirCall, T!Busy, T!Served, T!Keys, T!IndexedAt,
               T!Texts, T!SetPermission
    <2>3. T!AnswersFit'
        BY <1>0, <1>8
           DEF T!CallTypes, T!CallType, T!KeysAreOfTheirCall, T!Busy, T!Served, T!Keys, T!IndexedAt,
               T!Texts, T!AnswersFit, T!Fits, T!EntriesFit, T!MaxAge, T!SetPermission
    <2>4. T!EntriesFit'
        BY <1>0, <1>8
           DEF T!CallTypes, T!CallType, T!KeysAreOfTheirCall, T!Busy, T!Served, T!Keys, T!IndexedAt,
               T!Texts, T!AnswersFit, T!Fits, T!EntriesFit, T!SetPermission
    <2> QED BY <2>1, <2>2, <2>3, <2>4 DEF T!CacheInv
<1>9. ASSUME T!CommitChunks PROVE T!CacheInv'
    <2>1. T!CallTypes'
        BY <1>0, <1>9
           DEF T!CallTypes, T!CallType, T!Keys, T!Texts, T!KeysAreOfTheirCall, T!AnswersFit, T!Busy,
               T!CommitChunks
    <2>2. T!KeysAreOfTheirCall'
        BY <1>0, <1>9
           DEF T!CallTypes, T!CallType, T!KeysAreOfTheirCall, T!Busy, T!Served, T!Keys, T!IndexedAt,
               T!Texts, T!CommitChunks
    <2>3. T!AnswersFit'
        BY <1>0, <1>9
           DEF T!CallTypes, T!CallType, T!KeysAreOfTheirCall, T!Busy, T!Served, T!Keys, T!IndexedAt,
               T!Texts, T!AnswersFit, T!Fits, T!EntriesFit, T!MaxAge, T!CommitChunks
    <2>4. T!EntriesFit'
        BY <1>0, <1>9
           DEF T!CallTypes, T!CallType, T!KeysAreOfTheirCall, T!Busy, T!Served, T!Keys, T!IndexedAt,
               T!Texts, T!AnswersFit, T!Fits, T!EntriesFit, T!CommitChunks
    <2> QED BY <2>1, <2>2, <2>3, <2>4 DEF T!CacheInv
<1>10. ASSUME T!WriteIndexedAt PROVE T!CacheInv'
    <2>1. T!CallTypes'
        BY <1>0, <1>10
           DEF T!CallTypes, T!CallType, T!Keys, T!Texts, T!KeysAreOfTheirCall, T!AnswersFit, T!Busy,
               T!WriteIndexedAt
    <2>2. T!KeysAreOfTheirCall'
        BY <1>0, <1>10
           DEF T!CallTypes, T!CallType, T!KeysAreOfTheirCall, T!Busy, T!Served, T!Keys, T!IndexedAt,
               T!Texts, T!WriteIndexedAt
    <2>3. T!AnswersFit'
        BY <1>0, <1>10
           DEF T!CallTypes, T!CallType, T!KeysAreOfTheirCall, T!Busy, T!Served, T!Keys, T!IndexedAt,
               T!Texts, T!AnswersFit, T!Fits, T!EntriesFit, T!MaxAge, T!WriteIndexedAt
    <2>4. T!EntriesFit'
        BY <1>0, <1>10
           DEF T!CallTypes, T!CallType, T!KeysAreOfTheirCall, T!Busy, T!Served, T!Keys, T!IndexedAt,
               T!Texts, T!AnswersFit, T!Fits, T!EntriesFit, T!WriteIndexedAt
    <2> QED BY <2>1, <2>2, <2>3, <2>4 DEF T!CacheInv
<1>11. ASSUME T!SaveSearchSettings PROVE T!CacheInv'
    <2>1. T!CallTypes'
        BY <1>0, <1>11
           DEF T!CallTypes, T!CallType, T!Keys, T!Texts, T!KeysAreOfTheirCall, T!AnswersFit, T!Busy,
               T!SaveSearchSettings
    <2>2. T!KeysAreOfTheirCall'
        BY <1>0, <1>11
           DEF T!CallTypes, T!CallType, T!KeysAreOfTheirCall, T!Busy, T!Served, T!Keys, T!IndexedAt,
               T!Texts, T!SaveSearchSettings
    <2>3. T!AnswersFit'
        BY <1>0, <1>11
           DEF T!CallTypes, T!CallType, T!KeysAreOfTheirCall, T!Busy, T!Served, T!Keys, T!IndexedAt,
               T!Texts, T!AnswersFit, T!Fits, T!EntriesFit, T!MaxAge, T!SaveSearchSettings
    <2>4. T!EntriesFit'
        BY <1>0, <1>11
           DEF T!CallTypes, T!CallType, T!KeysAreOfTheirCall, T!Busy, T!Served, T!Keys, T!IndexedAt,
               T!Texts, T!AnswersFit, T!Fits, T!EntriesFit, T!SaveSearchSettings
    <2> QED BY <2>1, <2>2, <2>3, <2>4 DEF T!CacheInv
<1>12. ASSUME T!Tick PROVE T!CacheInv'
    <2>0. /\ call' = [c \in Credentials |-> [call[c] EXCEPT !.left = Less(@), !.text = T!Older(@)]]
          /\ down' = {[e EXCEPT !.left = Less(@), !.text = T!Older(@)] : e \in down}
        BY <1>12 DEF T!Tick, Less
    <2>1. T!CallTypes'
        <3>1. call' \in [Credentials -> T!CallType]
            BY <1>0, <2>0, AgedCall DEF T!CallTypes
        <3>2. ASSUME NEW e \in down' PROVE e \in [key : T!Keys, text : T!Texts, left : Nat]
            <4>1. PICK d \in down : e = [d EXCEPT !.left = Less(@), !.text = T!Older(@)]
                BY <2>0
            <4> QED BY <1>0, <4>1, AgedEntry DEF T!CallTypes
        <3> QED BY <1>0, <1>12, <2>0, <3>1, <3>2 DEF T!CallTypes, T!Tick, T!world
    <2>2. T!KeysAreOfTheirCall'
        <3> SUFFICES ASSUME NEW c \in Credentials, (T!Busy(c) \/ T!Served(c))'
                     PROVE  (/\ call[c].key \in T!Keys /\ call[c].key.cred = c
                             /\ call[c].indexed = T!IndexedAt(call[c].key) /\ call[c].indexed <= index
                             /\ call[c].key.conf <= defines)'
            BY DEF T!KeysAreOfTheirCall
        <3>1. /\ call'[c].pc = call[c].pc /\ call'[c].key = call[c].key
              /\ call'[c].indexed = call[c].indexed /\ call'[c].hit = call[c].hit
            BY <1>0, <2>0, AgedCall DEF T!CallTypes
        <3>2. T!Busy(c) \/ T!Served(c)
            BY <3>1 DEF T!Busy, T!Served
        <3> QED BY <1>0, <1>12, <3>1, <3>2 DEF T!KeysAreOfTheirCall, T!Tick, T!world, T!IndexedAt
    <2>3. T!AnswersFit'
        <3> SUFFICES ASSUME NEW c \in Credentials, (call[c].pc = "store" \/ T!Served(c))'
                     PROVE  (/\ call[c].pc = "store" => c # "limited" /\ call[c].text \in T!Texts
                                  /\ T!Fits(call[c].text, call[c].key) /\ call[c].text.age + call[c].left <= Timeout
                             /\ T!Served(c) => c # "limited" /\ call[c].text \in T!Texts
                                  /\ T!Fits(call[c].text, call[c].key) /\ call[c].text.age + call[c].left <= T!MaxAge)'
            BY DEF T!AnswersFit
        <3>1. /\ call'[c].pc = call[c].pc /\ call'[c].key = call[c].key /\ call'[c].hit = call[c].hit
              /\ call'[c].left = Less(call[c].left) /\ call'[c].text = T!Older(call[c].text)
            BY <1>0, <2>0, AgedCall DEF T!CallTypes
        <3>2. call[c].pc = "store" \/ T!Served(c)
            BY <3>1 DEF T!Served
        <3>3. call[c].text \in T!Texts /\ call[c].left \in 0..Timeout /\ call[c].left > 0
            BY <1>0, <1>12, <3>2 DEF T!CallTypes, T!CallType, T!AnswersFit, T!Tick, T!Served
        <3>4. call[c].text.age <= T!MaxAge /\ T!MaxAge \in Nat /\ call[c].text.age \in Nat
            BY <1>0, <3>2, <3>3 DEF T!AnswersFit, T!MaxAge, T!Texts
        <3>5. /\ call'[c].text \in T!Texts /\ call'[c].text.gen = call[c].text.gen
              /\ call'[c].text.conf = call[c].text.conf /\ call'[c].text.age = call[c].text.age + 1
            BY <3>1, <3>3, <3>4, OlderText
        <3>6. call'[c].left = call[c].left - 1
            BY <3>1, <3>3 DEF Less
        <3>7. T!Fits(call[c].text, call[c].key) => T!Fits(call[c].text, call[c].key)'
            BY <3>1, <3>5 DEF T!Fits, T!IndexedAt
        <3>8. T!Served(c)' => T!Served(c)
            BY <3>1 DEF T!Served
        <3> QED BY <1>0, <3>1, <3>3, <3>4, <3>5, <3>6, <3>7, <3>8 DEF T!AnswersFit
    <2>4. T!EntriesFit'
        <3>1. ASSUME NEW e \in down', NEW f \in down', e.key = f.key PROVE e = f
            <4>1. PICK d \in down : e = [d EXCEPT !.left = Less(@), !.text = T!Older(@)]
                BY <2>0
            <4>2. PICK g \in down : f = [g EXCEPT !.left = Less(@), !.text = T!Older(@)]
                BY <2>0
            <4>3. e.key = d.key /\ f.key = g.key
                BY <1>0, <4>1, <4>2, AgedEntry DEF T!CallTypes
            <4> QED BY <1>0, <3>1, <4>1, <4>2, <4>3 DEF T!EntriesFit
        <3>2. ASSUME NEW e \in down'
              PROVE  /\ e.key.cred # "limited" /\ T!Fits(e.text, e.key)
                     /\ e.left > 0 => e.text.age + e.left <= Seconds + Timeout
            <4>1. PICK d \in down : e = [d EXCEPT !.left = Less(@), !.text = T!Older(@)]
                BY <2>0
            <4>2. e.key = d.key /\ e.left = Less(d.left) /\ e.text = T!Older(d.text)
                BY <1>0, <4>1, AgedEntry DEF T!CallTypes
            <4>3. d.text \in T!Texts /\ d.left \in Nat /\ d.text.age \in Nat
                BY <1>0 DEF T!CallTypes, T!Texts
            <4>4. /\ d.key.cred # "limited" /\ T!Fits(d.text, d.key)
                  /\ d.left > 0 => d.text.age + d.left <= Seconds + Timeout
                BY <1>0 DEF T!EntriesFit
            <4>5. e.text.gen = d.text.gen /\ e.text.conf = d.text.conf
                BY <4>2, <4>3, OlderText
            <4>6. d.text.age <= T!MaxAge => e.text.age = d.text.age + 1
                BY <4>2, <4>3, OlderText
            <4>7. e.left > 0 => d.left > 0 /\ e.left = d.left - 1 /\ d.text.age <= T!MaxAge
                BY <4>2, <4>3, <4>4 DEF Less, T!MaxAge
            <4>8. e.left > 0 => e.text.age + e.left <= Seconds + Timeout
                BY <4>3, <4>4, <4>6, <4>7
            <4> QED BY <4>2, <4>4, <4>5, <4>8 DEF T!Fits, T!IndexedAt
        <3> QED BY <3>1, <3>2 DEF T!EntriesFit
    <2> QED BY <2>1, <2>2, <2>3, <2>4 DEF T!CacheInv
<1>13. ASSUME UNCHANGED T!vars PROVE T!CacheInv'
    <2>1. T!CallTypes'
        BY <1>0, <1>13
           DEF T!CallTypes, T!CallType, T!Keys, T!Texts, T!KeysAreOfTheirCall, T!AnswersFit, T!Busy,
               T!vars
    <2>2. T!KeysAreOfTheirCall'
        BY <1>0, <1>13
           DEF T!CallTypes, T!CallType, T!KeysAreOfTheirCall, T!Busy, T!Served, T!Keys, T!IndexedAt,
               T!Texts, T!vars
    <2>3. T!AnswersFit'
        BY <1>0, <1>13
           DEF T!CallTypes, T!CallType, T!KeysAreOfTheirCall, T!Busy, T!Served, T!Keys, T!IndexedAt,
               T!Texts, T!AnswersFit, T!Fits, T!EntriesFit, T!MaxAge, T!vars
    <2>4. T!EntriesFit'
        BY <1>0, <1>13
           DEF T!CallTypes, T!CallType, T!KeysAreOfTheirCall, T!Busy, T!Served, T!Keys, T!IndexedAt,
               T!Texts, T!AnswersFit, T!Fits, T!EntriesFit, T!vars
    <2> QED BY <2>1, <2>2, <2>3, <2>4 DEF T!CacheInv
<1> QED BY <1>1, <1>2, <1>3, <1>4, <1>5, <1>6, <1>7, <1>8, <1>9, <1>10, <1>11, <1>12, <1>13
           DEF T!Next

-----------------------------------------------------------------------------
(* IndexTools: the plans of the tools. *)

\* The queries of an operation come in an order in which what is read was found and
\* what is declared was resolved.
PlanIsOrdered(plan) ==
    plan \in Seq(Steps) /\ After(plan, Reads, Finds) /\ After(plan, {"declared"}, {"resolve"})

LEMMA PlansAreOrdered ==
    ASSUME NEW plan \in {FindSymbols, FindDependents, SymbolContext, TraceDependencies,
                         CompareRefs, ChangeImpact, RepositoryMap, ExplainSearch,
                         FindRunbooks, FindFiles, SearchRepositories, SearchChangeRequests,
                         ArchitectureOverview, FindDependencyUsage, FindTests, AssessChange,
                         RepositoryHealthReport, ListDirectory, ReadFile, FileHistory,
                         FindOwners, ContextPackFor, BuildChangeContext}
    PROVE  PlanIsOrdered(plan)
<1> USE DEF PlanIsOrdered, After, Reads, Finds, Steps
<1>1. CASE plan = FindSymbols
    BY <1>1 DEF FindSymbols
<1>2. CASE plan = FindDependents
    BY <1>2 DEF FindDependents
<1>3. CASE plan = SymbolContext
    BY <1>3 DEF SymbolContext, FindSymbols
<1>4. CASE plan = TraceDependencies
    BY <1>4 DEF TraceDependencies
<1>5. CASE plan = CompareRefs
    BY <1>5 DEF CompareRefs
<1>6. CASE plan = ChangeImpact
    BY <1>6 DEF ChangeImpact, CompareRefs, TraceDependencies
<1>7. CASE plan = RepositoryMap
    BY <1>7 DEF RepositoryMap
<1>8. CASE plan = ExplainSearch
    BY <1>8 DEF ExplainSearch
<1>9. CASE plan = FindRunbooks
    BY <1>9 DEF FindRunbooks
<1>10. CASE plan = FindFiles
    BY <1>10 DEF FindFiles
<1>11. CASE plan = SearchRepositories
    BY <1>11 DEF SearchRepositories
<1>12. CASE plan = SearchChangeRequests
    BY <1>12 DEF SearchChangeRequests
<1>13. CASE plan = ArchitectureOverview
    BY <1>13 DEF ArchitectureOverview
<1>14. CASE plan = FindDependencyUsage
    BY <1>14 DEF FindDependencyUsage
<1>15. CASE plan = FindTests
    BY <1>15 DEF FindTests
<1>16. CASE plan = AssessChange
    BY <1>16 DEF AssessChange, CompareRefs
<1>17. CASE plan = RepositoryHealthReport
    BY <1>17 DEF RepositoryHealthReport
<1>18. CASE plan = ListDirectory
    BY <1>18 DEF ListDirectory
<1>19. CASE plan = ReadFile
    BY <1>19 DEF ReadFile
<1>20. CASE plan = FileHistory
    BY <1>20 DEF FileHistory
<1>21. CASE plan = FindOwners
    BY <1>21 DEF FindOwners, FileHistory
<1>22. CASE plan = ContextPackFor
    BY <1>22 DEF ContextPackFor
<1>23. CASE plan = BuildChangeContext
    BY <1>23 DEF BuildChangeContext
<1> QED BY <1>1, <1>2, <1>3, <1>4, <1>5, <1>6, <1>7, <1>8, <1>9, <1>10, <1>11, <1>12, <1>13, <1>14,
           <1>15, <1>16, <1>17, <1>18, <1>19, <1>20, <1>21, <1>22, <1>23

LEMMA AnswerPlans == ASSUME NEW plan \in {FindOwners, ListDirectory, ReadFile, FileHistory} PROVE AnswerPlan(plan)
<1> USE DEF AnswerPlan, Only
<1>1. AnswerPlan(FindOwners)
    BY DEF FindOwners, FileHistory
<1>2. AnswerPlan(ListDirectory)
    BY DEF ListDirectory
<1>3. AnswerPlan(ReadFile)
    BY DEF ReadFile
<1>4. AnswerPlan(FileHistory)
    BY DEF FileHistory
<1> HIDE DEF AnswerPlan
<1> QED BY <1>1, <1>2, <1>3, <1>4

LEMMA RequiredPlans ==
    ASSUME NEW plan \in {SymbolContext, TraceDependencies, ChangeImpact, RepositoryMap, ExplainSearch,
                         CompareRefs, AssessChange, RepositoryHealthReport}
    PROVE  RequiredPlan(plan)
<1> USE DEF RequiredPlan, Only
<1>1. CASE plan = SymbolContext
    BY <1>1 DEF SymbolContext, FindSymbols
<1>2. CASE plan = TraceDependencies
    BY <1>2 DEF TraceDependencies
<1>3. CASE plan = ChangeImpact
    BY <1>3 DEF ChangeImpact, CompareRefs, TraceDependencies
<1>4. CASE plan = RepositoryMap
    BY <1>4 DEF RepositoryMap
<1>5. CASE plan = ExplainSearch
    BY <1>5 DEF ExplainSearch
<1>6. CASE plan = CompareRefs
    BY <1>6 DEF CompareRefs
<1>7. CASE plan = AssessChange
    BY <1>7 DEF AssessChange, CompareRefs
<1>8. CASE plan = RepositoryHealthReport
    BY <1>8 DEF RepositoryHealthReport
<1> QED BY <1>1, <1>2, <1>3, <1>4, <1>5, <1>6, <1>7, <1>8

LEMMA BundleAndPackPlans == BundlePlan(BuildChangeContext) /\ Only(ContextPackFor, PackSteps)
BY DEF BundlePlan, BuildChangeContext, ContextPackFor, PackSteps, Only

\* No other operation has the plan of BuildChangeContext.
LEMMA BundleHasItsPlan ==
    ASSUME NEW plan \in {FindSymbols, FindDependents, SymbolContext, TraceDependencies,
                         CompareRefs, ChangeImpact, RepositoryMap, ExplainSearch,
                         FindRunbooks, FindFiles, SearchRepositories, SearchChangeRequests,
                         ArchitectureOverview, FindDependencyUsage, FindTests, AssessChange,
                         RepositoryHealthReport, ListDirectory, ReadFile, FileHistory,
                         FindOwners, ContextPackFor}
    PROVE  plan # BuildChangeContext
<1>0. Len(BuildChangeContext) = 7 /\ BuildChangeContext[1] = "symbols"
    BY DEF BuildChangeContext
<1>1. CASE plan = FindSymbols
    <2>1. Len(plan) # 7
        BY <1>1 DEF FindSymbols
    <2> QED BY <1>0, <2>1
<1>2. CASE plan = FindDependents
    <2>1. Len(plan) # 7
        BY <1>2 DEF FindDependents
    <2> QED BY <1>0, <2>1
<1>3. CASE plan = SymbolContext
    <2>1. Len(plan) # 7
        BY <1>3 DEF SymbolContext, FindSymbols
    <2> QED BY <1>0, <2>1
<1>4. CASE plan = TraceDependencies
    <2>1. Len(plan) # 7
        BY <1>4 DEF TraceDependencies
    <2> QED BY <1>0, <2>1
<1>5. CASE plan = CompareRefs
    <2>1. Len(plan) # 7
        BY <1>5 DEF CompareRefs
    <2> QED BY <1>0, <2>1
<1>6. CASE plan = ChangeImpact
    <2>1. Len(plan) # 7
        BY <1>6 DEF ChangeImpact, CompareRefs, TraceDependencies
    <2> QED BY <1>0, <2>1
<1>7. CASE plan = RepositoryMap
    <2>1. Len(plan) # 7
        BY <1>7 DEF RepositoryMap
    <2> QED BY <1>0, <2>1
<1>8. CASE plan = ExplainSearch
    <2>1. Len(plan) # 7
        BY <1>8 DEF ExplainSearch
    <2> QED BY <1>0, <2>1
<1>9. CASE plan = FindRunbooks
    <2>1. Len(plan) # 7
        BY <1>9 DEF FindRunbooks
    <2> QED BY <1>0, <2>1
<1>10. CASE plan = FindFiles
    <2>1. Len(plan) # 7
        BY <1>10 DEF FindFiles
    <2> QED BY <1>0, <2>1
<1>11. CASE plan = SearchRepositories
    <2>1. Len(plan) # 7
        BY <1>11 DEF SearchRepositories
    <2> QED BY <1>0, <2>1
<1>12. CASE plan = SearchChangeRequests
    <2>1. Len(plan) # 7
        BY <1>12 DEF SearchChangeRequests
    <2> QED BY <1>0, <2>1
<1>13. CASE plan = ArchitectureOverview
    <2>1. Len(plan) # 7
        BY <1>13 DEF ArchitectureOverview
    <2> QED BY <1>0, <2>1
<1>14. CASE plan = FindDependencyUsage
    <2>1. Len(plan) # 7
        BY <1>14 DEF FindDependencyUsage
    <2> QED BY <1>0, <2>1
<1>15. CASE plan = FindTests
    <2>1. Len(plan) # 7
        BY <1>15 DEF FindTests
    <2> QED BY <1>0, <2>1
<1>16. CASE plan = AssessChange
    <2>1. plan[1] # "symbols"
        BY <1>16 DEF AssessChange, CompareRefs
    <2> QED BY <1>0, <2>1
<1>17. CASE plan = RepositoryHealthReport
    <2>1. Len(plan) # 7
        BY <1>17 DEF RepositoryHealthReport
    <2> QED BY <1>0, <2>1
<1>18. CASE plan = ListDirectory
    <2>1. Len(plan) # 7
        BY <1>18 DEF ListDirectory
    <2> QED BY <1>0, <2>1
<1>19. CASE plan = ReadFile
    <2>1. Len(plan) # 7
        BY <1>19 DEF ReadFile
    <2> QED BY <1>0, <2>1
<1>20. CASE plan = FileHistory
    <2>1. Len(plan) # 7
        BY <1>20 DEF FileHistory
    <2> QED BY <1>0, <2>1
<1>21. CASE plan = FindOwners
    <2>1. Len(plan) # 7
        BY <1>21 DEF FindOwners, FileHistory
    <2> QED BY <1>0, <2>1
<1>22. CASE plan = ContextPackFor
    <2>1. Len(plan) # 7
        BY <1>22 DEF ContextPackFor
    <2> QED BY <1>0, <2>1
<1> QED BY <1>1, <1>2, <1>3, <1>4, <1>5, <1>6, <1>7, <1>8, <1>9, <1>10, <1>11, <1>12, <1>13, <1>14,
           <1>15, <1>16, <1>17, <1>18, <1>19, <1>20, <1>21, <1>22

\* Only the operations on files resolve who declared what.
LEMMA OthersDeclareNothing ==
    ASSUME NEW plan \in {FindSymbols, FindDependents, SymbolContext, TraceDependencies,
                         CompareRefs, ChangeImpact, RepositoryMap, ExplainSearch,
                         FindRunbooks, FindFiles, SearchRepositories, SearchChangeRequests,
                         ArchitectureOverview, FindDependencyUsage, FindTests, AssessChange,
                         RepositoryHealthReport, ContextPackFor, BuildChangeContext}
    PROVE  ~Ahead(plan, "declared")
<1> USE DEF Ahead
<1>1. CASE plan = FindSymbols
    BY <1>1 DEF FindSymbols
<1>2. CASE plan = FindDependents
    BY <1>2 DEF FindDependents
<1>3. CASE plan = SymbolContext
    BY <1>3 DEF SymbolContext, FindSymbols
<1>4. CASE plan = TraceDependencies
    BY <1>4 DEF TraceDependencies
<1>5. CASE plan = CompareRefs
    BY <1>5 DEF CompareRefs
<1>6. CASE plan = ChangeImpact
    BY <1>6 DEF ChangeImpact, CompareRefs, TraceDependencies
<1>7. CASE plan = RepositoryMap
    BY <1>7 DEF RepositoryMap
<1>8. CASE plan = ExplainSearch
    BY <1>8 DEF ExplainSearch
<1>9. CASE plan = FindRunbooks
    BY <1>9 DEF FindRunbooks
<1>10. CASE plan = FindFiles
    BY <1>10 DEF FindFiles
<1>11. CASE plan = SearchRepositories
    BY <1>11 DEF SearchRepositories
<1>12. CASE plan = SearchChangeRequests
    BY <1>12 DEF SearchChangeRequests
<1>13. CASE plan = ArchitectureOverview
    BY <1>13 DEF ArchitectureOverview
<1>14. CASE plan = FindDependencyUsage
    BY <1>14 DEF FindDependencyUsage
<1>15. CASE plan = FindTests
    BY <1>15 DEF FindTests
<1>16. CASE plan = AssessChange
    BY <1>16 DEF AssessChange, CompareRefs
<1>17. CASE plan = RepositoryHealthReport
    BY <1>17 DEF RepositoryHealthReport
<1>18. CASE plan = ContextPackFor
    BY <1>18 DEF ContextPackFor
<1>19. CASE plan = BuildChangeContext
    BY <1>19 DEF BuildChangeContext
<1> QED BY <1>1, <1>2, <1>3, <1>4, <1>5, <1>6, <1>7, <1>8, <1>9, <1>10, <1>11, <1>12, <1>13, <1>14,
           <1>15, <1>16, <1>17, <1>18, <1>19

\* What the steps of a call need to know of its tool.
ToolIsSound(tool) ==
    /\ PlanIsOrdered(tool.plan) /\ PlanFits(tool, tool.plan)
    /\ tool.plan = BuildChangeContext <=> Unfiltered(tool, "given")
    /\ tool.filter \in {"rows", "answer"} \/ \E check \in {"required", "given", "none"} : Unfiltered(tool, check)

LEMMA ToolsAreSound == ASSUME NEW tool \in Tools PROVE ToolIsSound(tool)
<1> USE DEF Tool, ToolIsSound, PlanIsOrdered, PlanFits, Unfiltered
<1>1. CASE tool = Tool("given", FindSymbols, "rows")
    BY <1>1, PlansAreOrdered, BundleHasItsPlan, OthersDeclareNothing
<1>2. CASE tool = Tool("given", FindRunbooks, "rows")
    BY <1>2, PlansAreOrdered, BundleHasItsPlan, OthersDeclareNothing
<1>3. CASE tool = Tool("given", BuildChangeContext, "none")
    BY <1>3, PlansAreOrdered, BundleAndPackPlans, OthersDeclareNothing
<1>4. CASE tool = Tool("required", SymbolContext, "none")
    BY <1>4, PlansAreOrdered, RequiredPlans, BundleHasItsPlan, OthersDeclareNothing
<1>5. CASE tool = Tool("required", TraceDependencies, "none")
    BY <1>5, PlansAreOrdered, RequiredPlans, BundleHasItsPlan, OthersDeclareNothing
<1>6. CASE tool = Tool("required", ChangeImpact, "none")
    BY <1>6, PlansAreOrdered, RequiredPlans, BundleHasItsPlan, OthersDeclareNothing
<1>7. CASE tool = Tool("required", RepositoryMap, "none")
    BY <1>7, PlansAreOrdered, RequiredPlans, BundleHasItsPlan, OthersDeclareNothing
<1>8. CASE tool = Tool("required", ExplainSearch, "none")
    BY <1>8, PlansAreOrdered, RequiredPlans, BundleHasItsPlan, OthersDeclareNothing
<1>9. CASE tool = Tool("required", CompareRefs, "none")
    BY <1>9, PlansAreOrdered, RequiredPlans, BundleHasItsPlan, OthersDeclareNothing
<1>10. CASE tool = Tool("required", AssessChange, "none")
    BY <1>10, PlansAreOrdered, RequiredPlans, BundleHasItsPlan, OthersDeclareNothing
<1>11. CASE tool = Tool("required", RepositoryHealthReport, "none")
    BY <1>11, PlansAreOrdered, RequiredPlans, BundleHasItsPlan, OthersDeclareNothing
<1>12. CASE tool = Tool("given", FindTests, "rows")
    BY <1>12, PlansAreOrdered, BundleHasItsPlan, OthersDeclareNothing
<1>13. CASE tool = Tool("given", FindOwners, "answer")
    BY <1>13, PlansAreOrdered, AnswerPlans, BundleHasItsPlan
<1>14. CASE tool = Tool("none", FindDependents, "rows")
    BY <1>14, PlansAreOrdered, BundleHasItsPlan, OthersDeclareNothing
<1>15. CASE tool = Tool("none", FindDependencyUsage, "rows")
    BY <1>15, PlansAreOrdered, BundleHasItsPlan, OthersDeclareNothing
<1>16. CASE tool = Tool("none", SearchRepositories, "rows")
    BY <1>16, PlansAreOrdered, BundleHasItsPlan, OthersDeclareNothing
<1>17. CASE tool = Tool("none", ArchitectureOverview, "rows")
    BY <1>17, PlansAreOrdered, BundleHasItsPlan, OthersDeclareNothing
<1>18. CASE tool = Tool("never", SearchChangeRequests, "rows")
    BY <1>18, PlansAreOrdered, BundleHasItsPlan, OthersDeclareNothing
<1>19. CASE tool = Tool("never", FindFiles, "rows")
    BY <1>19, PlansAreOrdered, BundleHasItsPlan, OthersDeclareNothing
<1>20. CASE tool = Tool("never", ListDirectory, "answer")
    BY <1>20, PlansAreOrdered, AnswerPlans, BundleHasItsPlan
<1>21. CASE tool = Tool("never", ReadFile, "answer")
    BY <1>21, PlansAreOrdered, AnswerPlans, BundleHasItsPlan
<1>22. CASE tool = Tool("never", FileHistory, "answer")
    BY <1>22, PlansAreOrdered, AnswerPlans, BundleHasItsPlan
<1>23. CASE tool = Tool("none", ContextPackFor, "none")
    BY <1>23, PlansAreOrdered, BundleAndPackPlans, BundleHasItsPlan, OthersDeclareNothing
<1> QED BY <1>1, <1>2, <1>3, <1>4, <1>5, <1>6, <1>7, <1>8, <1>9, <1>10, <1>11, <1>12, <1>13, <1>14,
           <1>15, <1>16, <1>17, <1>18, <1>19, <1>20, <1>21, <1>22, <1>23 DEF Tools

-----------------------------------------------------------------------------
(* What is left of a plan after its next query.                            *)

LEMMA TailOfPlan ==
    ASSUME NEW plan \in Seq(Steps), plan # <<>>
    PROVE  /\ Tail(plan) \in Seq(Steps) /\ Len(plan) \in Nat \ {0} /\ Head(plan) = plan[1]
           /\ Len(Tail(plan)) = Len(plan) - 1 /\ \A i \in 1..Len(Tail(plan)) : Tail(plan)[i] = plan[i + 1]
OBVIOUS

LEMMA AheadOfTail ==
    ASSUME NEW plan \in Seq(Steps), plan # <<>>, NEW step
    PROVE  /\ Ahead(Tail(plan), step) => Ahead(plan, step)
           /\ Ahead(plan, step) => Head(plan) = step \/ Ahead(Tail(plan), step)
<1>1. ASSUME Ahead(Tail(plan), step) PROVE Ahead(plan, step)
    <2>1. PICK i \in 1..Len(Tail(plan)) : Tail(plan)[i] = step
        BY <1>1 DEF Ahead
    <2>2. i + 1 \in 1..Len(plan) /\ plan[i + 1] = step
        BY <2>1, TailOfPlan
    <2> QED BY <2>2 DEF Ahead
<1>2. ASSUME Ahead(plan, step), Head(plan) # step PROVE Ahead(Tail(plan), step)
    <2>1. PICK i \in 1..Len(plan) : plan[i] = step
        BY <1>2 DEF Ahead
    <2>2. i # 1
        BY <1>2, <2>1, TailOfPlan
    <2>3. i - 1 \in 1..Len(Tail(plan)) /\ Tail(plan)[i - 1] = step
        BY <2>1, <2>2, TailOfPlan
    <2> QED BY <2>3 DEF Ahead
<1> QED BY <1>1, <1>2

LEMMA AfterOfTail ==
    ASSUME NEW plan \in Seq(Steps), plan # <<>>, NEW steps, NEW first, After(plan, steps, first)
    PROVE  /\ Head(plan) \notin steps
           /\ Head(plan) \notin first => After(Tail(plan), steps, first)
<1>1. Head(plan) \notin steps
    BY TailOfPlan DEF After
<1>2. ASSUME Head(plan) \notin first, NEW i \in 1..Len(Tail(plan)), Tail(plan)[i] \in steps
      PROVE  \E j \in 1..(i - 1) : Tail(plan)[j] \in first
    <2>1. i + 1 \in 1..Len(plan) /\ plan[i + 1] \in steps
        BY <1>2, TailOfPlan
    <2>2. PICK j \in 1..i : plan[j] \in first
        BY <2>1 DEF After
    <2>3. j # 1
        BY <1>2, <2>2, TailOfPlan
    <2>4. j - 1 \in 1..(i - 1) /\ Tail(plan)[j - 1] \in first
        BY <2>2, <2>3, TailOfPlan
    <2> QED BY <2>4
<1> QED BY <1>1, <1>2 DEF After

LEMMA OnlyOfTail ==
    ASSUME NEW plan \in Seq(Steps), plan # <<>>, NEW steps, Only(plan, steps)
    PROVE  Head(plan) \in steps /\ Only(Tail(plan), steps)
BY TailOfPlan DEF Only

LEMMA AnswerOfTail ==
    ASSUME NEW plan \in Seq(Steps), plan # <<>>, AnswerPlan(plan)
    PROVE  /\ AnswerPlan(Tail(plan))
           /\ Head(plan) \in {"files", "resolve", "declared"} => Ahead(Tail(plan), "one")
<1>1. ASSUME NEW i \in 1..Len(plan), plan[i] \in {"files", "resolve", "declared"}
      PROVE  \E j \in i..Len(Tail(plan)) : Tail(plan)[j] = "one"
    <2>1. PICK j \in (i + 1)..Len(plan) : plan[j] = "one"
        BY <1>1 DEF AnswerPlan
    <2>2. j - 1 \in i..Len(Tail(plan)) /\ Tail(plan)[j - 1] = "one"
        BY <2>1, TailOfPlan
    <2> QED BY <2>2
<1>2. ASSUME NEW i \in 1..Len(Tail(plan)), Tail(plan)[i] \in {"files", "resolve", "declared"}
      PROVE  \E j \in (i + 1)..Len(Tail(plan)) : Tail(plan)[j] = "one"
    <2>1. i + 1 \in 1..Len(plan) /\ plan[i + 1] \in {"files", "resolve", "declared"}
        BY <1>2, TailOfPlan
    <2> QED BY <2>1, <1>1
<1>3. Head(plan) \in {"files", "resolve", "declared"} => Ahead(Tail(plan), "one")
    BY <1>1, TailOfPlan DEF Ahead
<1> QED BY <1>2, <1>3, OnlyOfTail DEF AnswerPlan

LEMMA RequiredOfTail ==
    ASSUME NEW plan \in Seq(Steps), plan # <<>>, RequiredPlan(plan)
    PROVE  /\ RequiredPlan(Tail(plan))
           /\ Ahead(plan, "pick") => Head(plan) \in {"symbols", "pick"}
           /\ Ahead(Tail(plan), "pick") => Head(plan) = "symbols"
<1>1. ASSUME NEW i \in 1..Len(Tail(plan)), Tail(plan)[i] = "pick", NEW j \in 1..(i - 1)
      PROVE  Tail(plan)[j] = "symbols"
    <2>1. i + 1 \in 1..Len(plan) /\ plan[i + 1] = "pick" /\ j + 1 \in 1..i /\ Tail(plan)[j] = plan[j + 1]
        BY <1>1, TailOfPlan
    <2> QED BY <2>1 DEF RequiredPlan
<1>2. RequiredPlan(Tail(plan))
    BY <1>1, OnlyOfTail DEF RequiredPlan
<1>3. ASSUME NEW i \in 1..Len(plan), plan[i] = "pick", i # 1 PROVE plan[1] = "symbols"
    BY <1>3 DEF RequiredPlan
<1>4. Ahead(plan, "pick") => Head(plan) \in {"symbols", "pick"}
    BY <1>3, TailOfPlan DEF Ahead
<1>5. Ahead(Tail(plan), "pick") => Head(plan) = "symbols"
    BY <1>3, TailOfPlan DEF Ahead
<1> QED BY <1>2, <1>4, <1>5

LEMMA BundleOfTail ==
    ASSUME NEW plan \in Seq(Steps), plan # <<>>, BundlePlan(plan)
    PROVE  /\ BundlePlan(Tail(plan))
           /\ Head(plan) = "symbols" <=> Ahead(Tail(plan), "target")
           /\ Head(plan) = "authorize" => /\ Tail(plan) # <<>> /\ BundlePlan(Tail(Tail(plan)))
                                          /\ After(Tail(Tail(plan)), Reads, Finds)
<1>1. ASSUME NEW p \in Seq(Steps), p # <<>>, BundlePlan(p) PROVE BundlePlan(Tail(p))
    <2> DEFINE q == Tail(p)
    <2>0. /\ q \in Seq(Steps) /\ Len(q) \in Nat /\ Len(p) = Len(q) + 1
          /\ \A i \in 1..Len(q) : i + 1 \in 1..Len(p) /\ q[i] = p[i + 1]
        BY <1>1, TailOfPlan
    <2> HIDE DEF q
    <2>1. Only(q, {"symbols", "target", "dependents", "authorize", "content", "tests", "live"})
        BY <1>1, <2>0 DEF BundlePlan, Only
    <2> SUFFICES ASSUME NEW i \in 1..Len(q)
                 PROVE  /\ q[i] = "symbols" => \E j \in (i + 1)..Len(q) : q[j] = "target"
                        /\ q[i] = "target" => \A j \in 1..(i - 1) : q[j] = "symbols"
                        /\ q[i] = "authorize" => i < Len(q) /\ q[i + 1] = "content"
                        /\ q[i] = "content" => \A j \in 1..Len(q) : q[j] = "content" => i = j
        BY <2>1 DEF BundlePlan, q
    <2>2. ASSUME q[i] = "symbols" PROVE \E j \in (i + 1)..Len(q) : q[j] = "target"
        <3>1. PICK j \in (i + 2)..Len(p) : p[j] = "target"
            BY <1>1, <2>0, <2>2 DEF BundlePlan
        <3>2. j - 1 \in (i + 1)..Len(q) /\ q[j - 1] = "target"
            BY <2>0, <3>1
        <3> QED BY <3>2
    <2>3. ASSUME q[i] = "target", NEW j \in 1..(i - 1) PROVE q[j] = "symbols"
        <3>1. j \in 1..Len(q) /\ j + 1 \in 1..((i + 1) - 1)
            BY <2>0
        <3>2. i + 1 \in 1..Len(p) /\ p[i + 1] = "target"
            BY <2>0, <2>3
        <3>3. p[j + 1] = "symbols"
            BY <1>1, <3>1, <3>2 DEF BundlePlan
        <3> QED BY <2>0, <3>1, <3>3
    <2>4. ASSUME q[i] = "authorize" PROVE i < Len(q) /\ q[i + 1] = "content"
        <3>1. i + 1 < Len(p) /\ p[i + 2] = "content"
            BY <1>1, <2>0, <2>4 DEF BundlePlan
        <3> QED BY <2>0, <3>1
    <2>5. ASSUME q[i] = "content", NEW j \in 1..Len(q), q[j] = "content" PROVE i = j
        <3>1. i + 1 = j + 1
            BY <1>1, <2>0, <2>5, SMTT(20) DEF BundlePlan
        <3> QED BY <3>1
    <2> QED BY <2>2, <2>3, <2>4, <2>5
<1>2. ASSUME Head(plan) = "symbols" PROVE Ahead(Tail(plan), "target")
    <2>1. PICK j \in 2..Len(plan) : plan[j] = "target"
        BY <1>2, TailOfPlan DEF BundlePlan
    <2>2. j - 1 \in 1..Len(Tail(plan)) /\ Tail(plan)[j - 1] = "target"
        BY <2>1, TailOfPlan
    <2> QED BY <2>2 DEF Ahead
<1>3. ASSUME Ahead(Tail(plan), "target") PROVE Head(plan) = "symbols"
    <2>1. PICK i \in 1..Len(Tail(plan)) : Tail(plan)[i] = "target"
        BY <1>3 DEF Ahead
    <2>2. i + 1 \in 1..Len(plan) /\ plan[i + 1] = "target" /\ 1 \in 1..i
        BY <2>1, TailOfPlan
    <2>3. plan[1] = "symbols"
        BY <2>2 DEF BundlePlan
    <2> QED BY <2>3, TailOfPlan
<1>4. ASSUME Head(plan) = "authorize"
      PROVE  /\ Tail(plan) # <<>> /\ BundlePlan(Tail(Tail(plan)))
             /\ After(Tail(Tail(plan)), Reads, Finds)
    <2> DEFINE q == Tail(plan)
    <2>1. 1 \in 1..Len(plan) /\ plan[1] = "authorize"
        BY <1>4, TailOfPlan
    <2>2. 1 < Len(plan) /\ plan[2] = "content"
        BY <2>1 DEF BundlePlan
    <2>3. q # <<>> /\ q \in Seq(Steps) /\ Len(q) = Len(plan) - 1 /\ Len(plan) \in Nat
        <3>1. q \in Seq(Steps) /\ Len(q) = Len(plan) - 1 /\ Len(plan) \in Nat
            BY TailOfPlan
        <3>2. Len(q) # 0
            BY <2>2, <3>1
        <3> HIDE DEF q
        <3>3. q # <<>>
            BY <3>2
        <3> QED BY <3>1, <3>3
    <2>4. BundlePlan(q)
        BY <1>1
    <2>5. BundlePlan(Tail(q))
        BY <1>1, <2>3, <2>4
    <2>6. Len(Tail(q)) = Len(plan) - 2 /\ \A i \in 1..Len(Tail(q)) : Tail(q)[i] = plan[i + 2]
        BY <2>3, TailOfPlan
    <2>7. ASSUME NEW i \in 1..Len(Tail(q)) PROVE Tail(q)[i] \notin Reads
        <3>1. i + 2 \in 1..Len(plan) /\ 2 \in 1..Len(plan) /\ Tail(q)[i] = plan[i + 2]
            BY <2>2, <2>3, <2>6
        <3>2. plan[i + 2] # "content"
            BY <2>2, <3>1 DEF BundlePlan
        <3>3. plan[i + 2] \notin {"head", "body"}
            BY <3>1 DEF BundlePlan, Only
        <3> QED BY <3>1, <3>2, <3>3 DEF Reads
    <2> QED BY <2>3, <2>5, <2>7 DEF After
<1> QED BY <1>1, <1>2, <1>3, <1>4

-----------------------------------------------------------------------------
(* IndexTools: what a query of a tool can be, and what it leaves.           *)

LEMMA TailFits ==
    ASSUME NEW tool, NEW plan, PlanFits(tool, plan), plan # <<>>
    PROVE  PlanFits(tool, Tail(plan))
<1>1. Tail(plan) \in Seq(Steps)
    BY TailOfPlan DEF PlanFits
<1>2. tool.filter = "answer" => AnswerPlan(Tail(plan))
    BY AnswerOfTail DEF PlanFits
<1>3. tool.filter # "answer" => ~Ahead(Tail(plan), "declared")
    BY AheadOfTail DEF PlanFits
<1>4. Unfiltered(tool, "required") => RequiredPlan(Tail(plan))
    BY RequiredOfTail DEF PlanFits
<1>5. Unfiltered(tool, "given") => BundlePlan(Tail(plan))
    BY BundleOfTail DEF PlanFits
<1>6. Unfiltered(tool, "none") => Only(Tail(plan), PackSteps)
    BY OnlyOfTail DEF PlanFits
<1> QED BY <1>1, <1>2, <1>3, <1>4, <1>5, <1>6 DEF PlanFits

LEMMA NothingFits == ASSUME NEW tool PROVE PlanFits(tool, <<>>)
<1>1. <<>> \in Seq(Steps) /\ Len(<<>>) = 0
    OBVIOUS
<1> QED BY <1>1 DEF PlanFits, AnswerPlan, RequiredPlan, BundlePlan, Only, Ahead

\* What is known of the call when a query is its next.
LEMMA ReadyFits ==
    ASSUME CallTypes, NEW step, Ready(step)
    PROVE  /\ call.plan \in Seq(Steps) /\ call.plan # <<>> /\ Head(call.plan) = step
           /\ call # Idle /\ call.tool \in Tools /\ visible \subseteq could /\ call.result = "none"
           /\ PlanFits(call.tool, Tail(call.plan))
           /\ call.tool.filter = "answer" =>
                 /\ step \in {"files", "resolve", "declared", "one", "body", "live"}
                 /\ step \in {"files", "resolve", "declared"} => Ahead(Tail(call.plan), "one")
                 /\ Ahead(call.plan, "one") => step = "one" \/ Ahead(Tail(call.plan), "one")
           /\ call.tool.filter # "answer" => step # "declared"
           /\ Unfiltered(call.tool, "required") =>
                 /\ step \in {"symbols", "pick", "content", "authorize", "both", "head", "map",
                              "changes", "consumers", "ages"}
                 /\ Ahead(call.plan, "pick") => step \in {"symbols", "pick"}
                 /\ Ahead(Tail(call.plan), "pick") => step = "symbols"
           /\ Unfiltered(call.tool, "given") =>
                 /\ step \in {"symbols", "target", "dependents", "authorize", "content", "tests", "live"}
                 /\ Ahead(Tail(call.plan), "target") <=> step = "symbols"
                 /\ Ahead(call.plan, "target") <=> step \in {"symbols", "target"}
           /\ Unfiltered(call.tool, "none") => step \in PackSteps
<1> DEFINE plan == call.plan
<1>1. plan # <<>> /\ call.result = "none" /\ Head(plan) = step
    BY DEF Ready
<1>2. plan \in Seq(Steps) /\ PlanFits(call.tool, plan)
    BY DEF CallTypes, PlanFits
<1>3. call # Idle /\ call.tool \in Tools /\ visible \subseteq could
    BY <1>1 DEF CallTypes, Idle
<1>4. PlanFits(call.tool, Tail(plan))
    BY <1>1, <1>2, TailFits
<1>5. Len(plan) \in Nat \ {0} /\ plan[1] = step
    BY <1>1, <1>2, TailOfPlan
<1> HIDE DEF plan
<1>6. Ahead(plan, step)
    BY <1>5 DEF Ahead
<1>7. call.tool.filter = "answer" =>
         /\ step \in {"files", "resolve", "declared", "one", "body", "live"}
         /\ step \in {"files", "resolve", "declared"} => Ahead(Tail(plan), "one")
         /\ Ahead(plan, "one") => step = "one" \/ Ahead(Tail(plan), "one")
    BY <1>1, <1>2, AnswerOfTail, AheadOfTail, OnlyOfTail DEF PlanFits, AnswerPlan
<1>8. call.tool.filter # "answer" => step # "declared"
    BY <1>2, <1>6 DEF PlanFits
<1>9. Unfiltered(call.tool, "required") =>
         /\ step \in {"symbols", "pick", "content", "authorize", "both", "head", "map",
                      "changes", "consumers", "ages"}
         /\ Ahead(plan, "pick") => step \in {"symbols", "pick"}
         /\ Ahead(Tail(plan), "pick") => step = "symbols"
    BY <1>1, <1>2, RequiredOfTail, OnlyOfTail DEF PlanFits, RequiredPlan
<1>10. Unfiltered(call.tool, "given") =>
         /\ step \in {"symbols", "target", "dependents", "authorize", "content", "tests", "live"}
         /\ Ahead(Tail(plan), "target") <=> step = "symbols"
         /\ Ahead(plan, "target") <=> step \in {"symbols", "target"}
    <2> SUFFICES ASSUME BundlePlan(plan)
                 PROVE  /\ step \in {"symbols", "target", "dependents", "authorize", "content", "tests", "live"}
                        /\ Ahead(Tail(plan), "target") <=> step = "symbols"
                        /\ Ahead(plan, "target") <=> step \in {"symbols", "target"}
        BY <1>2 DEF PlanFits
    <2>1. step \in {"symbols", "target", "dependents", "authorize", "content", "tests", "live"}
        BY <1>1, <1>2, OnlyOfTail DEF BundlePlan
    <2>2. Ahead(Tail(plan), "target") <=> step = "symbols"
        BY <1>1, <1>2, BundleOfTail
    <2>3. Ahead(plan, "target") <=> step \in {"symbols", "target"}
        BY <1>1, <1>2, <1>6, <2>2, AheadOfTail
    <2> QED BY <2>1, <2>2, <2>3
<1>11. Unfiltered(call.tool, "none") => step \in PackSteps
    BY <1>1, <1>2, OnlyOfTail DEF PlanFits
<1> USE DEF plan
<1> QED BY <1>1, <1>2, <1>3, <1>4, <1>7, <1>8, <1>9, <1>10, <1>11

LEMMA FindsOfTail ==
    ASSUME CallTypes, LibraryIsFound, DeclarersAreFound, NEW step, Ready(step)
    PROVE  /\ step \in Reads => call.lib \in could
           /\ step \notin Finds => call.lib \in could \/ After(Tail(call.plan), Reads, Finds)
           /\ call.tool.filter = "answer" =>
                 /\ step = "declared" => call.todo \subseteq could
                 /\ step # "resolve" => \/ call.todo \subseteq could
                                        \/ After(Tail(call.plan), {"declared"}, {"resolve"})
<1>1. call.plan \in Seq(Steps) /\ call.plan # <<>> /\ Head(call.plan) = step
    BY ReadyFits
<1>2. After(call.plan, Reads, Finds) =>
         step \notin Reads /\ (step \notin Finds => After(Tail(call.plan), Reads, Finds))
    BY <1>1, AfterOfTail
<1>3. After(call.plan, {"declared"}, {"resolve"}) =>
         step # "declared" /\ (step # "resolve" => After(Tail(call.plan), {"declared"}, {"resolve"}))
    BY <1>1, AfterOfTail
<1> QED BY <1>2, <1>3 DEF LibraryIsFound, DeclarersAreFound

-----------------------------------------------------------------------------
(* IndexTools: the steps. *)

RowsPermitted == RowsAreOfTheFile /\ RowsAreOfTheLibrary /\ RowsAreOfTheTarget /\ RowsAreOfThePack

\* What a query can read: rows of the table of a repository, and of the repositories
\* the user sees, which the library given narrows.
IsRow(row) == DOMAIN row = {"repo", "ref", "at", "by"} /\ row.by = Head(call.plan)

LEMMA TableRows ==
    ASSUME NEW r, NEW f
    PROVE  \A row \in Table(r, f) : IsRow(row) /\ row.repo = r
BY DEF Table, Row, IsRow

LEMMA UnionRows ==
    ASSUME NEW repos, NEW row \in UNION {Table(r, "main") : r \in repos}
    PROVE  IsRow(row) /\ row.repo \in repos
<1>1. PICK r \in repos : row \in Table(r, "main")
    OBVIOUS
<1> QED BY <1>1, TableRows

LEMMA FoundRows ==
    ASSUME NEW row \in Symbols \cup Files
    PROVE  IsRow(row) /\ row.repo \in RepositoryACL
BY UnionRows DEF Symbols, Files

LEMMA NarrowedByTheKey ==
    ASSUME CallTypes, NEW r \in RepositoryACL, LibraryAllowed(call.lib)
    PROVE  LibraryAllowed(r)
BY AnsweringAssumption DEF CallTypes, RepositoryACL, LibraryAllowed

\* The library of the call and its plan may change as they do in every step.
LEMMA PlanKept ==
    ASSUME CallTypes, Still, call.tool \in Tools, visible \subseteq could,
           DOMAIN call' = DOMAIN call, call'.tool = call.tool, call'.result \in {"none", "answer", "error"},
           PlanFits(call.tool, call'.plan),
           call'.lib \in could \/ After(call'.plan, Reads, Finds),
           call.tool.filter = "answer" => call'.todo \subseteq could \/ After(call'.plan, {"declared"}, {"resolve"})
    PROVE  CallTypes' /\ LibraryIsFound' /\ DeclarersAreFound'
<1>1. UNCHANGED <<visible, allowed, could>>
    BY DEF Still
<1>2. (DOMAIN call = DOMAIN Idle)'
    BY DEF CallTypes, Idle
<1>3. CallTypes'
    BY <1>1, <1>2 DEF CallTypes
<1> QED BY <1>1, <1>3 DEF LibraryIsFound, DeclarersAreFound

\* A query of which the call goes on.
LEMMA GoesOn ==
    ASSUME PermittedInv, NEW step, Ready(step), Still, step # "resolve",
           step \in Finds => call.lib \in could,
           NEW R, Goes(R),
           \A row \in R : DOMAIN row = {"repo", "ref", "at", "by"} /\ row.repo \in could,
           call.tool.filter = "answer" /\ step \notin {"files", "resolve", "declared"} =>
              step # "one" /\ \A row \in R : row \in call.rows \/ row.by = "declared" \/ row.repo = call.lib,
           Unfiltered(call.tool, "required") =>
              \A row \in R : row \in call.rows \/ LibraryAllowed(row.repo) \/ (row.by = "consumers" /\ step = "consumers"),
           Unfiltered(call.tool, "given") =>
              \A row \in R : IF step = "symbols" THEN row.by = "symbols"
                             ELSE /\ step # "target"
                                  /\ row \in call.rows \/ LibraryAllowed(row.repo) \/ (row.by = "tests" /\ call.lib = None),
           Unfiltered(call.tool, "none") =>
              \A row \in R : row \in call.rows \/ LibraryAllowed(row.repo)
    PROVE  PermittedInv'
<1>0. CallTypes /\ LibraryIsFound /\ DeclarersAreFound /\ RowsPermitted
    BY DEF PermittedInv, Ready, RowsPermitted
<1>1. /\ DOMAIN call' = DOMAIN call /\ call'.tool = call.tool /\ call'.plan = Tail(call.plan)
      /\ call'.rows = R /\ call'.lib = call.lib /\ call'.todo = call.todo /\ call'.result = call.result
    BY <1>0 DEF Goes, CallTypes, Idle
<1>2. UNCHANGED <<visible, allowed, could>>
    BY DEF Still
<1>3. CallTypes' /\ LibraryIsFound' /\ DeclarersAreFound'
    BY <1>0, <1>1, ReadyFits, FindsOfTail, PlanKept DEF CallTypes
<1>4. RowsWereVisible'
    BY <1>1, <1>2 DEF RowsWereVisible
<1>5. RowsAreOfTheFile'
    BY <1>0, <1>1, ReadyFits DEF RowsAreOfTheFile, RowsPermitted
<1>6. RowsAreOfTheLibrary'
    <2> SUFFICES ASSUME Unfiltered(call.tool, "required")
                 PROVE  /\ LibraryAllowed(call.lib)
                        /\ \A row \in R : \/ LibraryAllowed(row.repo)
                                          \/ row.by = "consumers" /\ ~Ahead(Tail(call.plan), "pick")
        BY <1>1, <1>2 DEF RowsAreOfTheLibrary, LibraryAllowed, Unfiltered
    <2>1. /\ Ahead(Tail(call.plan), "pick") => step = "symbols"
          /\ Ahead(Tail(call.plan), "pick") => Ahead(call.plan, "pick")
        BY <1>0, ReadyFits, AheadOfTail
    <2>2. /\ LibraryAllowed(call.lib)
          /\ \A row \in call.rows : \/ LibraryAllowed(row.repo)
                                    \/ row.by = "consumers" /\ ~Ahead(call.plan, "pick")
        BY <1>0 DEF RowsAreOfTheLibrary, RowsPermitted
    <2>3. ASSUME NEW row \in R
          PROVE  \/ LibraryAllowed(row.repo)
                 \/ row.by = "consumers" /\ ~Ahead(Tail(call.plan), "pick")
        <3>1. row \in call.rows \/ LibraryAllowed(row.repo) \/ (row.by = "consumers" /\ step = "consumers")
            BY <2>3
        <3> QED BY <2>1, <2>2, <3>1
    <2> QED BY <2>2, <2>3
<1>7. RowsAreOfTheTarget'
    BY <1>0, <1>1, <1>2, ReadyFits DEF RowsAreOfTheTarget, RowsPermitted, LibraryAllowed, Unfiltered
<1>8. RowsAreOfThePack'
    BY <1>0, <1>1, <1>2 DEF RowsAreOfThePack, RowsPermitted, LibraryAllowed, Unfiltered
<1>9. AnswerIsPermitted'
    BY <1>1, ReadyFits, <1>0 DEF AnswerIsPermitted, Answered
<1> QED BY <1>3, <1>4, <1>5, <1>6, <1>7, <1>8, <1>9 DEF PermittedInv

\* A query that ends the call with an error.
LEMMA Ends ==
    ASSUME PermittedInv, NEW step, Ready(step), Still, Errs
    PROVE  PermittedInv'
<1>0. CallTypes /\ LibraryIsFound /\ DeclarersAreFound
    BY DEF PermittedInv
<1>1. /\ DOMAIN call' = DOMAIN call /\ call'.tool = call.tool /\ call'.plan = call.plan
      /\ call'.rows = {} /\ call'.lib = call.lib /\ call'.todo = call.todo /\ call'.result = "error"
    BY <1>0 DEF Errs, CallTypes, Idle
<1>2. CallTypes' /\ LibraryIsFound' /\ DeclarersAreFound'
    BY <1>0, <1>1, ReadyFits, PlanKept DEF CallTypes, LibraryIsFound, DeclarersAreFound
<1> QED BY <1>1, <1>2 DEF PermittedInv, RowsWereVisible, AnswerIsPermitted, Answered

\* A step that leaves the plan behind it.
Becomes(plan, lib, todo, rows) ==
    /\ DOMAIN call' = DOMAIN call /\ call'.tool = call.tool /\ call'.result = call.result
    /\ call'.plan = plan /\ call'.lib = lib /\ call'.todo = todo /\ call'.rows = rows

LEMMA Otherwise ==
    ASSUME PermittedInv, NEW step, Ready(step), Still,
           NEW plan, NEW lib, NEW todo, NEW rows,
           Becomes(plan, lib, todo, rows),
           PlanFits(call.tool, plan),
           lib \in could \/ After(plan, Reads, Finds),
           call.tool.filter = "answer" => todo \subseteq could \/ After(plan, {"declared"}, {"resolve"}),
           \A row \in rows : DOMAIN row = {"repo", "ref", "at", "by"} /\ row.repo \in could,
           call.tool.filter = "answer" =>
              Ahead(plan, "one") \/ \A row \in rows : row.by = "declared" \/ row.repo = lib,
           Unfiltered(call.tool, "required") =>
              /\ LibraryAllowed(lib)
              /\ \A row \in rows : LibraryAllowed(row.repo) \/ (row.by = "consumers" /\ ~Ahead(plan, "pick")),
           Unfiltered(call.tool, "given") =>
              /\ lib = None \/ LibraryAllowed(lib)
              /\ ~Ahead(plan, "target")
              /\ \A row \in rows : LibraryAllowed(row.repo) \/ (row.by = "tests" /\ lib = None),
           Unfiltered(call.tool, "none") =>
              /\ \A r \in todo : LibraryAllowed(r)
              /\ \A row \in rows : row.by = "loose" \/ LibraryAllowed(row.repo)
    PROVE  PermittedInv'
<1>0. CallTypes
    BY DEF PermittedInv
<1>1. /\ DOMAIN call' = DOMAIN call /\ call'.tool = call.tool /\ call'.plan = plan
      /\ call'.rows = rows /\ call'.lib = lib /\ call'.todo = todo /\ call'.result = "none"
    BY DEF Becomes, Ready
<1>2. UNCHANGED <<visible, allowed, could>>
    BY DEF Still
<1>3. CallTypes' /\ LibraryIsFound' /\ DeclarersAreFound'
    BY <1>0, <1>1, ReadyFits, PlanKept
<1>4. RowsWereVisible'
    BY <1>1, <1>2 DEF RowsWereVisible
<1>5. RowsAreOfTheFile'
    BY <1>1 DEF RowsAreOfTheFile
<1>6. RowsAreOfTheLibrary'
    BY <1>1, <1>2 DEF RowsAreOfTheLibrary, LibraryAllowed, Unfiltered
<1>7. RowsAreOfTheTarget'
    BY <1>1, <1>2 DEF RowsAreOfTheTarget, LibraryAllowed, Unfiltered
<1>8. RowsAreOfThePack'
    BY <1>1, <1>2 DEF RowsAreOfThePack, LibraryAllowed, Unfiltered
<1>9. AnswerIsPermitted'
    BY <1>1 DEF AnswerIsPermitted, Answered
<1> QED BY <1>3, <1>4, <1>5, <1>6, <1>7, <1>8, <1>9 DEF PermittedInv

\* What the rows of a call are known to be when a query is next.
LEMMA RowsNow ==
    ASSUME PermittedInv, NEW step, Ready(step)
    PROVE  /\ CallTypes /\ RowsPermitted /\ DOMAIN call = DOMAIN Idle
           /\ visible \subseteq could /\ could \subseteq Repos /\ call.tool \in Tools /\ call.result = "none"
           /\ \A row \in call.rows : DOMAIN row = {"repo", "ref", "at", "by"} /\ row.repo \in could
           /\ Unfiltered(call.tool, "required") => LibraryAllowed(call.lib)
           /\ Unfiltered(call.tool, "given") => call.lib = None \/ LibraryAllowed(call.lib)
<1>1. CallTypes /\ RowsWereVisible /\ RowsPermitted
    BY DEF PermittedInv, Ready, RowsPermitted
<1>2. RowsAreOfTheLibrary /\ RowsAreOfTheTarget
    BY <1>1 DEF RowsPermitted
<1> QED BY <1>1, <1>2, ReadyFits
           DEF CallTypes, RowsWereVisible, RowsAreOfTheLibrary, RowsAreOfTheTarget

\* The plan of a tool is the one of BuildChangeContext exactly when its handler checks
\* the libraryId given and filters nothing.
LEMMA OfTheBundle ==
    ASSUME CallTypes, NEW step, Ready(step)
    PROVE  call.tool.plan = BuildChangeContext <=> Unfiltered(call.tool, "given")
BY ReadyFits, ToolsAreSound DEF ToolIsSound

\* A query that keeps the rows found before.
LEMMA RowsStay ==
    ASSUME PermittedInv, Still, Goes(call.rows),
           NEW step \in {"requests", "more", "both", "map", "body", "live", "ages", "owners", "changes",
                         "conventions", "entrypoints", "libraries"}, Ready(step)
    PROVE  PermittedInv'
<1>1. step \notin Finds /\ step \notin {"resolve", "one", "symbols", "target"}
    BY DEF Finds
<1>2. \A row \in call.rows : DOMAIN row = {"repo", "ref", "at", "by"} /\ row.repo \in could
    BY RowsNow
<1> QED BY <1>1, <1>2, GoesOn

\* A query that reads the library found before.
LEMMA ReadsTheLibrary ==
    ASSUME PermittedInv, Still, NEW step \in {"content", "head", "body"}, Ready(step),
           NEW f, Goes(call.rows \cup Table(call.lib, f))
    PROVE  PermittedInv'
<1> DEFINE R == call.rows \cup Table(call.lib, f)
<1>1. step \notin Finds /\ step \notin {"resolve", "one", "symbols", "target"}
    BY DEF Finds
<1>2. call.lib \in could /\ call.lib # None
    <2>1. CallTypes /\ LibraryIsFound /\ DeclarersAreFound
        BY DEF PermittedInv
    <2>2. step \in Reads
        BY DEF Reads
    <2> QED BY <2>1, <2>2, FindsOfTail, RowsNow, AnsweringAssumption
<1>3. \A row \in R : row \in call.rows \/ (IsRow(row) /\ row.repo = call.lib)
    BY TableRows
<1>4. \A row \in R : DOMAIN row = {"repo", "ref", "at", "by"} /\ row.repo \in could
    BY <1>2, <1>3, RowsNow DEF IsRow
<1>5. Unfiltered(call.tool, "required") \/ Unfiltered(call.tool, "given") => LibraryAllowed(call.lib)
    BY <1>2, RowsNow
<1>6. ~Unfiltered(call.tool, "none")
    BY RowsNow, ReadyFits DEF PackSteps
<1> HIDE DEF R
<1>7. \A row \in R : row \in call.rows \/ row.repo = call.lib
    BY <1>3
<1>8. Goes(R)
    BY DEF R
<1> QED BY <1>1, <1>4, <1>5, <1>6, <1>7, <1>8, GoesOn

\* An operation that gives up where it reads a file.
LEMMA GivenUp ==
    ASSUME PermittedInv, Still, GivesUp, NEW step \in {"one", "live"}, Ready(step),
           call.tool.plan # BuildChangeContext
    PROVE  PermittedInv'
<1>1. CASE Declared = {}
    <2>1. Errs
        BY <1>1 DEF GivesUp
    <2> QED BY <2>1, Ends
<1>2. CASE Declared # {}
    <2> DEFINE lib == CHOOSE r \in call.todo : TRUE
    <2>1. Becomes(<<>>, lib, call.todo, Declared)
        BY <1>2, RowsNow DEF GivesUp, Becomes, Idle
    <2>2. \A row \in Declared : row \in call.rows /\ row.by = "declared"
        BY DEF Declared
    <2>3. After(<<>>, Reads, Finds) /\ After(<<>>, {"declared"}, {"resolve"})
        BY DEF After
    <2>4. ~Unfiltered(call.tool, "required") /\ ~Unfiltered(call.tool, "given") /\ ~Unfiltered(call.tool, "none")
        BY RowsNow, ReadyFits, OfTheBundle DEF PackSteps
    <2> HIDE DEF lib
    <2> QED BY <2>1, <2>2, <2>3, <2>4, NothingFits, RowsNow, Otherwise
<1> QED BY <1>1, <1>2

LEMMA Singleton ==
    ASSUME CallTypes, RowsWereVisible, Cardinality(Libraries) = 1
    PROVE  \E r \in could : Libraries = {r} /\ r = CHOOSE q \in Libraries : TRUE
<1>1. Libraries \subseteq could /\ could \subseteq Repos
    BY DEF CallTypes, RowsWereVisible, Libraries, Declared
<1>2. IsFiniteSet(Libraries)
    BY <1>1, AnsweringAssumption, FS_Subset
<1>3. PICK r : Libraries = {r}
    BY <1>2, FS_Singleton
<1> QED BY <1>1, <1>3
-----------------------------------------------------------------------------
(* IndexTools: one lemma for each of its queries.                          *)

LEMMA SymbolQueryKeeps == ASSUME PermittedInv, SymbolQuery PROVE PermittedInv'
<1>1. Ready("symbols") /\ Still /\ Goes(Symbols) /\ "symbols" \notin Finds
    BY DEF SymbolQuery, Finds
<1>2. \A row \in Symbols : IsRow(row) /\ row.repo \in RepositoryACL /\ row.by = "symbols"
    BY <1>1, FoundRows DEF IsRow, Ready
<1>3. \A row \in Symbols : DOMAIN row = {"repo", "ref", "at", "by"} /\ row.repo \in could
    BY <1>1, <1>2, RowsNow DEF IsRow, RepositoryACL
<1>4. Unfiltered(call.tool, "required") => \A row \in Symbols : LibraryAllowed(row.repo)
    BY <1>1, <1>2, RowsNow, NarrowedByTheKey
<1>5. call.tool.filter # "answer" /\ ~Unfiltered(call.tool, "none")
    BY <1>1, RowsNow, ReadyFits DEF PackSteps
<1> QED BY <1>1, <1>2, <1>3, <1>4, <1>5, GoesOn

LEMMA FileQueryKeeps == ASSUME PermittedInv, FileQuery PROVE PermittedInv'
<1> DEFINE R == Declared \cup Files
<1>1. Ready("files") /\ Still /\ Goes(R) /\ "files" \notin Finds
    BY DEF FileQuery, Finds
<1>2. \A row \in R : row \in call.rows \/ (IsRow(row) /\ row.repo \in RepositoryACL)
    BY FoundRows DEF Declared
<1>3. \A row \in R : DOMAIN row = {"repo", "ref", "at", "by"} /\ row.repo \in could
    BY <1>1, <1>2, RowsNow DEF IsRow, RepositoryACL
<1>4. /\ ~Unfiltered(call.tool, "required") /\ ~Unfiltered(call.tool, "given")
      /\ ~Unfiltered(call.tool, "none")
    BY <1>1, RowsNow, ReadyFits DEF PackSteps
<1> HIDE DEF R
<1> QED BY <1>1, <1>3, <1>4, GoesOn

\* The queries of the operations whose rows the handler filters.
LEMMA FilteredKeeps ==
    ASSUME PermittedInv, Still,
           NEW step \in {"repositories", "more", "trees", "references", "owners", "freshness"}, Ready(step),
           NEW R, Goes(R),
           \A row \in R : DOMAIN row = {"repo", "ref", "at", "by"} /\ row.repo \in could
    PROVE  PermittedInv'
<1>1. step \notin Finds /\ step # "resolve"
    BY DEF Finds
<1>2. /\ ~Unfiltered(call.tool, "required") /\ ~Unfiltered(call.tool, "given")
      /\ ~Unfiltered(call.tool, "none") /\ call.tool.filter # "answer"
    BY RowsNow, ReadyFits DEF PackSteps
<1> QED BY <1>1, <1>2, GoesOn

LEMMA RepositoryQueryKeeps == ASSUME PermittedInv, RepositoryQuery PROVE PermittedInv'
<1> DEFINE R == {Row(r, "main") : r \in RepositoryACL}
<1>1. Ready("repositories") /\ Still /\ Goes(R)
    BY DEF RepositoryQuery
<1>2. \A row \in R : DOMAIN row = {"repo", "ref", "at", "by"} /\ row.repo \in could
    BY <1>1, RowsNow DEF Row, RepositoryACL
<1> HIDE DEF R
<1> QED BY <1>1, <1>2, FilteredKeeps

LEMMA RequestQueryKeeps == ASSUME PermittedInv, RequestQuery PROVE PermittedInv'
<1>1. Ready("requests") /\ Still /\ "requests" \notin Finds
    BY DEF RequestQuery, Finds
<1>2. CASE Goes(call.rows)
    BY <1>1, <1>2, RowsStay
<1>3. CASE Goes({})
    <2>1. /\ ~Unfiltered(call.tool, "required") /\ ~Unfiltered(call.tool, "given")
          /\ ~Unfiltered(call.tool, "none") /\ call.tool.filter # "answer"
        BY <1>1, RowsNow, ReadyFits DEF PackSteps
    <2> QED BY <1>1, <1>3, <2>1, GoesOn
<1> QED BY <1>2, <1>3 DEF RequestQuery

LEMMA MoreQueryKeeps == ASSUME PermittedInv, MoreQuery PROVE PermittedInv'
<1>1. Ready("more") /\ Still
    BY DEF MoreQuery
<1>2. CASE Goes(call.rows)
    BY <1>1, <1>2, RowsStay
<1>3. CASE Goes(Files)
    <2>1. \A row \in Files : DOMAIN row = {"repo", "ref", "at", "by"} /\ row.repo \in could
        BY <1>1, FoundRows, RowsNow DEF IsRow, RepositoryACL
    <2> QED BY <1>1, <1>3, <2>1, FilteredKeeps
<1> QED BY <1>2, <1>3 DEF MoreQuery

LEMMA AuthorizeKeeps == ASSUME PermittedInv, Authorize PROVE PermittedInv'
<1>1. Ready("authorize") /\ Still
    BY DEF Authorize
<1>2. CASE call.lib \in visible /\ Goes(call.rows)
    <2>1. call.lib \in could
        BY <1>1, <1>2, RowsNow
    <2>2. \A row \in call.rows : DOMAIN row = {"repo", "ref", "at", "by"} /\ row.repo \in could
        BY <1>1, RowsNow
    <2>3. call.tool.filter # "answer"
        BY <1>1, RowsNow, ReadyFits
    <2> QED BY <1>1, <1>2, <2>1, <2>2, <2>3, GoesOn
<1>3. CASE Errs
    BY <1>1, <1>3, Ends
<1>4. CASE call.tool.plan = BuildChangeContext /\ call' = [call EXCEPT !.plan = Tail(Tail(@))]
    <2> DEFINE plan == Tail(Tail(call.plan))
    <2>1. Becomes(plan, call.lib, call.todo, call.rows)
        BY <1>1, <1>4, RowsNow DEF Becomes, Idle
    <2>2. Unfiltered(call.tool, "given") /\ BundlePlan(call.plan) /\ RowsAreOfTheTarget /\ CallTypes
        BY <1>1, <1>4, RowsNow, OfTheBundle DEF CallTypes, PlanFits, RowsPermitted
    <2>3. /\ call.plan \in Seq(Steps) /\ call.plan # <<>> /\ Head(call.plan) = "authorize"
          /\ PlanFits(call.tool, Tail(call.plan))
          /\ ~Ahead(call.plan, "target") /\ ~Ahead(Tail(call.plan), "target")
        BY <1>1, <2>2, ReadyFits
    <2>4. Tail(call.plan) # <<>> /\ After(plan, Reads, Finds)
        BY <2>2, <2>3, BundleOfTail
    <2>5. PlanFits(call.tool, plan) /\ Tail(call.plan) \in Seq(Steps)
        BY <2>3, <2>4, TailFits DEF PlanFits
    <2>6. ~Ahead(plan, "target")
        BY <2>3, <2>4, <2>5, AheadOfTail
    <2>7. /\ call.lib = None \/ LibraryAllowed(call.lib)
          /\ \A row \in call.rows : LibraryAllowed(row.repo) \/ (row.by = "tests" /\ call.lib = None)
        BY <2>2, <2>3 DEF RowsAreOfTheTarget
    <2>8. /\ ~Unfiltered(call.tool, "required") /\ ~Unfiltered(call.tool, "none")
          /\ call.tool.filter # "answer"
        BY <2>2 DEF Unfiltered
    <2>9. \A row \in call.rows : DOMAIN row = {"repo", "ref", "at", "by"} /\ row.repo \in could
        BY <1>1, RowsNow
    <2> HIDE DEF plan
    <2> QED BY <1>1, <2>1, <2>4, <2>5, <2>6, <2>7, <2>8, <2>9, Otherwise
<1> QED BY <1>2, <1>3, <1>4 DEF Authorize

LEMMA ContentKeeps == ASSUME PermittedInv, Content PROVE PermittedInv'
BY ReadsTheLibrary DEF Content

LEMMA HeadRefKeeps == ASSUME PermittedInv, HeadRef PROVE PermittedInv'
BY ReadsTheLibrary DEF HeadRef

LEMMA RequiredKeeps == ASSUME PermittedInv, Required PROVE PermittedInv'
<1>1. PICK step \in {"both", "map"} : Ready(step)
    BY DEF Required
<1>2. Still /\ (Goes(call.rows) \/ Errs)
    BY DEF Required
<1> QED BY <1>1, <1>2, RowsStay, Ends

LEMMA PickSymbolKeeps == ASSUME PermittedInv, PickSymbol PROVE PermittedInv'
<1>1. Ready("pick") /\ Still
    BY DEF PickSymbol
<1>2. CASE Errs
    BY <1>1, <1>2, Ends
<1>3. ASSUME NEW row \in call.rows,
             call' = [call EXCEPT !.plan = Tail(@), !.rows = {row}, !.lib = row.repo]
      PROVE  PermittedInv'
    <2>1. Becomes(Tail(call.plan), row.repo, call.todo, {row})
        BY <1>1, <1>3, RowsNow DEF Becomes, Idle
    <2>2. CallTypes /\ RowsAreOfTheLibrary
        BY <1>1, RowsNow DEF RowsPermitted
    <2>3. /\ call.plan \in Seq(Steps) /\ call.plan # <<>> /\ Head(call.plan) = "pick"
          /\ PlanFits(call.tool, Tail(call.plan))
          /\ call.tool.filter # "answer" /\ ~Unfiltered(call.tool, "given") /\ ~Unfiltered(call.tool, "none")
        BY <1>1, <2>2, ReadyFits DEF PackSteps
    <2>4. Ahead(call.plan, "pick")
        BY <2>3, TailOfPlan DEF Ahead
    <2>5. Unfiltered(call.tool, "required") => LibraryAllowed(row.repo)
        BY <1>3, <2>2, <2>4 DEF RowsAreOfTheLibrary
    <2>6. DOMAIN row = {"repo", "ref", "at", "by"} /\ row.repo \in could
        BY <1>1, <1>3, RowsNow
    <2> QED BY <1>1, <2>1, <2>3, <2>5, <2>6, Otherwise
<1> QED BY <1>2, <1>3 DEF PickSymbol

LEMMA OneRepositoryKeeps == ASSUME PermittedInv, OneRepository PROVE PermittedInv'
<1>1. Ready("one") /\ Still /\ CallTypes
    BY DEF OneRepository, PermittedInv
<1>2. /\ ~Unfiltered(call.tool, "required") /\ ~Unfiltered(call.tool, "given")
      /\ ~Unfiltered(call.tool, "none") /\ call.tool.plan # BuildChangeContext
    BY <1>1, ReadyFits, OfTheBundle DEF PackSteps
<1>3. CASE GivesUp
    BY <1>1, <1>2, <1>3, GivenUp
<1>4. CASE /\ Cardinality(Libraries) = 1
           /\ call' = [call EXCEPT !.plan = Tail(@), !.lib = CHOOSE r \in Libraries : TRUE]
    <2>1. PICK lib \in could : Libraries = {lib} /\ lib = CHOOSE q \in Libraries : TRUE
        BY <1>4, Singleton DEF PermittedInv
    <2>2. Becomes(Tail(call.plan), lib, call.todo, call.rows)
        BY <1>1, <1>4, <2>1, RowsNow DEF Becomes, Idle
    <2>3. \A row \in call.rows : row.by = "declared" \/ row.repo = lib
        BY <2>1 DEF Libraries, Declared
    <2>4. PlanFits(call.tool, Tail(call.plan))
        BY <1>1, ReadyFits
    <2>5. \A row \in call.rows : DOMAIN row = {"repo", "ref", "at", "by"} /\ row.repo \in could
        BY <1>1, RowsNow
    <2>6. call.tool.filter = "answer" =>
             call.todo \subseteq could \/ After(Tail(call.plan), {"declared"}, {"resolve"})
        BY <1>1, FindsOfTail DEF PermittedInv
    <2> QED BY <1>1, <1>2, <2>2, <2>3, <2>4, <2>5, <2>6, Otherwise
<1> QED BY <1>3, <1>4 DEF OneRepository

LEMMA ReadBodyKeeps == ASSUME PermittedInv, ReadBody PROVE PermittedInv'
<1>1. Ready("body") /\ Still
    BY DEF ReadBody
<1>2. Goes(call.rows) \/ Goes(call.rows \cup Table(call.lib, "main")) \/ Errs
    BY DEF ReadBody
<1> QED BY <1>1, <1>2, RowsStay, ReadsTheLibrary, Ends

LEMMA ReadLiveKeeps == ASSUME PermittedInv, ReadLive PROVE PermittedInv'
<1>1. Ready("live") /\ Still
    BY DEF ReadLive
<1>2. (GivesUp /\ call.tool.plan # BuildChangeContext) \/ Goes(call.rows)
    BY DEF ReadLive
<1> QED BY <1>1, <1>2, RowsStay, GivenUp

LEMMA RemoteTreesKeeps == ASSUME PermittedInv, RemoteTrees PROVE PermittedInv'
<1> DEFINE R == call.rows \cup (IF down THEN {} ELSE {Row(r, "main") : r \in {q \in RepositoryACL : \A f \in Refs : index[q][f] = 0}})
<1>1. Ready("trees") /\ Still /\ Goes(R)
    BY DEF RemoteTrees
<1>2. \A row \in R : DOMAIN row = {"repo", "ref", "at", "by"} /\ row.repo \in could
    BY <1>1, RowsNow DEF Row, RepositoryACL
<1> HIDE DEF R
<1> QED BY <1>1, <1>2, FilteredKeeps

LEMMA AgesKeeps == ASSUME PermittedInv, Ages PROVE PermittedInv'
<1>1. Ready("ages") /\ Still /\ "ages" \notin Finds
    BY DEF Ages, Finds
<1>2. CASE Goes(call.rows)
    BY <1>1, <1>2, RowsStay
<1>3. CASE call.lib \in visible /\ Goes(call.rows \cup Table(call.lib, "main"))
    <2> DEFINE R == call.rows \cup Table(call.lib, "main")
    <2>1. \A row \in R : row \in call.rows \/ (IsRow(row) /\ row.repo = call.lib)
        BY TableRows
    <2>2. \A row \in R : DOMAIN row = {"repo", "ref", "at", "by"} /\ row.repo \in could
        BY <1>1, <1>3, <2>1, RowsNow DEF IsRow
    <2>3. /\ ~Unfiltered(call.tool, "given") /\ ~Unfiltered(call.tool, "none")
          /\ call.tool.filter # "answer"
        BY <1>1, RowsNow, ReadyFits DEF PackSteps
    <2>4. Unfiltered(call.tool, "required") => LibraryAllowed(call.lib)
        BY <1>1, RowsNow
    <2>5. Goes(R)
        BY <1>3
    <2> HIDE DEF R
    <2> QED BY <1>1, <2>1, <2>2, <2>3, <2>4, <2>5, GoesOn
<1> QED BY <1>2, <1>3 DEF Ages

LEMMA ResolvePathKeeps == ASSUME PermittedInv, ResolvePath PROVE PermittedInv'
<1> DEFINE todo == IF Cardinality(Libraries) = 1 THEN Libraries ELSE {}
<1>1. Ready("resolve") /\ Still /\ "resolve" \notin Finds
    BY DEF ResolvePath, Finds
<1>2. Becomes(Tail(call.plan), call.lib, todo, {})
    BY <1>1, RowsNow DEF ResolvePath, Becomes, Idle
<1>3. Libraries \subseteq could
    BY <1>1, RowsNow DEF Libraries, Declared
<1>4. call.lib \in could \/ After(Tail(call.plan), Reads, Finds)
    BY <1>1, FindsOfTail DEF PermittedInv
<1>5. /\ ~Unfiltered(call.tool, "required") /\ ~Unfiltered(call.tool, "given")
      /\ ~Unfiltered(call.tool, "none") /\ PlanFits(call.tool, Tail(call.plan))
    BY <1>1, RowsNow, ReadyFits DEF PackSteps
<1> QED BY <1>1, <1>2, <1>3, <1>4, <1>5, Otherwise

LEMMA DeclaredOwnersKeeps == ASSUME PermittedInv, DeclaredOwners PROVE PermittedInv'
<1> DEFINE R == UNION {Table(r, "main") : r \in call.todo}
<1>1. Ready("declared") /\ Still /\ "declared" \notin Finds
    BY DEF DeclaredOwners, Finds
<1>2. /\ ~Unfiltered(call.tool, "required") /\ ~Unfiltered(call.tool, "given")
      /\ ~Unfiltered(call.tool, "none") /\ call.tool.filter = "answer"
    BY <1>1, RowsNow, ReadyFits DEF PackSteps
<1>3. call.todo \subseteq could
    BY <1>1, <1>2, FindsOfTail DEF PermittedInv
<1>4. \A row \in R : DOMAIN row = {"repo", "ref", "at", "by"} /\ row.repo \in could
    BY <1>3, UnionRows DEF IsRow
<1>5. Goes({}) \/ Goes(R)
    BY DEF DeclaredOwners
<1> HIDE DEF R
<1>6. CASE Goes({})
    BY <1>1, <1>2, <1>6, GoesOn
<1>7. CASE Goes(R)
    BY <1>1, <1>2, <1>4, <1>7, GoesOn
<1> QED BY <1>5, <1>6, <1>7

LEMMA AffectedOwnersKeeps == ASSUME PermittedInv, AffectedOwners PROVE PermittedInv'
<1> DEFINE R == call.rows \cup {[row EXCEPT !.by = "owners"] : row \in call.rows}
<1>1. Ready("owners") /\ Still
    BY DEF AffectedOwners
<1>2. CASE Goes(call.rows)
    BY <1>1, <1>2, RowsStay
<1>3. CASE Goes(R)
    <2>1. \A row \in R : DOMAIN row = {"repo", "ref", "at", "by"} /\ row.repo \in could
        BY <1>1, RowsNow
    <2> HIDE DEF R
    <2> QED BY <1>1, <1>3, <2>1, FilteredKeeps
<1> QED BY <1>2, <1>3 DEF AffectedOwners

LEMMA FreshnessNoteKeeps == ASSUME PermittedInv, FreshnessNote PROVE PermittedInv'
<1>1. Ready("freshness") /\ Still
    BY DEF FreshnessNote
<1>2. PICK old \in SUBSET (Libraries \cap visible) :
          Goes(call.rows \cup UNION {Table(r, "main") : r \in old})
    BY DEF FreshnessNote
<1> DEFINE New == UNION {Table(r, "main") : r \in old}
<1>3. \A row \in New : IsRow(row) /\ row.repo \in old
    BY UnionRows
<1>4. \A row \in call.rows \cup New :
          DOMAIN row = {"repo", "ref", "at", "by"} /\ row.repo \in could
    BY <1>1, <1>2, <1>3, RowsNow DEF IsRow
<1> QED BY <1>1, <1>2, <1>4, FilteredKeeps

LEMMA TestScopeKeeps == ASSUME PermittedInv, TestScope PROVE PermittedInv'
<1> DEFINE todo == IF call.lib \in visible THEN {call.lib} ELSE Repos
<1>1. Ready("scope") /\ Still /\ "scope" \notin Finds
    BY DEF TestScope, Finds
<1>2. Becomes(Tail(call.plan), call.lib, todo, call.rows)
    BY <1>1, RowsNow DEF TestScope, Becomes, Idle
<1>3. /\ ~Unfiltered(call.tool, "required") /\ ~Unfiltered(call.tool, "given")
      /\ ~Unfiltered(call.tool, "none") /\ call.tool.filter # "answer"
      /\ PlanFits(call.tool, Tail(call.plan))
    BY <1>1, RowsNow, ReadyFits DEF PackSteps
<1>4. call.lib \in could \/ After(Tail(call.plan), Reads, Finds)
    BY <1>1, FindsOfTail DEF PermittedInv
<1>5. \A row \in call.rows : DOMAIN row = {"repo", "ref", "at", "by"} /\ row.repo \in could
    BY <1>1, RowsNow
<1> HIDE DEF todo
<1> QED BY <1>1, <1>2, <1>3, <1>4, <1>5, Otherwise

LEMMA TestsReferencingKeeps == ASSUME PermittedInv, TestsReferencing PROVE PermittedInv'
<1> DEFINE R == UNION {Table(r, "main") : r \in visible \cap call.todo \cap defines}
<1>1. Ready("references") /\ Still /\ Goes(R)
    BY DEF TestsReferencing
<1>2. \A row \in R : DOMAIN row = {"repo", "ref", "at", "by"} /\ row.repo \in could
    BY <1>1, UnionRows, RowsNow DEF IsRow
<1> HIDE DEF R
<1> QED BY <1>1, <1>2, FilteredKeeps

LEMMA ChangesKeeps == ASSUME PermittedInv, Changes PROVE PermittedInv'
<1>1. Ready("changes") /\ Still
    BY DEF Changes
<1>2. CASE Goes(call.rows)
    BY <1>1, <1>2, RowsStay
<1>3. CASE call' = [call EXCEPT !.plan = <<>>]
    <2>1. Becomes(<<>>, call.lib, call.todo, call.rows)
        BY <1>1, <1>3, RowsNow DEF Becomes, Idle
    <2>2. /\ ~Unfiltered(call.tool, "given") /\ ~Unfiltered(call.tool, "none")
          /\ call.tool.filter # "answer"
        BY <1>1, RowsNow, ReadyFits DEF PackSteps
    <2>3. After(<<>>, Reads, Finds) /\ ~Ahead(<<>>, "pick") /\ ~Ahead(<<>>, "target")
        BY DEF After, Ahead
    <2>4. Unfiltered(call.tool, "required") =>
             /\ LibraryAllowed(call.lib)
             /\ \A row \in call.rows : LibraryAllowed(row.repo) \/ row.by = "consumers"
        BY <1>1, RowsNow DEF RowsPermitted, RowsAreOfTheLibrary
    <2>5. \A row \in call.rows : DOMAIN row = {"repo", "ref", "at", "by"} /\ row.repo \in could
        BY <1>1, RowsNow
    <2> QED BY <1>1, <2>1, <2>2, <2>3, <2>4, <2>5, NothingFits, Otherwise
<1> QED BY <1>2, <1>3 DEF Changes

LEMMA ConsumersKeeps == ASSUME PermittedInv, Consumers PROVE PermittedInv'
<1> DEFINE found == UNION {Table(r, "main") : r \in (visible \cap defines) \ {call.lib}}
           R == call.rows \cup found
<1>1. Ready("consumers") /\ Still /\ Goes(R) /\ "consumers" \notin Finds
    BY DEF Consumers, Finds
<1>2. \A row \in found : IsRow(row) /\ row.repo \in visible /\ row.by = "consumers"
    BY <1>1, UnionRows DEF IsRow, Ready
<1> HIDE DEF found
<1>3. \A row \in R : DOMAIN row = {"repo", "ref", "at", "by"} /\ row.repo \in could
    BY <1>1, <1>2, RowsNow DEF IsRow
<1>4. \A row \in R : row \in call.rows \/ row.by = "consumers"
    BY <1>2
<1>5. /\ ~Unfiltered(call.tool, "given") /\ ~Unfiltered(call.tool, "none")
      /\ call.tool.filter # "answer"
    BY <1>1, RowsNow, ReadyFits DEF PackSteps
<1> HIDE DEF R
<1> QED BY <1>1, <1>3, <1>4, <1>5, GoesOn

\* The symbols found are of one library, and the key allows it, or allows none of it.
LEMMA ResolveTargetKeeps == ASSUME PermittedInv, ResolveTarget PROVE PermittedInv'
<1>1. Ready("target") /\ Still /\ CallTypes
    BY DEF ResolveTarget, PermittedInv
<1>2. /\ ~Unfiltered(call.tool, "required") /\ ~Unfiltered(call.tool, "none")
      /\ call.tool.filter # "answer"
      /\ call.plan \in Seq(Steps) /\ call.plan # <<>>
      /\ PlanFits(call.tool, Tail(call.plan))
      /\ Unfiltered(call.tool, "given") => ~Ahead(Tail(call.plan), "target")
    BY <1>1, ReadyFits DEF PackSteps
<1>3. Unfiltered(call.tool, "given") => \A row \in call.rows : row.by = "symbols"
    BY <1>1, RowsNow, ReadyFits DEF RowsPermitted, RowsAreOfTheTarget
<1>4. \A row \in call.rows : DOMAIN row = {"repo", "ref", "at", "by"} /\ row.repo \in could
    BY <1>1, RowsNow
<1>5. \A row \in AllowedRows(call.rows) :
         row \in call.rows /\ (Unfiltered(call.tool, "given") => LibraryAllowed(row.repo))
    BY <1>3 DEF AllowedRows
<1>6. CASE Errs
    BY <1>1, <1>6, Ends
<1>7. CASE /\ Cardinality(Libraries) = 1 /\ AllowedRows(call.rows) # {}
           /\ call' = [call EXCEPT !.plan = Tail(@), !.lib = CHOOSE r \in Libraries : TRUE]
    <2>1. PICK lib \in could : Libraries = {lib} /\ lib = CHOOSE q \in Libraries : TRUE
        BY <1>7, Singleton DEF PermittedInv
    <2>2. Becomes(Tail(call.plan), lib, call.todo, call.rows)
        BY <1>1, <1>7, <2>1, RowsNow DEF Becomes, Idle
    <2>3. Unfiltered(call.tool, "given") => \A row \in call.rows : row.repo = lib
        BY <1>3, <2>1 DEF Libraries, Declared
    <2>4. Unfiltered(call.tool, "given") => LibraryAllowed(lib)
        BY <1>5, <1>7, <2>3
    <2>5. Unfiltered(call.tool, "given") => \A row \in call.rows : LibraryAllowed(row.repo)
        BY <2>3, <2>4
    <2> QED BY <1>1, <1>2, <1>4, <2>2, <2>4, <2>5, Otherwise
<1>8. CASE call' = [call EXCEPT !.rows = AllowedRows(@), !.plan = <<>>]
    <2>1. Becomes(<<>>, call.lib, call.todo, AllowedRows(call.rows))
        BY <1>1, <1>8, RowsNow DEF Becomes, Idle
    <2>2. After(<<>>, Reads, Finds) /\ ~Ahead(<<>>, "target")
        BY DEF After, Ahead
    <2>3. Unfiltered(call.tool, "given") => call.lib = None \/ LibraryAllowed(call.lib)
        BY <1>1, RowsNow
    <2> QED BY <1>1, <1>2, <1>4, <1>5, <2>1, <2>2, <2>3, NothingFits, Otherwise
<1>9. CASE call' = [call EXCEPT !.rows = {}, !.plan = <<"tests">>]
    <2> DEFINE plan == <<"tests">>
    <2>1. Becomes(plan, call.lib, call.todo, {})
        BY <1>1, <1>9, RowsNow DEF Becomes, Idle
    <2>2. /\ plan \in Seq(Steps) /\ BundlePlan(plan) /\ After(plan, Reads, Finds)
          /\ ~Ahead(plan, "target") /\ ~Ahead(plan, "declared")
        BY DEF Steps, BundlePlan, Only, After, Reads, Ahead
    <2> HIDE DEF plan
    <2>3. PlanFits(call.tool, plan)
        BY <1>2, <2>2 DEF PlanFits
    <2>4. Unfiltered(call.tool, "given") => call.lib = None \/ LibraryAllowed(call.lib)
        BY <1>1, RowsNow
    <2> QED BY <1>1, <1>2, <2>1, <2>2, <2>3, <2>4, Otherwise
<1> QED BY <1>6, <1>7, <1>8, <1>9 DEF ResolveTarget

LEMMA DependentsKeeps == ASSUME PermittedInv, Dependents PROVE PermittedInv'
<1> DEFINE found == UNION {Table(r, "main") : r \in visible}
           R == call.rows \cup AllowedRows(found)
<1>1. Ready("dependents") /\ Still /\ Goes(R) /\ "dependents" \notin Finds
    BY DEF Dependents, Finds
<1>2. \A row \in found : IsRow(row) /\ row.repo \in visible /\ row.by = "dependents"
    BY <1>1, UnionRows DEF IsRow, Ready
<1> HIDE DEF found
<1>3. \A row \in R : DOMAIN row = {"repo", "ref", "at", "by"} /\ row.repo \in could
    BY <1>1, <1>2, RowsNow DEF IsRow, AllowedRows
<1>4. \A row \in R : row \in call.rows \/ LibraryAllowed(row.repo)
    BY <1>2 DEF AllowedRows
<1>5. /\ ~Unfiltered(call.tool, "required") /\ ~Unfiltered(call.tool, "none")
      /\ call.tool.filter # "answer"
    BY <1>1, RowsNow, ReadyFits DEF PackSteps
<1> HIDE DEF R
<1> QED BY <1>1, <1>3, <1>4, <1>5, GoesOn

LEMMA TestsKeeps == ASSUME PermittedInv, Tests PROVE PermittedInv'
<1> DEFINE R == call.rows \cup Files
<1>1. Ready("tests") /\ Still /\ Goes(R) /\ "tests" \notin Finds
    BY DEF Tests, Finds
<1>2. \A row \in Files : IsRow(row) /\ row.repo \in RepositoryACL /\ row.by = "tests"
    BY <1>1, FoundRows DEF IsRow, Ready
<1>3. \A row \in R : DOMAIN row = {"repo", "ref", "at", "by"} /\ row.repo \in could
    BY <1>1, <1>2, RowsNow DEF IsRow, RepositoryACL
<1>4. /\ ~Unfiltered(call.tool, "required") /\ ~Unfiltered(call.tool, "none")
      /\ call.tool.filter # "answer"
    BY <1>1, RowsNow, ReadyFits DEF PackSteps
<1>5. Unfiltered(call.tool, "given") =>
         \A row \in R : row \in call.rows \/ LibraryAllowed(row.repo) \/ (row.by = "tests" /\ call.lib = None)
    BY <1>1, <1>2, RowsNow, NarrowedByTheKey
<1> HIDE DEF R
<1> QED BY <1>1, <1>3, <1>4, <1>5, GoesOn

LEMMA LoadPackKeeps == ASSUME PermittedInv, LoadPack PROVE PermittedInv'
<1>1. Ready("pack") /\ Still /\ "pack" \notin Finds
    BY DEF LoadPack, Finds
<1>2. Becomes(Tail(call.plan), call.lib, RestrictPack, call.rows)
    BY <1>1, RowsNow DEF LoadPack, Becomes, Idle
<1>3. /\ ~Unfiltered(call.tool, "required") /\ ~Unfiltered(call.tool, "given")
      /\ call.tool.filter # "answer" /\ PlanFits(call.tool, Tail(call.plan))
    BY <1>1, RowsNow, ReadyFits
<1>4. call.lib \in could \/ After(Tail(call.plan), Reads, Finds)
    BY <1>1, FindsOfTail DEF PermittedInv
<1>5. \A row \in call.rows : DOMAIN row = {"repo", "ref", "at", "by"} /\ row.repo \in could
    BY <1>1, RowsNow
<1>6. Unfiltered(call.tool, "none") =>
         /\ \A r \in RestrictPack : LibraryAllowed(r)
         /\ \A row \in call.rows : row.by = "loose" \/ LibraryAllowed(row.repo)
    BY <1>1, RowsNow DEF RowsPermitted, RowsAreOfThePack, RestrictPack
<1> QED BY <1>1, <1>2, <1>3, <1>4, <1>5, <1>6, Otherwise

\* A step within a section of a pack.
LEMMA PackKeeps ==
    ASSUME PermittedInv, Still, NEW step \in {"conventions", "entrypoints", "libraries"}, Ready(step),
           NEW todo, NEW rows, Becomes(call.plan, call.lib, todo, rows),
           \A row \in rows : DOMAIN row = {"repo", "ref", "at", "by"} /\ row.repo \in could,
           Unfiltered(call.tool, "none") =>
              /\ \A r \in todo : LibraryAllowed(r)
              /\ \A row \in rows : row.by = "loose" \/ LibraryAllowed(row.repo)
    PROVE  PermittedInv'
<1>1. /\ ~Unfiltered(call.tool, "required") /\ ~Unfiltered(call.tool, "given")
      /\ call.tool.filter # "answer"
    BY RowsNow, ReadyFits
<1>2. PlanFits(call.tool, call.plan) /\ (call.lib \in could \/ After(call.plan, Reads, Finds))
    BY DEF PermittedInv, CallTypes, LibraryIsFound
<1> QED BY <1>1, <1>2, Otherwise

LEMMA PackItemKeeps == ASSUME PermittedInv, NEW r, PackItem(r) PROVE PermittedInv'
<1> DEFINE rows == IF r \in visible THEN call.rows \cup Table(r, "main") ELSE call.rows
<1>1. PICK step \in {"conventions", "entrypoints", "libraries"} : Ready(step)
    BY DEF PackItem
<1>2. Still /\ r \in call.todo
    BY DEF PackItem
<1>3. Becomes(call.plan, call.lib, call.todo \ {r}, rows)
    BY <1>1, RowsNow DEF PackItem, Becomes, Idle
<1>4. \A row \in rows : row \in call.rows \/ (r \in visible /\ IsRow(row) /\ row.repo = r)
    BY TableRows
<1> HIDE DEF rows
<1>5. \A row \in rows : DOMAIN row = {"repo", "ref", "at", "by"} /\ row.repo \in could
    BY <1>1, <1>4, RowsNow DEF IsRow
<1>6. Unfiltered(call.tool, "none") =>
         /\ \A q \in call.todo \ {r} : LibraryAllowed(q)
         /\ \A row \in rows : row.by = "loose" \/ LibraryAllowed(row.repo)
    <2>1. Unfiltered(call.tool, "none") =>
             /\ \A q \in call.todo : LibraryAllowed(q)
             /\ \A row \in call.rows : row.by = "loose" \/ LibraryAllowed(row.repo)
        BY <1>1, RowsNow DEF RowsPermitted, RowsAreOfThePack
    <2> QED BY <1>2, <1>4, <2>1
<1> QED BY <1>1, <1>2, <1>3, <1>5, <1>6, PackKeeps

LEMMA PackSectionKeeps == ASSUME PermittedInv, PackSection PROVE PermittedInv'
<1>1. PICK step \in {"conventions", "entrypoints", "libraries"} : Ready(step)
    BY DEF PackSection
<1>2. Still
    BY DEF PackSection
<1>3. CASE Errs
    BY <1>1, <1>2, <1>3, Ends
<1>4. CASE Goes(call.rows)
    BY <1>1, <1>2, <1>4, RowsStay
<1>5. CASE call' = [call EXCEPT !.plan = Tail(@), !.todo = RestrictPack]
    <2>1. Becomes(Tail(call.plan), call.lib, RestrictPack, call.rows)
        BY <1>1, <1>5, RowsNow DEF Becomes, Idle
    <2>2. /\ ~Unfiltered(call.tool, "required") /\ ~Unfiltered(call.tool, "given")
          /\ call.tool.filter # "answer" /\ PlanFits(call.tool, Tail(call.plan))
        BY <1>1, RowsNow, ReadyFits
    <2>3. call.lib \in could \/ After(Tail(call.plan), Reads, Finds)
        BY <1>1, FindsOfTail DEF PermittedInv, Finds
    <2>4. \A row \in call.rows : DOMAIN row = {"repo", "ref", "at", "by"} /\ row.repo \in could
        BY <1>1, RowsNow
    <2>5. Unfiltered(call.tool, "none") =>
             /\ \A r \in RestrictPack : LibraryAllowed(r)
             /\ \A row \in call.rows : row.by = "loose" \/ LibraryAllowed(row.repo)
        BY <1>1, RowsNow DEF RowsPermitted, RowsAreOfThePack, RestrictPack
    <2> QED BY <1>1, <1>2, <2>1, <2>2, <2>3, <2>4, <2>5, Otherwise
<1> QED BY <1>3, <1>4, <1>5 DEF PackSection

LEMMA LooseEntrypointKeeps == ASSUME PermittedInv, LooseEntrypoint PROVE PermittedInv'
<1>1. Ready("entrypoints") /\ Still
    BY DEF LooseEntrypoint
<1>2. PICK row \in Symbols : call' = [call EXCEPT !.rows = @ \cup {[row EXCEPT !.by = "loose"]}]
    BY DEF LooseEntrypoint
<1> DEFINE loose == [row EXCEPT !.by = "loose"]
<1>3. DOMAIN row = {"repo", "ref", "at", "by"} /\ row.repo \in could
    BY <1>1, FoundRows, RowsNow DEF IsRow, RepositoryACL
<1>4. DOMAIN loose = {"repo", "ref", "at", "by"} /\ loose.repo \in could /\ loose.by = "loose"
    BY <1>3
<1>5. Becomes(call.plan, call.lib, call.todo, call.rows \cup {loose})
    BY <1>1, <1>2, RowsNow DEF Becomes, Idle
<1> HIDE DEF loose
<1>6. \A one \in call.rows \cup {loose} : DOMAIN one = {"repo", "ref", "at", "by"} /\ one.repo \in could
    BY <1>1, <1>4, RowsNow
<1>7. Unfiltered(call.tool, "none") =>
         /\ \A r \in call.todo : LibraryAllowed(r)
         /\ \A one \in call.rows \cup {loose} : one.by = "loose" \/ LibraryAllowed(one.repo)
    BY <1>1, <1>4, RowsNow DEF RowsPermitted, RowsAreOfThePack
<1> QED BY <1>1, <1>5, <1>6, <1>7, PackKeeps

LEMMA BeginKeeps ==
    ASSUME PermittedInv, visible \subseteq Repos, NEW tool \in Tools, NEW lib, Begin(tool, lib)
    PROVE  PermittedInv'
<1>1. /\ call' = [Idle EXCEPT !.tool = tool, !.lib = lib, !.plan = tool.plan]
      /\ could' = visible /\ UNCHANGED <<visible, allowed>> /\ ~Refused(tool, lib)
    BY DEF Begin
<1>2. /\ DOMAIN call' = DOMAIN Idle /\ call'.tool = tool /\ call'.lib = lib /\ call'.plan = tool.plan
      /\ call'.todo = {} /\ call'.rows = {} /\ call'.result = "none"
    BY <1>1 DEF Idle
<1>3. PlanFits(tool, tool.plan) /\ PlanIsOrdered(tool.plan)
    BY ToolsAreSound DEF ToolIsSound
<1>4. /\ Unfiltered(tool, "required") => LibraryAllowed(lib)
      /\ Unfiltered(tool, "given") => lib = None \/ LibraryAllowed(lib)
    BY <1>1 DEF Refused, Unfiltered
<1>5. CallTypes'
    <2>1. (DOMAIN call = DOMAIN Idle)'
        BY <1>2 DEF Idle
    <2> QED BY <1>1, <1>2, <1>3, <2>1 DEF CallTypes, PermittedInv
<1>6. LibraryIsFound' /\ DeclarersAreFound'
    BY <1>2, <1>3 DEF LibraryIsFound, DeclarersAreFound, PlanIsOrdered
<1>7. RowsAreOfTheFile' /\ RowsWereVisible' /\ RowsAreOfThePack' /\ AnswerIsPermitted'
    BY <1>2 DEF RowsAreOfTheFile, RowsWereVisible, RowsAreOfThePack, AnswerIsPermitted, Answered
<1>8. RowsAreOfTheLibrary' /\ RowsAreOfTheTarget'
    BY <1>1, <1>2, <1>4 DEF RowsAreOfTheLibrary, RowsAreOfTheTarget, LibraryAllowed, Unfiltered
<1> QED BY <1>5, <1>6, <1>7, <1>8 DEF PermittedInv

LEMMA ReturnKeeps == ASSUME CallTypes, call' = Idle, could' = {}, UNCHANGED <<visible, allowed>> PROVE PermittedInv'
<1>1. /\ DOMAIN call' = DOMAIN Idle /\ call'.tool = Tool("never", <<>>, "none") /\ call'.plan = <<>>
      /\ call'.todo = {} /\ call'.rows = {} /\ call'.result = "none"
    BY DEF Idle
<1>2. call'.tool.filter = "none" /\ call'.tool.check = "never"
    BY <1>1 DEF Tool
<1>3. CallTypes'
    <2>1. (DOMAIN call = DOMAIN Idle)' /\ (call = Idle)'
        BY <1>1 DEF Idle
    <2> QED BY <1>1, <2>1, NothingFits DEF CallTypes
<1>4. After(<<>>, Reads, Finds)
    BY DEF After
<1>5. LibraryIsFound' /\ DeclarersAreFound' /\ RowsWereVisible' /\ AnswerIsPermitted'
    BY <1>1, <1>2, <1>4
       DEF LibraryIsFound, DeclarersAreFound, RowsWereVisible, AnswerIsPermitted, Answered
<1>6. RowsAreOfTheFile' /\ RowsAreOfTheLibrary' /\ RowsAreOfTheTarget' /\ RowsAreOfThePack'
    BY <1>1, <1>2
       DEF RowsAreOfTheFile, RowsAreOfTheLibrary, RowsAreOfTheTarget, RowsAreOfThePack, Unfiltered
<1> QED BY <1>3, <1>5, <1>6 DEF PermittedInv

\* A call is answered with the rows it has, or the rows the key allows of them.
LEMMA FinishKeeps == ASSUME PermittedInv, Finish PROVE PermittedInv'
<1>1. /\ call # Idle /\ call.result = "none" /\ call.plan = <<>>
      /\ UNCHANGED <<visible, allowed, could>>
    BY DEF Finish
<1>2. /\ CallTypes /\ RowsWereVisible /\ RowsPermitted /\ call.tool \in Tools /\ DOMAIN call = DOMAIN Idle
      /\ ToolIsSound(call.tool)
    BY <1>1, ToolsAreSound DEF PermittedInv, RowsPermitted, CallTypes
<1>3. ~Ahead(<<>>, "one") /\ ~Ahead(<<>>, "target") /\ After(<<>>, Reads, Finds)
    BY DEF Ahead, After
<1>4. /\ DOMAIN call' = DOMAIN call /\ call'.tool = call.tool /\ call'.plan = <<>> /\ call'.lib = call.lib
      /\ call'.todo = call.todo
    BY <1>1, <1>2 DEF Finish, Idle
<1>5. /\ call'.result \in {"answer", "error"}
      /\ \A row \in call'.rows : row \in call.rows
      /\ call'.result = "answer" =>
            \/ call.tool.filter = "rows" /\ call'.rows = AllowedRows(call.rows)
            \/ /\ call.tool.filter # "rows" /\ call'.rows = call.rows
               /\ call.tool.filter = "answer" => LibraryAllowed(call.lib)
    <2>0. "rows" \in DOMAIN call /\ "result" \in DOMAIN call
        BY <1>2 DEF Idle
    <2>1. CASE call.tool.filter = "rows" /\ call' = [call EXCEPT !.rows = AllowedRows(@), !.result = "answer"]
        BY <2>0, <2>1 DEF AllowedRows
    <2>2. CASE /\ call.tool.filter = "answer" /\ ~LibraryAllowed(call.lib)
               /\ call' = [call EXCEPT !.rows = {}, !.result = "error"]
        BY <2>0, <2>2
    <2>3. CASE /\ call.tool.filter # "rows" /\ (call.tool.filter = "answer" => LibraryAllowed(call.lib))
               /\ call' = [call EXCEPT !.result = "answer"]
        BY <2>0, <2>3
    <2> QED BY <2>1, <2>2, <2>3 DEF Finish
<1>6. CallTypes'
    <2>1. (DOMAIN call = DOMAIN Idle)'
        BY <1>2, <1>4 DEF Idle
    <2>2. PlanFits(call'.tool, call'.plan)
        BY <1>4, NothingFits
    <2> QED BY <1>1, <1>2, <1>4, <1>5, <2>1, <2>2 DEF CallTypes
<1>7. RowsWereVisible'
    BY <1>1, <1>2, <1>5 DEF RowsWereVisible
<1>8. LibraryIsFound' /\ DeclarersAreFound'
    BY <1>3, <1>4, <1>1 DEF LibraryIsFound, DeclarersAreFound, PermittedInv
<1>9. AnswerIsPermitted'
    <2> SUFFICES ASSUME call'.result = "answer", NEW row \in call'.rows
                 PROVE  OutsideTheKey(row)' \/ LibraryAllowed(row.repo)
        BY <1>1, <1>7 DEF AnswerIsPermitted, Answered, RowsWereVisible, LibraryAllowed
    <2>1. CASE call.tool.filter = "rows"
        BY <1>5, <2>1 DEF AllowedRows, OutsideTheKey
    <2>2. CASE call.tool.filter = "answer"
        <3>1. row.by = "declared" \/ row.repo = call.lib
            BY <1>1, <1>2, <1>3, <1>5, <2>2 DEF RowsPermitted, RowsAreOfTheFile
        <3>2. LibraryAllowed(call.lib)
            BY <1>5, <2>2
        <3> QED BY <1>4, <3>1, <3>2 DEF OutsideTheKey
    <2>3. CASE Unfiltered(call.tool, "required")
        <3>1. LibraryAllowed(row.repo) \/ row.by = "consumers"
            BY <1>2, <1>5, <2>3 DEF RowsPermitted, RowsAreOfTheLibrary
        <3> QED BY <3>1 DEF OutsideTheKey
    <2>4. CASE Unfiltered(call.tool, "given")
        <3>1. LibraryAllowed(row.repo) \/ (row.by = "tests" /\ call.lib = None)
            BY <1>1, <1>2, <1>3, <1>5, <2>4 DEF RowsPermitted, RowsAreOfTheTarget
        <3>2. call.tool.plan = BuildChangeContext
            BY <1>2, <2>4 DEF ToolIsSound
        <3> QED BY <1>4, <3>1, <3>2 DEF OutsideTheKey
    <2>5. CASE Unfiltered(call.tool, "none")
        <3>1. LibraryAllowed(row.repo) \/ row.by = "loose"
            BY <1>2, <1>5, <2>5 DEF RowsPermitted, RowsAreOfThePack
        <3> QED BY <3>1 DEF OutsideTheKey
    <2> QED BY <1>2, <2>1, <2>2, <2>3, <2>4, <2>5 DEF ToolIsSound
<1>10. call'.result # "none"
    BY <1>5
<1> QED BY <1>6, <1>7, <1>8, <1>9, <1>10 DEF PermittedInv

\* Whatever happens between two queries leaves what the rows were read under.
LEMMA OutsideKeeps ==
    ASSUME PermittedInv, UNCHANGED <<allowed, call>>,
           visible' \subseteq Repos,
           \/ visible' = visible /\ could' = could
           \/ could' = IF call = Idle THEN {} ELSE could \cup visible'
    PROVE  PermittedInv'
<1>1. CallTypes /\ RowsWereVisible /\ LibraryIsFound /\ DeclarersAreFound
    BY DEF PermittedInv
<1>2. CASE call = Idle
    <2>1. /\ call'.plan = <<>> /\ call'.rows = {} /\ call'.result = "none" /\ call'.todo = {}
          /\ call'.tool = call.tool
        BY <1>2 DEF Idle
    <2>2. After(<<>>, Reads, Finds) /\ After(<<>>, {"declared"}, {"resolve"})
        BY DEF After
    <2>3. CallTypes'
        <3>1. (DOMAIN call = DOMAIN Idle)' /\ (call = Idle)'
            BY <1>2 DEF Idle
        <3> QED BY <1>1, <2>1, <3>1, NothingFits DEF CallTypes
    <2>4. LibraryIsFound' /\ DeclarersAreFound' /\ RowsWereVisible' /\ AnswerIsPermitted'
        BY <2>1, <2>2
           DEF LibraryIsFound, DeclarersAreFound, RowsWereVisible, AnswerIsPermitted, Answered
    <2>5. ~Unfiltered(call.tool, "required") /\ ~Unfiltered(call.tool, "given")
        BY <1>2 DEF Idle, Tool, Unfiltered
    <2>6. RowsAreOfTheFile' /\ RowsAreOfTheLibrary' /\ RowsAreOfTheTarget' /\ RowsAreOfThePack'
        BY <2>1, <2>5
           DEF RowsAreOfTheFile, RowsAreOfTheLibrary, RowsAreOfTheTarget, RowsAreOfThePack,
               Unfiltered
    <2> QED BY <2>3, <2>4, <2>6 DEF PermittedInv
<1>3. CASE call # Idle
    <2>1. could \subseteq could' /\ could' \subseteq Repos /\ visible' \subseteq could'
        BY <1>1, <1>3 DEF CallTypes
    <2>2. CallTypes'
        <3>1. (DOMAIN call = DOMAIN Idle)'
            BY <1>1 DEF CallTypes, Idle
        <3> QED BY <1>1, <1>3, <2>1, <3>1 DEF CallTypes
    <2>3. RowsWereVisible' /\ LibraryIsFound' /\ DeclarersAreFound'
        BY <1>1, <2>1 DEF RowsWereVisible, LibraryIsFound, DeclarersAreFound
    <2>4. AnswerIsPermitted'
        BY <2>1 DEF PermittedInv, AnswerIsPermitted, Answered, OutsideTheKey, LibraryAllowed
    <2>5. call.result = "none" => (RowsAreOfTheFile /\ RowsAreOfTheLibrary /\ RowsAreOfTheTarget /\ RowsAreOfThePack)'
        BY DEF PermittedInv, RowsAreOfTheFile, RowsAreOfTheLibrary, RowsAreOfTheTarget,
               RowsAreOfThePack,
               LibraryAllowed
    <2> QED BY <2>2, <2>3, <2>4, <2>5 DEF PermittedInv
<1> QED BY <1>2, <1>3

-----------------------------------------------------------------------------

LEMMA ToolsInit == ASSUME Init PROVE PermittedInv
<1>1. visible \subseteq Repos /\ allowed \subseteq Repos /\ call = Idle /\ could = {}
    BY DEF Init
<1>2. /\ call.tool = Tool("never", <<>>, "none") /\ call.plan = <<>>
      /\ call.todo = {} /\ call.rows = {} /\ call.result = "none"
    BY <1>1 DEF Idle
<1>3. call.tool.filter = "none" /\ call.tool.check = "never"
    BY <1>2 DEF Tool
<1>4. CallTypes
    BY <1>1, <1>2, NothingFits DEF CallTypes
<1>5. After(<<>>, Reads, Finds)
    BY DEF After
<1>6. LibraryIsFound /\ DeclarersAreFound /\ RowsWereVisible /\ AnswerIsPermitted
    BY <1>2, <1>3, <1>5
       DEF LibraryIsFound, DeclarersAreFound, RowsWereVisible, AnswerIsPermitted, Answered
<1>7. RowsAreOfTheFile /\ RowsAreOfTheLibrary /\ RowsAreOfTheTarget /\ RowsAreOfThePack
    BY <1>2, <1>3
       DEF RowsAreOfTheFile, RowsAreOfTheLibrary, RowsAreOfTheTarget, RowsAreOfThePack, Unfiltered
<1> QED BY <1>4, <1>6, <1>7 DEF PermittedInv

LEMMA ToolsStep == ASSUME PermittedInv, [Next]_vars PROVE PermittedInv'
<1>0. CallTypes /\ visible \subseteq Repos
    BY DEF PermittedInv, CallTypes
<1>1. ASSUME NEW r \in Repos, NEW f \in Refs, NEW symbol \in BOOLEAN, Publish(r, f, symbol) PROVE PermittedInv'
    BY <1>0, <1>1, OutsideKeeps DEF Publish
<1>2. ASSUME NEW seen \in SUBSET Repos, Expose(seen) PROVE PermittedInv'
    BY <1>0, <1>2, OutsideKeeps DEF Expose
<1>3. CASE SwitchSource
    BY <1>0, <1>3, OutsideKeeps DEF SwitchSource
<1>4. ASSUME NEW tool \in Tools, NEW lib \in Repos \cup {None}, Begin(tool, lib) PROVE PermittedInv'
    BY <1>0, <1>4, BeginKeeps
<1>5. CASE \/ RepositoryQuery \/ RequestQuery \/ Ages \/ ResolvePath \/ DeclaredOwners
           \/ AffectedOwners \/ FreshnessNote
    BY <1>5, RepositoryQueryKeeps, RequestQueryKeeps, AgesKeeps, ResolvePathKeeps,
       DeclaredOwnersKeeps, AffectedOwnersKeeps, FreshnessNoteKeeps
<1>6. CASE TestScope \/ TestsReferencing \/ Changes \/ Consumers
    BY <1>6, TestScopeKeeps, TestsReferencingKeeps, ChangesKeeps, ConsumersKeeps
<1>7. CASE SymbolQuery \/ FileQuery \/ MoreQuery \/ Authorize \/ Content \/ HeadRef \/ Required
    BY <1>7, SymbolQueryKeeps, FileQueryKeeps, MoreQueryKeeps, AuthorizeKeeps, ContentKeeps,
       HeadRefKeeps,
       RequiredKeeps
<1>8. CASE PickSymbol \/ OneRepository \/ ReadBody \/ ReadLive \/ RemoteTrees
    BY <1>8, PickSymbolKeeps, OneRepositoryKeeps, ReadBodyKeeps, ReadLiveKeeps, RemoteTreesKeeps
<1>9. CASE ResolveTarget \/ Dependents \/ Tests
    BY <1>9, ResolveTargetKeeps, DependentsKeeps, TestsKeeps
<1>10. CASE LoadPack \/ PackSection \/ LooseEntrypoint \/ \E r \in Repos : PackItem(r)
    BY <1>10, LoadPackKeeps, PackSectionKeeps, LooseEntrypointKeeps, PackItemKeeps
<1>11. CASE Finish
    BY <1>11, FinishKeeps
<1>12. CASE Return
    BY <1>0, <1>12, ReturnKeeps DEF Return
<1>13. CASE UNCHANGED vars
    BY <1>0, <1>13, OutsideKeeps DEF vars
<1> QED BY <1>1, <1>2, <1>3, <1>4, <1>5, <1>6, <1>7, <1>8, <1>9, <1>10, <1>11, <1>12, <1>13 DEF Next

-----------------------------------------------------------------------------
(* The components together: each keeps its invariant, and no step of one is a step of
   another. *)

AnsweringInv ==
    /\ part = "tools" => PermittedInv
    /\ part = "retrieval" => Q!RetrievalInv
    /\ part = "codesearch" => C!VerifiedInv
    /\ part = "toolcall" => T!CacheInv
    /\ part = "session" => S!SessionInv

LEMMA AnsweringInvariant == AnsweringSpec => []AnsweringInv
<1>1. AnsweringInit => AnsweringInv
    BY ToolsInit, RetrievalInit, SearchInit, CallInit, SessionInit DEF AnsweringInit, AnsweringInv
<1>2. AnsweringInv /\ [AnsweringNext]_<<part, vars>> => AnsweringInv'
    <2> SUFFICES ASSUME AnsweringInv, [AnsweringNext]_<<part, vars>> PROVE AnsweringInv'
        OBVIOUS
    <2>1. CASE part = "tools" /\ [Next]_vars /\ part' = part
        BY <2>1, ToolsStep DEF AnsweringInv
    <2>2. CASE part = "retrieval" /\ [Q!Next]_(Q!vars) /\ part' = part
        BY <2>2, RetrievalStep DEF AnsweringInv
    <2>3. CASE part = "codesearch" /\ [C!Next]_(C!vars) /\ part' = part
        BY <2>3, SearchStep DEF AnsweringInv
    <2>4. CASE part = "toolcall" /\ [T!Next]_(T!vars) /\ part' = part
        BY <2>4, CallStep DEF AnsweringInv
    <2>5. CASE part = "session" /\ [S!Next]_(S!vars) /\ part' = part
        BY <2>5, SessionStep DEF AnsweringInv
    <2>6. CASE part \notin {"tools", "retrieval", "codesearch", "toolcall", "session"} /\ part' = part
        BY <2>6 DEF AnsweringInv
    <2>7. CASE UNCHANGED <<part, vars>>
        <3>1. part' = part /\ UNCHANGED vars /\ UNCHANGED Q!vars /\ UNCHANGED C!vars /\ UNCHANGED T!vars
              /\ UNCHANGED S!vars
            BY <2>7 DEF vars, Q!vars, C!vars, T!vars, S!vars
        <3> QED BY <3>1, <2>1, <2>2, <2>3, <2>4, <2>5, <2>6
    <2> QED BY <2>1, <2>2, <2>3, <2>4, <2>5, <2>7 DEF AnsweringNext
<1> QED BY <1>1, <1>2, PTL DEF AnsweringSpec

-----------------------------------------------------------------------------

\* No replica's sweep ends a stream whose session is alive, with any number of replicas
\* and however the keep-alives, the ends and the restarts interleave, because a stream
\* renews its session more often than a session may rest (McpSession: newSession, stream).
THEOREM StreamsOutliveSweeps == AnsweringSpec => []LiveStreamIsNotCut
<1>1. S!SessionInv => S!LiveStreamIsNotCut
    <2> SUFFICES ASSUME S!SessionInv, NEW r \in Replicas, S!Cut(r) PROVE ~S!RowIsValid
        BY DEF S!LiveStreamIsNotCut
    <2>1. S!SessionTypes /\ S!ChannelsAreOwned /\ S!StreamsAreHeld
        BY DEF S!SessionInv
    <2>2. call[r].done \in defines /\ call[r].done # 0
        BY <2>1 DEF S!Cut, S!SessionTypes
    <2>3. ~S!StreamHasItsEntry(r)
        BY <2>1, <2>2 DEF S!ChannelsAreOwned, S!StreamHasItsEntry
    <2>4. visible = None
        BY <2>1, <2>2, <2>3 DEF S!StreamsAreHeld
    <2> QED BY <2>4 DEF S!RowIsValid
<1>2. AnsweringInv => LiveStreamIsNotCut
    BY <1>1 DEF AnsweringInv, LiveStreamIsNotCut
<1> QED BY <1>2, AnsweringInvariant, PTL

\* Discovery shows a caller no repository the source has not confirmed for this caller,
\* whatever is granted and withdrawn meanwhile (CodeSearch: discoverRemoteCode, remoteScan).
THEOREM DiscoveryIsVerified == AnsweringSpec => []VerifiedOnly
<1>1. AnsweringInv => VerifiedOnly
    BY DEF AnsweringInv, VerifiedOnly, C!VerifiedInv
<1> QED BY <1>1, AnsweringInvariant, PTL

\* An answer says what it lacks, through any change of the embedding settings, any loss of
\* the vector store and of OpenSearch during the request (Retrieval: Query, SemanticSearch).
\* What the three parts leave out is named there: settings that could not be read, a vector
\* weight of 0, what safeSourceHits held back, a model replaced under the request.
THEOREM SearchIsHonest == AnsweringSpec => []AnswerIsHonest
<1>1. Q!RetrievalInv => Q!EmbeddingContract /\ Q!NoMisleadingEmpty /\ Q!SameVectorSpace
    <2> SUFFICES ASSUME Q!RetrievalInv, Q!Local, visible.weight
                 PROVE  \/ could.vectors /\ could.qrev # 0
                        \/ Q!Degraded /\ (visible.mode = "hybrid-required" => "search" \in could.unread)
        BY DEF Q!RetrievalInv, Q!EmbeddingContract
    <2>1. Q!RequestTypes /\ Q!DegradedOpenly /\ Q!QueryIsEmbedded /\ Q!Loaded
        BY DEF Q!RetrievalInv, Q!Loaded, Q!Local
    <2>2. CASE could.vectors
        BY <2>1, <2>2 DEF Q!QueryIsEmbedded
    <2>3. CASE ~could.vectors
        BY <2>1, <2>3 DEF Q!DegradedOpenly
    <2> QED BY <2>2, <2>3
<1>2. AnsweringInv => AnswerIsHonest
    BY <1>1 DEF AnsweringInv, AnswerIsHonest
<1> QED BY <1>2, AnsweringInvariant, PTL

\* A cached answer fits what was indexed when the call began, and outlives the permission
\* it was made under by its time to live and a call's timeout at most, for any number of
\* credentials and entries (McpCall: cacheKey, cached, store).
THEOREM CacheIsGood == AnsweringSpec => []CachedAnswerIsGood
<1>1. T!CacheInv => T!CachedAnswerIsCurrent /\ T!StalePermissionIsBounded
    <2> SUFFICES ASSUME T!CacheInv, NEW c \in Credentials, T!Served(c)
                 PROVE  /\ call[c].text.gen >= call[c].indexed /\ call[c].text.conf >= call[c].key.conf
                        /\ c # "limited" /\ call[c].text.age <= T!MaxAge
        BY DEF T!CachedAnswerIsCurrent, T!StalePermissionIsBounded
    <2>1. T!CallTypes /\ T!KeysAreOfTheirCall /\ T!AnswersFit
        BY DEF T!CacheInv
    <2>2. /\ c # "limited" /\ call[c].text \in T!Texts /\ T!Fits(call[c].text, call[c].key)
          /\ call[c].text.age + call[c].left <= T!MaxAge
        BY <2>1 DEF T!AnswersFit
    <2>3. call[c].indexed = T!IndexedAt(call[c].key)
        BY <2>1 DEF T!KeysAreOfTheirCall
    <2>4. call[c].text.age \in Nat /\ call[c].left \in Nat /\ T!MaxAge \in Nat
        BY <2>1, <2>2, AnsweringAssumption DEF T!CallTypes, T!CallType, T!Texts, T!MaxAge
    <2> QED BY <2>2, <2>3, <2>4 DEF T!Fits
<1>2. AnsweringInv => CachedAnswerIsGood
    BY <1>1 DEF AnsweringInv, CachedAnswerIsGood
<1> QED BY <1>2, AnsweringInvariant, PTL

\* Between any two queries of any tool permissions and indexes may change: no answer
\* shows what the caller could not read at any moment of the call or, outside the rows
\* named in OutsideTheKey, where handlers are known to leave the key out, what the key
\* does not allow (IndexTools).
THEOREM ToolsArePermitted == AnsweringSpec => []ToolAnswerIsPermitted
<1>1. AnsweringInv => ToolAnswerIsPermitted
    BY DEF AnsweringInv, ToolAnswerIsPermitted, PermittedInv
<1> QED BY <1>1, AnsweringInvariant, PTL
=============================================================================
