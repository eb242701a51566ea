----------------------------- MODULE McpSession -----------------------------
(***************************************************************************)
(* One MCP session (internal/mcp/session.go and ServeHTTP in server.go):   *)
(* a row the replicas share, an entry in the memory of every replica that  *)
(* streams to its client, and the streams, each woken by its ticker or by  *)
(* the entry's done channel.  A channel is the number of the entry it was  *)
(* made for.  Other clients are there to open sessions, which sweeps the   *)
(* entries that have run out.  Times are what is left of them.             *)
(***************************************************************************)
EXTENDS Naturals, FiniteSets

CONSTANTS Replicas,
          Life,       \* of a session: 30 minutes
          Every,      \* the ticker: 15 seconds
          MaxMade,    \* entries made in one behaviour
          None

VARIABLES row,        \* expires_at in mcp_sessions; None once deleted
          entry,      \* per replica: what s.sessions holds for the session
          made,       \* entries made so far
          closed,     \* done channels that are closed
          closing,    \* the replica between the two steps of closeSession
          stream      \* per replica

vars == <<row, entry, made, closed, closing, stream>>

NoStream == [pc |-> "none", done |-> 0, due |-> 0]

\* newSession on the replica that answered initialize.
Init == /\ row = Life /\ made = 1 /\ closed = {} /\ closing = None
        /\ \E r \in Replicas :
              entry = [q \in Replicas |-> IF q = r THEN [left |-> Life, done |-> 1] ELSE None]
        /\ stream = [r \in Replicas |-> NoStream]

-----------------------------------------------------------------------------
(* validSession: the row first, then, under the lock, the entry.           *)

RowIsValid == row # None /\ row > 0

\* Mutant: only the row is renewed.
RowOnly(r) == entry

RenewEntry(r) == IF entry[r] = None THEN entry ELSE [entry EXCEPT ![r].left = Life]

\* A POST: nothing else happens to the session, so its two steps are one here;
\* those of a stream are kept apart.
Post(r) ==
    /\ RowIsValid
    /\ row' = Life /\ entry' = RenewEntry(r)
    /\ UNCHANGED <<made, closed, closing, stream>>

\* GET: sessionDone finds the row, or the request is refused.
OpenStream(r) ==
    /\ stream[r].pc = "none" /\ RowIsValid
    /\ row' = Life
    /\ stream' = [stream EXCEPT ![r].pc = "renew"]
    /\ UNCHANGED <<entry, made, closed, closing>>

\* The ticker fires: a row that is gone or has run out ends the stream.
Keepalive(r) ==
    /\ stream[r].pc = "open" /\ stream[r].due = 0
    /\ IF RowIsValid
       THEN row' = Life /\ stream' = [stream EXCEPT ![r].pc = "renew", ![r].due = Every]
       ELSE stream' = [stream EXCEPT ![r] = NoStream] /\ UNCHANGED row
    /\ UNCHANGED <<entry, made, closed, closing>>

\* The entry is renewed; a stream that is opening takes its channel next.
Renew(r) ==
    /\ stream[r].pc = "renew"
    /\ entry' = RenewEntry(r)
    /\ stream' = [stream EXCEPT ![r].pc = IF stream[r].done = 0 THEN "enter" ELSE "open"]
    /\ UNCHANGED <<row, made, closed, closing>>

\* A replica that has no entry makes one, even when the session was closed meanwhile.
Enter(r) ==
    /\ stream[r].pc = "enter"
    /\ \/ /\ entry[r] # None
          /\ UNCHANGED <<entry, made>>
       \/ /\ entry[r] = None /\ made < MaxMade
          /\ made' = made + 1
          /\ entry' = [entry EXCEPT ![r] = [left |-> Life, done |-> made']]
    /\ stream' = [stream EXCEPT ![r] = [pc |-> "open", done |-> entry'[r].done, due |-> Every]]
    /\ UNCHANGED <<row, closed, closing>>

-----------------------------------------------------------------------------

\* The client goes away, or the stream's channel is closed.
EndStream(r) ==
    /\ stream[r].pc = "open"
    /\ stream' = [stream EXCEPT ![r] = NoStream]
    /\ UNCHANGED <<row, entry, made, closed, closing>>

\* closeSession on the replica the DELETE reached: the row goes for all of them,
\* the channel only here.
CloseRow(r) ==
    /\ RowIsValid
    /\ row' = None /\ closing' = r
    /\ UNCHANGED <<entry, made, closed, stream>>

Drop(r) ==
    /\ closed' = closed \cup {entry[r].done}
    /\ entry' = [entry EXCEPT ![r] = None]
    /\ UNCHANGED <<row, made, stream>>

CloseEntry(r) ==
    /\ closing = r /\ closing' = None
    /\ IF entry[r] = None THEN UNCHANGED <<row, entry, made, closed, stream>> ELSE Drop(r)

\* newSession for another client sweeps what has run out.
Sweep(r) == entry[r] # None /\ entry[r].left = 0 /\ Drop(r) /\ UNCHANGED closing

\* Time passes; a ticker that is due is served first.
Tick ==
    /\ closing = None
    /\ \A r \in Replicas : stream[r].pc \in {"none", "open"} /\ (stream[r].pc = "open" => stream[r].due > 0)
    /\ row' = IF RowIsValid THEN row - 1 ELSE row
    /\ entry' = [r \in Replicas |-> IF entry[r] = None \/ entry[r].left = 0 THEN entry[r]
                                    ELSE [entry[r] EXCEPT !.left = @ - 1]]
    /\ stream' = [r \in Replicas |-> IF stream[r].pc = "open" THEN [stream[r] EXCEPT !.due = @ - 1] ELSE stream[r]]
    /\ UNCHANGED <<made, closed, closing>>

Next ==
    \/ \E r \in Replicas : \/ Post(r) \/ OpenStream(r) \/ Keepalive(r) \/ Renew(r) \/ Enter(r)
                           \/ EndStream(r) \/ CloseRow(r) \/ CloseEntry(r) \/ Sweep(r)
    \/ Tick

Spec == Init /\ [][Next]_vars

-----------------------------------------------------------------------------

Cut(r) == stream[r].pc # "none" /\ stream[r].done \in closed

\* The done channel of a stream is closed only when its session is over: a sweep
\* for another client never ends a stream whose keepalives renew the session.
LiveStreamIsNotCut == \A r \in Replicas : Cut(r) => ~RowIsValid

(***************************************************************************)
(* What LiveStreamIsNotCut rests on.  A stream keeps its entry alive: what *)
(* is left of the entry covers the life of a session but for the time the  *)
(* stream's ticker has run since its last turn.                            *)
(***************************************************************************)
SessionTypes ==
    /\ row \in Nat \cup {None}
    /\ made \in Nat /\ closed \subseteq 1..made
    /\ entry \in [Replicas -> [left : Nat, done : 1..made] \cup {None}]
    /\ stream \in [Replicas -> [pc : {"none", "renew", "enter", "open"}, done : 0..made, due : 0..Every]]

\* No two replicas share a channel, and a channel that is in use is not closed.
ChannelsAreOwned ==
    /\ \A r \in Replicas : entry[r] # None => entry[r].done \notin closed
    /\ \A q, r \in Replicas : q # r /\ entry[q] # None =>
          /\ entry[r] # None => entry[q].done # entry[r].done
          /\ stream[r].done # entry[q].done

\* A stream that opens takes the entry that was just renewed.
OpeningIsFresh ==
    \A r \in Replicas :
        /\ stream[r].pc = "none" => stream[r] = NoStream
        /\ stream[r].pc = "open" => stream[r].done # 0
        /\ stream[r].pc = "enter" => stream[r].done = 0 /\ (entry[r] # None => entry[r].left = Life)

StreamHasItsEntry(r) ==
    /\ entry[r] # None /\ entry[r].done = stream[r].done
    /\ entry[r].left + Every >= Life + (IF stream[r].pc = "open" THEN stream[r].due ELSE 0)

StreamsAreHeld ==
    \A r \in Replicas : stream[r].done # 0 => StreamHasItsEntry(r) \/ (stream[r].done \in closed /\ row = None)

SessionInv ==
    /\ SessionTypes /\ ChannelsAreOwned /\ OpeningIsFresh /\ StreamsAreHeld
    /\ closing = None \/ row = None
=============================================================================
