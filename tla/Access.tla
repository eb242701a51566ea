------------------------------- MODULE Access -------------------------------
(***************************************************************************)
(* Users, browser sessions, API keys, the bootstrap administrator and      *)
(* break-glass recovery: internal/app/auth.go, adminusers.go, apikeys.go,  *)
(* internal/apikey and internal/recovery.                                  *)
(*                                                                         *)
(* Replicas share the tables; a request runs on one of them, one SQL       *)
(* statement or transaction at a time, and other requests act in between.  *)
(* A cookie, a key or a token names its row: what it is made of is left    *)
(* out.  Of the roles only platform-admin is told apart.  Time may pass    *)
(* between any two statements of a request.                                *)
(***************************************************************************)
EXTENDS Naturals, FiniteSets, TLC

CONSTANTS Users,        \* people Keycloak knows
          Replicas,
          Requests,     \* requests under way at the same time
          Sessions,     \* login states and the session ids issued for them
          Keys,         \* ids of API keys
          Tokens,       \* break-glass tokens, each valid until TokenLife
          MinuteLimit,  \* calls one key may make in a minute
          HourLimit,    \* and in an hour
          MaxNow,       \* bound on the clock
          MaxRequests,  \* bound on requests and restarts
          None

Bootstrap == "bootstrap-admin"
BreakGlass == "break-glass-admin"
Special == {Bootstrap, BreakGlass}
Everyone == Users \cup Special

BrowserLife == 1        \* browserSessionLifetime, in ticks: renewed in the tick of its end
RenewalThreshold == 0   \* sessionRenewalThreshold
RecoveryLife == 0       \* thirty minutes: ends with the tick
TokenLife == 1
Never == MaxNow + BrowserLife + 1
Limit == <<MinuteLimit, HourLimit>>
Windows == DOMAIN Limit

\* The subjects of the identity provider, which become user ids, are not the reserved ids.
ASSUME AccessAssumption == /\ MaxNow \in Nat /\ MaxRequests \in Nat
                           /\ MinuteLimit \in Nat \ {0} /\ HourLimit \in Nat \ {0}
                           /\ Users \cap Special = {} /\ None \notin Everyone

VARIABLES now,
          users,      \* users, user_roles
          sessions,   \* auth_flows, user_sessions
          keys,       \* api_keys
          bucket,     \* api_key_usage_buckets of the current windows
          consumed,   \* admin_recovery_tokens
          bootRow,    \* platform_bootstrap holds the token
          bootMem,    \* the replicas that hold the token in memory
          req,        \* the requests under way
          begun,      \* requests and restarts so far
          issued,     \* history: sessions opened for each break-glass token
          calls       \* history: calls let through in the current windows

vars == <<now, users, sessions, keys, bucket, consumed, bootRow, bootMem, req,
          begun, issued, calls>>

Idle == [at |-> "idle", node |-> None, user |-> None, admin |-> FALSE, cred |-> None,
         end |-> 0, old |-> None, window |-> 0, seen |-> FALSE]
NoSession == [at |-> "unused", user |-> None, ends |-> 0, issuedAt |-> 0]
Gone == [NoSession EXCEPT !.at = "gone"]
Spent == [NoSession EXCEPT !.at = "spent"]
NoKey == [user |-> None, disabled |-> FALSE, revoked |-> FALSE, ends |-> Never]

Steps == {"idle", "insert", "memory", "row", "drop", "revoke", "renew", "user",
          "charge", "served", "create", "retire"}

UserType == [status: {"absent", "active", "disabled", "deleted"}, managed: BOOLEAN, admin: BOOLEAN]
SessionType == [at: {"unused", "flow", "spent", "row", "gone"}, user: Everyone \cup {None},
                ends: 0..Never, issuedAt: 0..MaxNow]
KeyType == [user: Everyone \cup {None}, disabled: BOOLEAN, revoked: BOOLEAN, ends: 0..Never]
RequestType == [at: Steps, node: Replicas \cup {None}, user: Everyone \cup {None}, admin: BOOLEAN,
                cred: Sessions \cup Keys \cup {None}, end: 0..Never, old: Keys \cup {None},
                window: Nat, seen: BOOLEAN]

TypeOK ==
  /\ now \in 0..MaxNow
  /\ users \in [Everyone -> UserType]
  /\ sessions \in [Sessions -> SessionType]
  /\ keys \in [Keys -> KeyType]
  /\ bucket \in [Keys -> [Windows -> Nat]]
  /\ consumed \subseteq Tokens
  /\ bootRow \in BOOLEAN /\ bootMem \subseteq Replicas
  /\ req \in [Requests -> RequestType]
  /\ issued \in [Tokens -> Nat] /\ calls \in [Keys -> [Windows -> Nat]]

Init ==
  /\ now = 0
  /\ users = [u \in Everyone |-> [status |-> "absent", managed |-> FALSE, admin |-> FALSE]]
  /\ sessions = [s \in Sessions |-> NoSession]
  /\ keys = [k \in Keys |-> NoKey]
  /\ bucket = [k \in Keys |-> [w \in Windows |-> 0]]
  /\ consumed = {}
  /\ bootRow = TRUE /\ bootMem = Replicas
  /\ req = [q \in Requests |-> Idle]
  /\ begun = 0
  /\ issued = [t \in Tokens |-> 0]
  /\ calls = [k \in Keys |-> [w \in Windows |-> 0]]

-----------------------------------------------------------------------------
(* What several handlers share. *)

Active(u) == users[u].status = "active"
Row(s) == sessions[s].at = "row"
FreeSessions == {s \in Sessions : sessions[s].at = "unused"}   \* ids not drawn yet
FreeKeys == {k \in Keys : keys[k].user = None}

\* Mutant: a replica trusts the token it holds.
TokenInMemory(r) == r \in bootMem

\* bootstrapAvailable and validBootstrapToken on replica r: the token the
\* process holds, and the row that says it was not withdrawn elsewhere.
BootstrapAvailable(r) == r \in bootMem /\ bootRow

\* DELETE FROM user_sessions WHERE user_id=?
WithoutSessionsOf(u) ==
  [s \in Sessions |-> IF Row(s) /\ sessions[s].user = u
                      THEN Gone ELSE sessions[s]]
\* UPDATE api_keys SET revoked_at WHERE user_id=? AND revoked_at IS NULL
RevokedKeysOf(u) ==
  [k \in Keys |-> IF keys[k].user = u THEN [keys[k] EXCEPT !.revoked = TRUE] ELSE keys[k]]

Issue(s, u, life) ==
  [sessions EXCEPT ![s] = [at |-> "row", user |-> u, ends |-> now + life, issuedAt |-> now]]

Usable(k) == /\ keys[k].user # None /\ ~keys[k].disabled /\ ~keys[k].revoked
             /\ now <= keys[k].ends

Begin(q) == /\ req[q].at = "idle"
            /\ begun < MaxRequests
            /\ begun' = begun + 1
\* A request whose principal is on its context: a handler runs.
Served(u, admin, seen) ==
  [Idle EXCEPT !.at = "served", !.user = u, !.admin = admin, !.seen = seen]
Finish(q) == req' = [req EXCEPT ![q] = Idle]

-----------------------------------------------------------------------------
(* Keycloak logins. *)

\* login: the state and verifier of a login are stored before the redirect.
Login ==
  \E s \in FreeSessions :
    /\ sessions' = [sessions EXCEPT ![s].at = "flow", ![s].ends = now]
    /\ UNCHANGED <<now, users, keys, bucket, consumed, bootRow, bootMem, req, begun,
                   issued, calls>>

\* upsertIdentity: one transaction on the user's row, which the first statement locks.
\* An account an administrator manages keeps the roles it was given.
UpsertedUser(u, claim) ==
  IF users[u].status = "absent"
  THEN [status |-> "active", managed |-> FALSE, admin |-> claim]
  ELSE IF Active(u) /\ ~users[u].managed THEN [users[u] EXCEPT !.admin = claim]
  ELSE users[u]

\* What Keycloak's token says of its bearer once the verifier accepts it: the subject, and
\* whether the mapped roles hold platform-admin.
Identities == [user: Users, admin: BOOLEAN]

\* callback: consumes the login state, exchanges the code (external: it works once) and
\* synchronises the identity; a user who is not active gets no session.
Callback(q, r) ==
  \E s \in Sessions, who \in Identities :
    LET u == who.user IN
    /\ sessions[s].at = "flow" /\ now <= sessions[s].ends
    /\ Begin(q)
    /\ sessions' = [sessions EXCEPT ![s] = Spent]
    /\ users' = [users EXCEPT ![u] = UpsertedUser(u, who.admin)]
    /\ IF users'[u].status = "active"
       THEN req' = [req EXCEPT ![q] = [Idle EXCEPT !.at = "insert", !.node = r, !.user = u,
                                         !.admin = who.admin, !.cred = s, !.seen = TRUE]]
       ELSE req' = req
    /\ UNCHANGED <<now, keys, bucket, consumed, bootRow, bootMem, issued, calls>>

\* The rest of callback and of bootstrapLogin: the session row, written after the checks.
OpenSession(q) ==
  LET u == req[q].user
      life == IF u = Bootstrap THEN RecoveryLife ELSE BrowserLife
  IN /\ req[q].at = "insert"
     /\ sessions' = Issue(req[q].cred, u, life)
     /\ req' = [req EXCEPT ![q] = IF u # Bootstrap /\ req[q].admin
                                  THEN [req[q] EXCEPT !.at = "memory"] ELSE Idle]
     /\ UNCHANGED <<now, users, keys, bucket, consumed, bootRow, bootMem, begun, issued,
                    calls>>

\* disableBootstrapAdmin, at the end of an administrator's login: the token in memory,
\* the row, the sessions and the keys, one after the other.  The errors of the three
\* statements are discarded: each may change nothing.
DisableBootstrapAdmin(q) ==
  /\ \/ /\ req[q].at = "memory"
        /\ bootMem' = bootMem \ {req[q].node}
        /\ req' = [req EXCEPT ![q].at = "row"]
        /\ UNCHANGED <<bootRow, sessions, keys>>
     \/ /\ req[q].at = "row"
        /\ bootRow' \in {FALSE, bootRow}
        /\ req' = [req EXCEPT ![q].at = "drop"]
        /\ UNCHANGED <<bootMem, sessions, keys>>
     \/ /\ req[q].at = "drop"
        /\ sessions' \in {WithoutSessionsOf(Bootstrap), sessions}
        /\ req' = [req EXCEPT ![q].at = "revoke"]
        /\ UNCHANGED <<bootMem, bootRow, keys>>
     \/ /\ req[q].at = "revoke"
        /\ keys' \in {RevokedKeysOf(Bootstrap), keys}
        /\ Finish(q)
        /\ UNCHANGED <<bootMem, bootRow, sessions>>
  /\ UNCHANGED <<now, users, bucket, consumed, begun, issued, calls>>

\* loadOrCreateBootstrapToken at a start: the token is the stored one, and with Keycloak
\* configured none is made when the row is gone.
Restart(r) ==
  /\ begun < MaxRequests
  /\ \A q \in Requests : req[q].node # r
  /\ bootMem' = IF bootRow THEN bootMem \cup {r} ELSE bootMem \ {r}
  /\ begun' = begun + 1
  /\ UNCHANGED <<now, users, sessions, keys, bucket, consumed, bootRow, req, issued, calls>>

-----------------------------------------------------------------------------
(* The bootstrap and break-glass entrances. *)

\* INSERT INTO users ... ON CONFLICT DO NOTHING.
UpsertedBootstrap == [users[Bootstrap] EXCEPT !.status = IF @ = "absent" THEN "active" ELSE @]

\* bootstrapLogin: the token is checked and the identity created; OpenSession follows.
BootstrapLogin(q, r) ==
  \E s \in FreeSessions :
    /\ BootstrapAvailable(r)
    /\ Begin(q)
    /\ req' = [req EXCEPT ![q] = [Idle EXCEPT !.at = "insert", !.node = r, !.user = Bootstrap,
                                             !.cred = s, !.seen = TRUE]]
    /\ users' = [users EXCEPT ![Bootstrap] = UpsertedBootstrap]
    /\ sessions' = [sessions EXCEPT ![s] = Spent]
    /\ UNCHANGED <<now, keys, bucket, consumed, bootRow, bootMem, issued, calls>>

\* Mutant: the expiry is not compared.
VerifySignatureOnly(t) == t \in Tokens

\* recovery.Verify: a token is refused from the moment it expires.
Verify(t) == now < TokenLife

\* recoveryLogin: the token, the account, its role and its single session are written in
\* one transaction, serialised by the token's and the account's rows.  The check of the
\* token belongs to the same step: a request does not last until the scheduler deletes the
\* token's record.
RecoveryLogin ==
  \E t \in Tokens, s \in FreeSessions :
    /\ Verify(t)
    /\ t \notin consumed
    /\ consumed' = consumed \cup {t}
    /\ users' = [users EXCEPT ![BreakGlass].status = "active", ![BreakGlass].admin = TRUE]
    /\ sessions' = [WithoutSessionsOf(BreakGlass) EXCEPT
                      ![s] = [at |-> "row", user |-> BreakGlass, ends |-> now + RecoveryLife,
                              issuedAt |-> now]]
    /\ issued' = [issued EXCEPT ![t] = @ + 1]
    /\ UNCHANGED <<now, keys, bucket, bootRow, bootMem, req, begun, calls>>

-----------------------------------------------------------------------------
(* authenticate: by session, by API key. *)

\* Mutant: the account's status is not joined.
SessionAlone(s, r) == /\ Row(s) /\ now <= sessions[s].ends
                      /\ sessions[s].user = Bootstrap => BootstrapAvailable(r)

\* sessionPrincipal: one SELECT over session and user, the roles, the bootstrap check.
SessionPrincipal(s, r) ==
  /\ Row(s) /\ now <= sessions[s].ends
  /\ Active(sessions[s].user)
  /\ sessions[s].user = Bootstrap => BootstrapAvailable(r)

AuthenticateSession(q, r) ==
  \E s \in Sessions :
    LET u == sessions[s].user
    IN /\ SessionPrincipal(s, r)
       /\ Begin(q)
       /\ req' = [req EXCEPT ![q] = [Idle EXCEPT !.at = "renew", !.node = r, !.user = u,
                    !.admin = users[u].admin \/ u = Bootstrap, !.cred = s,
                    !.end = sessions[s].ends, !.seen = Active(u)]]
       /\ UNCHANGED <<now, users, sessions, keys, bucket, consumed, bootRow, bootMem,
                      issued, calls>>

\* Mutant: the row is written back whether or not it is still there.
WrittenBack(s) == [sessions EXCEPT ![s].at = "row", ![s].ends = now + BrowserLife]

\* The UPDATE of renewSession: it finds the row by its id, or no row at all.
Renewed(s) == IF Row(s) THEN [sessions EXCEPT ![s].ends = now + BrowserLife] ELSE sessions

\* renewSession: a browser session near its end is extended, a short-lived one never.
RenewSession(q) ==
  /\ req[q].at = "renew"
  /\ sessions' = IF req[q].user \notin Special /\ req[q].end <= now + RenewalThreshold
                 THEN Renewed(req[q].cred) ELSE sessions
  /\ req' = [req EXCEPT ![q] = Served(req[q].user, req[q].admin, req[q].seen)]
  /\ UNCHANGED <<now, users, keys, bucket, consumed, bootRow, bootMem, begun, issued, calls>>

\* AuthenticateRequest up to the rate limits: the key's row as it is now.
AuthenticateKey(q, r) ==
  \E k \in Keys :
    /\ Usable(k)
    /\ Begin(q)
    /\ req' = [req EXCEPT ![q] = [Idle EXCEPT !.at = "charge", !.node = r, !.cred = k,
                 !.user = keys[k].user, !.window = 1, !.seen = Active(keys[k].user)]]
    /\ UNCHANGED <<now, users, sessions, keys, bucket, consumed, bootRow, bootMem,
                   issued, calls>>

\* Mutant: the count is read before it is incremented.
CountBefore(k, w) == bucket[k][w]

\* The count applyRateLimits gets back: incremented and returned by one statement.
Charged(k, w) == bucket[k][w] + 1

\* applyRateLimits, one window at a time: a window that is full refuses the call, and the
\* windows before it keep the charge.
ApplyRateLimits(q) ==
  LET k == req[q].cred
      w == req[q].window
      count == Charged(k, w)
  IN /\ req[q].at = "charge"
     /\ bucket' = [bucket EXCEPT ![k][w] = IF count > Limit[w] THEN Limit[w] ELSE count]
     /\ IF count > Limit[w]
        THEN Finish(q) /\ calls' = calls
        ELSE /\ req' = [req EXCEPT ![q].at = IF w + 1 \in Windows THEN "charge" ELSE "user",
                                   ![q].window = w + 1]
             /\ calls' = [calls EXCEPT ![k][w] = @ + 1]
     /\ UNCHANGED <<now, users, sessions, keys, consumed, bootRow, bootMem, begun, issued>>

\* A minute ends; every sixtieth one ends the hour too.
NewWindow ==
  \E last \in Windows :
    LET fresh(f) == [k \in Keys |-> [w \in Windows |-> IF w <= last THEN 0 ELSE f[k][w]]]
    IN /\ bucket # fresh(bucket)
       /\ bucket' = fresh(bucket)
       /\ calls' = fresh(calls)
       /\ UNCHANGED <<now, users, sessions, keys, consumed, bootRow, bootMem, req, begun,
                      issued>>

\* The rest of authenticate: the user of the key must be active, the bootstrap
\* administrator still available; the roles are those of the tables.
KeyPrincipal(q) ==
  /\ Active(req[q].user)
  /\ req[q].user = Bootstrap => BootstrapAvailable(req[q].node)

LoadKeyUser(q) ==
  LET u == req[q].user
  IN /\ req[q].at = "user"
     /\ IF KeyPrincipal(q)
        THEN req' = [req EXCEPT ![q] = Served(u, users[u].admin \/ u = Bootstrap, req[q].seen)]
        ELSE Finish(q)
     /\ UNCHANGED <<now, users, sessions, keys, bucket, consumed, bootRow, bootMem, begun,
                    issued, calls>>

\* A bearer token: Keycloak's, whose identity is synchronised and whose roles hold for the
\* request, or the bootstrap administrator's.
AuthenticateBearer(q, r) ==
  /\ \/ \E who \in Identities :
          /\ users' = [users EXCEPT ![who.user] = UpsertedUser(who.user, who.admin)]
          /\ users'[who.user].status = "active"
          /\ Begin(q)
          /\ req' = [req EXCEPT ![q] = Served(who.user, who.admin, TRUE)]
     \/ /\ BootstrapAvailable(r)
        /\ users' = [users EXCEPT ![Bootstrap] = UpsertedBootstrap]
        /\ Begin(q)
        /\ req' = [req EXCEPT ![q] = Served(Bootstrap, TRUE, TRUE)]
  /\ UNCHANGED <<now, sessions, keys, bucket, consumed, bootRow, bootMem, issued, calls>>

\* A handler that changes nothing here, or a client that goes away.
Respond(q) ==
  /\ req[q].at = "served"
  /\ Finish(q)
  /\ UNCHANGED <<now, users, sessions, keys, bucket, consumed, bootRow, bootMem, begun, issued,
                 calls>>

\* logout deletes the row of the cookie, whoever it is.
Logout ==
  \E s \in Sessions :
    /\ Row(s)
    /\ sessions' = [sessions EXCEPT ![s] = Gone]
    /\ UNCHANGED <<now, users, keys, bucket, consumed, bootRow, bootMem, req, begun, issued,
                   calls>>

-----------------------------------------------------------------------------
(* API keys of the caller. *)

\* createKey and CreateWithRestrictions: recovery sessions make no key.
CreateKey(q) ==
  \E k \in FreeKeys, ends \in {now + 1, Never} :
    /\ req[q].at = "served" /\ req[q].user # BreakGlass
    /\ keys' = [keys EXCEPT ![k] = [NoKey EXCEPT !.user = req[q].user, !.ends = ends]]
    /\ Finish(q)
    /\ UNCHANGED <<now, users, sessions, bucket, consumed, bootRow, bootMem, begun, issued, calls>>

\* Rotate reads the key, creates its replacement and retires it: three statements.
RotateKey(q) ==
  /\ \/ \E k \in Keys :
          /\ req[q].at = "served"
          /\ keys[k].user = req[q].user /\ Usable(k)
          /\ req' = [req EXCEPT ![q].at = "create", ![q].old = k, ![q].end = keys[k].ends]
          /\ UNCHANGED keys
     \/ \E k \in FreeKeys :
          /\ req[q].at = "create"
          /\ keys' = [keys EXCEPT ![k] = [NoKey EXCEPT !.user = req[q].user, !.ends = req[q].end]]
          /\ req' = [req EXCEPT ![q].at = "retire"]
     \/ \E overlap \in {0, 1} :
          /\ req[q].at = "retire"
          /\ keys' = [keys EXCEPT ![req[q].old].ends =
                        IF req[q].end < now + overlap THEN req[q].end ELSE now + overlap]
          /\ Finish(q)
     \/ /\ req[q].at = "create" /\ FreeKeys = {}
        /\ Finish(q)
        /\ UNCHANGED keys
  /\ UNCHANGED <<now, users, sessions, bucket, consumed, bootRow, bootMem, begun, issued, calls>>

\* SetStatus, by the owner: disabled and enabled only while not revoked, enabled only while
\* not expired.
WithStatus(k, status) ==
  CASE status = "disabled" -> [keys[k] EXCEPT !.disabled = ~keys[k].revoked \/ @]
    [] status = "enabled" -> [keys[k] EXCEPT !.disabled =
                                @ /\ (keys[k].revoked \/ keys[k].ends <= now)]
    [] OTHER -> [keys[k] EXCEPT !.revoked = TRUE]

SetStatus(q) ==
  \E k \in Keys, status \in {"disabled", "enabled", "revoked"} :
    /\ req[q].at = "served"
    /\ keys[k].user = req[q].user
    /\ keys' = [keys EXCEPT ![k] = WithStatus(k, status)]
    /\ Finish(q)
    /\ UNCHANGED <<now, users, sessions, bucket, consumed, bootRow, bootMem, begun, issued, calls>>

-----------------------------------------------------------------------------
(* Administrators. *)

Reseen(u) == [q \in Requests |-> IF req[q].user = u THEN [req[q] EXCEPT !.seen = TRUE] ELSE req[q]]

\* writeAdminUser for createAdminUser and updateAdminUser: the account and its roles, and
\* for an account that is not active its sessions and keys, in one transaction.
WriteAdminUser(q) ==
  \E u \in Users, status \in {"active", "disabled"}, admin \in BOOLEAN :
    /\ req[q].at = "served" /\ req[q].admin
    /\ u = req[q].user => status = "active" /\ admin
    /\ users' = [users EXCEPT ![u] = [status |-> status, managed |-> TRUE, admin |-> admin]]
    /\ IF status = "active"
       THEN UNCHANGED <<sessions, keys>> /\ req' = [Reseen(u) EXCEPT ![q] = Idle]
       ELSE sessions' = WithoutSessionsOf(u) /\ keys' = RevokedKeysOf(u) /\ Finish(q)
    /\ UNCHANGED <<now, bucket, consumed, bootRow, bootMem, begun, issued, calls>>

\* deleteAdminUser.
DeleteAdminUser(q) ==
  \E u \in Users :
    /\ req[q].at = "served" /\ req[q].admin /\ u # req[q].user
    /\ users[u].status # "absent"
    /\ users' = [users EXCEPT ![u].status = "deleted"]
    /\ sessions' = WithoutSessionsOf(u)
    /\ keys' = RevokedKeysOf(u)
    /\ Finish(q)
    /\ UNCHANGED <<now, bucket, consumed, bootRow, bootMem, begun, issued, calls>>

\* adminRevokeKey.
AdminRevokeKey(q) ==
  \E k \in Keys :
    /\ req[q].at = "served" /\ req[q].admin
    /\ keys[k].user # None /\ ~keys[k].revoked
    /\ keys' = [keys EXCEPT ![k].revoked = TRUE]
    /\ Finish(q)
    /\ UNCHANGED <<now, users, sessions, bucket, consumed, bootRow, bootMem, begun, issued, calls>>

-----------------------------------------------------------------------------
(* Time and the scheduler's cleaning. *)

Tick ==
  /\ now < MaxNow
  /\ now' = now + 1
  /\ UNCHANGED <<users, sessions, keys, bucket, consumed, bootRow, bootMem, req, begun, issued,
                 calls>>

\* Scheduler.RunOnce deletes what has expired: login states, sessions, consumed tokens.
DeleteExpired ==
  /\ sessions' = [s \in Sessions |->
                    IF sessions[s].at \in {"flow", "row"} /\ sessions[s].ends < now
                    THEN Gone ELSE sessions[s]]
  /\ consumed' = {t \in consumed : now <= TokenLife}
  /\ <<sessions', consumed'>> # <<sessions, consumed>>
  /\ UNCHANGED <<now, users, keys, bucket, bootRow, bootMem, req, begun, issued, calls>>

Next ==
  \/ Login \/ RecoveryLogin \/ Logout \/ NewWindow \/ Tick \/ DeleteExpired
  \/ \E r \in Replicas : Restart(r)
  \/ \E q \in Requests :
       \/ OpenSession(q) \/ DisableBootstrapAdmin(q) \/ RenewSession(q)
       \/ ApplyRateLimits(q) \/ LoadKeyUser(q) \/ Respond(q)
       \/ CreateKey(q) \/ RotateKey(q) \/ SetStatus(q)
       \/ WriteAdminUser(q) \/ DeleteAdminUser(q) \/ AdminRevokeKey(q)
       \/ \E r \in Replicas :
            \/ Callback(q, r) \/ BootstrapLogin(q, r)
            \/ AuthenticateSession(q, r) \/ AuthenticateKey(q, r) \/ AuthenticateBearer(q, r)

Spec == Init /\ [][Next]_vars

Symmetry == Permutations(Replicas) \cup Permutations(Requests) \cup Permutations(Sessions)
              \cup Permutations(Keys)

-----------------------------------------------------------------------------
\* A request is never served for an account that was locked out for the whole of it: a
\* session or a key written by a login, a rotation or a creation that raced the
\* administrator's change (after its sessions were deleted and its keys revoked) is a row
\* nobody can use.  authenticate and sessionPrincipal read the account again.
LockedOutIsNotServed ==
  \A q \in Requests : req[q].at \in {"renew", "served"} => req[q].seen

\* What was ended stays ended: a session that was logged out, dropped with its account or
\* deleted by the scheduler is not brought back by the renewal of a request that read it
\* before, and a revoked key is not brought back by a rotation or a change of status.
\* (What has only run out is another matter, see below.)
EndedStaysEnded ==
  [][/\ \A s \in Sessions : sessions[s].at = "gone" => sessions'[s].at = "gone"
     /\ \A k \in Keys : keys[k].revoked => keys'[k].revoked]_vars

\* Recovery is a narrow way in: a break-glass token opens one session, also after the
\* scheduler has deleted the record of its use; there is one such session at a time; and
\* neither it nor a bootstrap session ever lasts longer than it was given.
RecoveryIsNarrow ==
  /\ \A t \in Tokens : issued[t] <= 1
  /\ Cardinality({s \in Sessions : Row(s) /\ sessions[s].user = BreakGlass}) <= 1
  /\ \A s \in Sessions : Row(s) /\ sessions[s].user \in Special
                           => sessions[s].ends <= sessions[s].issuedAt + RecoveryLife

\* Once an administrator's Keycloak login has deleted the bootstrap row, no replica lets the
\* bootstrap administrator in any more, whatever it holds in memory, whatever a bootstrap
\* login that raced the deletion wrote and whatever sessions and keys are left: only requests
\* that had passed the check before are finished.
BootstrapEnds ==
  [][~bootRow => \A q \in Requests :
       req'[q].at = "served" /\ req'[q].user = Bootstrap
         => req[q].at \in {"renew", "served"}]_vars

\* Of the calls made with one key in one window at most the limit is let through, on
\* whichever replicas they arrive.
WithinRateLimit == \A k \in Keys, w \in Windows : calls[k][w] <= Limit[w]

\* What the documents and comments promise and the code does not keep (README, section 6).

\* "renewSession extends an active browser session": a session that has run out since the
\* request read it is not extended.
ExpiredIsNotRenewed ==
  [][\A s \in Sessions : Row(s) /\ sessions[s].ends < now => sessions'[s].ends <= sessions[s].ends]_vars

\* "only an active key can be rotated": a rotation does not prolong a key, one that has been
\* retired by another rotation meanwhile included.
RetiredKeyIsNotProlonged ==
  [][\A k \in Keys : keys[k].user # None => keys'[k].ends <= keys[k].ends]_vars

\* "실제 platform-admin SSO 로그인이 한 번 성공하면 최초 Bootstrap 토큰은 전역 폐기된다": an
\* administrator's login that is over has deleted the row.
LoginEndsBootstrap ==
  [][\A q \in Requests : req[q].at = "revoke" /\ req'[q].at # "revoke" => ~bootRow']_vars
=============================================================================
