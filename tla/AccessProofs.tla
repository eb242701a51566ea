---------------------------- MODULE AccessProofs ----------------------------
(***************************************************************************)
(* Users, sessions, keys and the recovery entrances of Access for any      *)
(* number of users, replicas, requests, sessions, keys and tokens and any  *)
(* limits.                                                                 *)
(*                                                                         *)
(* A request carries what it read to its later statements while others     *)
(* change the tables.  RequestOK says what of it is still true: the        *)
(* account it names was made and, if the request has not been seen active, *)
(* is not active; the session it will insert is nobody's and the one it    *)
(* renews is still the account's own, if it is still there.                *)
(***************************************************************************)
EXTENDS Access, FiniteSetTheorems, TLAPS

\* A request v in a state with the accounts us and the sessions ss.
RequestOK(v, us, ss) ==
  /\ v.at # "idle" => v.user \in Everyone /\ us[v.user].status # "absent"
  /\ v.at = "charge" => v.cred \in Keys /\ v.window \in Windows
  /\ v.at \in {"charge", "user"} => v.user # BreakGlass /\ (v.seen \/ us[v.user].status # "active")
  /\ v.at \in {"create", "retire"} => v.user # BreakGlass
  /\ v.at \in {"renew", "served"} => v.seen
  /\ v.at = "insert" => v.cred \in Sessions /\ ss[v.cred].at = "spent" /\ v.user # BreakGlass
  /\ v.at = "renew" => /\ v.cred \in Sessions
                       /\ ss[v.cred].at \in {"row", "gone"}
                       /\ ss[v.cred].at = "row" => ss[v.cred].user = v.user

RequestsInv ==
  /\ \A q \in Requests : RequestOK(req[q], users, sessions)
  /\ \A p, q \in Requests : req[p].at = "insert" /\ req[q].at = "insert" /\ p # q
                              => req[p].cred # req[q].cred

\* Keys are owned by accounts that were made, never by the break-glass account, and an id
\* that was not given away is not revoked.
KeysInv == \A k \in Keys :
  /\ keys[k].user # None => users[keys[k].user].status # "absent" /\ keys[k].user # BreakGlass
  /\ keys[k].user = None => ~keys[k].revoked

SessionsInv ==
  /\ \A s \in Sessions : Row(s) => /\ sessions[s].user \in Everyone
                                   /\ sessions[s].user \in Special =>
                                        sessions[s].ends <= sessions[s].issuedAt + RecoveryLife
  /\ \A s, z \in Sessions : Row(s) /\ Row(z) /\ sessions[s].user = BreakGlass
                              /\ sessions[z].user = BreakGlass => s = z

\* A token that was used is on record until it has expired.
TokensInv == \A t \in Tokens :
  /\ issued[t] <= 1
  /\ issued[t] > 0 => t \in consumed \/ now > TokenLife

\* The shared counters are never behind the calls that were let through.
RateInv == \A k \in Keys, w \in Windows : calls[k][w] <= bucket[k][w] /\ bucket[k][w] <= Limit[w]

AccessInv == TypeOK /\ RequestsInv /\ KeysInv /\ SessionsInv /\ TokensInv /\ RateInv

-----------------------------------------------------------------------------
(* Types. *)

LEMMA EveryoneType == /\ Users \subseteq Everyone /\ Bootstrap \in Everyone /\ BreakGlass \in Everyone
                      /\ Bootstrap # BreakGlass /\ Bootstrap \notin Users /\ BreakGlass \notin Users
                      /\ None \notin Everyone /\ Bootstrap \in Special /\ BreakGlass \in Special
                      /\ \A u \in Users : u \notin Special
BY AccessAssumption DEF Everyone, Special, Bootstrap, BreakGlass

LEMMA TimeType ==
  ASSUME TypeOK
  PROVE  /\ now \in Nat /\ now \in 0..Never /\ now + 1 \in 0..Never /\ Never \in 0..Never
         /\ now + BrowserLife \in 0..Never /\ now + RecoveryLife \in 0..Never
         /\ 0 \in 0..Never /\ 0 \in 0..MaxNow
BY AccessAssumption DEF TypeOK, Never, BrowserLife, RecoveryLife

LEMMA IdleType == Idle \in RequestType /\ Idle.at = "idle"
BY AccessAssumption DEF Idle, RequestType, Steps, Never, BrowserLife

LEMMA NoKeyType == NoKey \in KeyType /\ NoKey.revoked = FALSE
BY AccessAssumption DEF NoKey, KeyType, Never, BrowserLife

LEMMA NoSessionType == /\ NoSession \in SessionType
                       /\ Gone \in SessionType /\ Gone.at = "gone"
                       /\ Spent \in SessionType /\ Spent.at = "spent"
BY AccessAssumption DEF NoSession, Gone, Spent, SessionType, Never, BrowserLife

LEMMA ServedType ==
  ASSUME NEW u \in Everyone \cup {None}, NEW admin \in BOOLEAN, NEW seen \in BOOLEAN
  PROVE  /\ Served(u, admin, seen) \in RequestType
         /\ Served(u, admin, seen).at = "served" /\ Served(u, admin, seen).user = u
         /\ Served(u, admin, seen).seen = seen
BY IdleType DEF Served, RequestType, Steps

LEMMA WithoutType ==
  ASSUME TypeOK, NEW u
  PROVE  /\ WithoutSessionsOf(u) \in [Sessions -> SessionType]
         /\ RevokedKeysOf(u) \in [Keys -> KeyType]
BY NoSessionType, ZenonT(40) DEF TypeOK, WithoutSessionsOf, RevokedKeysOf, KeyType

LEMMA UpsertType ==
  ASSUME TypeOK
  PROVE  /\ \A u \in Everyone, claim \in BOOLEAN : UpsertedUser(u, claim) \in UserType
         /\ UpsertedBootstrap \in UserType
<1>1. ASSUME NEW u \in Everyone, NEW claim \in BOOLEAN PROVE UpsertedUser(u, claim) \in UserType
  BY DEF TypeOK, UpsertedUser, UserType
<1>2. UpsertedBootstrap \in UserType
  BY EveryoneType DEF TypeOK, UpsertedBootstrap, UserType
<1> QED BY <1>1, <1>2

LEMMA WindowsAre == Windows = {1, 2} /\ \A w \in Windows : Limit[w] \in Nat
BY AccessAssumption DEF Windows, Limit

\* One request is given another value.
LEMMA SetRequest ==
  ASSUME req \in [Requests -> RequestType], NEW q \in Requests, NEW v \in RequestType,
         req' = [req EXCEPT ![q] = v]
  PROVE  /\ req' \in [Requests -> RequestType] /\ req'[q] = v
         /\ \A p \in Requests : p # q => req'[p] = req[p]
OBVIOUS

\* One counter is given another value.
LEMMA SetCell ==
  ASSUME NEW f \in [Keys -> [Windows -> Nat]], NEW k \in Keys, NEW w \in Windows, NEW n \in Nat
  PROVE  /\ [f EXCEPT ![k][w] = n] \in [Keys -> [Windows -> Nat]]
         /\ [f EXCEPT ![k][w] = n][k][w] = n
         /\ \A j \in Keys, v \in Windows : j # k \/ v # w => [f EXCEPT ![k][w] = n][j][v] = f[j][v]
OBVIOUS

LEMMA TypeStep == TypeOK /\ RequestsInv /\ [Next]_vars => TypeOK'
<1> SUFFICES ASSUME TypeOK, RequestsInv, [Next]_vars PROVE TypeOK'
  OBVIOUS
<1> USE DEF TypeOK
<1>1. CASE UNCHANGED vars
  BY <1>1 DEF vars
<1>2. CASE Login
  <2>1. PICK s \in Sessions : sessions' = [sessions EXCEPT ![s].at = "flow", ![s].ends = now]
    BY <1>2 DEF Login, FreeSessions
  <2>2. [sessions[s] EXCEPT !.at = "flow", !.ends = now] \in SessionType
    BY TimeType DEF SessionType
  <2>3. sessions' \in [Sessions -> SessionType]
    BY <2>1, <2>2
  <2> QED BY <1>2, <2>3 DEF Login
<1>3. CASE RecoveryLogin
  <2>1. PICK t \in Tokens, s \in Sessions :
          /\ consumed' = consumed \cup {t}
          /\ users' = [users EXCEPT ![BreakGlass].status = "active", ![BreakGlass].admin = TRUE]
          /\ sessions' = [WithoutSessionsOf(BreakGlass) EXCEPT
                      ![s] = [at |-> "row", user |-> BreakGlass, ends |-> now + RecoveryLife,
                              issuedAt |-> now]]
          /\ issued' = [issued EXCEPT ![t] = @ + 1]
    BY <1>3 DEF RecoveryLogin, FreeSessions
  <2>2. [users[BreakGlass] EXCEPT !.status = "active", !.admin = TRUE] \in UserType
    BY EveryoneType DEF UserType
  <2>3. users' \in [Everyone -> UserType]
    BY <2>1, <2>2
  <2>4. [at |-> "row", user |-> BreakGlass, ends |-> now + RecoveryLife, issuedAt |-> now] \in SessionType
    BY EveryoneType, TimeType DEF SessionType
  <2>5. sessions' \in [Sessions -> SessionType]
    BY <2>1, <2>4, WithoutType
  <2>6. consumed' \subseteq Tokens /\ issued' \in [Tokens -> Nat]
    BY <2>1
  <2> QED BY <1>3, <2>3, <2>5, <2>6 DEF RecoveryLogin
<1>4. CASE Logout
  <2>1. sessions' \in [Sessions -> SessionType]
    <3>1. PICK s \in Sessions : sessions' = [sessions EXCEPT ![s] = Gone]
      BY <1>4 DEF Logout
    <3> QED BY <3>1, NoSessionType
  <2> QED BY <1>4, <2>1 DEF Logout
<1>5. CASE NewWindow
  <2>1. bucket' \in [Keys -> [Windows -> Nat]] /\ calls' \in [Keys -> [Windows -> Nat]]
    BY <1>5 DEF NewWindow
  <2> QED BY <1>5, <2>1 DEF NewWindow
<1>6. CASE Tick
  BY <1>6, AccessAssumption DEF Tick
<1>7. CASE DeleteExpired
  <2>1. sessions' \in [Sessions -> SessionType]
    BY <1>7, NoSessionType, ZenonT(40) DEF DeleteExpired
  <2> QED BY <1>7, <2>1 DEF DeleteExpired
<1>8. ASSUME NEW r \in Replicas, Restart(r) PROVE TypeOK'
  BY <1>8 DEF Restart
<1>9. ASSUME NEW q \in Requests PROVE OpenSession(q) => TypeOK'
  <2> SUFFICES ASSUME OpenSession(q) PROVE TypeOK'
    OBVIOUS
  <2>1. PICK life \in {RecoveryLife, BrowserLife} : sessions' = Issue(req[q].cred, req[q].user, life)
    BY DEF OpenSession
  <2>2. [at |-> "row", user |-> req[q].user, ends |-> now + life, issuedAt |-> now] \in SessionType
    BY <2>1, TimeType DEF RequestType, SessionType
  <2>3. sessions' \in [Sessions -> SessionType]
    BY <2>1, <2>2 DEF Issue
  <2>4. [req[q] EXCEPT !.at = "memory"] \in RequestType
    BY ZenonT(40) DEF RequestType, Steps
  <2>5. req' \in [Requests -> RequestType]
    BY <2>4, IdleType DEF OpenSession
  <2> QED BY <2>3, <2>5 DEF OpenSession
<1>10. ASSUME NEW q \in Requests, DisableBootstrapAdmin(q) PROVE TypeOK'
  <2>1. \A a \in {"row", "drop", "revoke"} : [req[q] EXCEPT !.at = a] \in RequestType
    BY ZenonT(40) DEF RequestType, Steps
  <2>2. \A a \in {"row", "drop", "revoke"} : [req EXCEPT ![q].at = a] \in [Requests -> RequestType]
    BY <2>1
  <2>3. req' \in [Requests -> RequestType]
    BY <1>10, <2>2, IdleType DEF DisableBootstrapAdmin, Finish
  <2>4. /\ sessions' \in [Sessions -> SessionType] /\ keys' \in [Keys -> KeyType]
        /\ bootMem' \subseteq Replicas /\ bootRow' \in BOOLEAN
    BY <1>10, WithoutType DEF DisableBootstrapAdmin
  <2> QED BY <1>10, <2>3, <2>4 DEF DisableBootstrapAdmin
<1>11. ASSUME NEW q \in Requests, RenewSession(q) PROVE TypeOK'
  <2>1. \A s \in Sessions : [sessions[s] EXCEPT !.ends = now + BrowserLife] \in SessionType
    BY TimeType DEF SessionType
  <2>2. sessions' \in [Sessions -> SessionType]
    BY <1>11, <2>1 DEF RenewSession, Renewed
  <2>3. req[q] \in RequestType /\ Served(req[q].user, req[q].admin, req[q].seen) \in RequestType
    BY ServedType DEF RequestType
  <2>4. req' \in [Requests -> RequestType]
    BY <1>11, <2>3 DEF RenewSession
  <2> QED BY <1>11, <2>2, <2>4 DEF RenewSession
<1>12. ASSUME NEW q \in Requests, ApplyRateLimits(q) PROVE TypeOK'
  <2>1. req[q] \in RequestType /\ req[q].window \in Nat
    BY DEF RequestType
  <2>2. ASSUME NEW a \in {"charge", "user"}, NEW n \in Nat
        PROVE  [req EXCEPT ![q].at = a, ![q].window = n] \in [Requests -> RequestType]
    <3>1. [req[q] EXCEPT !.at = a, !.window = n] \in RequestType
      BY <2>1 DEF RequestType, Steps
    <3> QED BY <3>1
  <2>3. req' \in [Requests -> RequestType]
    <3>1. req[q].window + 1 \in Nat
      BY <2>1
    <3>2. CASE Finish(q)
      BY <3>2, IdleType DEF Finish
    <3>3. CASE ~Finish(q)
      <4> DEFINE a == IF req[q].window + 1 \in Windows THEN "charge" ELSE "user"
                 n == req[q].window + 1
      <4>1. req' = [req EXCEPT ![q].at = a, ![q].window = n]
        BY <1>12, <3>3 DEF ApplyRateLimits
      <4>2. a \in {"charge", "user"} /\ n \in Nat
        BY <3>1
      <4> HIDE DEF a, n
      <4> QED BY <2>2, <4>1, <4>2
    <3> QED BY <3>2, <3>3
  <2> DEFINE k == req[q].cred
             w == req[q].window
  <2>4. k \in Keys /\ w \in Windows
    BY <1>12 DEF ApplyRateLimits, RequestsInv, RequestOK
  <2>5. bucket[k][w] \in Nat /\ calls[k][w] \in Nat /\ Limit[w] \in Nat
    BY <2>4, WindowsAre
  <2>6. PICK b \in Nat : bucket' = [bucket EXCEPT ![k][w] = b]
    <3> DEFINE n == IF bucket[k][w] + 1 > Limit[w] THEN Limit[w] ELSE bucket[k][w] + 1
    <3>1. bucket' = [bucket EXCEPT ![k][w] = n]
      BY <1>12 DEF ApplyRateLimits, Charged
    <3>2. n \in Nat
      BY <2>5
    <3> HIDE DEF n
    <3> QED BY <3>1, <3>2
  <2>7. calls' = calls \/ calls' = [calls EXCEPT ![k][w] = calls[k][w] + 1]
    BY <1>12 DEF ApplyRateLimits
  <2> HIDE DEF k, w
  <2>8. bucket' \in [Keys -> [Windows -> Nat]]
    BY <2>4, <2>6, SetCell
  <2>9. calls' \in [Keys -> [Windows -> Nat]]
    <3>1. calls[k][w] + 1 \in Nat
      BY <2>5
    <3>2. [calls EXCEPT ![k][w] = calls[k][w] + 1] \in [Keys -> [Windows -> Nat]]
      BY <2>4, <3>1, SetCell
    <3> QED BY <2>7, <3>2
  <2> QED BY <1>12, <2>3, <2>8, <2>9 DEF ApplyRateLimits
<1>13. ASSUME NEW q \in Requests, LoadKeyUser(q) \/ Respond(q) PROVE TypeOK'
  <2>1. req[q] \in RequestType
    OBVIOUS
  <2>2. LoadKeyUser(q) =>
           Served(req[q].user, users[req[q].user].admin \/ req[q].user = Bootstrap, req[q].seen) \in RequestType
    <3> SUFFICES ASSUME LoadKeyUser(q)
                 PROVE  Served(req[q].user, users[req[q].user].admin \/ req[q].user = Bootstrap, req[q].seen)
                          \in RequestType
      OBVIOUS
    <3>1. req[q].user \in Everyone /\ req[q].seen \in BOOLEAN
      BY <2>1 DEF LoadKeyUser, RequestsInv, RequestOK, RequestType
    <3>2. (users[req[q].user].admin \/ req[q].user = Bootstrap) \in BOOLEAN
      OBVIOUS
    <3> QED BY <3>1, <3>2, ServedType
  <2>3. req' \in [Requests -> RequestType]
    BY <1>13, <2>2, IdleType DEF LoadKeyUser, Respond, Finish
  <2> QED BY <1>13, <2>3 DEF LoadKeyUser, Respond
<1>14. ASSUME NEW q \in Requests, CreateKey(q) PROVE TypeOK'
  <2>1. PICK k \in Keys, ends \in {now + 1, Never} :
          keys' = [keys EXCEPT ![k] = [NoKey EXCEPT !.user = req[q].user, !.ends = ends]]
    BY <1>14 DEF CreateKey, FreeKeys
  <2>2. ends \in 0..Never /\ req[q].user \in Everyone \cup {None}
    BY TimeType DEF RequestType
  <2>3. [NoKey EXCEPT !.user = req[q].user, !.ends = ends] \in KeyType
    BY <2>2, NoKeyType DEF KeyType
  <2>4. keys' \in [Keys -> KeyType] /\ req' \in [Requests -> RequestType]
    BY <1>14, <2>1, <2>3, IdleType, ZenonT(40) DEF CreateKey, Finish
  <2> QED BY <1>14, <2>4 DEF CreateKey
<1>15. ASSUME NEW q \in Requests, RotateKey(q) PROVE TypeOK'
  <2>0. req[q] \in RequestType /\ req[q].end \in 0..Never /\ req[q].user \in Everyone \cup {None}
    BY DEF RequestType
  <2>1. ASSUME NEW k \in Keys, req' = [req EXCEPT ![q].at = "create", ![q].old = k, ![q].end = keys[k].ends],
               UNCHANGED keys
        PROVE  TypeOK'
    <3>1. keys[k].ends \in 0..Never
      BY DEF KeyType
    <3>2. [req[q] EXCEPT !.at = "create", !.old = k, !.end = keys[k].ends] \in RequestType
      BY <2>0, <3>1 DEF RequestType, Steps
    <3>3. req' \in [Requests -> RequestType]
      BY <2>1, <3>2
    <3> QED BY <1>15, <2>1, <3>3 DEF RotateKey
  <2>2. ASSUME NEW k \in Keys, req' = [req EXCEPT ![q].at = "retire"],
               keys' = [keys EXCEPT ![k] = [NoKey EXCEPT !.user = req[q].user, !.ends = req[q].end]]
        PROVE  TypeOK'
    <3>1. [req[q] EXCEPT !.at = "retire"] \in RequestType
      BY <2>0 DEF RequestType, Steps
    <3>2. [NoKey EXCEPT !.user = req[q].user, !.ends = req[q].end] \in KeyType
      BY <2>0, NoKeyType DEF KeyType
    <3>3. req' \in [Requests -> RequestType] /\ keys' \in [Keys -> KeyType]
      BY <2>2, <3>1, <3>2
    <3> QED BY <1>15, <3>3 DEF RotateKey
  <2>3. ASSUME NEW overlap \in {0, 1}, Finish(q),
               keys' = [keys EXCEPT ![req[q].old].ends =
                          IF req[q].end < now + overlap THEN req[q].end ELSE now + overlap]
        PROVE  TypeOK'
    <3> DEFINE e == IF req[q].end < now + overlap THEN req[q].end ELSE now + overlap
    <3>1. e \in 0..Never
      BY <2>0, TimeType
    <3> HIDE DEF e
    <3>2. \A k \in Keys : [keys[k] EXCEPT !.ends = e] \in KeyType
      BY <3>1 DEF KeyType
    <3>3. keys' = [keys EXCEPT ![req[q].old].ends = e]
      BY <2>3 DEF e
    <3>4. keys' \in [Keys -> KeyType] /\ req' \in [Requests -> RequestType]
      <4>1. \A k \in Keys : keys'[k] \in {keys[k], [keys[k] EXCEPT !.ends = e]}
        BY <3>3
      <4>2. keys' \in [Keys -> KeyType]
        BY <3>2, <3>3, <4>1
      <4> QED BY <2>3, <4>2, IdleType DEF Finish
    <3> QED BY <1>15, <3>4 DEF RotateKey
  <2>4. CASE Finish(q) /\ UNCHANGED keys
    BY <1>15, <2>4, IdleType DEF RotateKey, Finish
  <2> QED BY <1>15, <2>1, <2>2, <2>3, <2>4 DEF RotateKey, FreeKeys
<1>16. ASSUME NEW q \in Requests, SetStatus(q) \/ AdminRevokeKey(q) PROVE TypeOK'
  <2>1. ASSUME NEW k \in Keys, NEW status
        PROVE  WithStatus(k, status) \in KeyType /\ [keys[k] EXCEPT !.revoked = TRUE] \in KeyType
    <3>1. keys[k] \in KeyType
      OBVIOUS
    <3>2. \A b \in BOOLEAN : [keys[k] EXCEPT !.disabled = b] \in KeyType
      BY <3>1 DEF KeyType
    <3>3. [keys[k] EXCEPT !.revoked = TRUE] \in KeyType
      BY <3>1 DEF KeyType
    <3> QED BY <3>1, <3>2, <3>3 DEF WithStatus, KeyType
  <2>2. keys' \in [Keys -> KeyType]
    <3>1. PICK k \in Keys, status \in {"disabled", "enabled", "revoked"} :
             keys' = [keys EXCEPT ![k] = WithStatus(k, status)] \/ keys' = [keys EXCEPT ![k].revoked = TRUE]
      BY <1>16 DEF SetStatus, AdminRevokeKey
    <3>2. CASE keys' = [keys EXCEPT ![k] = WithStatus(k, status)]
      BY <2>1, <3>2
    <3>3. CASE keys' = [keys EXCEPT ![k].revoked = TRUE]
      BY <2>1, <3>3
    <3> QED BY <3>1, <3>2, <3>3
  <2>3. req' \in [Requests -> RequestType]
    BY <1>16, IdleType DEF SetStatus, AdminRevokeKey, Finish
  <2> QED BY <1>16, <2>2, <2>3 DEF SetStatus, AdminRevokeKey
<1>17. ASSUME NEW q \in Requests, WriteAdminUser(q) \/ DeleteAdminUser(q) PROVE TypeOK'
  <2>1. \A u \in Users : Reseen(u) \in [Requests -> RequestType]
    <3>1. \A p \in Requests : [req[p] EXCEPT !.seen = TRUE] \in RequestType
      BY DEF RequestType
    <3> QED BY <3>1 DEF Reseen
  <2>2. req' \in [Requests -> RequestType]
    BY <1>17, <2>1, IdleType DEF WriteAdminUser, DeleteAdminUser, Finish
  <2>3. \A u \in Users : users[u] \in UserType /\ [users[u] EXCEPT !.status = "deleted"] \in UserType
    BY EveryoneType DEF UserType
  <2>4. \A status \in {"active", "disabled"}, admin \in BOOLEAN :
           [status |-> status, managed |-> TRUE, admin |-> admin] \in UserType
    BY DEF UserType
  <2>5. users' \in [Everyone -> UserType]
    BY <1>17, <2>3, <2>4, EveryoneType DEF WriteAdminUser, DeleteAdminUser
  <2>6. sessions' \in [Sessions -> SessionType] /\ keys' \in [Keys -> KeyType]
    BY <1>17, WithoutType DEF WriteAdminUser, DeleteAdminUser
  <2> QED BY <1>17, <2>2, <2>5, <2>6 DEF WriteAdminUser, DeleteAdminUser
<1>18. ASSUME NEW q \in Requests, NEW r \in Replicas,
              Callback(q, r) \/ BootstrapLogin(q, r) \/ AuthenticateSession(q, r)
                \/ AuthenticateKey(q, r) \/ AuthenticateBearer(q, r)
       PROVE  TypeOK'
  <2>0. \A u \in Everyone, claim \in BOOLEAN :
           [users EXCEPT ![u] = UpsertedUser(u, claim)] \in [Everyone -> UserType]
    BY UpsertType
  <2>1. CASE Callback(q, r)
    <3>0. PICK s \in Sessions, who \in Identities :
            /\ sessions' = [sessions EXCEPT ![s] = Spent]
            /\ users' = [users EXCEPT ![who.user] = UpsertedUser(who.user, who.admin)]
            /\ \/ req' = [req EXCEPT ![q] = [Idle EXCEPT !.at = "insert", !.node = r, !.user = who.user,
                                               !.admin = who.admin, !.cred = s, !.seen = TRUE]]
               \/ req' = req
      BY <2>1 DEF Callback
    <3> DEFINE u == who.user
               admin == who.admin
    <3>1. u \in Users /\ admin \in BOOLEAN
      BY DEF Identities
    <3> HIDE DEF u, admin
    <3>2. Spent \in SessionType
      BY NoSessionType
    <3>3. [Idle EXCEPT !.at = "insert", !.node = r, !.user = u, !.admin = admin, !.cred = s,
                       !.seen = TRUE] \in RequestType
      BY <3>1, IdleType, EveryoneType DEF RequestType, Steps
    <3>4. sessions' \in [Sessions -> SessionType] /\ req' \in [Requests -> RequestType]
      BY <3>0, <3>2, <3>3 DEF u, admin
    <3>5. users' \in [Everyone -> UserType]
      BY <2>0, <3>0, <3>1, EveryoneType DEF u, admin
    <3> QED BY <2>1, <3>4, <3>5 DEF Callback
  <2>2. CASE BootstrapLogin(q, r)
    <3>1. PICK s \in Sessions :
            /\ sessions' = [sessions EXCEPT ![s] = Spent]
            /\ req' = [req EXCEPT ![q] = [Idle EXCEPT !.at = "insert", !.node = r, !.user = Bootstrap,
                                                      !.cred = s, !.seen = TRUE]]
      BY <2>2 DEF BootstrapLogin, FreeSessions
    <3>2. Spent \in SessionType
      BY NoSessionType
    <3>3. [Idle EXCEPT !.at = "insert", !.node = r, !.user = Bootstrap, !.cred = s, !.seen = TRUE]
            \in RequestType
      BY IdleType, EveryoneType DEF RequestType, Steps
    <3>4. sessions' \in [Sessions -> SessionType] /\ req' \in [Requests -> RequestType]
      BY <3>1, <3>2, <3>3
    <3>5. users' \in [Everyone -> UserType]
      BY <2>2, UpsertType DEF BootstrapLogin
    <3> QED BY <2>2, <3>4, <3>5 DEF BootstrapLogin
  <2>3. CASE AuthenticateSession(q, r)
    <3>1. PICK s \in Sessions :
            req' = [req EXCEPT ![q] = [Idle EXCEPT !.at = "renew", !.node = r, !.user = sessions[s].user,
                      !.admin = users[sessions[s].user].admin \/ sessions[s].user = Bootstrap, !.cred = s,
                      !.end = sessions[s].ends, !.seen = Active(sessions[s].user)]]
      BY <2>3 DEF AuthenticateSession
    <3> DEFINE admin == users[sessions[s].user].admin \/ sessions[s].user = Bootstrap
               seen == Active(sessions[s].user)
    <3>2. admin \in BOOLEAN /\ seen \in BOOLEAN
      BY DEF Active
    <3>3. sessions[s].user \in Everyone \cup {None} /\ sessions[s].ends \in 0..Never
      BY DEF SessionType
    <3> HIDE DEF admin, seen
    <3>4. [Idle EXCEPT !.at = "renew", !.node = r, !.user = sessions[s].user, !.admin = admin, !.cred = s,
                       !.end = sessions[s].ends, !.seen = seen] \in RequestType
      BY <3>2, <3>3, IdleType DEF RequestType, Steps
    <3>5. req' \in [Requests -> RequestType]
      BY <3>1, <3>4 DEF admin, seen
    <3> QED BY <2>3, <3>5 DEF AuthenticateSession
  <2>4. CASE AuthenticateKey(q, r)
    <3>1. PICK k \in Keys :
            req' = [req EXCEPT ![q] = [Idle EXCEPT !.at = "charge", !.node = r, !.cred = k,
                      !.user = keys[k].user, !.window = 1, !.seen = Active(keys[k].user)]]
      BY <2>4 DEF AuthenticateKey
    <3> DEFINE seen == Active(keys[k].user)
    <3>2. seen \in BOOLEAN /\ keys[k].user \in Everyone \cup {None}
      BY DEF Active, KeyType
    <3> HIDE DEF seen
    <3>3. [Idle EXCEPT !.at = "charge", !.node = r, !.cred = k, !.user = keys[k].user, !.window = 1,
                       !.seen = seen] \in RequestType
      BY <3>2, IdleType DEF RequestType, Steps
    <3>4. req' \in [Requests -> RequestType]
      BY <3>1, <3>3 DEF seen
    <3> QED BY <2>4, <3>4 DEF AuthenticateKey
  <2>5. CASE AuthenticateBearer(q, r)
    <3>1. \A u \in Everyone, admin \in BOOLEAN : Served(u, admin, TRUE) \in RequestType
      BY ServedType
    <3>2. PICK u \in Everyone, admin \in BOOLEAN :
             /\ req' = [req EXCEPT ![q] = Served(u, admin, TRUE)]
             /\ \/ users' = [users EXCEPT ![u] = UpsertedUser(u, admin)]
                \/ users' = [users EXCEPT ![Bootstrap] = UpsertedBootstrap]
      <4>1. CASE \E who \in Identities :
                   /\ users' = [users EXCEPT ![who.user] = UpsertedUser(who.user, who.admin)]
                   /\ req' = [req EXCEPT ![q] = Served(who.user, who.admin, TRUE)]
        BY <4>1, EveryoneType DEF Identities
      <4>2. CASE /\ users' = [users EXCEPT ![Bootstrap] = UpsertedBootstrap]
                 /\ req' = [req EXCEPT ![q] = Served(Bootstrap, TRUE, TRUE)]
        BY <4>2, EveryoneType
      <4> QED BY <2>5, <4>1, <4>2 DEF AuthenticateBearer
    <3>3. users' \in [Everyone -> UserType]
      <4>1. [users EXCEPT ![u] = UpsertedUser(u, admin)] \in [Everyone -> UserType]
        BY <2>0
      <4>2. [users EXCEPT ![Bootstrap] = UpsertedBootstrap] \in [Everyone -> UserType]
        BY UpsertType
      <4> QED BY <3>2, <4>1, <4>2
    <3>4. Served(u, admin, TRUE) \in RequestType
      BY <3>1
    <3>5. req' \in [Requests -> RequestType]
      BY <3>2, <3>4
    <3> QED BY <2>5, <3>3, <3>5 DEF AuthenticateBearer
  <2> QED BY <1>18, <2>1, <2>2, <2>3, <2>4, <2>5
<1> QED BY <1>1, <1>2, <1>3, <1>4, <1>5, <1>6, <1>7, <1>8, <1>9, <1>10, <1>11, <1>12, <1>13, <1>14,
           <1>15, <1>16, <1>17, <1>18 DEF Next

-----------------------------------------------------------------------------
(* What a step may do to an account, a session and a key. *)

\* No account is unmade, and one becomes active by being made, by a break-glass token or by
\* an administrator, whose change every request under way for it has seen.
AccountKept(u) ==
  /\ users'[u].status = "absent" => users[u].status = "absent"
  /\ users'[u].status = "active" =>
       \/ users[u].status \in {"active", "absent"}
       \/ u = BreakGlass
       \/ \A p \in Requests : req'[p].at # "idle" /\ req'[p].user = u => req'[p].seen

\* A spent login is used by the request that holds it, what ended stays ended, and a
\* session does not change hands.
SessionKept(s) ==
  /\ sessions[s].at = "spent" =>
       \/ sessions'[s].at = "spent"
       \/ \E q \in Requests : req[q].at = "insert" /\ req[q].cred = s /\ req'[q].at # "insert"
  /\ sessions[s].at = "gone" => sessions'[s].at = "gone"
  /\ sessions[s].at \in {"row", "gone"} =>
       /\ sessions'[s].at \in {"row", "gone"}
       /\ sessions'[s].at = "row" => sessions'[s].user = sessions[s].user

LEMMA AccountsKept ==
  ASSUME AccessInv, [Next]_vars, NEW u \in Everyone
  PROVE  AccountKept(u)
<1> USE DEF AccountKept, AccessInv, TypeOK
<1>1. CASE UNCHANGED users
  BY <1>1
<1>2. CASE RecoveryLogin
  <2>1. users' = [users EXCEPT ![BreakGlass].status = "active", ![BreakGlass].admin = TRUE]
    BY <1>2 DEF RecoveryLogin
  <2>2. u # BreakGlass => users'[u] = users[u]
    BY <2>1
  <2>3. u = BreakGlass => users'[u].status = "active"
    BY <2>1 DEF UserType
  <2> QED BY <2>2, <2>3
\* Identities are synchronised.
<1>3. ASSUME NEW x \in Everyone, NEW claim \in BOOLEAN,
             users' = [users EXCEPT ![x] = UpsertedUser(x, claim)]
      PROVE  AccountKept(u)
  <2>1. CASE u # x
    BY <1>3, <2>1
  <2>2. CASE u = x
    <3>1. users'[u] = UpsertedUser(u, claim)
      BY <1>3, <2>2
    <3>2. \/ UpsertedUser(u, claim).status = users[u].status
          \/ users[u].status = "absent" /\ UpsertedUser(u, claim).status = "active"
      BY DEF UpsertedUser, UserType
    <3> QED BY <3>1, <3>2
  <2> QED BY <2>1, <2>2
<1>4. ASSUME users' = [users EXCEPT ![Bootstrap] = UpsertedBootstrap] PROVE AccountKept(u)
  <2>1. CASE u # Bootstrap
    BY <1>4, <2>1
  <2>2. CASE u = Bootstrap
    <3>1. users'[u] = UpsertedBootstrap
      BY <1>4, <2>2
    <3>2. \/ UpsertedBootstrap.status = users[u].status
          \/ users[u].status = "absent" /\ UpsertedBootstrap.status = "active"
      BY <2>2 DEF UpsertedBootstrap, UserType
    <3> QED BY <3>1, <3>2
  <2> QED BY <2>1, <2>2
<1>5. ASSUME NEW q \in Requests, NEW r \in Replicas,
             Callback(q, r) \/ BootstrapLogin(q, r) \/ AuthenticateBearer(q, r)
      PROVE  AccountKept(u)
  <2>1. \/ \E who \in Identities : users' = [users EXCEPT ![who.user] = UpsertedUser(who.user, who.admin)]
        \/ users' = [users EXCEPT ![Bootstrap] = UpsertedBootstrap]
    BY <1>5 DEF Callback, BootstrapLogin, AuthenticateBearer
  <2>2. \A who \in Identities : who.user \in Everyone /\ who.admin \in BOOLEAN
    BY EveryoneType DEF Identities
  <2> QED BY <2>1, <2>2, <1>3, <1>4
<1>6. ASSUME NEW q \in Requests, WriteAdminUser(q) PROVE AccountKept(u)
  <2>1. PICK x \in Users, status \in {"active", "disabled"}, admin \in BOOLEAN :
          /\ users' = [users EXCEPT ![x] = [status |-> status, managed |-> TRUE, admin |-> admin]]
          /\ status = "active" => req' = [Reseen(x) EXCEPT ![q] = Idle]
    BY <1>6 DEF WriteAdminUser
  <2>2. u # x => users'[u] = users[u]
    BY <2>1
  <2>3. u = x => users'[u].status = status
    BY <2>1
  <2>4. ASSUME status = "active", NEW p \in Requests, req'[p].at # "idle", req'[p].user = x
        PROVE  req'[p].seen
    <3>1. p # q
      BY <2>1, <2>4, IdleType DEF Reseen
    <3>2. req'[p] = IF req[p].user = x THEN [req[p] EXCEPT !.seen = TRUE] ELSE req[p]
      BY <2>1, <2>4, <3>1 DEF Reseen
    <3> QED BY <2>4, <3>2 DEF RequestType
  <2> QED BY <2>1, <2>2, <2>3, <2>4
<1>7. ASSUME NEW q \in Requests, DeleteAdminUser(q) PROVE AccountKept(u)
  <2>1. PICK x \in Users : users' = [users EXCEPT ![x].status = "deleted"]
    BY <1>7 DEF DeleteAdminUser
  <2> QED BY <2>1, EveryoneType DEF UserType
<1>8. CASE \E q \in Requests : \/ OpenSession(q) \/ DisableBootstrapAdmin(q) \/ RenewSession(q)
                               \/ ApplyRateLimits(q) \/ LoadKeyUser(q) \/ Respond(q)
  BY <1>1, <1>8 DEF OpenSession, DisableBootstrapAdmin, RenewSession, ApplyRateLimits, LoadKeyUser, Respond
<1>9. CASE \E q \in Requests : CreateKey(q) \/ RotateKey(q) \/ SetStatus(q) \/ AdminRevokeKey(q)
  BY <1>1, <1>9 DEF CreateKey, RotateKey, SetStatus, AdminRevokeKey
<1>10. CASE \E q \in Requests, r \in Replicas : AuthenticateSession(q, r) \/ AuthenticateKey(q, r)
  BY <1>1, <1>10 DEF AuthenticateSession, AuthenticateKey
<1>11. CASE \/ Login \/ Logout \/ NewWindow \/ Tick \/ DeleteExpired \/ UNCHANGED vars
            \/ \E r \in Replicas : Restart(r)
  BY <1>1, <1>11 DEF Login, Logout, NewWindow, Tick, DeleteExpired, Restart, vars
<1> QED BY <1>2, <1>5, <1>6, <1>7, <1>8, <1>9, <1>10, <1>11 DEF Next

LEMMA SessionsKept ==
  ASSUME AccessInv, [Next]_vars, NEW s \in Sessions
  PROVE  SessionKept(s)
<1> USE DEF SessionKept, AccessInv, TypeOK
<1>1. CASE sessions'[s] = sessions[s]
  BY <1>1
<1>2. \A u : LET t == WithoutSessionsOf(u)[s] IN
         t = sessions[s] \/ (sessions[s].at = "row" /\ t.at = "gone")
  BY NoSessionType DEF WithoutSessionsOf, Row
\* A login id that was not drawn or is in its first state.
<1>3. CASE sessions[s].at \in {"unused", "flow"}
  BY <1>3
<1>4. CASE sessions[s].at = "row" /\ sessions'[s].at \in {"row", "gone"}
             /\ (sessions'[s].at = "row" => sessions'[s].user = sessions[s].user)
  BY <1>4
<1>5. CASE Login \/ RecoveryLogin
  <2>1. PICK x \in FreeSessions : \/ \A z \in Sessions : z # x => sessions'[z] = sessions[z]
                                  \/ \A z \in Sessions : z # x => sessions'[z] = WithoutSessionsOf(BreakGlass)[z]
    BY <1>5, WithoutType DEF Login, RecoveryLogin
  <2> QED BY <1>1, <1>2, <1>3, <1>4, <2>1 DEF FreeSessions
<1>6. CASE Logout \/ DeleteExpired
  <2>1. \/ sessions'[s] = sessions[s]
        \/ sessions[s].at \in {"flow", "row"} /\ sessions'[s] = Gone
    BY <1>6 DEF Logout, DeleteExpired, Row
  <2> QED BY <1>1, <1>3, <1>4, <2>1, NoSessionType
<1>7. ASSUME NEW q \in Requests, OpenSession(q) PROVE SessionKept(s)
  <2>1. s # req[q].cred => sessions'[s] = sessions[s]
    BY <1>7 DEF OpenSession, Issue
  <2>2. sessions[req[q].cred].at = "spent"
    BY <1>7 DEF OpenSession, RequestsInv, RequestOK
  <2>3. req'[q].at # "insert" /\ req[q].at = "insert"
    BY <1>7, IdleType DEF OpenSession, RequestType
  <2> QED BY <1>1, <2>1, <2>2, <2>3
<1>8. ASSUME NEW q \in Requests, DisableBootstrapAdmin(q) \/ WriteAdminUser(q) \/ DeleteAdminUser(q)
      PROVE  SessionKept(s)
  <2>1. sessions' = sessions \/ \E u : sessions' = WithoutSessionsOf(u)
    BY <1>8 DEF DisableBootstrapAdmin, WriteAdminUser, DeleteAdminUser
  <2> QED BY <1>1, <1>2, <1>4, <2>1
<1>9. ASSUME NEW q \in Requests, RenewSession(q) PROVE SessionKept(s)
  <2>1. \/ sessions'[s] = sessions[s]
        \/ sessions[s].at = "row" /\ sessions'[s] = [sessions[s] EXCEPT !.ends = now + BrowserLife]
    BY <1>9 DEF RenewSession, Renewed, Row
  <2> QED BY <1>1, <1>4, <2>1 DEF SessionType
<1>10. ASSUME NEW q \in Requests, NEW r \in Replicas, Callback(q, r) \/ BootstrapLogin(q, r)
       PROVE  SessionKept(s)
  <2>1. PICK x \in Sessions : sessions[x].at \in {"unused", "flow"} /\ sessions' = [sessions EXCEPT ![x] = Spent]
    BY <1>10 DEF Callback, BootstrapLogin, FreeSessions
  <2> QED BY <1>1, <1>3, <2>1
<1>11. CASE \E q \in Requests : ApplyRateLimits(q) \/ LoadKeyUser(q) \/ Respond(q)
  BY <1>1, <1>11 DEF ApplyRateLimits, LoadKeyUser, Respond
<1>12. CASE \E q \in Requests : CreateKey(q) \/ RotateKey(q) \/ SetStatus(q) \/ AdminRevokeKey(q)
  BY <1>1, <1>12 DEF CreateKey, RotateKey, SetStatus, AdminRevokeKey
<1>13. CASE \E q \in Requests, r \in Replicas :
               AuthenticateSession(q, r) \/ AuthenticateKey(q, r) \/ AuthenticateBearer(q, r)
  BY <1>1, <1>13 DEF AuthenticateSession, AuthenticateKey, AuthenticateBearer
<1>14. CASE NewWindow \/ Tick \/ UNCHANGED vars \/ \E r \in Replicas : Restart(r)
  BY <1>1, <1>14 DEF NewWindow, Tick, Restart, vars
<1> QED BY <1>5, <1>6, <1>7, <1>8, <1>9, <1>10, <1>11, <1>12, <1>13, <1>14 DEF Next

-----------------------------------------------------------------------------
(* Rate limits. *)

LEMMA RateStep == AccessInv /\ [Next]_vars => RateInv'
<1> SUFFICES ASSUME AccessInv, [Next]_vars, NEW k \in Keys, NEW w \in Windows
             PROVE  calls'[k][w] <= bucket'[k][w] /\ bucket'[k][w] <= Limit[w]
  BY DEF RateInv
<1> USE DEF AccessInv, TypeOK, RateInv
<1>1. CASE UNCHANGED <<bucket, calls>>
  BY <1>1
<1>2. ASSUME NEW q \in Requests, ApplyRateLimits(q)
      PROVE  calls'[k][w] <= bucket'[k][w] /\ bucket'[k][w] <= Limit[w]
  <2> DEFINE j == req[q].cred
             v == req[q].window
             n == IF bucket[j][v] + 1 > Limit[v] THEN Limit[v] ELSE bucket[j][v] + 1
             m == IF bucket[j][v] + 1 > Limit[v] THEN calls[j][v] ELSE calls[j][v] + 1
  <2>1. j \in Keys /\ v \in Windows
    BY <1>2 DEF ApplyRateLimits, RequestsInv, RequestOK
  <2>2. /\ bucket[j][v] \in Nat /\ calls[j][v] \in Nat /\ Limit[v] \in Nat
        /\ calls[j][v] <= bucket[j][v] /\ bucket[j][v] <= Limit[v]
    BY <2>1, WindowsAre
  <2>3. n \in Nat /\ m \in Nat /\ m <= n /\ n <= Limit[v]
    BY <2>2
  <2>4. bucket' = [bucket EXCEPT ![j][v] = n]
    BY <1>2 DEF ApplyRateLimits, Charged
  <2>5. (calls' = calls /\ m = calls[j][v]) \/ calls' = [calls EXCEPT ![j][v] = m]
    BY <1>2 DEF ApplyRateLimits, Charged
  <2> HIDE DEF j, v, n, m
  <2>6. bucket'[j][v] = n /\ (j # k \/ v # w => bucket'[k][w] = bucket[k][w])
    BY <2>1, <2>3, <2>4, SetCell
  <2>7. calls'[j][v] = m /\ (j # k \/ v # w => calls'[k][w] = calls[k][w])
    <3>1. CASE calls' = calls /\ m = calls[j][v]
      BY <3>1
    <3>2. CASE calls' = [calls EXCEPT ![j][v] = m]
      BY <2>1, <2>3, <3>2, SetCell
    <3> QED BY <2>5, <3>1, <3>2
  <2> QED BY <2>3, <2>6, <2>7
<1>3. CASE NewWindow
  <2>1. PICK last \in Windows :
          /\ bucket'[k][w] = IF w <= last THEN 0 ELSE bucket[k][w]
          /\ calls'[k][w] = IF w <= last THEN 0 ELSE calls[k][w]
    BY <1>3 DEF NewWindow
  <2> QED BY <2>1, WindowsAre
<1>4. CASE Login \/ RecoveryLogin \/ Logout \/ Tick \/ DeleteExpired \/ UNCHANGED vars
             \/ \E r \in Replicas : Restart(r)
  BY <1>1, <1>4 DEF Login, RecoveryLogin, Logout, Tick, DeleteExpired, Restart, vars
<1>5. CASE \E q \in Requests : \/ OpenSession(q) \/ RenewSession(q) \/ DisableBootstrapAdmin(q)
                               \/ LoadKeyUser(q) \/ Respond(q)
  BY <1>1, <1>5 DEF OpenSession, RenewSession, DisableBootstrapAdmin, LoadKeyUser, Respond
<1>6. CASE \E q \in Requests : \/ CreateKey(q) \/ RotateKey(q) \/ SetStatus(q) \/ AdminRevokeKey(q)
                               \/ WriteAdminUser(q) \/ DeleteAdminUser(q)
  BY <1>1, <1>6, ZenonT(40) DEF CreateKey, RotateKey, SetStatus, AdminRevokeKey, WriteAdminUser, DeleteAdminUser
<1>7. CASE \E q \in Requests, r \in Replicas : \/ Callback(q, r) \/ BootstrapLogin(q, r)
              \/ AuthenticateSession(q, r) \/ AuthenticateKey(q, r) \/ AuthenticateBearer(q, r)
  BY <1>1, <1>7, ZenonT(40) DEF Callback, BootstrapLogin, AuthenticateSession, AuthenticateKey, AuthenticateBearer
<1> QED BY <1>2, <1>3, <1>4, <1>5, <1>6, <1>7 DEF Next

-----------------------------------------------------------------------------
(* Tokens. *)

LEMMA TokensStep == AccessInv /\ [Next]_vars => TokensInv'
<1> SUFFICES ASSUME AccessInv, [Next]_vars, NEW t \in Tokens
             PROVE  issued'[t] <= 1 /\ (issued'[t] > 0 => t \in consumed' \/ now' > TokenLife)
  BY DEF TokensInv
<1> USE DEF AccessInv, TypeOK, TokensInv
<1>1. CASE UNCHANGED <<issued, consumed, now>>
  BY <1>1
<1>2. CASE RecoveryLogin
  <2>1. PICK x \in Tokens : /\ Verify(x) /\ x \notin consumed
                            /\ consumed' = consumed \cup {x}
                            /\ issued' = [issued EXCEPT ![x] = @ + 1]
                            /\ now' = now
    BY <1>2 DEF RecoveryLogin
  <2>2. issued[x] = 0
    BY <2>1 DEF Verify, TokenLife
  <2> QED BY <2>1, <2>2
<1>3. CASE Tick
  BY <1>3, TimeType DEF Tick, TokenLife
<1>4. CASE DeleteExpired
  BY <1>4, TimeType DEF DeleteExpired, TokenLife
<1>5. CASE Login \/ Logout \/ NewWindow \/ UNCHANGED vars \/ \E r \in Replicas : Restart(r)
  BY <1>1, <1>5 DEF Login, Logout, NewWindow, Restart, vars
<1>6. CASE \E q \in Requests : \/ OpenSession(q) \/ RenewSession(q) \/ DisableBootstrapAdmin(q)
                               \/ ApplyRateLimits(q) \/ LoadKeyUser(q) \/ Respond(q)
  BY <1>1, <1>6 DEF OpenSession, RenewSession, DisableBootstrapAdmin, ApplyRateLimits, LoadKeyUser, Respond
<1>7. CASE \E q \in Requests : \/ CreateKey(q) \/ RotateKey(q) \/ SetStatus(q) \/ AdminRevokeKey(q)
                               \/ WriteAdminUser(q) \/ DeleteAdminUser(q)
  BY <1>1, <1>7, ZenonT(40) DEF CreateKey, RotateKey, SetStatus, AdminRevokeKey, WriteAdminUser, DeleteAdminUser
<1>8. CASE \E q \in Requests, r \in Replicas : \/ Callback(q, r) \/ BootstrapLogin(q, r)
              \/ AuthenticateSession(q, r) \/ AuthenticateKey(q, r) \/ AuthenticateBearer(q, r)
  BY <1>1, <1>8, ZenonT(40) DEF Callback, BootstrapLogin, AuthenticateSession, AuthenticateKey, AuthenticateBearer
<1> QED BY <1>2, <1>3, <1>4, <1>5, <1>6, <1>7, <1>8 DEF Next

-----------------------------------------------------------------------------
(* Keys. *)

\* A revoked key stays revoked, an id that nobody has stays as it is, and a new key belongs
\* to a request's account.
KeyKept(k) ==
  /\ keys[k].revoked => keys'[k].revoked
  /\ \/ /\ keys'[k].user = keys[k].user
        /\ keys[k].user = None => keys'[k].revoked = keys[k].revoked
     \/ \E q \in Requests : req[q].at # "idle" /\ req[q].user # BreakGlass /\ keys'[k].user = req[q].user

LEMMA KeysKept ==
  ASSUME AccessInv, [Next]_vars, NEW k \in Keys
  PROVE  KeyKept(k)
<1> USE DEF KeyKept, AccessInv, TypeOK
<1>0. keys[k] \in KeyType
  OBVIOUS
<1>1. CASE keys'[k] = keys[k]
  BY <1>1
<1>2. ASSUME NEW q \in Requests, req[q].at # "idle", req[q].user # BreakGlass, NEW x \in FreeKeys, NEW ends,
             keys' = [keys EXCEPT ![x] = [NoKey EXCEPT !.user = req[q].user, !.ends = ends]]
      PROVE  KeyKept(k)
  <2>1. CASE k # x
    BY <1>1, <1>2, <2>1
  <2>2. CASE k = x
    <3>1. ~keys[k].revoked
      BY <2>2 DEF FreeKeys, KeysInv
    <3>2. keys'[k] = [NoKey EXCEPT !.user = req[q].user, !.ends = ends]
      BY <1>2, <2>2
    <3>3. keys'[k].user = req[q].user
      BY <3>2 DEF NoKey
    <3> QED BY <1>2, <3>1, <3>3
  <2> QED BY <2>1, <2>2
\* A change of the row of a key somebody has.
<1>3. ASSUME keys[k].user # None, keys'[k].user = keys[k].user, keys[k].revoked => keys'[k].revoked
      PROVE  KeyKept(k)
  BY <1>3
<1>4. ASSUME NEW q \in Requests, CreateKey(q) \/ RotateKey(q) PROVE KeyKept(k)
  <2>1. CASE CreateKey(q)
    <3>1. req[q].at # "idle" /\ req[q].user # BreakGlass
      BY <2>1 DEF CreateKey
    <3> QED BY <1>2, <2>1, <3>1 DEF CreateKey
  <2>2. ASSUME NEW x \in FreeKeys, req[q].at = "create",
               keys' = [keys EXCEPT ![x] = [NoKey EXCEPT !.user = req[q].user, !.ends = req[q].end]]
        PROVE  KeyKept(k)
    <3>1. req[q].at # "idle" /\ req[q].user # BreakGlass
      BY <2>2 DEF RequestsInv, RequestOK
    <3> QED BY <1>2, <2>2, <3>1
  <2>3. ASSUME NEW e, keys' = [keys EXCEPT ![req[q].old].ends = e] PROVE KeyKept(k)
    <3>1. keys'[k].user = keys[k].user /\ keys'[k].revoked = keys[k].revoked
      BY <1>0, <2>3 DEF KeyType
    <3> QED BY <3>1
  <2> QED BY <1>1, <1>4, <2>1, <2>2, <2>3 DEF RotateKey
<1>5. ASSUME NEW q \in Requests, SetStatus(q) \/ AdminRevokeKey(q) PROVE KeyKept(k)
  <2>1. PICK x \in Keys, status \in {"disabled", "enabled", "revoked"} :
           /\ \/ keys' = [keys EXCEPT ![x] = WithStatus(x, status)]
              \/ keys' = [keys EXCEPT ![x].revoked = TRUE]
           /\ keys[x].user # None
    <3>1. req[q].at = "served" => req[q].user # None
      BY EveryoneType DEF RequestsInv, RequestOK
    <3>2. CASE SetStatus(q)
      BY <3>1, <3>2 DEF SetStatus
    <3>3. CASE AdminRevokeKey(q)
      BY <3>3 DEF AdminRevokeKey
    <3> QED BY <1>5, <3>2, <3>3
  <2>2. CASE k # x
    BY <1>1, <2>1, <2>2
  <2>3. CASE k = x
    <3>1. \/ keys'[k] = WithStatus(k, status)
          \/ keys'[k] = [keys[k] EXCEPT !.revoked = TRUE]
      BY <2>1, <2>3
    <3>2. keys'[k].user = keys[k].user /\ (keys[k].revoked => keys'[k].revoked)
      BY <1>0, <3>1 DEF WithStatus, KeyType
    <3> QED BY <1>3, <2>1, <2>3, <3>2
  <2> QED BY <2>2, <2>3
<1>6. ASSUME NEW u \in Everyone, keys' = RevokedKeysOf(u) PROVE KeyKept(k)
  <2>1. \/ keys'[k] = keys[k]
        \/ keys[k].user = u /\ keys'[k] = [keys[k] EXCEPT !.revoked = TRUE]
    BY <1>6 DEF RevokedKeysOf
  <2>2. u # None
    BY EveryoneType
  <2> QED BY <1>0, <1>1, <1>3, <2>1, <2>2 DEF KeyType
<1>7. ASSUME NEW q \in Requests, DisableBootstrapAdmin(q) \/ WriteAdminUser(q) \/ DeleteAdminUser(q)
      PROVE  KeyKept(k)
  <2>1. keys' = keys \/ \E u \in Everyone : keys' = RevokedKeysOf(u)
    BY <1>7, EveryoneType DEF DisableBootstrapAdmin, WriteAdminUser, DeleteAdminUser
  <2> QED BY <1>1, <1>6, <2>1
<1>8. CASE Login \/ RecoveryLogin \/ Logout \/ NewWindow \/ Tick \/ DeleteExpired \/ UNCHANGED vars
             \/ \E r \in Replicas : Restart(r)
  BY <1>1, <1>8 DEF Login, RecoveryLogin, Logout, NewWindow, Tick, DeleteExpired, Restart, vars
<1>9. CASE \E q \in Requests : \/ OpenSession(q) \/ RenewSession(q) \/ ApplyRateLimits(q) \/ LoadKeyUser(q)
                               \/ Respond(q)
  BY <1>1, <1>9 DEF OpenSession, RenewSession, ApplyRateLimits, LoadKeyUser, Respond
<1>10. CASE \E q \in Requests, r \in Replicas : \/ Callback(q, r) \/ BootstrapLogin(q, r)
              \/ AuthenticateSession(q, r) \/ AuthenticateKey(q, r) \/ AuthenticateBearer(q, r)
  BY <1>1, <1>10, ZenonT(40) DEF Callback, BootstrapLogin, AuthenticateSession, AuthenticateKey, AuthenticateBearer
<1> QED BY <1>4, <1>5, <1>7, <1>8, <1>9, <1>10 DEF Next

LEMMA KeysStep == AccessInv /\ [Next]_vars => KeysInv'
<1> SUFFICES ASSUME AccessInv, [Next]_vars, NEW k \in Keys
             PROVE  /\ keys'[k].user # None => users'[keys'[k].user].status # "absent" /\ keys'[k].user # BreakGlass
                    /\ keys'[k].user = None => ~keys'[k].revoked
  BY DEF KeysInv
<1> USE DEF AccessInv
<1>1. KeyKept(k) /\ \A u \in Everyone : users'[u].status = "absent" => users[u].status = "absent"
  BY KeysKept, AccountsKept DEF AccountKept
<1>2. keys[k].user \in Everyone \cup {None}
  BY DEF TypeOK, KeyType
<1>3. CASE /\ keys'[k].user = keys[k].user
           /\ keys[k].user = None => keys'[k].revoked = keys[k].revoked
  BY <1>1, <1>2, <1>3 DEF KeysInv
<1>4. ASSUME NEW q \in Requests, req[q].at # "idle", req[q].user # BreakGlass, keys'[k].user = req[q].user
      PROVE  keys'[k].user # None /\ users'[keys'[k].user].status # "absent" /\ keys'[k].user # BreakGlass
  BY <1>1, <1>4, EveryoneType DEF RequestsInv, RequestOK
<1> QED BY <1>1, <1>3, <1>4 DEF KeyKept

-----------------------------------------------------------------------------
(* Sessions. *)

LEMMA SessionsStep == AccessInv /\ [Next]_vars => SessionsInv'
<1> SUFFICES ASSUME AccessInv, [Next]_vars PROVE SessionsInv'
  OBVIOUS
<1> USE DEF AccessInv, TypeOK
<1>1. CASE RecoveryLogin
  <2>1. PICK s \in Sessions :
          sessions' = [WithoutSessionsOf(BreakGlass) EXCEPT
                         ![s] = [at |-> "row", user |-> BreakGlass, ends |-> now + RecoveryLife,
                                 issuedAt |-> now]]
    BY <1>1 DEF RecoveryLogin, FreeSessions
  <2>2. /\ sessions'[s].user = BreakGlass
        /\ sessions'[s].ends <= sessions'[s].issuedAt + RecoveryLife
    BY <2>1, TimeType, WithoutType DEF RecoveryLife
  <2>3. ASSUME NEW z \in Sessions, z # s, sessions'[z].at = "row"
        PROVE  Row(z) /\ sessions'[z] = sessions[z] /\ sessions[z].user # BreakGlass
    <3>1. sessions'[z] = WithoutSessionsOf(BreakGlass)[z]
      BY <2>1, <2>3, WithoutType
    <3> QED BY <2>3, <3>1, NoSessionType DEF WithoutSessionsOf, Row
  <2> QED BY <2>2, <2>3, EveryoneType DEF SessionsInv, Row
\* Every other row was there, under the same account and for as long if that is a recovery
\* account, or is a new one that is not the break-glass account's.
<1>2. ASSUME \A s \in Sessions : sessions'[s].at = "row" =>
                \/ /\ Row(s) /\ sessions'[s].user = sessions[s].user
                   /\ sessions[s].user \in Special => /\ sessions'[s].ends = sessions[s].ends
                                                      /\ sessions'[s].issuedAt = sessions[s].issuedAt
                \/ /\ sessions'[s].user \in Everyone \ {BreakGlass}
                   /\ sessions'[s].user \in Special =>
                        sessions'[s].ends <= sessions'[s].issuedAt + RecoveryLife
      PROVE  SessionsInv'
  BY <1>2 DEF SessionsInv, Row
<1>3. CASE UNCHANGED sessions
  BY <1>2, <1>3 DEF Row
<1>4. ASSUME NEW u, sessions' = WithoutSessionsOf(u) PROVE SessionsInv'
  <2>1. ASSUME NEW s \in Sessions, sessions'[s].at = "row" PROVE Row(s) /\ sessions'[s] = sessions[s]
    BY <1>4, <2>1, NoSessionType DEF WithoutSessionsOf, Row
  <2> QED BY <1>2, <2>1
<1>5. CASE Login \/ Logout \/ DeleteExpired
  <2>1. ASSUME NEW s \in Sessions, sessions'[s].at = "row" PROVE Row(s) /\ sessions'[s] = sessions[s]
    <3>1. CASE Login
      <4>1. PICK x \in Sessions : sessions' = [sessions EXCEPT ![x].at = "flow", ![x].ends = now]
        BY <3>1 DEF Login, FreeSessions
      <4> QED BY <2>1, <4>1 DEF Row, SessionType
    <3>2. CASE Logout \/ DeleteExpired
      <4>1. sessions'[s] = Gone \/ sessions'[s] = sessions[s]
        BY <3>2, ZenonT(40) DEF Logout, DeleteExpired
      <4> QED BY <2>1, <4>1, NoSessionType DEF Row
    <3> QED BY <1>5, <3>1, <3>2
  <2> QED BY <1>2, <2>1
<1>6. ASSUME NEW q \in Requests, OpenSession(q) PROVE SessionsInv'
  <2> DEFINE c == req[q].cred
             u == req[q].user
  <2>1. c \in Sessions /\ u \in Everyone \ {BreakGlass}
    BY <1>6 DEF OpenSession, RequestsInv, RequestOK
  <2>2. sessions' = Issue(c, u, IF u = Bootstrap THEN RecoveryLife ELSE BrowserLife)
    BY <1>6 DEF OpenSession
  <2>3. u \in Special => u = Bootstrap
    BY <2>1 DEF Special
  <2> HIDE DEF c, u
  <2>4. /\ sessions'[c].user = u
        /\ sessions'[c].ends = now + (IF u = Bootstrap THEN RecoveryLife ELSE BrowserLife)
        /\ sessions'[c].issuedAt = now
        /\ \A s \in Sessions : s # c => sessions'[s] = sessions[s]
    BY <2>1, <2>2 DEF Issue
  <2>5. u \in Special => sessions'[c].ends <= sessions'[c].issuedAt + RecoveryLife
    BY <2>3, <2>4, TimeType DEF RecoveryLife
  <2> QED BY <1>2, <2>1, <2>4, <2>5 DEF Row
<1>7. ASSUME NEW q \in Requests, RenewSession(q) PROVE SessionsInv'
  <2>1. CASE UNCHANGED sessions
    BY <1>3, <2>1
  <2>2. CASE sessions' # sessions
    <3> DEFINE c == req[q].cred
    <3>1. /\ c \in Sessions /\ sessions[c].user \notin Special /\ sessions[c].at = "row"
          /\ sessions' = [sessions EXCEPT ![c].ends = now + BrowserLife]
      BY <1>7, <2>2 DEF RenewSession, Renewed, Row, RequestsInv, RequestOK
    <3> HIDE DEF c
    <3>2. sessions'[c].user = sessions[c].user /\ \A s \in Sessions : s # c => sessions'[s] = sessions[s]
      BY <3>1 DEF SessionType
    <3> QED BY <1>2, <3>1, <3>2 DEF Row
  <2> QED BY <2>1, <2>2
<1>8. ASSUME NEW q \in Requests, DisableBootstrapAdmin(q) \/ WriteAdminUser(q) \/ DeleteAdminUser(q)
      PROVE  SessionsInv'
  BY <1>3, <1>4, <1>8 DEF DisableBootstrapAdmin, WriteAdminUser, DeleteAdminUser
<1>9. ASSUME NEW q \in Requests, NEW r \in Replicas, Callback(q, r) \/ BootstrapLogin(q, r)
      PROVE  SessionsInv'
  <2>1. PICK x \in Sessions : sessions' = [sessions EXCEPT ![x] = Spent]
    BY <1>9 DEF Callback, BootstrapLogin, FreeSessions
  <2>2. ASSUME NEW s \in Sessions, sessions'[s].at = "row" PROVE Row(s) /\ sessions'[s] = sessions[s]
    BY <2>1, <2>2, NoSessionType DEF Row
  <2> QED BY <1>2, <2>2
<1>10. CASE NewWindow \/ Tick \/ UNCHANGED vars \/ \E r \in Replicas : Restart(r)
  BY <1>3, <1>10 DEF NewWindow, Tick, Restart, vars
<1>11. CASE \E q \in Requests : ApplyRateLimits(q) \/ LoadKeyUser(q) \/ Respond(q)
  BY <1>3, <1>11 DEF ApplyRateLimits, LoadKeyUser, Respond
<1>12. CASE \E q \in Requests : CreateKey(q) \/ RotateKey(q) \/ SetStatus(q) \/ AdminRevokeKey(q)
  BY <1>3, <1>12 DEF CreateKey, RotateKey, SetStatus, AdminRevokeKey
<1>13. CASE \E q \in Requests, r \in Replicas :
               AuthenticateSession(q, r) \/ AuthenticateKey(q, r) \/ AuthenticateBearer(q, r)
  BY <1>3, <1>13 DEF AuthenticateSession, AuthenticateKey, AuthenticateBearer
<1> QED BY <1>1, <1>5, <1>6, <1>7, <1>8, <1>9, <1>10, <1>11, <1>12, <1>13 DEF Next

-----------------------------------------------------------------------------
(* Requests. *)

\* A request that does nothing in a step, except to see its account become active, is as
\* right about the tables after it.
LEMMA RequestKept ==
  ASSUME AccessInv, [Next]_vars, NEW p \in Requests,
         req'[p] \in {req[p], [req[p] EXCEPT !.seen = TRUE]}
  PROVE  RequestOK(req'[p], users', sessions')
<1> DEFINE v == req[p]
           u == req[p].user
<1> USE DEF AccessInv
<1>0. v \in RequestType /\ RequestOK(v, users, sessions)
  BY DEF TypeOK, RequestsInv
<1>1. /\ req'[p].at = v.at /\ req'[p].user = u /\ req'[p].cred = v.cred /\ req'[p].window = v.window
      /\ v.seen => req'[p].seen
  BY <1>0 DEF RequestType
<1>2. v.at # "idle" => u \in Everyone /\ users[u].status # "absent" /\ AccountKept(u)
  BY <1>0, AccountsKept DEF RequestOK
<1>3. v.at \in {"charge", "user"} => u # BreakGlass /\ (req'[p].seen \/ users'[u].status # "active")
  BY <1>0, <1>1, <1>2 DEF RequestOK, AccountKept
<1>4. v.at = "insert" => v.cred \in Sessions /\ sessions'[v.cred].at = "spent" /\ u # BreakGlass
  <2> SUFFICES ASSUME v.at = "insert"
               PROVE  v.cred \in Sessions /\ sessions'[v.cred].at = "spent" /\ u # BreakGlass
    OBVIOUS
  <2>1. v.cred \in Sessions /\ sessions[v.cred].at = "spent" /\ u # BreakGlass
    BY <1>0 DEF RequestOK
  <2>2. ASSUME NEW q \in Requests, req[q].at = "insert", req[q].cred = v.cred, req'[q].at # "insert"
        PROVE  FALSE
    BY <1>1, <2>2 DEF RequestsInv
  <2> QED BY <2>1, <2>2, SessionsKept DEF SessionKept
<1>5. v.at = "renew" => /\ v.cred \in Sessions
                        /\ sessions'[v.cred].at \in {"row", "gone"}
                        /\ sessions'[v.cred].at = "row" => sessions'[v.cred].user = u
  BY <1>0, SessionsKept DEF RequestOK, SessionKept
<1> HIDE DEF v, u
<1>7. /\ v.at = "charge" => v.cred \in Keys /\ v.window \in Windows
      /\ v.at \in {"create", "retire"} => u # BreakGlass
      /\ v.at \in {"renew", "served"} => v.seen
      /\ v.at # "idle" => u \in Everyone /\ users'[u].status # "absent"
  BY <1>0, <1>2 DEF RequestOK, AccountKept, v, u
<1> QED BY <1>1, <1>3, <1>4, <1>5, <1>7 DEF RequestOK

LEMMA RequestsStep == AccessInv /\ [Next]_vars => RequestsInv'
<1> SUFFICES ASSUME AccessInv, [Next]_vars PROVE RequestsInv'
  OBVIOUS
<1> USE DEF AccessInv
<1> DEFINE OK(q) == RequestOK(req'[q], users', sessions')
<1>0. req \in [Requests -> RequestType]
  BY DEF TypeOK
\* One request takes a step; a login takes an id that no other login holds.
<1>1. ASSUME NEW q \in Requests, OK(q),
             req'[q].at = "insert" => sessions[req'[q].cred].at # "spent",
             \A p \in Requests : p # q => req'[p] \in {req[p], [req[p] EXCEPT !.seen = TRUE]}
      PROVE  RequestsInv'
  <2>1. \A p \in Requests : OK(p)
    BY <1>1, RequestKept
  <2>2. ASSUME NEW p \in Requests, p # q, req'[p].at = "insert"
        PROVE  req[p].at = "insert" /\ req'[p].cred = req[p].cred /\ sessions[req'[p].cred].at = "spent"
    <3>1. req'[p].at = req[p].at /\ req'[p].cred = req[p].cred
      BY <1>0, <1>1, <2>2 DEF RequestType
    <3> QED BY <2>2, <3>1 DEF RequestsInv, RequestOK
  <2> HIDE DEF OK
  <2>3. \A p, z \in Requests : req'[p].at = "insert" /\ req'[z].at = "insert" /\ p # z
                                 => req'[p].cred # req'[z].cred
    BY <1>1, <2>2 DEF RequestsInv
  <2> QED BY <2>1, <2>3 DEF RequestsInv, OK
<1>2. CASE UNCHANGED req
  <2>1. \A p \in Requests : OK(p)
    BY <1>2, RequestKept
  <2> QED BY <1>2, <2>1 DEF RequestsInv
<1>3. ASSUME NEW q \in Requests, NEW v \in RequestType, req' = [req EXCEPT ![q] = v],
             RequestOK(v, users', sessions'),
             v.at = "insert" => sessions[v.cred].at # "spent"
      PROVE  RequestsInv'
  <2>1. req'[q] = v /\ \A p \in Requests : p # q => req'[p] = req[p]
    BY <1>0, <1>3
  <2> QED BY <1>1, <1>3, <2>1
<1>4. RequestOK(Idle, users', sessions') /\ Idle.at = "idle"
  BY IdleType DEF RequestOK
<1>5. ASSUME NEW q \in Requests, Finish(q) PROVE RequestsInv'
  BY <1>3, <1>4, <1>5, IdleType DEF Finish
\* A handler runs for an account that was made and was seen active.
<1>6. ASSUME NEW q \in Requests, NEW u \in Everyone, NEW admin \in BOOLEAN,
             req' = [req EXCEPT ![q] = Served(u, admin, TRUE)], users'[u].status # "absent"
      PROVE  RequestsInv'
  <2> DEFINE v == Served(u, admin, TRUE)
  <2>1. v \in RequestType /\ v.at = "served" /\ v.user = u /\ v.seen = TRUE
    BY ServedType
  <2> HIDE DEF v
  <2>2. RequestOK(v, users', sessions')
    BY <1>6, <2>1 DEF RequestOK
  <2> QED BY <1>3, <1>6, <2>1, <2>2 DEF v
<1>7. ASSUME NEW q \in Requests, req[q].at # "idle"
      PROVE  /\ req[q].user \in Everyone /\ users[req[q].user].status # "absent"
             /\ users'[req[q].user].status # "absent" /\ req[q] \in RequestType
             /\ req[q].admin \in BOOLEAN /\ req[q].seen \in BOOLEAN
             /\ RequestOK(req[q], users, sessions)
  BY <1>0, <1>7, AccountsKept DEF RequestsInv, RequestOK, AccountKept, RequestType
\* Nothing but the account matters at the steps in between.
<1>8. ASSUME NEW q \in Requests, req[q].at # "idle", NEW a \in {"memory", "row", "drop", "revoke"},
             req' = [req EXCEPT ![q].at = a]
      PROVE  RequestsInv'
  <2> DEFINE v == [req[q] EXCEPT !.at = a]
  <2>1. v \in RequestType /\ v.at = a /\ v.user = req[q].user
    BY <1>7, <1>8 DEF RequestType, Steps
  <2>2. req' = [req EXCEPT ![q] = v]
    BY <1>8
  <2> HIDE DEF v
  <2>3. RequestOK(v, users', sessions')
    BY <1>7, <1>8, <2>1 DEF RequestOK
  <2> QED BY <1>3, <2>1, <2>2, <2>3
<1>9. ASSUME NEW q \in Requests, OpenSession(q) PROVE RequestsInv'
  <2>1. req[q].at # "idle"
    BY <1>9 DEF OpenSession
  <2>2. CASE req' = [req EXCEPT ![q] = [req[q] EXCEPT !.at = "memory"]]
    BY <1>8, <2>1, <2>2
  <2> QED BY <1>5, <1>9, <2>2 DEF OpenSession, Finish
<1>10. ASSUME NEW q \in Requests, DisableBootstrapAdmin(q) PROVE RequestsInv'
  <2>1. CASE req[q].at = "memory" /\ req' = [req EXCEPT ![q].at = "row"]
    BY <1>8, <2>1
  <2>2. CASE req[q].at = "row" /\ req' = [req EXCEPT ![q].at = "drop"]
    BY <1>8, <2>2
  <2>3. CASE req[q].at = "drop" /\ req' = [req EXCEPT ![q].at = "revoke"]
    BY <1>8, <2>3
  <2> QED BY <1>5, <1>10, <2>1, <2>2, <2>3 DEF DisableBootstrapAdmin
<1>11. ASSUME NEW q \in Requests, RenewSession(q) PROVE RequestsInv'
  <2>1. req[q].at # "idle" /\ req[q].seen = TRUE
    BY <1>7, <1>11 DEF RenewSession, RequestOK
  <2> QED BY <1>6, <1>7, <1>11, <2>1 DEF RenewSession
<1>12. ASSUME NEW q \in Requests, LoadKeyUser(q) PROVE RequestsInv'
  <2> DEFINE admin == users[req[q].user].admin \/ req[q].user = Bootstrap
  <2>1. req[q].at # "idle" /\ admin \in BOOLEAN
    BY <1>12 DEF LoadKeyUser
  <2>2. CASE KeyPrincipal(q)
    <3>1. req[q].seen = TRUE
      BY <1>7, <1>12, <2>2 DEF LoadKeyUser, KeyPrincipal, Active, RequestOK
    <3>2. req' = [req EXCEPT ![q] = Served(req[q].user, admin, TRUE)]
      BY <1>12, <2>2, <3>1 DEF LoadKeyUser
    <3> HIDE DEF admin
    <3> QED BY <1>6, <1>7, <2>1, <3>2
  <2> QED BY <1>5, <1>12, <2>2 DEF LoadKeyUser
<1>13. ASSUME NEW q \in Requests, ApplyRateLimits(q) PROVE RequestsInv'
  <2>1. CASE Finish(q)
    BY <1>5, <2>1
  <2>2. CASE ~Finish(q)
    <3> DEFINE n == req[q].window + 1
               a == IF n \in Windows THEN "charge" ELSE "user"
               v == [req[q] EXCEPT !.at = a, !.window = n]
    <3>0. req[q].at = "charge"
      BY <1>13 DEF ApplyRateLimits
    <3>1. n \in Nat /\ a \in {"charge", "user"} /\ (a = "charge" => n \in Windows)
      BY <1>7, <3>0 DEF RequestType
    <3>2. req' = [req EXCEPT ![q] = v] /\ users' = users
      BY <1>13, <2>2 DEF ApplyRateLimits
    <3> HIDE DEF n, a
    <3>3. /\ v \in RequestType /\ v.at = a /\ v.window = n
          /\ v.user = req[q].user /\ v.cred = req[q].cred /\ v.seen = req[q].seen
      BY <1>7, <3>0, <3>1 DEF RequestType, Steps
    <3> HIDE DEF v
    <3>4. RequestOK(v, users', sessions')
      BY <1>7, <3>0, <3>1, <3>2, <3>3 DEF RequestOK
    <3> QED BY <1>3, <3>1, <3>2, <3>3, <3>4
  <2> QED BY <2>1, <2>2
<1>14. ASSUME NEW q \in Requests, RotateKey(q) PROVE RequestsInv'
  <2>1. ASSUME req[q].at # "idle", req[q].user # BreakGlass, NEW v \in RequestType, v.user = req[q].user,
               v.at \in {"create", "retire"}, req' = [req EXCEPT ![q] = v]
        PROVE  RequestsInv'
    <3>1. RequestOK(v, users', sessions')
      BY <1>7, <2>1 DEF RequestOK
    <3> QED BY <1>3, <2>1, <3>1
  <2>2. ASSUME NEW k \in Keys, req[q].at = "served", keys[k].user = req[q].user, Usable(k),
               req' = [req EXCEPT ![q].at = "create", ![q].old = k, ![q].end = keys[k].ends]
        PROVE  RequestsInv'
    <3> DEFINE v == [req[q] EXCEPT !.at = "create", !.old = k, !.end = keys[k].ends]
    <3>1. keys[k].ends \in 0..Never
      BY DEF TypeOK, KeyType
    <3>2. v \in RequestType /\ v.user = req[q].user /\ v.at = "create"
      BY <1>7, <2>2, <3>1 DEF RequestType, Steps
    <3>3. req' = [req EXCEPT ![q] = v]
      BY <2>2
    <3>4. req[q].user # BreakGlass
      BY <2>2 DEF Usable, KeysInv
    <3> HIDE DEF v
    <3> QED BY <2>1, <2>2, <3>2, <3>3, <3>4
  <2>3. ASSUME req[q].at = "create", req' = [req EXCEPT ![q].at = "retire"] PROVE RequestsInv'
    <3> DEFINE v == [req[q] EXCEPT !.at = "retire"]
    <3>1. v \in RequestType /\ v.user = req[q].user /\ v.at = "retire" /\ req' = [req EXCEPT ![q] = v]
      BY <1>7, <2>3 DEF RequestType, Steps
    <3>2. req[q].user # BreakGlass
      BY <1>7, <2>3 DEF RequestOK
    <3> HIDE DEF v
    <3> QED BY <2>1, <2>3, <3>1, <3>2
  <2> QED BY <1>5, <1>14, <2>2, <2>3 DEF RotateKey
<1>15. ASSUME NEW q \in Requests, WriteAdminUser(q) PROVE RequestsInv'
  <2>1. CASE Finish(q)
    BY <1>5, <2>1
  <2>2. ASSUME NEW u \in Users, req' = [Reseen(u) EXCEPT ![q] = Idle] PROVE RequestsInv'
    <3>1. req'[q] = Idle
      BY <2>2 DEF Reseen
    <3>2. \A p \in Requests : p # q => req'[p] \in {req[p], [req[p] EXCEPT !.seen = TRUE]}
      BY <2>2 DEF Reseen
    <3> QED BY <1>1, <1>4, <3>1, <3>2
  <2> QED BY <1>15, <2>1, <2>2 DEF WriteAdminUser
<1>16. CASE \E q \in Requests : \/ Respond(q) \/ CreateKey(q) \/ SetStatus(q) \/ DeleteAdminUser(q)
                                \/ AdminRevokeKey(q)
  BY <1>5, <1>16 DEF Respond, CreateKey, SetStatus, DeleteAdminUser, AdminRevokeKey
<1>17. ASSUME NEW q \in Requests, NEW r \in Replicas, Callback(q, r) PROVE RequestsInv'
  <2>1. CASE UNCHANGED req
    BY <1>2, <2>1
  <2>2. CASE req' # req
    <3>1. PICK s \in Sessions, who \in Identities :
            /\ sessions[s].at = "flow" /\ sessions' = [sessions EXCEPT ![s] = Spent]
            /\ users'[who.user].status = "active"
            /\ req' = [req EXCEPT ![q] = [Idle EXCEPT !.at = "insert", !.node = r, !.user = who.user,
                                            !.admin = who.admin, !.cred = s, !.seen = TRUE]]
      BY <1>17, <2>2 DEF Callback
    <3> DEFINE v == [Idle EXCEPT !.at = "insert", !.node = r, !.user = who.user,
                                 !.admin = who.admin, !.cred = s, !.seen = TRUE]
    <3>2. who.user \in Users /\ who.admin \in BOOLEAN
      BY DEF Identities
    <3>3. v \in RequestType /\ v.at = "insert" /\ v.user = who.user /\ v.cred = s
      BY <3>2, IdleType, EveryoneType DEF RequestType, Steps
    <3>4. req' = [req EXCEPT ![q] = v]
      BY <3>1
    <3> HIDE DEF v
    <3>5. RequestOK(v, users', sessions')
      BY <3>1, <3>2, <3>3, NoSessionType, EveryoneType DEF RequestOK, TypeOK
    <3>6. sessions[v.cred].at # "spent"
      BY <3>1, <3>3
    <3> QED BY <1>3, <3>3, <3>4, <3>5, <3>6
  <2> QED BY <2>1, <2>2
<1>18. ASSUME NEW q \in Requests, NEW r \in Replicas, BootstrapLogin(q, r) PROVE RequestsInv'
  <2>1. PICK s \in Sessions :
          /\ sessions[s].at = "unused" /\ sessions' = [sessions EXCEPT ![s] = Spent]
          /\ req' = [req EXCEPT ![q] = [Idle EXCEPT !.at = "insert", !.node = r, !.user = Bootstrap,
                                                    !.cred = s, !.seen = TRUE]]
    BY <1>18 DEF BootstrapLogin, FreeSessions
  <2> DEFINE v == [Idle EXCEPT !.at = "insert", !.node = r, !.user = Bootstrap, !.cred = s, !.seen = TRUE]
  <2>2. v \in RequestType /\ v.at = "insert" /\ v.user = Bootstrap /\ v.cred = s
    BY IdleType, EveryoneType DEF RequestType, Steps
  <2>3. users'[Bootstrap].status # "absent"
    <3>1. users'[Bootstrap] = UpsertedBootstrap
      BY <1>18, EveryoneType DEF BootstrapLogin, TypeOK
    <3> QED BY <3>1, EveryoneType DEF UpsertedBootstrap, TypeOK, UserType
  <2>4. req' = [req EXCEPT ![q] = v]
    BY <2>1
  <2> HIDE DEF v
  <2>5. RequestOK(v, users', sessions')
    BY <2>1, <2>2, <2>3, NoSessionType, EveryoneType DEF RequestOK, TypeOK
  <2>6. sessions[v.cred].at # "spent"
    BY <2>1, <2>2
  <2> QED BY <1>3, <2>2, <2>4, <2>5, <2>6
<1>19. ASSUME NEW q \in Requests, NEW r \in Replicas, AuthenticateSession(q, r) PROVE RequestsInv'
  <2>1. PICK s \in Sessions :
          /\ SessionPrincipal(s, r)
          /\ req' = [req EXCEPT ![q] = [Idle EXCEPT !.at = "renew", !.node = r, !.user = sessions[s].user,
                      !.admin = users[sessions[s].user].admin \/ sessions[s].user = Bootstrap, !.cred = s,
                      !.end = sessions[s].ends, !.seen = Active(sessions[s].user)]]
    BY <1>19 DEF AuthenticateSession
  <2> DEFINE u == sessions[s].user
             admin == users[u].admin \/ u = Bootstrap
             end == sessions[s].ends
             v == [Idle EXCEPT !.at = "renew", !.node = r, !.user = u, !.admin = admin, !.cred = s,
                               !.end = end, !.seen = TRUE]
  <2>2. u \in Everyone /\ sessions[s].at = "row" /\ Active(u) /\ users[u].status = "active"
    BY <2>1 DEF SessionPrincipal, SessionsInv, Row, Active
  <2>3. admin \in BOOLEAN /\ end \in 0..Never
    BY DEF TypeOK, SessionType
  <2>4. req' = [req EXCEPT ![q] = v]
    BY <2>1, <2>2 DEF Active
  <2>5. users' = users /\ sessions' = sessions
    BY <1>19 DEF AuthenticateSession
  <2>6. sessions[s].user = u
    OBVIOUS
  <2> HIDE DEF u, admin, end
  <2>7. v \in RequestType /\ v.at = "renew" /\ v.user = u /\ v.cred = s /\ v.seen = TRUE
    BY <2>2, <2>3, IdleType DEF RequestType, Steps
  <2> HIDE DEF v
  <2>8. RequestOK(v, users', sessions')
    BY <2>2, <2>5, <2>6, <2>7 DEF RequestOK
  <2> QED BY <1>3, <2>4, <2>7, <2>8
<1>20. ASSUME NEW q \in Requests, NEW r \in Replicas, AuthenticateKey(q, r) PROVE RequestsInv'
  <2>1. PICK k \in Keys :
          /\ Usable(k)
          /\ req' = [req EXCEPT ![q] = [Idle EXCEPT !.at = "charge", !.node = r, !.cred = k,
                       !.user = keys[k].user, !.window = 1, !.seen = Active(keys[k].user)]]
    BY <1>20 DEF AuthenticateKey
  <2> DEFINE u == keys[k].user
             seen == Active(u)
             v == [Idle EXCEPT !.at = "charge", !.node = r, !.cred = k, !.user = u, !.window = 1,
                               !.seen = seen]
  <2>2. /\ u \in Everyone /\ users[u].status # "absent" /\ u # BreakGlass
        /\ seen \in BOOLEAN /\ (seen \/ users[u].status # "active")
    BY <2>1 DEF Usable, KeysInv, TypeOK, KeyType, Active
  <2>3. req' = [req EXCEPT ![q] = v] /\ users' = users
    BY <1>20, <2>1 DEF AuthenticateKey
  <2> HIDE DEF u, seen
  <2>4. v \in RequestType /\ v.at = "charge" /\ v.user = u /\ v.cred = k /\ v.seen = seen /\ v.window = 1
    BY <2>2, IdleType DEF RequestType, Steps
  <2> HIDE DEF v
  <2>5. RequestOK(v, users', sessions')
    BY <2>2, <2>3, <2>4, WindowsAre DEF RequestOK
  <2> QED BY <1>3, <2>3, <2>4, <2>5
<1>21. ASSUME NEW q \in Requests, NEW r \in Replicas, AuthenticateBearer(q, r) PROVE RequestsInv'
  <2>1. CASE \E who \in Identities : /\ users'[who.user].status = "active"
                                     /\ req' = [req EXCEPT ![q] = Served(who.user, who.admin, TRUE)]
    <3>1. PICK who \in Identities : /\ users'[who.user].status = "active"
                                    /\ req' = [req EXCEPT ![q] = Served(who.user, who.admin, TRUE)]
      BY <2>1
    <3>2. who.user \in Everyone /\ who.admin \in BOOLEAN
      BY EveryoneType DEF Identities
    <3> QED BY <1>6, <3>1, <3>2
  <2>2. CASE /\ users' = [users EXCEPT ![Bootstrap] = UpsertedBootstrap]
             /\ req' = [req EXCEPT ![q] = Served(Bootstrap, TRUE, TRUE)]
    <3>1. users'[Bootstrap] = UpsertedBootstrap
      BY <2>2, EveryoneType DEF TypeOK
    <3>2. users'[Bootstrap].status # "absent"
      BY <3>1, EveryoneType DEF UpsertedBootstrap, TypeOK, UserType
    <3> QED BY <1>6, <2>2, <3>2, EveryoneType
  <2> QED BY <1>21, <2>1, <2>2 DEF AuthenticateBearer
<1>22. CASE Login \/ RecoveryLogin \/ Logout \/ NewWindow \/ Tick \/ DeleteExpired \/ UNCHANGED vars
              \/ \E r \in Replicas : Restart(r)
  BY <1>2, <1>22 DEF Login, RecoveryLogin, Logout, NewWindow, Tick, DeleteExpired, Restart, vars
<1> QED BY <1>9, <1>10, <1>11, <1>12, <1>13, <1>14, <1>15, <1>16, <1>17, <1>18, <1>19, <1>20, <1>21, <1>22
        DEF Next

-----------------------------------------------------------------------------
(* The invariant, and what it says of the code. *)

LEMMA AccessInvariant == Spec => []AccessInv
<1>1. Init => AccessInv
  <2> SUFFICES ASSUME Init PROVE AccessInv
    OBVIOUS
  <2>1. TypeOK
    <3>1. now \in 0..MaxNow
      BY AccessAssumption DEF Init
    <3>2. users \in [Everyone -> UserType] /\ sessions \in [Sessions -> SessionType]
            /\ keys \in [Keys -> KeyType] /\ req \in [Requests -> RequestType]
      BY IdleType, NoSessionType, NoKeyType DEF Init, UserType
    <3>3. bucket \in [Keys -> [Windows -> Nat]] /\ calls \in [Keys -> [Windows -> Nat]]
            /\ issued \in [Tokens -> Nat]
      BY DEF Init
    <3> QED BY <3>1, <3>2, <3>3 DEF Init, TypeOK
  <2>2. RequestsInv
    BY IdleType DEF Init, RequestsInv, RequestOK
  <2>3. KeysInv
    BY DEF Init, KeysInv, NoKey
  <2>4. SessionsInv
    BY DEF Init, SessionsInv, Row, NoSession
  <2>5. TokensInv
    BY DEF Init, TokensInv
  <2>6. RateInv
    BY WindowsAre DEF Init, RateInv
  <2> QED BY <2>1, <2>2, <2>3, <2>4, <2>5, <2>6 DEF AccessInv
<1>2. AccessInv /\ [Next]_vars => AccessInv'
  BY TypeStep, RequestsStep, KeysStep, SessionsStep, TokensStep, RateStep DEF AccessInv
<1> QED BY <1>1, <1>2, PTL DEF Spec

\* Whatever order the statements of authenticate, of a login, a rotation and an
\* administrator's change are run in, no request is served for an account that was locked
\* out for the whole of it (authenticate and sessionPrincipal read the account again).
THEOREM LockedOutStaysOut == Spec => []LockedOutIsNotServed
<1>1. AccessInv => LockedOutIsNotServed
  BY DEF AccessInv, RequestsInv, RequestOK, LockedOutIsNotServed
<1> QED BY <1>1, AccessInvariant, PTL

\* A break-glass token opens one session, one such session exists at a time and neither it
\* nor a bootstrap session outlives what it was given (recoveryLogin, renewSession), for
\* any number of tokens and sessions.
THEOREM RecoveryStaysNarrow == Spec => []RecoveryIsNarrow
<1>1. AccessInv => RecoveryIsNarrow
  <2> SUFFICES ASSUME AccessInv PROVE RecoveryIsNarrow
    OBVIOUS
  <2> DEFINE open == {s \in Sessions : Row(s) /\ sessions[s].user = BreakGlass}
  <2>1. Cardinality(open) <= 1
    <3>1. CASE open = {}
      BY <3>1, FS_EmptySet
    <3>2. CASE open # {}
      <4>1. PICK s \in Sessions : open = {s}
        BY <3>2 DEF AccessInv, SessionsInv
      <4> HIDE DEF open
      <4>2. Cardinality(open) = 1
        BY <4>1, FS_Singleton
      <4> QED BY <4>2
    <3> QED BY <3>1, <3>2
  <2>2. \A t \in Tokens : issued[t] <= 1
    BY DEF AccessInv, TokensInv
  <2>3. \A s \in Sessions : Row(s) /\ sessions[s].user \in Special
                              => sessions[s].ends <= sessions[s].issuedAt + RecoveryLife
    BY DEF AccessInv, SessionsInv
  <2> QED BY <2>1, <2>2, <2>3 DEF RecoveryIsNarrow
<1> QED BY <1>1, AccessInvariant, PTL

\* At most the limit of a window's calls is let through, whatever the limits are and
\* however many requests and replicas charge the key at once (applyRateLimits).
THEOREM RateLimitHolds == Spec => []WithinRateLimit
<1>1. AccessInv => WithinRateLimit
  <2> SUFFICES ASSUME AccessInv, NEW k \in Keys, NEW w \in Windows PROVE calls[k][w] <= Limit[w]
    BY DEF WithinRateLimit
  <2>1. calls[k][w] \in Nat /\ bucket[k][w] \in Nat /\ Limit[w] \in Nat
    BY WindowsAre DEF AccessInv, TypeOK
  <2>2. calls[k][w] <= bucket[k][w] /\ bucket[k][w] <= Limit[w]
    BY DEF AccessInv, RateInv
  <2> QED BY <2>1, <2>2
<1> QED BY <1>1, AccessInvariant, PTL

\* No renewal, rotation, login or change of status brings back a session whose row was deleted
\* (by a logout, with its account or by the scheduler) or a key that was revoked, whatever the
\* request that does it has read before.
THEOREM EndedIsEnded == Spec => EndedStaysEnded
<1>1. AccessInv /\ [Next]_vars =>
        /\ \A s \in Sessions : sessions[s].at = "gone" => sessions'[s].at = "gone"
        /\ \A k \in Keys : keys[k].revoked => keys'[k].revoked
  BY SessionsKept, KeysKept DEF SessionKept, KeyKept
<1> QED BY <1>1, AccessInvariant, PTL DEF Spec, EndedStaysEnded

\* After disableBootstrapAdmin has deleted the bootstrap row no request begins to be served for
\* the bootstrap administrator, on any replica, restarted or not, whether or not its other
\* statements succeed.
THEOREM BootstrapIsOver == Spec => BootstrapEnds
<1> DEFINE Kept(q) == /\ req'[q].at = "served" /\ req'[q].user = Bootstrap
                        => req[q].at \in {"renew", "served"}
<1>1. ASSUME AccessInv, [Next]_vars, ~bootRow, NEW q \in Requests PROVE Kept(q)
  <2> USE DEF AccessInv
  <2>0. ~bootRow /\ req \in [Requests -> RequestType] /\ req[q] \in RequestType
    BY <1>1 DEF TypeOK
  <2>1. CASE req'[q] = req[q] \/ req'[q] = [req[q] EXCEPT !.seen = TRUE]
    BY <2>0, <2>1 DEF RequestType
  <2>2. CASE req'[q].at # "served"
    BY <2>2
  <2>3. ASSUME NEW p \in Requests, NEW v, req' = [req EXCEPT ![p] = v], v.at # "served"
        PROVE  Kept(q)
    BY <2>0, <2>1, <2>2, <2>3
  <2>4. ASSUME NEW p \in Requests, Finish(p) PROVE Kept(q)
    BY <2>3, <2>4, IdleType DEF Finish
  <2>5. ASSUME NEW p \in Requests, NEW a, a # "served", req' = [req EXCEPT ![p].at = a]
        PROVE  Kept(q)
    BY <2>0, <2>1, <2>5 DEF RequestType
  <2>6. ASSUME NEW p \in Requests,
               OpenSession(p) \/ DisableBootstrapAdmin(p) \/ Respond(p) \/ CreateKey(p) \/ SetStatus(p)
                 \/ DeleteAdminUser(p) \/ AdminRevokeKey(p)
        PROVE  Kept(q)
    <3>1. CASE OpenSession(p)
      <4>1. CASE req' = [req EXCEPT ![p] = [req[p] EXCEPT !.at = "memory"]]
        BY <2>5, <4>1
      <4> QED BY <2>4, <3>1, <4>1 DEF OpenSession, Finish
    <3>2. CASE DisableBootstrapAdmin(p)
      BY <2>4, <2>5, <3>2 DEF DisableBootstrapAdmin
    <3> QED BY <2>4, <2>6, <3>1, <3>2 DEF Respond, CreateKey, SetStatus, DeleteAdminUser, AdminRevokeKey
  <2>7. ASSUME NEW p \in Requests, RotateKey(p) PROVE Kept(q)
    <3>1. ASSUME NEW k \in Keys, req' = [req EXCEPT ![p].at = "create", ![p].old = k, ![p].end = keys[k].ends]
          PROVE  Kept(q)
      BY <2>0, <2>1, <3>1 DEF RequestType
    <3> QED BY <2>4, <2>5, <2>7, <3>1 DEF RotateKey
  <2>8. ASSUME NEW p \in Requests, RenewSession(p) PROVE Kept(q)
    <3>1. CASE p = q
      BY <2>8, <3>1 DEF RenewSession
    <3> QED BY <2>0, <2>1, <2>8, <3>1 DEF RenewSession
  <2>9. ASSUME NEW p \in Requests, ApplyRateLimits(p) PROVE Kept(q)
    <3>1. CASE p = q
      <4>1. CASE Finish(p)
        BY <2>4, <4>1
      <4>2. CASE ~Finish(p)
        BY <2>0, <2>2, <2>9, <3>1, <4>2 DEF ApplyRateLimits, RequestType
      <4> QED BY <4>1, <4>2
    <3> QED BY <2>0, <2>1, <2>9, <3>1 DEF ApplyRateLimits, Finish
  \* Two entrances ask for the bootstrap token: its row is gone.
  <2>10. ASSUME NEW p \in Requests, LoadKeyUser(p) PROVE Kept(q)
    <3>1. CASE KeyPrincipal(p)
      <4>1. req[p].user # Bootstrap
        BY <2>0, <3>1 DEF KeyPrincipal, BootstrapAvailable
      <4>2. req[p].user \in Everyone /\ req[p].seen \in BOOLEAN
        <5>1. req[p] \in RequestType /\ req[p].at = "user" /\ RequestOK(req[p], users, sessions)
          BY <1>1, <2>0, <2>10 DEF LoadKeyUser, RequestsInv
        <5>2. req[p].seen \in BOOLEAN
          BY <5>1 DEF RequestType
        <5>3. req[p].user \in Everyone
          BY <5>1 DEF RequestOK
        <5> QED BY <5>2, <5>3
      <4> DEFINE admin == users[req[p].user].admin \/ req[p].user = Bootstrap
                 v == Served(req[p].user, admin, req[p].seen)
      <4>3. req' = [req EXCEPT ![p] = v]
        BY <2>10, <3>1 DEF LoadKeyUser
      <4>4. admin \in BOOLEAN
        OBVIOUS
      <4> HIDE DEF admin
      <4>5. v.user = req[p].user
        BY <4>2, <4>4, ServedType
      <4> HIDE DEF v
      <4> QED BY <2>0, <2>1, <4>1, <4>3, <4>5
    <3> QED BY <2>4, <2>10, <3>1 DEF LoadKeyUser
  <2>11. ASSUME NEW p \in Requests, NEW r \in Replicas, AuthenticateBearer(p, r) PROVE Kept(q)
    <3>1. PICK who \in Identities : req' = [req EXCEPT ![p] = Served(who.user, who.admin, TRUE)]
      BY <2>0, <2>11 DEF AuthenticateBearer, BootstrapAvailable
    <3> DEFINE v == Served(who.user, who.admin, TRUE)
    <3>2. who.user \in Everyone /\ who.user # Bootstrap /\ who.admin \in BOOLEAN
      BY EveryoneType DEF Identities
    <3>3. v.user = who.user
      BY <3>2, ServedType
    <3>4. req' = [req EXCEPT ![p] = v]
      BY <3>1
    <3> HIDE DEF v
    <3> QED BY <2>0, <2>1, <3>2, <3>3, <3>4
  <2>12. ASSUME NEW p \in Requests, WriteAdminUser(p) PROVE Kept(q)
    <3>1. CASE Finish(p)
      BY <2>4, <3>1
    <3>2. ASSUME NEW u \in Users, req' = [Reseen(u) EXCEPT ![p] = Idle] PROVE Kept(q)
      <4>1. CASE p = q
        BY <2>2, <3>2, <4>1, IdleType DEF Reseen
      <4> QED BY <2>1, <3>2, <4>1 DEF Reseen
    <3> QED BY <2>12, <3>1, <3>2 DEF WriteAdminUser
  <2>13. ASSUME NEW p \in Requests, NEW r \in Replicas,
                \/ Callback(p, r) \/ BootstrapLogin(p, r) \/ AuthenticateSession(p, r) \/ AuthenticateKey(p, r)
         PROVE  Kept(q)
    <3>1. CASE p # q
      BY <2>0, <2>1, <2>13, <3>1 DEF Callback, BootstrapLogin, AuthenticateSession, AuthenticateKey
    <3>2. CASE p = q
      <4>1. CASE Callback(p, r)
        <5>1. CASE req' = req
          BY <2>1, <5>1
        <5>2. CASE req' # req
          <6>1. PICK s \in Sessions, who \in Identities :
                  req' = [req EXCEPT ![q] = [Idle EXCEPT !.at = "insert", !.node = r, !.user = who.user,
                                               !.admin = who.admin, !.cred = s, !.seen = TRUE]]
            BY <3>2, <4>1, <5>2 DEF Callback
          <6>2. req'[q].at = "insert"
            BY <2>0, <6>1 DEF Idle
          <6> QED BY <2>2, <6>2
        <5> QED BY <5>1, <5>2
      <4>2. CASE BootstrapLogin(p, r)
        BY <2>0, <2>2, <3>2, <4>2 DEF BootstrapLogin, Idle
      <4>3. CASE AuthenticateSession(p, r)
        BY <2>0, <2>2, <3>2, <4>3 DEF AuthenticateSession, Idle
      <4>4. CASE AuthenticateKey(p, r)
        BY <2>0, <2>2, <3>2, <4>4 DEF AuthenticateKey, Idle
      <4> QED BY <2>13, <4>1, <4>2, <4>3, <4>4
    <3> QED BY <3>1, <3>2
  <2>14. CASE Login \/ RecoveryLogin \/ Logout \/ NewWindow \/ Tick \/ DeleteExpired \/ UNCHANGED vars
                \/ \E r \in Replicas : Restart(r)
    BY <2>1, <2>14 DEF Login, RecoveryLogin, Logout, NewWindow, Tick, DeleteExpired, Restart, vars
  <2> HIDE DEF Kept, AccessInv
  <2> QED BY <1>1, <2>6, <2>7, <2>8, <2>9, <2>10, <2>11, <2>12, <2>13, <2>14 DEF Next
<1>2. AccessInv /\ [Next]_vars => (~bootRow => \A q \in Requests : Kept(q))
  BY <1>1
<1>3. AccessInv /\ [Next]_vars =>
        (~bootRow => \A q \in Requests : req'[q].at = "served" /\ req'[q].user = Bootstrap
                                        => req[q].at \in {"renew", "served"})
  BY <1>2
<1> QED BY <1>3, AccessInvariant, PTL DEF Spec, BootstrapEnds
=============================================================================
