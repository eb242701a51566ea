------------------------- MODULE NotificationOutbox -------------------------
(***************************************************************************)
(* The outbound notifications: notification.Service.RunOnce of every       *)
(* replica seeds one delivery row for each notification and destination,   *)
(* selects what is due, claims the rows one by one, sends and records the  *)
(* result; settings, addresses and retries change meanwhile.               *)
(*                                                                         *)
(* A row is identified by its notification and its channel and destination *)
(* (deliveryID).  The messenger channel is a second webhook.  Time is what *)
(* the guards can tell apart: a retry that is due, a lease that is old.    *)
(***************************************************************************)
EXTENDS Naturals, FiniteSets

CONSTANTS
    Notifications,
    Urls,          \* webhook URLs
    Emails,        \* addresses of the user
    Off,           \* no destination
    Replicas,
    NoReplica,
    MaxAttempts,   \* notifications.maxAttempts
    MaxChanges      \* bound: settings saved, addresses changed, retries, crashes, failed sends

ASSUME OutboxAssumption ==
    /\ Off \notin Urls \cup Emails
    /\ Emails # {}
    /\ NoReplica \notin Replicas
    /\ MaxAttempts \in Nat \ {0}
    /\ MaxChanges \in Nat

Keys == [notification : Notifications, channel : {"webhook"}, destination : Urls]
            \cup [notification : Notifications, channel : {"email"}, destination : Emails]
Configs == [enabled : BOOLEAN, url : Urls \cup {Off}, smtp : BOOLEAN]

VARIABLES
    config,     \* the notifications setting
    before,     \* notifications older than the setting (ActiveSince)
    email,      \* users.email
    created,    \* notifications
    rows,       \* notification_deliveries
    pass,       \* RunOnce of each replica
    changes,
    reached,    \* history: rows and where their messages really went
    orphaned    \* history: rows superseded with nothing to replace them

outboxVars == <<config, before, email, created, rows, pass, changes, reached, orphaned>>

Change == changes < MaxChanges /\ changes' = changes + 1

NoRow == [status |-> "none", attempts |-> 0, due |-> FALSE, owner |-> NoReplica, old |-> FALSE]
Unfinished == {"pending", "failed"}
Settled == {"delivered", "dead", "superseded"}

Disabled == [enabled |-> FALSE, url |-> Off, smtp |-> FALSE]
NoPass == [pc |-> "idle", config |-> Disabled, before |-> {}, slow |-> FALSE, todo |-> {}, item |-> {}, ok |-> FALSE]

\* currentDestination with the pass's settings and an item's address.
currentDestination(cfg, channel, address) ==
    CASE channel = "webhook" -> cfg.url
      [] channel = "email"   -> IF cfg.smtp THEN address ELSE Off

ValidateConfig(cfg) == cfg.enabled => cfg.url # Off \/ cfg.smtp

(***************************************************************************)
(* What happens around the outbox.                                         *)
(***************************************************************************)

\* A saved setting moves ActiveSince to now.
SaveSettings(cfg) ==
    /\ cfg # config
    /\ ValidateConfig(cfg)
    /\ Change
    /\ config' = cfg
    /\ before' = created
    /\ UNCHANGED <<email, created, rows, pass, reached, orphaned>>

ChangeEmail(e) ==
    /\ e # email
    /\ Change
    /\ email' = e
    /\ UNCHANGED <<config, before, created, rows, pass, reached, orphaned>>

Notify(n) ==
    /\ n \notin created
    /\ created' = created \cup {n}
    /\ UNCHANGED <<config, before, email, rows, pass, changes, reached, orphaned>>

\* The same news again: the notification keeps its id and gets a new created_at.
NotifyAgain(n) ==
    /\ n \in before
    /\ Change
    /\ before' = before \ {n}
    /\ UNCHANGED <<config, email, created, rows, pass, reached, orphaned>>

\* retryNotificationDelivery: the attempts stay.
Retry(k) ==
    /\ rows[k].status \in {"failed", "dead"}
    /\ Change
    /\ rows' = [rows EXCEPT ![k].status = "pending", ![k].due = TRUE]
    /\ UNCHANGED <<config, before, email, created, pass, reached, orphaned>>

\* next_attempt_at passes.
ComeDue(k) ==
    /\ rows[k].status = "failed"
    /\ ~rows[k].due
    /\ rows' = [rows EXCEPT ![k].due = TRUE]
    /\ UNCHANGED <<config, before, email, created, pass, changes, reached, orphaned>>

\* A lease nobody holds any more gets old.
Age(k) ==
    /\ rows[k].status = "sending"
    /\ rows[k].owner = NoReplica
    /\ ~rows[k].old
    /\ rows' = [rows EXCEPT ![k].old = TRUE]
    /\ UNCHANGED <<config, before, email, created, pass, changes, reached, orphaned>>

(***************************************************************************)
(* RunOnce.                                                                *)
(***************************************************************************)

Step(r, next) == pass' = [pass EXCEPT ![r] = next]

KeepsLease(row) == row
AssumesDelivered(row) == [row EXCEPT !.status = "delivered", !.owner = NoReplica]
Expired(row) == [row EXCEPT !.status = "failed", !.due = TRUE, !.owner = NoReplica]

\* The settings are loaded, leases of more than five minutes end.
Start(r) ==
    /\ pass[r].pc = "idle"
    /\ config.enabled
    /\ ValidateConfig(config)
    /\ rows' = [k \in Keys |-> IF rows[k].status = "sending" /\ rows[k].old
                               THEN Expired(rows[k]) ELSE rows[k]]
    /\ Step(r, [NoPass EXCEPT !.pc = "seed", !.config = config, !.before = before])
    /\ UNCHANGED <<config, before, email, created, changes, reached, orphaned>>

\* seed: every notification since the setting, for every destination it has.
Wanted(r) ==
    {k \in Keys : /\ k.notification \in created \ pass[r].before
                  /\ k.destination = currentDestination(pass[r].config, k.channel, email)}

Seed(r) ==
    /\ pass[r].pc = "seed"
    /\ rows' = [k \in Keys |-> IF rows[k].status = "none" /\ k \in Wanted(r)
                               THEN [NoRow EXCEPT !.status = "pending", !.due = TRUE] ELSE rows[k]]
    /\ Step(r, [pass[r] EXCEPT !.pc = "select"])
    /\ UNCHANGED <<config, before, email, created, changes, reached, orphaned>>

Select(r) ==
    /\ pass[r].pc = "select"
    /\ Step(r, [pass[r] EXCEPT !.pc = "loop",
                  !.todo = {[key |-> k, attempts |-> rows[k].attempts, email |-> email]
                              : k \in {x \in Keys : rows[x].status \in Unfinished /\ rows[x].due}}])
    /\ UNCHANGED <<config, before, email, created, rows, changes, reached, orphaned>>

Destination(r, item) == currentDestination(pass[r].config, item.key.channel, item.email)

SendsAnyway(r, item) == TRUE
StillWanted(r, item) == item.key.destination = Destination(r, item)

Replaced(r, item) ==
    Destination(r, item) = Off
        \/ rows[[item.key EXCEPT !.destination = Destination(r, item)]].status # "none"

Supersede(r, item) ==
    /\ pass[r].pc = "loop"
    /\ item \in pass[r].todo
    /\ ~StillWanted(r, item)
    /\ IF rows[item.key].status \in Unfinished
       THEN /\ rows' = [rows EXCEPT ![item.key].status = "superseded"]
            /\ orphaned' = (orphaned \cup IF Replaced(r, item) THEN {} ELSE {item.key})
       ELSE UNCHANGED <<rows, orphaned>>
    /\ Step(r, [pass[r] EXCEPT !.todo = @ \ {item}])
    /\ UNCHANGED <<config, before, email, created, changes, reached>>

\* The lease is stamped with the time the pass began.
Claim(r, item) ==
    /\ pass[r].pc = "loop"
    /\ item \in pass[r].todo
    /\ StillWanted(r, item)
    /\ rows[item.key].status \in Unfinished
    /\ rows' = [rows EXCEPT ![item.key].status = "sending", ![item.key].attempts = @ + 1,
                            ![item.key].owner = r, ![item.key].old = pass[r].slow]
    /\ Step(r, [pass[r] EXCEPT !.pc = "send", !.todo = @ \ {item}, !.item = {item}])
    /\ UNCHANGED <<config, before, email, created, changes, reached, orphaned>>

\* Another replica has taken or finished the row.
Skip(r, item) ==
    /\ pass[r].pc = "loop"
    /\ item \in pass[r].todo
    /\ StillWanted(r, item)
    /\ rows[item.key].status \notin Unfinished
    /\ Step(r, [pass[r] EXCEPT !.todo = @ \ {item}])
    /\ UNCHANGED <<config, before, email, created, rows, changes, reached, orphaned>>

Item(r) == CHOOSE item \in pass[r].item : TRUE

Reach(r) == reached' = reached \cup {[key |-> Item(r).key, to |-> Destination(r, Item(r))]}

Send(r) ==
    /\ pass[r].pc = "send"
    /\ Reach(r)
    /\ Step(r, [pass[r] EXCEPT !.pc = "record", !.ok = TRUE])
    /\ UNCHANGED <<config, before, email, created, rows, changes, orphaned>>

\* An error, which does not say that the message did not arrive.
SendFails(r) ==
    /\ pass[r].pc = "send"
    /\ Change
    /\ Reach(r) \/ UNCHANGED reached
    /\ Step(r, [pass[r] EXCEPT !.pc = "record", !.ok = FALSE])
    /\ UNCHANGED <<config, before, email, created, rows, orphaned>>

LastAttempt(r) == Item(r).attempts + 1 >= MaxAttempts

Result(r) ==
    CASE pass[r].ok      -> "delivered"
      [] LastAttempt(r)  -> "dead"
      [] OTHER           -> "failed"

Recorded(r) == [pass[r] EXCEPT !.pc = "loop", !.item = {}, !.ok = FALSE]

\* The result counts only if the row is being sent, by whomever.
Record(r) ==
    /\ pass[r].pc = "record"
    /\ LET k == Item(r).key
       IN  rows' = IF rows[k].status = "sending"
                   THEN [rows EXCEPT ![k].status = Result(r), ![k].due = FALSE,
                                     ![k].owner = NoReplica, ![k].old = FALSE]
                   ELSE rows
    /\ Step(r, Recorded(r))
    /\ UNCHANGED <<config, before, email, created, changes, reached, orphaned>>

Finish(r) ==
    /\ pass[r].pc = "loop"
    /\ pass[r].todo = {}
    /\ Step(r, NoPass)
    /\ UNCHANGED <<config, before, email, created, rows, changes, reached, orphaned>>

Disowned(r) == [k \in Keys |-> IF rows[k].owner = r THEN [rows[k] EXCEPT !.owner = NoReplica] ELSE rows[k]]

\* The UPDATE with the result fails and nobody looks at its error.
LoseRecord(r) ==
    /\ pass[r].pc = "record"
    /\ Change
    /\ rows' = Disowned(r)
    /\ Step(r, Recorded(r))
    /\ UNCHANGED <<config, before, email, created, reached, orphaned>>

\* A crash, or a statement before the loop that fails.
Crash(r) ==
    /\ pass[r].pc # "idle"
    /\ Change
    /\ rows' = Disowned(r)
    /\ Step(r, NoPass)
    /\ UNCHANGED <<config, before, email, created, reached, orphaned>>

\* A pass of a hundred slow sends outlives the leases it stamps.
SlowPass(r) ==
    /\ pass[r].pc \in {"loop", "send", "record"}
    /\ ~pass[r].slow
    /\ Change
    /\ Step(r, [pass[r] EXCEPT !.slow = TRUE])
    /\ rows' = [k \in Keys |-> IF rows[k].owner = r THEN [rows[k] EXCEPT !.old = TRUE] ELSE rows[k]]
    /\ UNCHANGED <<config, before, email, created, reached, orphaned>>

OutboxInit ==
    /\ config \in {cfg \in Configs : cfg.enabled /\ ValidateConfig(cfg)}
    /\ before = {}
    /\ email = CHOOSE e \in Emails : TRUE
    /\ created = {}
    /\ rows = [k \in Keys |-> NoRow]
    /\ pass = [r \in Replicas |-> NoPass]
    /\ changes = 0
    /\ reached = {}
    /\ orphaned = {}

Handle(r) == \E item \in pass[r].todo : Supersede(r, item) \/ Claim(r, item) \/ Skip(r, item)

RunOnce(r) ==
    Start(r) \/ Seed(r) \/ Select(r) \/ Handle(r) \/ Send(r) \/ Record(r) \/ Finish(r)

TimePasses == \E k \in Keys : ComeDue(k) \/ Age(k)

OutboxNext ==
    \/ \E cfg \in Configs : SaveSettings(cfg)
    \/ \E e \in Emails : ChangeEmail(e)
    \/ \E n \in Notifications : Notify(n) \/ NotifyAgain(n)
    \/ \E k \in Keys : Retry(k)
    \/ TimePasses
    \/ \E r \in Replicas : RunOnce(r) \/ SendFails(r) \/ LoseRecord(r) \/ Crash(r) \/ SlowPass(r)

Passes(r) == RunOnce(r) \/ SendFails(r)

\* Every replica ticks, and time passes.
OutboxSpec ==
    /\ OutboxInit /\ [][OutboxNext]_outboxVars
    /\ \A r \in Replicas : WF_outboxVars(Passes(r))
    /\ WF_outboxVars(TimePasses)

-----------------------------------------------------------------------------
(* Properties *)

RowType == [status : {"none", "sending"} \cup Unfinished \cup Settled, attempts : Nat,
            due : BOOLEAN, owner : Replicas \cup {NoReplica}, old : BOOLEAN]
Items == [key : Keys, attempts : Nat, email : Emails]
PassType == [pc : {"idle", "seed", "select", "loop", "send", "record"}, config : Configs,
             before : SUBSET Notifications, slow : BOOLEAN, todo : SUBSET Items,
             item : SUBSET Items, ok : BOOLEAN]

\* Every variable has its type.
OutboxTypeOK ==
    /\ config \in Configs
    /\ before \subseteq created /\ created \subseteq Notifications
    /\ email \in Emails
    /\ rows \in [Keys -> RowType]
    /\ pass \in [Replicas -> PassType]
    /\ changes \in 0..MaxChanges
    /\ orphaned \subseteq Keys

\* A row's message only ever goes to the destination the row was made for, even
\* if the address or the URL changes between seeding, selecting and sending
\* (the hash comparison in RunOnce).
SentToItsDestination == \A m \in reached : m.to = m.key.destination

\* A row says delivered only if its message arrived, whoever recorded it.
DeliveredArrived ==
    \A k \in Keys : rows[k].status = "delivered" => \E m \in reached : m.key = k

\* A row is given up only after all its attempts, although replicas count the
\* attempts in copies of the row that may be stale.
DeadAfterAllAttempts ==
    \A k \in Keys : rows[k].status = "dead" => rows[k].attempts >= MaxAttempts

\* What ended, ended for its cause: delivered because the message arrived, dead
\* because no attempt is left, whoever recorded it (record in RunOnce).
SettledForCause == DeliveredArrived /\ DeadAfterAllAttempts

\* Every delivery ends: as long as the channel stays enabled, no crash, lost
\* lease or failure leaves a row waiting or being sent for ever.
DeliveriesSettle ==
    []<>(config.enabled => \A k \in Keys : rows[k].status \in {"none"} \cup Settled)

\* What the code's own comment promises and the code does not keep (README,
\* section 6): "The seeding pass creates the replacement row": a row is superseded only if
\* the destination that replaces it has a row.
SupersededIsReplaced == orphaned = {}
=============================================================================
