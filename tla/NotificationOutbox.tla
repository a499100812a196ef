------------------------- MODULE NotificationOutbox -------------------------
(***************************************************************************)
(* The Core side of Telegram notifications: the tables                     *)
(* notification_recipients and notification_outbox of one family schema    *)
(* (migrations 011 and 012) and the transactions that touch them.          *)
(*                                                                         *)
(* The definitions below are the transactions.  They are composed with the *)
(* Access worker, the consent handler and Portal in TelegramDelivery.      *)
(*                                                                         *)
(* An outbox row has a random UUID in the code.  Here it is named by the   *)
(* task, the recipient and the number of backup restores that precede the  *)
(* insert; that one task never needs the same name twice is checked, not   *)
(* assumed (see NoSecondEvent).  Subscription and binding identifiers are  *)
(* numbers drawn from one growing counter, 0 meaning "none".  A lease that *)
(* has run out is the same as no lease, because every statement that reads *)
(* lease_token also requires lease_until > now().                          *)
(***************************************************************************)
EXTENDS Naturals

CONSTANTS
  Tasks,          \* tasks a child may complete
  Refs,           \* recipient_ref: one linked Telegram account of the family
  Parents,        \* adult profiles
  NoParent,       \* parent_id of an empty row
  Tokens,         \* lease tokens
  NoLease,        \* lease_token is null
  MaxRestores     \* bound on backup restores

ASSUME OutboxAssumption ==
  /\ MaxRestores \in Nat
  /\ NoParent \notin Parents
  /\ NoLease \notin Tokens

VARIABLES
  tasks,          \* status of each task; "completing" while its transaction is open
  events,         \* notification_outbox
  recipients,     \* notification_recipients
  adults,         \* participants that are active parents
  entitled,       \* service_policy: access_until is null or in the future
  suspended,      \* fq_platform.families.status = 'suspended'
  restores        \* how many backups have been restored

coreVars == <<tasks, events, recipients, adults, entitled, suspended, restores>>

Event == Tasks \X Refs \X (0 .. MaxRestores)
RefOf(e) == e[2]

RowState == {"absent", "uncommitted", "pending", "delivered", "cancelled", "failed"}
Terminal == {"delivered", "cancelled", "failed"}
Row == [state : RowState, sub : Nat, binding : Nat,
        parent : Parents \cup {NoParent}, lease : Tokens \cup {NoLease}, due : BOOLEAN]
Recipient == [enabled : BOOLEAN, sub : Nat, binding : Nat,
              parent : Parents \cup {NoParent}]

NoRow == [state |-> "absent", sub |-> 0, binding |-> 0,
          parent |-> NoParent, lease |-> NoLease, due |-> FALSE]
NoRecipient == [enabled |-> FALSE, sub |-> 0, binding |-> 0, parent |-> NoParent]

CoreInit ==
  /\ tasks = [t \in Tasks |-> "pending"]
  /\ events = [e \in Event |-> NoRow]
  /\ recipients = [r \in Refs |-> NoRecipient]
  /\ adults = Parents
  /\ entitled = TRUE
  /\ suspended = FALSE
  /\ restores = 0

Pending == {e \in Event : events[e].state = "pending"}

\* Mutant: the update lost its "state = 'pending'".
CancelledWhateverState(S) ==
  [e \in Event |-> IF e \in S /\ events[e].state \notin {"absent", "uncommitted"}
                   THEN [events[e] EXCEPT !.state = "cancelled", !.lease = NoLease]
                   ELSE events[e]]

\* The outbox after the pending rows among S are cancelled; a cancelled row
\* gives up its lease.
Cancelled(S) ==
  [e \in Event |-> IF e \in S \cap Pending
                   THEN [events[e] EXCEPT !.state = "cancelled", !.lease = NoLease]
                   ELSE events[e]]

\* Rows of recipient r whose consent generation is not the enabled one in rcp.
Orphans(r, rcp) ==
  {e \in Pending : /\ RefOf(e) = r
                   /\ ~(rcp[r].enabled /\ rcp[r].sub = events[e].sub)}

(***************************************************************************)
(* CompleteTask: the status update takes the row lock, then one row is     *)
(* inserted per enabled recipient whose parent is active.  The insert reads*)
(* the recipients without locking them, so other transactions may run      *)
(* before the commit; until then its rows are invisible ("uncommitted").   *)
(***************************************************************************)
Notified == {r \in Refs : recipients[r].enabled /\ recipients[r].parent \in adults}

OwnRows(t) == {e \in Event : e[1] = t /\ e[3] = restores}

CompleteBegin(t) ==
  /\ tasks[t] = "pending"
  /\ tasks' = [tasks EXCEPT ![t] = "completing"]
  /\ events' = [e \in Event |->
       IF e \in OwnRows(t) /\ RefOf(e) \in Notified
       THEN [state |-> "uncommitted", sub |-> recipients[RefOf(e)].sub,
             binding |-> recipients[RefOf(e)].binding,
             parent |-> recipients[RefOf(e)].parent, lease |-> NoLease, due |-> TRUE]
       ELSE events[e]]
  /\ UNCHANGED <<recipients, adults, entitled, suspended, restores>>

CompleteCommit(t) ==
  /\ tasks[t] = "completing"
  /\ tasks' = [tasks EXCEPT ![t] = "completed"]
  /\ events' = [e \in Event |->
       IF e \in OwnRows(t) /\ events[e].state = "uncommitted"
       THEN [events[e] EXCEPT !.state = "pending"]
       ELSE events[e]]
  /\ UNCHANGED <<recipients, adults, entitled, suspended, restores>>

\* An error in the insert, a lost connection or a crash rolls both changes back.
CompleteAbort(t) ==
  /\ tasks[t] = "completing"
  /\ tasks' = [tasks EXCEPT ![t] = "pending"]
  /\ events' = [e \in Event |->
       IF e \in OwnRows(t) /\ events[e].state = "uncommitted" THEN NoRow ELSE events[e]]
  /\ UNCHANGED <<recipients, adults, entitled, suspended, restores>>

(***************************************************************************)
(* SetNotificationRecipient with enabled = true: refused without access or *)
(* for an inactive parent; keeps the generation when nothing changed.      *)
(***************************************************************************)
MayRecord(p) == ~suspended /\ entitled /\ p \in adults

\* The subscription_id the upsert leaves in the table.
KeptSub(r, p, sub, b) ==
  IF recipients[r].enabled /\ recipients[r].binding = b /\ recipients[r].parent = p
  THEN recipients[r].sub
  ELSE sub

SetRecipient(r, p, sub, b) ==
  /\ MayRecord(p)
  /\ recipients' = [recipients EXCEPT ![r] =
       [enabled |-> TRUE, sub |-> KeptSub(r, p, sub, b), binding |-> b, parent |-> p]]
  /\ events' = Cancelled(Orphans(r, recipients'))
  /\ UNCHANGED <<tasks, adults, entitled, suspended, restores>>

\* RevokeNotificationRecipient: disables the recipient, cancels all its rows.
Revoke(r) ==
  /\ ~suspended
  /\ recipients' = [recipients EXCEPT ![r].enabled = FALSE]
  /\ events' = Cancelled({e \in Event : RefOf(e) = r})
  /\ UNCHANGED <<tasks, adults, entitled, suspended, restores>>

(***************************************************************************)
(* The worker's three calls.  A suspended family is not resolved, so each  *)
(* of them is refused then.                                                *)
(***************************************************************************)
\* Mutant: a family without access is skipped.
ClaimableWithAccess(e) ==
  entitled /\ events[e].state = "pending" /\ events[e].due /\ events[e].lease = NoLease

Claimable(e) == events[e].state = "pending" /\ events[e].due /\ events[e].lease = NoLease

Claim(e, tok) ==
  /\ ~suspended
  /\ Claimable(e)
  /\ events' = [events EXCEPT ![e].lease = tok]
  /\ UNCHANGED <<tasks, recipients, adults, entitled, suspended, restores>>

Holds(e, tok) == events[e].state = "pending" /\ events[e].lease = tok

\* NotificationAllowed
Allowed(e, tok) ==
  LET o == events[e]  r == recipients[RefOf(e)] IN
  /\ Holds(e, tok)
  /\ r.enabled /\ r.sub = o.sub /\ r.binding = o.binding /\ r.parent = o.parent
  /\ o.parent \in adults
  /\ entitled

\* The consent generation an outbox row was written under.
SameGeneration(e, f) ==
  /\ RefOf(f) = RefOf(e)
  /\ events[f].sub = events[e].sub
  /\ events[f].binding = events[e].binding

\* Mutant: every cancellation ends the consent, a withdrawn authorization too.
EndsOnAnyCancel(outcome, code) == outcome = "cancelled"

EndsGeneration(outcome, code) ==
  outcome = "cancelled" /\ code \in {"portal_denied", "recipient_revoked"}

\* SettleNotification: compare-and-set on a live lease.  A confirmed denial
\* also disables this generation of consent and cancels its other rows.
Settle(e, tok, outcome, code) ==
  /\ ~suspended
  /\ Holds(e, tok)
  /\ LET ends == EndsGeneration(outcome, code)
         r == RefOf(e)
         siblings == {f \in Event : ends /\ f # e /\ SameGeneration(e, f)}
     IN /\ recipients' =
             IF ends /\ recipients[r].sub = events[e].sub
                     /\ recipients[r].binding = events[e].binding
             THEN [recipients EXCEPT ![r].enabled = FALSE]
             ELSE recipients
        /\ events' = [Cancelled(siblings) EXCEPT
             ![e] = [events[e] EXCEPT
                       !.state = IF outcome = "retry" THEN "pending" ELSE outcome,
                       !.lease = NoLease,
                       !.due = outcome # "retry"]]
  /\ UNCHANGED <<tasks, adults, entitled, suspended, restores>>

\* lease_until passes.
LeaseExpires(e) ==
  /\ events[e].lease # NoLease
  /\ events' = [events EXCEPT ![e].lease = NoLease]
  /\ UNCHANGED <<tasks, recipients, adults, entitled, suspended, restores>>

\* available_at, set in the future by a retry, passes.
BackoffElapses(e) ==
  /\ events[e].state = "pending" /\ ~events[e].due
  /\ events' = [events EXCEPT ![e].due = TRUE]
  /\ UNCHANGED <<tasks, recipients, adults, entitled, suspended, restores>>

(***************************************************************************)
(* The rest of the family database, as far as notifications depend on it.  *)
(***************************************************************************)
\* DeleteParticipant never removes the last active parent.
DeactivateParent(p) ==
  /\ p \in adults /\ adults # {p}
  /\ adults' = adults \ {p}
  /\ UNCHANGED <<tasks, events, recipients, entitled, suspended, restores>>

\* Time passes access_until, or an operator records or refunds a payment.
PolicyChange ==
  /\ entitled' = ~entitled
  /\ UNCHANGED <<tasks, events, recipients, adults, suspended, restores>>

\* Suspend and its inverse.
Suspension ==
  /\ suspended' = ~suspended
  /\ UNCHANGED <<tasks, events, recipients, adults, entitled, restores>>

\* ImportBackup takes ACCESS EXCLUSIVE locks, so no completion is open.  It
\* replaces tasks and participants, ends every consent and cancels the queue.
Restore(done, parents) ==
  /\ ~suspended
  /\ restores < MaxRestores
  /\ \A t \in Tasks : tasks[t] # "completing"
  /\ parents # {}
  /\ tasks' = [t \in Tasks |-> IF t \in done THEN "completed" ELSE "pending"]
  /\ adults' = parents
  /\ recipients' = [r \in Refs |-> NoRecipient]
  /\ events' = Cancelled(Event)
  /\ restores' = restores + 1
  /\ UNCHANGED <<entitled, suspended>>

FamilyStep ==
  \/ \E t \in Tasks : CompleteBegin(t) \/ CompleteCommit(t) \/ CompleteAbort(t)
  \/ \E e \in Event : BackoffElapses(e)
  \/ \E p \in Parents : DeactivateParent(p)
  \/ PolicyChange
  \/ Suspension
  \/ \E done \in SUBSET Tasks, parents \in SUBSET Parents : Restore(done, parents)

CoreTypeOK ==
  /\ tasks \in [Tasks -> {"pending", "completing", "completed"}]
  /\ events \in [Event -> Row]
  /\ recipients \in [Refs -> Recipient]
  /\ adults \in SUBSET Parents
  /\ entitled \in BOOLEAN
  /\ suspended \in BOOLEAN
  /\ restores \in 0 .. MaxRestores

(***************************************************************************)
(* Rows follow their tasks: a row of an open transaction belongs to a task *)
(* that is being completed now, a task that is being completed has no other*)
(* row since the last restore, and one that can be completed has none.     *)
(***************************************************************************)
RowsFollowTasks == \A e \in Event :
  /\ events[e].state = "uncommitted" => tasks[e[1]] = "completing" /\ e[3] = restores
  /\ e[3] > restores => events[e].state = "absent"
  /\ e[3] = restores /\ tasks[e[1]] = "pending" => events[e].state = "absent"
  /\ e[3] = restores /\ tasks[e[1]] = "completing" =>
       events[e].state \in {"absent", "uncommitted"}

\* Only a pending row is leased.
LeasedArePending == \A e \in Event :
  events[e].lease # NoLease => events[e].state = "pending"

CoreInv == RowsFollowTasks /\ LeasedArePending
=============================================================================
