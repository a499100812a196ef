# FamilyQuest: models, checks and proofs

FamilyQuest is a family planner: a Go service over PostgreSQL (*Core*), a gateway that
signs people in and delivers Telegram notifications (*Access*), an external identity and
Telegram provider (*Portal*) and a React client. This directory models the parts in which
several people, tablets and processes change the same rows at the same time, and says what
those changes may never do. TLC checks the models on small families; TLAPS proves the most
important statements for families of any size.

Paths below are relative to `src/backend/internal/` unless they start with another directory.

## 1. Inventory

| Component | State | Operations | What is hard, and what must hold |
| --- | --- | --- | --- |
| Notification outbox (`store/notifications.go`, `store/store.go` CompleteTask) | tables `notification_recipients`, `notification_outbox` with leases | set and revoke a recipient, claim, check, settle, complete a task, restore | lost and late settlements, expired leases, restores. A settled row is never revived; `delivered` is true |
| Outbox dispatcher and consent (`access/telegram_outbox.go`, `telegram_notifications.go`) | one worker loop, one mutex `deliveryMu`, requests in flight | dispatch a row, opt in, opt out, compensate | calls that fail on either side, crashes, opt-out against a send on its way. Nothing is sent after an acknowledged opt-out; every event is settled |
| Profiles (`store/store.go`, `store/profile.go`) | `participants` with role, PIN hash, `session_version` | create, remove, change PIN, reset, import | ids and versions come back after an import. The family keeps its owner |
| Sign-in and devices (`application/devices.go`, `login.go`, `store/devices.go`, `auth/token.go`) | signed tokens, `trusted_devices`, confirmation proofs | log in, remember, restore, confirm, manage, sign out | a check in one transaction, its use in another. Revocation is final |
| MCP grants (`store/mcp.go`, `application/mcp.go`) | `mcp_grants` | create, authenticate, revoke | the same revocations |
| Math lessons (`domain/math.go`, `store/learning.go`) | `math_sessions` (a document per lesson) | draw and validate questions, start, answer, finish | two tablets, repeats, midnight, older releases. One budget a day, nothing is lost, every lesson can be restored |
| Reading (`domain/reading.go`, `store/reading.go`) | `reading_starts` | start, complete | repeats after midnight or an import. One reward for a reading |
| Reward ledger (`domain/activity_reward.go`) | `activity_rewards`, unique by source, key and person | insert on progress | paid once, for work that was done |
| Family cards (`domain/family.go`, `application/family.go`, `store/family.go`) | `family_entries`: a versioned document with plan and events | create, edit, approve, archive, step, stage, check-in | stale screens, two transactions for one request. No work is overwritten |
| Backup (`store/backup.go`, `application/*backup.go`) | a consistent export, kept outside | export, validate, import | brings old rows back under requests on their way; what was exported must be importable |
| Task planner (`store/store.go`, `application/service.go`) | `chores`, `assignments`, `tasks`, `confirmations` | assign, generate the day's tasks, complete, confirm | plans are read for any day, in any order, while chores change. A period asks once, nothing is forgotten, the counts agree |
| Subscription and payments (`store/platform.go`, `store/access.go`) | `payments`, `service_policy`, families' status | record, refund, suspend, child limit | repeats, overlapping periods, refunds in any order, limits read before they change. Access is what was paid |
| Provisioning (`provisioning/`, `access/onboarding.go`, `store/identity.go`) | the catalogue of families and identities | register, bind, enter | one family for each identity through retries |
| SSO registry (`identity/sessions.go`, `access/sso.go`) and OIDC (`identity/oidc.go`) | sessions and revocations in memory and a file, login flows | add, delete, revoke, restart | revocation against a sign-in on its way, capacity |
| Telegram sessions (`access/telegram.go`) | sessions in memory | start, rotate, remove | rotation against removal |
| Gateway (`access/gateway.go`) | attempt counters | introspect, admit, limit, forward | a profile of Core and an account session must agree on the family |
| Browser (`src/frontend/src/application`) | token, generations, lists on the screen | restore, refresh, mutate | answers that arrive out of order |
| Ratings, catalogue, leaderboard, HTTP adapter, migrations, deployment, presentation | rows or none | single statements, queries, rendering | no interleaving of their own; not modelled |

The components meet in the database (a task and its events commit together; an import
replaces every family table under one lock), in private HTTP calls (Access to Core: claim,
check, settle, recipient, revoke, introspection; Access to Portal: consent, binding,
eligibility, send) and in signed tokens, which Core checks against the profile's current
version at every request. `PROJECT.json` lists the hazards line by line with the property
that would notice each.

## 2. Modules

```
NotificationOutbox  <-- EXTENDS --  TelegramDelivery  -- refines -->  EventLedger
                                         ^                ^
                              MCTelegramDelivery   TelegramDelivery_proofs
Profiles       <-- EXTENDS --  Sessions          <--  MCSessions, Sessions_proofs
MathQuestions  <-- EXTENDS --  LearningRewards   <--  MCLearningRewards, LearningRewards_proofs
               <--  MathQuestions_proofs          -- refines -->  ChildRecord
FamilyCards     <--  MCFamilyCards, FamilyCards_proofs     -- refines -->  AtomicCards
Subscription    <--  MCSubscription, Subscription_proofs   -- refines -->  PaidAccess
AccessSessions  <--  MCAccessSessions, AccessSessions_proofs
TaskPlanner     <--  MCTaskPlanner, TaskPlanner_proofs
```

**NotificationOutbox** is Core: tasks, parents, recipients and outbox rows, one action per
transaction. A row is named by its task, recipient and the number of restores instead of a
UUID. A lease that has expired is written `NoLease`. `ref` stands for recipient reference,
issuer and subject, which move together. `attempts` and the retry delay are reduced to
whether a row is due.

**TelegramDelivery** adds Access and Portal. The worker and the consent handler are program
counters around the shared mutex; each remote call may be answered, run with its answer
lost, or not run. The calls to Core that write (settle, record, revoke) may also run *late*,
after their caller gave up; calls to Portal never do. Subscriptions and Portal bindings are
numbered by one counter `gen`, which is also what "an earlier consent" means. `accepted`
is Portal's durable queue of event keys. Portal is external: it is modelled from the calls
in `access/telegram_portal.go` and the stand-in in `store/telegram_integration_test.go:168`.

**EventLedger** is the promise: an event is pending, then delivered, cancelled or failed,
once. `ImplementsLedger` maps rows to it.

**Profiles** is the participants table; **Sessions** the credentials issued from it. PINs
are abstracted to the `session_version` that is read in the same SELECT. Token lifetimes
and the 90 days of a device are nondeterministic ends. `Import` replaces the table by an
earlier export and raises every version, and restarts the id sequence as `resetSequences`
does.

**LearningRewards** is one child: the lock on the child's row makes children independent of
each other. A tablet's request arrives, reads under the lock (`seen` is what it read) and
then writes or is refused. Lessons of older releases may be present at the start with their
own limit. What a correct answer is worth comes from the lesson's settings (`Worth`); which
questions are asked, and whether the child is right, is left open.

**ChildRecord** is what that amounts to: no tablets, no lock, and each request one step on the
record as it is then, for today or an earlier day. The stars of an answer or a reading are not
computed there but bounded from both sides (`Fair`): the day's limit is kept, and nothing is
withheld that it leaves. The age of a start is mapped away.

**MathQuestions** is the content of a lesson without state: the settings, the stars of each
release, the numbers a question may be drawn from and the options that may be offered (random
choices are sets of outcomes), what `Validate` accepts, and the columnar work a child writes
down: digits, carries, rows and the steps of a division. A lesson's questions are not kept in
the state of `LearningRewards`, because `DrawnIsValid` shows that all of them pass validation.

**FamilyCards** is one card. A person views it, sends a change with the version on the
screen (`Load` compares it and applies the change) and the save compares once more. Guards and
results of the domain (`MayEdit`, `Edited`, `MayApprove`, `Approved`, ...) are pure operators, as
in `domain/family.go`, and `Commands` is every change of a card that the model's actions allow;
section 5 names the two that it leaves out. A new card takes two steps, as in
`application/family.go`: `Draft` validates the plan with the people who are active then (line
71), `Create` inserts what was validated and looks at nobody again (line 74), so a card may be
created for somebody who has left in between. The plan is a draft from a small set; a card's
title, texts and media are left out.

**AtomicCards** is optimistic locking as its users see it: every save is one whole command,
applied at once to the card as it is. Drafts and cards are kept apart: a draft is sound for the
people of its moment, and the card that is created is a draft as it was made (`drafts`), of which
nothing is asked again. Only people that an import left behind (`late`) may save once what their
command made of another card.

**Subscription** is one family: payments and refunds of operators, their projection in
`service_policy`, and the requests of parents that add, restore or remove children. An
operator's transaction remembers the time of its `BEGIN` (`begun`), which is PostgreSQL's
`now()`, and waits for the locks after it. `policyRow` is the lock on the policy's row; the
lock on the family's row in the catalogue is always taken before it and is not kept apart.

**PaidAccess** is the same family without operators, parents, transactions and locks: one step
per payment, refund, child and restore, on the rows as they are. A refund alone may choose the
remaining payments as of an earlier time, the time of its `BEGIN`, and end the access as of a time
since (`time.Now()`, read before the wait for the policy); section 6 says what that costs.

**AccessSessions** is one product's sign-in at Access. A request is a program counter through
the onboarding handler: look-up in the catalogue, registration, recheck, entry. `late` is a
registration whose caller has gone. The registry is `active`, `revoked` and their file `disk`;
`jar` is the browser's cookie. `told` and `ended` are history: which logouts were answered, and
what happened to a request's person while it was on its way.

**TaskPlanner** is the plan of a family. The store's transactions (`MarkCompleted`,
`RewriteChore`, `Deactivate`, ...) are kept apart from the application's handlers, which ask
who the caller is. `EnsureTasksForDate` may run for any day at any time, as every reader of a
plan calls it. `ListTasks` and `AssignedOn` translate the queries that read the tasks again, and
`Planned` the part of the week plan that goes by the days tasks are due: its daily and weekly
chores. One-time chores are not in the week plan, and its monthly ones are another count, which
`PeriodsAddUp` says nothing of (section 5).

### Correspondence with the code

Every action stands for one database transaction or one stretch of a handler between two
remote calls; what the code does in one transaction is one step and what it does in two is
two. Refusals that change nothing are guards. A request that was refused, failed or lost
returns to its idle state. The map in `PROJECT.json` gives the lines of each definition.

## 3. Runs

| Run | Bounds | Shows |
| --- | --- | --- |
| `delivery_safety` | one task, one parent, one Telegram account, two opt-ins, one restore, one fault | nothing is sent after an opt-out, settled rows stay settled, consent is kept, the ledger is implemented |
| `delivery_liveness` | the same without a restore and without symmetry | `EventSettles` under fairness |
| `sessions_credentials` | two ids and names, one revocation, one device, grant and token, one export | `RevocationIsFinal`, `VersionsCount`, `OwnerRemains`, `ChildDeviceApproved`, `ConfirmationIsCurrent` |
| `sessions_import` | two tokens, one revocation, one export | finds that `ImportRevokes` is violated (section 6) |
| `learning_day` | two tablets, two activities out of two lessons and two readings, two days, one import, all answers right | `ExportIsAccepted`, `ProgressIsKept`, `OneRewardPerReading`, `RequestsAreSerial`; before it, `WorkAssumption` on the columnar work |
| `cards_family` | a parent and a child, two plans, four versions, one removal, one import | `ApprovalIsInformed`, `HistoryIsSound`, `RewardFollowsWork`, `WorkIsKept`, `SavesAreAtomic` |
| `cards_import` | the same | finds that `DevicesOverwriteNothing` is violated (section 6) |
| `subscription_access` | two operators, two parents, two references, two moments, up to two children | `AccessIsPaid`, `ChildrenFit`, `TransactionsAreSerial`, `ReferenceIsFinal`, `OnlyWaitingRefundsTake` |
| `subscription_refund` | the same | finds that `PaidIsHonoured` is violated (section 6) |
| `access_sessions` | one person in two tabs, three families, a list of one revocation, one failed write | `OneFamilyPerIdentity`, `ScopeIsBinding`, `RevokedStaysOut`, `LogoutDuringProvisioning` |
| `access_logout` | the same | finds that `LogoutIsFinal` is violated (section 6) |
| `planner_tasks` | one chore, one person, one parent, five days with weeks of two and two months | `PeriodsAddUp` (the leaderboard for every schedule, the week plan for daily and weekly chores), `DoneOncePerPeriod`, `PlanIsComplete` |

Why the bounds suffice to see the interesting cases: an event needs one fault to be lost,
late or orphaned. A stale credential needs one issue, one revocation and one use. Where a
second fault or revocation could matter, the proofs of section 4 cover any number. Two tablets
suffice for a race because the row lock admits one request at a time and a third would wait
behind the same lock; the same goes for operators and parents around `service_policy`. Two
references are enough for overlapping terms and for a refund that must fall back on the other
payment. A list of one revocation is empty, full and full again within a few steps, and three
families let one person be given a second one if the code allowed it. Weeks of two days put
Sunday next to Monday, and a month of the plan begins in the middle of a week, which is where
weekly and monthly tasks could be counted twice. Limits are scaled (three stars a day, lessons
of two questions worth two stars each) so that a budget is exhausted in the middle of a reward,
and an older lesson exceeds it. A card of two steps
completes at its third version and has one more save for an archive, an edit or a second
approval. Only right answers are drawn in `learning_day` (`Marks = {TRUE}`): they are the
ones that use up a budget, and with wrong ones the run does not end within five minutes; the
proofs hold for any marks. Each property has a mutant of the code, under `mutants`, that breaks it within the
same bounds.

Deadlock is checked in every run but those of the cards, so no reachable state leaves all
actors waiting for each other. (In `cards_*`, once the child has left, no plan of the small
set fits a first card, and the family is at rest.) Symmetry is used in the safety runs over model values that no expression orders.

### Fairness

Only `delivery_liveness` uses any. The worker is weakly fair: `RunTelegramOutbox` restarts
its batch every five seconds for ever. Taking the mutex is strongly fair, because a
`sync.Mutex` hands itself to a waiter that was overtaken. A consent request's steps are
weakly fair since every HTTP call has a timeout. Leases and retry delays end because they
are wall-clock times. Faults are bounded: after the last one calls are answered. `EventSettles`
says nothing of an event whose family has no access any more, which the worker never visits.

## 4. Proofs

**TelegramDelivery_proofs.** `DeliveryInvariant` proves the strengthening `DeliveryInv`: rows
belong to completed tasks and carry generations below the counter (`CoreInv`); while the worker handles a row it is the only one
with that lease, the mutex excludes the consent handler, and "delivered" is only claimed for
an accepted key (`OwnInv`); a subscription is numbered after or with its binding, and what
the worker is about to send was not opted out of (`GenInv`). `NoSendAfterOptOut` alone is not
inductive: a worker that has passed its check is safe only because the mutex keeps opt-outs
away until it is done. From the invariant follow `AuditIsTruthful`, `OptOutIsFinal`,
`DenialIsFinal` and with it `ConsentIsKept` (a settlement can only disable the consent whose
binding the row carries, and a denied binding is not the live one), `EventsHappenOnce` and, with
it, `Implementation`: the whole system refines the ledger. They hold for any number of tasks,
recipients, parents, tokens, restores and faults, from the assumptions on the constants stated
in the modules.

**Sessions_proofs.** The inductive invariant is `TypeOK`, `OwnerRemains`, that a nameless
profile is empty, `VersionsCount` (a version counts the revocations of its profile, in the
table and in each credential) and that only parents act. A credential's version is at most
the profile's, so one issued before the last revocation can never be equal again:
`Revocation`. A sign-in caught in the middle of a revocation is why credentials that are
still being issued are part of the invariant. `ChildDevices` and `Confirmations` are about a
single step and follow from the type invariant and the guards that read the current row.

**MathQuestions_proofs.** `DrawnIsValid`: whatever settings are chosen, every question that
may be drawn, with every set of options that may be collected for it, passes the validation of
a backup, so a lesson that was started can be restored. `OptionsCanBeFound`: the loop that
collects wrong options does not run out of candidates. `WorkIsAlwaysRight`: the columns, carries,
partial products and steps of a division that a child is asked to write down are right, and each
fits its field. A number up to 9999 is the sum of its four digits at their places, so sums and
carries are followed place by place, and a division that is drawn takes one or two steps. All of this holds for all settings and numbers that may be drawn; TLC
evaluates the last on a sample before it runs (`WorkAssumption`).

**AccessSessions_proofs.** The invariant says that what a request relies on stands while it is
on its way (a family it found is the one its person is bound to), that every session's family
is its person's binding, and that a logout that was answered is in the list and in the file
and matches no session, or else the list is full and the registry empty: `RevokedStaysOut`.
`OneFamilyPerIdentity` follows from the first part, because a registration that was late can
only find the family that is there already. This holds for any number of people, tabs, families,
failed writes and restarts.

**LearningRewards_proofs.** Budgets are sums over sets of rewards and answers, and the fold that
computes them has no theorem to cite, so the module starts with one: a sum exists, does not
depend on the order in which elements are taken, and a new element adds its stars (by the
smallest set of numbers that has 0 and the successor of each of its members). With it, paid
answers add up to no more than the ledger says, which is what an answer is measured against:
`ExportAccepted`. The invariant is that a request under the child's lock has seen the ledger as
it is, and lessons as they are up to their end (`SeenStands`), that rewards once reported are
in the ledger (`ToldOK`: hence one for a reading, whose key is unique there), and that a
lesson that was never saved is empty. `StartsBounded` is the limit of open readings.
`SerialRequests` maps every step to `ChildRecord`: what an answer writes is `Fair` because the
sum it read under the lock is the sum when it commits, the insert of a reward never meets an
existing row (a new answer has a key beyond the answers there are), and a request's day is not
after today (`Dated`). It holds for any budgets, settings, tablets, days and imports; lessons
are a finite set.

**FamilyCards_proofs.** `ApprovalIsInformed` needs to know what a request on its way will write.
The invariant: between two imports a version names one card, so a request with the card's
version has its plan on the screen and, once loaded, is one of the `Commands` on the card as it
is, which is a `Change`: one event more at most, the same steps if there are events, and an
approval only by a parent or with the plan untouched. From this `AtomicSaves` shows that the
cards refine `AtomicCards`: between imports, no save writes the result of a command on a card
that was there before, and a card that is created is a draft that was sound when it was made.
The invariant says of a draft on its way only that it is a card at version 1 without events and
approval; who is active at the insert is no part of it. The history of every loaded card and
every backup is sound by itself (`Fit`), which is why `HistorySound` holds across imports too.
That a person's last stage is how many there are is `LastStageCounts`.

**Subscription_proofs.** Who holds the row of the policy read what is still there and counted no
fewer children than there are (`ReadsStand`). With that, a payment moves access to the end of
one payment that is not refunded (`AccessIsPaid`), children fit, references are final and only
refunds shorten a term. The moment a command began is never after the clock, so terms it finds
begun have begun, and `TypeOK` says of every recorded payment that its period had started when the
command began. `SerialTransactions` is the refinement of `PaidAccess`: what a transaction
found under the lock it would find again at its commit. Terms end at a bounded time, so of the
payments that remain after a refund one ends last, which is the one that the query's `ORDER BY`
returns (`SomeIsLongest`). `GrowthPaid` says that no request makes more children of a family than
the limit of that moment, also one that was authorised before it was lowered, `TermsAreKept` that
no payment shortens a term. `OnlyWaitingRefunds` marks out the defect of `subscription_refund`:
every step but a refund whose `BEGIN` is earlier than its commit keeps `PaidIsHonoured`.

**TaskPlanner_proofs.** The invariant is that a task of a chore that was not rescheduled is on the
day that its period asks for (`TaskDays`), and that there is nothing before the planner started.
The lemmas about the calendar behind it: a day's Monday is its own Monday, a month's start is its
own, and days of one period have one. `DoneOncePerPeriod`, `PlanIsComplete` and `PeriodsAddUp`
follow for any number of chores, people and days, and any length of weeks and months; the second
half of `PeriodsAddUp`, about the week plan, is of daily and weekly chores only.

Every invariant, action property and refinement of the passing runs is proved. Only
model-checked: the liveness property `EventSettles` (the provers have no rules for fairness)
and the four disagreements of section 6. The assumptions are those of the `ASSUME` of each module,
which TLC evaluates in the runs.

## 5. Abstractions to know of

* Only the hosted mode is modelled (families with an id): backups carry no PINs there.
* An imported backup is an export of the same family. Imports of edited files are refused or
  accepted by the same validation, but the models do not construct them.
* `CompleteTask` reads recipients without a lock, so a row can be queued for a consent that
  is being revoked; the model allows it and `NotificationAllowed` stops it.
* The write-access check before a completion is left out, which only adds behaviours.
* A batch is 30 seconds and a lease 60, so a lease that ends under a live worker counts as a
  fault.
* `Sessions` exempts ids whose profile was dropped by an import (`dropped`), `FamilyCards`
  requests that were on their way during one (`mixed`): both exemptions are the subject of a
  run of their own.
* In `FamilyCards` a request is authenticated when it arrives; an import signs its sender out
  but does not stop it. Steps and stages carry today's date; check-ins carry any date of the
  plan's `days`, which stand for those from the habit's first day on. So the date of a
  completion's reward, which is that of the latest step in the code, is that same day.
  Participants are validated as of one moment, although the code reads them one by one.
* `FamilyCards` leaves out reflection and repeat (`domain/family.go:272`), which append an event to
  a card of any kind and count toward its limit of events; they change neither plan, steps,
  approval nor reward.
* `Sessions`: the two statements of a confirmation's check (`store/devices.go:122`, `130`) are one
  step. There is one slot for a management request, so another parent's PIN change or import
  falls before or after the steps of a management request, not between them.
* `Subscription`: amounts, currencies and the audit are left out, and a payment's terms come
  from a small set. A family's row and its policy's row are one lock, since the second is only
  waited for by parents.
* `LearningRewards`: `Room` bounds the lessons and readings in the tables; `MaxBackups` the
  exports.
* `AccessSessions`: state, nonce and the provider's messages of the login are left out, and a
  person has sessions with a `sid`. `AddFor` and the `Delete` of the old cookie are one step
  with both outcomes of the second write; so are Core's check that the family is active and
  `AddFor` on entry. An expired session is absent. A revocation lapses only after the sessions
  older than it. A logout that found the list full is not recorded: it protects only while the
  list is full. Operators suspend only families that a person of the model is bound to
  (`Watched`).
* `TaskPlanner`: a statement is one step and reads one snapshot. Ratings and stars are left out,
  and so are imports; the owner of a task, which only an import changes, is read together with the
  confirmation (`application/service.go:252` reads it before).
  Properties speak of chores whose schedule was never changed, because `docs/architecture.md:65`
  says that an edit does not keep the history. Of the week plan `PeriodsAddUp` and its theorem speak
  of daily and weekly chores only: monthly chores are counted by the time of completion
  (`monthly_done`, `store/store.go:631`) with one as planned, and two months' tasks done in one
  week show as two of one. No document promises otherwise, so this is an exclusion, not a finding.

## 6. Where the code and its documentation disagree

* `sessions_import`: `docs/architecture.md:41` says an import revokes old sessions. It raises
  the version of every profile in the backup, but a profile that the backup leaves out is
  dropped, its id is handed out again, and the new profile starts at version 0, the version
  old tokens of the id may carry.
* `cards_import`: the comment at `domain/family.go:12` says concurrent devices cannot
  overwrite work. An import restores a card's old version number; a request that read the
  same number before the import then passes the comparison on different content.
* `subscription_refund`: `docs/saas-architecture.md:74` says a refund recalculates access from
  the remaining current payments. The refund compares with `now()`, the time of its `BEGIN`
  (`store/platform.go:603`); a payment recorded while it waited for the family's row, and
  starting after that time, is overlooked and the family loses access it has paid for.
* `access_logout`: the comment at `access/onboarding.go:104` says a logout during provisioning
  must not establish a new session. When the family exists already, or after the recheck, the
  onboarding session is not looked up again: a sign-out of the browser in that window is
  followed by a new session and its cookie. `LogoutDuringProvisioning` shows the part that holds.
* How far each of these reaches is proved, and checked by the passing runs: only profiles that an
  import dropped keep old sessions (`Revocation`), only people an import left behind overwrite a
  card (`AtomicSaves`), only a refund that waited takes paid access (`OnlyWaitingRefunds`), and a
  logout while the family is being created does stop the request (`LogoutDuringProvisioning`).
* Noted in passing: `docs/sso.md:40` speaks of 30 days for a revocation, `identity/sessions.go:98`
  keeps 60. A family connected with unlimited access (`access_until` null) gets a term with its
  first payment, because `store/platform.go:431` compares only terms that exist.
* Noted in passing: `docs/architecture.md:173` places the opted-in recipients in a private
  file of Access, while the code keeps them in Core's database.

## 7. Plan

1. Delivery, profiles and sessions, learning rewards and the content of lessons, family cards,
   subscription, registry and provisioning, task planner: modelled and proved. Delivery, lessons,
   cards and subscription also refine an abstract specification; the same is open for
   `AccessSessions` (one binding per identity, set once) and `Sessions` (a credential stands from
   its issue to the next revocation).
2. Telegram sessions (`access/telegram.go`): a choice of family rotates the cookie in one lock
   acquisition, a sign-out looks the session up in one and removes it in another.
3. Browser session and data hooks: answers out of order.
4. Ratings, reward catalogue, sport cards.
