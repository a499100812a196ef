----------------------------- MODULE FamilyCards -----------------------------
(***************************************************************************)
(* One family activity card (a row of family_entries): an adventure, a     *)
(* child's proposal, a skill or a habit, with its plan, its history of     *)
(* events and the rewards its progress earns.                              *)
(*                                                                         *)
(* A card is made from a draft: its participants are looked up, and it is  *)
(* inserted later, in a transaction that does not look at them again.      *)
(* A person looks at the card, then sends an edit or a command with the    *)
(* version that was on the screen.  The use case loads the card, compares  *)
(* the version, applies the change, and saves in a later transaction that  *)
(* compares the version once more.  Others do the same meanwhile, and a    *)
(* parent may import a backup, which brings old versions back.             *)
(***************************************************************************)
EXTENDS SequencesExt

CONSTANTS
  Parents, Children,
  Anyone,        \* a step that nobody in particular has to do
  Plans,         \* drafts: [steps : Seq(People or Anyone), people, days]; days are
                 \* the dates, from its start on, that a habit is for
  Dates, Today,  \* the days a check-in may name; steps and stages name today
  Stages,        \* the last stage of a skill
  MaxEvents,     \* events a card may hold
  MaxVersion,    \* bound: saves of a card
  MaxImports     \* bound: exports, and imports

People == Parents \cup Children

ASSUME CardsAssumption ==
  /\ Parents # {} /\ Parents \cap Children = {} /\ Anyone \notin People /\ Plans # {}
  /\ Plans \subseteq [steps : Seq(People \cup {Anyone}), people : SUBSET People, days : SUBSET Dates]
  /\ Today \in Dates /\ Stages \in Nat /\ MaxEvents \in Nat /\ MaxVersion \in Nat /\ MaxImports \in Nat

VARIABLES
  card,        \* the row; version 0 before it is created
  ledger,      \* activity_rewards of this card
  active,      \* people who have not been removed from the family
  requests,    \* what each person has on the screen and on its way
  backups,
  agreed,      \* history: the plan the parents agreed to, as they saw or wrote it
  imports,     \* history: how many imports there have been
  mixed        \* history: a request from before an import was saved after it

vars == <<card, ledger, active, requests, backups, agreed, imports, mixed>>

Kinds == {"adventure", "proposal", "skill", "habit"}
Event == [kind : {"step", "stage", "checkin"}, actor : People, step : Nat, date : Dates]
Card == [version : Nat, kind : Kinds, author : People, archived : BOOLEAN,
         approved : BOOLEAN, plan : Plans, events : Seq(Event)]
Reward == [source : {"adventure", "habit"}, person : People, date : Dates]
\* The version and plan on the screen, how many imports there had been when it
\* was filled, and the card as drafted, or loaded and changed, for SaveFamilyEntry.
Request == [pc : {"idle", "drafted", "viewing", "loaded"}, version : Nat, plan : Plans,
            since : Nat, next : Card]

NoPlan == CHOOSE x \in Plans : TRUE
NoCard == [version |-> 0, kind |-> "skill", author |-> CHOOSE p \in People : TRUE,
           archived |-> FALSE, approved |-> FALSE, plan |-> NoPlan, events |-> <<>>]
Idle == [pc |-> "idle", version |-> 0, plan |-> NoPlan, since |-> 0, next |-> NoCard]

Init ==
  /\ card = NoCard /\ ledger = {} /\ active = People
  /\ requests = [p \in People |-> Idle]
  /\ backups = {} /\ agreed = NoPlan /\ imports = 0 /\ mixed = FALSE

-----------------------------------------------------------------------------
CanEdit(p, e) == p \in Parents \/ e.author = p

\* FamilyEntry.Validate: the parts about the kind, the plan and the history.
FitsKind(kind, plan) ==
  /\ kind \in {"adventure", "proposal"} => plan.steps # <<>>
  /\ kind = "habit" => plan.days # {}

Assignees(plan) == {plan.steps[i] : i \in DOMAIN plan.steps} \ {Anyone}

Validate(e) ==
  /\ FitsKind(e.kind, e.plan)
  /\ e.plan.people = {} \/ Assignees(e.plan) \subseteq e.plan.people
  /\ \A i \in DOMAIN e.events :
       e.events[i].kind = "step" => e.events[i].step \in DOMAIN e.plan.steps

\* validateFamilyParticipants: everybody on the plan is active when it asks.
ParticipantsAreActive(e, people) == e.plan.people \cup Assignees(e.plan) \subseteq people

StepDone(e, n) == \E i \in DOMAIN e.events : e.events[i].kind = "step" /\ e.events[i].step = n
Complete(e) == e.plan.steps # <<>> /\ \A n \in DOMAIN e.plan.steps : StepDone(e, n)
CheckedIn(e, p, d) ==
  \E i \in DOMAIN e.events :
    e.events[i].kind = "checkin" /\ e.events[i].actor = p /\ e.events[i].date = d
StagesOf(e, p) == {i \in DOMAIN e.events : e.events[i].kind = "stage" /\ e.events[i].actor = p}
LastStage(e, p) == Max({0} \cup {e.events[i].step : i \in StagesOf(e, p)})

\* FamilyRewardCandidates: what the new progress of a saved card earns.
CheckInRewards(before, after) ==
  {[source |-> "habit", person |-> after.events[i].actor, date |-> after.events[i].date] :
     i \in {j \in DOMAIN after.events \ DOMAIN before.events :
              after.events[j].kind = "checkin" /\ after.events[j].date \in after.plan.days}}

CompletionRewards(after) ==
  LET steps == {i \in DOMAIN after.events : after.events[i].kind = "step"}
      doers == {after.events[i].actor : i \in steps}
  IN {[source |-> "adventure", person |-> p, date |-> Today] :
        p \in IF after.plan.people = {} THEN doers ELSE after.plan.people}

\* Mutant: the branch of the approved proposals is missing.
RewardsForAdventuresOnly(before, after) ==
  IF after.archived THEN {}
  ELSE IF after.kind = "habit" THEN CheckInRewards(before, after)
  ELSE IF after.kind = "adventure" /\ ~Complete(before) /\ Complete(after)
       THEN CompletionRewards(after)
  ELSE {}

RewardCandidates(before, after) ==
  IF after.archived THEN {}
  ELSE IF after.kind = "habit" THEN CheckInRewards(before, after)
  ELSE IF /\ after.kind = "adventure" \/ (after.kind = "proposal" /\ after.approved)
          /\ ~Complete(before) /\ Complete(after) THEN CompletionRewards(after)
  ELSE {}

\* insertActivityReward: active people only.  A row's unique key names the card
\* and, for a habit, the day, so a reward paid before is the row already there.
Insert(rewards) == ledger \cup {r \in rewards : r.person \in active}

-----------------------------------------------------------------------------
(* What a person may make of a card.                                       *)

\* CreateFamilyEntry: a child's adventure is a proposal.
NewCard(p, kind, plan) ==
  [NoCard EXCEPT !.version = 1, !.author = p, !.plan = plan,
     !.kind = IF kind = "adventure" /\ p \in Children THEN "proposal" ELSE kind]

\* Mutant: steps may be edited after work has started.
StepsMayAlwaysChange(e, plan) == TRUE
StepsMayChange(e, plan) == e.events = <<>> \/ plan.steps = e.plan.steps
\* Mutant: the author's edit leaves the approval.
ApprovalSurvivesEdit(p, e) == e.approved
ApprovalAfterEdit(p, e) == e.approved /\ (e.kind = "proposal" => p \in Parents)

\* EditFamilyEntry
Edited(p, e, plan) == [e EXCEPT !.plan = plan, !.approved = ApprovalAfterEdit(p, e)]
MayEdit(p, e, plan) ==
  /\ CanEdit(p, e) /\ ~e.archived
  /\ StepsMayChange(e, plan)
  /\ Validate(Edited(p, e, plan))

\* ApplyFamilyCommand: archive and restore, approve.
Archived(e, archived) == [e EXCEPT !.archived = archived]
MayApprove(p, e) == p \in Parents /\ e.kind = "proposal" /\ ~e.archived
Approved(e) == [e EXCEPT !.approved = TRUE]

\* Mutant: the limit is compared with > instead of >=.
HasRoomForOneMore(e) == Len(e.events) <= MaxEvents
HasRoom(e) == Len(e.events) < MaxEvents

\* ApplyFamilyCommand: an event, unless it has been recorded already, in which
\* case the card is saved as it is.
MayProgress(p, e) ==
  /\ ~e.archived /\ (e.kind = "proposal" => e.approved)
  /\ e.plan.people = {} \/ p \in e.plan.people
  /\ HasRoom(e)
Recorded(e, event, already) == IF already THEN e ELSE [e EXCEPT !.events = Append(@, event)]

MayCheckIn(p, e) == e.kind = "habit" /\ MayProgress(p, e)
WithCheckIn(p, e, d) ==
  Recorded(e, [kind |-> "checkin", actor |-> p, step |-> 0, date |-> d], CheckedIn(e, p, d))

StepIsOpen(p, e, n) == e.plan.steps[n] \in {Anyone, p}
MayStep(p, e, n) ==
  /\ e.kind \in {"adventure", "proposal"} /\ n \in DOMAIN e.plan.steps
  /\ StepIsOpen(p, e, n) /\ MayProgress(p, e)
WithStep(p, e, n) ==
  Recorded(e, [kind |-> "step", actor |-> p, step |-> n, date |-> Today], StepDone(e, n))

MayStage(p, e, n) ==
  e.kind = "skill" /\ n = LastStage(e, p) + 1 /\ n <= Stages /\ MayProgress(p, e)
WithStage(p, e, n) ==
  Recorded(e, [kind |-> "stage", actor |-> p, step |-> n, date |-> Today], FALSE)

-----------------------------------------------------------------------------
\* CreateFamilyEntry: the card is made and validated, its participants with it.
\* Another draft at that time is another card.
Draft(p, kind, plan) ==
  LET e == NewCard(p, kind, plan) IN
  /\ card.version = 0 /\ p \in active /\ \A q \in People : requests[q].pc = "idle"
  /\ Validate(e) /\ ParticipantsAreActive(e, active)
  /\ requests' = [requests EXCEPT ![p] = [Idle EXCEPT !.pc = "drafted", !.next = e]]
  /\ UNCHANGED <<card, ledger, active, backups, agreed, imports, mixed>>

\* SaveFamilyEntry inserts it, whoever has left since.
Create(p) ==
  LET e == requests[p].next IN
  /\ requests[p].pc = "drafted" /\ card.version = 0
  /\ card' = e /\ ledger' = Insert(RewardCandidates(card, e))
  /\ requests' = [requests EXCEPT ![p] = Idle]
  /\ UNCHANGED <<active, backups, agreed, imports, mixed>>

\* ListFamilyEntries, into the screen of one person, who then sends a request.
\* It is authenticated on arrival: a later removal or import signs its sender
\* out but does not stop it.
View(p) ==
  /\ card.version > 0 /\ p \in active /\ requests[p].pc \in {"idle", "viewing"}
  /\ requests' = [requests EXCEPT ![p] =
       [Idle EXCEPT !.pc = "viewing", !.version = card.version, !.plan = card.plan, !.since = imports]]
  /\ UNCHANGED <<card, ledger, active, backups, agreed, imports, mixed>>

SeesCurrent(p) == requests[p].version = card.version

\* GetFamilyEntry, the comparison with the version on the screen, the change.
Load(p, e) ==
  /\ requests[p].pc = "viewing"
  /\ card.version > 0 /\ SeesCurrent(p)
  /\ requests' = [requests EXCEPT ![p].pc = "loaded", ![p].next = e]
  /\ UNCHANGED <<card, ledger, active, backups, agreed, imports, mixed>>

Edit(p, plan) ==
  /\ MayEdit(p, card, plan) /\ ParticipantsAreActive(Edited(p, card, plan), active)
  /\ Load(p, Edited(p, card, plan))
Archive(p, archived) == CanEdit(p, card) /\ Load(p, Archived(card, archived))
Approve(p) == MayApprove(p, card) /\ Load(p, Approved(card))
CheckIn(p, d) == MayCheckIn(p, card) /\ Load(p, WithCheckIn(p, card, d))
Step(p, n) == MayStep(p, card, n) /\ Load(p, WithStep(p, card, n))
Stage(p, n) == MayStage(p, card, n) /\ Load(p, WithStage(p, card, n))

\* Mutant: the update does not compare the version again.
RowMayHaveChanged(r) == TRUE
RowIsUnchanged(r) == card.version = r.next.version

\* What a saved change says of the parents' agreement to the plan.
AgreedAfter(p, r) ==
  CASE p \in Parents /\ r.next.plan # r.plan -> r.next.plan
    [] p \in Parents /\ r.next.approved /\ ~card.approved -> r.plan
    [] OTHER -> agreed

\* SaveFamilyEntry: the row is locked and compared once more.
Save(p) ==
  LET r == requests[p] IN
  /\ r.pc = "loaded" /\ card.version > 0 /\ RowIsUnchanged(r) /\ card.version < MaxVersion
  /\ card' = [r.next EXCEPT !.version = card.version + 1]
  /\ ledger' = Insert(RewardCandidates(card, r.next))
  /\ agreed' = AgreedAfter(p, r) /\ mixed' = (mixed \/ r.since # imports)
  /\ requests' = [requests EXCEPT ![p] = Idle]
  /\ UNCHANGED <<active, backups, imports>>

\* The version moved between the two transactions, or the request is lost.
Refuse(p) ==
  /\ requests[p].pc \in {"drafted", "loaded"}
  /\ requests' = [requests EXCEPT ![p] = Idle]
  /\ UNCHANGED <<card, ledger, active, backups, agreed, imports, mixed>>

-----------------------------------------------------------------------------
\* A child leaves the family; the card keeps naming them.
Leave(p) ==
  /\ p \in Children \cap active
  /\ active' = active \ {p}
  /\ UNCHANGED <<card, ledger, requests, backups, agreed, imports, mixed>>

Export ==
  /\ card.version > 0 /\ Cardinality(backups) < MaxImports
  /\ backups' = backups \cup
       {[card |-> card, ledger |-> ledger, active |-> active, agreed |-> agreed]}
  /\ UNCHANGED <<card, ledger, active, requests, agreed, imports, mixed>>

\* ImportBackup inserts the card with the version of the backup.
Import(b) ==
  /\ imports < MaxImports
  /\ card' = b.card /\ ledger' = b.ledger /\ active' = b.active /\ agreed' = b.agreed
  /\ imports' = imports + 1
  /\ UNCHANGED <<requests, backups, mixed>>

Next ==
  \/ \E p \in People :
       \/ \E plan \in Plans : Edit(p, plan) \/ \E kind \in Kinds : Draft(p, kind, plan)
       \/ Create(p) \/ View(p) \/ Approve(p) \/ Save(p) \/ Refuse(p) \/ Leave(p)
       \/ \E archived \in BOOLEAN : Archive(p, archived)
       \/ \E d \in Dates : CheckIn(p, d)
       \/ \E n \in 1 .. MaxEvents : Step(p, n) \/ Stage(p, n)
  \/ Export \/ \E b \in backups : Import(b)

Spec == Init /\ [][Next]_vars

-----------------------------------------------------------------------------
TypeOK ==
  /\ card \in Card /\ Len(card.events) <= MaxEvents /\ ledger \subseteq Reward /\ active \subseteq People
  /\ requests \in [People -> Request]
  /\ backups \subseteq [card : Card, ledger : SUBSET Reward, active : SUBSET People, agreed : Plans]
  /\ agreed \in Plans /\ imports \in Nat /\ mixed \in BOOLEAN

\* An approved proposal has the plan that a parent read before approving it or
\* wrote into it: no edit by its author slips under an approval on its way
\* (unless a request crossed an import: see DevicesOverwriteNothing).
ApprovalIsInformed == ~mixed /\ card.kind = "proposal" /\ card.approved => agreed = card.plan

\* The history fits the plan whatever was edited around it: a step was done
\* once, by the one it is assigned to; a person's stages are consecutive; a
\* person checked in once for a day.
HistoryIsSound ==
  \A i \in DOMAIN card.events :
    LET e == card.events[i] IN
    /\ e.kind = "step" =>
         /\ e.step \in DOMAIN card.plan.steps /\ card.plan.steps[e.step] \in {Anyone, e.actor}
         /\ \A j \in 1 .. i - 1 : card.events[j].kind = "step" => card.events[j].step # e.step
    /\ e.kind = "stage" => e.step = Cardinality({j \in StagesOf(card, e.actor) : j <= i})
    /\ e.kind = "checkin" =>
         \A j \in 1 .. i - 1 :
           card.events[j].kind = "checkin" /\ card.events[j].actor = e.actor =>
             card.events[j].date # e.date

\* Rewards and work go together: a habit pays for days that were checked in, an
\* adventure pays only when all its steps are done, and a finished
\* adventure has paid somebody unless a person had been removed (again, unless
\* a request crossed an import).
RewardFollowsWork == mixed \/
  /\ \A r \in ledger :
       /\ r.source = "habit" => CheckedIn(card, r.person, r.date)
       /\ r.source = "adventure" => Complete(card)
  /\ card.kind \in {"adventure", "proposal"} /\ Complete(card) => ledger # {} \/ active # People

Saves(p) == requests[p].pc = "loaded" /\ requests'[p].pc # "loaded"
OverwritesNothing(p) ==
  /\ IsPrefix(card.events, card'.events)
  /\ card'.plan # card.plan => requests[p].plan = card.plan

\* A save only adds to the history, and it replaces a plan only if its author
\* had that plan on the screen, however many people change the card at once.
WorkIsKept ==
  [][\A p \in People : Saves(p) /\ requests[p].since = imports => OverwritesNothing(p)]_vars

-----------------------------------------------------------------------------
(* Every save is one command, applied at once.                             *)

\* What a person of this family may draft, and what a command may make of a card.
Creates(p, people, e) ==
  /\ p \in people /\ Validate(e) /\ ParticipantsAreActive(e, people)
  /\ \E kind \in Kinds, plan \in Plans : e = NewCard(p, kind, plan)
Commands(p, e, n) ==
  \/ \E plan \in Plans : MayEdit(p, e, plan) /\ n = Edited(p, e, plan)
  \/ \E archived \in BOOLEAN : CanEdit(p, e) /\ n = Archived(e, archived)
  \/ MayApprove(p, e) /\ n = Approved(e)
  \/ \E d \in Dates : MayCheckIn(p, e) /\ n = WithCheckIn(p, e, d)
  \/ \E i \in 1 .. MaxEvents : \/ MayStep(p, e, i) /\ n = WithStep(p, e, i)
                               \/ MayStage(p, e, i) /\ n = WithStage(p, e, i)

Drafts == [p \in People |-> IF requests[p].pc = "drafted" THEN requests[p].next ELSE NoCard]

\* Whose screen or request is from before the last import.
Late ==
  {p \in People : requests[p].pc \in {"viewing", "loaded"} /\ requests[p].since # imports}

Atomic == INSTANCE AtomicCards WITH
  Rewards <- RewardCandidates, drafts <- Drafts, late <- Late,
  snapshots <- {[card |-> b.card, ledger |-> b.ledger, active |-> b.active] : b \in backups}

\* Comparing the version on the screen when the card is loaded, and once more
\* under the lock when it is saved, makes each save one whole command of the card
\* as it is then, which the rules allow and the rewards go with; only somebody
\* whose request crossed an import may do otherwise, and once for an import.  A new
\* card is the one that was drafted for the family of that moment, who may have left.
SavesAreAtomic == Atomic!Spec

\* The comment above FamilyEntry says this of all devices: "saved together with
\* optimistic locking, so concurrent devices cannot overwrite work".  It fails
\* for a request that was authenticated before an import.
DevicesOverwriteNothing == [][\A p \in People : Saves(p) => OverwritesNothing(p)]_vars
=============================================================================
