------------------------- MODULE FamilyCards_proofs -------------------------
(***************************************************************************)
(* For any family, plans and numbers of saves: a card's history fits its   *)
(* plan, an approved plan is one that the parents agreed to, rewards       *)
(* follow the work and a save takes nothing back.                          *)
(*                                                                         *)
(* The invariant behind it: a version names one card until an import, so   *)
(* what a request that still has the version of the card will write is a   *)
(* change of the card as it is.                                            *)
(***************************************************************************)
EXTENDS FamilyCards, FiniteSetTheorems, WellFoundedInduction, TLAPS

-----------------------------------------------------------------------------
(* The invariant.                                                          *)

\* HistoryIsSound, of any card.
StepsSound(e) ==
  \A i \in DOMAIN e.events : e.events[i].kind = "step" =>
    /\ e.events[i].step \in DOMAIN e.plan.steps
    /\ e.plan.steps[e.events[i].step] \in {Anyone, e.events[i].actor}
    /\ \A j \in 1 .. i - 1 : e.events[j].kind = "step" => e.events[j].step # e.events[i].step
StagesUntil(e, p, i) == {j \in StagesOf(e, p) : j <= i}
StagesSound(e) ==
  \A i \in DOMAIN e.events : e.events[i].kind = "stage" =>
    e.events[i].step = Cardinality(StagesUntil(e, e.events[i].actor, i))
CheckInsSound(e) ==
  \A i \in DOMAIN e.events : e.events[i].kind = "checkin" =>
    \A j \in 1 .. i - 1 :
      e.events[j].kind = "checkin" /\ e.events[j].actor = e.events[i].actor =>
        e.events[j].date # e.events[i].date

\* A card that may be saved or imported.
Fit(e) == /\ e \in Card /\ Len(e.events) <= MaxEvents
          /\ StepsSound(e) /\ StagesSound(e) /\ CheckInsSound(e)

\* ApprovalIsInformed and RewardFollowsWork, of any card with its rewards.
Informed(e, plan) == e.kind = "proposal" /\ e.approved => plan = e.plan
Follows(e, rows, people) ==
  /\ \A r \in rows : /\ r.source = "habit" => CheckedIn(e, r.person, r.date)
                     /\ r.source = "adventure" => Complete(e)
  /\ e.kind \in {"adventure", "proposal"} /\ Complete(e) => rows # {} \/ people # People

\* The history of n is that of e with one more event at most.
Longer(e, n) ==
  \/ n.events = e.events
  \/ /\ Len(n.events) = Len(e.events) + 1
     /\ \A i \in DOMAIN e.events : n.events[i] = e.events[i]
     /\ n.plan = e.plan /\ ~n.archived /\ (n.kind = "proposal" => n.approved)

\* What p may make of the card e.
Change(p, e, n) ==
  /\ n.version = e.version /\ n.kind = e.kind
  /\ e.events = <<>> \/ n.plan.steps = e.plan.steps
  /\ Longer(e, n)
  /\ n.kind = "proposal" /\ n.approved => p \in Parents \/ (e.approved /\ n.plan = e.plan)
  /\ n.approved => e.approved \/ n.plan = e.plan

\* A request from after the last import that has the version of the card has its
\* plan too, and is a command of its sender on the card as it is.
Current(p) ==
  /\ requests[p].version <= card.version
  /\ requests[p].version = card.version =>
       /\ requests[p].plan = card.plan
       /\ requests[p].pc = "loaded" => Commands(p, card, requests[p].next)
Fresh(e) == e \in Card /\ e.version = 1 /\ e.events = <<>> /\ ~e.approved
Sent(p) ==
  /\ requests[p].since <= imports /\ requests[p].version >= 1
  /\ requests[p].pc = "loaded" =>
       Fit(requests[p].next) /\ requests[p].next.version = requests[p].version
  /\ requests[p].since = imports => Current(p)
RequestOK(p) == /\ requests[p].pc = "drafted" => Fresh(requests[p].next)
                /\ requests[p].pc \in {"viewing", "loaded"} => Sent(p)
RequestsOK == \A p \in People : RequestOK(p)

CardOK == /\ Fit(card) /\ (card.version = 0 => ledger = {})
          /\ ~mixed => Informed(card, agreed) /\ Follows(card, ledger, active)
BackupsOK == \A b \in backups :
  /\ Fit(b.card) /\ b.card.version >= 1
  /\ ~mixed => Informed(b.card, b.agreed) /\ Follows(b.card, b.ledger, b.active)

Inv == TypeOK /\ CardOK /\ RequestsOK /\ BackupsOK

-----------------------------------------------------------------------------
(* Histories.                                                              *)

LEMMA Largest ==
  ASSUME NEW n \in Nat, NEW S \in SUBSET (1 .. n), S # {}
  PROVE  \E m \in S : \A j \in S : j <= m
<1> DEFINE D == {n - j : j \in S}
<1>1. D \in SUBSET Nat /\ D # {}
  <2>1. ASSUME NEW j \in S PROVE n - j \in Nat
    <3>1. j \in 1 .. n
      OBVIOUS
    <3> QED BY <3>1
  <2>2. PICK j \in S : TRUE
    OBVIOUS
  <2>3. n - j \in D
    OBVIOUS
  <2> QED BY <2>1, <2>3
<1>2. PICK x \in D : \A y \in D : ~ (<<y, x>> \in OpToRel(<, Nat))
  BY <1>1, NatLessThanWellFounded, WFMin
<1>3. \A y \in D : ~ (y < x)
  BY <1>1, <1>2 DEF OpToRel
<1>4. PICK m \in S : x = n - m
  OBVIOUS
<1>5. ASSUME NEW j \in S PROVE j <= m
  <2>1. n - j \in D
    OBVIOUS
  <2>2. ~ (n - j < n - m)
    BY <1>3, <1>4, <2>1
  <2> QED BY <2>2
<1> QED BY <1>5

LEMMA CardIs ==
  ASSUME NEW e \in Card
  PROVE  /\ e.version \in Nat /\ e.kind \in Kinds /\ e.author \in People /\ e.plan \in Plans
         /\ e.approved \in BOOLEAN /\ e.archived \in BOOLEAN
         /\ e.events \in Seq(Event) /\ Len(e.events) \in Nat
         /\ DOMAIN e.events = 1 .. Len(e.events)
         /\ \A i \in DOMAIN e.events : e.events[i] \in Event /\ e.events[i].step \in Nat
<1>1. e.events \in Seq(Event)
  BY DEF Card
<1>2. PICK q \in Seq(Event) : q = e.events
  BY <1>1
<1>3. Len(q) \in Nat /\ DOMAIN q = 1 .. Len(q) /\ \A i \in DOMAIN q : q[i] \in Event
  OBVIOUS
<1>4. \A i \in DOMAIN q : q[i].step \in Nat
  BY <1>3 DEF Event
<1> QED BY <1>2, <1>3, <1>4 DEF Card

\* The stages of a person are numbered from 1: the last one is how many there are.
LEMMA LastStageCounts ==
  ASSUME NEW e, Fit(e), NEW p
  PROVE  /\ LastStage(e, p) = Cardinality(StagesOf(e, p))
         /\ IsFiniteSet(StagesOf(e, p)) /\ Cardinality(StagesOf(e, p)) \in Nat
<1> DEFINE S == StagesOf(e, p)
           T == {0} \cup {e.events[i].step : i \in S}
           c == Cardinality(S)
<1>1. /\ e \in Card /\ Len(e.events) \in Nat /\ DOMAIN e.events = 1 .. Len(e.events)
      /\ \A i \in DOMAIN e.events : e.events[i].step \in Nat
  BY CardIs DEF Fit
<1>2. S \in SUBSET (1 .. Len(e.events)) /\ IsFiniteSet(1 .. Len(e.events))
  BY <1>1, FS_Interval DEF StagesOf
<1>3. IsFiniteSet(S) /\ c \in Nat
  BY <1>2, FS_Subset, FS_CardinalityType
<1>4. ASSUME NEW i \in S
      PROVE  e.events[i].step = Cardinality(StagesUntil(e, p, i)) /\ e.events[i].step <= c
  <2>1. e.events[i].step = Cardinality(StagesUntil(e, p, i))
    BY DEF StagesOf, Fit, StagesSound
  <2>2. StagesUntil(e, p, i) \subseteq S
    BY DEF StagesUntil
  <2>3. Cardinality(StagesUntil(e, p, i)) <= c
    BY <1>3, <2>2, FS_Subset
  <2> QED BY <2>1, <2>3
<1>5. c \in T
  <2>1. CASE S = {}
    BY <2>1, FS_EmptySet
  <2>2. CASE S # {}
    <3>1. PICK m \in S : \A j \in S : j <= m
      BY <1>1, <1>2, <2>2, Largest
    <3>2. StagesUntil(e, p, m) = S
      BY <3>1 DEF StagesUntil
    <3>3. e.events[m].step = c
      BY <1>4, <3>2
    <3> QED BY <3>3
  <2> QED BY <2>1, <2>2
<1>6. \A y \in T : y \in Nat /\ y <= c
  BY <1>1, <1>2, <1>3, <1>4
<1> HIDE DEF c, T, S
<1>7. Max(T) = c
  <2>1. Max(T) \in T /\ \A y \in T : Max(T) >= y
    BY <1>3, <1>5, <1>6 DEF Max
  <2>2. PICK x \in T : x = Max(T) /\ \A y \in T : x >= y
    BY <2>1
  <2>3. x >= c /\ x <= c /\ x \in Nat
    BY <1>5, <1>6, <2>2
  <2> QED BY <1>3, <2>2, <2>3
<1> QED BY <1>3, <1>7 DEF LastStage, c, T, S

\* n is the card e with the event x at its end.
Added(e, n, x) ==
  /\ n \in Card /\ n.plan = e.plan /\ n.kind = e.kind /\ n.version = e.version
  /\ n.approved = e.approved /\ n.archived = e.archived
  /\ DOMAIN n.events = DOMAIN e.events \cup {Len(e.events) + 1}
  /\ Len(n.events) = Len(e.events) + 1
  /\ n.events[Len(e.events) + 1] = x
  /\ \A i \in DOMAIN e.events : n.events[i] = e.events[i]

LEMMA AppendAdds ==
  ASSUME NEW e \in Card, NEW x \in Event
  PROVE  Added(e, [e EXCEPT !.events = Append(e.events, x)], x)
<1>1. PICK q \in Seq(Event) : q = e.events
  BY CardIs
<1>2. PICK z \in Seq(Event) : z = Append(q, x)
  <2>1. Append(q, x) \in Seq(Event)
    OBVIOUS
  <2> QED BY <2>1
<1>3. Len(z) = Len(q) + 1 /\ z[Len(q) + 1] = x /\ \A i \in DOMAIN q : z[i] = q[i]
  BY <1>2
<1>4. DOMAIN z = DOMAIN q \cup {Len(q) + 1}
  BY <1>3
<1> DEFINE n == [e EXCEPT !.events = z]
<1>5. n \in Card /\ n.events = z /\ n.plan = e.plan /\ n.kind = e.kind /\ n.version = e.version
      /\ n.approved = e.approved /\ n.archived = e.archived
  BY DEF Card
<1> HIDE DEF n
<1>6. Added(e, n, x)
  BY <1>1, <1>3, <1>4, <1>5 DEF Added
<1> QED BY <1>1, <1>2, <1>6 DEF n

LEMMA StepsAdded ==
  ASSUME NEW e, Fit(e), NEW n, NEW x, Added(e, n, x),
         x.kind = "step" => /\ x.step \in DOMAIN e.plan.steps
                            /\ e.plan.steps[x.step] \in {Anyone, x.actor}
                            /\ ~StepDone(e, x.step)
  PROVE  StepsSound(n)
<1> DEFINE l == Len(e.events)
<1>1. l \in Nat /\ DOMAIN e.events = 1 .. l /\ StepsSound(e)
  BY CardIs DEF Fit
<1>2. /\ n.plan = e.plan /\ DOMAIN n.events = DOMAIN e.events \cup {l + 1}
      /\ n.events[l + 1] = x /\ \A i \in DOMAIN e.events : n.events[i] = e.events[i]
  BY DEF Added
<1> HIDE DEF l
<1> SUFFICES ASSUME NEW i \in DOMAIN n.events, n.events[i].kind = "step"
             PROVE  /\ n.events[i].step \in DOMAIN n.plan.steps
                    /\ n.plan.steps[n.events[i].step] \in {Anyone, n.events[i].actor}
                    /\ \A j \in 1 .. i - 1 :
                         n.events[j].kind = "step" => n.events[j].step # n.events[i].step
  BY DEF StepsSound
<1>3. CASE i = l + 1
  <2>1. \A j \in 1 .. i - 1 : j \in DOMAIN e.events /\ n.events[j] = e.events[j]
    BY <1>1, <1>2, <1>3
  <2> QED BY <1>2, <1>3, <2>1 DEF StepDone
<1>4. CASE i \in DOMAIN e.events
  <2>1. \A j \in 1 .. i - 1 : j \in DOMAIN e.events /\ n.events[j] = e.events[j]
    BY <1>1, <1>2, <1>4
  <2> QED BY <1>1, <1>2, <1>4, <2>1 DEF StepsSound
<1> QED BY <1>2, <1>3, <1>4

LEMMA CheckInsAdded ==
  ASSUME NEW e, Fit(e), NEW n, NEW x, Added(e, n, x),
         x.kind = "checkin" => ~CheckedIn(e, x.actor, x.date)
  PROVE  CheckInsSound(n)
<1> DEFINE l == Len(e.events)
<1>1. l \in Nat /\ DOMAIN e.events = 1 .. l /\ CheckInsSound(e)
  BY CardIs DEF Fit
<1>2. /\ DOMAIN n.events = DOMAIN e.events \cup {l + 1}
      /\ n.events[l + 1] = x /\ \A i \in DOMAIN e.events : n.events[i] = e.events[i]
  BY DEF Added
<1> HIDE DEF l
<1> SUFFICES ASSUME NEW i \in DOMAIN n.events, n.events[i].kind = "checkin"
             PROVE  \A j \in 1 .. i - 1 :
                      n.events[j].kind = "checkin" /\ n.events[j].actor = n.events[i].actor =>
                        n.events[j].date # n.events[i].date
  BY DEF CheckInsSound
<1>3. CASE i = l + 1
  <2>1. \A j \in 1 .. i - 1 : j \in DOMAIN e.events /\ n.events[j] = e.events[j]
    BY <1>1, <1>2, <1>3
  <2> QED BY <1>2, <1>3, <2>1 DEF CheckedIn
<1>4. CASE i \in DOMAIN e.events
  <2>1. \A j \in 1 .. i - 1 : j \in DOMAIN e.events /\ n.events[j] = e.events[j]
    BY <1>1, <1>2, <1>4
  <2> QED BY <1>1, <1>2, <1>4, <2>1 DEF CheckInsSound
<1> QED BY <1>2, <1>3, <1>4

LEMMA StagesAdded ==
  ASSUME NEW e, Fit(e), NEW n, NEW x, Added(e, n, x),
         x.kind = "stage" => x.step = LastStage(e, x.actor) + 1
  PROVE  StagesSound(n)
<1> DEFINE l == Len(e.events)
<1>1. l \in Nat /\ DOMAIN e.events = 1 .. l /\ StagesSound(e)
  BY CardIs DEF Fit
<1>2. /\ DOMAIN n.events = DOMAIN e.events \cup {l + 1}
      /\ n.events[l + 1] = x /\ \A i \in DOMAIN e.events : n.events[i] = e.events[i]
  BY DEF Added
<1> HIDE DEF l
<1> SUFFICES ASSUME NEW i \in DOMAIN n.events, n.events[i].kind = "stage"
             PROVE  n.events[i].step = Cardinality(StagesUntil(n, n.events[i].actor, i))
  BY DEF StagesSound
<1>3. CASE i = l + 1
  <2> DEFINE S == StagesOf(e, x.actor)
  <2>1. StagesUntil(n, x.actor, i) = S \cup {l + 1} /\ l + 1 \notin S
    BY <1>1, <1>2, <1>3 DEF StagesUntil, StagesOf
  <2>2. LastStage(e, x.actor) = Cardinality(S) /\ IsFiniteSet(S) /\ Cardinality(S) \in Nat
    BY LastStageCounts
  <2> HIDE DEF S
  <2>3. Cardinality(S \cup {l + 1}) = Cardinality(S) + 1
    BY <2>1, <2>2, FS_AddElement
  <2> QED BY <1>2, <1>3, <2>1, <2>2, <2>3
<1>4. CASE i \in DOMAIN e.events
  <2>1. n.events[i] = e.events[i]
    BY <1>2, <1>4
  <2>2. StagesUntil(n, n.events[i].actor, i) = StagesUntil(e, e.events[i].actor, i)
    BY <1>1, <1>2, <1>4, <2>1 DEF StagesUntil, StagesOf
  <2> QED BY <1>1, <1>4, <2>1, <2>2 DEF StagesSound
<1> QED BY <1>2, <1>3, <1>4

\* Another plan does not disturb a history, when its steps stay or there is none.
LEMMA EditFits ==
  ASSUME NEW e, Fit(e), NEW n \in Card, n.events = e.events,
         e.events = <<>> \/ n.plan.steps = e.plan.steps
  PROVE  Fit(n)
<1>1. StepsSound(n)
  BY DEF Fit, StepsSound
<1>2. StagesSound(n) /\ CheckInsSound(n)
  <2>1. \A p, i : StagesUntil(n, p, i) = StagesUntil(e, p, i)
    BY DEF StagesUntil, StagesOf
  <2> QED BY <2>1 DEF Fit, StagesSound, CheckInsSound
<1> QED BY <1>1, <1>2 DEF Fit

-----------------------------------------------------------------------------
(* Commands: whatever a person makes of a card that fits is a change, and  *)
(* fits again.                                                             *)

LEMMA EditChanges ==
  ASSUME NEW e, Fit(e), NEW p, NEW plan \in Plans, MayEdit(p, e, plan)
  PROVE  Fit(Edited(p, e, plan)) /\ Change(p, e, Edited(p, e, plan))
<1>1. e \in Card /\ e.approved \in BOOLEAN /\ (e.events = <<>> \/ plan.steps = e.plan.steps)
  BY CardIs DEF Fit, MayEdit, StepsMayChange
<1>2. PICK a \in BOOLEAN : a = ApprovalAfterEdit(p, e)
  BY DEF ApprovalAfterEdit
<1> DEFINE n == [e EXCEPT !.plan = plan, !.approved = a]
<1>3. /\ n \in Card /\ n.plan = plan /\ n.approved = a /\ n.events = e.events
      /\ n.kind = e.kind /\ n.version = e.version
  BY <1>1 DEF Card
<1>4. Edited(p, e, plan) = n
  BY <1>2 DEF Edited
<1> HIDE DEF n
<1>5. Fit(n)
  BY <1>1, <1>3, EditFits
<1>6. (e.kind = "proposal" /\ a => p \in Parents) /\ (a => e.approved)
  BY <1>2 DEF ApprovalAfterEdit
<1>7. Change(p, e, n)
  BY <1>1, <1>3, <1>6 DEF Change, Longer
<1> QED BY <1>4, <1>5, <1>7

LEMMA ArchiveChanges ==
  ASSUME NEW e, Fit(e), NEW p, NEW archived \in BOOLEAN
  PROVE  Fit(Archived(e, archived)) /\ Change(p, e, Archived(e, archived))
<1>1. e \in Card
  BY DEF Fit
<1> DEFINE n == Archived(e, archived)
<1>2. /\ n \in Card /\ n.plan = e.plan /\ n.approved = e.approved /\ n.events = e.events
      /\ n.kind = e.kind /\ n.version = e.version
  BY <1>1 DEF Archived, Card
<1> HIDE DEF n
<1>3. Fit(n) /\ Change(p, e, n)
  BY <1>1, <1>2, EditFits DEF Change, Longer
<1> QED BY <1>3 DEF n

LEMMA ApprovalChanges ==
  ASSUME NEW e, Fit(e), NEW p, MayApprove(p, e)
  PROVE  Fit(Approved(e)) /\ Change(p, e, Approved(e))
<1>1. e \in Card /\ p \in Parents
  BY DEF Fit, MayApprove
<1> DEFINE n == Approved(e)
<1>2. /\ n \in Card /\ n.plan = e.plan /\ n.events = e.events
      /\ n.kind = e.kind /\ n.version = e.version
  BY <1>1 DEF Approved, Card
<1> HIDE DEF n
<1>3. Fit(n) /\ Change(p, e, n)
  BY <1>1, <1>2, EditFits DEF Change, Longer
<1> QED BY <1>3 DEF n

\* An event that fits the history.
LEMMA ProgressChanges ==
  ASSUME NEW e, Fit(e), NEW p, MayProgress(p, e), NEW x \in Event, NEW already \in BOOLEAN,
         ~already =>
           /\ x.kind = "step" => /\ x.step \in DOMAIN e.plan.steps
                                 /\ e.plan.steps[x.step] \in {Anyone, x.actor}
                                 /\ ~StepDone(e, x.step)
           /\ x.kind = "stage" => x.step = LastStage(e, x.actor) + 1
           /\ x.kind = "checkin" => ~CheckedIn(e, x.actor, x.date)
  PROVE  Fit(Recorded(e, x, already)) /\ Change(p, e, Recorded(e, x, already))
<1>1. e \in Card /\ Len(e.events) \in Nat
  BY CardIs DEF Fit
<1>2. ~e.archived /\ (e.kind = "proposal" => e.approved) /\ Len(e.events) < MaxEvents
  BY DEF MayProgress, HasRoom
<1>3. CASE already
  <2>1. Change(p, e, e)
    BY DEF Change, Longer
  <2> QED BY <1>3, <2>1 DEF Recorded
<1>4. CASE ~already
  <2> DEFINE n == [e EXCEPT !.events = Append(e.events, x)]
  <2>1. Recorded(e, x, already) = n
    BY <1>4 DEF Recorded
  <2>2. Added(e, n, x)
    BY <1>1, AppendAdds
  <2> HIDE DEF n
  <2>3. StepsSound(n) /\ StagesSound(n) /\ CheckInsSound(n)
    BY <1>4, <2>2, StepsAdded, StagesAdded, CheckInsAdded
  <2>4. n \in Card /\ Len(n.events) <= MaxEvents
    BY <1>1, <1>2, <2>2, CardsAssumption DEF Added
  <2>5. Fit(n)
    BY <2>3, <2>4 DEF Fit
  <2>6. Change(p, e, n)
    BY <1>2, <2>2 DEF Change, Longer, Added
  <2> QED BY <2>1, <2>5, <2>6
<1> QED BY <1>3, <1>4

LEMMA CheckInChanges ==
  ASSUME NEW e, Fit(e), NEW p \in People, NEW d \in Dates, MayCheckIn(p, e)
  PROVE  Fit(WithCheckIn(p, e, d)) /\ Change(p, e, WithCheckIn(p, e, d))
<1> DEFINE x == [kind |-> "checkin", actor |-> p, step |-> 0, date |-> d]
<1>1. WithCheckIn(p, e, d) = Recorded(e, x, CheckedIn(e, p, d)) /\ CheckedIn(e, p, d) \in BOOLEAN
      /\ MayProgress(p, e)
  BY DEF WithCheckIn, CheckedIn, MayCheckIn
<1>2. x \in Event /\ x.kind = "checkin" /\ x.actor = p /\ x.date = d
  BY DEF Event
<1> HIDE DEF x
<1>3. Fit(Recorded(e, x, CheckedIn(e, p, d))) /\ Change(p, e, Recorded(e, x, CheckedIn(e, p, d)))
  BY <1>1, <1>2, ProgressChanges
<1> QED BY <1>1, <1>3

LEMMA StepChanges ==
  ASSUME NEW e, Fit(e), NEW p \in People, NEW i \in 1 .. MaxEvents, MayStep(p, e, i)
  PROVE  Fit(WithStep(p, e, i)) /\ Change(p, e, WithStep(p, e, i))
<1> DEFINE x == [kind |-> "step", actor |-> p, step |-> i, date |-> Today]
<1>1. WithStep(p, e, i) = Recorded(e, x, StepDone(e, i)) /\ StepDone(e, i) \in BOOLEAN
      /\ i \in DOMAIN e.plan.steps /\ e.plan.steps[i] \in {Anyone, p} /\ MayProgress(p, e)
  BY DEF WithStep, StepDone, MayStep, StepIsOpen
<1>2. x \in Event /\ x.kind = "step" /\ x.actor = p /\ x.step = i
  BY CardsAssumption DEF Event
<1> HIDE DEF x
<1>3. Fit(Recorded(e, x, StepDone(e, i))) /\ Change(p, e, Recorded(e, x, StepDone(e, i)))
  BY <1>1, <1>2, ProgressChanges
<1> QED BY <1>1, <1>3

LEMMA StageChanges ==
  ASSUME NEW e, Fit(e), NEW p \in People, NEW i \in 1 .. MaxEvents, MayStage(p, e, i)
  PROVE  Fit(WithStage(p, e, i)) /\ Change(p, e, WithStage(p, e, i))
<1> DEFINE x == [kind |-> "stage", actor |-> p, step |-> i, date |-> Today]
<1>1. WithStage(p, e, i) = Recorded(e, x, FALSE) /\ i = LastStage(e, p) + 1 /\ MayProgress(p, e)
  BY DEF WithStage, MayStage
<1>2. x \in Event /\ x.kind = "stage" /\ x.actor = p /\ x.step = i
  BY CardsAssumption DEF Event
<1> HIDE DEF x
<1>3. Fit(Recorded(e, x, FALSE)) /\ Change(p, e, Recorded(e, x, FALSE))
  BY <1>1, <1>2, ProgressChanges
<1> QED BY <1>1, <1>3

LEMMA CommandsChange ==
  ASSUME NEW e, Fit(e), NEW p \in People, NEW n, Commands(p, e, n)
  PROVE  Fit(n) /\ Change(p, e, n)
<1>1. ASSUME NEW plan \in Plans, MayEdit(p, e, plan), n = Edited(p, e, plan)
      PROVE  Fit(n) /\ Change(p, e, n)
  BY <1>1, EditChanges
<1>2. ASSUME NEW archived \in BOOLEAN, n = Archived(e, archived)
      PROVE  Fit(n) /\ Change(p, e, n)
  BY <1>2, ArchiveChanges
<1>3. CASE MayApprove(p, e) /\ n = Approved(e)
  BY <1>3, ApprovalChanges
<1>4. ASSUME NEW d \in Dates, MayCheckIn(p, e), n = WithCheckIn(p, e, d)
      PROVE  Fit(n) /\ Change(p, e, n)
  BY <1>4, CheckInChanges
<1>5. ASSUME NEW i \in 1 .. MaxEvents,
             \/ MayStep(p, e, i) /\ n = WithStep(p, e, i)
             \/ MayStage(p, e, i) /\ n = WithStage(p, e, i)
      PROVE  Fit(n) /\ Change(p, e, n)
  BY <1>5, StepChanges, StageChanges
<1> QED BY <1>1, <1>2, <1>3, <1>4, <1>5, Zenon DEF Commands

-----------------------------------------------------------------------------
(* Rewards.                                                                *)

LEMMA PlansAre ==
  ASSUME NEW plan \in Plans
  PROVE  /\ plan.people \in SUBSET People /\ plan.days \in SUBSET Dates
         /\ plan.steps # <<>> => \E i \in DOMAIN plan.steps : TRUE
<1>1. plan.steps \in Seq(People \cup {Anyone}) /\ plan.people \in SUBSET People
      /\ plan.days \in SUBSET Dates
  BY CardsAssumption
<1>2. PICK q \in Seq(People \cup {Anyone}) : q = plan.steps
  BY <1>1
<1>3. q # <<>> => 1 \in DOMAIN q
  OBVIOUS
<1> QED BY <1>1, <1>2, <1>3

LEMMA RewardsAre ==
  ASSUME NEW e \in Card, NEW n \in Card
  PROVE  RewardCandidates(e, n) \in SUBSET Reward
<1>1. \A i \in DOMAIN n.events : n.events[i] \in Event /\ n.events[i].actor \in People
                                 /\ n.events[i].date \in Dates
  BY CardIs DEF Event
<1>2. n.plan.people \in SUBSET People
  BY CardIs, PlansAre
<1>3. CheckInRewards(e, n) \in SUBSET Reward
  BY <1>1 DEF CheckInRewards, Reward
<1>4. CompletionRewards(n) \in SUBSET Reward
  <2> DEFINE steps == {i \in DOMAIN n.events : n.events[i].kind = "step"}
             doers == {n.events[i].actor : i \in steps}
             payees == IF n.plan.people = {} THEN doers ELSE n.plan.people
  <2>1. payees \in SUBSET People
    BY <1>1, <1>2
  <2>2. CompletionRewards(n) = {[source |-> "adventure", person |-> p, date |-> Today] : p \in payees}
    BY DEF CompletionRewards
  <2> HIDE DEF payees
  <2> QED BY <2>1, <2>2, CardsAssumption DEF Reward
<1> QED BY <1>3, <1>4 DEF RewardCandidates

\* A history that grows keeps what was done, and steps that have been done stay.
LEMMA WorkStays ==
  ASSUME NEW e, Fit(e), NEW n, Fit(n), NEW p, Change(p, e, n)
  PROVE  /\ \A i \in DOMAIN e.events : i \in DOMAIN n.events /\ n.events[i] = e.events[i]
         /\ \A q, d : CheckedIn(e, q, d) => CheckedIn(n, q, d)
         /\ Complete(e) => Complete(n)
<1>1. /\ Len(e.events) \in Nat /\ DOMAIN e.events = 1 .. Len(e.events)
      /\ Len(n.events) \in Nat /\ DOMAIN n.events = 1 .. Len(n.events)
      /\ e.plan \in Plans
  BY CardIs DEF Fit
<1>2. \A i \in DOMAIN e.events : i \in DOMAIN n.events /\ n.events[i] = e.events[i]
  BY <1>1 DEF Change, Longer
<1>3. \A q, d : CheckedIn(e, q, d) => CheckedIn(n, q, d)
  BY <1>2 DEF CheckedIn
<1>4. ASSUME Complete(e) PROVE Complete(n)
  <2>1. PICK s \in DOMAIN e.plan.steps : StepDone(e, s)
    BY <1>1, <1>4, PlansAre DEF Complete
  <2>2. e.events # <<>>
    BY <2>1 DEF StepDone
  <2>3. n.plan.steps = e.plan.steps
    BY <2>2 DEF Change
  <2> QED BY <1>2, <1>4, <2>3 DEF Complete, StepDone
<1> QED BY <1>2, <1>3, <1>4

\* What a saved change earns follows its work, and a completion pays somebody.
LEMMA PaysFollow ==
  ASSUME NEW e, Fit(e), NEW n, Fit(n), NEW p, Change(p, e, n),
         NEW rows, NEW people \in SUBSET People, Follows(e, rows, people),
         NEW paid, paid = rows \cup {r \in RewardCandidates(e, n) : r.person \in people}
  PROVE  Follows(n, paid, people)
<1>1. e \in Card /\ n \in Card /\ n.kind = e.kind /\ n.plan \in Plans
  BY CardIs DEF Fit, Change
<1>2. ASSUME NEW r \in paid
      PROVE  /\ r.source = "habit" => CheckedIn(n, r.person, r.date)
             /\ r.source = "adventure" => Complete(n)
  <2>1. CASE r \in rows
    BY <2>1, WorkStays DEF Follows
  <2>2. CASE r \in RewardCandidates(e, n)
    <3>1. CASE n.kind = "habit"
      <4>1. r \in CheckInRewards(e, n)
        BY <2>2, <3>1 DEF RewardCandidates
      <4> QED BY <4>1 DEF CheckInRewards, CheckedIn
    <3>2. CASE n.kind # "habit"
      <4>1. Complete(n) /\ r \in CompletionRewards(n)
        BY <2>2, <3>2 DEF RewardCandidates
      <4> QED BY <4>1 DEF CompletionRewards
    <3> QED BY <3>1, <3>2
  <2> QED BY <2>1, <2>2
<1>3. ASSUME n.kind \in {"adventure", "proposal"}, Complete(n), people = People
      PROVE  paid # {}
  <2>1. CASE Complete(e)
    BY <1>1, <1>3, <2>1 DEF Follows
  <2>2. CASE ~Complete(e)
    <3>1. PICK s \in DOMAIN n.plan.steps : StepDone(n, s)
      BY <1>1, <1>3, PlansAre DEF Complete
    <3>2. PICK i \in DOMAIN n.events : n.events[i].kind = "step"
      BY <3>1 DEF StepDone
    <3>3. n.events # e.events
      <4>1. SUFFICES ASSUME n.events = e.events PROVE FALSE
        OBVIOUS
      <4>2. e.events # <<>>
        BY <3>2, <4>1
      <4>3. n.plan.steps = e.plan.steps
        BY <4>2 DEF Change
      <4> QED BY <1>3, <2>2, <4>1, <4>3 DEF Complete, StepDone
    <3>4. ~n.archived /\ (n.kind = "proposal" => n.approved)
      BY <3>3 DEF Change, Longer
    <3>5. RewardCandidates(e, n) = CompletionRewards(n)
      BY <1>3, <2>2, <3>4 DEF RewardCandidates
    <3>6. \E q \in People : [source |-> "adventure", person |-> q, date |-> Today]
                              \in CompletionRewards(n)
      <4>1. CASE n.plan.people = {}
        <5>1. n.events[i].actor \in People
          BY <1>1, CardIs DEF Event
        <5>2. [source |-> "adventure", person |-> n.events[i].actor, date |-> Today]
                \in CompletionRewards(n)
          BY <3>2, <4>1 DEF CompletionRewards
        <5> QED BY <5>1, <5>2
      <4>2. CASE n.plan.people # {}
        <5>1. PICK q \in n.plan.people : q \in People
          BY <1>1, <4>2, PlansAre
        <5>2. [source |-> "adventure", person |-> q, date |-> Today] \in CompletionRewards(n)
          BY <4>2 DEF CompletionRewards
        <5> QED BY <5>1, <5>2
      <4> QED BY <4>1, <4>2
    <3> QED BY <1>3, <3>5, <3>6
  <2> QED BY <2>1, <2>2
<1> QED BY <1>2, <1>3 DEF Follows

\* Only the history, the plan and the kind matter for these.
LEMMA SameWork ==
  ASSUME NEW m, NEW n, m.events = n.events, m.plan = n.plan, m.kind = n.kind,
         NEW rows, NEW people, Follows(n, rows, people)
  PROVE  Follows(m, rows, people)
BY DEF Follows, CheckedIn, Complete, StepDone

-----------------------------------------------------------------------------
(* Initial states, and steps that write no card.                           *)

LEMMA NoCardIs ==
  /\ NoPlan \in Plans /\ NoCard \in Card /\ Idle \in Request /\ Idle.pc = "idle" /\ Fit(NoCard)
  /\ NoCard.version = 0 /\ NoCard.events = <<>> /\ ~NoCard.approved /\ NoCard.kind = "skill"
<1>1. NoPlan \in Plans
  BY CardsAssumption DEF NoPlan
<1>2. (CHOOSE p \in People : TRUE) \in People
  BY CardsAssumption DEF People
<1>3. <<>> \in Seq(Event) /\ Len(<<>>) = 0 /\ DOMAIN <<>> = {}
  OBVIOUS
<1>4. NoCard \in Card /\ NoCard.version = 0 /\ NoCard.events = <<>> /\ ~NoCard.approved
      /\ NoCard.kind = "skill"
  BY <1>1, <1>2, <1>3 DEF NoCard, Card, Kinds
<1>5. Idle \in Request /\ Idle.pc = "idle"
  BY <1>1, <1>4 DEF Idle, Request
<1>6. Fit(NoCard)
  BY <1>3, <1>4, CardsAssumption DEF Fit, StepsSound, StagesSound, CheckInsSound
<1> QED BY <1>1, <1>4, <1>5, <1>6

LEMMA InitHolds == Init => Inv
<1> SUFFICES ASSUME Init PROVE Inv
  OBVIOUS
<1>1. /\ card = NoCard /\ ledger = {} /\ active = People
      /\ requests = [p \in People |-> Idle]
      /\ backups = {} /\ agreed = NoPlan /\ imports = 0 /\ mixed = FALSE
  BY DEF Init
<1>2. TypeOK
  <2>1. Len(card.events) <= MaxEvents
    BY <1>1, NoCardIs, CardsAssumption
  <2> QED BY <1>1, <2>1, NoCardIs DEF TypeOK
<1>3. CardOK
  BY <1>1, NoCardIs DEF CardOK, Informed, Follows
<1>4. RequestsOK /\ BackupsOK
  BY <1>1, NoCardIs DEF RequestsOK, RequestOK, BackupsOK
<1> QED BY <1>2, <1>3, <1>4 DEF Inv

LEMMA VersionsAreNat ==
  ASSUME Inv
  PROVE  /\ card \in Card /\ card.version \in Nat /\ imports \in Nat /\ mixed \in BOOLEAN
         /\ \A p \in People : requests[p] \in Request /\ requests[p].version \in Nat
                              /\ requests[p].since \in Nat
<1>1. card \in Card /\ imports \in Nat /\ mixed \in BOOLEAN /\ requests \in [People -> Request]
  BY DEF Inv, TypeOK
<1>2. \A p \in People : requests[p] \in Request /\ requests[p].version \in Nat
                        /\ requests[p].since \in Nat
  BY <1>1 DEF Request
<1> QED BY <1>1, <1>2, CardIs

\* A request that does not move stands when the card stays or is saved again, or
\* a backup is imported.
LEMMA RequestStays ==
  ASSUME Inv, NEW p \in People, requests'[p] = requests[p], imports' \in Nat,
         \/ imports' = imports /\ card' = card
         \/ imports' = imports /\ card'.version \in Nat /\ card'.version > card.version
         \/ imports' > imports
  PROVE  RequestOK(p)'
<1>1. PICK r \in Request : r = requests[p] /\ r = requests'[p] /\ r.version \in Nat /\ r.since \in Nat
  BY VersionsAreNat
<1>2. RequestOK(p) /\ card.version \in Nat /\ imports \in Nat
  BY VersionsAreNat DEF Inv, RequestsOK
<1>3. CASE imports' = imports /\ card' = card
  BY <1>1, <1>2, <1>3 DEF RequestOK, Sent, Current
<1>4. CASE imports' = imports /\ card'.version \in Nat /\ card'.version > card.version
  BY <1>1, <1>2, <1>4 DEF RequestOK, Sent, Current
<1>5. CASE imports' > imports
  BY <1>1, <1>2, <1>5 DEF RequestOK, Sent, Current
<1> QED BY <1>3, <1>4, <1>5

\* One person's request moves, and nothing else.
LEMMA RequestMoves ==
  ASSUME Inv, NEW p \in People, NEW n \in Request,
         requests' = [requests EXCEPT ![p] = n], RequestOK(p)',
         UNCHANGED <<card, ledger, active, backups, agreed, imports, mixed>>
  PROVE  Inv'
<1>1. requests \in [People -> Request]
  BY DEF Inv, TypeOK
<1>2. requests' \in [People -> Request] /\ \A q \in People \ {p} : requests'[q] = requests[q]
  BY <1>1
<1>3. \A q \in People \ {p} : RequestOK(q)'
  BY <1>2, RequestStays, VersionsAreNat
<1>4. RequestsOK'
  BY <1>3 DEF RequestsOK
<1>5. TypeOK' /\ CardOK' /\ BackupsOK'
  BY <1>2 DEF Inv, TypeOK, CardOK, BackupsOK
<1> QED BY <1>4, <1>5 DEF Inv

LEMMA ViewIsSafe ==
  ASSUME Inv, NEW p \in People, View(p)
  PROVE  Inv'
<1> DEFINE n == [Idle EXCEPT !.pc = "viewing", !.version = card.version, !.plan = card.plan,
                   !.since = imports]
<1>1. card.version > 0 /\ requests' = [requests EXCEPT ![p] = n]
      /\ UNCHANGED <<card, ledger, active, backups, agreed, imports, mixed>>
  BY DEF View
<1>2. card \in Card /\ card.version \in Nat /\ imports \in Nat /\ card.plan \in Plans
  BY VersionsAreNat, CardIs
<1>3. n \in Request /\ n.pc = "viewing" /\ n.version = card.version /\ n.plan = card.plan
      /\ n.since = imports
  BY <1>2, NoCardIs DEF Request
<1> HIDE DEF n
<1>4. requests'[p] = n
  BY <1>1 DEF Inv, TypeOK
<1>5. RequestOK(p)'
  BY <1>1, <1>2, <1>3, <1>4 DEF RequestOK, Sent, Current
<1> QED BY <1>1, <1>3, <1>5, RequestMoves

LEMMA RefuseIsSafe ==
  ASSUME Inv, NEW p \in People, Refuse(p)
  PROVE  Inv'
<1>1. requests' = [requests EXCEPT ![p] = Idle]
      /\ UNCHANGED <<card, ledger, active, backups, agreed, imports, mixed>>
  BY DEF Refuse
<1>2. requests'[p] = Idle
  BY <1>1 DEF Inv, TypeOK
<1>3. RequestOK(p)'
  BY <1>2, NoCardIs DEF RequestOK
<1> QED BY <1>1, <1>3, NoCardIs, RequestMoves

\* A command on the card as it is.
LEMMA LoadIsSafe ==
  ASSUME Inv, NEW p \in People, NEW e, Load(p, e), Commands(p, card, e)
  PROVE  Inv'
<1>1. PICK r \in Request : r = requests[p] /\ r.version \in Nat /\ r.since \in Nat
  BY VersionsAreNat
<1>2. r.pc = "viewing" /\ r.version = card.version
      /\ UNCHANGED <<card, ledger, active, backups, agreed, imports, mixed>>
  BY <1>1 DEF Load, SeesCurrent
<1>3. Fit(e) /\ e \in Card /\ e.version = card.version
  <2>1. Fit(card)
    BY DEF Inv, CardOK
  <2> QED BY <2>1, CommandsChange DEF Fit, Change
<1>4. PICK n \in Request : /\ n = [r EXCEPT !.pc = "loaded", !.next = e]
                           /\ n.pc = "loaded" /\ n.next = e /\ n.version = r.version
                           /\ n.plan = r.plan /\ n.since = r.since
  <2> DEFINE n == [r EXCEPT !.pc = "loaded", !.next = e]
  <2>1. n \in Request /\ n.pc = "loaded" /\ n.next = e /\ n.version = r.version
        /\ n.plan = r.plan /\ n.since = r.since
    BY <1>3 DEF Request
  <2> QED BY <2>1
<1>5. requests' = [requests EXCEPT ![p] = n]
  <2>1. requests' = [requests EXCEPT ![p].pc = "loaded", ![p].next = e]
    BY DEF Load
  <2>2. requests' = [requests EXCEPT ![p] = [requests[p] EXCEPT !.pc = "loaded", !.next = e]]
    BY <2>1, Zenon DEF Inv, TypeOK
  <2> QED BY <1>1, <1>4, <2>2, Zenon
<1>6. requests'[p] = n
  BY <1>5 DEF Inv, TypeOK
<1>7. RequestOK(p)
  BY DEF Inv, RequestsOK
<1>8. RequestOK(p)'
  BY <1>1, <1>2, <1>3, <1>4, <1>6, <1>7 DEF RequestOK, Sent, Current
<1> QED BY <1>2, <1>5, <1>8, RequestMoves

\* What each request loads is such a command.
LEMMA LoadsAreCommands ==
  ASSUME NEW p \in People
  PROVE  /\ \A plan \in Plans : Edit(p, plan) => \E e : Load(p, e) /\ Commands(p, card, e)
         /\ \A archived \in BOOLEAN :
              Archive(p, archived) => \E e : Load(p, e) /\ Commands(p, card, e)
         /\ Approve(p) => \E e : Load(p, e) /\ Commands(p, card, e)
         /\ \A d \in Dates : CheckIn(p, d) => \E e : Load(p, e) /\ Commands(p, card, e)
         /\ \A n \in 1 .. MaxEvents :
              Step(p, n) \/ Stage(p, n) => \E e : Load(p, e) /\ Commands(p, card, e)
<1>1. ASSUME NEW plan \in Plans, Edit(p, plan)
      PROVE  \E e : Load(p, e) /\ Commands(p, card, e)
  BY <1>1, Zenon DEF Edit, Commands
<1>2. ASSUME NEW archived \in BOOLEAN, Archive(p, archived)
      PROVE  \E e : Load(p, e) /\ Commands(p, card, e)
  BY <1>2, Zenon DEF Archive, Commands
<1>3. ASSUME Approve(p)
      PROVE  \E e : Load(p, e) /\ Commands(p, card, e)
  BY <1>3, Zenon DEF Approve, Commands
<1>4. ASSUME NEW d \in Dates, CheckIn(p, d)
      PROVE  \E e : Load(p, e) /\ Commands(p, card, e)
  BY <1>4, Zenon DEF CheckIn, Commands
<1>5. ASSUME NEW n \in 1 .. MaxEvents, Step(p, n) \/ Stage(p, n)
      PROVE  \E e : Load(p, e) /\ Commands(p, card, e)
  BY <1>5, Zenon DEF Step, Stage, Commands
<1> QED BY <1>1, <1>2, <1>3, <1>4, <1>5

-----------------------------------------------------------------------------
(* Saves.                                                                  *)

\* What is saved from after the last import is a command on the card as it is.
LEMMA SavedIs ==
  ASSUME Inv, NEW p \in People, Save(p)
  PROVE  /\ Fit(requests[p].next) /\ requests[p].next.version = card.version
         /\ requests[p].since = imports =>
              /\ requests[p].plan = card.plan
              /\ Commands(p, card, requests[p].next) /\ Change(p, card, requests[p].next)
<1>1. Sent(p) /\ requests[p].pc = "loaded" /\ requests[p].next.version = card.version
      /\ Fit(card)
  BY DEF Inv, RequestsOK, RequestOK, CardOK, Save, RowIsUnchanged
<1>2. requests[p].since = imports =>
        requests[p].plan = card.plan /\ Commands(p, card, requests[p].next)
  BY <1>1 DEF Sent, Current
<1> QED BY <1>1, <1>2, CommandsChange DEF Sent

LEMMA SaveIsSafe ==
  ASSUME Inv, NEW p \in People, Save(p)
  PROVE  Inv'
<1> DEFINE n == requests[p].next
           plan == requests[p].plan
<1>1. /\ card' = [n EXCEPT !.version = card.version + 1]
      /\ ledger' = ledger \cup {r \in RewardCandidates(card, n) : r.person \in active}
      /\ agreed' = AgreedAfter(p, requests[p]) /\ mixed' = (mixed \/ requests[p].since # imports)
      /\ requests' = [requests EXCEPT ![p] = Idle]
      /\ UNCHANGED <<active, backups, imports>>
  BY DEF Save, Insert
<1>2. /\ Fit(n) /\ n.version = card.version
      /\ requests[p].since = imports => plan = card.plan /\ Change(p, card, n)
  BY SavedIs
<1>3. card \in Card /\ card.version \in Nat /\ n \in Card /\ mixed \in BOOLEAN
      /\ active \in SUBSET People
  BY <1>2, VersionsAreNat DEF Fit, Inv, TypeOK
<1>4. plan \in Plans /\ n.plan \in Plans
  BY <1>3, CardIs, VersionsAreNat DEF Request
<1>5. /\ card' \in Card /\ card'.version = card.version + 1 /\ card'.plan = n.plan
      /\ card'.events = n.events /\ card'.kind = n.kind /\ card'.approved = n.approved
  <2>1. PICK c \in Card : c = n
    BY <1>3
  <2>2. PICK v \in Nat : v = card.version + 1
    BY <1>3
  <2>3. card' = [c EXCEPT !.version = v]
    BY <1>1, <2>1, <2>2
  <2> HIDE DEF n
  <2> QED BY <2>1, <2>2, <2>3 DEF Card
<1>6. Fit(card')
  BY <1>2, <1>5, EditFits
<1>7. RewardCandidates(card, n) \in SUBSET Reward
  BY <1>3, RewardsAre
<1>8. ASSUME ~mixed'
      PROVE  Informed(card', agreed') /\ Follows(card', ledger', active')
  <2>1. ~mixed /\ plan = card.plan /\ Change(p, card, n)
    BY <1>1, <1>2, <1>8
  <2>2. Fit(card) /\ Informed(card, agreed) /\ Follows(card, ledger, active)
    BY <2>1 DEF Inv, CardOK
  <2>3. Informed(card', agreed')
    <3> SUFFICES ASSUME n.kind = "proposal", n.approved
                 PROVE  agreed' = n.plan
      BY <1>5 DEF Informed
    <3>1. card.kind = "proposal" /\ (p \in Parents \/ (card.approved /\ n.plan = card.plan))
      BY <2>1 DEF Change
    <3>2. card.approved => agreed = card.plan
      BY <2>2, <3>1 DEF Informed
    <3>3. CASE p \in Parents /\ n.plan # plan
      <4>1. ~(n.approved /\ ~card.approved)
        BY <2>1, <3>3 DEF Change
      <4> HIDE DEF n, plan
      <4> QED BY <1>1, <3>3, <4>1 DEF AgreedAfter, n, plan
    <3>4. CASE p \in Parents /\ n.plan = plan /\ ~card.approved
      BY <1>1, <3>4 DEF AgreedAfter
    <3>5. CASE card.approved /\ n.plan = card.plan
      BY <1>1, <2>1, <3>2, <3>5 DEF AgreedAfter
    <3> QED BY <2>1, <3>1, <3>3, <3>4, <3>5
  <2>4. Follows(n, ledger', active)
    <3> HIDE DEF n, plan
    <3> QED BY <1>1, <1>2, <1>3, <2>1, <2>2, PaysFollow
  <2>5. Follows(card', ledger', active)
    BY <1>5, <2>4, SameWork
  <2> QED BY <1>1, <2>3, <2>5
<1>9. agreed' \in Plans
  <2>1. agreed \in Plans
    BY DEF Inv, TypeOK
  <2> QED BY <1>1, <1>4, <2>1 DEF AgreedAfter
<1> HIDE DEF n, plan
<1>10. CardOK'
  BY <1>3, <1>5, <1>6, <1>8 DEF CardOK
<1>11. requests' \in [People -> Request] /\ requests'[p] = Idle
       /\ \A q \in People \ {p} : requests'[q] = requests[q]
  BY <1>1, NoCardIs DEF Inv, TypeOK
<1>12. RequestsOK'
  <2>1. \A q \in People \ {p} : RequestOK(q)'
    BY <1>1, <1>3, <1>5, <1>11, RequestStays, VersionsAreNat
  <2>2. RequestOK(p)'
    BY <1>11, NoCardIs DEF RequestOK
  <2> QED BY <2>1, <2>2 DEF RequestsOK
<1>13. TypeOK'
  <2>1. ledger' \subseteq Reward /\ mixed' \in BOOLEAN
    BY <1>1, <1>3, <1>7 DEF Inv, TypeOK
  <2>2. Len(card'.events) <= MaxEvents
    BY <1>6 DEF Fit
  <2> QED BY <1>1, <1>5, <1>9, <1>11, <2>1, <2>2 DEF Inv, TypeOK
<1>14. BackupsOK'
  BY <1>1 DEF Inv, BackupsOK
<1> QED BY <1>10, <1>12, <1>13, <1>14 DEF Inv

\* A new card has no history: when it is drafted, and when it is inserted.
LEMMA NewCardIs ==
  ASSUME NEW p \in People, NEW kind \in Kinds, NEW plan \in Plans
  PROVE  Fresh(NewCard(p, kind, plan))
<1>1. PICK k \in Kinds : k = IF kind = "adventure" /\ p \in Children THEN "proposal" ELSE kind
  BY DEF Kinds
<1> DEFINE e == [NoCard EXCEPT !.version = 1, !.author = p, !.plan = plan, !.kind = k]
<1>2. NewCard(p, kind, plan) = e
  BY <1>1 DEF NewCard
<1>3. e \in Card /\ e.version = 1 /\ e.events = <<>> /\ ~e.approved
  BY NoCardIs DEF Card
<1> QED BY <1>2, <1>3 DEF Fresh

LEMMA DraftIs ==
  ASSUME Inv, NEW p \in People, NEW kind \in Kinds, NEW plan \in Plans, Draft(p, kind, plan)
  PROVE  /\ requests[p].pc = "idle" /\ card.version = 0
         /\ UNCHANGED <<card, ledger, active, backups, agreed, imports, mixed>>
         /\ \E n \in Request :
              /\ requests' = [requests EXCEPT ![p] = n] /\ n.pc = "drafted"
              /\ n.next = NewCard(p, kind, plan) /\ Creates(p, active, n.next)
<1> DEFINE e == NewCard(p, kind, plan)
           n == [Idle EXCEPT !.pc = "drafted", !.next = e]
<1>1. /\ card.version = 0 /\ p \in active /\ requests[p].pc = "idle"
      /\ Validate(e) /\ ParticipantsAreActive(e, active)
      /\ requests' = [requests EXCEPT ![p] = n]
      /\ UNCHANGED <<card, ledger, active, backups, agreed, imports, mixed>>
  BY DEF Draft
<1>2. Creates(p, active, e)
  BY <1>1 DEF Creates
<1>3. e \in Card
  BY NewCardIs DEF Fresh
<1> HIDE DEF e
<1>4. n \in Request /\ n.pc = "drafted" /\ n.next = e
  BY <1>3, NoCardIs DEF Request
<1> HIDE DEF n
<1>5. Creates(p, active, n.next)
  BY <1>2, <1>4
<1> QED BY <1>1, <1>4, <1>5 DEF e

LEMMA DraftIsSafe ==
  ASSUME Inv, NEW p \in People, NEW kind \in Kinds, NEW plan \in Plans, Draft(p, kind, plan)
  PROVE  Inv'
<1>1. UNCHANGED <<card, ledger, active, backups, agreed, imports, mixed>>
  BY DraftIs
<1>2. PICK n \in Request : /\ requests' = [requests EXCEPT ![p] = n] /\ n.pc = "drafted"
                           /\ n.next = NewCard(p, kind, plan)
  BY DraftIs
<1>3. requests'[p] = n
  BY <1>2 DEF Inv, TypeOK
<1>4. RequestOK(p)'
  BY <1>2, <1>3, NewCardIs DEF RequestOK, Fresh, Card
<1> QED BY <1>1, <1>2, <1>4, RequestMoves

LEMMA CreateIsSafe ==
  ASSUME Inv, NEW p \in People, Create(p)
  PROVE  Inv'
<1> DEFINE e == requests[p].next
<1>1. /\ card.version = 0 /\ card' = e
      /\ ledger' = ledger \cup {r \in RewardCandidates(card, e) : r.person \in active}
      /\ requests' = [requests EXCEPT ![p] = Idle]
      /\ UNCHANGED <<active, backups, agreed, imports, mixed>>
  BY DEF Create, Insert
<1>2. e \in Card /\ e.version = 1 /\ e.events = <<>> /\ ~e.approved
  BY DEF Create, Inv, RequestsOK, RequestOK, Fresh
<1> HIDE DEF e
<1>3. DOMAIN e.events = {} /\ Len(e.events) = 0
  BY <1>2
<1>4. Fit(e)
  BY <1>2, <1>3, CardsAssumption DEF Fit, StepsSound, StagesSound, CheckInsSound
<1>5. ~Complete(e) /\ CheckInRewards(card, e) = {}
  <2>1. e.plan \in Plans
    BY <1>2, CardIs
  <2> QED BY <1>2, <1>3, <2>1, PlansAre DEF Complete, StepDone, CheckInRewards
<1>6. ledger = {} /\ RewardCandidates(card, e) = {}
  BY <1>1, <1>5 DEF Inv, CardOK, RewardCandidates
<1>7. ledger' = {}
  BY <1>1, <1>6
<1>8. CardOK'
  BY <1>1, <1>2, <1>4, <1>5, <1>7 DEF CardOK, Informed, Follows
<1>9. requests' \in [People -> Request] /\ requests'[p] = Idle
      /\ \A q \in People \ {p} : requests'[q] = requests[q]
  BY <1>1, NoCardIs DEF Inv, TypeOK
<1>10. RequestsOK'
  <2>1. \A q \in People \ {p} : RequestOK(q)'
    BY <1>1, <1>2, <1>9, RequestStays, VersionsAreNat
  <2>2. RequestOK(p)'
    BY <1>9, NoCardIs DEF RequestOK
  <2> QED BY <2>1, <2>2 DEF RequestsOK
<1>11. Len(card'.events) <= MaxEvents
  BY <1>1, <1>3, CardsAssumption
<1>12. TypeOK' /\ BackupsOK'
  BY <1>1, <1>2, <1>7, <1>9, <1>11 DEF Inv, TypeOK, BackupsOK
<1> QED BY <1>8, <1>10, <1>12 DEF Inv

-----------------------------------------------------------------------------
(* The family.                                                             *)

LEMMA LeaveIsSafe ==
  ASSUME Inv, NEW p \in People, Leave(p)
  PROVE  Inv'
<1>1. p \in active /\ active' = active \ {p}
      /\ UNCHANGED <<card, ledger, requests, backups, agreed, imports, mixed>>
  BY DEF Leave
<1>2. active' # People /\ active' \subseteq People
  BY <1>1 DEF Inv, TypeOK
<1>3. ASSUME ~mixed' PROVE Informed(card', agreed') /\ Follows(card', ledger', active')
  BY <1>1, <1>2, <1>3 DEF Inv, CardOK, Informed, Follows, Complete, StepDone, CheckedIn
<1>4. CardOK' /\ BackupsOK' /\ TypeOK'
  BY <1>1, <1>2, <1>3 DEF Inv, CardOK, BackupsOK, TypeOK
<1>5. RequestsOK'
  BY <1>1, RequestStays, VersionsAreNat DEF RequestsOK
<1> QED BY <1>4, <1>5 DEF Inv

LEMMA ExportIsSafe ==
  ASSUME Inv, Export
  PROVE  Inv'
<1> DEFINE b == [card |-> card, ledger |-> ledger, active |-> active, agreed |-> agreed]
<1>1. card.version > 0 /\ backups' = backups \cup {b}
      /\ UNCHANGED <<card, ledger, active, requests, agreed, imports, mixed>>
  BY DEF Export
<1>2. /\ b \in [card : Card, ledger : SUBSET Reward, active : SUBSET People, agreed : Plans]
      /\ b.card = card /\ b.ledger = ledger /\ b.active = active /\ b.agreed = agreed
  BY DEF Inv, TypeOK
<1> HIDE DEF b
<1>3. Fit(b.card) /\ b.card.version >= 1
      /\ (~mixed => Informed(b.card, b.agreed) /\ Follows(b.card, b.ledger, b.active))
  BY <1>1, <1>2, VersionsAreNat DEF Inv, CardOK
<1>4. BackupsOK' /\ CardOK' /\ TypeOK'
  BY <1>1, <1>2, <1>3 DEF Inv, CardOK, BackupsOK, TypeOK
<1>5. RequestsOK'
  BY <1>1, RequestStays, VersionsAreNat DEF RequestsOK
<1> QED BY <1>4, <1>5 DEF Inv

\* Every request is from before this import.
LEMMA ImportIsSafe ==
  ASSUME Inv, NEW b \in backups, Import(b)
  PROVE  Inv'
<1>1. /\ card' = b.card /\ ledger' = b.ledger /\ active' = b.active /\ agreed' = b.agreed
      /\ imports' = imports + 1 /\ UNCHANGED <<requests, backups, mixed>>
  BY DEF Import
<1>2. /\ Fit(b.card) /\ b.card.version >= 1
      /\ ~mixed => Informed(b.card, b.agreed) /\ Follows(b.card, b.ledger, b.active)
  BY DEF Inv, BackupsOK
<1>3. b.card \in Card /\ b.ledger \subseteq Reward /\ b.active \subseteq People /\ b.agreed \in Plans
  BY DEF Inv, TypeOK
<1>4. CardOK' /\ BackupsOK'
  BY <1>1, <1>2 DEF Inv, CardOK, BackupsOK
<1>5. Len(b.card.events) <= MaxEvents /\ imports + 1 \in Nat /\ imports + 1 > imports
  BY <1>2, VersionsAreNat DEF Fit
<1>6. TypeOK'
  BY <1>1, <1>3, <1>5 DEF Inv, TypeOK
<1>7. RequestsOK'
  BY <1>1, <1>5, RequestStays DEF RequestsOK
<1> QED BY <1>4, <1>6, <1>7 DEF Inv

-----------------------------------------------------------------------------
(* Every step, and the theorems.                                           *)

LEMMA NextHolds == Inv /\ [Next]_vars => Inv'
<1> SUFFICES ASSUME Inv, [Next]_vars PROVE Inv'
  OBVIOUS
<1>1. ASSUME NEW p \in People, NEW plan \in Plans, Edit(p, plan) PROVE Inv'
  BY <1>1, LoadsAreCommands, LoadIsSafe
<1>2. ASSUME NEW p \in People, NEW plan \in Plans, NEW kind \in Kinds, Draft(p, kind, plan)
      PROVE  Inv'
  BY <1>2, DraftIsSafe
<1>3. ASSUME NEW p \in People, Create(p) \/ View(p) \/ Approve(p) \/ Save(p) \/ Refuse(p) \/ Leave(p)
      PROVE  Inv'
  BY <1>3, CreateIsSafe, ViewIsSafe, LoadsAreCommands, LoadIsSafe, SaveIsSafe, RefuseIsSafe, LeaveIsSafe
<1>4. ASSUME NEW p \in People, NEW archived \in BOOLEAN, Archive(p, archived) PROVE Inv'
  BY <1>4, LoadsAreCommands, LoadIsSafe
<1>5. ASSUME NEW p \in People, NEW d \in Dates, CheckIn(p, d) PROVE Inv'
  BY <1>5, LoadsAreCommands, LoadIsSafe
<1>6. ASSUME NEW p \in People, NEW n \in 1 .. MaxEvents, Step(p, n) \/ Stage(p, n) PROVE Inv'
  BY <1>6, LoadsAreCommands, LoadIsSafe
<1>7. CASE Export
  BY <1>7, ExportIsSafe
<1>8. ASSUME NEW b \in backups, Import(b) PROVE Inv'
  BY <1>8, ImportIsSafe
<1>9. CASE UNCHANGED vars
  <2>1. UNCHANGED <<card, ledger, active, requests, backups, agreed, imports, mixed>>
    BY <1>9 DEF vars
  <2>2. CardOK' /\ BackupsOK' /\ TypeOK'
    BY <2>1 DEF Inv, CardOK, BackupsOK, TypeOK
  <2>3. RequestsOK'
    BY <2>1, RequestStays, VersionsAreNat DEF RequestsOK
  <2> QED BY <2>2, <2>3 DEF Inv
<1> QED BY <1>1, <1>2, <1>3, <1>4, <1>5, <1>6, <1>7, <1>8, <1>9 DEF Next

LEMMA InvHolds == Spec => []Inv
BY InitHolds, NextHolds, PTL DEF Spec

(***************************************************************************)
(* The row, the requests on their way and the backups keep their kinds,    *)
(* and no card has more than MaxEvents events.                             *)
(***************************************************************************)
THEOREM TypeCorrectness == Spec => []TypeOK
BY InvHolds, PTL DEF Inv

(***************************************************************************)
(* EditFamilyEntry, ApplyFamilyCommand and SaveFamilyEntry together: the   *)
(* plan of an approved proposal is one that a parent saw or wrote.         *)
(***************************************************************************)
THEOREM ApprovalInformed == Spec => []ApprovalIsInformed
<1>1. Inv => ApprovalIsInformed
  BY DEF Inv, CardOK, Informed, ApprovalIsInformed
<1> QED BY <1>1, InvHolds, PTL

(***************************************************************************)
(* ApplyFamilyCommand: whatever is edited, approved, saved at once or      *)
(* imported, steps, stages and check-ins fit the plan and each other.      *)
(***************************************************************************)
THEOREM HistorySound == Spec => []HistoryIsSound
<1>1. ASSUME Inv PROVE HistoryIsSound
  <2>1. StepsSound(card) /\ StagesSound(card) /\ CheckInsSound(card)
    BY <1>1 DEF Inv, CardOK, Fit
  <2> SUFFICES ASSUME NEW i \in DOMAIN card.events
               PROVE  LET e == card.events[i] IN
                      /\ e.kind = "step" =>
                           /\ e.step \in DOMAIN card.plan.steps
                           /\ card.plan.steps[e.step] \in {Anyone, e.actor}
                           /\ \A j \in 1 .. i - 1 :
                                card.events[j].kind = "step" => card.events[j].step # e.step
                      /\ e.kind = "stage" =>
                           e.step = Cardinality({j \in StagesOf(card, e.actor) : j <= i})
                      /\ e.kind = "checkin" =>
                           \A j \in 1 .. i - 1 :
                             card.events[j].kind = "checkin" /\ card.events[j].actor = e.actor =>
                               card.events[j].date # e.date
    BY DEF HistoryIsSound
  <2>2. card.events[i].kind = "stage" =>
          card.events[i].step = Cardinality({j \in StagesOf(card, card.events[i].actor) : j <= i})
    BY <2>1 DEF StagesSound, StagesUntil
  <2> QED BY <2>1, <2>2 DEF StepsSound, CheckInsSound
<1> QED BY <1>1, InvHolds, PTL

(***************************************************************************)
(* SaveFamilyEntry and FamilyRewardCandidates: no reward without its work, *)
(* and no finished adventure without a reward.                             *)
(***************************************************************************)
THEOREM RewardsFollow == Spec => []RewardFollowsWork
<1>1. Inv => RewardFollowsWork
  BY DEF Inv, CardOK, Follows, RewardFollowsWork
<1> QED BY <1>1, InvHolds, PTL

LEMMA LongerIsPrefix ==
  ASSUME NEW e \in Card, NEW n \in Card, Longer(e, n)
  PROVE  IsPrefix(e.events, n.events)
<1>1. PICK s \in Seq(Event), t \in Seq(Event) : s = e.events /\ t = n.events
  BY CardIs
<1>2. Len(s) \in Nat /\ Len(t) \in Nat /\ Len(s) <= Len(t) /\ \A i \in 1 .. Len(s) : s[i] = t[i]
  BY <1>1 DEF Longer
<1>3. SubSeq(s, 1, Len(s)) = SubSeq(t, 1, Len(s))
  BY <1>2
<1> QED BY <1>1, <1>2, <1>3 DEF IsPrefix

LEMMA StepsKeepWork ==
  ASSUME Inv, [Next]_vars, NEW p \in People, Saves(p), requests[p].since = imports
  PROVE  OverwritesNothing(p)
<1>1. requests \in [People -> Request] /\ requests[p].pc = "loaded" /\ requests'[p].pc # "loaded"
  BY DEF Inv, TypeOK, Saves
<1>2. ASSUME NEW q \in People, NEW n, requests' = [requests EXCEPT ![q] = n],
             q # p \/ requests[q].pc # "loaded"
      PROVE  FALSE
  BY <1>1, <1>2
<1>3. ASSUME NEW q \in People, NEW e, Load(q, e) PROVE FALSE
  <2>1. requests' = [requests EXCEPT ![q].pc = "loaded", ![q].next = e]
        /\ requests[q].pc = "viewing"
    BY <1>3 DEF Load
  <2>2. requests' = [requests EXCEPT ![q] = [requests[q] EXCEPT !.pc = "loaded", !.next = e]]
    BY <1>1, <2>1, Zenon
  <2> QED BY <1>2, <2>1, <2>2
<1>4. requests' = requests => FALSE
  BY <1>1
<1>5. CASE Save(p)
  <2>1. Fit(requests[p].next) /\ requests[p].plan = card.plan /\ Change(p, card, requests[p].next)
    BY <1>5, SavedIs
  <2>2. requests[p].next \in Card /\ card \in Card /\ Longer(card, requests[p].next)
    BY <2>1, VersionsAreNat DEF Fit, Change
  <2>3. card'.events = requests[p].next.events
    <3>1. PICK c \in Card : c = requests[p].next
      BY <2>2
    <3>2. card' = [c EXCEPT !.version = card.version + 1]
      BY <1>5, <3>1 DEF Save
    <3> QED BY <3>1, <3>2 DEF Card
  <2> QED BY <2>1, <2>2, <2>3, LongerIsPrefix DEF OverwritesNothing
<1>6. CASE Refuse(p)
  <2>1. card' = card /\ card \in Card
    BY <1>6, VersionsAreNat DEF Refuse
  <2>2. IsPrefix(card.events, card.events)
    BY <2>1, LongerIsPrefix DEF Longer
  <2> QED BY <2>1, <2>2 DEF OverwritesNothing
<1>7. ASSUME NEW q \in People, q # p, Save(q) \/ Refuse(q) PROVE FALSE
  BY <1>2, <1>7 DEF Save, Refuse
<1>8. ASSUME NEW q \in People, View(q) \/ Create(q) PROVE FALSE
  BY <1>2, <1>8 DEF View, Create
<1>9. ASSUME NEW q \in People, NEW plan \in Plans, Edit(q, plan) PROVE FALSE
  BY <1>3, <1>9 DEF Edit
<1>10. ASSUME NEW q \in People, NEW plan \in Plans, NEW kind \in Kinds, Draft(q, kind, plan)
       PROVE  FALSE
  <2>1. requests[q].pc # "loaded"
    BY <1>10, DraftIs
  <2> QED BY <1>2, <1>10, <2>1, DraftIs
<1>11. ASSUME NEW q \in People, NEW a, Archive(q, a) \/ Approve(q) \/ Leave(q)
       PROVE  FALSE
  BY <1>3, <1>4, <1>11 DEF Archive, Approve, Leave
<1>12. ASSUME NEW q \in People, NEW d, CheckIn(q, d) \/ Step(q, d) \/ Stage(q, d)
       PROVE  FALSE
  BY <1>3, <1>12 DEF CheckIn, Step, Stage
<1>13. ASSUME Export \/ (\E b \in backups : Import(b)) \/ UNCHANGED vars PROVE FALSE
  BY <1>4, <1>13 DEF Export, Import, vars
<1> QED BY <1>5, <1>6, <1>7, <1>8, <1>9, <1>10, <1>11, <1>12, <1>13 DEF Next

(***************************************************************************)
(* SaveFamilyEntry compares the version under the row's lock: a save from  *)
(* after the last import adds to the history, and replaces no plan that    *)
(* its author had not seen.                                                *)
(***************************************************************************)
THEOREM WorkKept == Spec => WorkIsKept
<1>1. Inv /\ [Next]_vars =>
        [\A p \in People : Saves(p) /\ requests[p].since = imports => OverwritesNothing(p)]_vars
  BY StepsKeepWork
<1> QED BY <1>1, InvHolds, PTL DEF Spec, WorkIsKept

-----------------------------------------------------------------------------
(* Every save is one command, applied at once.                             *)

\* A person whose screen is filled or emptied is not behind any more.
LEMMA LateMoves ==
  ASSUME Inv, NEW p \in People, NEW n, requests' = [requests EXCEPT ![p] = n],
         imports' = imports, n.pc \in {"idle", "drafted"} \/ n.since = imports
  PROVE  /\ Late' = Late \ {p}
         /\ n.pc = "drafted" => Drafts' = [Drafts EXCEPT ![p] = n.next]
         /\ n.pc # "drafted" => Drafts' = [Drafts EXCEPT ![p] = NoCard]
<1>1. requests'[p] = n /\ \A q \in People \ {p} : requests'[q] = requests[q]
  BY DEF Inv, TypeOK
<1>2. Late' = Late \ {p}
  BY <1>1 DEF Late
<1> DEFINE Of(r) == IF r.pc = "drafted" THEN r.next ELSE NoCard
<1>3. Drafts = [q \in People |-> Of(requests[q])] /\ Drafts' = [q \in People |-> Of(requests'[q])]
  BY DEF Drafts
<1>4. Drafts' = [Drafts EXCEPT ![p] = Of(n)]
  <2> HIDE DEF Of
  <2> QED BY <1>1, <1>3
<1> QED BY <1>2, <1>3, <1>4

LEMMA LoadMaps ==
  ASSUME Inv, NEW p \in People, NEW e, Load(p, e)
  PROVE  UNCHANGED Atomic!vars
<1>1. requests[p].pc = "viewing" /\ UNCHANGED <<card, ledger, active, backups, imports>>
  BY DEF Load
<1>2. \A q \in People :
        /\ requests'[q].since = requests[q].since
        /\ requests'[q].pc \in {"viewing", "loaded"} <=> requests[q].pc \in {"viewing", "loaded"}
        /\ requests'[q].pc = "drafted" <=> requests[q].pc = "drafted"
        /\ requests'[q].pc = "drafted" => requests'[q].next = requests[q].next
  <2>1. PICK r \in Request : r = requests[p]
    BY VersionsAreNat
  <2>2. requests' = [requests EXCEPT ![p] = [r EXCEPT !.pc = "loaded", !.next = e]]
    BY <2>1, Zenon DEF Load, Inv, TypeOK
  <2>3. \A q \in People \ {p} : requests'[q] = requests[q]
    BY <2>2 DEF Inv, TypeOK
  <2>4. requests'[p] = [r EXCEPT !.pc = "loaded", !.next = e]
    BY <2>2 DEF Inv, TypeOK
  <2>5. requests'[p].since = r.since /\ requests'[p].pc = "loaded"
    BY <2>4 DEF Request
  <2> QED BY <1>1, <2>1, <2>3, <2>5
<1>3. Late' = Late /\ Drafts' = Drafts
  BY <1>1, <1>2 DEF Late, Drafts
<1> QED BY <1>1, <1>3 DEF Atomic!vars

\* The draft of a person with nothing else on the way is validated in one step.
LEMMA DraftMaps ==
  ASSUME Inv, NEW p \in People, NEW kind \in Kinds, NEW plan \in Plans, Draft(p, kind, plan)
  PROVE  Atomic!Draft(p)
<1>1. /\ requests[p].pc = "idle" /\ card.version = 0
      /\ UNCHANGED <<card, ledger, active, backups, imports>>
  BY DraftIs
<1>2. PICK n \in Request : /\ requests' = [requests EXCEPT ![p] = n] /\ n.pc = "drafted"
                           /\ Creates(p, active, n.next)
  BY DraftIs
<1>3. Late' = Late \ {p} /\ Drafts' = [Drafts EXCEPT ![p] = n.next]
  BY <1>1, <1>2, LateMoves
<1>4. Late' = Late
  BY <1>1, <1>3 DEF Late
<1>5. Drafts'[p] = n.next
  BY <1>3 DEF Drafts
<1> QED BY <1>1, <1>2, <1>3, <1>4, <1>5 DEF Atomic!Draft

LEMMA CreateMaps ==
  ASSUME Inv, NEW p \in People, Create(p)
  PROVE  Atomic!Create(p)
<1> DEFINE e == requests[p].next
<1>1. /\ requests[p].pc = "drafted" /\ card.version = 0 /\ card' = e
      /\ ledger' = ledger \cup {r \in RewardCandidates(card, e) : r.person \in active}
      /\ requests' = [requests EXCEPT ![p] = Idle]
      /\ UNCHANGED <<active, backups, imports>>
  BY DEF Create, Insert
<1>2. e.version = 1
  BY <1>1 DEF Inv, RequestsOK, RequestOK, Fresh
<1>3. Drafts[p] = e /\ e # NoCard
  BY <1>1, <1>2 DEF Drafts, NoCard
<1> HIDE DEF e
<1>4. Late' = Late \ {p} /\ Drafts' = [Drafts EXCEPT ![p] = NoCard]
  BY <1>1, LateMoves, NoCardIs
<1>5. Late' = Late
  BY <1>1, <1>4 DEF Late
<1> QED BY <1>1, <1>3, <1>4, <1>5 DEF Atomic!Create, Atomic!Pay

\* The save of a request that saw no import is a command on the card as it is.
LEMMA SaveMaps ==
  ASSUME Inv, NEW p \in People, Save(p)
  PROVE  Atomic!Save(p)
<1> DEFINE n == requests[p].next
<1>1. /\ card.version > 0 /\ card' = [n EXCEPT !.version = card.version + 1]
      /\ ledger' = ledger \cup {r \in RewardCandidates(card, n) : r.person \in active}
      /\ requests' = [requests EXCEPT ![p] = Idle] /\ requests[p].pc = "loaded"
      /\ UNCHANGED <<active, backups, imports>>
  BY DEF Save, Insert
<1>2. n \in Card /\ n.version = card.version /\ card.version \in Nat
      /\ (requests[p].since = imports => Commands(p, card, n))
  BY SavedIs, VersionsAreNat DEF Fit
<1>3. Late' = Late \ {p} /\ Drafts' = Drafts
  BY <1>1, LateMoves, NoCardIs DEF Drafts
<1>4. p \in Late \/ Commands(p, card, n)
  BY <1>1, <1>2 DEF Late
<1> HIDE DEF n
<1>5. card'.version = card.version + 1 /\ [card' EXCEPT !.version = card.version] = n
  BY <1>1, <1>2 DEF Card
<1> QED BY <1>1, <1>3, <1>4, <1>5 DEF Atomic!Save, Atomic!Pay

LEMMA CatchUpMaps ==
  ASSUME Inv, NEW p \in People, View(p) \/ Refuse(p)
  PROVE  Atomic!CatchUp(p)
<1>1. UNCHANGED <<card, ledger, active, backups, imports>>
  BY DEF View, Refuse
<1>2. Late' = Late \ {p} /\ Drafts' = [Drafts EXCEPT ![p] = NoCard]
  <2>1. CASE View(p)
    <3> DEFINE n == [Idle EXCEPT !.pc = "viewing", !.version = card.version, !.plan = card.plan,
                       !.since = imports]
    <3>1. requests' = [requests EXCEPT ![p] = n] /\ n.since = imports /\ n.pc = "viewing"
      BY <2>1, NoCardIs DEF View, Request
    <3> HIDE DEF n
    <3> QED BY <1>1, <3>1, LateMoves
  <2>2. CASE Refuse(p)
    BY <1>1, <2>2, LateMoves, NoCardIs DEF Refuse
  <2> QED BY <2>1, <2>2
<1> QED BY <1>1, <1>2 DEF Atomic!CatchUp

LEMMA FamilyMaps ==
  ASSUME Inv
  PROVE  /\ \A p \in People : Leave(p) => Atomic!Leave(p)
         /\ Export => Atomic!Export
         /\ UNCHANGED vars => UNCHANGED Atomic!vars
<1>1. ASSUME NEW p \in People, Leave(p) PROVE Atomic!Leave(p)
  <2>1. UNCHANGED <<card, ledger, requests, backups, imports>> /\ active' = active \ {p}
    BY <1>1 DEF Leave
  <2> QED BY <2>1 DEF Atomic!Leave, Late, Drafts
<1>2. ASSUME Export PROVE Atomic!Export
  <2> DEFINE b == [card |-> card, ledger |-> ledger, active |-> active, agreed |-> agreed]
             Snap(c) == [card |-> c.card, ledger |-> c.ledger, active |-> c.active]
  <2>1. UNCHANGED <<card, ledger, active, requests, imports>> /\ backups' = backups \cup {b}
    BY <1>2 DEF Export
  <2>2. Snap(b) = [card |-> card, ledger |-> ledger, active |-> active]
    OBVIOUS
  <2> HIDE DEF b
  <2>3. {Snap(c) : c \in backups'} = {Snap(c) : c \in backups} \cup {Snap(b)}
    BY <2>1
  <2> QED BY <2>1, <2>2, <2>3 DEF Atomic!Export, Late, Drafts
<1>3. ASSUME UNCHANGED vars PROVE UNCHANGED Atomic!vars
  BY <1>3 DEF vars, Atomic!vars, Late, Drafts
<1> QED BY <1>1, <1>2, <1>3

LEMMA ImportMaps ==
  ASSUME Inv, NEW b \in backups, Import(b)
  PROVE  Atomic!Import([card |-> b.card, ledger |-> b.ledger, active |-> b.active])
<1>1. /\ card' = b.card /\ ledger' = b.ledger /\ active' = b.active /\ UNCHANGED <<requests, backups>>
  BY DEF Import
<1>2. Late' \in SUBSET People /\ Drafts' = Drafts
  BY <1>1 DEF Late, Drafts
<1> QED BY <1>1, <1>2 DEF Atomic!Import

LEMMA NextMaps == Inv /\ [Next]_vars => [Atomic!Next]_(Atomic!vars)
<1> SUFFICES ASSUME Inv, [Next]_vars PROVE [Atomic!Next]_(Atomic!vars)
  OBVIOUS
<1>1. ASSUME NEW p \in People, NEW e, Load(p, e) PROVE UNCHANGED Atomic!vars
  BY <1>1, LoadMaps
<1>2. ASSUME NEW p \in People, NEW kind \in Kinds, NEW plan \in Plans, Draft(p, kind, plan)
      PROVE  Atomic!Next
  BY <1>2, DraftMaps DEF Atomic!Next
<1>3. ASSUME NEW p \in People, Create(p) \/ Save(p) \/ View(p) \/ Refuse(p) \/ Leave(p) PROVE Atomic!Next
  BY <1>3, CreateMaps, SaveMaps, CatchUpMaps, FamilyMaps DEF Atomic!Next
<1>4. CASE Export
  BY <1>4, FamilyMaps DEF Atomic!Next
<1>5. ASSUME NEW b \in backups, Import(b) PROVE Atomic!Next
  BY <1>5, ImportMaps DEF Atomic!Next
<1>6. CASE UNCHANGED vars
  BY <1>6, FamilyMaps
<1>7. ASSUME NEW p \in People, NEW plan \in Plans, Edit(p, plan) PROVE UNCHANGED Atomic!vars
  BY <1>1, <1>7, LoadsAreCommands
<1>8. ASSUME NEW p \in People, NEW archived \in BOOLEAN, Archive(p, archived) \/ Approve(p)
      PROVE  UNCHANGED Atomic!vars
  BY <1>1, <1>8, LoadsAreCommands
<1>9. ASSUME NEW p \in People, NEW d \in Dates, CheckIn(p, d) PROVE UNCHANGED Atomic!vars
  BY <1>1, <1>9, LoadsAreCommands
<1>10. ASSUME NEW p \in People, NEW n \in 1 .. MaxEvents, Step(p, n) \/ Stage(p, n)
       PROVE  UNCHANGED Atomic!vars
  BY <1>1, <1>10, LoadsAreCommands
<1> QED BY <1>2, <1>3, <1>4, <1>5, <1>6, <1>7, <1>8, <1>9, <1>10, Zenon DEF Next

(***************************************************************************)
(* Comparing the version when the card is loaded, and again under the      *)
(* row's lock when it is saved, makes every save one whole command of the  *)
(* card as it is then, with its rewards: nobody can tell that it took two  *)
(* transactions, but for a request that crossed an import.                 *)
(***************************************************************************)
THEOREM AtomicSaves == Spec => SavesAreAtomic
<1>1. Init => Atomic!Init
  BY DEF Init, Atomic!Init, Late, Drafts, Idle
<1>2. Inv /\ [Next]_vars => [Atomic!Next]_(Atomic!vars)
  BY NextMaps
<1> QED BY <1>1, <1>2, InvHolds, PTL DEF Spec, SavesAreAtomic, Atomic!Spec
=============================================================================
