---------------------------- MODULE LearningRewards ----------------------------
(***************************************************************************)
(* Math lessons, reading lessons and the ledger of their rewards, for one  *)
(* child of a hosted family.                                               *)
(*                                                                         *)
(* A request takes its time when it arrives, then waits for the row of the *)
(* child (participants FOR UPDATE), reads under that lock and writes when  *)
(* it commits.  Several tablets send requests, and send them again; an     *)
(* import waits for open transactions and replaces every table.            *)
(***************************************************************************)
EXTENDS MathQuestions, FiniteSetsExt

CONSTANTS
  Tablets, NoTablet,
  Lessons,             \* ids of math sessions
  Questions,           \* bound: questions of a session (8, 12 or 15)
  Settings,            \* settings that are chosen
  Marks,               \* how answers are marked: TRUE is right
  Readings,            \* ids of reading completions
  Levels,              \* reading levels, each named by its stars
  MathLimit, PreviousMathLimit, ReadingLimit,  \* daily budgets
  MaxStarts,           \* open readings per child
  MaxActivities,       \* bound: lessons and readings in the tables
  MaxDay,              \* bound: days in a behaviour
  MaxBackups           \* bound: exports that are kept

ASSUME LearningAssumption ==
  /\ NoTablet \notin Tablets /\ IsFiniteSet(Lessons)
  /\ Questions \in Nat \ {0}
  /\ Marks \subseteq BOOLEAN /\ Settings \subseteq MathSettings /\ Levels \subseteq Nat \ {0}
  /\ MathLimit \in Nat /\ PreviousMathLimit \in 0 .. MathLimit /\ ReadingLimit \in Nat
  /\ MaxStarts \in Nat /\ MaxActivities \in Nat /\ MaxDay \in Nat \ {0} /\ MaxBackups \in Nat

VARIABLES
  today,
  sessions,    \* math_sessions
  ledger,      \* activity_rewards
  starts,      \* reading_starts
  lock,        \* the tablet whose transaction has the child's row
  requests,    \* one request per tablet
  backups,
  told         \* history: rewards reported for a completion since the last import

vars == <<today, sessions, ledger, starts, lock, requests, backups, told>>

Days == 1 .. MaxDay
Versions == {0, 2, 3}
\* Stars of a correct answer: settings and version of a session do not change.
Worth(version, s) == CASE version = 3 -> Stars(s) [] version = 2 -> PreviousStars(s)
                       [] version = 0 -> LegacyStars(s)
Answer == [full : Nat, stars : Nat, date : Days]
Session == [saved : BOOLEAN, version : Versions, worth : Nat, closed : BOOLEAN, answers : Seq(Answer)]
Reward == [source : {"math", "reading"}, key : (Lessons \X (1 .. Questions)) \cup Readings,
           date : Days, stars : Nat, level : Nat]
Start == [id : Readings, level : Levels, old : BOOLEAN]
NoSession == [saved |-> FALSE, version |-> 3, worth |-> 0, closed |-> FALSE, answers |-> <<>>]
Tables == [sessions : [Lessons -> Session], ledger : SUBSET Reward, starts : SUBSET Start]
Current == [sessions |-> sessions, ledger |-> ledger, starts |-> starts]
Empty == [sessions |-> [l \in Lessons |-> NoSession], ledger |-> {}, starts |-> {}]

Ops ==
  [kind : {"start"}, worth : {Worth(3, s) : s \in Settings}]
    \cup [kind : {"answer"}, lesson : Lessons, index : 1 .. Questions, right : Marks]
    \cup [kind : {"begin", "complete"}, reading : Readings, level : Levels]
Idle == [pc |-> "idle"]
Request == {Idle} \cup [pc : {"arrived", "reading"}, op : Ops, date : Days, seen : Tables]

\* Room for one more lesson or reading.
Room ==
  Cardinality({l \in Lessons : sessions[l].saved})
    + Cardinality({s.id : s \in starts} \cup {r.key : r \in {q \in ledger : q.source = "reading"}})
    < MaxActivities

-----------------------------------------------------------------------------
Open(s) == s.saved /\ ~s.closed /\ Len(s.answers) < Questions

\* The stars that the ledger has for a source and a day.
Earned(rows, source, date) ==
  MapThenSumSet(LAMBDA r : r.stars, {r \in rows : r.source = source /\ r.date = date})

\* Mutant: max(0, limit - earned) without the max.
LeftUnclamped(limit, earned) == limit - earned

Left(limit, earned) == IF earned < limit THEN limit - earned ELSE 0
AtMost(a, b) == IF a < b THEN a ELSE b

\* insertActivityReward: on conflict do nothing.
Insert(rows, r) ==
  IF \E old \in rows : old.source = r.source /\ old.key = r.key THEN rows ELSE rows \cup {r}

\* Mutant: the version 3 budget is not compared with what was earned.
AwardedPerAnswer(s, full, earned) ==
  IF s.version = 2 THEN AtMost(full, Left(PreviousMathLimit, earned)) ELSE full

\* AwardAnswer: what the day's budget leaves of an answer's stars.
Awarded(s, full, earned) ==
  CASE s.version = 3 -> AtMost(full, Left(MathLimit, earned))
    [] s.version = 2 -> AtMost(full, Left(PreviousMathLimit, earned))
    [] s.version = 0 -> full

-----------------------------------------------------------------------------
\* validateLearning: the backups that an import accepts.
Keys(ss) == {k \in Lessons \X (1 .. Questions) : k[2] <= Len(ss[k[1]].answers)}
At(ss, k) == ss[k[1]].answers[k[2]]

OneOpen(ss) == \A l, m \in Lessons : Open(ss[l]) /\ Open(ss[m]) => l = m

AnswersValid(ss) ==
  \A k \in Keys(ss) :
    /\ At(ss, k).stars <= At(ss, k).full
    /\ ss[k[1]].version = 0 => At(ss, k).stars = At(ss, k).full

RewardsValid(ss, rows) ==
  /\ \A r, q \in rows : r.source = q.source /\ r.key = q.key => r = q
  /\ \A r \in rows :
       IF r.source = "math"
       THEN /\ r.key \in Keys(ss) /\ At(ss, r.key).full > 0
            /\ r.stars = At(ss, r.key).stars /\ r.date = At(ss, r.key).date
       ELSE r.level \in Levels /\ r.stars <= r.level
  /\ \A k \in Keys(ss) : At(ss, k).stars > 0 => \E r \in rows : r.source = "math" /\ r.key = k

MathTotal(ss, versions, date) ==
  MapThenSumSet(LAMBDA k : At(ss, k).stars,
                {k \in Keys(ss) : ss[k[1]].version \in versions /\ At(ss, k).date = date})

BudgetsValid(ss, rows) ==
  \A d \in Days :
    /\ MathTotal(ss, {2}, d) <= PreviousMathLimit
    /\ MathTotal(ss, {2, 3}, d) <= MathLimit
    /\ Earned(rows, "reading", d) <= ReadingLimit

Accepts(b) ==
  /\ OneOpen(b.sessions)
  /\ AnswersValid(b.sessions)
  /\ RewardsValid(b.sessions, b.ledger)
  /\ BudgetsValid(b.sessions, b.ledger)

-----------------------------------------------------------------------------
\* A family may still have a lesson that an earlier release started.
Init ==
  /\ today = 1
  /\ \/ sessions = Empty.sessions
     \/ \E l \in Lessons, v \in {0, 2}, s \in Settings :
          sessions = [Empty.sessions EXCEPT ![l] =
            [NoSession EXCEPT !.saved = TRUE, !.version = v, !.worth = Worth(v, s)]]
  /\ ledger = {} /\ starts = {}
  /\ lock = NoTablet
  /\ requests = [t \in Tablets |-> Idle]
  /\ backups = {}
  /\ told = [r \in Readings |-> {}]

-----------------------------------------------------------------------------
\* A tablet answers a question of a lesson that it has been shown, and completes
\* a reading that was begun.
Shown(op) ==
  /\ op.kind \in {"start", "begin"} => Room
  /\ op.kind = "complete" =>
       \/ \E s \in starts : s.id = op.reading
       \/ \E r \in ledger : r.source = "reading" /\ r.key = op.reading
  /\ op.kind = "answer" =>
       sessions[op.lesson].saved /\ op.index <= Len(sessions[op.lesson].answers) + 1

\* A request takes its time before it waits for the child's row.
Arrive(t, op) ==
  /\ requests[t] = Idle /\ Shown(op)
  /\ requests' = [requests EXCEPT ![t] = [pc |-> "arrived", op |-> op, date |-> today, seen |-> Empty]]
  /\ UNCHANGED <<today, sessions, ledger, starts, lock, backups, told>>

\* Mutant: without "for update" on the child's row.
RowIsFreeAlways(t) == TRUE

RowIsFree(t) == lock = NoTablet

\* Mutant: without "for update" on the session's row.
AnswerHoldsNothing(l) == FALSE

\* An answer holds the row of its session too.
AnswerHolds(l) ==
  \E t \in Tablets : requests[t].pc = "reading" /\ requests[t].op.kind = "answer" /\ requests[t].op.lesson = l

Read(t) ==
  /\ requests[t].pc = "arrived"
  /\ RowIsFree(t)
  /\ requests[t].op.kind = "answer" => ~AnswerHolds(requests[t].op.lesson)
  /\ lock' = t
  /\ requests' = [requests EXCEPT ![t].pc = "reading", ![t].seen = Current]
  /\ UNCHANGED <<today, sessions, ledger, starts, backups, told>>

Reading(t, kind) == requests[t].pc = "reading" /\ requests[t].op.kind = kind
Done(t) ==
  /\ requests' = [requests EXCEPT ![t] = Idle]
  /\ lock' = IF lock = t THEN NoTablet ELSE lock
  /\ UNCHANGED <<today, backups>>

\* A refusal, a replayed answer, a lesson that is resumed, an error and a
\* connection that breaks write nothing.
Respond(t) ==
  /\ requests[t] # Idle
  /\ Done(t)
  /\ UNCHANGED <<sessions, ledger, starts, told>>

\* CreateMathSession: an open lesson is resumed instead (Respond).
StartMath(t) ==
  /\ Reading(t, "start") /\ Room
  /\ \A l \in Lessons : ~Open(requests[t].seen.sessions[l])
  /\ \E l \in Lessons :
       /\ ~sessions[l].saved
       /\ sessions' = [sessions EXCEPT ![l] =
            [NoSession EXCEPT !.saved = TRUE, !.worth = requests[t].op.worth]]
  /\ Done(t)
  /\ UNCHANGED <<ledger, starts, told>>

\* AnswerMath: Submit, AwardAnswer, then the reward and the whole session.
AnswerMath(t) ==
  /\ Reading(t, "answer")
  /\ LET op == requests[t].op
         seen == requests[t].seen
         s == seen.sessions[op.lesson]
         full == IF op.right THEN s.worth ELSE 0
         stars == Awarded(s, full, Earned(seen.ledger, "math", requests[t].date))
     IN /\ s.saved /\ ~s.closed /\ op.index = Len(s.answers) + 1
        /\ sessions' = [sessions EXCEPT ![op.lesson] = [s EXCEPT !.answers =
             Append(@, [full |-> full, stars |-> stars, date |-> requests[t].date])]]
        /\ ledger' = IF stars = 0 THEN ledger
             ELSE Insert(ledger, [source |-> "math", key |-> <<op.lesson, op.index>>,
                                  date |-> requests[t].date, stars |-> stars, level |-> 0])
  /\ Done(t)
  /\ UNCHANGED <<starts, told>>

\* FinishMath: one update, which waits for the session's row only.
FinishMath(l) ==
  /\ sessions[l].saved /\ ~AnswerHolds(l)
  /\ sessions' = [sessions EXCEPT ![l].closed = TRUE]
  /\ UNCHANGED <<today, ledger, starts, lock, requests, backups, told>>

\* StartReading sweeps the starts of more than a day, then adds one.
BeginReading(t) ==
  /\ Reading(t, "begin") /\ Room
  /\ LET op == requests[t].op
         seen == requests[t].seen
     IN /\ \A s \in seen.starts : s.id # op.reading
        /\ Cardinality({s \in seen.starts : ~s.old}) < MaxStarts
        /\ starts' = {s \in starts : ~s.old} \cup {[id |-> op.reading, level |-> op.level, old |-> FALSE]}
  /\ Done(t)
  /\ UNCHANGED <<sessions, ledger, told>>

\* Mutant: a replay is not looked for before the budget.
PaidAnew(t) == {}

\* The reward that a replayed completion finds.
Paid(t) == {r \in requests[t].seen.ledger : r.source = "reading" /\ r.key = requests[t].op.reading}

\* CompleteReading, the first time: a reward is kept even if it is zero.
CompleteReading(t) ==
  /\ Reading(t, "complete")
  /\ Paid(t) = {}
  /\ LET op == requests[t].op
         seen == requests[t].seen
         reward == [source |-> "reading", key |-> op.reading, date |-> requests[t].date, level |-> op.level,
                    stars |-> AtMost(op.level,
                      Left(ReadingLimit, Earned(seen.ledger, "reading", requests[t].date)))]
     IN /\ \E s \in seen.starts : s.id = op.reading /\ s.level = op.level
        /\ ledger' = Insert(ledger, reward)
        /\ starts' = {s \in starts : s.id # op.reading}
        /\ told' = [told EXCEPT ![op.reading] = @ \cup {reward}]
  /\ Done(t)
  /\ UNCHANGED sessions

\* CompleteReading again: the saved reward, unless the level is another one.
ReplayReading(t) ==
  /\ Reading(t, "complete")
  /\ \E r \in Paid(t) :
       /\ r.level = requests[t].op.level
       /\ told' = [told EXCEPT ![requests[t].op.reading] = @ \cup {r}]
  /\ Done(t)
  /\ UNCHANGED <<sessions, ledger, starts>>

-----------------------------------------------------------------------------
Midnight ==
  /\ today < MaxDay
  /\ today' = today + 1
  /\ UNCHANGED <<sessions, ledger, starts, lock, requests, backups, told>>

\* Twenty-four hours pass after a reading was begun.
StartAges(s) ==
  /\ ~s.old
  /\ starts' = (starts \ {s}) \cup {[s EXCEPT !.old = TRUE]}
  /\ UNCHANGED <<today, sessions, ledger, lock, requests, backups, told>>

Export ==
  /\ Cardinality(backups) < MaxBackups
  /\ backups' = backups \cup {[sessions |-> sessions, ledger |-> ledger]}
  /\ UNCHANGED <<today, sessions, ledger, starts, lock, requests, told>>

\* ImportBackup; reading_starts is truncated by cascade.
Import(b) ==
  /\ \A t \in Tablets : requests[t].pc # "reading"
  /\ Accepts(b)
  /\ sessions' = b.sessions /\ ledger' = b.ledger /\ starts' = {}
  /\ told' = [r \in Readings |-> {}]
  /\ UNCHANGED <<today, lock, requests, backups>>

TabletStep(t) ==
  \/ \E op \in Ops : Arrive(t, op)
  \/ Read(t) \/ Respond(t)
  \/ StartMath(t) \/ AnswerMath(t)
  \/ BeginReading(t) \/ CompleteReading(t) \/ ReplayReading(t)

Next ==
  \/ \E t \in Tablets : TabletStep(t)
  \/ \E l \in Lessons : FinishMath(l)
  \/ \E s \in starts : StartAges(s)
  \/ Midnight \/ Export
  \/ \E b \in backups : Import(b)

Spec == Init /\ [][Next]_vars

-----------------------------------------------------------------------------
TypeOK ==
  /\ today \in Days
  /\ Current \in Tables
  /\ lock \in Tablets \cup {NoTablet}
  /\ requests \in [Tablets -> Request]
  /\ backups \in SUBSET [sessions : [Lessons -> Session], ledger : SUBSET Reward]
  /\ told \in [Readings -> SUBSET Reward]

(***************************************************************************)
(* What a family exports it can import again: at every moment the tables   *)
(* satisfy validateLearning, that is one open lesson, every paid answer in *)
(* the ledger and every reward with its answer, and no day above a budget, *)
(* whatever tablets send at once and however late.                         *)
(***************************************************************************)
ExportIsAccepted == Accepts([sessions |-> sessions, ledger |-> ledger])

(***************************************************************************)
(* However often a completion is sent, also after midnight or with another *)
(* budget left, the child hears of one reward.                             *)
(***************************************************************************)
OneRewardPerReading == \A r \in Readings : Cardinality(told[r]) <= 1

(***************************************************************************)
(* Tablets that begin readings at once share the limit of open readings.   *)
(***************************************************************************)
StartsAreBounded == Cardinality(starts) <= MaxStarts

(***************************************************************************)
(* Only an import takes anything back: answers are added at the end, a     *)
(* finished lesson stays finished and earned rewards stay as they are.     *)
(***************************************************************************)
ProgressIsKept ==
  [][\/ /\ ledger \subseteq ledger'
        /\ \A l \in Lessons :
             /\ sessions[l].closed => sessions'[l].closed
             /\ Len(sessions[l].answers) <= Len(sessions'[l].answers)
             /\ \A i \in 1 .. Len(sessions[l].answers) :
                  sessions'[l].answers[i] = sessions[l].answers[i]
     \/ \E b \in backups : Import(b)]_vars

\* The record without tablets, locks and the age of a start.
Record == INSTANCE ChildRecord WITH
  starts <- {[id |-> s.id, level |-> s.level] : s \in starts}

(***************************************************************************)
(* Whatever tablets send at once, and however long a request waits for the *)
(* child's row, what it writes is what one step would write on the record  *)
(* as it is at that moment: its reward is all that the day still leaves.   *)
(***************************************************************************)
RequestsAreSerial == Record!Spec
=============================================================================
