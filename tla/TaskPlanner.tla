---------------------------- MODULE TaskPlanner ----------------------------
(***************************************************************************)
(* The family's plan: chores with a schedule, who is asked to do them, and *)
(* the tasks that reading a plan creates.  A plan may be read for any day, *)
(* by anybody, also twice at once; parents edit chores and assignments at  *)
(* any time between.  Two projections count the tasks again: the           *)
(* leaderboard, and the week plan of daily and weekly chores.  Every       *)
(* statement is one transaction of the store.                              *)
(***************************************************************************)
EXTENDS Naturals, FiniteSets

CONSTANTS
  Chores,
  People,        \* who is asked to do them, children and parents
  Parents,       \* who edits and rates
  WeekDays,      \* days of a week (7)
  MonthStarts,   \* the days that begin a month
  MaxDay         \* bound: the clock and the days a plan is read for

Days == 1 .. MaxDay     \* day 1 is a Monday and the first of a month
Never == 0

ASSUME PlannerAssumption ==
  /\ WeekDays \in Nat \ {0} /\ MaxDay \in Nat \ {0}
  /\ MonthStarts \subseteq Days /\ 1 \in MonthStarts
  /\ Parents # {}      \* the one who founded the family

VARIABLES
  now,
  chores,        \* schedule of a chore, and whether it was ever changed
  people,        \* active participants
  assignments,   \* of a chore to a person: active, and since when
  tasks          \* of a chore and a person, by the day they are due

vars == <<now, chores, people, assignments, tasks>>

Schedules == {"once", "daily", "weekly", "monthly"}
NoChore == [schedule |-> "none", edited |-> FALSE]
Unassigned == [active |-> FALSE, created |-> Never]

Init ==
  /\ now = 1 /\ people = People \cup Parents
  /\ chores = [c \in Chores |-> NoChore]
  /\ assignments = [c \in Chores |-> [p \in People |-> Unassigned]]
  /\ tasks = [c \in Chores |-> [p \in People |-> [d \in Days |-> "none"]]]

-----------------------------------------------------------------------------
(* The calendar: periodBounds.                                             *)

\* Sunday is day 0 of time.Weekday and the last day of a week.
Weekday == [d \in Days |-> IF d % WeekDays = 0 THEN WeekDays ELSE d % WeekDays]
WeekStart == [d \in Days |-> d - (Weekday[d] - 1)]
MonthStart == [d \in Days |-> CHOOSE m \in MonthStarts :
                                m <= d /\ \A n \in MonthStarts : n <= d => n <= m]

Week == [d \in Days |-> {e \in Days : WeekStart[e] = WeekStart[d]}]
Month == [d \in Days |-> {e \in Days : MonthStart[e] = MonthStart[d]}]

-----------------------------------------------------------------------------
(* Tasks.                                                                  *)

\* Mutant: a one-time chore is due on the day of the plan.
DueToday(c, p, d) ==
  CASE chores[c].schedule = "weekly" -> WeekStart[d]
    [] chores[c].schedule = "monthly" -> MonthStart[d]
    [] OTHER -> d

\* Mutant: the task of a month is due on the Monday of the week that is read.
DueByWeek(c, p, d) ==
  CASE chores[c].schedule = "once" -> assignments[c][p].created
    [] chores[c].schedule \in {"weekly", "monthly"} -> WeekStart[d]
    [] OTHER -> d

\* The day for which the plan of day d asks for the chore.
Due(c, p, d) ==
  CASE chores[c].schedule = "once" -> assignments[c][p].created
    [] chores[c].schedule = "weekly" -> WeekStart[d]
    [] chores[c].schedule = "monthly" -> MonthStart[d]
    [] OTHER -> d

Asked(c, p) == /\ chores[c].schedule \in Schedules
               /\ assignments[c][p].active /\ p \in people

\* One insert that leaves the tasks there are: every reader of a plan makes it,
\* the week plan once for each day.  Without write access nothing is made.
EnsureTasksForDate(d) ==
  /\ tasks' = [c \in Chores |-> [p \in People |-> [e \in Days |->
       IF Asked(c, p) /\ Due(c, p, d) = e /\ tasks[c][p][e] = "none"
       THEN "pending" ELSE tasks[c][p][e]]]]
  /\ UNCHANGED <<now, chores, people, assignments>>

\* Completed by somebody whose assignment it is, while both are active.
MarkCompleted(c, p, d) ==
  /\ tasks[c][p][d] = "pending" /\ assignments[c][p].active /\ p \in people
  /\ tasks' = [tasks EXCEPT ![c][p][d] = "completed"]
  /\ UNCHANGED <<now, chores, people, assignments>>

\* Only the owner, through the application or a delegation.
CompleteTask(by, c, p, d) == by = p /\ MarkCompleted(c, p, d)

\* The rating is stored and the task is confirmed, in one transaction, also when the
\* chore is no longer asked.
MarkConfirmed(c, p, d) ==
  /\ tasks[c][p][d] \in {"completed", "confirmed"}
  /\ tasks' = [tasks EXCEPT ![c][p][d] = "confirmed"]
  /\ UNCHANGED <<now, chores, people, assignments>>

\* A parent other than the owner rates a task, once or again.
ConfirmTask(by, c, p, d) == by \in Parents \ {p} /\ MarkConfirmed(c, p, d)

-----------------------------------------------------------------------------
(* What parents edit.                                                      *)

\* An assignment that was there becomes active again, with its first date.
Assigned(a) == [active |-> TRUE, created |-> IF a.created = Never THEN now ELSE a.created]

\* All assignments of the chore are switched off, the listed ones on again.
SyncChoreParticipants(c, list) ==
  assignments' = [assignments EXCEPT ![c] = [p \in People |->
    IF p \in list THEN Assigned(@[p]) ELSE [@[p] EXCEPT !.active = FALSE]]]

\* The store's transactions.
InsertChore(c, schedule, list) ==
  /\ chores[c].schedule = "none"
  /\ chores' = [chores EXCEPT ![c].schedule = schedule]
  /\ SyncChoreParticipants(c, list)
  /\ UNCHANGED <<now, people, tasks>>

RewriteChore(c, schedule, list) ==
  /\ chores[c].schedule # "none"
  /\ chores' = [chores EXCEPT ![c] =
       [schedule |-> schedule, edited |-> @.edited \/ schedule # @.schedule]]
  /\ SyncChoreParticipants(c, list)
  /\ UNCHANGED <<now, people, tasks>>

\* One more assignment; neither the chore nor the person has to be active.
InsertAssignment(c, p) ==
  /\ chores[c].schedule # "none"
  /\ assignments' = [assignments EXCEPT ![c][p] = Assigned(@)]
  /\ UNCHANGED <<now, chores, people, tasks>>

\* Mutant: the parents are not counted.
DeactivateAnybody(p) ==
  /\ p \in people
  /\ people' = people \ {p}
  /\ assignments' = [c \in Chores |-> [q \in People |->
       IF q = p THEN [assignments[c][q] EXCEPT !.active = FALSE] ELSE assignments[c][q]]]
  /\ UNCHANGED <<now, chores, tasks>>

\* The last parent stays.
Deactivate(p) ==
  /\ p \in people /\ people \cap Parents # {p}
  /\ people' = people \ {p}
  /\ assignments' = [c \in Chores |-> [q \in People |->
       IF q = p THEN [assignments[c][q] EXCEPT !.active = FALSE] ELSE assignments[c][q]]]
  /\ UNCHANGED <<now, chores, tasks>>

\* The application asks for a parent and a schedule that there is.  The role is read
\* before the transaction, which a parent's removal may precede.
CreateChore(by, c, schedule, list) ==
  by \in Parents /\ schedule \in Schedules /\ InsertChore(c, schedule, list)
UpdateChore(by, c, schedule, list) ==
  by \in Parents /\ schedule \in Schedules /\ RewriteChore(c, schedule, list)
CreateAssignment(by, c, p) == by \in Parents /\ InsertAssignment(c, p)
DeleteParticipant(by, p) == by \in Parents /\ Deactivate(p)

Tick == /\ now < MaxDay /\ now' = now + 1
        /\ UNCHANGED <<chores, people, assignments, tasks>>

Next ==
  \/ Tick
  \/ \E d \in Days : EnsureTasksForDate(d)
  \/ \E by \in People \cup Parents :
       \/ \E c \in Chores : \E p \in People :
            \/ CreateAssignment(by, c, p)
            \/ \E d \in Days : CompleteTask(by, c, p, d) \/ ConfirmTask(by, c, p, d)
       \/ \E c \in Chores : \E s \in Schedules : \E list \in SUBSET People :
            CreateChore(by, c, s, list) \/ UpdateChore(by, c, s, list)
       \/ \E p \in People \cup Parents : DeleteParticipant(by, p)

Spec == Init /\ [][Next]_vars

-----------------------------------------------------------------------------
(* Projections.                                                            *)

\* Mutant: a one-time chore is shown on its day only.
ListsOnTheDay(c, p, d) ==
  {e \in Days : tasks[c][p][e] # "none" /\ Asked(c, p) /\
     CASE chores[c].schedule \in {"daily", "once"} -> e = d
       [] chores[c].schedule = "weekly" -> e = WeekStart[d] /\ tasks[c][p][e] # "confirmed"
       [] OTHER -> e = MonthStart[d] /\ tasks[c][p][e] # "confirmed"}

\* ListTasks of day d: daily tasks of the day, the others until they are confirmed.
ListTasks(c, p, d) ==
  {e \in Days : tasks[c][p][e] # "none" /\ Asked(c, p) /\
     CASE chores[c].schedule = "daily" -> e = d
       [] chores[c].schedule = "once" -> e <= d /\ tasks[c][p][e] # "confirmed"
       [] chores[c].schedule = "weekly" -> e = WeekStart[d] /\ tasks[c][p][e] # "confirmed"
       [] OTHER -> e = MonthStart[d] /\ tasks[c][p][e] # "confirmed"}

\* Leaderboard: the days of a period on which the chore counts as assigned,
\* and the tasks of these days that are done.
AssignedOn(c, p, S) ==
  {d \in S : CASE chores[c].schedule = "once" -> d = assignments[c][p].created
               [] chores[c].schedule = "weekly" -> Weekday[d] = 1
               [] chores[c].schedule = "monthly" -> d \in MonthStarts
               [] OTHER -> TRUE}
Done(c, p, S) == {d \in S : tasks[c][p][d] \in {"completed", "confirmed"}}

\* ListWeekPlan counts by the day they are due the tasks of daily and weekly chores, and
\* how often they are planned in a week.  One-time chores are not in it.  Monthly ones are
\* counted by the time of completion, with 1 as planned, whatever that time is: not here.
InWeekPlan(c) == chores[c].schedule \in {"daily", "weekly"}
Planned(c) == IF chores[c].schedule = "daily" THEN WeekDays ELSE 1

-----------------------------------------------------------------------------
(* Properties.  A chore whose schedule was changed keeps the tasks of the  *)
(* old one, so they speak of chores with one schedule.                     *)

Steady(c) == chores[c].schedule # "none" /\ ~chores[c].edited

\* Every variable holds a value of its kind; a task belongs to an assignment, and the
\* family keeps an active parent, whoever is removed and in whatever order.
TypeOK ==
  /\ now \in Days /\ people \subseteq People \cup Parents
  /\ people \cap Parents # {}
  /\ chores \in [Chores -> [schedule : Schedules \cup {"none"}, edited : BOOLEAN]]
  /\ assignments \in [Chores -> [People -> [active : BOOLEAN, created : Days \cup {Never}]]]
  /\ tasks \in [Chores -> [People -> [Days -> {"none", "pending", "completed", "confirmed"}]]]
  /\ \A c \in Chores : \A p \in People :
       assignments[c][p].created = Never =>
         ~assignments[c][p].active /\ tasks[c][p] = [d \in Days |-> "none"]

\* Whatever days plans are read for and however assignments come and go: a person has
\* done no more of a chore in a day, week or month than the leaderboard says was
\* assigned, and no more of a daily or weekly chore in a week than the week plan says was
\* planned.  Nothing is said of monthly chores in the week plan: it counts those by the
\* time of completion, and two months' tasks completed in one week show as two of one.
PeriodsAddUp ==
  \A c \in Chores : \A p \in People : \A d \in Days : Steady(c) =>
    /\ \A S \in {{d}, Week[d], Month[d]} :
         Cardinality(Done(c, p, S)) <= Cardinality(AssignedOn(c, p, S))
    /\ InWeekPlan(c) => Cardinality(Done(c, p, Week[d])) <= Planned(c)

\* The days that one task stands for.
Period(c, d) == CASE chores[c].schedule = "once" -> Days
                  [] chores[c].schedule = "weekly" -> Week[d]
                  [] chores[c].schedule = "monthly" -> Month[d]
                  [] OTHER -> {d}

\* Nobody is asked twice: a step that completes a task never follows another done task
\* of the same period, also after the chore was taken away and given back, or a plan was
\* read for another day of the period.
DoneOncePerPeriod ==
  [][\A c \in Chores : \A p \in People : \A d \in Days :
       Steady(c) /\ tasks[c][p][d] = "pending" /\ tasks'[c][p][d] = "completed" =>
         Done(c, p, Period(c, d)) = {}]_vars

\* Nothing is forgotten: of what the plan of a day asks of a person, and once it has a
\* task, there is a task in the list of that day, or its period's task was confirmed;
\* for a one-time chore from its day on.
PlanIsComplete ==
  \A c \in Chores : \A p \in People : \A d \in Days :
    Asked(c, p) /\ Steady(c) /\ Due(c, p, d) <= d /\ tasks[c][p][Due(c, p, d)] # "none" =>
      \/ ListTasks(c, p, d) # {}
      \/ \E e \in Period(c, d) : tasks[c][p][e] = "confirmed"
=============================================================================
