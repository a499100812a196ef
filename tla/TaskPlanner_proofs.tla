-------------------------- MODULE TaskPlanner_proofs --------------------------
(***************************************************************************)
(* For any family, any chores, weeks of any length and any months: a       *)
(* period asks once, nothing that is due is missing from the list, and the *)
(* counts of the leaderboard, and those of the week plan for daily and     *)
(* weekly chores, agree with the tasks.                                    *)
(*                                                                         *)
(* The invariant behind it: a task of a steady chore is on the day that    *)
(* its period asks for.  That this day is one for the whole period is a    *)
(* matter of the calendar, which comes first.                              *)
(***************************************************************************)
EXTENDS TaskPlanner, FiniteSetTheorems, WellFoundedInduction, TLAPS

-----------------------------------------------------------------------------
(* The calendar.                                                           *)

LEMMA Multiple ==
  ASSUME NEW w \in Nat \ {0}, NEW k \in Nat \ {0}
  PROVE  w * k >= w
OBVIOUS

LEMMA DivMod ==
  ASSUME NEW x \in Nat, NEW w \in Nat \ {0}
  PROVE  x = w * (x \div w) + (x % w) /\ x % w \in 0 .. w - 1 /\ x \div w \in Nat
OBVIOUS

LEMMA RemainderIsUnique ==
  ASSUME NEW w \in Nat \ {0}, NEW q \in Int, NEW y \in Int,
         NEW r \in 0 .. w - 1, NEW s \in 0 .. w - 1, w * q + r = w * y + s
  PROVE  r = s
<1>1. w * (q - y) = s - r
  OBVIOUS
<1>2. CASE q > y
  <2>1. q - y \in Nat \ {0}
    BY <1>2
  <2> QED BY <1>1, <2>1, Multiple
<1>3. CASE q < y
  <2>1. y - q \in Nat \ {0} /\ w * (y - q) = r - s
    BY <1>3
  <2> QED BY <2>1, Multiple
<1> QED BY <1>1, <1>2, <1>3

LEMMA Calendar ==
  /\ WeekDays \in Nat \ {0} /\ MaxDay \in Nat \ {0} /\ Days \subseteq Nat \ {0}
  /\ MonthStarts \subseteq Days /\ 1 \in MonthStarts /\ Never \notin Days
BY PlannerAssumption DEF Days, Never

\* A week begins on its Monday, which is a multiple of the week after day 1.
LEMMA WeekBegins ==
  ASSUME NEW d \in Days
  PROVE  /\ Weekday[d] \in 1 .. WeekDays /\ WeekStart[d] = d - (Weekday[d] - 1)
         /\ WeekStart[d] \in Days /\ WeekStart[d] <= d
         /\ \E q \in Nat : WeekStart[d] = WeekDays * q + 1
<1> DEFINE w == WeekDays
           q == d \div w
           r == d % w
<1>1. d \in Nat \ {0} /\ w \in Nat \ {0} /\ d <= MaxDay /\ MaxDay \in Nat
  BY Calendar DEF Days
<1>2. d = w * q + r /\ r \in 0 .. w - 1 /\ q \in Nat
  BY <1>1, DivMod
<1>3. Weekday[d] = IF r = 0 THEN w ELSE r
  BY DEF Weekday
<1>4. WeekStart[d] = d - (Weekday[d] - 1)
  BY DEF WeekStart
<1> HIDE DEF w, q, r
<1>5. CASE r = 0
  <2>1. q # 0 /\ q - 1 \in Nat
    BY <1>1, <1>2, <1>5
  <2>2. WeekStart[d] = w * (q - 1) + 1
    BY <1>1, <1>2, <1>3, <1>4, <1>5, <2>1
  <2>3. w * (q - 1) \in Nat
    BY <1>1, <2>1
  <2> QED BY <1>1, <1>2, <1>3, <1>4, <1>5, <2>1, <2>2, <2>3 DEF Days, w
<1>6. CASE r # 0
  <2>1. WeekStart[d] = w * q + 1 /\ w * q \in Nat
    BY <1>1, <1>2, <1>3, <1>4, <1>6
  <2> QED BY <1>1, <1>2, <1>3, <1>4, <1>6, <2>1 DEF Days, w
<1> QED BY <1>5, <1>6

\* The Monday of a Monday is that day.
LEMMA MondayIsFirst ==
  ASSUME NEW d \in Days
  PROVE  WeekStart[WeekStart[d]] = WeekStart[d] /\ Weekday[WeekStart[d]] = 1
<1> DEFINE w == WeekDays
           m == WeekStart[d]
<1>1. PICK q \in Nat : m = w * q + 1
  BY WeekBegins
<1>2. m \in Days /\ m \in Nat /\ w \in Nat \ {0}
  BY WeekBegins, Calendar
<1>3. m = w * (m \div w) + (m % w) /\ m % w \in 0 .. w - 1 /\ m \div w \in Nat
  BY <1>2, DivMod
<1>4. m % w = IF w = 1 THEN 0 ELSE 1
  <2>1. CASE w = 1
    BY <1>3, <2>1
  <2>2. CASE w # 1
    <3>1. 1 \in 0 .. w - 1
      BY <1>2, <2>2
    <3>2. PICK x \in Nat, r \in 0 .. w - 1 : m = w * x + r /\ r = m % w
      BY <1>3
    <3> HIDE DEF m, w
    <3>3. w * x + r = w * q + 1 /\ x \in Int /\ q \in Int
      BY <1>1, <3>2
    <3>4. r = 1
      BY <1>2, <3>1, <3>3, RemainderIsUnique
    <3> QED BY <2>2, <3>2, <3>4
  <2> QED BY <2>1, <2>2
<1>5. Weekday[m] = 1
  BY <1>2, <1>4 DEF Weekday
<1> QED BY <1>2, <1>5, WeekBegins DEF WeekStart

\* Every set of numbers has a smallest, every set of days a last one.
LEMMA Smallest ==
  ASSUME NEW T \in SUBSET Nat, T # {}
  PROVE  \E x \in T : \A y \in T : x <= y
<1>1. PICK x \in T : \A y \in T : ~ (<<y, x>> \in OpToRel(<, Nat))
  BY NatLessThanWellFounded, WFMin
<1>2. \A y \in T : ~ (y < x)
  BY <1>1 DEF OpToRel
<1> QED BY <1>2

LEMMA LastStart ==
  ASSUME NEW d \in Days
  PROVE  \E m \in MonthStarts : m <= d /\ \A n \in MonthStarts : n <= d => n <= m
<1> DEFINE T == {x \in Nat : \E n \in MonthStarts : n <= d /\ x = d - n}
<1>1. d - 1 \in T
  BY Calendar
<1>2. PICK x \in T : \A y \in T : x <= y
  BY <1>1, Smallest
<1>3. PICK m \in MonthStarts : m <= d /\ x = d - m
  BY <1>2
<1>4. ASSUME NEW n \in MonthStarts, n <= d PROVE n <= m
  <2>1. n \in Nat /\ m \in Nat /\ d \in Nat
    BY Calendar
  <2>2. d - n \in T
    BY <1>4, <2>1
  <2>3. x <= d - n
    BY <1>2, <2>2
  <2> QED BY <1>3, <2>1, <2>3
<1> QED BY <1>3, <1>4

\* A month begins on one of its starts, and that day's month is the same.
LEMMA MonthBegins ==
  ASSUME NEW d \in Days
  PROVE  MonthStart[d] \in MonthStarts /\ MonthStart[d] \in Days /\ MonthStart[d] <= d
         /\ MonthStart[MonthStart[d]] = MonthStart[d]
<1>1. ASSUME NEW e \in Days
      PROVE  /\ MonthStart[e] \in MonthStarts /\ MonthStart[e] <= e
             /\ \A n \in MonthStarts : n <= e => n <= MonthStart[e]
  BY LastStart DEF MonthStart
<1> DEFINE m == MonthStart[d]
<1>2. m \in MonthStarts /\ m \in Days /\ m \in Nat
  BY <1>1, Calendar
<1>3. MonthStart[m] \in MonthStarts /\ MonthStart[m] <= m /\ m <= MonthStart[m]
  BY <1>1, <1>2
<1>4. m \in Nat /\ MonthStart[m] \in Nat
  BY <1>2, <1>3, Calendar
<1>5. MonthStart[m] = m
  BY <1>3, <1>4
<1> QED BY <1>1, <1>2, <1>5

-----------------------------------------------------------------------------
(* The invariant.                                                          *)

\* What does not exist is assigned to nobody.
NothingBefore == \A c \in Chores : chores[c].schedule = "none" =>
                   \A p \in People : assignments[c][p].created = Never

\* A task of a steady chore is on the day that the plan of that very day asks for.
TaskDays == \A c \in Chores : \A p \in People : \A d \in Days :
              Steady(c) /\ tasks[c][p][d] # "none" => Due(c, p, d) = d

Inv == TypeOK /\ NothingBefore /\ TaskDays

TaskStates == {"none", "pending", "completed", "confirmed"}

\* An assignment that was ever made keeps its day, and gets one when it is made.
LEMMA AssignedKeeps ==
  ASSUME NEW a \in [active : BOOLEAN, created : Days \cup {Never}], now \in Days
  PROVE  /\ Assigned(a) \in [active : BOOLEAN, created : Days \cup {Never}]
         /\ Assigned(a).created # Never
         /\ a.created # Never => Assigned(a).created = a.created
BY Calendar DEF Assigned

LEMMA SwitchedOff ==
  ASSUME NEW a \in [active : BOOLEAN, created : Days \cup {Never}]
  PROVE  /\ [a EXCEPT !.active = FALSE] \in [active : BOOLEAN, created : Days \cup {Never}]
         /\ [a EXCEPT !.active = FALSE].created = a.created
         /\ [a EXCEPT !.active = FALSE].active = FALSE
OBVIOUS

\* What an edit of assignments leaves alone: the days of those made, and nobody is
\* asked by one that was never made.
DaysKept == \A c \in Chores : \A p \in People :
  /\ assignments[c][p].created # Never =>
       assignments'[c][p].created = assignments[c][p].created
  /\ assignments'[c][p].created = Never => ~assignments'[c][p].active

AssignmentsOK == assignments \in [Chores -> [People -> [active : BOOLEAN,
                                                       created : Days \cup {Never}]]]

LEMMA SyncKeeps ==
  ASSUME Inv, NEW c \in Chores, NEW list \in SUBSET People, SyncChoreParticipants(c, list)
  PROVE  /\ AssignmentsOK' /\ DaysKept
         /\ \A e \in Chores \ {c} : assignments'[e] = assignments[e]
<1> DEFINE New(p) == IF p \in list THEN Assigned(assignments[c][p])
                     ELSE [assignments[c][p] EXCEPT !.active = FALSE]
<1>1. AssignmentsOK /\ now \in Days
  BY DEF Inv, TypeOK, AssignmentsOK
<1>2. ASSUME NEW p \in People
      PROVE  /\ assignments[c][p] \in [active : BOOLEAN, created : Days \cup {Never}]
             /\ assignments[c][p].created = Never => ~assignments[c][p].active
  BY <1>1 DEF Inv, TypeOK, AssignmentsOK
<1>3. ASSUME NEW p \in People
      PROVE  /\ New(p) \in [active : BOOLEAN, created : Days \cup {Never}]
             /\ assignments[c][p].created # Never =>
                  New(p).created = assignments[c][p].created
             /\ New(p).created = Never => ~New(p).active
  BY <1>1, <1>2, AssignedKeeps, SwitchedOff
<1>4. assignments' = [assignments EXCEPT ![c] = [p \in People |-> New(p)]]
  BY DEF SyncChoreParticipants
<1> HIDE DEF New
<1>5. assignments'[c] = [p \in People |-> New(p)]
      /\ \A e \in Chores \ {c} : assignments'[e] = assignments[e]
  BY <1>1, <1>4 DEF AssignmentsOK
<1>6. [p \in People |-> New(p)] \in [People -> [active : BOOLEAN, created : Days \cup {Never}]]
  BY <1>3
<1>7. AssignmentsOK'
  BY <1>1, <1>4, <1>6 DEF AssignmentsOK
<1>8. ASSUME NEW e \in Chores, NEW p \in People
      PROVE  /\ assignments[e][p].created # Never =>
                  assignments'[e][p].created = assignments[e][p].created
             /\ assignments'[e][p].created = Never => ~assignments'[e][p].active
  <2>1. CASE e = c
    BY <1>3, <1>5, <2>1
  <2>2. CASE e # c
    BY <1>5, <2>2 DEF Inv, TypeOK
  <2> QED BY <2>1, <2>2
<1> QED BY <1>5, <1>7, <1>8 DEF DaysKept

-----------------------------------------------------------------------------
(* Two kinds of steps: edits, which leave the tasks, and steps of tasks.   *)

NoTasks == [d \in Days |-> "none"]

\* The day a task is on: it can be asked for again there.
LEMMA DueOnItsDay ==
  ASSUME Inv, NEW c \in Chores, NEW p \in People, NEW d \in Days, Due(c, p, d) \in Days
  PROVE  Due(c, p, Due(c, p, d)) = Due(c, p, d)
BY MondayIsFirst, MonthBegins DEF Due

LEMMA EditKeeps ==
  ASSUME Inv, AssignmentsOK', DaysKept, tasks' = tasks, now' \in Days,
         people' \subseteq People \cup Parents, people' \cap Parents # {},
         chores' \in [Chores -> [schedule : Schedules \cup {"none"}, edited : BOOLEAN]],
         \A c \in Chores : chores[c].schedule # "none" /\ Steady(c)' =>
           Steady(c) /\ chores'[c].schedule = chores[c].schedule,
         NothingBefore'
  PROVE  Inv'
<1>1. ASSUME NEW c \in Chores, NEW p \in People, assignments'[c][p].created = Never
      PROVE  ~assignments'[c][p].active /\ tasks'[c][p] = NoTasks
  <2>1. assignments[c][p].created = Never
    BY <1>1 DEF DaysKept
  <2> QED BY <1>1, <2>1 DEF DaysKept, Inv, TypeOK, NoTasks
<1>2. TypeOK'
  BY <1>1 DEF TypeOK, Inv, AssignmentsOK, NoTasks
<1>3. ASSUME NEW c \in Chores, NEW p \in People, NEW d \in Days,
             Steady(c)', tasks'[c][p][d] # "none"
      PROVE  Due(c, p, d)' = d
  <2>1. tasks[c][p] # NoTasks /\ tasks[c][p][d] # "none"
    BY <1>3 DEF NoTasks
  <2>2. assignments[c][p].created # Never
    BY <2>1 DEF Inv, TypeOK, NoTasks
  <2>3. chores[c].schedule # "none" /\ assignments'[c][p].created = assignments[c][p].created
    BY <2>2 DEF Inv, NothingBefore, DaysKept
  <2>4. Steady(c) /\ chores'[c].schedule = chores[c].schedule
    BY <1>3, <2>3
  <2>5. Due(c, p, d) = d
    BY <2>1, <2>4 DEF Inv, TaskDays
  <2> QED BY <2>3, <2>4, <2>5 DEF Due
<1>4. TaskDays'
  BY <1>3 DEF TaskDays
<1> QED BY <1>2, <1>4 DEF Inv

LEMMA TaskStepKeeps ==
  ASSUME Inv, UNCHANGED <<now, chores, people, assignments>>,
         tasks' \in [Chores -> [People -> [Days -> TaskStates]]],
         \A c \in Chores : \A p \in People : \A d \in Days :
           tasks'[c][p][d] # "none" =>
             \/ tasks[c][p][d] # "none"
             \/ Asked(c, p) /\ Due(c, p, d) = d
  PROVE  Inv'
<1>1. ASSUME NEW c \in Chores, NEW p \in People, assignments[c][p].created = Never
      PROVE  ~assignments[c][p].active /\ tasks'[c][p] = NoTasks
  <2>1. ~assignments[c][p].active /\ tasks[c][p] = NoTasks
    BY <1>1 DEF Inv, TypeOK, NoTasks
  <2>2. \A d \in Days : tasks[c][p][d] = "none" /\ ~Asked(c, p)
    BY <2>1 DEF NoTasks, Asked
  <2>3. \A d \in Days : tasks'[c][p][d] = "none"
    BY <2>2
  <2>4. tasks'[c][p] \in [Days -> TaskStates]
    OBVIOUS
  <2> QED BY <2>1, <2>3, <2>4 DEF NoTasks
<1>2. TypeOK'
  BY <1>1 DEF TypeOK, Inv, NoTasks, TaskStates
<1>3. TaskDays' /\ NothingBefore'
  <2>1. \A c \in Chores : Steady(c)' <=> Steady(c)
    BY DEF Steady
  <2>2. \A c \in Chores : \A p \in People : \A d \in Days : Due(c, p, d)' = Due(c, p, d)
    BY DEF Due
  <2>3. TaskDays'
    BY <2>1, <2>2 DEF TaskDays, Inv
  <2> QED BY <2>3 DEF NothingBefore, Inv
<1> QED BY <1>2, <1>3 DEF Inv

LEMMA InitKeeps == Init => Inv
<1> SUFFICES ASSUME Init PROVE Inv
  OBVIOUS
<1>1. now \in Days
  BY Calendar DEF Init
<1>2. TypeOK
  BY <1>1, PlannerAssumption DEF Init, TypeOK, NoChore, Unassigned
<1>3. NothingBefore /\ TaskDays
  BY DEF Init, NothingBefore, TaskDays, Steady, NoChore, Unassigned
<1> QED BY <1>2, <1>3 DEF Inv

LEMMA EnsureKeeps ==
  ASSUME Inv, NEW d \in Days, EnsureTasksForDate(d)
  PROVE  Inv'
<1>1. UNCHANGED <<now, chores, people, assignments>>
  BY DEF EnsureTasksForDate
<1>2. ASSUME NEW c \in Chores, NEW p \in People, NEW e \in Days
      PROVE  tasks'[c][p][e] = IF Asked(c, p) /\ Due(c, p, d) = e /\ tasks[c][p][e] = "none"
                               THEN "pending" ELSE tasks[c][p][e]
  BY DEF EnsureTasksForDate
<1>3. ASSUME NEW c \in Chores, NEW p \in People, NEW e \in Days,
             tasks'[c][p][e] # "none", tasks[c][p][e] = "none"
      PROVE  Asked(c, p) /\ Due(c, p, e) = e
  BY <1>2, <1>3, DueOnItsDay
<1>4. \A c \in Chores : \A p \in People : \A e \in Days : tasks[c][p][e] \in TaskStates
  BY DEF Inv, TypeOK, TaskStates
<1>5. tasks' \in [Chores -> [People -> [Days -> TaskStates]]]
  BY <1>4 DEF EnsureTasksForDate, TaskStates
<1> QED BY <1>1, <1>3, <1>5, TaskStepKeeps

LEMMA CompleteKeeps ==
  ASSUME Inv, NEW c \in Chores, NEW p \in People, NEW d \in Days,
         MarkCompleted(c, p, d) \/ MarkConfirmed(c, p, d)
  PROVE  Inv'
<1>1. PICK v \in TaskStates : tasks' = [tasks EXCEPT ![c][p][d] = v]
  BY DEF MarkCompleted, MarkConfirmed, TaskStates
<1>2. tasks[c][p][d] # "none" /\ UNCHANGED <<now, chores, people, assignments>>
  BY DEF MarkCompleted, MarkConfirmed
<1>3. tasks \in [Chores -> [People -> [Days -> TaskStates]]]
  BY DEF Inv, TypeOK, TaskStates
<1>4. tasks' \in [Chores -> [People -> [Days -> TaskStates]]]
  BY <1>1, <1>3
<1>5. ASSUME NEW f \in Chores, NEW q \in People, NEW e \in Days, tasks'[f][q][e] # "none"
      PROVE  tasks[f][q][e] # "none"
  BY <1>1, <1>2, <1>3, <1>5
<1> QED BY <1>2, <1>4, <1>5, TaskStepKeeps

LEMMA InsertKeeps ==
  ASSUME Inv, NEW c \in Chores, NEW s \in Schedules, NEW list \in SUBSET People,
         InsertChore(c, s, list)
  PROVE  Inv'
<1>1. /\ AssignmentsOK' /\ DaysKept
      /\ \A e \in Chores \ {c} : assignments'[e] = assignments[e]
  BY SyncKeeps DEF InsertChore
<1>2. /\ chores[c].schedule = "none" /\ UNCHANGED <<now, people, tasks>>
      /\ chores' = [chores EXCEPT ![c].schedule = s]
  BY DEF InsertChore
<1>3. chores \in [Chores -> [schedule : Schedules \cup {"none"}, edited : BOOLEAN]]
      /\ now \in Days /\ people \subseteq People \cup Parents /\ people \cap Parents # {}
  BY DEF Inv, TypeOK
<1>4. chores' \in [Chores -> [schedule : Schedules \cup {"none"}, edited : BOOLEAN]]
      /\ chores'[c].schedule = s
      /\ \A e \in Chores \ {c} : chores'[e] = chores[e]
  BY <1>2, <1>3
<1>5. s # "none"
  BY DEF Schedules
<1>6. NothingBefore'
  BY <1>1, <1>4, <1>5 DEF NothingBefore, Inv
<1>7. \A e \in Chores : chores[e].schedule # "none" /\ Steady(e)' =>
        Steady(e) /\ chores'[e].schedule = chores[e].schedule
  BY <1>2, <1>4 DEF Steady
<1> QED BY <1>1, <1>2, <1>3, <1>4, <1>6, <1>7, EditKeeps

LEMMA RewriteKeeps ==
  ASSUME Inv, NEW c \in Chores, NEW s \in Schedules, NEW list \in SUBSET People,
         RewriteChore(c, s, list)
  PROVE  Inv'
<1>1. /\ AssignmentsOK' /\ DaysKept
      /\ \A e \in Chores \ {c} : assignments'[e] = assignments[e]
  BY SyncKeeps DEF RewriteChore
<1>2. PICK old \in [schedule : Schedules \cup {"none"}, edited : BOOLEAN] : old = chores[c]
  BY DEF Inv, TypeOK
<1>3. /\ old.schedule # "none" /\ UNCHANGED <<now, people, tasks>>
      /\ chores' = [chores EXCEPT ![c] =
           [schedule |-> s, edited |-> old.edited \/ s # old.schedule]]
  BY <1>2 DEF RewriteChore
<1>4. chores \in [Chores -> [schedule : Schedules \cup {"none"}, edited : BOOLEAN]]
      /\ now \in Days /\ people \subseteq People \cup Parents /\ people \cap Parents # {}
  BY DEF Inv, TypeOK
<1>5. chores' \in [Chores -> [schedule : Schedules \cup {"none"}, edited : BOOLEAN]]
      /\ chores'[c].schedule = s /\ chores'[c].edited = (old.edited \/ s # old.schedule)
      /\ \A e \in Chores \ {c} : chores'[e] = chores[e]
  BY <1>3, <1>4
<1>6. s # "none"
  BY DEF Schedules
<1>7. NothingBefore'
  BY <1>1, <1>5, <1>6 DEF NothingBefore, Inv
<1>8. \A e \in Chores : chores[e].schedule # "none" /\ Steady(e)' =>
        Steady(e) /\ chores'[e].schedule = chores[e].schedule
  BY <1>2, <1>5 DEF Steady
<1> QED BY <1>1, <1>3, <1>4, <1>5, <1>7, <1>8, EditKeeps

LEMMA AssignmentKeeps ==
  ASSUME Inv, NEW c \in Chores, NEW p \in People, InsertAssignment(c, p)
  PROVE  Inv'
<1>1. PICK a \in [active : BOOLEAN, created : Days \cup {Never}] : a = assignments[c][p]
  BY DEF Inv, TypeOK
<1>2. PICK b \in [active : BOOLEAN, created : Days \cup {Never}] :
        b = Assigned(a) /\ b.created # Never /\ (a.created # Never => b.created = a.created)
  BY AssignedKeeps DEF Inv, TypeOK
<1>3. /\ chores[c].schedule # "none" /\ UNCHANGED <<now, chores, people, tasks>>
      /\ assignments' = [assignments EXCEPT ![c][p] = b]
  BY <1>1, <1>2 DEF InsertAssignment
<1>4. AssignmentsOK
  BY DEF Inv, TypeOK, AssignmentsOK
<1>5. AssignmentsOK'
  BY <1>3, <1>4 DEF AssignmentsOK
<1>6. ASSUME NEW e \in Chores, NEW q \in People
      PROVE  assignments'[e][q] = IF e = c /\ q = p THEN b ELSE assignments[e][q]
  BY <1>3, <1>4 DEF AssignmentsOK
<1>7. DaysKept
  <2>1. ASSUME NEW e \in Chores, NEW q \in People
        PROVE  /\ assignments[e][q].created # Never =>
                    assignments'[e][q].created = assignments[e][q].created
               /\ assignments'[e][q].created = Never => ~assignments'[e][q].active
    <3>1. CASE e = c /\ q = p
      BY <1>1, <1>2, <1>6, <3>1
    <3>2. CASE ~(e = c /\ q = p)
      <4>1. assignments'[e][q] = assignments[e][q]
        BY <1>6, <3>2
      <4>2. assignments[e][q].created = Never => ~assignments[e][q].active
        BY DEF Inv, TypeOK
      <4> QED BY <4>1, <4>2
    <3> QED BY <3>1, <3>2
  <2> QED BY <2>1 DEF DaysKept
<1>8. NothingBefore'
  BY <1>3, <1>6 DEF NothingBefore, Inv
<1> QED BY <1>3, <1>5, <1>7, <1>8, EditKeeps DEF Inv, TypeOK, Steady

LEMMA DeactivateKeeps ==
  ASSUME Inv, NEW p \in People \cup Parents, Deactivate(p)
  PROVE  Inv'
<1> DEFINE New(e, q) == IF q = p THEN [assignments[e][q] EXCEPT !.active = FALSE]
                        ELSE assignments[e][q]
<1>1. ASSUME NEW e \in Chores, NEW q \in People
      PROVE  /\ New(e, q) \in [active : BOOLEAN, created : Days \cup {Never}]
             /\ New(e, q).created = assignments[e][q].created
             /\ New(e, q).created = Never => ~New(e, q).active
  <2>1. PICK a \in [active : BOOLEAN, created : Days \cup {Never}] : a = assignments[e][q]
    BY DEF Inv, TypeOK
  <2>2. a.created = Never => ~a.active
    BY <2>1 DEF Inv, TypeOK
  <2> QED BY <2>1, <2>2, SwitchedOff
<1>2. assignments' = [e \in Chores |-> [q \in People |-> New(e, q)]]
      /\ people' = people \ {p} /\ UNCHANGED <<now, chores, tasks>>
  BY DEF Deactivate
<1> HIDE DEF New
<1>3. AssignmentsOK' /\ DaysKept
  BY <1>1, <1>2 DEF AssignmentsOK, DaysKept
<1>4. NothingBefore'
  BY <1>1, <1>2 DEF NothingBefore, Inv
<1>5. people' \cap Parents # {}
  BY <1>2 DEF Deactivate, Inv, TypeOK
<1> QED BY <1>2, <1>3, <1>4, <1>5, EditKeeps DEF Inv, TypeOK, Steady

LEMMA TickKeeps ==
  ASSUME Inv, Tick
  PROVE  Inv'
<1>1. now' \in Days /\ UNCHANGED <<chores, people, assignments, tasks>>
  BY Calendar DEF Tick, Inv, TypeOK, Days
<1>2. AssignmentsOK' /\ DaysKept
  BY <1>1 DEF AssignmentsOK, DaysKept, Inv, TypeOK
<1>3. NothingBefore'
  BY <1>1 DEF NothingBefore, Inv
<1> QED BY <1>1, <1>2, <1>3, EditKeeps DEF Inv, TypeOK, Steady

LEMMA NextKeeps == Inv /\ [Next]_vars => Inv'
<1> SUFFICES ASSUME Inv, [Next]_vars PROVE Inv'
  OBVIOUS
<1>1. CASE UNCHANGED vars
  BY <1>1 DEF vars, Inv, TypeOK, NothingBefore, TaskDays, Steady, Due
<1>2. CASE Tick
  BY <1>2, TickKeeps
<1>3. CASE \E d \in Days : EnsureTasksForDate(d)
  BY <1>3, EnsureKeeps
<1>4. ASSUME NEW by \in People \cup Parents, NEW c \in Chores, NEW p \in People,
             CreateAssignment(by, c, p)
      PROVE  Inv'
  BY <1>4, AssignmentKeeps DEF CreateAssignment
<1>5. ASSUME NEW by \in People \cup Parents, NEW c \in Chores, NEW p \in People,
             NEW d \in Days, CompleteTask(by, c, p, d) \/ ConfirmTask(by, c, p, d)
      PROVE  Inv'
  BY <1>5, CompleteKeeps DEF CompleteTask, ConfirmTask
<1>6. ASSUME NEW by \in People \cup Parents, NEW c \in Chores, NEW s \in Schedules,
             NEW list \in SUBSET People,
             CreateChore(by, c, s, list) \/ UpdateChore(by, c, s, list)
      PROVE  Inv'
  BY <1>6, InsertKeeps, RewriteKeeps DEF CreateChore, UpdateChore
<1>7. ASSUME NEW by \in People \cup Parents, NEW p \in People \cup Parents,
             DeleteParticipant(by, p)
      PROVE  Inv'
  BY <1>7, DeactivateKeeps DEF DeleteParticipant
<1> QED BY <1>1, <1>2, <1>3, <1>4, <1>5, <1>6, <1>7 DEF Next

LEMMA Always == Spec => []Inv
BY InitKeeps, NextKeeps, PTL DEF Spec

-----------------------------------------------------------------------------
(* What follows from it.                                                   *)

\* Two days of one period ask for one task.
LEMMA PeriodAsksOnce ==
  ASSUME Inv, NEW c \in Chores, NEW p \in People, NEW d \in Days, NEW e \in Period(c, d),
         Due(c, p, d) = d, Due(c, p, e) = e
  PROVE  e = d
BY DEF Due, Period, Week, Month

LEMMA PeriodIsDays ==
  ASSUME NEW c \in Chores, NEW d \in Days
  PROVE  Period(c, d) \subseteq Days
BY DEF Period, Week, Month

LEMMA DoneOnceStep == Inv => \A c \in Chores : \A p \in People : \A d \in Days :
       Steady(c) /\ tasks[c][p][d] = "pending" => Done(c, p, Period(c, d)) = {}
<1> SUFFICES ASSUME Inv, NEW c \in Chores, NEW p \in People, NEW d \in Days,
                    Steady(c), tasks[c][p][d] = "pending",
                    NEW e \in Done(c, p, Period(c, d))
             PROVE  FALSE
  BY DEF Done
<1>1. e \in Period(c, d) /\ e \in Days /\ tasks[c][p][e] \in {"completed", "confirmed"}
  BY PeriodIsDays DEF Done
<1>2. Due(c, p, d) = d /\ Due(c, p, e) = e
  BY <1>1 DEF Inv, TaskDays
<1>3. e = d
  BY <1>1, <1>2, PeriodAsksOnce
<1> QED BY <1>1, <1>3

\* What the plan of a day asks for is in the list of that day, or was confirmed.
LEMMA NothingForgotten == Inv => PlanIsComplete
<1> SUFFICES ASSUME Inv, NEW c \in Chores, NEW p \in People, NEW d \in Days,
                    Asked(c, p), Steady(c), Due(c, p, d) <= d,
                    tasks[c][p][Due(c, p, d)] # "none"
             PROVE  \/ ListTasks(c, p, d) # {}
                    \/ \E e \in Period(c, d) : tasks[c][p][e] = "confirmed"
  BY DEF PlanIsComplete
<1> DEFINE e == Due(c, p, d)
<1>1. assignments[c][p].created # Never /\ assignments[c][p].created \in Days \cup {Never}
  BY DEF Asked, Inv, TypeOK
<1>2. e \in Days
  BY <1>1, WeekBegins, MonthBegins DEF Due
<1>3. e \in Period(c, d)
  BY <1>2, MondayIsFirst, MonthBegins DEF Due, Period, Week, Month
<1>4. CASE tasks[c][p][e] = "confirmed"
  BY <1>3, <1>4
<1>5. CASE tasks[c][p][e] # "confirmed"
  <2>1. chores[c].schedule \in Schedules
    BY DEF Asked
  <2>2. e \in ListTasks(c, p, d)
    BY <1>2, <1>5, <2>1 DEF ListTasks, Due, Schedules
  <2> QED BY <2>2
<1> QED BY <1>4, <1>5

\* A week has no more days than it should.
LEMMA WeekIsShort ==
  ASSUME NEW d \in Days
  PROVE  IsFiniteSet(Week[d]) /\ Cardinality(Week[d]) <= WeekDays
<1> DEFINE a == WeekStart[d]
           I == a .. a + WeekDays - 1
<1>1. a \in Int /\ WeekDays \in Nat \ {0}
  BY WeekBegins, Calendar
<1>2. Week[d] \subseteq I
  <2> SUFFICES ASSUME NEW e \in Days, WeekStart[e] = a PROVE e \in I
    BY DEF Week
  <2> QED BY <1>1, WeekBegins, Calendar
<1>3. IsFiniteSet(I) /\ Cardinality(I) = WeekDays
  BY <1>1, FS_Interval
<1> QED BY <1>2, <1>3, FS_Subset

\* Whatever is done was assigned.
LEMMA DoneIsAssigned ==
  ASSUME Inv, NEW c \in Chores, NEW p \in People, Steady(c), NEW S \in SUBSET Days
  PROVE  Done(c, p, S) \subseteq AssignedOn(c, p, S)
<1> SUFFICES ASSUME NEW e \in Done(c, p, S) PROVE e \in AssignedOn(c, p, S)
  OBVIOUS
<1>1. e \in S /\ e \in Days /\ Due(c, p, e) = e
  BY DEF Done, Inv, TaskDays
<1>2. CASE chores[c].schedule = "once"
  BY <1>1, <1>2 DEF AssignedOn, Due
<1>3. CASE chores[c].schedule = "weekly"
  <2>1. Weekday[e] = 1
    BY <1>1, <1>3, MondayIsFirst DEF Due
  <2> QED BY <1>1, <1>3, <2>1 DEF AssignedOn
<1>4. CASE chores[c].schedule = "monthly"
  <2>1. e \in MonthStarts
    BY <1>1, <1>4, MonthBegins DEF Due
  <2> QED BY <1>1, <1>4, <2>1 DEF AssignedOn
<1>5. CASE chores[c].schedule \notin {"once", "weekly", "monthly"}
  BY <1>1, <1>5 DEF AssignedOn
<1> QED BY <1>2, <1>3, <1>4, <1>5

LEMMA CountsAddUp == Inv => PeriodsAddUp
<1> SUFFICES ASSUME Inv, NEW c \in Chores, NEW p \in People, NEW d \in Days, Steady(c)
             PROVE  /\ \A S \in {{d}, Week[d], Month[d]} :
                         Cardinality(Done(c, p, S)) <= Cardinality(AssignedOn(c, p, S))
                    /\ InWeekPlan(c) =>
                         Cardinality(Done(c, p, Week[d])) <= Planned(c)
  BY DEF PeriodsAddUp
<1>1. IsFiniteSet(Days)
  BY Calendar, FS_Interval DEF Days
<1>2. ASSUME NEW S \in SUBSET Days
      PROVE  Cardinality(Done(c, p, S)) <= Cardinality(AssignedOn(c, p, S))
  <2>1. AssignedOn(c, p, S) \subseteq Days
    BY DEF AssignedOn
  <2>2. IsFiniteSet(AssignedOn(c, p, S))
    BY <1>1, <2>1, FS_Subset
  <2> QED BY <2>2, DoneIsAssigned, FS_Subset
<1>3. {d} \subseteq Days /\ Week[d] \subseteq Days /\ Month[d] \subseteq Days
  BY DEF Week, Month
<1>4. ASSUME InWeekPlan(c)
      PROVE  Cardinality(Done(c, p, Week[d])) <= Planned(c)
  <2>1. CASE chores[c].schedule = "daily"
    <3>1. Done(c, p, Week[d]) \subseteq Week[d]
      BY DEF Done
    <3>2. /\ IsFiniteSet(Done(c, p, Week[d]))
          /\ Cardinality(Done(c, p, Week[d])) <= Cardinality(Week[d])
      BY <3>1, WeekIsShort, FS_Subset
    <3>3. /\ Cardinality(Done(c, p, Week[d])) \in Nat /\ Cardinality(Week[d]) \in Nat
          /\ WeekDays \in Nat
      BY <3>2, WeekIsShort, FS_CardinalityType, Calendar
    <3> QED BY <2>1, <3>2, <3>3, WeekIsShort DEF Planned
  <2>2. CASE chores[c].schedule # "daily"
    <3> DEFINE x == WeekStart[d]
    <3>1. chores[c].schedule = "weekly"
      BY <1>4, <2>2 DEF InWeekPlan
    <3>2. Done(c, p, Week[d]) \subseteq {x}
      <4> SUFFICES ASSUME NEW e \in Done(c, p, Week[d]) PROVE e = x
        OBVIOUS
      <4>1. e \in Days /\ e \in Week[d] /\ Due(c, p, e) = e
        BY <1>3 DEF Done, Inv, TaskDays
      <4> QED BY <3>1, <4>1 DEF Due, Week
    <3> HIDE DEF x
    <3>3. IsFiniteSet({x}) /\ Cardinality({x}) = 1
      BY FS_Singleton
    <3>4. Cardinality(Done(c, p, Week[d])) <= 1
      BY <3>2, <3>3, FS_Subset
    <3> QED BY <2>2, <3>4 DEF Planned
  <2> QED BY <2>1, <2>2
<1> QED BY <1>2, <1>3, <1>4

-----------------------------------------------------------------------------
(* The theorems.                                                           *)

\* Every value keeps its kind, no task is made for who was never asked, and a parent
\* stays (DeleteParticipant).
THEOREM TypeCorrectness == Spec => []TypeOK
<1>1. Inv => TypeOK
  BY DEF Inv
<1> QED BY <1>1, Always, PTL

\* Nobody is asked for a chore twice in one period: a task is completed only when no
\* task of its period is done (CompleteTask, EnsureTasksForDate).
THEOREM DoneOnce == Spec => DoneOncePerPeriod
<1>1. Inv /\ [Next]_vars =>
        [\A c \in Chores : \A p \in People : \A d \in Days :
           Steady(c) /\ tasks[c][p][d] = "pending" /\ tasks'[c][p][d] = "completed" =>
             Done(c, p, Period(c, d)) = {}]_vars
  BY DoneOnceStep
<1> QED BY <1>1, Always, PTL DEF Spec, DoneOncePerPeriod

\* What the plan of a day asks for is listed on that day, or was confirmed in its period.
THEOREM PlanComplete == Spec => []PlanIsComplete
BY Always, NothingForgotten, PTL

\* The leaderboard never counts more done than assigned, nor the week plan more done than
\* planned of a daily or weekly chore; its monthly chores are outside the statement.
THEOREM CountsAgree == Spec => []PeriodsAddUp
BY Always, CountsAddUp, PTL
=============================================================================
