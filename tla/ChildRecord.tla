----------------------------- MODULE ChildRecord -----------------------------
(***************************************************************************)
(* What a family is promised of the learning record of one child, without  *)
(* tablets, transactions and locks: a lesson that is started or finished,  *)
(* an answer, a reading that is begun or completed and a backup that is    *)
(* restored each happen at one moment, on the record as it is then.  Only  *)
(* the day that an answer or a completion counts for may be an earlier one.*)
(***************************************************************************)
EXTENDS Naturals, Sequences, FiniteSetsExt

CONSTANTS
  Lessons, Questions, Readings, Levels,
  MathLimit, PreviousMathLimit, ReadingLimit, MaxStarts

VARIABLES
  today, sessions, ledger,
  starts,  \* readings that were begun: [id, level]
  backups

vars == <<today, sessions, ledger, starts, backups>>

Unfinished(l) ==
  sessions[l].saved /\ ~sessions[l].closed /\ Len(sessions[l].answers) < Questions

Earned(source, date) ==
  MapThenSumSet(LAMBDA r : r.stars, {r \in ledger : r.source = source /\ r.date = date})

\* A day's limit is kept, and nothing is withheld that it leaves.
Fair(stars, full, limit, earned) ==
  /\ stars > 0 => earned + stars <= limit
  /\ stars < full => limit <= earned + stars

Init ==
  /\ today = 1 /\ ledger = {} /\ starts = {} /\ backups = {}
  /\ \A l, m \in Lessons : Unfinished(l) /\ Unfinished(m) => l = m
  /\ \A l \in Lessons : sessions[l].answers = <<>>

Start(l) ==
  /\ ~sessions[l].saved /\ \A m \in Lessons : ~Unfinished(m)
  /\ \A m \in Lessons \ {l} : sessions'[m] = sessions[m]
  /\ sessions'[l].version = 3 /\ Unfinished(l)'
  /\ sessions'[l].answers = <<>>
  /\ UNCHANGED <<today, ledger, starts, backups>>

Answer(l, date) ==
  /\ Unfinished(l)
  /\ \E full \in {0, sessions[l].worth} : \E stars \in 0 .. full :
       /\ CASE sessions[l].version = 3 -> Fair(stars, full, MathLimit, Earned("math", date))
            [] sessions[l].version = 2 -> Fair(stars, full, PreviousMathLimit, Earned("math", date))
            [] sessions[l].version = 0 -> stars = full
       /\ sessions' = [sessions EXCEPT ![l].answers =
            Append(@, [full |-> full, stars |-> stars, date |-> date])]
       /\ LET key == <<l, Len(sessions'[l].answers)>>
          IN ledger' = ledger \cup IF stars = 0 THEN {} ELSE
               {[source |-> "math", key |-> key, date |-> date, stars |-> stars, level |-> 0]}
  /\ UNCHANGED <<today, starts, backups>>

Finish(l) ==
  /\ sessions[l].saved
  /\ sessions' = [sessions EXCEPT ![l].closed = TRUE]
  /\ UNCHANGED <<today, ledger, starts, backups>>

\* Some of the older starts may lapse.
Begin(id, level) ==
  /\ \A s \in starts : s.id # id
  /\ \E kept \in SUBSET starts :
       /\ Cardinality(kept) < MaxStarts
       /\ starts' = kept \cup {[id |-> id, level |-> level]}
  /\ UNCHANGED <<today, sessions, ledger, backups>>

\* A reading is paid once.
Complete(id, level, date) ==
  /\ [id |-> id, level |-> level] \in starts
  /\ \A r \in ledger : r.source = "reading" => r.key # id
  /\ \E stars \in 0 .. level :
       /\ Fair(stars, level, ReadingLimit, Earned("reading", date))
       /\ ledger' = ledger \cup {[source |-> "reading", key |-> id, date |-> date,
                                  stars |-> stars, level |-> level]}
  /\ starts' = {s \in starts : s.id # id}
  /\ UNCHANGED <<today, sessions, backups>>

Midnight == today' = today + 1 /\ UNCHANGED <<sessions, ledger, starts, backups>>

Export ==
  /\ backups' = backups \cup {[sessions |-> sessions, ledger |-> ledger]}
  /\ UNCHANGED <<today, sessions, ledger, starts>>

Restore(b) ==
  /\ sessions' = b.sessions /\ ledger' = b.ledger /\ starts' = {}
  /\ UNCHANGED <<today, backups>>

Next ==
  \/ \E l \in Lessons : \/ Start(l) \/ Finish(l)
                        \/ \E date \in 1 .. today : Answer(l, date)
  \/ \E id \in Readings, level \in Levels : \/ Begin(id, level)
                                           \/ \E date \in 1 .. today : Complete(id, level, date)
  \/ Midnight \/ Export
  \/ \E b \in backups : Restore(b)

Spec == Init /\ [][Next]_vars
=============================================================================
