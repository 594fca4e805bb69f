------------------------- MODULE CheckpointSchedule -------------------------
(***************************************************************************)
(* When the collector looks at a game: the NFL weeks of the league's       *)
(* calendar (nflWeek.ts) and the checkpoints planned before a kickoff      *)
(* (oddsCollectionPolicy.ts).  Instants and wall clocks count quarter      *)
(* hours; the wall clock is behind by an offset that changes in the        *)
(* autumn.  A schedule depends on nothing but its inputs: one is planned.  *)
(***************************************************************************)
EXTENDS Integers, Sequences, FiniteSets

CONSTANTS
  Change, Summer, Winter,   \* when the offset changes, and to what
  WeekOne,                  \* the day number on which the first week begins
  Kickoffs, EveningHours, Activations,   \* bound: the inputs tried
  FarInterval, ActiveInterval,
  MaxCheckpoints            \* more than these a priority schedule may not have

VARIABLE plan               \* a schedule, and what it was planned for

Hour == 4
Day == 24 * Hour

\* Intl.DateTimeFormat: how far New York is behind at an instant.
Offset(t) == IF t < Change THEN Summer ELSE Winter
Wall(t) == t - Offset(t)
CalendarDay(t) == Wall(t) \div Day

\* The offset of the wall clock read as an instant is looked up first, then corrected;
\* a version without the correction.
UncorrectedInstant(wall) == wall + Offset(wall)
Instant(wall) == wall + Offset(wall + Offset(wall))

\* Weeks begin on Tuesday at midnight, before the season too.
Week(t) == (CalendarDay(t) - WeekOne) \div 7 + 1

SlateWindow(t) ==
  LET startDay == WeekOne + (Week(t) - 1) * 7
  IN [start |-> Instant(startDay * Day), end |-> Instant((startDay + 7) * Day)]

InSlateWindow(t, window) == window.start <= t /\ t < window.end

\* The instants of a set in order: two checkpoints at one instant would be one here, but
\* no game begins before six in the morning.
InOrder(S) == [i \in 1..Cardinality(S) |-> CHOOSE t \in S : Cardinality({u \in S : u <= t}) = i]

(***************************************************************************)
(* The schedules.  A checkpoint is due until the next one is.              *)
(***************************************************************************)
Checkpoints(dues, kickoff) ==
  [i \in 1..Len(dues) |-> [due |-> dues[i], end |-> IF i = Len(dues) THEN kickoff ELSE dues[i + 1]]]

\* EVENING_CHECKPOINTS: from Tuesday to Sunday.
EveningCheckpoints == 0..5

\* The evenings before the day of the game, six hours and a quarter of an hour before it.
PlanBaselineCheckpoints(kickoff, eveningHour) ==
  LET tuesday == CalendarDay(SlateWindow(kickoff).start)
      days == {d \in {tuesday + n : n \in EveningCheckpoints} : d < CalendarDay(kickoff)}
      evenings == {t \in {Instant(d * Day + eveningHour * Hour) : d \in days} : t < kickoff}
  IN Checkpoints(InOrder(evenings \cup {kickoff - 6 * Hour, kickoff - 1}), kickoff)

\* From its activation a priority target is looked at now and then, and often in the six
\* hours before the kickoff, which begin with a checkpoint.
NextDue(t, kickoff) ==
  LET activeWindow == kickoff - 6 * Hour
  IN IF t >= activeWindow THEN t + ActiveInterval
     ELSE IF t + FarInterval < activeWindow THEN t + FarInterval ELSE activeWindow

PlanPriorityCheckpoints(activatedAt, kickoff) ==
  LET dues[t \in activatedAt..kickoff] ==
        IF NextDue(t, kickoff) < kickoff THEN <<t>> \o dues[NextDue(t, kickoff)] ELSE <<t>>
  IN Checkpoints(dues[activatedAt], kickoff)

PlanBaseline(kickoff, eveningHour) ==
  plan' = [kind |-> "baseline", kickoff |-> kickoff, from |-> eveningHour,
           checkpoints |-> PlanBaselineCheckpoints(kickoff, eveningHour)]

\* A target is activated before the kickoff.
PlanPriority(kickoff, activatedAt) ==
  LET checkpoints == PlanPriorityCheckpoints(activatedAt, kickoff)
  IN /\ activatedAt < kickoff /\ Len(checkpoints) <= MaxCheckpoints
     /\ plan' = [kind |-> "priority", kickoff |-> kickoff, from |-> activatedAt,
                 checkpoints |-> checkpoints]

LInit == plan = [kind |-> "none", kickoff |-> 0, from |-> 0, checkpoints |-> <<>>]
LNext ==
  /\ plan.kind = "none"
  /\ \E kickoff \in Kickoffs :
       \/ \E hour \in EveningHours : PlanBaseline(kickoff, hour)
       \/ \E before \in Activations : PlanPriority(kickoff, kickoff - before)

\* The windows of a schedule follow each other without gap or overlap and end with the
\* kickoff, in the week that the game counts for; evenings are at the hour that the clocks
\* of that day show, also when they change; and a priority target is looked at from its
\* activation on, never later than an interval after the last time.
ScheduleSound ==
  LET S == plan.checkpoints
      n == Len(S)
      window == SlateWindow(plan.kickoff)
  IN plan.kind # "none" =>
       /\ \A i \in 1..n : S[i].due < S[i].end /\ S[i].end = IF i = n THEN plan.kickoff ELSE S[i + 1].due
       /\ InSlateWindow(plan.kickoff, window)
       /\ plan.kind = "baseline" =>
            /\ \A i \in 1..n : InSlateWindow(S[i].due, window)
            /\ \A d \in CalendarDay(window.start)..(CalendarDay(plan.kickoff) - 1) :
                 d < CalendarDay(window.start) + 6 =>
                   \E i \in 1..(n - 2) : Wall(S[i].due) = d * Day + plan.from * Hour
       /\ plan.kind = "priority" =>
            /\ S[1].due = plan.from
            /\ \A i \in 1..n :
                 S[i].end - S[i].due <= IF S[i].due < plan.kickoff - 6 * Hour THEN FarInterval
                                                                            ELSE ActiveInterval
=============================================================================
