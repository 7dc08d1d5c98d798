---------------------------- MODULE BusinessHours ----------------------------
(***************************************************************************)
(* addBusinessMinutes (sla/business-hours.util.ts), the walk that turns an *)
(* SLA target into a due date: from an instant, forward through the slots  *)
(* of a weekly schedule, past holidays, until the minutes are used up.     *)
(*                                                                         *)
(* An instant is a minute counted from a midnight in the schedule's time   *)
(* zone, so its day and its minute of the day are a quotient and a         *)
(* remainder.  Seconds, and days that are longer or shorter because the    *)
(* clocks change, are left out.                                            *)
(***************************************************************************)
EXTENDS Integers, FiniteSets

CONSTANTS
  DayLength,       \* 1440
  WeekLength,      \* 7
  MaxDaysScanned,  \* MAX_DAYS_SCANNED
  Schedules,       \* sets of slots to walk through
  HolidaySets,     \* sets of days off
  Starts,          \* instants to start from
  Targets          \* minutes to add

Slot == [dayOfWeek : 0..WeekLength - 1,
         startMinute : 0..DayLength, endMinute : 0..DayLength]

\* The bounds are those of business-hours-slot.dto.ts.
ASSUME BusinessHoursAssumption ==
  /\ DayLength \in Nat \ {0} /\ WeekLength \in Nat \ {0}
  /\ MaxDaysScanned \in Nat
  /\ Schedules \subseteq SUBSET Slot
  /\ HolidaySets \subseteq SUBSET Nat
  /\ Starts \subseteq Nat /\ Targets \subseteq Nat

VARIABLES
  slots, holidays, start, minutesToAdd,    \* the arguments
  cursor,          \* the instant reached
  remaining,       \* minutes still owed
  daysScanned,
  daySlots,        \* slots of the cursor's day not looked at yet
  pc

args == <<slots, holidays, start, minutesToAdd>>
vars == <<args, cursor, remaining, daysScanned, daySlots, pc>>

Day(t) == t \div DayLength
MinuteOfDay(t) == t % DayLength
StartOfDay(t) == Day(t) * DayLength

LargerOf(a, b) == IF a >= b THEN a ELSE b

\* The slots of a day: none on a holiday.
OpenOn(day) ==
  {s \in slots : s.dayOfWeek = day % WeekLength /\ day \notin holidays}

SlotStart(s) == LargerOf(s.startMinute, MinuteOfDay(cursor))

\* Mutant: a slot that is behind the cursor is not skipped.
BehindNever(s) == s.endMinute < s.startMinute

Behind(s) == SlotStart(s) >= s.endMinute

Available(s) == s.endMinute - SlotStart(s)

Init ==
  /\ slots \in Schedules /\ holidays \in HolidaySets
  /\ start \in Starts /\ minutesToAdd \in Targets
  /\ cursor = start
  /\ remaining = minutesToAdd
  /\ daysScanned = 0
  /\ daySlots = {}
  /\ pc = IF slots = {} THEN "unscheduled" ELSE "scan"

\* No slots at all: wall-clock addition.
AddWallClock ==
  /\ pc = "unscheduled"
  /\ cursor' = start + minutesToAdd
  /\ pc' = "done"
  /\ UNCHANGED <<args, remaining, daysScanned, daySlots>>

\* Mutant: one day fewer is looked at.
GaveUpEarly == daysScanned >= MaxDaysScanned

GaveUp == daysScanned > MaxDaysScanned

EnterDay ==
  /\ pc = "scan" /\ remaining > 0 /\ ~GaveUp
  /\ daysScanned' = daysScanned + 1
  /\ daySlots' = OpenOn(Day(cursor))
  /\ pc' = "slots"
  /\ UNCHANGED <<args, cursor, remaining>>

\* daysScanned++ > MAX_DAYS_SCANNED
GiveUp ==
  /\ pc = "scan" /\ remaining > 0 /\ GaveUp
  /\ daysScanned' = daysScanned + 1
  /\ pc' = "thrown"
  /\ UNCHANGED <<args, cursor, remaining, daySlots>>

Return ==
  /\ pc = "scan" /\ remaining = 0
  /\ pc' = "done"
  /\ UNCHANGED <<args, cursor, remaining, daysScanned, daySlots>>

\* Mutant: slots are taken as the query returned them.
EarliestUnsorted(s) == s \in daySlots

\* sort((a, b) => a.startMinute - b.startMinute)
Earliest(s) == \A u \in daySlots : s.startMinute <= u.startMinute

Skip(s) ==
  /\ Behind(s)
  /\ UNCHANGED <<cursor, remaining, pc>>

Finish(s) ==
  /\ ~Behind(s) /\ remaining <= Available(s)
  /\ cursor' = StartOfDay(cursor) + SlotStart(s) + remaining
  /\ remaining' = 0
  /\ pc' = "done"

Consume(s) ==
  /\ ~Behind(s) /\ remaining > Available(s)
  /\ remaining' = remaining - Available(s)
  /\ UNCHANGED <<cursor, pc>>

TakeSlot(s) ==
  /\ pc = "slots"
  /\ s \in daySlots /\ Earliest(s)
  /\ daySlots' = daySlots \ {s}
  /\ Skip(s) \/ Finish(s) \/ Consume(s)
  /\ UNCHANGED <<args, daysScanned>>

\* Mutant: the next iteration looks at the same day, and does not count.
NextDayStuck ==
  /\ pc = "slots" /\ daySlots = {}
  /\ cursor' = StartOfDay(cursor)
  /\ daysScanned' = daysScanned - 1
  /\ pc' = "scan"
  /\ UNCHANGED <<args, remaining, daySlots>>

NextDay ==
  /\ pc = "slots" /\ daySlots = {}
  /\ cursor' = StartOfDay(cursor) + DayLength
  /\ pc' = "scan"
  /\ UNCHANGED <<args, remaining, daysScanned, daySlots>>

Next ==
  \/ AddWallClock \/ EnterDay \/ GiveUp \/ Return \/ NextDay
  \/ \E s \in daySlots : TakeSlot(s)

Spec == Init /\ [][Next]_vars
FairSpec == Spec /\ WF_vars(Next)

-----------------------------------------------------------------------------
(* What a due date means *)

\* The minutes the team works in, and how many of them an interval holds.
Business(t) ==
  \E s \in OpenOn(Day(t)) :
    s.startMinute <= MinuteOfDay(t) /\ MinuteOfDay(t) < s.endMinute

Worked(from, to) == Cardinality({t \in from..to - 1 : Business(t)})

\* No two slots of a day overlap (an empty one overlaps nothing).
Disjoint ==
  \A s, u \in slots :
    s # u /\ s.dayOfWeek = u.dayOfWeek =>
      \/ s.endMinute <= u.startMinute \/ u.endMinute <= s.startMinute
      \/ s.endMinute <= s.startMinute \/ u.endMinute <= u.startMinute

TypeOK ==
  /\ slots \subseteq Slot /\ holidays \subseteq Nat
  /\ start \in Nat /\ minutesToAdd \in Nat
  /\ cursor \in Nat
  /\ remaining \in 0..minutesToAdd
  /\ daysScanned \in 0..MaxDaysScanned + 2
  /\ daySlots \subseteq slots
  /\ pc \in {"unscheduled", "scan", "slots", "done", "thrown"}

\* A target of n business minutes is due when exactly n of them have passed:
\* the due date ends a business minute, and n business minutes lie before it.
IsExact ==
  pc = "done" /\ slots # {} =>
    /\ Worked(start, cursor) = minutesToAdd
    /\ minutesToAdd > 0 => Business(cursor - 1)

\* It is so for every schedule whose slots do not overlap, whatever the
\* order they were entered in, where in the day the ticket arrives, and how
\* holidays fall.
DueDateIsExact == Disjoint => IsExact

\* The team never gets more time than promised, overlapping slots or not.
NeverLate ==
  pc = "done" /\ slots # {} => Worked(start, cursor) <= minutesToAdd

\* Both: the due date is the promised one, or with overlapping slots an
\* earlier one, never a later one.
DueDateIsRight == DueDateIsExact /\ NeverLate

\* The walk gives up only if the days of its window really do not hold the
\* minutes: a reachable due date is found.
GivesUpOnlyIfHopeless ==
  pc = "thrown" =>
    Worked(start, StartOfDay(start) + (MaxDaysScanned + 1) * DayLength)
      < minutesToAdd

\* Every call returns or throws, schedules that are never open included.
Terminates == <>(pc \in {"done", "thrown"})

-----------------------------------------------------------------------------
(* What the source says of it and the code does not keep *)

\* business-hours.util.ts:21: "Adds `minutesToAdd` *business* minutes to
\* `start`", for any schedule the endpoint accepts.
MinutesAreBusinessMinutes == IsExact

=============================================================================
