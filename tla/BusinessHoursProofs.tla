------------------------- MODULE BusinessHoursProofs -------------------------
(***************************************************************************)
(* What holds of BusinessHours for every length of a day and a week, every *)
(* schedule, every set of holidays, every start and every target.          *)
(*                                                                         *)
(* The loop invariant counts business minutes: those before the cursor,    *)
(* and those of today that lie in slots already taken, are the minutes     *)
(* used up.  That slots do not overlap makes "at most" into "exactly";     *)
(* that they are taken in order means that none is left out before the     *)
(* due date.                                                               *)
(*                                                                         *)
(* The walk also comes to its end: a number, the days left and the slots   *)
(* left of today, falls with every step, and until the walk is over it can *)
(* go on.                                                                  *)
(***************************************************************************)
EXTENDS BusinessHours, FiniteSetTheorems, WellFoundedInduction, TLAPS

\* The definitions of BusinessHours with schedule and holidays as arguments.
Open(S, H, day) == {s \in S : s.dayOfWeek = day % WeekLength /\ day \notin H}

Within(s, t) ==
  s.startMinute <= MinuteOfDay(t) /\ MinuteOfDay(t) < s.endMinute

Worktime(S, H, from, to) ==
  {t \in from..to - 1 : \E s \in Open(S, H, Day(t)) : Within(s, t)}

Count(S, H, from, to) == Cardinality(Worktime(S, H, from, to))

Apart(S) ==
  \A s, u \in S : s # u /\ s.dayOfWeek = u.dayOfWeek =>
    \/ s.endMinute <= u.startMinute \/ u.endMinute <= s.startMinute
    \/ s.endMinute <= s.startMinute \/ u.endMinute <= u.startMinute

\* The rest of the day from c on, as far as slots of T cover it.
Covered(c, T) ==
  {t \in c..StartOfDay(c) + DayLength - 1 : \E s \in T : Within(s, t)}

Taken == Open(slots, holidays, Day(cursor)) \ daySlots

\* The definitions above say what those of BusinessHours say.
LEMMA Renaming ==
  /\ \A day : OpenOn(day) = Open(slots, holidays, day)
  /\ \A a, b : Worked(a, b) = Count(slots, holidays, a, b)
  /\ \A t : Business(t) <=> \E s \in Open(slots, holidays, Day(t)) : Within(s, t)
  /\ Disjoint <=> Apart(slots)
<1>1. \A day : OpenOn(day) = Open(slots, holidays, day)
  BY DEF OpenOn, Open
<1>2. \A t : Business(t) <=>
        \E s \in Open(slots, holidays, Day(t)) : Within(s, t)
  BY <1>1 DEF Business, Within
<1>3. \A a, b : Worked(a, b) = Count(slots, holidays, a, b)
  BY <1>2 DEF Worked, Count, Worktime
<1>4. Disjoint <=> Apart(slots)
  BY DEF Disjoint, Apart
<1> QED
  BY <1>1, <1>2, <1>3, <1>4

-----------------------------------------------------------------------------
(* Days and minutes *)

\* An instant is the midnight before it and a minute of the day.
LEMMA Clock ==
  ASSUME NEW t \in Nat
  PROVE  /\ Day(t) \in Nat /\ MinuteOfDay(t) \in 0..DayLength - 1
         /\ StartOfDay(t) \in Nat
         /\ t = StartOfDay(t) + MinuteOfDay(t)
  BY BusinessHoursAssumption DEF Day, MinuteOfDay, StartOfDay

\* A number has one quotient.
LEMMA Quotient ==
  ASSUME NEW d \in Nat \ {0}, NEW p \in Nat, NEW q \in Nat,
         NEW r \in 0..d - 1, NEW k \in 0..d - 1, p * d + r = q * d + k
  PROVE  p = q /\ r = k
<1>1. ASSUME NEW x \in Nat, NEW y \in Nat, x < y PROVE x * d + d <= y * d
  <2>1. (y - x) * d >= d
    BY <1>1
  <2> QED
    BY <2>1
<1>2. ~(p < q)
  BY <1>1
<1>3. ~(q < p)
  BY <1>1
<1> QED
  BY <1>2, <1>3

\* The instants of the day of c have its day, and their distance from
\* midnight as their minute.
LEMMA SameDay ==
  ASSUME NEW c \in Nat, NEW t \in StartOfDay(c)..StartOfDay(c) + DayLength - 1
  PROVE  /\ t \in Nat /\ Day(t) = Day(c)
         /\ MinuteOfDay(t) = t - StartOfDay(c)
<1>1. /\ DayLength \in Nat \ {0} /\ Day(c) \in Nat
      /\ StartOfDay(c) = Day(c) * DayLength /\ StartOfDay(c) \in Nat
  BY BusinessHoursAssumption, Clock DEF StartOfDay
<1>2. t \in Nat /\ t - StartOfDay(c) \in 0..DayLength - 1
  BY <1>1
<1>3. /\ Day(t) \in Nat /\ MinuteOfDay(t) \in 0..DayLength - 1
      /\ t = Day(t) * DayLength + MinuteOfDay(t)
  BY <1>2, Clock DEF StartOfDay
<1>4. Day(t) * DayLength + MinuteOfDay(t)
        = Day(c) * DayLength + (t - StartOfDay(c))
  BY <1>1, <1>2, <1>3
<1>5. Day(t) = Day(c) /\ MinuteOfDay(t) = t - StartOfDay(c)
  BY <1>1, <1>2, <1>3, <1>4, Quotient
<1> QED
  BY <1>2, <1>5

\* startOf('day').plus({ days: 1 }) is a midnight, later than the cursor.
LEMMA NextMidnight ==
  ASSUME NEW c \in Nat
  PROVE  /\ StartOfDay(c) + DayLength \in Nat
         /\ StartOfDay(StartOfDay(c) + DayLength) = StartOfDay(c) + DayLength
         /\ c < StartOfDay(c) + DayLength
<1> DEFINE u == StartOfDay(c) + DayLength
<1>1. /\ DayLength \in Nat \ {0} /\ Day(c) \in Nat /\ Day(c) + 1 \in Nat
      /\ StartOfDay(c) = Day(c) * DayLength /\ StartOfDay(c) \in Nat
      /\ 0 \in 0..DayLength - 1
  BY BusinessHoursAssumption, Clock DEF StartOfDay
<1>2. u \in Nat /\ u = (Day(c) + 1) * DayLength + 0
  BY <1>1
<1>3. /\ Day(u) \in Nat /\ MinuteOfDay(u) \in 0..DayLength - 1
      /\ u = Day(u) * DayLength + MinuteOfDay(u)
  BY <1>2, Clock DEF StartOfDay
<1>4. MinuteOfDay(u) = 0
  BY <1>1, <1>2, <1>3, Quotient
<1>5. c < u
  BY <1>1, Clock
<1> QED
  BY <1>2, <1>4, <1>5, Clock

-----------------------------------------------------------------------------
(* Counting *)

\* A count is a number, and there is nothing in an interval that is empty.
LEMMA WorktimeFinite ==
  ASSUME NEW S, NEW H, NEW a \in Nat, NEW b \in Nat
  PROVE  /\ IsFiniteSet(Worktime(S, H, a, b)) /\ Count(S, H, a, b) \in Nat
         /\ a >= b => Count(S, H, a, b) = 0
<1>1. IsFiniteSet(a..b - 1)
  BY FS_Interval
<1>2. Worktime(S, H, a, b) \in SUBSET (a..b - 1)
  BY DEF Worktime
<1>3. IsFiniteSet(Worktime(S, H, a, b))
  BY <1>1, <1>2, FS_Subset
<1>4. a >= b => Worktime(S, H, a, b) = {}
  BY <1>2
<1> QED
  BY <1>3, <1>4, FS_CardinalityType, FS_EmptySet DEF Count

\* Intervals that meet add up.
LEMMA CountAdds ==
  ASSUME NEW S, NEW H, NEW a \in Nat, NEW b \in Nat, NEW c \in Nat,
         a <= b, b <= c
  PROVE  Count(S, H, a, c) = Count(S, H, a, b) + Count(S, H, b, c)
<1> DEFINE A == Worktime(S, H, a, b)
           B == Worktime(S, H, b, c)
<1>1. Worktime(S, H, a, c) = A \cup B
  BY DEF Worktime
<1>2. A \cap B = {}
  BY DEF Worktime
<1>3. IsFiniteSet(A) /\ IsFiniteSet(B)
  BY WorktimeFinite
<1>4. /\ Cardinality(A \cup B)
           = Cardinality(A) + Cardinality(B) - Cardinality(A \cap B)
      /\ Cardinality(A \cap B) = 0
      /\ Cardinality(A) \in Nat /\ Cardinality(B) \in Nat
  BY <1>2, <1>3, FS_Union, FS_EmptySet, FS_CardinalityType
<1> QED
  BY <1>1, <1>4 DEF Count

\* What slots cover of a day can be counted.
LEMMA CoveredFinite ==
  ASSUME NEW c \in Nat, NEW T
  PROVE  IsFiniteSet(Covered(c, T)) /\ Cardinality(Covered(c, T)) \in Nat
<1>1. StartOfDay(c) + DayLength - 1 \in Int
  BY Clock, BusinessHoursAssumption
<1>2. IsFiniteSet(c..StartOfDay(c) + DayLength - 1)
  BY <1>1, FS_Interval
<1>3. Covered(c, T) \in SUBSET (c..StartOfDay(c) + DayLength - 1)
  BY DEF Covered
<1> QED
  BY <1>2, <1>3, FS_Subset, FS_CardinalityType

\* What a minute of the cursor's day has to do with a slot.
LEMMA Today ==
  ASSUME NEW c \in Nat, NEW t \in c..StartOfDay(c) + DayLength - 1
  PROVE  /\ t \in Nat /\ Day(t) = Day(c)
         /\ MinuteOfDay(t) = t - StartOfDay(c)
         /\ MinuteOfDay(c) <= MinuteOfDay(t)
<1>1. /\ StartOfDay(c) \in Nat /\ MinuteOfDay(c) \in Nat
      /\ c = StartOfDay(c) + MinuteOfDay(c) /\ DayLength \in Nat
  BY Clock, BusinessHoursAssumption
<1>2. t \in StartOfDay(c)..StartOfDay(c) + DayLength - 1
  BY <1>1
<1>3. t \in Nat /\ Day(t) = Day(c) /\ MinuteOfDay(t) = t - StartOfDay(c)
  BY <1>2, SameDay
<1> QED
  BY <1>1, <1>3

\* The business minutes of the rest of a day are those its slots cover.
LEMMA RestOfDay ==
  ASSUME NEW S, NEW H, NEW c \in Nat
  PROVE  Worktime(S, H, c, StartOfDay(c) + DayLength)
           = Covered(c, Open(S, H, Day(c)))
<1> DEFINE Busy(t) == \E s \in Open(S, H, Day(t)) : Within(s, t)
           Here(t) == \E s \in Open(S, H, Day(c)) : Within(s, t)
           rest == c..StartOfDay(c) + DayLength - 1
<1>1. \A t \in rest : Busy(t) <=> Here(t)
  BY Today
<1> HIDE DEF Busy, Here
<1>2. {t \in rest : Busy(t)} = {t \in rest : Here(t)}
  BY <1>1
<1>3. (StartOfDay(c) + DayLength) - 1 = StartOfDay(c) + DayLength - 1
  BY Clock, BusinessHoursAssumption
<1> QED
  BY <1>2, <1>3 DEF Worktime, Covered, Busy, Here

\* A slot covers the interval from where the day's rest enters it.
LEMMA CoveredSlot ==
  ASSUME NEW c \in Nat, NEW s \in Slot,
         NEW from, from = LargerOf(s.startMinute, MinuteOfDay(c))
  PROVE  /\ from \in Nat
         /\ from >= s.endMinute => Covered(c, {s}) = {}
         /\ from < s.endMinute =>
              /\ Covered(c, {s}) =
                   StartOfDay(c) + from..StartOfDay(c) + s.endMinute - 1
              /\ Cardinality(Covered(c, {s})) = s.endMinute - from
<1>1. /\ StartOfDay(c) \in Nat /\ MinuteOfDay(c) \in Nat
      /\ c = StartOfDay(c) + MinuteOfDay(c) /\ DayLength \in Nat
      /\ s.startMinute \in Nat /\ s.endMinute \in 0..DayLength
  BY Clock, BusinessHoursAssumption DEF Slot
<1>2. from \in Nat /\ from >= s.startMinute /\ from >= MinuteOfDay(c)
      /\ (from = s.startMinute \/ from = MinuteOfDay(c))
  BY <1>1 DEF LargerOf
<1>3. \A t \in c..StartOfDay(c) + DayLength - 1 :
        Within(s, t) <=> t \in StartOfDay(c) + from
                                ..StartOfDay(c) + s.endMinute - 1
  <2> TAKE t \in c..StartOfDay(c) + DayLength - 1
  <2>1. /\ t \in Nat /\ MinuteOfDay(t) = t - StartOfDay(c)
        /\ MinuteOfDay(c) <= MinuteOfDay(t)
    BY Today
  <2> QED
    BY <1>1, <1>2, <2>1 DEF Within
<1>4. StartOfDay(c) + from..StartOfDay(c) + s.endMinute - 1
        \subseteq c..StartOfDay(c) + DayLength - 1
  BY <1>1, <1>2
<1>5. Covered(c, {s}) = StartOfDay(c) + from..StartOfDay(c) + s.endMinute - 1
  BY <1>3, <1>4 DEF Covered
<1>6. from >= s.endMinute => Covered(c, {s}) = {}
  BY <1>1, <1>2, <1>5
<1>7. ASSUME from < s.endMinute
      PROVE  Cardinality(Covered(c, {s})) = s.endMinute - from
  <2> DEFINE a == StartOfDay(c) + from
             b == StartOfDay(c) + s.endMinute - 1
  <2>1. a \in Int /\ b \in Int /\ a <= b /\ b - a + 1 = s.endMinute - from
    BY <1>1, <1>2, <1>7
  <2> HIDE DEF a, b
  <2>2. Cardinality(a..b) = b - a + 1
    BY <2>1, FS_Interval
  <2> QED
    BY <1>5, <2>1, <2>2 DEF a, b
<1> QED
  BY <1>2, <1>5, <1>6, <1>7

\* Taking one more slot: at most its minutes more, exactly if it overlaps
\* none of those taken.
LEMMA TakeOne ==
  ASSUME NEW c \in Nat, NEW T, NEW s
  PROVE  LET before == Cardinality(Covered(c, T))
             after == Cardinality(Covered(c, T \cup {s}))
             one == Cardinality(Covered(c, {s}))
         IN /\ after \in Nat /\ before \in Nat /\ one \in Nat
            /\ after <= before + one
            /\ Covered(c, T) \cap Covered(c, {s}) = {} => after = before + one
<1> DEFINE A == Covered(c, T)
           B == Covered(c, {s})
<1>1. Covered(c, T \cup {s}) = A \cup B
  BY DEF Covered
<1>2. /\ IsFiniteSet(A) /\ IsFiniteSet(B) /\ IsFiniteSet(A \cup B)
      /\ Cardinality(A) \in Nat /\ Cardinality(B) \in Nat
      /\ Cardinality(A \cup B) \in Nat
  BY <1>1, CoveredFinite
<1>3. /\ Cardinality(A \cup B)
           = Cardinality(A) + Cardinality(B) - Cardinality(A \cap B)
      /\ Cardinality(A \cap B) \in Nat
      /\ A \cap B = {} => Cardinality(A \cap B) = 0
  BY <1>2, FS_Union, FS_Intersection, FS_CardinalityType, FS_EmptySet
<1> HIDE DEF A, B
<1>4. /\ Cardinality(A \cup B) <= Cardinality(A) + Cardinality(B)
      /\ A \cap B = {} =>
           Cardinality(A \cup B) = Cardinality(A) + Cardinality(B)
  BY <1>2, <1>3
<1> QED
  BY <1>1, <1>2, <1>4 DEF A, B

\* Two slots of a day that do not overlap cover no minute twice.
LEMMA ApartCover ==
  ASSUME NEW S \in SUBSET Slot, NEW H, Apart(S), NEW day,
         NEW u \in Open(S, H, day), NEW s \in Open(S, H, day), u # s,
         NEW t \in Nat, Within(u, t)
  PROVE  ~Within(s, t)
<1>1. /\ u.startMinute \in Nat /\ u.endMinute \in Nat
      /\ s.startMinute \in Nat /\ s.endMinute \in Nat
      /\ u.dayOfWeek = s.dayOfWeek /\ u \in S /\ s \in S
  <2>1. u \in Slot /\ s \in Slot
    BY DEF Open
  <2> QED
    BY <2>1, BusinessHoursAssumption DEF Open, Slot
<1>2. MinuteOfDay(t) \in Nat
  BY Clock, BusinessHoursAssumption
<1> QED
  BY <1>1, <1>2 DEF Apart, Within

\* The slot that holds the last minutes owed: what lies before the due date
\* is what the slots taken cover, and the first r minutes of this one.
LEMMA LastSlot ==
  ASSUME NEW S \in SUBSET Slot, NEW H, NEW c \in Nat,
         NEW D, D \subseteq Open(S, H, Day(c)),
         NEW s \in D, \A u \in D : s.startMinute <= u.startMinute,
         \A v \in Open(S, H, Day(c)) \ D : v.startMinute <= s.startMinute,
         NEW from, from = LargerOf(s.startMinute, MinuteOfDay(c)),
         from < s.endMinute,
         NEW r \in Nat, r > 0, r <= s.endMinute - from,
         NEW e, e = StartOfDay(c) + from + r
  PROVE  LET taken == Cardinality(Covered(c, Open(S, H, Day(c)) \ D))
         IN /\ e \in Nat /\ c < e
            /\ Count(S, H, c, e) <= taken + r
            /\ Apart(S) => Count(S, H, c, e) = taken + r
            /\ \E u \in Open(S, H, Day(e - 1)) : Within(u, e - 1)
<1> DEFINE O == Open(S, H, Day(c))
           T == O \ D
           A == Covered(c, T)
           B == StartOfDay(c) + from..e - 1
           W == Worktime(S, H, c, e)
<1>1. /\ StartOfDay(c) \in Nat /\ MinuteOfDay(c) \in Nat
      /\ c = StartOfDay(c) + MinuteOfDay(c) /\ DayLength \in Nat
  BY Clock, BusinessHoursAssumption
<1>2. O \subseteq S /\ O \subseteq Slot /\ s \in O /\ T \subseteq O
  BY DEF Open
<1>3. \A u \in O : u.startMinute \in Nat /\ u.endMinute \in 0..DayLength
  BY <1>2, BusinessHoursAssumption DEF Slot
<1>4. /\ from \in Nat /\ from >= s.startMinute /\ from >= MinuteOfDay(c)
      /\ from = s.startMinute \/ from = MinuteOfDay(c)
  BY <1>1, <1>2, <1>3 DEF LargerOf
<1>5. /\ e \in Nat /\ c < e
      /\ c..e - 1 \subseteq c..StartOfDay(c) + DayLength - 1
      /\ B \subseteq c..e - 1
      /\ e - 1 \in B
  BY <1>1, <1>2, <1>3, <1>4
<1>6. \A t \in c..StartOfDay(c) + DayLength - 1 :
        /\ t \in Nat /\ Day(t) = Day(c)
        /\ MinuteOfDay(t) = t - StartOfDay(c)
        /\ MinuteOfDay(c) <= MinuteOfDay(t)
        /\ Open(S, H, Day(t)) = O
  BY Today
<1>7. \A t \in B : Within(s, t) /\ t \in W
  <2> TAKE t \in B
  <2>1. Within(s, t)
    BY <1>1, <1>2, <1>3, <1>4, <1>5, <1>6 DEF Within
  <2> QED
    BY <2>1, <1>2, <1>5, <1>6 DEF Worktime
<1>8. W \subseteq A \cup B
  <2> SUFFICES ASSUME NEW t \in W PROVE t \in A \cup B
    OBVIOUS
  <2>1. t \in c..e - 1 /\ t \in c..StartOfDay(c) + DayLength - 1
    BY <1>5 DEF Worktime
  <2>2. PICK u \in O : Within(u, t)
    BY <2>1, <1>6 DEF Worktime
  <2>3. CASE u \in T
    BY <2>1, <2>2, <2>3 DEF Covered
  <2>4. CASE u \in D
    <3>1. s.startMinute <= MinuteOfDay(t)
      BY <2>1, <2>2, <2>4, <1>1, <1>2, <1>3, <1>6 DEF Within
    <3> QED
      BY <3>1, <2>1, <1>1, <1>4, <1>5, <1>6
  <2> QED
    BY <2>2, <2>3, <2>4
<1>9. Apart(S) => A \subseteq W /\ A \cap B = {}
  <2> SUFFICES ASSUME Apart(S), NEW t \in A
               PROVE  t \in W /\ t \notin B
    OBVIOUS
  <2>1. t \in c..StartOfDay(c) + DayLength - 1
    BY DEF Covered
  <2>2. PICK v \in T : Within(v, t)
    BY DEF Covered
  <2>3. v \in O /\ v # s /\ v.startMinute <= s.startMinute
    BY <1>2
  <2>4. v \in S /\ s \in S /\ v.dayOfWeek = s.dayOfWeek
    BY <2>3, <1>2 DEF Open
  <2>5. v.endMinute <= s.startMinute
    BY <2>1, <2>2, <2>3, <2>4, <1>1, <1>2, <1>3, <1>4, <1>6
       DEF Apart, Within
  <2>6. t < StartOfDay(c) + from
    BY <2>1, <2>2, <2>3, <2>5, <1>1, <1>2, <1>3, <1>4, <1>6 DEF Within
  <2>7. t \in c..e - 1
    BY <2>1, <2>6, <1>1, <1>4, <1>5
  <2> QED
    BY <2>2, <2>3, <2>6, <2>7, <2>1, <1>1, <1>4, <1>6 DEF Worktime
<1>10. IsFiniteSet(B) /\ Cardinality(B) = r
  <2> DEFINE a == StartOfDay(c) + from
             b == e - 1
  <2>1. a \in Int /\ b \in Int /\ a <= b /\ b - a + 1 = r
    BY <1>1, <1>4
  <2> HIDE DEF a, b
  <2>2. IsFiniteSet(a..b) /\ Cardinality(a..b) = b - a + 1
    BY <2>1, FS_Interval
  <2> QED
    BY <2>1, <2>2 DEF a, b
<1>11. /\ IsFiniteSet(A) /\ Cardinality(A) \in Nat
       /\ IsFiniteSet(W) /\ Cardinality(W) \in Nat
       /\ Count(S, H, c, e) = Cardinality(W)
  BY <1>5, CoveredFinite, WorktimeFinite DEF Count
<1>12. \E u \in Open(S, H, Day(e - 1)) : Within(u, e - 1)
  BY <1>2, <1>5, <1>6, <1>7
<1> HIDE DEF A, B, W
<1>13. /\ Cardinality(A \cup B) = Cardinality(A) + r - Cardinality(A \cap B)
       /\ IsFiniteSet(A \cup B) /\ Cardinality(A \cap B) \in Nat
       /\ A \cap B = {} => Cardinality(A \cap B) = 0
       /\ Cardinality(A \cup B) \in Nat
  BY <1>10, <1>11, FS_Union, FS_Intersection, FS_CardinalityType, FS_EmptySet
<1>14. Cardinality(W) <= Cardinality(A \cup B)
  BY <1>8, <1>13, FS_Subset
<1>15. Cardinality(W) <= Cardinality(A) + r
  BY <1>11, <1>13, <1>14
<1>16. ASSUME Apart(S) PROVE Cardinality(W) = Cardinality(A) + r
  <2>1. W = A \cup B
    BY <1>7, <1>8, <1>9, <1>16
  <2> QED
    BY <2>1, <1>9, <1>11, <1>13, <1>16
<1> QED
  BY <1>5, <1>11, <1>12, <1>15, <1>16 DEF A

-----------------------------------------------------------------------------
(* The loop invariant *)

\* The first minute after n days, the day of the start included.
Midnight(n) == StartOfDay(start) + n * DayLength

\* The minutes worked are at most those used up, exactly them unless slots
\* overlap.
Balanced(worked) ==
  /\ worked <= minutesToAdd - remaining
  /\ Apart(slots) => worked = minutesToAdd - remaining

Before == Count(slots, holidays, start, cursor)

AtScan ==
  pc = "scan" =>
    /\ start <= cursor
    /\ daysScanned <= MaxDaysScanned + 1
    /\ StartOfDay(cursor) = Midnight(daysScanned)
    /\ daysScanned > 0 => cursor = StartOfDay(cursor)
    /\ remaining = 0 => minutesToAdd = 0
    /\ Balanced(Before)

AtSlots ==
  pc = "slots" =>
    /\ start <= cursor /\ remaining > 0
    /\ daysScanned <= MaxDaysScanned + 1
    /\ StartOfDay(cursor) + DayLength = Midnight(daysScanned)
    /\ daySlots \subseteq Open(slots, holidays, Day(cursor))
    /\ \A v \in Taken, u \in daySlots : v.startMinute <= u.startMinute
    /\ Balanced(Before + Cardinality(Covered(cursor, Taken)))

AtReturn ==
  pc = "done" /\ slots # {} =>
    /\ remaining = 0
    /\ Balanced(Before)
    /\ minutesToAdd > 0 => Business(cursor - 1)

AtThrow ==
  pc = "thrown" => Count(slots, holidays, start, Midnight(MaxDaysScanned + 1))
                     < minutesToAdd

Unscheduled == pc = "unscheduled" => slots = {}

Stages == AtScan /\ AtSlots /\ AtReturn /\ AtThrow /\ Unscheduled

IInv == TypeOK /\ Stages

\* An interval without minutes holds no business minutes.
LEMMA NothingYet ==
  ASSUME NEW S, NEW H, NEW a \in Nat
  PROVE  Count(S, H, a, a) = 0
  BY WorktimeFinite

\* Nothing is worked and nothing used up when a call begins.
LEMMA InitInvariant == Init => IInv
<1> SUFFICES ASSUME Init PROVE IInv
  OBVIOUS
<1>1. TypeOK
  BY BusinessHoursAssumption DEF Init, TypeOK
<1>2. /\ StartOfDay(start) \in Nat /\ DayLength \in Nat
      /\ Count(slots, holidays, start, start) = 0
  BY <1>1, Clock, NothingYet, BusinessHoursAssumption DEF TypeOK
<1>3. AtScan
  BY <1>1, <1>2, BusinessHoursAssumption
     DEF Init, AtScan, Balanced, Before, Midnight, TypeOK
<1> QED
  BY <1>1, <1>3 DEF Init, IInv, Stages, AtSlots, AtReturn, AtThrow, Unscheduled

-----------------------------------------------------------------------------
(* The steps *)

\* Every step keeps the types: the cursor stays a number because a slot
\* begins and ends within its day.
LEMMA TypeStep == TypeOK /\ [Next]_vars /\ Stages => TypeOK'
<1> SUFFICES ASSUME TypeOK, [Next]_vars, Stages PROVE TypeOK'
  OBVIOUS
<1> USE BusinessHoursAssumption
<1>1. CASE AddWallClock
  BY <1>1 DEF AddWallClock, TypeOK, args
<1>2. CASE EnterDay
  BY <1>2 DEF EnterDay, TypeOK, args, GaveUp, OpenOn
<1>3. CASE GiveUp
  BY <1>3 DEF GiveUp, TypeOK, args, Stages, AtScan
<1>4. CASE Return
  BY <1>4 DEF Return, TypeOK, args
<1>5. CASE NextDay
  <2>1. cursor' \in Nat
    BY <1>5, NextMidnight DEF NextDay, TypeOK
  <2> QED
    BY <1>5, <2>1 DEF NextDay, TypeOK, args
<1>6. ASSUME NEW s \in daySlots, TakeSlot(s) PROVE TypeOK'
  <2>1. /\ StartOfDay(cursor) \in Nat /\ MinuteOfDay(cursor) \in Nat
        /\ s \in Slot
    BY Clock DEF TypeOK
  <2>2. /\ s.startMinute \in Nat /\ s.endMinute \in Nat
        /\ SlotStart(s) \in Nat
    BY <2>1 DEF Slot, SlotStart, LargerOf
  <2>3. daySlots' \subseteq slots' /\ daysScanned' = daysScanned
        /\ <<slots, holidays, start, minutesToAdd>>'
              = <<slots, holidays, start, minutesToAdd>>
    BY <1>6 DEF TakeSlot, TypeOK, args
  <2>4. CASE Skip(s)
    BY <1>6, <2>3, <2>4 DEF Skip, TypeOK
  <2>5. CASE Finish(s)
    BY <1>6, <2>1, <2>2, <2>3, <2>5 DEF Finish, TypeOK
  <2>6. CASE Consume(s)
    BY <1>6, <2>1, <2>2, <2>3, <2>6
       DEF Consume, TypeOK, Behind, Available
  <2> QED
    BY <1>6, <2>4, <2>5, <2>6 DEF TakeSlot
<1>7. CASE UNCHANGED vars
  BY <1>7 DEF vars, args, TypeOK
<1> QED
  BY <1>1, <1>2, <1>3, <1>4, <1>5, <1>6, <1>7 DEF Next

\* Nothing of a day is taken when the walk enters it.
LEMMA EnterStep == IInv /\ EnterDay => Stages'
<1> SUFFICES ASSUME IInv, EnterDay PROVE Stages'
  OBVIOUS
<1>1. /\ TypeOK /\ AtScan /\ pc = "scan" /\ pc' = "slots"
      /\ remaining > 0 /\ remaining' = remaining
      /\ daysScanned' = daysScanned + 1 /\ daysScanned <= MaxDaysScanned
      /\ daySlots' = Open(slots, holidays, Day(cursor))
      /\ cursor' = cursor /\ slots' = slots /\ holidays' = holidays
      /\ start' = start /\ minutesToAdd' = minutesToAdd
  BY Renaming, BusinessHoursAssumption
     DEF IInv, Stages, EnterDay, args, GaveUp, TypeOK
<1>2. /\ cursor \in Nat /\ start \in Nat /\ daysScanned \in Nat
      /\ DayLength \in Nat /\ MaxDaysScanned \in Nat
      /\ StartOfDay(start) \in Nat /\ StartOfDay(cursor) \in Nat
  BY SMTT(60), <1>1, Clock, BusinessHoursAssumption DEF TypeOK
<1>3. Taken' = {}
  BY <1>1 DEF Taken
<1>4. Cardinality(Covered(cursor, {})) = 0
  BY FS_EmptySet DEF Covered
<1>5. Before \in Nat
  BY <1>2, WorktimeFinite DEF Before
<1>6. Before' = Before /\ StartOfDay(cursor)' = StartOfDay(cursor)
      /\ StartOfDay(start)' = StartOfDay(start)
      /\ Day(cursor)' = Day(cursor)
  BY <1>1 DEF Before
<1>7. Balanced(Before + Cardinality(Covered(cursor, Taken)))'
  BY <1>1, <1>3, <1>4, <1>5, <1>6 DEF AtScan, Balanced
<1>8. StartOfDay(cursor) + DayLength = StartOfDay(start)
                                         + (daysScanned + 1) * DayLength
  BY <1>1, <1>2 DEF AtScan, Midnight
<1>9. AtSlots'
  BY <1>1, <1>2, <1>3, <1>6, <1>7, <1>8 DEF AtSlots, AtScan, Midnight
<1> QED
  BY <1>1, <1>9 DEF Stages, AtScan, AtReturn, AtThrow, Unscheduled

\* What the invariant says while the slots of a day are taken.
LEMMA AtSlotsFacts ==
  ASSUME IInv, pc = "slots"
  PROVE  /\ cursor \in Nat /\ start \in Nat /\ start <= cursor
         /\ StartOfDay(cursor) \in Nat /\ MinuteOfDay(cursor) \in Nat
         /\ remaining \in Nat /\ remaining > 0 /\ minutesToAdd \in Nat
         /\ Before \in Nat /\ Cardinality(Covered(cursor, Taken)) \in Nat
         /\ slots \in SUBSET Slot
         /\ \A s \in daySlots :
              s \in Slot /\ s.startMinute \in Nat /\ s.endMinute \in Nat
<1>1. TypeOK /\ AtSlots
  BY DEF IInv, Stages
<1>2. /\ cursor \in Nat /\ start \in Nat /\ slots \in SUBSET Slot
      /\ remaining \in Nat /\ minutesToAdd \in Nat
      /\ daySlots \subseteq slots
  BY <1>1 DEF TypeOK
<1>3. \A s \in daySlots :
        s \in Slot /\ s.startMinute \in Nat /\ s.endMinute \in Nat
  BY <1>2, BusinessHoursAssumption DEF Slot
<1> QED
  BY <1>1, <1>2, <1>3, Clock, WorktimeFinite, CoveredFinite
     DEF AtSlots, Before

\* A slot that is skipped covers nothing, one that is used up covers its
\* minutes, and these were not covered before.
LEMMA PassStep ==
  ASSUME IInv, NEW s \in daySlots, TakeSlot(s), Skip(s) \/ Consume(s)
  PROVE  Stages'
<1> DEFINE one == Cardinality(Covered(cursor, {s}))
           before == Cardinality(Covered(cursor, Taken))
           after == Cardinality(Covered(cursor, Taken \cup {s}))
<1>1. /\ pc = "slots" /\ pc' = "slots" /\ cursor' = cursor
      /\ slots' = slots /\ holidays' = holidays /\ start' = start
      /\ minutesToAdd' = minutesToAdd /\ daysScanned' = daysScanned
      /\ daySlots' = daySlots \ {s} /\ Earliest(s)
  BY DEF TakeSlot, Skip, Consume, args
<1>2. TypeOK /\ AtSlots
  BY DEF IInv, Stages
<1>3. s \in Open(slots, holidays, Day(cursor))
  BY <1>1, <1>2 DEF AtSlots
<1>4. Taken' = Taken \cup {s}
  BY <1>1, <1>3 DEF Taken
<1>5. /\ SlotStart(s) \in Nat
      /\ SlotStart(s) >= s.endMinute => Covered(cursor, {s}) = {}
      /\ SlotStart(s) < s.endMinute => one = s.endMinute - SlotStart(s)
  <2>1. cursor \in Nat /\ s \in Slot
    BY <1>1, AtSlotsFacts
  <2> QED
    BY <2>1, CoveredSlot DEF SlotStart
<1>6. /\ one \in Nat /\ remaining - remaining' = one
      /\ remaining' > 0 /\ remaining' \in Nat
  <2>1. s.endMinute \in Nat /\ remaining \in Nat /\ remaining > 0
    BY <1>1, AtSlotsFacts
  <2>2. CASE Skip(s)
    BY <2>1, <2>2, <1>5, FS_EmptySet DEF Skip, Behind
  <2>3. CASE Consume(s)
    BY <2>1, <2>3, <1>5 DEF Consume, Behind, Available
  <2> QED
    BY <2>2, <2>3
<1>7. Apart(slots) => Covered(cursor, Taken) \cap Covered(cursor, {s}) = {}
  <2> SUFFICES ASSUME Apart(slots),
                      NEW t \in Covered(cursor, Taken), t \in Covered(cursor, {s})
               PROVE  FALSE
    OBVIOUS
  <2>1. PICK v \in Taken : Within(v, t)
    BY DEF Covered
  <2>2. v \in Open(slots, holidays, Day(cursor)) /\ v # s
    BY <2>1 DEF Taken
  <2>3. t \in Nat
    BY <1>1, AtSlotsFacts, Today DEF Covered
  <2>4. slots \in SUBSET Slot
    BY <1>1, AtSlotsFacts
  <2>5. ~Within(s, t)
    BY <2>1, <2>2, <2>3, <2>4, <1>3, ApartCover
  <2> QED
    BY <2>5 DEF Covered
<1>8. /\ after \in Nat /\ before \in Nat /\ after <= before + one
      /\ Apart(slots) => after = before + one
  BY <1>1, <1>7, AtSlotsFacts, TakeOne
<1>9. /\ Before' = Before /\ Cardinality(Covered(cursor, Taken))' = after
      /\ Apart(slots)' = Apart(slots)
  BY <1>1, <1>4 DEF Before
<1>10. /\ Before + before <= minutesToAdd - remaining
       /\ Apart(slots) => Before + before = minutesToAdd - remaining
  BY <1>1, <1>2 DEF AtSlots, Balanced
<1>11. Balanced(Before + Cardinality(Covered(cursor, Taken)))'
  <2>1. Before \in Nat /\ minutesToAdd \in Nat /\ remaining \in Nat
    BY <1>1, AtSlotsFacts
  <2>2. Before + after <= minutesToAdd - remaining'
    BY <2>1, <1>6, <1>8, <1>10
  <2>3. ASSUME Apart(slots)
        PROVE  Before + after = minutesToAdd - remaining'
    <3>1. after = before + one
          /\ Before + before = minutesToAdd - remaining
      BY <2>3, <1>8, <1>10
    <3> QED
      BY <2>1, <3>1, <1>6, <1>8
  <2> QED
    BY <2>2, <2>3, <1>1, <1>9 DEF Balanced
<1>12. \A v \in Taken', u \in daySlots' : v.startMinute <= u.startMinute
  BY <1>1, <1>2, <1>4 DEF AtSlots, Earliest
<1>13. AtSlots'
  BY <1>1, <1>2, <1>6, <1>11, <1>12 DEF AtSlots, Midnight
<1> QED
  BY <1>1, <1>13 DEF Stages, AtScan, AtReturn, AtThrow, Unscheduled

\* The slot that holds the due date.
LEMMA FinishStep ==
  ASSUME IInv, NEW s \in daySlots, TakeSlot(s), Finish(s)
  PROVE  Stages'
<1> DEFINE before == Cardinality(Covered(cursor, Taken))
           last == Count(slots, holidays, cursor, cursor')
<1>1. /\ pc = "slots" /\ pc' = "done" /\ remaining' = 0
      /\ slots' = slots /\ holidays' = holidays /\ start' = start
      /\ minutesToAdd' = minutesToAdd /\ Earliest(s)
      /\ cursor' = StartOfDay(cursor) + SlotStart(s) + remaining
      /\ ~(SlotStart(s) >= s.endMinute)
      /\ remaining <= s.endMinute - SlotStart(s)
  BY DEF TakeSlot, Finish, args, Behind, Available
<1>2. AtSlots
  BY DEF IInv, Stages
<1>3. /\ SlotStart(s) \in Nat /\ SlotStart(s) < s.endMinute
      /\ SlotStart(s) = LargerOf(s.startMinute, MinuteOfDay(cursor))
  BY <1>1, AtSlotsFacts DEF SlotStart, LargerOf
<1>4. /\ daySlots \subseteq Open(slots, holidays, Day(cursor))
      /\ \A u \in daySlots : s.startMinute <= u.startMinute
      /\ \A v \in Open(slots, holidays, Day(cursor)) \ daySlots :
           v.startMinute <= s.startMinute
      /\ Taken = Open(slots, holidays, Day(cursor)) \ daySlots
  BY <1>1, <1>2 DEF AtSlots, Earliest, Taken
<1>5. /\ slots \in SUBSET Slot /\ cursor \in Nat
      /\ remaining \in Nat /\ remaining > 0
  BY <1>1, AtSlotsFacts
<1>6. /\ cursor' \in Nat /\ cursor < cursor'
      /\ last <= before + remaining
      /\ Apart(slots) => last = before + remaining
      /\ \E u \in Open(slots, holidays, Day(cursor' - 1)) :
           Within(u, cursor' - 1)
  BY SMTT(60), <1>1, <1>3, <1>4, <1>5, LastSlot
<1>7. Count(slots, holidays, start, cursor') = Before + last
  BY <1>1, <1>6, AtSlotsFacts, CountAdds DEF Before
<1>8. Before' = Before + last /\ Apart(slots)' = Apart(slots)
  BY <1>1, <1>7 DEF Before
<1>9. Balanced(Before + before)
  BY <1>1, <1>2 DEF AtSlots
<1>10. /\ Before \in Nat /\ before \in Nat /\ last \in Nat
       /\ minutesToAdd \in Nat
  BY <1>1, <1>6, AtSlotsFacts, WorktimeFinite
<1> HIDE DEF before, last
<1>11. Balanced(Before)'
  BY <1>1, <1>5, <1>6, <1>8, <1>9, <1>10 DEF Balanced
<1>12. Business(cursor - 1)'
  BY <1>1, <1>6 DEF Business, OpenOn, Open, Within
<1> QED
  BY <1>1, <1>11, <1>12
     DEF Stages, AtScan, AtSlots, AtReturn, AtThrow, Unscheduled

\* A day whose slots are all taken is counted whole.
LEMMA NextDayStep == IInv /\ NextDay => Stages'
<1> SUFFICES ASSUME IInv, NextDay PROVE Stages'
  OBVIOUS
<1> DEFINE today == Count(slots, holidays, cursor, cursor')
<1>1. /\ pc = "slots" /\ pc' = "scan" /\ daySlots = {}
      /\ cursor' = StartOfDay(cursor) + DayLength
      /\ remaining' = remaining /\ daysScanned' = daysScanned
      /\ slots' = slots /\ holidays' = holidays /\ start' = start
      /\ minutesToAdd' = minutesToAdd
  BY DEF NextDay, args
<1>2. AtSlots
  BY DEF IInv, Stages
<1>3. /\ cursor' \in Nat /\ cursor < cursor' /\ StartOfDay(cursor') = cursor'
  BY <1>1, AtSlotsFacts, NextMidnight
<1>4. Taken = Open(slots, holidays, Day(cursor))
  BY <1>1 DEF Taken
<1>5. today = Cardinality(Covered(cursor, Taken))
  BY <1>1, <1>4, AtSlotsFacts, RestOfDay DEF Count
<1>6. Count(slots, holidays, start, cursor') = Before + today
  BY <1>1, <1>3, AtSlotsFacts, CountAdds DEF Before
<1>7. Before' = Before + today /\ Apart(slots)' = Apart(slots)
  BY <1>1, <1>6 DEF Before
<1>8. Balanced(Before)'
  BY <1>1, <1>2, <1>5, <1>7 DEF AtSlots, Balanced
<1>9. start <= cursor'
  BY <1>1, <1>3, AtSlotsFacts
<1>10. AtScan'
  BY <1>1, <1>2, <1>3, <1>8, <1>9 DEF AtScan, AtSlots, Midnight, StartOfDay, Day
<1> QED
  BY <1>1, <1>10 DEF Stages, AtSlots, AtReturn, AtThrow, Unscheduled

\* The ends of the walk.
LEMMA EndStep ==
  ASSUME IInv, AddWallClock \/ GiveUp \/ Return
  PROVE  Stages'
<1>1. TypeOK /\ AtScan /\ Unscheduled
  BY DEF IInv, Stages
<1>2. CASE AddWallClock
  BY <1>1, <1>2 DEF AddWallClock, args, Unscheduled,
                    Stages, AtScan, AtSlots, AtReturn, AtThrow
<1>3. CASE GiveUp
  <2>1. /\ pc = "scan" /\ pc' = "thrown" /\ remaining > 0
        /\ daysScanned > MaxDaysScanned /\ cursor' = cursor
        /\ slots' = slots /\ holidays' = holidays /\ start' = start
        /\ minutesToAdd' = minutesToAdd
    BY <1>3 DEF GiveUp, GaveUp, args
  <2>2. daysScanned = MaxDaysScanned + 1
    BY <1>1, <2>1, BusinessHoursAssumption DEF AtScan, TypeOK
  <2>3. cursor = Midnight(MaxDaysScanned + 1)
    BY <1>1, <2>1, <2>2, BusinessHoursAssumption DEF AtScan, TypeOK
  <2>4. Before < minutesToAdd
    <3>1. start \in Nat /\ cursor \in Nat /\ minutesToAdd \in Nat
          /\ remaining \in Nat
      BY <1>1 DEF TypeOK
    <3>2. Before \in Nat
      BY <3>1, WorktimeFinite DEF Before
    <3> QED
      BY <1>1, <2>1, <3>1, <3>2 DEF AtScan, Balanced
  <2>5. AtThrow'
    BY <2>1, <2>3, <2>4 DEF AtThrow, Before, Midnight
  <2> QED
    BY <2>1, <2>5 DEF Stages, AtScan, AtSlots, AtReturn, Unscheduled
<1>4. CASE Return
  <2>1. /\ pc = "scan" /\ pc' = "done" /\ remaining = 0 /\ remaining' = 0
        /\ cursor' = cursor /\ slots' = slots /\ holidays' = holidays
        /\ start' = start /\ minutesToAdd' = minutesToAdd
    BY <1>4 DEF Return, args
  <2>2. Before' = Before /\ Apart(slots)' = Apart(slots) /\ minutesToAdd = 0
    BY <1>1, <2>1 DEF Before, AtScan
  <2>3. AtReturn'
    BY <1>1, <2>1, <2>2 DEF AtReturn, AtScan, Balanced
  <2> QED
    BY <2>1, <2>3 DEF Stages, AtScan, AtSlots, AtThrow, Unscheduled
<1> QED
  BY <1>2, <1>3, <1>4

\* Every step of the walk keeps the invariant.
LEMMA NextInvariant == IInv /\ [Next]_vars => IInv'
<1> SUFFICES ASSUME IInv, [Next]_vars PROVE IInv'
  OBVIOUS
<1>1. TypeOK'
  BY TypeStep DEF IInv
<1>2. CASE AddWallClock \/ GiveUp \/ Return
  BY <1>1, <1>2, EndStep DEF IInv
<1>3. CASE EnterDay
  BY <1>1, <1>3, EnterStep DEF IInv
<1>4. CASE NextDay
  BY <1>1, <1>4, NextDayStep DEF IInv
<1>5. ASSUME NEW s \in daySlots, TakeSlot(s) PROVE Stages'
  <2>1. Skip(s) \/ Finish(s) \/ Consume(s)
    BY <1>5 DEF TakeSlot
  <2> QED
    BY <2>1, <1>5, PassStep, FinishStep
<1>6. CASE UNCHANGED vars
  BY <1>1, <1>6 DEF vars, args, IInv, Stages, AtScan, AtSlots, AtReturn, AtThrow,
              Unscheduled, Before, Taken, Balanced, Midnight,
              Business, OpenOn
<1> QED
  BY <1>1, <1>2, <1>3, <1>4, <1>5, <1>6 DEF Next, IInv

-----------------------------------------------------------------------------
(* The results *)

\* The loop invariant holds throughout every call of addBusinessMinutes.
THEOREM Invariance == Spec => []IInv
  BY InitInvariant, NextInvariant, PTL DEF Spec

\* Every state of every call is well typed: the cursor is never before the
\* epoch, and no more is ever owed than was asked for.
THEOREM TypeCorrect == Spec => []TypeOK
<1>1. IInv => TypeOK
  BY DEF IInv
<1> QED
  BY <1>1, Invariance, PTL

\* addBusinessMinutes returns the instant at which exactly the minutes asked
\* for have been worked, if no two slots of a day overlap.
THEOREM DueDateExact == Spec => []DueDateIsExact
<1>1. IInv => DueDateIsExact
  BY Renaming DEF IInv, Stages, AtReturn, Balanced, Before, TypeOK,
                  DueDateIsExact, IsExact
<1> QED
  BY <1>1, Invariance, PTL

\* It never returns a later instant, whatever the slots.
THEOREM DueDateNeverLate == Spec => []NeverLate
<1>1. IInv => NeverLate
  BY Renaming DEF IInv, Stages, AtReturn, Balanced, Before, TypeOK, NeverLate
<1> QED
  BY <1>1, Invariance, PTL

\* Both together, as the run checks them.
THEOREM DueDateRight == Spec => []DueDateIsRight
<1>1. DueDateIsExact /\ NeverLate => DueDateIsRight
  BY DEF DueDateIsRight
<1> QED
  BY <1>1, DueDateExact, DueDateNeverLate, PTL

\* It throws only if the days it may look at do not hold the minutes.
THEOREM GivesUpRightly == Spec => []GivesUpOnlyIfHopeless
<1>1. IInv => GivesUpOnlyIfHopeless
  BY Renaming DEF IInv, Stages, AtThrow, Midnight, GivesUpOnlyIfHopeless
<1> QED
  BY <1>1, Invariance, PTL

-----------------------------------------------------------------------------
(* Why the walk ends *)

\* A day takes a step for each of its slots, one to enter it and one to leave
\* it, and only so many days are looked at: an upper bound on the steps that
\* are left.
DayCost == Cardinality(slots) + 2
DaysLeft == MaxDaysScanned + 2 - daysScanned

Fuel ==
  CASE pc = "scan" -> DaysLeft * DayCost + 1
    [] pc = "slots" -> DaysLeft * DayCost + Cardinality(daySlots) + 2
    [] pc = "unscheduled" -> 1
    [] OTHER -> 0

\* Some action's guard holds: AddWallClock's, EnterDay's, GiveUp's, Return's,
\* NextDay's, or TakeSlot's with one of its three ways to use a slot.
CanGoOn ==
  \/ pc = "unscheduled"
  \/ pc = "scan" /\ remaining > 0 /\ ~GaveUp
  \/ pc = "scan" /\ remaining > 0 /\ GaveUp
  \/ pc = "scan" /\ remaining = 0
  \/ pc = "slots" /\ daySlots = {}
  \/ /\ pc = "slots"
     /\ \E s \in daySlots :
          /\ Earliest(s)
          /\ \/ Behind(s)
             \/ ~Behind(s) /\ remaining <= Available(s)
             \/ ~Behind(s) /\ remaining > Available(s)

\* There are finitely many slots a week can have.
LEMMA SlotsFinite ==
  ASSUME NEW T, T \subseteq Slot
  PROVE  IsFiniteSet(T) /\ Cardinality(T) \in Nat
<1> DEFINE Days == 0..WeekLength - 1
           Minutes == 0..DayLength
           Triples == Days \X (Minutes \X Minutes)
           f == [x \in Triples |->
                   [dayOfWeek |-> x[1], startMinute |-> x[2][1],
                    endMinute |-> x[2][2]]]
<1>1. IsFiniteSet(Days) /\ IsFiniteSet(Minutes)
  BY FS_Interval, BusinessHoursAssumption
<1>2. IsFiniteSet(Triples)
  BY <1>1, FS_Product
<1>3. f \in Surjection(Triples, Slot)
  <2>1. f \in [Triples -> Slot]
    BY DEF Slot
  <2>2. ASSUME NEW s \in Slot PROVE \E x \in Triples : f[x] = s
    <3> DEFINE x == <<s.dayOfWeek, <<s.startMinute, s.endMinute>>>>
    <3>1. x \in Triples
      BY DEF Slot
    <3>2. f[x] = s
      BY <3>1 DEF Slot
    <3> QED
      BY <3>1, <3>2
  <2> QED
    BY <2>1, <2>2 DEF Surjection
<1>4. IsFiniteSet(Slot)
  BY <1>2, <1>3, FS_Surjection
<1> QED
  BY <1>4, FS_Subset, FS_CardinalityType

\* A set of numbers that is not empty has a smallest one.
LEMMA LeastOf ==
  ASSUME NEW T, T \subseteq Nat, T # {}
  PROVE  \E x \in T : \A y \in T : x <= y
<1> DEFINE R == OpToRel(<, Nat)
<1>1. \A x \in Nat, y \in Nat : <<y, x>> \in R <=> y < x
  BY DEF OpToRel
<1>2. IsWellFoundedOn(R, Nat)
  BY NatLessThanWellFounded
<1> HIDE DEF R
<1>3. PICK x \in T : \A y \in T : ~(<<y, x>> \in R)
  BY <1>2, WFMin
<1>4. ASSUME NEW y \in T PROVE x <= y
  <2>1. x \in Nat /\ y \in Nat /\ ~(y < x)
    BY <1>1, <1>3
  <2> QED
    BY <2>1
<1> QED
  BY <1>4

\* A day whose slots are not all taken has an earliest one.
LEMMA AnEarliest ==
  ASSUME NEW T, T \subseteq Slot, T # {}
  PROVE  \E s \in T : \A u \in T : s.startMinute <= u.startMinute
<1> DEFINE begins == {s.startMinute : s \in T}
<1>1. begins \subseteq Nat /\ begins # {}
  BY BusinessHoursAssumption DEF Slot
<1>2. PICK x \in begins : \A y \in begins : x <= y
  BY <1>1, LeastOf
<1>3. PICK s \in T : x = s.startMinute
  BY <1>2
<1>4. \A u \in T : s.startMinute <= u.startMinute
  BY <1>2, <1>3
<1> QED
  BY <1>4

\* The numbers the measure is made of.
LEMMA Costs ==
  ASSUME IInv
  PROVE  /\ DayCost \in Nat /\ Cardinality(daySlots) + 2 \in 2..DayCost
         /\ IsFiniteSet(daySlots) /\ IsFiniteSet(slots)
         /\ Cardinality(slots) \in Nat /\ Cardinality(daySlots) \in Nat
         /\ DaysLeft \in Nat
<1>1. /\ slots \subseteq Slot /\ daySlots \subseteq slots
      /\ daysScanned \in 0..MaxDaysScanned + 2 /\ MaxDaysScanned \in Nat
  BY BusinessHoursAssumption DEF IInv, TypeOK
<1>2. /\ IsFiniteSet(slots) /\ Cardinality(slots) \in Nat
      /\ IsFiniteSet(daySlots) /\ Cardinality(daySlots) \in Nat
  BY <1>1, SlotsFinite
<1>3. Cardinality(daySlots) <= Cardinality(slots)
  BY <1>1, <1>2, FS_Subset
<1>4. DaysLeft \in Nat
  BY <1>1 DEF DaysLeft
<1> QED
  BY <1>2, <1>3, <1>4 DEF DayCost

LEMMA FuelIsNat == IInv => Fuel \in Nat
<1> SUFFICES ASSUME IInv PROVE Fuel \in Nat
  OBVIOUS
<1>1. DaysLeft * DayCost \in Nat /\ Cardinality(daySlots) \in Nat
  BY Costs
<1> QED
  BY <1>1 DEF Fuel

\* Until the walk has returned or thrown there is a step it can take.
LEMMA NeverStuck == IInv => pc \in {"done", "thrown"} \/ CanGoOn
<1> SUFFICES ASSUME IInv, pc \notin {"done", "thrown"} PROVE CanGoOn
  OBVIOUS
<1>1. /\ pc \in {"unscheduled", "scan", "slots"} /\ daySlots \subseteq Slot
      /\ remaining \in Nat
  BY DEF IInv, TypeOK
<1>2. CASE pc = "slots" /\ daySlots # {}
  <2>1. PICK s \in daySlots : Earliest(s)
    BY <1>1, <1>2, AnEarliest DEF Earliest
  <2>2. Available(s) \in Int
    <3>1. /\ s.startMinute \in Nat /\ s.endMinute \in Nat
          /\ MinuteOfDay(cursor) \in Nat
      BY SMTT(60), <1>1, Clock, BusinessHoursAssumption DEF IInv, TypeOK, Slot
    <3> QED
      BY <3>1 DEF Available, SlotStart, LargerOf
  <2>3. remaining <= Available(s) \/ remaining > Available(s)
    BY <1>1, <2>2
  <2> QED
    BY <1>2, <2>1, <2>3 DEF CanGoOn
<1> QED
  BY <1>1, <1>2 DEF CanGoOn

\* The days get fewer, and within a day its slots.
LEMMA Burns == IInv /\ [Next]_vars => [Fuel' < Fuel]_vars
<1> SUFFICES ASSUME IInv, Next PROVE Fuel' < Fuel
  BY DEF vars
<1>1. /\ DayCost \in Nat /\ DaysLeft \in Nat /\ Fuel \in Nat
      /\ Cardinality(daySlots) + 2 \in 2..DayCost
      /\ IsFiniteSet(daySlots) /\ Cardinality(daySlots) \in Nat
      /\ DaysLeft * DayCost \in Nat
  BY Costs, FuelIsNat
<1>2. slots' = slots
  BY DEF Next, AddWallClock, EnterDay, GiveUp, Return, NextDay, TakeSlot, args
<1>3. CASE AddWallClock \/ GiveUp \/ Return
  <2>1. pc \in {"unscheduled", "scan"} /\ pc' \in {"done", "thrown"}
    BY <1>3 DEF AddWallClock, GiveUp, Return
  <2>2. Fuel' = 0
    BY <2>1 DEF Fuel
  <2>3. Fuel > 0
    BY <1>1, <2>1 DEF Fuel
  <2> QED
    BY <2>2, <2>3
<1>4. CASE EnterDay
  <2>1. /\ pc = "scan" /\ pc' = "slots" /\ daysScanned' = daysScanned + 1
        /\ daysScanned \in Nat /\ daysScanned <= MaxDaysScanned
        /\ MaxDaysScanned \in Nat
    BY <1>4, BusinessHoursAssumption DEF EnterDay, GaveUp, IInv, TypeOK
  <2>2. daySlots' \subseteq slots
    BY <1>4 DEF EnterDay, OpenOn
  <2>3. /\ Cardinality(daySlots)' + 2 <= DayCost' /\ DayCost' = DayCost
        /\ Cardinality(daySlots)' \in Nat
    <3>1. slots \subseteq Slot
      BY DEF IInv, TypeOK
    <3>2. /\ IsFiniteSet(slots) /\ Cardinality(slots) \in Nat
          /\ Cardinality(daySlots') \in Nat
      BY <2>2, <3>1, SlotsFinite
    <3>3. Cardinality(daySlots') <= Cardinality(slots)
      BY <2>2, <3>2, FS_Subset
    <3> QED
      BY <1>2, <3>2, <3>3 DEF DayCost
  <2>4. DaysLeft' = DaysLeft - 1 /\ DaysLeft >= 1
    BY <2>1 DEF DaysLeft
  <2>5. DaysLeft' * DayCost' + DayCost = DaysLeft * DayCost
    BY <1>1, <2>3, <2>4
  <2>6. Fuel' = DaysLeft' * DayCost' + Cardinality(daySlots)' + 2
    BY <2>1 DEF Fuel
  <2>7. Fuel = DaysLeft * DayCost + 1
    BY <2>1 DEF Fuel
  <2>8. DaysLeft' * DayCost' \in Int
    BY <1>1, <2>3, <2>4
  <2> QED
    BY <1>1, <2>3, <2>5, <2>6, <2>7, <2>8
<1>5. CASE NextDay
  <2>1. pc = "slots" /\ pc' = "scan" /\ daysScanned' = daysScanned
    BY <1>5 DEF NextDay
  <2>2. DaysLeft' * DayCost' = DaysLeft * DayCost
    BY <1>2, <2>1 DEF DaysLeft, DayCost
  <2>3. /\ Fuel = DaysLeft * DayCost + Cardinality(daySlots) + 2
        /\ Fuel' = DaysLeft' * DayCost' + 1
    BY <2>1 DEF Fuel
  <2> QED
    BY <1>1, <2>2, <2>3
<1>6. ASSUME NEW s \in daySlots, TakeSlot(s) PROVE Fuel' < Fuel
  <2>1. /\ pc = "slots" /\ daySlots' = daySlots \ {s}
        /\ daysScanned' = daysScanned /\ pc' \in {"slots", "done"}
    BY <1>6 DEF TakeSlot, Skip, Finish, Consume
  <2>2. Cardinality(daySlots)' = Cardinality(daySlots) - 1
    BY <1>1, <2>1, FS_RemoveElement
  <2>3. DaysLeft' * DayCost' = DaysLeft * DayCost
    BY <1>2, <2>1 DEF DaysLeft, DayCost
  <2>4. Fuel = DaysLeft * DayCost + Cardinality(daySlots) + 2
    BY <2>1 DEF Fuel
  <2>5. CASE pc' = "slots"
    <3>1. Fuel' = DaysLeft' * DayCost' + Cardinality(daySlots)' + 2
      BY <2>5 DEF Fuel
    <3> QED
      BY <1>1, <2>2, <2>3, <2>4, <3>1
  <2>6. CASE pc' = "done"
    <3>1. Fuel' = 0
      BY <2>6 DEF Fuel
    <3> QED
      BY <1>1, <2>4, <3>1
  <2> QED
    BY <2>1, <2>5, <2>6
<1> QED
  BY <1>3, <1>4, <1>5, <1>6 DEF Next

\* Every call ends: each step of the walk lowers a number that cannot fall
\* below zero, and as long as it has not returned or thrown there is a step
\* to take, however slots and holidays lie.  What is left to the fairness of
\* FairSpec is that steps are taken at all.
THEOREM EveryStepCounts ==
  Spec => /\ [](Fuel \in Nat /\ (pc \in {"done", "thrown"} \/ CanGoOn))
          /\ [][Fuel' < Fuel]_vars
<1>1. IInv => Fuel \in Nat /\ (pc \in {"done", "thrown"} \/ CanGoOn)
  BY FuelIsNat, NeverStuck
<1> QED
  BY <1>1, Burns, Invariance, PTL DEF Spec

=============================================================================
