--------------------------- MODULE MCBusinessHours ---------------------------
(* Small instances of BusinessHours for TLC. *)
EXTENDS BusinessHours

\* All schedules of at most two slots, empty and inverted slots included.
MCSchedules ==
  {{}} \cup {{s, u} : s \in Slot, u \in Slot}

MCHolidaySets == SUBSET {0, 1}
MCStarts == 0..DayLength - 1
MCTargets == {0, 1, 3, 4}

=============================================================================
