--------------------------- MODULE HazardHistory ---------------------------
(***************************************************************************)
(* ChHazard with history variables that record what the driver did, for    *)
(* the properties that the head comment of hazard_sensor.c states in terms *)
(* of flashes and pauses instead of the module's own state.                *)
(***************************************************************************)
EXTENDS ChHazard

CONSTANT MaxFlashes   \* bound of the counted flashes of a burst

ASSUME HistoryAssumption == MaxFlashes \in Nat /\ FlashesDetect < MaxFlashes

VARIABLES
    quiet,   \* ticks since both lamps were last seen lit, up to a bound
    burst,   \* flashes since the lamps were off for TimeoutOff
    first    \* flashes of the longest burst that ended since the last cancel

history == <<quiet, burst, first>>
histvars == <<hazardvars, history>>

AtMost(n, bound) == IF n < bound THEN n ELSE bound

HistoryInit == HazardInit /\ quiet = 0 /\ burst = 0 /\ first = 0

HistoryNext ==
    \/ /\ HazardPeriodCB \/ initHazard \/ HazardExpire \/ HazardTickDone
       /\ UNCHANGED history
    \/ /\ HazardTick
       /\ quiet' = AtMost(quiet + 1, TimeoutCancel + 1)
       /\ UNCHANGED <<burst, first>>
    \/ \E lr \in Samples :
          /\ TimerFlashSample(lr[1], lr[2])
          /\ IF lr[1] /\ lr[2]
             THEN quiet' = 0 /\ burst' = AtMost(burst + 1, MaxFlashes)
             ELSE UNCHANGED <<quiet, burst>>
          /\ UNCHANGED first
    \/ /\ TimerFlashOff
       /\ first' = IF burst > first THEN burst ELSE first
       /\ burst' = 0
       /\ UNCHANGED quiet
    \/ /\ TimerFlashCancel
       /\ first' = 0
       /\ burst' = 0
       /\ UNCHANGED quiet

HistorySpec == HistoryInit /\ [][HistoryNext]_histvars

\* Hazard mode is entered only by the last flash of a second burst: one burst ended
\* with a pause before, since then the lamps were never off for so long that the
\* mode is cancelled, and both bursts have more than FlashesDetect flashes.
EntryNeedsTwoBursts ==
    [][(HazardState = "STATE_USER_O" /\ HazardState' = "STATE_USER_H") =>
          first > FlashesDetect /\ burst' > FlashesDetect]_histvars

\* "User Hazard Mode is disable by - fourways off for at least 20 seconds"
\* (hazard_sensor.c:34-35), the time the code takes from the database.
OffCancelsHazard == HazardState = "STATE_USER_H" => quiet <= TimeoutCancel
============================================================================
