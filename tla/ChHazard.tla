------------------------------ MODULE ChHazard ------------------------------
(***************************************************************************)
(* The detection of the user's hazard mode, hazard_sensor.c of the         *)
(* application: the driver switches the fourways on, off and on again. An  *)
(* edge on one of the two lamp inputs interrupts; both inputs are sampled  *)
(* by a virtual timer somewhat later, two more timers measure how long no  *)
(* edge came. Edges interrupt at a higher priority than the tick and so    *)
(* also between the expiry of a timer and its callback.                    *)
(***************************************************************************)
EXTENDS ChVTTick, FiniteSets

CONSTANTS
    NUM_HAZ,          \* the flashes remembered
    FlashesDetect,    \* dbGetFlashesHazDetect()
    FlashesCancel,    \* dbGetFlashesCancelHazDetect()
    SampleDelay,      \* ticks from an edge to the sampling of both lamps
    TimeoutOff,       \* dbGetTimeoutHazOff(), in ticks
    TimeoutCancel,    \* dbGetTimeoutHazCancel(), in ticks
    TurnSignals       \* edges of a turn signal and noise occur, too

HazardTimers == {"vtsample", "vtoff", "vtcancel"}

ASSUME HazardAssumption ==
    /\ NULL \notin HazardTimers
    /\ {NUM_HAZ, FlashesDetect, FlashesCancel, SampleDelay} \subseteq Nat \ {0}
    /\ TimeoutOff \in Nat /\ SampleDelay < TimeoutOff
    /\ TimeoutCancel \in Nat /\ TimeoutOff < TimeoutCancel
    /\ TurnSignals \in BOOLEAN

VARIABLES
    icu,           \* initHazard() has enabled the input capture
    hazArray, hazIndex, hazSum, hazCount,
    PendHazState,  \* 0..3: PRE0_USER .. PRE3_USER
    HazardState,
    sent           \* the event sent last

hazvars == <<hazArray, hazIndex, hazSum, hazCount>>
hazstate == <<icu, hazvars, PendHazState, HazardState, sent>>
hazardvars == <<timervars, hazstate>>

HazardTypeOK ==
    /\ vtlist \in Seq([vt : HazardTimers, vt_time : 0..TimeoutCancel])
    /\ ticking \in BOOLEAN
    /\ fn \in HazardTimers \cup {NULL}
    /\ icu \in BOOLEAN
    /\ hazArray \in [0..NUM_HAZ - 1 -> 0..1]
    /\ hazIndex \in 0..NUM_HAZ - 1
    /\ hazSum \in 0..NUM_HAZ
    /\ hazCount \in 0..FlashesCancel
    /\ PendHazState \in 0..3
    /\ HazardState \in {"STATE_USER_O", "STATE_USER_H"}
    /\ sent \in {"EVENT_USER_O", "EVENT_USER_H"}

NoFlashes == [i \in 0..NUM_HAZ - 1 |-> 0]

HazardInit ==
    /\ vtlist = <<>> /\ ticking = FALSE /\ fn = NULL
    /\ icu = FALSE
    /\ hazArray = NoFlashes /\ hazIndex = 0 /\ hazSum = 0 /\ hazCount = 0
    /\ PendHazState = 0
    /\ HazardState = "STATE_USER_O"
    /\ sent = "EVENT_USER_O"

----------------------------------------------------------------------------
(* Interrupts of the lamp input, and initHazard() *)

\* Set again, whether armed or not.
Restart(list, t, time) ==
    chVTSetI(IF Armed(list, t) THEN chVTResetI(list, t) ELSE list, t, time)

\* Faulty: the time of the cancel timer is not prolonged.
RestartOffOnly(list) ==
    Restart(chVTSetI(list, "vtsample", SampleDelay), "vtoff", TimeoutOff)

StartTimers(list) ==
    Restart(Restart(chVTSetI(list, "vtsample", SampleDelay), "vtoff", TimeoutOff),
            "vtcancel", TimeoutCancel)

\* An edge that comes before the last one was sampled is ignored.
HazardPeriodCB ==
    /\ Unlocked /\ icu
    /\ ~Armed(vtlist, "vtsample")
    /\ vtlist' = StartTimers(vtlist)
    /\ UNCHANGED <<ticking, fn, hazstate>>

\* One step: the model assumes that no edge comes between icuEnable() and the
\* chVTSet() behind it, which would link vtcancel a second time.
initHazard ==
    /\ ~icu /\ ~ticking
    /\ icu' = TRUE
    /\ vtlist' = chVTSetI(vtlist, "vtcancel", TimeoutCancel)
    /\ UNCHANGED <<ticking, fn, hazvars, PendHazState, HazardState, sent>>

----------------------------------------------------------------------------
(* The tick *)

HazardTick == TickBegins /\ UNCHANGED hazstate

HazardExpire == TakeDueTimer /\ UNCHANGED hazstate

HazardTickDone == TickEnds /\ UNCHANGED hazstate

----------------------------------------------------------------------------
(* The callbacks *)

Callback(t) == fn = t /\ fn' = NULL /\ UNCHANGED <<vtlist, ticking, icu>>

\* Faulty: the window survives the pause.
ForgetCountOnly ==
    /\ hazCount' = 0
    /\ UNCHANGED <<hazArray, hazSum, hazIndex>>

ForgetFlashes ==
    /\ hazArray' = NoFlashes
    /\ hazSum' = 0
    /\ hazCount' = 0
    /\ UNCHANGED hazIndex

\* Faulty: the mode is left without a word.
LeaveSilently ==
    /\ HazardState' = "STATE_USER_O"
    /\ UNCHANGED sent

LeaveHazardMode ==
    /\ HazardState' = "STATE_USER_O"
    /\ sent' = IF HazardState = "STATE_USER_H" THEN "EVENT_USER_O" ELSE sent

\* Faulty: the flash that leaves the window still counts.
AddFlash(old) == hazSum + 1

\* The flashes in the window after one more, which replaces old.
WindowSum(old) == hazSum + 1 - old

\* Both lamps are lit: what the flash does to the state machine.
CountFlash ==
    LET sum == WindowSum(hazArray[hazIndex])
    IN \/ /\ hazCount < FlashesCancel
          /\ hazArray' = [hazArray EXCEPT ![hazIndex] = 1]
          /\ hazSum' = sum
          /\ hazIndex' = (hazIndex + 1) % NUM_HAZ
          /\ LET detected == sum > FlashesDetect
             IN /\ PendHazState' = IF detected /\ PendHazState \in {0, 2}
                                   THEN PendHazState + 1 ELSE PendHazState
                /\ hazCount' = IF detected /\ PendHazState = 1
                               THEN hazCount + 1 ELSE hazCount
                /\ IF detected /\ PendHazState = 2
                   THEN HazardState' = "STATE_USER_H" /\ sent' = "EVENT_USER_H"
                   ELSE UNCHANGED <<HazardState, sent>>
       \/ /\ hazCount >= FlashesCancel
          /\ LeaveHazardMode
          /\ PendHazState' = 0
          /\ hazArray' = NoFlashes /\ hazSum' = 0 /\ hazCount' = 0
          /\ hazIndex' = (hazIndex + 1) % NUM_HAZ

\* One lamp only is a turn signal, none a missed flash.
TimerFlashSample(lsignal, rsignal) ==
    /\ Callback("vtsample")
    /\ \/ lsignal /\ rsignal /\ CountFlash
       \/ /\ ~(lsignal /\ rsignal)
          /\ UNCHANGED <<hazvars, PendHazState, HazardState, sent>>

TimerFlashOff ==
    /\ Callback("vtoff")
    /\ PendHazState' = IF PendHazState = 1 THEN 2 ELSE PendHazState
    /\ ForgetFlashes
    /\ UNCHANGED <<HazardState, sent>>

TimerFlashCancel ==
    /\ Callback("vtcancel")
    /\ \/ PendHazState # 0 /\ LeaveHazardMode /\ PendHazState' = 0
       \/ PendHazState = 0 /\ UNCHANGED <<HazardState, PendHazState, sent>>
    /\ ForgetFlashes

Samples == IF TurnSignals THEN BOOLEAN \X BOOLEAN ELSE {<<TRUE, TRUE>>}

HazardNext ==
    \/ HazardPeriodCB \/ initHazard
    \/ HazardTick \/ HazardExpire \/ HazardTickDone
    \/ \E lr \in Samples : TimerFlashSample(lr[1], lr[2])
    \/ TimerFlashOff \/ TimerFlashCancel

HazardSpec == HazardInit /\ [][HazardNext]_hazardvars

----------------------------------------------------------------------------
(* Properties *)

\* hazSum is the number of flashes in the window, whichever callback reset one of
\* them: otherwise the mode would be detected with too few flashes or never.
SumMatchesWindow ==
    /\ HazardTypeOK
    /\ hazSum = Cardinality({i \in DOMAIN hazArray : hazArray[i] = 1})

\* Who receives the events knows the mode, and the mode is that of the phase: no
\* callback leaves one of the three behind (hazard_sensor.c:175-176, 196-201,
\* 238-246).
EventsTellMode ==
    /\ (HazardState = "STATE_USER_H") <=> (PendHazState = 3)
    /\ (HazardState = "STATE_USER_H") <=> (sent = "EVENT_USER_H")

\* Hazard mode cannot get stuck: its cancel timer is running or its callback is
\* about to run.
HazardModeIsTimed ==
    HazardState = "STATE_USER_H" => Armed(vtlist, "vtcancel") \/ fn = "vtcancel"
============================================================================
