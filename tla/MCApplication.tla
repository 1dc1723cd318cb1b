---------------------------- MODULE MCApplication ----------------------------
(***************************************************************************)
(* The detection of the hazard mode and the configuration database, which  *)
(* share no state: the first state chooses the one a run continues with.   *)
(* The values of the configuration are those of MCFlashDb.                 *)
(***************************************************************************)
EXTENDS HazardHistory, MCFlashDb

VARIABLE part

ApplicationInit == HistoryInit /\ FlashInit /\ part \in {"hazard", "database"}

ApplicationNext ==
    \/ part = "hazard" /\ HistoryNext /\ UNCHANGED <<dbvars, part>>
    \/ part = "database" /\ FlashNext /\ UNCHANGED <<histvars, part>>

ApplicationSpec == ApplicationInit /\ [][ApplicationNext]_<<histvars, dbvars, part>>
============================================================================
