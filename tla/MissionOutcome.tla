---------------------------- MODULE MissionOutcome ----------------------------
(***************************************************************************)
(* What a mission promises to whoever triggers it: it comes to one end,    *)
(* completed or failed, and stays there.  This is what the rest of Hermes  *)
(* sees of a mission (module Hermes); MissionControl implements it.        *)
(***************************************************************************)
VARIABLE outcome

Init == outcome = "open"

\* runMission resolves with a result.
End == outcome = "open" /\ outcome' \in {"completed", "failed"}

OneEnd == Init /\ [][End]_outcome

Spec == OneEnd /\ WF_outcome(End)
=============================================================================
