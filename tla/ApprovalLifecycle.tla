-------------------------- MODULE ApprovalLifecycle --------------------------
(***************************************************************************)
(* What the run lifecycle promises about approval, without records, files  *)
(* or requests: a run is prepared, put before a human once, decided once,  *)
(* and its content leaves the system only after the decision was approve.  *)
(***************************************************************************)

VARIABLES
    phase,      \* how far the run has come
    published   \* whether any of its content has been written out

vars == <<phase, published>>

TypeOK ==
    /\ phase \in {"preparing", "pending", "approved", "refused", "executed"}
    /\ published \in BOOLEAN

Init == phase = "preparing" /\ published = FALSE

\* The approval is asked for.
Ask == phase = "preparing" /\ phase' = "pending" /\ UNCHANGED published

\* The one decision; a request for a revision refuses the run as it stands.
Decide ==
    /\ phase = "pending"
    /\ phase' \in {"approved", "refused"}
    /\ UNCHANGED published

\* Content is written out, for the first time or again by a second request.
Emit ==
    /\ phase \in {"approved", "executed"}
    /\ published' = TRUE
    /\ UNCHANGED phase

Conclude ==
    /\ phase = "approved" /\ published
    /\ phase' = "executed"
    /\ UNCHANGED published

Next == Ask \/ Decide \/ Emit \/ Conclude

Spec == Init /\ [][Next]_vars
=============================================================================
