---------------------------- MODULE ControlActions ----------------------------
(***************************************************************************)
(* The control actions on a registered run (control-plane/run-registry)    *)
(* and the canonical table of run states that the Operating Core publishes *)
(* beside it (core/state).  An action is decided from the record it reads  *)
(* and then, after the enforcement has been waited for, written over the   *)
(* record there is: both are functions, of the state read and of the state *)
(* found.                                                                  *)
(***************************************************************************)
EXTENDS Permissions

RunStates == {"queued", "planning", "running", "waiting_for_approval", "retrying",
              "escalated", "completed", "failed", "cancelled"}

\* VALID_TRANSITIONS of the registry.
VALID_TRANSITIONS ==
    [queued               |-> {"planning", "cancelled"},
     planning             |-> {"running", "waiting_for_approval", "failed", "cancelled"},
     running              |-> {"completed", "failed", "retrying", "escalated",
                               "waiting_for_approval", "cancelled"},
     waiting_for_approval |-> {"running", "cancelled", "failed"},
     retrying             |-> {"running", "failed", "escalated", "cancelled"},
     escalated            |-> {"running", "cancelled", "failed"},
     completed            |-> {},
     failed               |-> {"queued"},
     cancelled            |-> {}]

ActionTransitions ==
    [rerun |-> "queued", pause |-> "waiting_for_approval", resume |-> "running",
     cancel |-> "cancelled", approve |-> "running", reject |-> "failed",
     escalate |-> "escalated"]
ControlActionNames == DOMAIN ActionTransitions \cup {"inspect"}
HighRisk           == {"rerun", "escalate", "cancel"}   \* those are APPROVAL_REQUIRED_ACTIONS too

\* Who acts: as the system or not, at a level, naming a tenant or not, in an environment that
\* is local or not.
Callers == [system : BOOLEAN, level : Levels, tenant : BOOLEAN, local : BOOLEAN]

\* A caller of the older form is local and of level 2, and the system if it says that an
\* approval was granted.
LegacyCaller(granted) == [system |-> granted, level |-> 2, tenant |-> FALSE, local |-> TRUE]

\* How the enforcement takes every control action: as one of a type it does not know, with no
\* approval and none named.
ControlRequest == [actionType |-> "unknown", command |-> "other", production |-> FALSE,
                   force |-> FALSE, privileged |-> FALSE]
enforced(caller) ==
    enforceAgentAction(ControlRequest,
        [level |-> caller.level, named |-> FALSE,
         approval |-> [approved |-> FALSE, denied |-> FALSE, expired |-> FALSE]])

\* What comes of an action by a caller on a run that is read in a state; asked that a new
\* request for approval is created on the way.
executeControlAction(state, action, caller) ==
    LET Outcome(result, asked) == [result |-> result, asked |-> asked]
    IN  IF action # "inspect" /\ ~caller.tenant /\ ~caller.local THEN Outcome("no tenant", FALSE)
        ELSE IF action \in HighRisk /\ ~caller.system THEN Outcome("requires approval", TRUE)
        ELSE IF /\ action # "inspect"
                /\ ActionTransitions[action] \notin VALID_TRANSITIONS[state]
             THEN Outcome("invalid", FALSE)
        ELSE IF enforced(caller).decision = "block" THEN Outcome("blocked", FALSE)
        ELSE Outcome("done", enforced(caller).asked)

Done(state, action, caller) == executeControlAction(state, action, caller).result = "done"

\* The write that follows takes the state it finds for what it is.
updateControlState(state, action) ==
    IF action = "inspect" THEN state ELSE ActionTransitions[action]

-----------------------------------------------------------------------------
(* The canonical table.                                                    *)

CanonicalTransitions ==
    [queued               |-> {"planning"},
     planning             |-> {"running"},
     running              |-> {"waiting_for_approval", "retrying", "escalated", "completed", "failed"},
     waiting_for_approval |-> {"running", "cancelled"},
     retrying             |-> {"running"},
     escalated            |-> {"running", "failed"},
     completed            |-> {},
     failed               |-> {},
     cancelled            |-> {}]
TERMINAL_STATES == {"completed", "failed", "cancelled"}

validateStateTransition(from, to, force) ==
    /\ from # to
    /\ IF from \in TERMINAL_STATES THEN force /\ to = "queued" ELSE to \in CanonicalTransitions[from]

\* The state of several runs together, those in priority before the ends.
Priority == <<"failed", "escalated", "waiting_for_approval", "retrying", "running", "planning", "queued">>
deriveRunStatus(states) ==
    LET Found == {i \in DOMAIN Priority : Priority[i] \in states}
    IN  CASE states = {}                          -> "queued"
          [] Found # {}                           -> Priority[CHOOSE i \in Found : \A j \in Found : i <= j]
          [] Found = {} /\ states = {"cancelled"} -> "cancelled"
          [] OTHER                                -> "completed"

\* The states a run may come to from one by steps of a table.
ComesTo(table, from) ==
    LET After[k \in 0..9] ==
            IF k = 0 THEN {from}
            ELSE After[k - 1] \cup UNION {table[s] : s \in After[k - 1]}
    IN  After[9]

-----------------------------------------------------------------------------
(* What the registry is for.                                               *)

\* An action that is alone follows the table, and no action takes a run out of completed or
\* cancelled (control-actions.ts:134-159).
TableFollowed(state, action, caller) ==
    Done(state, action, caller) /\ action # "inspect" =>
        /\ updateControlState(state, action) \in VALID_TRANSITIONS[state]
        /\ state \notin {"completed", "cancelled"}

\* Outside a local environment a run is changed only with a tenant, by the system too
\* (control-actions.ts:83-98).
TenantNamed(state, action, caller) ==
    Done(state, action, caller) /\ action # "inspect" => caller.tenant \/ caller.local

\* An action of high risk asks for an approval in vain: whoever is not the system is asked
\* for one in every state and at every level, and nothing it brings is looked at, so that the
\* next attempt asks for another (control-actions.ts:100-132).
AsksInVain(state, action, caller) ==
    action \in HighRisk /\ ~caller.system => ~Done(state, action, caller)

\* All that is done, looking included, leaves a request for approval that nothing waits for:
\* the enforcement asks for one and its answer is passed over (control-actions.ts:188-224).
DoneThoughAsked(state, action, caller) ==
    Done(state, action, caller) => executeControlAction(state, action, caller).asked

\* Two actions that read the same state are both done; the second to write may then leave the
\* table, and may even set running what the first had rejected or cancelled.
LeavesTable(state, first, second) ==
    LET system == [system |-> TRUE, level |-> 2, tenant |-> TRUE, local |-> TRUE]
        found  == updateControlState(state, first)
    IN  /\ Done(state, first, system) /\ Done(state, second, system)
        /\ updateControlState(state, second) \notin VALID_TRANSITIONS[found] \cup {found}

\* Every step of the canonical table is one of the registry's: the registry relaxes it and
\* never forbids what it allows (run-state-types.ts:35-38).
RegistryRelaxes ==
    \A from \in RunStates :
        /\ CanonicalTransitions[from] \subseteq VALID_TRANSITIONS[from]
        /\ TERMINAL_STATES \cap ComesTo(CanonicalTransitions, from) # {}

\* From every state that is no end every end can be reached, and by control actions alone a
\* run is never completed.
EndsAreInReach ==
    /\ \A from \in RunStates \ TERMINAL_STATES :
          TERMINAL_STATES \subseteq ComesTo(VALID_TRANSITIONS, from)
    /\ \A action \in DOMAIN ActionTransitions : ActionTransitions[action] # "completed"

\* A group is reported as completed only if all its runs are at an end and none failed, and a
\* failure is never hidden (run-state-machine.ts:72-101).
RollupHidesNothing(states) ==
    /\ deriveRunStatus(states) = "completed" => states \subseteq {"completed", "cancelled"}
    /\ "failed" \in states => deriveRunStatus(states) = "failed"
=============================================================================
