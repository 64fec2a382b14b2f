---------------------------------- MODULE Crm ----------------------------------
(***************************************************************************)
(* The customer records (crm, db/crm-tenant-context.ts): a request is      *)
(* resolved to the context of one tenant, the service asks for permission  *)
(* and approval, one of two stores does the work, and the audit has a line *)
(* of it.  The store in a file reads all records and writes all of them;   *)
(* the store in the database reads and writes one row in a transaction.    *)
(* Two calls at once are two such pairs of steps, so that what comes of    *)
(* them is a function of the calls, the records and the schedule.          *)
(*                                                                         *)
(* Of a record the model has two fields, which show whose value is there.  *)
(* The three kinds of records differ in nothing else the stores look at.   *)
(***************************************************************************)
Tenants     == {"alpha", "bravo"}
Kinds       == {"contact", "lead", "opportunity"}
Operations  == {"create", "update"}
ActionOf    ==
    [create |-> [contact |-> "create_contact", lead |-> "create_lead", opportunity |-> "create_opportunity"],
     update |-> [contact |-> "update_contact", lead |-> "update_lead", opportunity |-> "update_opportunity"]]

\* What a membership or platform access grants: nothing, one action, all of the CRM, or one
\* of the names that stand for all of it.  Access without a list has tenant:admin.
Grants == {{}, {"create_contact"}, {"crm:*"}, {"tenant:admin"}, {"agent:tenant"}}
Everything == {"crm:*", "tenant:admin", "system:tenant"}

\* selected and actor may be missing; a member is of the tenant or is not, or was asked to be;
\* home is the tenant of an agent or of the system.  What its type does not look at is fixed.
Requests ==
    {r \in [selected : Tenants \cup {"none"}, actorType : {"platform_user", "tenant_user", "agent", "system"},
            actor : BOOLEAN, all : BOOLEAN, allowed : SUBSET Tenants,
            member : [Tenants -> {"none", "active", "invited"}], granted : Grants,
            home : Tenants \cup {"none"}, approval : {"none", "rejected", "approved"}] :
        /\ r.actorType # "platform_user" => ~r.all /\ r.allowed = {}
        /\ r.actorType # "tenant_user" => r.member = [t \in Tenants |-> "none"]
        /\ r.actorType \in {"agent", "system"} => r.granted = {}
        /\ r.actorType \notin {"agent", "system"} => r.home = "none"}

Denied(r) ==
    \/ r.selected = "none" \/ ~r.actor
    \/ r.actorType = "platform_user" /\ ~r.all /\ r.selected \notin r.allowed
    \/ r.actorType = "tenant_user" /\ r.member[r.selected] # "active"
    \/ r.actorType \in {"agent", "system"} /\ r.home # r.selected

PermissionsOf(r) ==
    CASE r.actorType = "agent"  -> {"agent:tenant"}
      [] r.actorType = "system" -> {"system:tenant"}
      [] OTHER                  -> r.granted

\* No context, or one; what the caller says of an approval goes into it as it is.
resolveCrmTenantContext(r) ==
    IF Denied(r) THEN {}
    ELSE {[tenant |-> r.selected, permissions |-> PermissionsOf(r), approval |-> r.approval]}

hasCrmPermission(context, action) ==
    \E p \in context.permissions : p = action \/ p \in Everything

evaluateCrmApproval(action, approval) ==
    action = "update_opportunity" => approval = "approved"

\* Whether the service goes on to the store, and the event it notes if it does not.
assertActionAllowed(context, action) ==
    IF ~hasCrmPermission(context, action) THEN "crm_action_blocked"
    ELSE IF ~evaluateCrmApproval(action, context.approval) THEN "crm_approval_required"
    ELSE "allowed"

-----------------------------------------------------------------------------
(* The stores.                                                             *)

\* Ids are unique by tenant and kind; a record of every tenant and kind has the same id.
Keys   == [tenant : Tenants, kind : Kinds]
Fields == {"stage", "owner"}
None   == [f \in Fields |-> "none"]
Old    == [f \in Fields |-> "old"]

\* A call by one of two callers, in the context of a tenant, about a record of tenant says;
\* a patch sets one field, and may be of another id.
Calls(c) ==
    [by : {c}, op : Operations, tenant : Tenants, says : Tenants, kind : Kinds, field : Fields,
     valid : BOOLEAN, blank : BOOLEAN, renames : BOOLEAN]

Key(call)    == [tenant |-> call.tenant, kind |-> call.kind]
Plain(call)  == call.valid /\ call.says = call.tenant /\ ~call.blank /\ ~call.renames

\* The record the call would leave behind, given what it read.
Changed(call, read) ==
    IF call.op = "create" THEN [f \in Fields |-> call.by]
    ELSE [read EXCEPT ![call.field] = call.by]

\* The refusals before anything is read; a create has no id to change.
RefusedEarly(call) ==
    \/ call.says # call.tenant
    \/ call.op = "create" /\ ~call.valid
    \/ call.op = "update" /\ call.renames

\* The refusals after it.  A blank id passes the schema and is nobody's.
RefusedLate(call, read) ==
    \/ call.blank
    \/ call.op = "create" /\ read # None
    \/ call.op = "update" /\ (read = None \/ ~call.valid)

\* What a call holds between its read and its write.  A file that cannot be read is empty.
load(file)             == IF file.corrupt THEN [k \in Keys |-> None] ELSE file.records
Outcome(ok, records)   == [ok |-> ok, records |-> records]

\* In the file: the records read, changed in one place, replace all there are.
FileWrite(call, read, now) ==
    IF RefusedEarly(call) \/ RefusedLate(call, read[Key(call)]) THEN Outcome(FALSE, now)
    ELSE Outcome(TRUE, [read EXCEPT ![Key(call)] = Changed(call, @)])

\* In the database: the row written is the one read with the patch over it, and an insert
\* after another's is refused by the primary key.
RowWrite(call, read, now) ==
    LET row == Key(call)
    IN  IF RefusedEarly(call) \/ RefusedLate(call, read[row]) THEN Outcome(FALSE, now)
        ELSE IF call.op = "create" /\ now[row] # None THEN Outcome(FALSE, now)
        ELSE Outcome(TRUE, [now EXCEPT ![row] = Changed(call, read[row])])

Write(store, call, read, now) ==
    IF store = "file" THEN FileWrite(call, read, now) ELSE RowWrite(call, read, now)

\* A call alone.
Alone(store, call, file) ==
    LET read == load(file) IN Write(store, call, read, read)

\* Two calls: b reads after a has written, or before.
Both(store, a, b, records, apart) ==
    LET first  == Write(store, a, records, records)
        second == Write(store, b, IF apart THEN first.records ELSE records, first.records)
    IN  [ok |-> [c \in {a.by, b.by} |-> IF c = a.by THEN first.ok ELSE second.ok],
         records |-> second.records]

\* The service, when the store writes or fails to and the audit takes lines or does not.
\* The attribution behind it is sent and not waited for.
Perform(store, context, call, file, writes, audits) ==
    LET action  == ActionOf[call.op][call.kind]
        verdict == assertActionAllowed(context, action)
        done    == Alone(store, call, file)
        kept    == verdict = "allowed" /\ done.ok /\ writes
    IN  [ok      |-> kept /\ audits,
         records |-> IF kept THEN done.records ELSE load(file),
         event   |-> IF ~audits THEN "none"
                     ELSE IF verdict # "allowed" THEN verdict
                     ELSE IF kept THEN "done" ELSE "none"]

-----------------------------------------------------------------------------
(* Claims.  MCMissionControl evaluates them.                                   *)

\* A context is only for a tenant the actor has been given, by access, by an active
\* membership or by being of it; and an agent comes to no record with it, as no action asks
\* for the one permission an agent has.
ContextIsEarned(r) ==
    \A context \in resolveCrmTenantContext(r) :
        /\ context.tenant = r.selected
        /\ \/ r.actorType = "platform_user" /\ (r.all \/ context.tenant \in r.allowed)
           \/ r.actorType = "tenant_user" /\ r.member[context.tenant] = "active"
           \/ r.home = context.tenant
        /\ r.actorType = "agent" =>
              \A op \in Operations, kind \in Kinds :
                  assertActionAllowed(context, ActionOf[op][kind]) = "crm_action_blocked"

\* A call alone changes the record of its tenant, kind and id, and that only if it says it did.
OneRecordAtMost(store, call, records) ==
    LET end == Alone(store, call, [corrupt |-> FALSE, records |-> records])
    IN  \A k \in Keys : end.records[k] # records[k] => end.ok /\ k = Key(call)

\* The two stores do the same for a call alone.
StoresAgree(call, records) ==
    LET file == [corrupt |-> FALSE, records |-> records]
    IN  Alone("file", call, file) = Alone("rows", call, file)

\* In the database two calls at once lose no record and disturb none of another's: both
\* end as they would apart, unless they update the same row.
RowsAreApart(a, b, records) ==
    (a.op = "create" \/ b.op = "create" \/ Key(a) # Key(b)) =>
        LET end == Both("rows", a, b, records, FALSE)
        IN  \/ end = Both("rows", a, b, records, TRUE)
            \/ end = Both("rows", b, a, records, TRUE)

\* Of two creates of one id the database takes one, whenever they come.
OneCreator(store, a, b, records, apart) ==
    a.op = "create" /\ b.op = "create" /\ Key(a) = Key(b) =>
        ~\A c \in {a.by, b.by} : Both(store, a, b, records, apart).ok[c]

\* Whatever the service answers with ok has been allowed, done and noted; and it is noted
\* only if it was done or refused.
OkIsNoted(store, context, call, file, writes, audits) ==
    LET end == Perform(store, context, call, file, writes, audits)
    IN  /\ end.ok => /\ end.event = "done" /\ end.records[Key(call)] # load(file)[Key(call)]
                     /\ hasCrmPermission(context, ActionOf[call.op][call.kind])
        /\ end.event = "done" => end.ok
        /\ end.event \in {"crm_action_blocked", "crm_approval_required"} =>
              end.records = load(file)

(* Exceptions, which are there.                                            *)

\* In the file, two calls at once both answer ok and one of them is undone, though it was of
\* another tenant.
FileForgets(a, b, records) ==
    LET end == Both("file", a, b, records, FALSE)
    IN  /\ \A c \in {a.by, b.by} : end.ok[c]
        /\ a.tenant # b.tenant
        /\ end.records[Key(a)] = records[Key(a)]

\* In the database two updates of different fields of one row both answer ok and the second
\* takes the first back.
RowForgets(a, b, records) ==
    LET end == Both("rows", a, b, records, FALSE)
    IN  /\ \A c \in {a.by, b.by} : end.ok[c]
        /\ a.field # b.field /\ end.records[Key(a)][a.field] = records[Key(a)][a.field]

\* A call on a file that cannot be read leaves of the records only its own.
FileStartsAnew(call, records) ==
    LET end == Alone("file", call, [corrupt |-> TRUE, records |-> records])
    IN  end.ok /\ \E k \in Keys : records[k] # None /\ end.records[k] = None

\* A create is done and answers with an error, since its line could not be written; tried
\* again, it is refused.
DoneButNotNoted(store, context, call, records) ==
    LET first  == Perform(store, context, call, [corrupt |-> FALSE, records |-> records], TRUE, FALSE)
        second == Perform(store, context, call, [corrupt |-> FALSE, records |-> first.records], TRUE, TRUE)
    IN  ~first.ok /\ first.records # records /\ ~second.ok
================================================================================
