------------------------------- MODULE Webhooks -------------------------------
(***************************************************************************)
(* The callbacks that decide a run and start its execution                 *)
(* (api/approval-webhook.ts, api/execution-webhook.ts, security/replay-    *)
(* store.ts, security/webhook-signature.ts), delivered at least once by    *)
(* their senders.  Each handler remembers in memory the nonces and ids it  *)
(* took and refuses them until they expire.  The look into the store and   *)
(* the entry are one synchronous step, so deliveries come one after        *)
(* another; what they do to a run is RunLifecycle's.                       *)
(*                                                                         *)
(* Time goes in half seconds, as timestamps are rounded to seconds and     *)
(* entries expire by the millisecond.  The defaults are 300 and 600        *)
(* seconds in the code; the model keeps that one is twice the other.  The  *)
(* enforcement lets the work through (Permissions, WritesPass).            *)
(***************************************************************************)
EXTENDS Naturals

PerSecond == 2
DEFAULT_MAX_SKEW_SECONDS   == 2
DEFAULT_REPLAY_TTL_SECONDS == 4

\* 0 stands for a setting that is no positive integer.
Configs == [secret : BOOLEAN, skew : 0..2, ttl : 0..5]
Default == [secret |-> TRUE, skew |-> DEFAULT_MAX_SKEW_SECONDS, ttl |-> DEFAULT_REPLAY_TTL_SECONDS]

\* What is wrong with the headers, the second they were written, whether the signature is
\* that of the body, and what the body has.
Deliveries ==
    [headers : {"missing", "malformed", "timeless", "sound"}, at : 2..3, signed : BOOLEAN,
     nonce : {"n1", "n2"}, id : {"w1", "w2"}, body : {"broken", "nothing", "run", "run and decision"}]

\* When each nonce and each id expires; 0 if there is no entry.
Stores == [nonces : [{"n1", "n2"} -> Nat], ids : [{"w1", "w2"} -> Nat]]
Empty  == [nonces |-> [n \in {"n1", "n2"} |-> 0], ids |-> [w \in {"w1", "w2"} |-> 0]]

\* What the resolver or the agent makes of it.
Works == {"done", "refused", "throws"}

-----------------------------------------------------------------------------
getReplayTtlSeconds(config) == IF config.ttl = 0 THEN DEFAULT_REPLAY_TTL_SECONDS ELSE config.ttl

cleanupExpired(store, now) ==
    LET Live(entries) == [k \in DOMAIN entries |-> IF entries[k] <= now THEN 0 ELSE entries[k]]
    IN  [nonces |-> Live(store.nonces), ids |-> Live(store.ids)]

checkAndStore(d, store, config, now) ==
    LET live    == cleanupExpired(store, now)
        replay  == live.nonces[d.nonce] # 0 \/ live.ids[d.id] # 0
        expires == now + getReplayTtlSeconds(config) * PerSecond
    IN  [replay |-> replay,
         store  |-> IF replay THEN live
                    ELSE [nonces |-> [live.nonces EXCEPT ![d.nonce] = expires],
                          ids    |-> [live.ids EXCEPT ![d.id] = expires]]]

Abs(n, m) == IF n < m THEN m - n ELSE n - m

\* The status of what is refused before the store is asked, 0 if nothing is.
RefusedEarly(d, config, now) ==
    CASE d.headers # "sound"                                  -> 400
      [] d.headers = "sound" /\ (~config.secret \/ 0 \in {config.skew, config.ttl}) -> 500
      [] OTHER -> CASE Abs(now \div PerSecond, d.at) > config.skew -> 400
                    [] OTHER -> IF ~d.signed THEN 401 ELSE IF config.ttl <= config.skew THEN 500 ELSE 0

verifyWebhookRequest(d, store, config, now) ==
    LET early == RefusedEarly(d, config, now)
        check == checkAndStore(d, store, config, now)
    IN  IF early # 0 THEN [status |-> early, store |-> store]
        ELSE [status |-> IF check.replay THEN 409 ELSE 200, store |-> check.store]

\* The answer, whether the work was begun, and the store.  A delivery is entered before its
\* body is read and stays entered however it ends.
Handle(reads, d, store, config, now, work) ==
    LET verified == verifyWebhookRequest(d, store, config, now)
        begun    == verified.status = 200 /\ d.body \in reads
    IN  [status |-> CASE verified.status # 200          -> verified.status
                      [] verified.status = 200 /\ ~begun -> 422
                      [] OTHER -> [done |-> 200, refused |-> 422, throws |-> 500][work],
         begun  |-> begun,
         store  |-> verified.store]

handleApprovalWebhook(d, store, config, now, work) ==
    Handle({"run and decision"}, d, store, config, now, work)
handleExecutionWebhook(d, store, config, now, work) ==
    Handle({"run", "run and decision"}, d, store, config, now, work)

-----------------------------------------------------------------------------
(* Claims, of the approvals' handler; executions read more bodies.         *)
(* MCMissionControl evaluates them.                                        *)

Seen(store, d, now) == store.nonces[d.nonce] > now \/ store.ids[d.id] > now

\* Work is begun only for a signed body of the time around now that was not seen, and what is
\* refused before is forgotten: it takes no nonce away from the delivery it stands in for.
OnlyFreshBegun(d, store, config, now, work) ==
    LET out == handleApprovalWebhook(d, store, config, now, work)
    IN  /\ out.begun => /\ d.signed /\ config.secret /\ ~Seen(store, d, now)
                        /\ Abs(now \div PerSecond, d.at) <= config.skew
        /\ out.status \in {400, 401, 409} => cleanupExpired(out.store, now) = cleanupExpired(store, now)

\* A delivery that comes again is not taken again, whatever became of the first one, if what
\* is remembered lasts for as long as a timestamp may be of use.
TakenOnce(d, config, first, second, work) ==
    LET one == handleApprovalWebhook(d, Empty, config, first, work)
        two == handleApprovalWebhook(d, one.store, config, second, "done")
    IN  config.ttl >= 2 * config.skew + 1 /\ one.begun => ~two.begun

\* Deliveries that share neither nonce nor id are as if the other were not there.
NoneInTheWay(d, e, config, first, second) ==
    LET one == handleApprovalWebhook(d, Empty, config, first, "done")
        Answer(store) == [handleApprovalWebhook(e, store, config, second, "done") EXCEPT !.store = Empty]
    IN  d.nonce # e.nonce /\ d.id # e.id => Answer(one.store) = Answer(Empty)

(* Exceptions, which are there.                                            *)

\* As the defaults are, a delivery by a clock that is ahead by all that is allowed is taken
\* twice: what is asked of the settings is only that one is greater than the other.
TakenTwice(d, first, second) ==
    LET one == handleApprovalWebhook(d, Empty, Default, first, "done")
    IN  one.begun /\ handleApprovalWebhook(d, one.store, Default, second, "done").begun

\* A restart forgets what was taken while the timestamp is still good.
TakenAfterRestart(d, first, second) ==
    /\ handleApprovalWebhook(d, Empty, Default, first, "done").begun
    /\ handleApprovalWebhook(d, Empty, Default, second, "done").begun

\* A delivery that failed is not worth trying again: the answer is that it was seen.
RetryIsRefused(d, first, second) ==
    LET one == handleApprovalWebhook(d, Empty, Default, first, "throws")
    IN  one.status = 500 /\ one.begun /\ handleApprovalWebhook(d, one.store, Default, second, "done").status = 409

\* Another delivery is refused as seen because of its nonce.
OtherIsRefused(d, e, first, second) ==
    LET one == handleApprovalWebhook(d, Empty, Default, first, "done")
    IN  d.id # e.id /\ one.begun /\ handleApprovalWebhook(e, one.store, Default, second, "done").status = 409
=============================================================================
