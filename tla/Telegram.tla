------------------------------- MODULE Telegram -------------------------------
(***************************************************************************)
(* The two clients of Telegram: the listener of the local control plane    *)
(* (control-plane/*.ts), which answers questions, and the operators' bot   *)
(* (telegram/telegram-bot.ts), which decides approvals.  Each polls for    *)
(* updates from the first it does not know, keeps that number in memory    *)
(* only, and handles one update after the other.  The service keeps what   *)
(* was not confirmed: an update is gone when one asks for later ones.      *)
(*                                                                         *)
(* A poll is a step that handles a batch, up to where the process dies.    *)
(* Texts are commands; what a decision of the bot does to an approval is   *)
(* SecurityApprovals'.                                                     *)
(***************************************************************************)
EXTENDS Naturals, Sequences, FiniteSetsExt, SequencesExt

\* A text of the chat; one that has no sender; anything without a text.
Updates == {"text", "senderless", "other"}

\* known is lastUpdateId of the listener and offset - 1 of the bot, pending what the service
\* keeps, handled how often each update was.
Start(updates) ==
    [known |-> 0, pending |-> DOMAIN updates, handled |-> [i \in DOMAIN updates |-> 0], halted |-> FALSE]

\* The service: the updates after known, a batch of at most limit; the others are confirmed.
Confirmed(s)         == [s EXCEPT !.pending = {i \in @ : i > s.known}, !.halted = FALSE]
getUpdates(s, limit) ==
    LET ids == SetToSortSeq({i \in s.pending : i > s.known}, <) IN SubSeq(ids, 1, Min({limit, Len(ids)}))

Handled(s, i) == [s EXCEPT !.known = i, !.handled[i] = @ + 1]

\* The listener goes on to known by texts alone; one without a sender ends the batch.
ListenerTakes(s, update, i) ==
    CASE update = "text"       -> Handled(s, i)
      [] update = "senderless" -> [s EXCEPT !.halted = TRUE]
      [] update = "other"      -> s

\* The bot counts an update before it looks at it and asks for no sender.
BotTakes(s, update, i) == IF update = "other" THEN [s EXCEPT !.known = i] ELSE Handled(s, i)

Takes(client, s, update, i) ==
    IF client = "listener" THEN ListenerTakes(s, update, i) ELSE BotTakes(s, update, i)

Batch(client, s, updates, ids) ==
    FoldLeft(LAMBDA acc, i : IF acc.halted THEN acc ELSE Takes(client, acc, updates[i], i),
             Confirmed(s), ids)

\* A poll; of one that dies the first few are handled and what is known is lost.
Poll(client, s, updates, limit, step) ==
    LET ids == getUpdates(s, limit)
    IN  IF step.dies THEN [Batch(client, s, updates, SubSeq(ids, 1, Min({step.after, Len(ids)})))
                              EXCEPT !.known = 0]
        ELSE Batch(client, s, updates, ids)

poll(updates, limit, steps) ==
    FoldLeft(LAMBDA s, step : Poll("listener", s, updates, limit, step), Start(updates), steps)
pollOnce(updates, limit, steps) ==
    FoldLeft(LAMBDA s, step : Poll("bot", s, updates, limit, step), Start(updates), steps)

-----------------------------------------------------------------------------
(* The loops of the bot: a timer is set for each, the last of which is     *)
(* kept to be cleared, and a poll in flight sets the next if the bot runs. *)

Idle == [running |-> FALSE, waiting |-> {}, timer |-> 0, flying |-> {}, begun |-> 0]

startTelegramBot(s) ==
    IF s.running THEN s
    ELSE [s EXCEPT !.running = TRUE, !.begun = @ + 1, !.timer = s.begun + 1, !.waiting = @ \cup {s.begun + 1}]
stopTelegramBot(s) ==
    IF ~s.running THEN s ELSE [s EXCEPT !.running = FALSE, !.waiting = @ \ {s.timer}, !.timer = 0]
Fire(s, l) ==
    IF l \notin s.waiting THEN s
    ELSE [s EXCEPT !.waiting = @ \ {l}, !.flying = IF s.running THEN @ \cup {l} ELSE @]
Land(s, l) ==
    IF l \notin s.flying THEN s
    ELSE [s EXCEPT !.flying = @ \ {l}, !.waiting = IF s.running THEN @ \cup {l} ELSE @,
                   !.timer = IF s.running THEN l ELSE @]

Loops(events) ==
    FoldLeft(LAMBDA s, e : CASE e.op = "start" -> startTelegramBot(s)
                             [] e.op = "stop"  -> stopTelegramBot(s)
                             [] e.op = "fire"  -> Fire(s, e.loop)
                             [] e.op = "land"  -> Land(s, e.loop), Idle, events)

-----------------------------------------------------------------------------
(* Commands.                                                               *)

Settings == [token : BOOLEAN, users : SUBSET {"ann", "bob"}, chats : SUBSET {"c1", "c2"}, chat : {"none", "c1"},
             model : {"off", "healthy", "down"}]
Messages == [user : {"ann", "bob"}, chat : {"c1", "c2"}, named : BOOLEAN,
             command : {"none", "help", "status", "ask", "ops", "approvals", "approve", "reject", "runs", "other"},
             first : {"none", "dashboard", "pending", "track", "a1"}, second : BOOLEAN]

\* Whether each comes up at all.
controlPlaneStarts(c) == c.token /\ c.users # {} /\ c.model # "down"
botStarts(c)          == c.token /\ c.chat # "none"

authorize(c, m) == m.user \in c.users /\ (c.chats = {} \/ m.chat \in c.chats)

Answer(reply, work) == [reply |-> reply, work |-> work]
Silent == Answer("none", "none")

\* A command that is addressed to the bot by name is one the listener does not know.
handleCommand(c, m) ==
    CASE m.command = "none" -> Silent
      [] m.command # "none" /\ ~authorize(c, m) -> Answer("refused", "none")
      [] OTHER ->
            CASE m.named -> Answer("unknown", "none")
              [] ~m.named /\ m.command = "help"   -> Answer("help", "none")
              [] ~m.named /\ m.command = "status" -> Answer("status", "health")
              [] ~m.named /\ m.command = "ask"    ->
                    IF m.first = "none" THEN Answer("usage", "none")
                    ELSE Answer("result", IF c.model = "off" THEN "none" ELSE "ask")
              [] ~m.named /\ m.command = "ops"    ->
                    IF m.first \in {"dashboard", "pending"} \/ (m.first = "track" /\ m.second)
                    THEN Answer("result", m.first) ELSE Answer("usage", "none")
              [] OTHER -> Answer("unknown", "none")

botCommand(c, m) ==
    CASE m.chat # c.chat \/ m.command \in {"none", "ask", "ops", "other"} -> Silent
      [] m.chat = c.chat /\ m.command \in {"approve", "reject"} ->
            IF m.first = "none" THEN Answer("usage", "none") ELSE Answer("result", m.command)
      [] OTHER -> Answer(m.command, "none")

-----------------------------------------------------------------------------
(* Claims.  MCMissionControl evaluates them.                               *)

Deaths(steps) == Cardinality({k \in DOMAIN steps : steps[k].dies})
Quiet(n)      == [k \in 1..n |-> [dies |-> FALSE, after |-> 0]]

\* Neither handles an update more often than by one time for each death, the listener no text
\* out of their order, and none of them anything without a text.
HandledAgainByDeathOnly(updates, limit, steps) ==
    \A s \in {poll(updates, limit, steps), pollOnce(updates, limit, steps)}, i \in DOMAIN updates :
        /\ s.handled[i] <= 1 + Deaths(steps)
        /\ updates[i] = "other" => s.handled[i] = 0

\* What is gone from the service was handled, whatever dies when, as a batch is confirmed by
\* the poll after it.
NoneIsLost(updates, limit, steps) ==
    \A s \in {poll(updates, limit, steps), pollOnce(updates, limit, steps)} :
        \A i \in DOMAIN updates \ s.pending : updates[i] = "text" => s.handled[i] >= 1

\* The bot gets through to the end; the listener does if all have senders and no batch is
\* without a text.
BothGetThrough(updates, limit) ==
    LET Blank(i) == \A j \in i..(i + limit - 1) : j \in DOMAIN updates /\ updates[j] # "text"
        All(s)   == \A i \in DOMAIN updates : updates[i] = "text" => s.handled[i] = 1
    IN  /\ All(pollOnce(updates, limit, Quiet(Len(updates))))
        /\ "senderless" \notin ToSet(updates) /\ ~(\E i \in DOMAIN updates : Blank(i)) =>
              All(poll(updates, limit, Quiet(Len(updates))))

\* There is one loop, if the bot is not stopped in the middle of a poll.
OneLoop(events) ==
    (\A k \in DOMAIN events : events[k].op = "stop" => Loops(SubSeq(events, 1, k)).flying = {}) =>
        LET s == Loops(events) IN Cardinality(s.waiting \cup s.flying) <= 1

\* Only who is listed has anything done; what the control plane has done are looks; and a
\* decision is made in the bot's chat alone.
AskedByTheListed(c, m) ==
    /\ handleCommand(c, m).work # "none" => m.user \in c.users
    /\ handleCommand(c, m).work \in {"none", "health", "ask", "dashboard", "pending", "track"}
    /\ botCommand(c, m).work # "none" => m.chat = c.chat /\ m.first # "none"

(* Exceptions, which are there.                                            *)

\* The listener stays where it is for good, and a text behind is never handled: a batch of
\* updates without a text is fetched again and again, and so is one that cannot be read.
ListenerIsHeldUp(updates, limit, kind) ==
    LET s == poll(updates, limit, Quiet(Len(updates)))
    IN  /\ ToSet(updates) = {"text", kind}
        /\ \E i \in DOMAIN updates : updates[i] = "text" /\ s.handled[i] = 0
        /\ poll(updates, limit, Quiet(Len(updates) + 1)) = s

\* A command is carried out once more by the process that comes after.
CarriedOutTwice(updates, limit, steps) ==
    \E i \in DOMAIN updates : pollOnce(updates, limit, steps).handled[i] = 2

\* Stopped and started during a poll, the bot has two loops from then on.
TwoLoops(events) ==
    LET s == Loops(events) IN s.running /\ Cardinality(s.waiting \cup s.flying) = 2

=============================================================================
