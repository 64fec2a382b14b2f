----------------------------- MODULE BrowserAgent -----------------------------
(***************************************************************************)
(* The browser agent (browser-agent/*.ts): a job opens a page with the     *)
(* session that was kept, checks that the session still holds, and then    *)
(* either asks a model for one action after the other or goes through      *)
(* steps that were written down; it keeps what it read and the session.    *)
(* A second workflow waits for a person to log in and keeps the session.   *)
(* One browser does one thing at a time, so a job is a function of what    *)
(* it meets: replies of the model, pages, and files that can be written.   *)
(***************************************************************************)
EXTENDS Naturals, Sequences, FiniteSetsExt, SequencesExt, Functions

\* "invalid" is a reply that validateAction refuses and "unreachable" a request that fails as
\* often as it is retried; "leave" goes to an address outside of the domains, "broken" names
\* an element that is not there.  Two that are the same word are the same action.
Replies == {"invalid", "unreachable", "open", "leave", "click", "wait", "broken", "extract",
            "extract nothing", "done", "fail"}
Throws  == {"unreachable", "leave", "broken"}

\* The steps of a job in direct mode.
Steps == {"open", "leave", "broken", "extract", "extract nothing"}

\* maxSteps is a set of one number, or of none if the setting is no number; starts says
\* whether the first address is in the domains and answers.
Jobs   == [starts : BOOLEAN, maxSteps : {{}} \cup {{n} : n \in 1..3}]
\* Whether a session was kept and holds, whether one can be kept, which files can be written.
Outputs == {"csv", "md", "env"}
Worlds == [session : {"none", "holds", "over"}, keeps : BOOLEAN, writable : {{}, {"md"}, Outputs}]

MAX_VALIDATION_FAILURES == 3
MAX_REPEAT_COUNT        == 2

-----------------------------------------------------------------------------
(* The loop of a job in agent mode.                                        *)

Opened == [steps |-> 1, asked |-> 0, rejected |-> 0, done |-> <<>>, troubled |-> FALSE,
           fields |-> "none", ended |-> "no"]

goesOn(s, job) == s.ended = "no" /\ \E n \in job.maxSteps : s.steps < n

\* A reply that is refused is noted as an error and takes no step.
Refuse(s) ==
    [s EXCEPT !.asked = @ + 1, !.rejected = @ + 1, !.troubled = TRUE,
              !.ended = IF s.rejected + 1 >= MAX_VALIDATION_FAILURES THEN "rejected" ELSE "no"]

Repeated(s, reply) == Cardinality({i \in DOMAIN s.done : s.done[i] = reply}) >= MAX_REPEAT_COUNT

executeAction(s, reply) ==
    LET did == [s EXCEPT !.asked = @ + 1, !.rejected = 0, !.steps = @ + 1, !.done = Append(@, reply)]
    IN  CASE reply \in Throws              -> [did EXCEPT !.ended = "threw", !.troubled = TRUE]
          [] reply = "done"                -> [did EXCEPT !.ended = "done"]
          [] reply = "fail"                -> [did EXCEPT !.ended = "failed", !.troubled = TRUE]
          [] reply = "extract"             -> [did EXCEPT !.ended = "extracted", !.fields = "full"]
          [] reply = "extract nothing"     -> [did EXCEPT !.fields = "empty"]
          [] reply \in {"open", "click", "wait"} -> did

Advance(s, reply) ==
    CASE reply = "invalid"     -> Refuse(s)
      [] reply = "unreachable" -> [s EXCEPT !.asked = @ + 1, !.ended = "threw", !.troubled = TRUE]
      [] OTHER -> IF Repeated(s, reply)
                  THEN [s EXCEPT !.asked = @ + 1, !.rejected = 0, !.ended = "repeated", !.troubled = TRUE]
                  ELSE executeAction(s, reply)

\* The job with these replies; open if it waits for another.
loop(job, replies) ==
    FoldLeft(LAMBDA s, reply : IF goesOn(s, job) THEN Advance(s, reply) ELSE s, Opened, replies)

-----------------------------------------------------------------------------
\* The answer of a job, the files it wrote and the session that is there in the end.
Answer(ok, fields, files, session) ==
    [ok |-> ok, fields |-> fields, files |-> files, session |-> session]
Kept(world) == IF world.keeps THEN "saved" ELSE world.session

runWorkflow(job, world, replies) ==
    LET s     == loop(job, replies)
        short == \E n \in job.maxSteps : s.steps >= n
        ok    == ~s.troubled /\ ~short
    IN  IF ~job.starts \/ s.ended = "threw" THEN Answer(FALSE, s.fields, {}, world.session)
        ELSE Answer(ok, s.fields, IF ok \/ s.fields = "full" THEN world.writable ELSE {},
                    IF ok \/ world.session = "over" THEN Kept(world) ELSE world.session)

\* Direct mode counts no steps, and what it read is dropped when a step fails.
runDirectExtract(job, world, steps) ==
    LET read == ToSet(steps)
    IN  IF ~job.starts \/ read \cap Throws # {} THEN Answer(FALSE, "none", {}, world.session)
        ELSE Answer(TRUE, IF "extract" \in read THEN "full"
                          ELSE IF "extract nothing" \in read THEN "empty" ELSE "none",
                    world.writable, Kept(world))

-----------------------------------------------------------------------------
(* Sessions.                                                               *)

\* What the page shows: where it is, whether it has a form or buttons to log in, and what the
\* selector for a page of one who is logged in finds.
Pages == {p \in [url : {"login", "error", "other"}, signals : BOOLEAN, password : BOOLEAN,
                 selector : {"unset", "absent", "there"}] : p.password => p.signals}

isSessionValid(p) ==
    IF p.selector = "unset" THEN p.url # "login" /\ ~p.signals ELSE p.selector = "there"
detectAuth(p) == p.selector = "there" \/ (p.url = "other" /\ ~p.signals)
waitForAuth(p) == detectAuth(p) \/ (p.url # "login" /\ ~p.password)

\* The pages are what is shown at first and at each look until the time is over.
runLoginSessionCapture(allowed, validateOnly, keeps, pages) ==
    LET method == IF detectAuth(Head(pages)) THEN "existing-session"
                  ELSE IF ~validateOnly /\ \E p \in ToSet(Tail(pages)) : waitForAuth(p) THEN "manual-login"
                  ELSE "none"
        ok     == allowed /\ method # "none" /\ keeps
    IN  [ok |-> ok, method |-> IF allowed THEN method ELSE "none", saved |-> ok]

\* The file of a session is named for the host, with another mark between its parts.
resolveSessionFile(host) == [i \in DOMAIN host |-> IF host[i] = "." THEN "-" ELSE host[i]]

-----------------------------------------------------------------------------
(* Claims.  MCCommandExecutor evaluates them.                              *)

\* Nothing is done more than twice, nor after the last step, and the model is asked no more
\* than three times for each, whatever it replies.
WorkIsBounded(job, replies) ==
    LET s == loop(job, replies)
    IN  /\ \A i \in DOMAIN s.done : Cardinality({j \in DOMAIN s.done : s.done[j] = s.done[i]}) <= 2
        /\ \A n \in job.maxSteps : Len(s.done) <= n - 1 /\ s.asked <= 3 * (n - 1)

\* A job is answered ok just if it came to its end before the last step and every reply was
\* one to follow; and then the last was that it is done or that it read something.
OkIsUntroubled(job, world, replies) ==
    LET s   == loop(job, replies)
        end == runWorkflow(job, world, replies)
    IN  s.ended # "no" =>
          (end.ok <=> /\ job.starts /\ s.ended \in {"done", "extracted"}
                      /\ \A i \in 1..s.asked : replies[i] # "invalid"
                      /\ \A n \in job.maxSteps : s.asked + 1 < n)

\* What is kept of a job, in either mode: nothing if it threw; files if it is ok or read
\* something; and a session that holds is replaced only by one of a job that is ok.
KeptWithReason(job, world, replies) ==
    LET ends == {runWorkflow(job, world, replies)}
                  \cup (IF ToSet(replies) \subseteq Steps THEN {runDirectExtract(job, world, replies)} ELSE {})
    IN  \A end \in ends :
          /\ end.files # {} => end.ok \/ end.fields = "full"
          /\ end.session = "saved" => end.ok \/ world.session = "over"
          /\ end.ok /\ world.keeps => end.session = "saved"
          /\ loop(job, replies).ended = "threw" => ~end.ok /\ end.files = {} /\ end.session = world.session

\* A capture is ok just if it kept the session of a page that it took for one of a person who
\* is logged in; and without waiting it is the first one.
CaptureIsOfLogin(allowed, validateOnly, keeps, pages) ==
    LET end == runLoginSessionCapture(allowed, validateOnly, keeps, pages)
    IN  /\ end.ok => keeps /\ \E p \in ToSet(pages) : waitForAuth(p)
        /\ end.ok /\ (validateOnly \/ Len(pages) = 1) => end.method = "existing-session"
        /\ ~keeps => ~end.ok

(* Exceptions, which are there.                                            *)

\* All was read and written, and yet the job failed, as one reply before was refused.
RecoveredButFailed(job, world, replies) ==
    LET end == runWorkflow(job, world, replies)
    IN  loop(job, replies).ended = "extracted" /\ "invalid" \in ToSet(replies) /\ ~end.ok /\ end.files = Outputs

\* Done with the last step that was allowed, and so failed.
DoneTooLate(job, world, replies) ==
    loop(job, replies).ended = "done" /\ "invalid" \notin ToSet(replies) /\ ~runWorkflow(job, world, replies).ok

\* With a limit that is no number the model is not asked, and the answer is ok.
NothingDone(job, world, replies) ==
    loop(job, replies).asked = 0 /\ runWorkflow(job, world, replies).ok

\* The answer is ok without anything read, or without a file written.
OkWithNothing(job, world, steps) ==
    LET end == runDirectExtract(job, world, steps) IN end.ok /\ end.fields = "empty" /\ end.files = {}

\* A job that failed leaves a session in the place of the one that was over.
FailedButKept(job, world, replies) ==
    loop(job, replies).ended = "failed" /\ runWorkflow(job, world, replies).session = "saved"

\* What was just kept as the session of a login does not count as one for a job: the selector
\* finds nothing; and it is called existing where there was none.
CaptureIsNotValid(pages) ==
    LET end == runLoginSessionCapture(TRUE, FALSE, TRUE, pages)
    IN  end.ok /\ end.method = "existing-session" /\ ~isSessionValid(Head(pages))

\* A page of an error is taken for a login by the look while waiting.
ErrorIsLogin(pages) ==
    /\ runLoginSessionCapture(TRUE, FALSE, TRUE, pages).method = "manual-login"
    /\ \A p \in ToSet(pages) : p.url = "error" /\ ~detectAuth(p)

\* Two hosts share the file of their sessions.
HostsShareFile(a, b) == a # b /\ resolveSessionFile(a) = resolveSessionFile(b)
=============================================================================
