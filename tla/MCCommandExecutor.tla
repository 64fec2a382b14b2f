-------------------------- MODULE MCCommandExecutor --------------------------
(* Instances of CommandExecutor for TLC.                                   *)
EXTENDS CommandExecutor, TLC

Cmd(action, work, tenant, actor, key) ==
    [action |-> action, work |-> work, tenant |-> tenant, actor |-> actor,
     environment |-> "production", key |-> key, skipPolicy |-> FALSE]

\* One command and another payload sent under the same key.
MCCommands ==
    {Cmd("publish_asset", "w1", "t1", "user", "k1"),
     Cmd("publish_asset", "w2", "t1", "user", "k1")}

\* The commands the policy and the tenant checks tell apart.
MCGateCommands ==
    {Cmd("publish_asset", "w1", "t1", "user", "derived"),
     Cmd("publish_asset", "w1", "t2", "user", "derived"),
     Cmd("publish_asset", "w2", "none", "user", "derived"),
     Cmd("rerun", "w3", "t1", "system", "derived"),
     [Cmd("rerun", "w4", "t1", "user", "derived") EXCEPT !.skipPolicy = TRUE],
     [Cmd("publish_asset", "w1", "t1", "user", "derived") EXCEPT !.environment = "other"]}

\* Both together.
MCAllCommands == MCCommands \cup MCGateCommands

MCOneProcess == [s \in Submissions |-> "p1"]

-----------------------------------------------------------------------------
(* Jobs of the browser: every four replies, and six of those that come back *)
(* again; every two steps, pages and short names of hosts.                 *)

B == INSTANCE BrowserAgent

World      == [session |-> "none", keeps |-> TRUE, writable |-> B!Outputs]
Job        == [starts |-> TRUE, maxSteps |-> {3}]
FourReplies == [1..4 -> B!Replies]
SixReplies  == [1..6 -> {"invalid", "open", "click", "wait", "extract nothing"}]
PageSeqs   == UNION {[1..n -> B!Pages] : n \in 1..2}
Hosts      == UNION {[1..n -> {"a", ".", "-"}] : n \in 1..3}

ASSUME JobsAreSound ==
    /\ \A job \in B!Jobs, replies \in FourReplies :
          /\ B!WorkIsBounded(job, replies)
          /\ B!OkIsUntroubled(job, World, replies)
    /\ \A n \in 1..3, replies \in SixReplies : B!WorkIsBounded([Job EXCEPT !.maxSteps = {n}], replies)
    /\ \A job \in B!Jobs, world \in B!Worlds, replies \in [1..2 -> B!Replies] :
          B!KeptWithReason(job, world, replies)
    /\ \A allowed, validateOnly, keeps \in BOOLEAN, pages \in PageSeqs :
          B!CaptureIsOfLogin(allowed, validateOnly, keeps, pages)

ASSUME JobsHaveExceptions ==
    /\ \E replies \in FourReplies : B!RecoveredButFailed(Job, World, replies)
    /\ \E replies \in FourReplies : B!DoneTooLate(Job, World, replies)
    /\ B!NothingDone([Job EXCEPT !.maxSteps = {}], World, <<"fail">>)
    /\ \E steps \in [1..2 -> B!Steps] : B!OkWithNothing(Job, [World EXCEPT !.writable = {}], steps)
    /\ \E replies \in FourReplies : B!FailedButKept(Job, [World EXCEPT !.session = "over"], replies)
    /\ \E pages \in PageSeqs : B!CaptureIsNotValid(pages)
    /\ \E pages \in PageSeqs : B!ErrorIsLogin(pages)
    /\ \E a, b \in Hosts : B!HostsShareFile(a, b)

-----------------------------------------------------------------------------
(* Tasks of the local agent with one target or two, and files of up to     *)
(* three lines.                                                            *)

L == INSTANCE LocalAgent

InPlace == {t \in L!Targets : t.path = <<"home", "output", "f">>}
Mixed   == InPlace \cup {t \in L!Targets : t.ext = "env"}
Tasks ==
    [words : {{}, {"read", "patch"}} \cup {{w} : w \in L!Words}, mode : {"none", "read", "patch"},
     inputs : {{}, {"in"}}, fields : BOOLEAN, allowedPaths : {{}},
     targets : {<<>>} \cup [1..1 -> L!Targets] \cup [1..2 -> Mixed]]
TaskWorlds == [readable : {{}, {"in"}}, there : {{}, {1}, {1, 2}}, writable : SUBSET {1, 2}]
EnvFiles   == UNION {[1..n -> L!Lines] : n \in 0..3}

ASSUME FilesAreSound ==
    /\ \A task \in Tasks, world \in TaskWorlds :
          /\ L!AllInPlace(task, world)
          /\ L!WrittenInOrder(task, world)
          /\ L!PassesAlone(task, world)
    /\ \A lines \in EnvFiles, updates \in SUBSET L!Keys : L!PatchKeeps(lines, updates)

ASSUME FilesHaveExceptions ==
    /\ \E task \in Tasks, world \in TaskWorlds : L!OkButNotPassed(task, world)
    /\ \E task \in Tasks, world \in TaskWorlds : L!HalfWritten(task, world)
    /\ \E task \in Tasks, world \in TaskWorlds : L!PatchWritesOver(task, world)
    /\ \E task \in Tasks, world \in TaskWorlds : L!ReaderWrites(task, world)
    /\ \E task \in Tasks, world \in TaskWorlds : L!OkWithoutFile(task, world)
    /\ \E lines \in EnvFiles, updates \in SUBSET L!Keys : L!OldKeyStays(lines, updates)
=============================================================================
