------------------------------ MODULE LocalAgent ------------------------------
(***************************************************************************)
(* The local agent (local-agent/*.ts): a task names the files it reads and *)
(* the files it is to write; its words say how; every path is looked up in *)
(* a list before anything is written; what was written is looked at        *)
(* afterwards.  One task after the other, so a task is a function of what  *)
(* it asks for and of which files can be read and written.                 *)
(*                                                                         *)
(* A path is the sequence of its parts, a text the kind of its format, an  *)
(* .env file the sequence of its lines.                                    *)
(***************************************************************************)
EXTENDS Naturals, Sequences, FiniteSets, SequencesExt, Functions

ALWAYS_DENIED        == {".git", "node_modules", ".ssh", ".aws", ".env"}
DEFAULT_ALLOWED_DIRS == {<<"home", d>> : d \in {"output", "memory", "docs", "configs", "sessions"}}

isPathAllowed(path, allowedPaths) ==
    /\ ToSet(path) \cap ALWAYS_DENIED = {}
    /\ \E dir \in IF allowedPaths = {} THEN DEFAULT_ALLOWED_DIRS ELSE allowedPaths : IsPrefix(dir, path)

-----------------------------------------------------------------------------
(* Tasks.                                                                  *)

Words == {"read", "patch", "generate env", "normalize config", "transform"}
Modes == {"read", "write", "patch", "transform", "generate_env", "normalize_config"}
Profile == [env |-> "env", json |-> "json", md |-> "markdown", csv |-> "csv", other |-> "generic"]

\* What a task asks for: words, a mode of its own or "none", whether it has files to read,
\* its targets in order, each a path and the format of its name, and whether there are fields.
Targets == [path : {<<"home", "output", "f">>, <<"home", "output", ".git", "f">>, <<"home", "outputs", "f">>},
            ext : DOMAIN Profile]

mapTask(words, targets, inputs) ==
    LET first == IF targets = <<>> THEN "generic" ELSE Profile[targets[1].ext]
        Map(mode, profile) == [mode |-> mode, profile |-> profile]
    IN  IF "read" \in words /\ targets = <<>>        THEN Map("read", "generic")
        ELSE IF "patch" \in words /\ inputs # {}     THEN Map("patch", first)
        ELSE IF "generate env" \in words             THEN Map("generate_env", "env")
        ELSE IF "normalize config" \in words         THEN Map("normalize_config", "json")
        ELSE Map(IF "transform" \in words THEN "transform" ELSE "write", first)

\* What becomes of a file, "none" if the agent does not know the format.
Written(mode, target, isThere) ==
    CASE mode = "generate_env"     -> "env"
      [] mode = "normalize_config" -> "json"
      [] OTHER -> IF target.ext = "other" THEN "none"
                  ELSE IF target.ext = "env" /\ mode = "patch" /\ isThere THEN "patched" ELSE target.ext

\* The checks of a profile; a table without fields is blank, and what was there before the
\* patch was sound.
Passes(profile, content, fields) ==
    CASE profile = "env"                  -> content \in {"env", "patched"}
      [] profile = "json"                 -> content = "json"
      [] profile \in {"markdown", "csv"}  -> content # "csv" \/ fields
      [] profile = "generic"              -> TRUE

\* The world says which inputs can be read, which targets are there and which can be written.
\* Of the answer, files holds what was written, in order; the write that fails is the last.
runLocalAgentTask(task, world) ==
    LET mapping  == mapTask(task.words, task.targets, task.inputs)
        mode     == IF task.mode = "none" THEN mapping.mode ELSE task.mode
        profile  == CASE mode = "generate_env" -> "env" [] mode = "normalize_config" -> "json"
                      [] OTHER -> mapping.profile
        allowed  == \A t \in ToSet(task.targets) : isPathAllowed(t.path, task.allowedPaths)
        Text(i)  == Written(mode, task.targets[i], i \in world.there)
        asked    == {i \in DOMAIN task.targets : Text(i) # "none"}
        failing  == asked \ world.writable
        done     == {i \in asked : \A j \in failing : i < j}
        ok       == allowed /\ failing = {}
        files    == IF allowed THEN [i \in done |-> Text(i)] ELSE [i \in {} |-> "none"]
    IN  [ok     |-> ok,
         files  |-> files,
         passed |-> ok /\ \A i \in DOMAIN files : Passes(profile, files[i], task.fields),
         warned |-> allowed /\ (task.inputs \ world.readable # {} \/ asked # DOMAIN task.targets)]

-----------------------------------------------------------------------------
(* The lines of an .env file, of which the model has keys, in two cases.   *)

toEnvKey(key) == [A |-> "A", a |-> "A", B |-> "B"][key]
Keys  == {"A", "a", "B"}
Lines == [key : Keys \cup {"#"}, value : {"old"}]

\* Lines of the keys are replaced where they stand; what is not there comes behind.
patchEnvFile(lines, updates) ==
    LET keys == {toEnvKey(k) : k \in updates}
        New(k) == [key |-> k, value |-> "new"]
    IN  [i \in DOMAIN lines |-> IF lines[i].key \in keys THEN New(lines[i].key) ELSE lines[i]]
          \o SetToSeq({New(k) : k \in keys \ {lines[i].key : i \in DOMAIN lines}})

-----------------------------------------------------------------------------
(* Claims.  MCCommandExecutor evaluates them.                              *)

\* No target is written if one of them is out of place: it is neither of the list nor has it
\* a name that is denied, and the name of a directory is no prefix of another one's.
AllInPlace(task, world) ==
    LET end == runLocalAgentTask(task, world)
        InPlace(t) == ToSet(t.path) \cap ALWAYS_DENIED = {} /\ \E dir \in DEFAULT_ALLOWED_DIRS : SubSeq(t.path, 1, 2) = dir
    IN  DOMAIN end.files # {} => \A t \in ToSet(task.targets) : InPlace(t)

\* The files are written in order up to the first that cannot be; ok and without a warning
\* means that all are.
WrittenInOrder(task, world) ==
    LET end == runLocalAgentTask(task, world)
    IN  /\ end.ok /\ ~end.warned => DOMAIN end.files = DOMAIN task.targets
        /\ DOMAIN end.files \subseteq world.writable
        /\ end.passed => end.ok
        /\ ~end.ok /\ DOMAIN end.files # {} =>
              \E i \in DOMAIN task.targets \ world.writable : \A j \in DOMAIN end.files : j < i

\* A file by itself is written so that it passes the checks, whatever the words, but for a
\* table without fields.
PassesAlone(task, world) ==
    Len(task.targets) = 1 /\ task.mode = "none" /\ task.fields =>
        LET end == runLocalAgentTask(task, world) IN end.ok => end.passed

\* A patch keeps what it has no word of where it is, leaves each of its keys with the new
\* value, and does no more when it comes again.
PatchKeeps(lines, updates) ==
    LET after == patchEnvFile(lines, updates)
        keys  == {toEnvKey(k) : k \in updates}
    IN  /\ \A i \in DOMAIN lines : lines[i].key \notin keys => after[i] = lines[i]
        /\ \A k \in keys : \E i \in DOMAIN after : after[i].key = k
        /\ \A i \in DOMAIN after : after[i].key \in keys => after[i].value = "new"
        /\ patchEnvFile(after, updates) = after

(* Exceptions, which are there.                                            *)

\* The answer is ok with checks that failed: the second file is checked as if it were one of
\* the kind of the first.
OkButNotPassed(task, world) ==
    LET end == runLocalAgentTask(task, world) IN end.ok /\ ~end.passed /\ task.fields

\* Of a task that failed a file is written.
HalfWritten(task, world) ==
    LET end == runLocalAgentTask(task, world) IN ~end.ok /\ DOMAIN end.files # {}

\* The task says to patch, and the file is written over, as it names no file to read.
PatchWritesOver(task, world) ==
    /\ "patch" \in task.words /\ task.inputs = {} /\ 1 \in world.there
    /\ runLocalAgentTask(task, world).files = <<"env">>

\* A task in the mode of reading writes.
ReaderWrites(task, world) ==
    task.mode = "read" /\ DOMAIN runLocalAgentTask(task, world).files # {}

\* Nothing is written and the answer is ok, and the checks passed.
OkWithoutFile(task, world) ==
    LET end == runLocalAgentTask(task, world) IN task.targets # <<>> /\ end.passed /\ DOMAIN end.files = {}

\* A key in small letters stays as it was beside the new one.
OldKeyStays(lines, updates) ==
    \E i \in DOMAIN lines : lines[i].key \in updates /\ patchEnvFile(lines, updates)[i].value = "old"
=============================================================================
