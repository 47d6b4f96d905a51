---------------------------- MODULE LanguageSetup ----------------------------
(***************************************************************************)
(* Setting up the environment of a hook and running the hook in it, for    *)
(* every language plugin (src/src/language/*.rs).  Several tasks set up    *)
(* the same environment at once: tasks of one run, or runs in two          *)
(* terminals.  An environment is a directory that keeps what an attempt    *)
(* left there, so a crash or a failed tool leaves part of one behind.      *)
(*                                                                         *)
(* A plugin's setup is a table: a sequence of steps, one per helper that   *)
(* runs a tool or looks at the directory.  A step fails at once when       *)
(* "need" is missing, is passed over when "done" is all there, and         *)
(* otherwise lets its tool make the artifacts of "make" one after the      *)
(* other.  "fail" says what the code does when the tool fails: return the  *)
(* error, go on as if nothing had happened, or fall back to the next step. *)
(***************************************************************************)
EXTENDS Naturals, Sequences, FiniteSets

CONSTANTS Tasks,        \* setups that run at the same time
          Languages,    \* the plugins of this instance
          MaxFaults,    \* bound: tools that fail
          MaxCrashes,   \* bound: crashes of the process
          MaxEdits,     \* bound: edits of the hook's sources
          MaxCleans     \* bound: removals of the environment directory

Artifacts == {"dir", "python", "pip", "repo", "marker", "deps", "image",
              "components", "gemhome", "tool"}

VARIABLES
  lang,       \* the plugin whose environment this is
  host,       \* what the machine and the project offer, never made here
  disk,       \* artifacts in the environment directory
  source,     \* version of the sources the hook is installed from
  installed,  \* version that was installed last, 0 when none
  stamped,    \* version the sources had when the marker was written
  at,         \* at[t]: the step t is in, 0 outside a setup
  made,       \* made[t]: artifacts of that step its tool has made so far
  left,       \* left[t]: tries that step has left
  state,      \* state[t]: how far t is, and how it ended
  child,      \* child[t]: the hook's process: "none", "alive", "zero", "one"
  faults, crashes, edits, cleans,
  overlap,    \* an edit or a removal came in the middle of an installation
  shared,     \* two setups were under way at once
  lost        \* tasks whose directory was removed after their setup was done
vars == <<lang, host, disk, source, installed, stamped, at, made, left, state,
          child, faults, crashes, edits, cleans, overlap, shared, lost>>
env == <<lang, host>>
counts == <<faults, crashes, edits, cleans>>

-----------------------------------------------------------------------------
(* The tables. *)

Step(need, done, make, fail, tries, wipe) ==
  [need |-> need, done |-> done, make |-> make, fail |-> fail,
   tries |-> tries, wipe |-> wipe]
Check(need)      == Step(need, {}, << >>, "error", 1, FALSE)
Tool(need, make) == Step(need, {}, make, "error", 1, FALSE)

\* python: create_dir_all, then "python -m venv" unless bin/python is there.
PythonVenv == Step({"tool"}, {"python"}, <<"dir", "python", "pip">>, "error", 1, FALSE)
\* python: get_python_executable
PythonExecutable == Check({"python"})
\* Mutants: a failed pip install is ignored; the marker is written before pip runs.
PythonRepositoryIgnored == Step({"pip"}, {"marker"}, <<"repo", "dir", "marker">>, "ignore", 1, FALSE)
PythonRepositoryMarkedFirst == Step({"pip"}, {"marker"}, <<"dir", "marker", "repo">>, "error", 1, FALSE)
\* python: install_repository: pip must be there, a fresh marker ends it, then
\* pip install -e and mark_repository_installed.
PythonRepository == Step({"pip"}, {"marker"}, <<"repo", "dir", "marker">>, "error", 1, FALSE)
\* python: install_dependencies of the additional ones; what fails is listed
\* in a result nobody reads.
PythonDependencies == Step({"pip"}, {}, <<"deps">>, "ignore", 1, FALSE)
PythonSetup == <<PythonVenv, PythonExecutable, PythonRepository, PythonDependencies>>

\* python, create_virtual_environment: an environment that validates is used as
\* it is, any other is removed and made again, first with venv ...
ValidVenv == {"python", "pip"}
CreateVenv == Step({"tool"}, ValidVenv, <<"dir", "python", "pip">>, "fallback", 1, TRUE)
\* ... and when that fails by create_venv_environment_legacy, three times.
CreateVenvLegacy == Step({"tool"}, {}, <<"dir", "python", "pip">>, "error", 3, TRUE)
TempVenvSetup == <<CreateVenv, CreateVenvLegacy>>

\* rust: find_suitable_toolchain and detect_cargo_workspace only look; cargo
\* add or cargo install each dependency, then the components, where a failure
\* is a warning.
RustDependencies == Tool({"tool"}, <<"deps">>)
RustComponents == Step({"tool"}, {"components"}, <<"components">>, "ignore", 1, FALSE)
RustSetup == <<Check({"tool", "manifest"}), RustDependencies, RustComponents>>

\* node: find_suitable_node, then the package manager installs in one command.
NodeDependencies == Tool({"tool"}, <<"deps">>)
NodeSetup == <<Check({"tool"}), NodeDependencies>>

\* golang: newest toolchain, then "go install" of each dependency.
GoDependencies == Tool({"tool"}, <<"deps">>)
GoSetup == <<Check({"tool"}), GoDependencies>>

\* ruby: only the gem directories are made; the gems come with the separate
\* call of install_dependencies.
RubySetup == <<Check({"tool"}), Tool({"tool"}, <<"gemhome">>)>>

\* docker: find_dockerfile, then build the image unless one with this tag is
\* there; the tag depends on paths and not on what the Dockerfile says.
DockerImage == Step({"tool", "manifest"}, {"image"}, <<"image">>, "error", 1, FALSE)
DockerSetup == <<Check({"tool", "manifest"}), DockerImage>>

\* system needs nothing, script a repository to find the script in.
SystemSetup == << >>
ScriptSetup == <<Check({"manifest"})>>

Setup ==
  [l \in {"python", "tempvenv", "rust", "node", "golang", "ruby", "docker",
          "system", "script"} |->
   CASE l = "python" -> PythonSetup   [] l = "tempvenv" -> TempVenvSetup
     [] l = "rust"   -> RustSetup     [] l = "node"     -> NodeSetup
     [] l = "golang" -> GoSetup       [] l = "ruby"     -> RubySetup
     [] l = "docker" -> DockerSetup   [] l = "system"   -> SystemSetup
     [] OTHER        -> ScriptSetup]

\* How a plugin runs a hook: what it makes of a missing executable, and
\* whether it gives up on a process after the timeout.
PythonRun == [missing |-> "skipped", timeout |-> TRUE,  late |-> "failed"]
RustRun   == [missing |-> "error",   timeout |-> FALSE, late |-> "failed"]
NodeRun   == [missing |-> "error",   timeout |-> TRUE,  late |-> "error"]
RubyRun   == [missing |-> "error",   timeout |-> FALSE, late |-> "failed"]
GoRun     == [missing |-> "error",   timeout |-> FALSE, late |-> "failed"]
DockerRun == [missing |-> "error",   timeout |-> TRUE,  late |-> "error"]
SystemRun == [missing |-> "skipped", timeout |-> TRUE,  late |-> "failed"]
ScriptRun == [missing |-> "error",   timeout |-> TRUE,  late |-> "failed"]

Run ==
  [l \in DOMAIN Setup |->
   CASE l \in {"python", "tempvenv"} -> PythonRun
     [] l = "rust"   -> RustRun    [] l = "node"   -> NodeRun
     [] l = "golang" -> GoRun      [] l = "ruby"   -> RubyRun
     [] l = "docker" -> DockerRun  [] l = "system" -> SystemRun
     [] OTHER        -> ScriptRun]

ASSUME SetupAssumption ==
  /\ Languages \subseteq DOMAIN Setup
  /\ {MaxFaults, MaxCrashes, MaxEdits, MaxCleans} \subseteq Nat

-----------------------------------------------------------------------------
Init ==
  /\ lang \in Languages
  /\ host \in {{"tool", "manifest"}, {"tool"}, {}}
  /\ disk = {} /\ source = 1 /\ installed = 0 /\ stamped = 0
  /\ at = [t \in Tasks |-> 0] /\ made = [t \in Tasks |-> 0]
  /\ left = [t \in Tasks |-> 0]
  /\ state = [t \in Tasks |-> "idle"] /\ child = [t \in Tasks |-> "none"]
  /\ faults = 0 /\ crashes = 0 /\ edits = 0 /\ cleans = 0
  /\ overlap = FALSE /\ shared = FALSE /\ lost = {}

Plan == Setup[lang]
Cur(t) == Plan[at[t]]
Present == disk \union host

\* is_repository_installed: the marker is there and not older than the sources.
FreshMarker == "marker" \in disk /\ stamped = source

Passed(t) ==
  LET s == Cur(t) IN
  /\ s.done # {} /\ s.done \subseteq Present
  /\ "marker" \in s.done => FreshMarker

InStep(t, k, n) ==
  /\ at' = [at EXCEPT ![t] = k]
  /\ made' = [made EXCEPT ![t] = 0]
  /\ left' = [left EXCEPT ![t] = n]

\* The end of a step: the next one, or the environment is ready.
Advance(t, k) ==
  /\ state' = [state EXCEPT ![t] = IF k > Len(Plan) THEN "ok" ELSE "setup"]
  /\ IF k > Len(Plan) THEN InStep(t, 0, 0) ELSE InStep(t, k, Plan[k].tries)

\* A setup that ends in an error, because of a tool or of what is not there.
Stop(t, why) == state' = [state EXCEPT ![t] = why] /\ InStep(t, 0, 0)

\* A step that has a fallback ends the setup when it succeeds.
Following(t) == IF Cur(t).fail = "fallback" THEN Len(Plan) + 1 ELSE at[t] + 1

\* Where an installation can be disturbed by an edit or a removal.
Installing == \E t \in Tasks : state[t] = "setup" /\ made[t] > 0

\* The program calls setup_environment, again after an error.
Start(t) ==
  /\ state[t] \in {"idle", "toolfailed", "missing"}
  /\ Advance(t, 1)
  /\ shared' = (shared \/ \E u \in Tasks \ {t} : state[u] = "setup")
  /\ lost' = lost \ {t}
  /\ UNCHANGED <<env, disk, source, installed, stamped, child, counts, overlap>>

\* Nothing of the step has been made yet: look, and pass it over ...
Skip(t) ==
  /\ state[t] = "setup" /\ made[t] = 0
  /\ Cur(t).need \subseteq Present
  /\ Passed(t) \/ Cur(t).make = << >>
  /\ Advance(t, Following(t))
  /\ UNCHANGED <<env, disk, source, installed, stamped, child, counts, overlap,
                 shared, lost>>

\* ... or fail for want of something.
Missing(t) ==
  /\ state[t] = "setup" /\ made[t] = 0
  /\ ~(Cur(t).need \subseteq Present)
  /\ Stop(t, "missing")
  /\ UNCHANGED <<env, disk, source, installed, stamped, child, counts, overlap,
                 shared, lost>>

\* The tool starts: what is in the directory is removed where the code does
\* that, before the first try only.
Begin(t) ==
  LET s == Cur(t)
      wiped == s.wipe /\ left[t] = s.tries IN
  /\ state[t] = "setup" /\ made[t] = 0
  /\ s.make # << >> /\ s.need \subseteq Present /\ ~Passed(t)
  /\ made' = [made EXCEPT ![t] = 1]
  /\ disk' = (IF wiped THEN {} ELSE disk) \union {s.make[1]}
  /\ installed' = IF s.make[1] = "repo" THEN source ELSE installed
  /\ overlap' = (overlap \/ (wiped /\ Installing))
  /\ lost' = IF wiped /\ disk # {} THEN Tasks \ {t} ELSE lost
  /\ UNCHANGED <<env, source, stamped, at, left, state, child, counts, shared>>

\* The tool, or mark_repository_installed after it, makes one more artifact.
Make(t) ==
  LET s == Cur(t)
      a == s.make[made[t] + 1] IN
  /\ state[t] = "setup" /\ made[t] \in 1 .. Len(s.make) - 1
  /\ made' = [made EXCEPT ![t] = @ + 1]
  /\ disk' = disk \union {a}
  /\ stamped' = IF a = "marker" THEN source ELSE stamped
  /\ installed' = IF a = "repo" THEN source ELSE installed
  /\ UNCHANGED <<env, source, at, left, state, child, counts, overlap, shared, lost>>

\* The tool has succeeded.
Finish(t) ==
  /\ state[t] = "setup" /\ made[t] > 0 /\ made[t] = Len(Cur(t).make)
  /\ Advance(t, Following(t))
  /\ UNCHANGED <<env, disk, source, installed, stamped, child, counts, overlap,
                 shared, lost>>

\* The tool fails, whatever it has made: the next try, the error, or on as if
\* nothing had happened.
Fail(t) ==
  LET s == Cur(t) IN
  /\ faults < MaxFaults
  /\ state[t] = "setup" /\ made[t] > 0 /\ s.make[made[t]] # "marker"
  /\ faults' = faults + 1
  /\ \/ left[t] > 1 /\ InStep(t, at[t], left[t] - 1) /\ UNCHANGED state
     \/ left[t] = 1 /\ s.fail = "error" /\ Stop(t, "toolfailed")
     \/ left[t] = 1 /\ s.fail # "error" /\ Advance(t, at[t] + 1)
  /\ UNCHANGED <<env, disk, source, installed, stamped, child, crashes, edits,
                 cleans, overlap, shared, lost>>

-----------------------------------------------------------------------------
(* The hook runs in the environment. *)

\* The hook's executable is not there: an error, or the hook is skipped.
NoExecutable(t) ==
  /\ state[t] = "ok"
  /\ state' = [state EXCEPT ![t] = Run[lang].missing]
  /\ UNCHANGED <<env, disk, source, installed, stamped, at, made, left, child,
                 counts, overlap, shared, lost>>

Spawn(t) ==
  /\ state[t] = "ok" /\ child[t] = "none"
  /\ state' = [state EXCEPT ![t] = "run"]
  /\ child' = [child EXCEPT ![t] = "alive"]
  /\ UNCHANGED <<env, disk, source, installed, stamped, at, made, left, counts,
                 overlap, shared, lost>>

\* The hook's process ends, with status zero or another.
Exit(t) ==
  /\ child[t] = "alive"
  /\ \E c \in {"zero", "one"} : child' = [child EXCEPT ![t] = c]
  /\ UNCHANGED <<env, disk, source, installed, stamped, at, made, left, state,
                 counts, overlap, shared, lost>>

Report(t) ==
  /\ state[t] = "run" /\ child[t] \in {"zero", "one"}
  /\ state' = [state EXCEPT ![t] = IF child[t] = "zero" THEN "passed" ELSE "failed"]
  /\ UNCHANGED <<env, disk, source, installed, stamped, at, made, left, child,
                 counts, overlap, shared, lost>>

\* Mutant: the timeout waits for the process it gives up.
GiveUpAfterExit(t) ==
  /\ state[t] = "run" /\ child[t] # "alive" /\ Run[lang].timeout
  /\ state' = [state EXCEPT ![t] = Run[lang].late]
  /\ UNCHANGED <<env, disk, source, installed, stamped, at, made, left, child,
                 counts, overlap, shared, lost>>
\* The timeout of the plugin: the future that waits for the process is dropped
\* and the process is not killed.
GiveUp(t) ==
  /\ state[t] = "run" /\ child[t] = "alive" /\ Run[lang].timeout
  /\ state' = [state EXCEPT ![t] = Run[lang].late]
  /\ UNCHANGED <<env, disk, source, installed, stamped, at, made, left, child,
                 counts, overlap, shared, lost>>

-----------------------------------------------------------------------------
(* What happens around it. *)

\* The process is killed: every task of it is gone, the directory stays.
Crash ==
  /\ crashes < MaxCrashes
  /\ crashes' = crashes + 1
  /\ state' = [t \in Tasks |-> "idle"]
  /\ at' = [t \in Tasks |-> 0] /\ made' = [t \in Tasks |-> 0]
  /\ left' = [t \in Tasks |-> 0] /\ child' = [t \in Tasks |-> "none"]
  /\ UNCHANGED <<env, disk, source, installed, stamped, faults, edits, cleans,
                 overlap, shared, lost>>

\* The hook's repository is updated.
EditSource ==
  /\ edits < MaxEdits
  /\ edits' = edits + 1 /\ source' = source + 1
  /\ overlap' = (overlap \/ Installing)
  /\ UNCHANGED <<env, disk, installed, stamped, at, made, left, state, child,
                 faults, crashes, cleans, shared, lost>>

\* cleanup_environment removes the directory; only python has one to remove.
Clean ==
  /\ cleans < MaxCleans
  /\ lang = "python" /\ disk # {}
  /\ cleans' = cleans + 1 /\ disk' = {}
  /\ overlap' = (overlap \/ Installing)
  /\ lost' = Tasks
  /\ UNCHANGED <<env, source, installed, stamped, at, made, left, state, child,
                 faults, crashes, edits, shared>>

SetupStep(t) == Skip(t) \/ Missing(t) \/ Begin(t) \/ Make(t) \/ Finish(t) \/ Fail(t)
HookStep(t) == NoExecutable(t) \/ Spawn(t) \/ Report(t) \/ GiveUp(t)
Next ==
  \/ \E t \in Tasks : Start(t) \/ SetupStep(t) \/ HookStep(t) \/ Exit(t)
  \/ Crash \/ EditSource \/ Clean

\* Tools end by themselves and the runtime polls every task; a hook's process
\* may run forever.
Spec == Init /\ [][Next]_vars
        /\ \A t \in Tasks : WF_vars(SetupStep(t)) /\ WF_vars(HookStep(t))

-----------------------------------------------------------------------------
(* Properties. *)

Ended == {"passed", "failed", "skipped", "error"}

\* The state of every task, with a step of the plan for a task in a setup.
TypeOK ==
  /\ disk \subseteq Artifacts
  /\ \A t \in Tasks :
       /\ state[t] \in Ended \union {"idle", "setup", "ok", "run", "toolfailed", "missing"}
       /\ state[t] = "setup" <=> at[t] \in 1 .. Len(Plan)
       /\ state[t] = "setup" => made[t] <= Len(Cur(t).make) /\ left[t] \in 1 .. Cur(t).tries
       /\ child[t] \in {"none", "alive", "zero", "one"}

\* What setup_environment promises with Ok.  The additional dependencies of
\* python and the components of rust are not among it: the code ignores their
\* failure.
Promise ==
  CASE lang = "python"   -> {"python", "pip", "repo", "marker"}
    [] lang = "tempvenv" -> {"python"}
    [] lang = "ruby"     -> {"gemhome"}
    [] lang = "docker"   -> {"image"}
    [] lang \in {"rust", "node", "golang"} -> {"deps"}
    [] OTHER -> {}

\* setup_environment returned Ok and nobody removed the directory since then:
\* everything it promises is there, whatever the other tasks do, and whatever
\* crashes and failed tools left behind (python.rs:1615).
ReadyEnvironment ==
  \A t \in Tasks : state[t] \in {"ok", "run"} /\ t \notin lost /\ ~overlap
                   => Promise \subseteq disk

\* A marker that is_repository_installed believes stands for an installation of
\* these sources, unless an edit or a removal came in the middle of one: pip
\* ran first, the marker takes the time after it (python.rs:1223).
MarkerTruthful ==
  FreshMarker /\ ~overlap => installed = source /\ "repo" \in disk

\* A setup in which no tool failed ends in an error only for want of a tool or
\* a manifest of the project, or for python because of half a virtual
\* environment: one whose python is there and whose pip is not, which a crash,
\* a failed tool or another task that is still making it leaves (python.rs:1640
\* asks for bin/python only, so a later call does not repair it).
FailureExplained ==
  \A t \in Tasks : state[t] = "missing" /\ {"tool", "manifest"} \subseteq host
    => lang = "python" /\ (shared \/ faults > 0 \/ crashes > 0 \/ cleans > 0)

\* A marker tells the truth about the environment it is in, and a setup that
\* fails has a fault, a missing tool or a removed directory to blame.
SetupsTruthful == TypeOK /\ MarkerTruthful /\ FailureExplained

\* Every setup ends, and so does every hook of a plugin that has a timeout; a
\* hook of rust, ruby or golang whose process hangs is waited for for ever.
Busy(t) == state[t] \in {"setup", "ok"} \/ (state[t] = "run" /\ Run[lang].timeout)
EveryTaskEnds == \A t \in Tasks : Busy(t) ~> ~Busy(t)
=============================================================================
