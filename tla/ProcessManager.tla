---------------------------- MODULE ProcessManager ----------------------------
(***************************************************************************)
(* ProcessManager of process.rs: execute_parallel starts one task for each *)
(* ProcessConfig, at most max_concurrent of them run a child at a time,    *)
(* and the results are collected in the order of the configs.  A task      *)
(* reads its child's stdout to the end, then its stderr to the end, then   *)
(* waits: a child that fills the stderr pipe while its stdout is open      *)
(* blocks, and its task with it, until the timeout.                        *)
(***************************************************************************)
EXTENDS Integers, Sequences, FiniteSets

CONSTANTS NConfigs,       \* the number of configs
          MaxConcurrent,  \* max_concurrent
          PipeSize,       \* what a pipe holds before its writer blocks
          Programs        \* what the children do: sequences of "out" and "err" writes

ASSUME ProcessAssumption ==
    NConfigs \in Nat /\ MaxConcurrent \in Nat /\ PipeSize \in Nat /\ Programs \subseteq Seq({"out", "err"})

Configs == 1..NConfigs

VARIABLES config,    \* for each config: its program, whether it can be spawned,
                     \* whether its output is captured and its exit code
          stage,     \* its task: "queued", "stdout", "stderr", "wait", "done"
          permits,   \* free permits of the semaphore
          at,        \* how much of its program each child has done
          pipe,      \* what is in each child's two pipes
          read,      \* what the task has read of each
          child,     \* "none", "running", "exited" or "killed"
          outcome,   \* what execute_async returned
          collected  \* process_results

procVars == <<config, stage, permits, at, pipe, read, child, outcome, collected>>

Streams == {"out", "err"}
Wrote(c, s) == Cardinality({i \in DOMAIN config[c].program : config[c].program[i] = s})

ProcInit ==
    /\ config \in [Configs -> [program: Programs, spawns: BOOLEAN, capture: BOOLEAN, code: {0, 1}]]
    /\ stage = [c \in Configs |-> "queued"] /\ permits = MaxConcurrent
    /\ at = [c \in Configs |-> 0] /\ child = [c \in Configs |-> "none"]
    /\ pipe = [c \in Configs |-> [s \in Streams |-> 0]]
    /\ read = [c \in Configs |-> [s \in Streams |-> 0]]
    /\ outcome = [c \in Configs |-> "none"] /\ collected = <<>>

\* A task gets a permit and spawns its child.
Start(c) ==
    /\ stage[c] = "queued" /\ permits > 0
    /\ \/ /\ config[c].spawns
          /\ child' = [child EXCEPT ![c] = "running"] /\ permits' = permits - 1
          /\ stage' = [stage EXCEPT ![c] = IF config[c].capture THEN "stdout" ELSE "wait"]
          /\ UNCHANGED outcome
       \/ /\ ~config[c].spawns
          /\ outcome' = [outcome EXCEPT ![c] = "SpawnFailed"] /\ stage' = [stage EXCEPT ![c] = "done"]
          /\ UNCHANGED <<child, permits>>
    /\ UNCHANGED <<config, at, pipe, read, collected>>

\* The child: its next write (which blocks on a full pipe), or its exit.
Child(c) ==
    /\ child[c] = "running"
    /\ \/ /\ at[c] < Len(config[c].program)
          /\ LET s == config[c].program[at[c] + 1] IN
                /\ config[c].capture => pipe[c][s] < PipeSize
                /\ pipe' = IF config[c].capture THEN [pipe EXCEPT ![c][s] = @ + 1] ELSE pipe
          /\ at' = [at EXCEPT ![c] = @ + 1]
          /\ UNCHANGED child
       \/ /\ at[c] = Len(config[c].program)
          /\ child' = [child EXCEPT ![c] = "exited"]
          /\ UNCHANGED <<at, pipe>>
    /\ UNCHANGED <<config, stage, permits, read, outcome, collected>>

\* read_to_end takes what the pipe holds, and ends when the child has ended
\* and the pipe is empty.
ReadToEnd(c, s, next) ==
    \/ /\ pipe[c][s] > 0
       /\ read' = [read EXCEPT ![c][s] = @ + pipe[c][s]] /\ pipe' = [pipe EXCEPT ![c][s] = 0]
       /\ UNCHANGED stage
    \/ /\ pipe[c][s] = 0 /\ child[c] = "exited"
       /\ stage' = [stage EXCEPT ![c] = next]
       /\ UNCHANGED <<read, pipe>>

Read(c) ==
    /\ \/ stage[c] = "stdout" /\ ReadToEnd(c, "out", "stderr")
       \/ stage[c] = "stderr" /\ ReadToEnd(c, "err", "wait")
    /\ UNCHANGED <<config, permits, at, child, outcome, collected>>

\* child.wait() and the result; the permit is dropped with the task.
Wait(c) ==
    /\ stage[c] = "wait" /\ child[c] = "exited"
    /\ outcome' = [outcome EXCEPT ![c] = IF config[c].code = 0 THEN "Success" ELSE "Failure"]
    /\ stage' = [stage EXCEPT ![c] = "done"] /\ permits' = permits + 1
    /\ UNCHANGED <<config, at, pipe, read, child, collected>>

\* Mutant: the timeout covers the wait for the child, not the reading.
TimeoutWaitOnly(c) ==
    /\ stage[c] = "wait"
    /\ child' = [child EXCEPT ![c] = IF @ = "running" THEN "killed" ELSE @]
    /\ outcome' = [outcome EXCEPT ![c] = "Timeout"]
    /\ stage' = [stage EXCEPT ![c] = "done"] /\ permits' = permits + 1
    /\ UNCHANGED <<config, at, pipe, read, collected>>

\* The timeout: the child is killed and waited for, nothing of its output is
\* kept.
Timeout(c) ==
    /\ stage[c] \in {"stdout", "stderr", "wait"}
    /\ child' = [child EXCEPT ![c] = IF @ = "running" THEN "killed" ELSE @]
    /\ outcome' = [outcome EXCEPT ![c] = "Timeout"]
    /\ stage' = [stage EXCEPT ![c] = "done"] /\ permits' = permits + 1
    /\ UNCHANGED <<config, at, pipe, read, collected>>

\* The collecting loop of execute_parallel awaits the tasks in order.  An
\* error, a timeout too, becomes a result with exit code 1 and timed_out
\* false.
Collect ==
    /\ Len(collected) < NConfigs
    /\ LET c == Len(collected) + 1 IN
          /\ stage[c] = "done"
          /\ collected' = Append(collected,
                [of |-> c, success |-> outcome[c] = "Success", timed_out |-> FALSE,
                 out |-> IF outcome[c] \in {"Success", "Failure"} THEN read[c] ELSE [s \in Streams |-> 0]])
    /\ UNCHANGED <<config, stage, permits, at, pipe, read, child, outcome>>

ProcNext == (\E c \in Configs : Start(c) \/ Child(c) \/ Read(c) \/ Wait(c) \/ Timeout(c)) \/ Collect

-----------------------------------------------------------------------------
\* Everyone waits: the child for room in its stderr pipe, its task for the
\* end of its stdout.  Only the timeout ends it.
PipeDeadlock(c) == /\ stage[c] = "stdout" /\ child[c] = "running" /\ pipe[c]["out"] = 0
                   /\ at[c] < Len(config[c].program) /\ config[c].program[at[c] + 1] = "err"
                   /\ pipe[c]["err"] = PipeSize

\* What the manager promises.  At most max_concurrent children run, and each
\* under a task that holds a permit; a task that has ended leaves no child
\* running.  A result other than an error carries all the child wrote, and
\* the child's own exit code; results come in the order of the configs.  A
\* task whose child keeps its stderr within the pipe is never blocked.
ProcessesAccounted ==
    /\ permits = MaxConcurrent - Cardinality({c \in Configs : stage[c] \in {"stdout", "stderr", "wait"}})
    /\ permits >= 0
    /\ \A c \in Configs : child[c] = "running" => stage[c] \in {"stdout", "stderr", "wait"}
    /\ \A c \in Configs : outcome[c] \in {"Success", "Failure"} =>
          /\ (outcome[c] = "Success") <=> (config[c].code = 0)
          /\ at[c] = Len(config[c].program)
          /\ config[c].capture => \A s \in Streams : read[c][s] = Wrote(c, s)
    /\ \A i \in DOMAIN collected : collected[i].of = i /\ (collected[i].success => outcome[i] = "Success")
    /\ \A c \in Configs : PipeDeadlock(c) => Wrote(c, "err") > PipeSize

-----------------------------------------------------------------------------
(* ProcessEnvironment: the variables given to a child.  A later set_var    *)
(* wins, add_to_path puts its directory before what PATH holds, and the    *)
(* language paths are kept but not part of what build returns.             *)

SetVar(env, key, value) == [k \in DOMAIN env \cup {key} |-> IF k = key THEN value ELSE env[k]]
RemoveVar(env, key) == [k \in DOMAIN env \ {key} |-> env[k]]
AddToPath(env, dir) ==
    SetVar(env, "PATH", IF "PATH" \in DOMAIN env THEN <<dir>> \o env["PATH"] ELSE <<dir>>)

\* The variables the child sees.
ChildEnvironment(inherit, system, own) ==
    [k \in DOMAIN own \cup (IF inherit THEN DOMAIN system ELSE {}) |-> IF k \in DOMAIN own THEN own[k] ELSE system[k]]

\* The directory added last is found first, and the others keep their order;
\* a removed variable is seen only if it is inherited.
EnvironmentOrder ==
    \A inherit \in BOOLEAN, system \in [{"PATH", "HOME"} -> {<<"usr">>}] :
        LET own == AddToPath(AddToPath(SetVar(<<>>, "HOME", <<"tmp">>), "a"), "b")
            env == ChildEnvironment(inherit, system, RemoveVar(own, "HOME"))
        IN /\ env["PATH"] = <<"b", "a">>
           /\ ("HOME" \in DOMAIN env) <=> inherit

=============================================================================
