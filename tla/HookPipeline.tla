---------------------------- MODULE HookPipeline ----------------------------
(***************************************************************************)
(* One run of the hook execution engine (src/src/execution.rs): the three  *)
(* entry points execute_hooks (which picks sequential or parallel          *)
(* execution), execute_hooks_with_pools and execute_hooks_arena_optimized, *)
(* all built on execute_single_hook, and the result and the events they    *)
(* produce.                                                                *)
(*                                                                         *)
(* What a hook is configured to do is abstracted to its kind; what its     *)
(* process does is a nondeterministic outcome.  Hook ids are unique.       *)
(***************************************************************************)
EXTENDS Integers, Sequences, FiniteSets

CONSTANTS
    Hooks,       \* hook ids
    ConfigOrder, \* the hooks in configuration order
    Group,       \* Group[h]: language and dependencies, as hashed by the pooled run
    Strategies,  \* entry points considered: subset of {"auto", "pooled", "arena"}
    Kinds,       \* hook kinds considered
    DepChoices,  \* depends_on relations considered: subset of [Hooks -> SUBSET Hooks]
    Permits,     \* permits of the ConcurrencyExecutor
    Unknown      \* the task id execute_batch reports for a task that errored

AllKinds == {"plain",      \* has matching files, concurrent
             "always",     \* always_run, no matching file
             "nomatch",    \* no matching file
             "exclusive",  \* concurrent: false
             "cached",     \* a fresh successful result is in hook_cache
             "offstage"}   \* not configured for this stage

ASSUME PipelineAssumption ==
    /\ IsFiniteSet(Hooks)
    /\ ConfigOrder \in Seq(Hooks)
    /\ \A h \in Hooks : \E i \in 1..Len(ConfigOrder) : ConfigOrder[i] = h
    /\ \A i, j \in 1..Len(ConfigOrder) : ConfigOrder[i] = ConfigOrder[j] => i = j
    /\ Strategies \subseteq {"auto", "pooled", "arena"}
    /\ Kinds \subseteq AllKinds
    /\ DepChoices \subseteq [Hooks -> SUBSET Hooks]
    /\ Permits \in Nat \ {0}
    /\ Unknown \notin Hooks

VARIABLES
    cfg,     \* the call: strategy, fail_fast, max_parallel_hooks, files, kinds, depends_on
    phase,   \* where the run is
    order,   \* ordered_hooks
    next,    \* index of the hook being worked on (all but the parallel phase)
    cur,     \* progress or outcome of execute_single_hook for order[next]
    task,    \* parallel phase: state of each hook's task
    passed, failed, skipped,  \* the lists of ExecutionResult
    success, \* ExecutionResult::success
    summary, \* counts carried by PipelineCompleted
    log      \* events handed to the bus, in order

vars == <<cfg, phase, order, next, cur, task, passed, failed, skipped, success,
          summary, log>>
resultVars == <<passed, failed, skipped, success>>

-----------------------------------------------------------------------------
NoSummary == [passed |-> 0, failed |-> 0, skipped |-> 0]

Configs ==
    [strategy : Strategies, failFast : BOOLEAN, maxParallel : {1, 2}, hasFiles : BOOLEAN,
     kind : [Hooks -> Kinds], deps : DepChoices]

Init ==
    /\ cfg \in Configs
    /\ phase = "start"
    /\ order = <<>> /\ next = 1 /\ cur = "idle"
    /\ task = [h \in Hooks |-> "none"]
    /\ passed = <<>> /\ failed = <<>> /\ skipped = <<>> /\ success = TRUE
    /\ summary = NoSummary
    /\ log = <<>>

AlwaysRun(h) == cfg.kind[h] = "always"
Matches(h) == cfg.hasFiles /\ cfg.kind[h] \in {"plain", "exclusive", "cached"}
HasDependencies == \E h \in Hooks : cfg.deps[h] # {}
HasNonConcurrent == \E h \in Hooks : cfg.kind[h] = "exclusive"

UseParallel ==
    /\ cfg.maxParallel > 1
    /\ Cardinality(Hooks) > 1
    /\ ~cfg.failFast
    /\ ~HasDependencies
    /\ ~HasNonConcurrent

Permutation(s) ==
    /\ Len(s) = Cardinality(Hooks)
    /\ \A h \in Hooks : \E i \in 1..Len(s) : s[i] = h

Position(s, h) == CHOOSE i \in 1..Len(s) : s[i] = h

\* Mutant: the edges are followed the wrong way round.
DependentsFirst(s) ==
    \A h \in Hooks : \A d \in cfg.deps[h] : Position(s, h) <= Position(s, d)

\* A topological order: every dependency comes before the hook that names it.
DependenciesFirst(s) ==
    \A h \in Hooks : \A d \in cfg.deps[h] : Position(s, d) < Position(s, h)

\* resolve_hook_dependencies: configuration order without dependencies, else some
\* topological order (ties follow hash-map order); none exists when there is a cycle.
ResolvedOrders ==
    IF HasDependencies
    THEN {s \in [1..Cardinality(Hooks) -> Hooks] : Permutation(s) /\ DependenciesFirst(s)}
    ELSE {ConfigOrder}

\* grouped_hooks: groups come in hash-map order, a group's hooks in their own.
GroupedOrders ==
    {s \in [1..Cardinality(Hooks) -> Hooks] :
        /\ Permutation(s)
        /\ \A i, j \in 1..Len(s) : i < j /\ Group[s[i]] = Group[s[j]] =>
              /\ Position(ConfigOrder, s[i]) < Position(ConfigOrder, s[j])
              /\ \A k \in i..j : Group[s[k]] = Group[s[i]]}

Emit(e, h) == log' = Append(log, <<e, h>>)

-----------------------------------------------------------------------------
(* Entry points                                                            *)

\* A cycle (or a dependency on an unknown hook) is an error before anything runs.
ResolveFails ==
    /\ phase = "start" /\ cfg.strategy = "auto"
    /\ ResolvedOrders = {}
    /\ phase' = "error"
    /\ UNCHANGED <<cfg, order, next, cur, task, resultVars, summary, log>>

StartAuto ==
    /\ phase = "start" /\ cfg.strategy = "auto"
    /\ \E s \in ResolvedOrders : order' = s
    /\ phase' = IF UseParallel THEN "setup" ELSE "run"
    /\ Emit("PipelineStarted", Unknown)
    /\ UNCHANGED <<cfg, next, cur, task, resultVars, summary>>

\* The pooled run emits no pipeline events and ignores depends_on.
StartPooled ==
    /\ phase = "start" /\ cfg.strategy = "pooled"
    /\ \E s \in GroupedOrders : order' = s
    /\ phase' = "run"
    /\ UNCHANGED <<cfg, next, cur, task, resultVars, summary, log>>

StartArena ==
    /\ phase = "start" /\ cfg.strategy = "arena"
    /\ order' = ConfigOrder
    /\ phase' = "run"
    /\ Emit("PipelineStarted", Unknown)
    /\ UNCHANGED <<cfg, next, cur, task, resultVars, summary>>

-----------------------------------------------------------------------------
(* execute_single_hook for order[next]                                     *)

Working == phase = "run" /\ next <= Len(order)
Current == order[next]

\* The checks the sequential loop makes before it calls execute_single_hook.
SkippedByLoop ==
    /\ cfg.strategy = "auto"
    /\ \/ cfg.failFast /\ ~success
       \/ ~cfg.hasFiles /\ ~AlwaysRun(Current)

SingleKeeps == UNCHANGED <<cfg, phase, order, next, task, resultVars, summary>>

\* Wrong stage: the untouched result (neither successful nor skipped) comes back.
SingleOffStage ==
    /\ Working /\ cur = "idle" /\ ~SkippedByLoop
    /\ cfg.kind[Current] = "offstage"
    /\ cur' = "default"
    /\ UNCHANGED log /\ SingleKeeps

SingleStart ==
    /\ Working /\ cur = "idle" /\ ~SkippedByLoop
    /\ cfg.kind[Current] # "offstage"
    /\ cur' = "started"
    /\ Emit("HookStarted", Current)
    /\ SingleKeeps

\* A bad file pattern or a failing change detector propagates with `?`.
SingleFilterError ==
    /\ Working /\ cur = "started"
    /\ cur' = "error"
    /\ UNCHANGED log /\ SingleKeeps

\* Mutant: the early return is missing, the hook goes on to execute.
SingleSkipFallsThrough ==
    /\ Working /\ cur = "started"
    /\ ~Matches(Current) /\ ~AlwaysRun(Current)
    /\ cur' = "prepared"
    /\ Emit("HookSkipped", Current)
    /\ SingleKeeps

SingleSkip ==
    /\ Working /\ cur = "started"
    /\ ~Matches(Current) /\ ~AlwaysRun(Current)
    /\ cur' = "skipped"
    /\ Emit("HookSkipped", Current)
    /\ SingleKeeps

\* A cache hit returns without any further event.
SingleCacheHit ==
    /\ Working /\ cur = "started"
    /\ Matches(Current) /\ cfg.kind[Current] = "cached"
    /\ cur' = "passed"
    /\ UNCHANGED log /\ SingleKeeps

SinglePrepare ==
    /\ Working /\ cur = "started"
    /\ Matches(Current) \/ AlwaysRun(Current)
    /\ cfg.kind[Current] # "cached"
    /\ cur' = "prepared"
    /\ Emit("FilesProcessed", Current)
    /\ SingleKeeps

\* get_or_create_environment or the plugin failed: Err, and no HookFailed event.
SingleError ==
    /\ Working /\ cur = "prepared"
    /\ cur' = "error"
    /\ UNCHANGED log /\ SingleKeeps

SingleSuccess ==
    /\ Working /\ cur = "prepared"
    /\ cur' = "passed"
    /\ Emit("HookCompleted", Current)
    /\ SingleKeeps

SingleFailure ==
    /\ Working /\ cur = "prepared"
    /\ cur' = "failed"
    /\ Emit("HookFailed", Current)
    /\ SingleKeeps

ExecuteSingleHook ==
    \/ SingleOffStage \/ SingleStart \/ SingleFilterError \/ SingleSkip
    \/ SingleCacheHit \/ SinglePrepare \/ SingleError \/ SingleSuccess \/ SingleFailure

-----------------------------------------------------------------------------
(* Recording results                                                       *)

AddPassed(h) == passed' = Append(passed, h) /\ UNCHANGED <<failed, skipped, success>>
AddFailed(h) ==
    failed' = Append(failed, h) /\ success' = FALSE /\ UNCHANGED <<passed, skipped>>
AddSkipped(h) == skipped' = Append(skipped, h) /\ UNCHANGED <<passed, failed, success>>

\* The next iteration of the loop over the hooks.
Advance ==
    /\ next' = next + 1
    /\ cur' = "idle"
    /\ UNCHANGED <<cfg, phase, order, task, summary, log>>

\* Mutant: `continue` without moving to the next hook.
SequentialSkipStuck ==
    /\ Working /\ cur = "idle" /\ SkippedByLoop
    /\ UNCHANGED vars

\* fail_fast after a failure, or no files at all.
SequentialSkip ==
    /\ Working /\ cur = "idle" /\ SkippedByLoop
    /\ AddSkipped(Current)
    /\ Advance

\* Mutant: an execution error is logged and the hook dropped.
SequentialRecordDropsErrors ==
    /\ Working /\ cfg.strategy = "auto"
    /\ \/ cur = "passed" /\ AddPassed(Current)
       \/ cur = "skipped" /\ AddSkipped(Current)
       \/ cur \in {"failed", "default"} /\ AddFailed(Current)
       \/ cur = "error" /\ UNCHANGED resultVars
    /\ Advance

\* execute_hooks_sequential: an Err becomes a failed result, the run goes on.
SequentialRecord ==
    /\ Working /\ cfg.strategy = "auto"
    /\ \/ cur = "passed" /\ AddPassed(Current)
       \/ cur = "skipped" /\ AddSkipped(Current)
       \/ cur \in {"failed", "error", "default"} /\ AddFailed(Current)
    /\ Advance

\* execute_hooks_with_pools sorts by result.success alone.
PooledRecord ==
    /\ Working /\ cfg.strategy = "pooled"
    /\ \/ cur = "passed" /\ AddPassed(Current)
       \/ cur \in {"failed", "error", "default", "skipped"} /\ AddFailed(Current)
    /\ Advance

\* Acquiring the group's pooled resources fails: the whole run is an error.
PooledAcquireFails ==
    /\ Working /\ cfg.strategy = "pooled" /\ cur = "idle"
    /\ next > 1 => Group[order[next - 1]] # Group[order[next]]
    /\ phase' = "error"
    /\ UNCHANGED <<cfg, order, next, cur, task, resultVars, summary, log>>

\* execute_hooks_arena_optimized: everything that did not succeed is counted as a
\* failure; results of zero duration are listed as skipped afterwards.
ArenaRecord ==
    /\ Working /\ cfg.strategy = "arena"
    /\ \/ cur = "passed" /\ AddPassed(Current) /\ UNCHANGED summary
       \/ cur = "default" /\ AddSkipped(Current) /\ UNCHANGED summary
       \/ /\ cur = "skipped"
          /\ skipped' = Append(skipped, Current) /\ success' = FALSE
          /\ summary' = [summary EXCEPT !.failed = @ + 1]
          /\ UNCHANGED <<passed, failed>>
       \/ /\ cur = "failed"
          /\ AddFailed(Current)
          /\ summary' = [summary EXCEPT !.failed = @ + 1]
    /\ next' = IF cfg.failFast /\ cur \in {"failed", "skipped"}
               THEN Len(order) + 1 ELSE next + 1
    /\ cur' = "idle"
    /\ UNCHANGED <<cfg, phase, order, task, log>>

\* ... and an Err, of its own file filter or of execute_single_hook, ends the run.
ArenaError ==
    /\ Working /\ cfg.strategy = "arena"
    /\ cur = "error" \/ (cur = "idle" /\ cfg.kind[Current] # "offstage")
    /\ phase' = "error"
    /\ UNCHANGED <<cfg, order, next, cur, task, resultVars, summary, log>>

-----------------------------------------------------------------------------
(* execute_hooks_parallel                                                  *)

\* Every environment group is set up, one after the other, before any hook runs.
ParallelSetup ==
    /\ phase = "setup"
    /\ phase' = "parallel"
    /\ task' = [h \in Hooks |-> "pending"]
    /\ UNCHANGED <<cfg, order, next, cur, resultVars, summary, log>>

\* One group's setup fails: Err for the whole run, PipelineCompleted never comes.
ParallelSetupFails ==
    /\ phase = "setup"
    /\ phase' = "error"
    /\ UNCHANGED <<cfg, order, next, cur, task, resultVars, summary, log>>

Running == {h \in Hooks : task[h] = "running"}

\* execute_task takes a permit of the executor's semaphore.
TaskStart(h) ==
    /\ phase = "parallel" /\ task[h] = "pending"
    /\ Cardinality(Running) < Permits
    /\ task' = [task EXCEPT ![h] = "running"]
    /\ UNCHANGED <<cfg, phase, order, next, cur, resultVars, summary, log>>

\* execute_hook_with_environment: no cache, no change detection, no hook events.
TaskEnd(h) ==
    /\ phase = "parallel" /\ task[h] = "running"
    /\ \E o \in {"default", "skipped", "passed", "failed", "error"} :
          /\ o = "default" <=> cfg.kind[h] = "offstage"
          /\ o = "skipped" =>
                ~Matches(h) /\ ~AlwaysRun(h) /\ cfg.kind[h] # "offstage"
          /\ o \in {"passed", "failed"} => Matches(h) \/ AlwaysRun(h)
          /\ task' = [task EXCEPT ![h] = o]
    /\ UNCHANGED <<cfg, phase, order, next, cur, resultVars, summary, log>>

\* execute_task gives up after hook_timeout and returns Err.
TaskTimeout(h) ==
    /\ phase = "parallel" /\ task[h] = "running"
    /\ task' = [task EXCEPT ![h] = "timeout"]
    /\ UNCHANGED <<cfg, phase, order, next, cur, resultVars, summary, log>>

TaskOutcomes == {"default", "skipped", "passed", "failed", "error", "timeout"}

EndedWith(outcomes) == {h \in Hooks : task[h] \in outcomes}

\* The hooks whose task ended so, in their order.
OfTask(outcomes) ==
    {s \in [1..Cardinality(EndedWith(outcomes)) -> EndedWith(outcomes)] :
        \A i, j \in DOMAIN s : i < j => Position(order, s[i]) < Position(order, s[j])}

\* A timed-out task comes back from execute_batch under the id "unknown".
ReportedId(h) == IF task[h] = "timeout" THEN Unknown ELSE h

\* Mutant: join_all is replaced by a wait for the tasks that were given a permit.
CollectEarly ==
    /\ phase = "parallel"
    /\ Running = {} /\ \E h \in Hooks : task[h] \in TaskOutcomes
    /\ passed' \in OfTask({"passed"})
    /\ skipped' \in OfTask({"skipped"})
    /\ failed' \in OfTask({"failed", "default", "error", "timeout"})
    /\ success' = (failed' = <<>>)
    /\ phase' = "run" /\ next' = Len(order) + 1
    /\ UNCHANGED <<cfg, order, cur, task, summary, log>>

\* join_all returned: successful tasks are added first, then the failed ones.
Collect ==
    /\ phase = "parallel"
    /\ \A h \in Hooks : task[h] \in TaskOutcomes
    /\ passed' \in OfTask({"passed"})
    /\ skipped' \in OfTask({"skipped"})
    /\ \E f \in OfTask({"failed", "default"}), e \in OfTask({"error", "timeout"}) :
          failed' = [i \in 1..Len(f \o e) |-> ReportedId((f \o e)[i])]
    /\ success' = (failed' = <<>>)
    /\ phase' = "run" /\ next' = Len(order) + 1
    /\ UNCHANGED <<cfg, order, cur, task, summary, log>>

-----------------------------------------------------------------------------
\* The loop or join_all is over: summary and PipelineCompleted (the pooled run has
\* neither).
Finish ==
    /\ phase = "run" /\ next > Len(order)
    /\ phase' = "done"
    /\ summary' =
          IF cfg.strategy = "arena"
          THEN [passed |-> Len(passed), failed |-> summary.failed,
                skipped |-> Len(order) - Len(passed) - summary.failed]
          ELSE [passed |-> Len(passed), failed |-> Len(failed), skipped |-> Len(skipped)]
    /\ log' = IF cfg.strategy = "pooled" THEN log
              ELSE Append(log, <<"PipelineCompleted", Unknown>>)
    /\ UNCHANGED <<cfg, order, next, cur, task, resultVars>>

Next ==
    \/ ResolveFails \/ StartAuto \/ StartPooled \/ StartArena
    \/ ExecuteSingleHook
    \/ SequentialSkip \/ SequentialRecord \/ PooledRecord \/ PooledAcquireFails
    \/ ArenaRecord \/ ArenaError
    \/ ParallelSetup \/ ParallelSetupFails
    \/ \E h \in Hooks : TaskStart(h) \/ TaskEnd(h) \/ TaskTimeout(h)
    \/ Collect \/ Finish

Ended == phase \in {"done", "error"}

Spec == Init /\ [][Next]_vars

\* The engine is one async function that is polled to completion; every process it
\* waits for ends or is cut off by a timeout (of the task in the parallel run, of
\* the command in the language plugins otherwise).
FairSpec == Spec /\ WF_vars(Next)

-----------------------------------------------------------------------------
(* Properties                                                              *)

TypeOK ==
    /\ cfg \in Configs
    /\ phase \in {"start", "setup", "parallel", "run", "done", "error"}
    /\ order \in Seq(Hooks)
    /\ next \in 1..(Len(order) + 1)
    /\ cur \in {"idle", "started", "prepared"} \cup TaskOutcomes
    /\ task \in [Hooks -> {"none", "pending", "running"} \cup TaskOutcomes]
    /\ passed \in Seq(Hooks) /\ failed \in Seq(Hooks \cup {Unknown}) /\ skipped \in Seq(Hooks)
    /\ success \in BOOLEAN

Occurrences(s, h) == Cardinality({i \in 1..Len(s) : s[i] = h})
Reported(h) == Occurrences(passed, h) + Occurrences(failed, h) + Occurrences(skipped, h)

\* execute_hooks and execute_hooks_with_pools account for every hook exactly once;
\* the only hooks missing from the result are those whose task timed out, and for
\* each of those the failed list has an "unknown" entry.
EveryHookReported ==
    phase = "done" /\ cfg.strategy \in {"auto", "pooled"} =>
        /\ \A h \in Hooks : Reported(h) = IF task[h] = "timeout" THEN 0 ELSE 1
        /\ Occurrences(failed, Unknown) = Cardinality({h \in Hooks : task[h] = "timeout"})

\* A run has one result per hook, and its bookkeeping keeps its types
\* (execution.rs, execute_hooks).
RunReported == TypeOK /\ EveryHookReported

\* A green run is a real one: when execute_hooks reports success, every hook that
\* had something to do has passed (none was dropped, skipped or left to time out).
SuccessMeansAllPassed ==
    phase = "done" /\ cfg.strategy = "auto" /\ success =>
        \A h \in Hooks : Matches(h) \/ AlwaysRun(h) => Occurrences(passed, h) = 1

\* With fail_fast no hook is executed once one has failed.
FailFastStops ==
    cfg.failFast /\ cfg.strategy \in {"auto", "arena"} /\ phase = "run" /\ cur # "idle" =>
        failed = <<>>

\* A hook is only executed when the results of all the hooks it depends on are in,
\* and a configuration with dependencies never runs in parallel.
DependenciesSettled ==
    cfg.strategy = "auto" =>
        /\ phase = "run" /\ cur # "idle" =>
              \A d \in cfg.deps[Current] : Reported(d) = 1
        /\ HasDependencies => Running = {}

\* Hooks start in the order the configuration asks for: none after a failure
\* under fail_fast, none before its dependencies on the sequential path.
OrderKept == FailFastStops /\ DependenciesSettled

Terminal == {"HookSkipped", "HookCompleted", "HookFailed"}

\* Event order seen by the bus: PipelineStarted before everything, PipelineCompleted
\* last and only when the run is done, one HookStarted per hook, at most one
\* terminal event and nothing after it.
EventDiscipline ==
    /\ cfg.strategy # "pooled" /\ log # <<>> => log[1][1] = "PipelineStarted"
    /\ \A i \in 1..Len(log) :
          log[i][1] = "PipelineCompleted" => i = Len(log) /\ phase = "done"
    /\ \A i \in 1..Len(log) : log[i][2] \in Hooks =>
          /\ log[i][1] = "HookStarted" <=> \A j \in 1..(i - 1) : log[j][2] # log[i][2]
          /\ log[i][1] \in Terminal => \A j \in (i + 1)..Len(log) : log[j][2] # log[i][2]

\* Every run comes to an end, whatever the hooks do.
RunEnds == <>Ended
=============================================================================
