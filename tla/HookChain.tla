------------------------------ MODULE HookChain ------------------------------
(***************************************************************************)
(* HookChainExecutor of hook_chaining.rs: a chain of hooks is resolved     *)
(* into levels, planned into phases and executed phase by phase.  The      *)
(* executor is sequential; what is hard is which hooks run, which are      *)
(* skipped and which are lost, for every shape of the chain.  Levels are   *)
(* sets, because the code takes them out of a HashMap in no fixed order.   *)
(***************************************************************************)
EXTENDS Integers, Sequences, FiniteSets

CONSTANTS Hooks,        \* the ids of the chain's hooks
          Ghost,        \* an id that no hook of the chain has
          Chains        \* the chains executed (see ChainShape)

ExecutionStrategies == {"Sequential", "MaxParallel", "ResourceOptimized", "TimeOptimized"}
FailureStrategies == {"FailFast", "ContinueIndependent", "BestEffort", "Critical"}
FailureBehaviors == {"Critical", "Independent", "RetryOnFailure", "ContinueOnFailure", "Optional"}
ConditionKinds == {"FileExists", "FileModified", "EnvironmentVariable", "PreviousHookSuccess",
                   "PreviousHookOutput", "GitBranch", "GitHasChanges", "Custom"}

(* One chain: the two strategies, what the world makes true (the condition *)
(* kinds that hold now) and, for every hook, its dependencies, conditions, *)
(* failure behaviour, entry (the executor only looks for "false" and       *)
(* "sleep" in it), retries and whether its timeout is below a second.      *)
ChainShape == [strategy: ExecutionStrategies, failure: FailureStrategies, world: SUBSET ConditionKinds,
               hooks: [Hooks -> [deps: SUBSET (Hooks \cup {Ghost}), conditions: SUBSET ConditionKinds,
                                 behavior: FailureBehaviors, entry: {"true", "false", "sleep"},
                                 retries: Nat, hasty: BOOLEAN]]]
ASSUME ChainAssumption == IsFiniteSet(Hooks) /\ Chains \subseteq ChainShape

VARIABLES chain,        \* the HookChain executed
          status,       \* "new", "refused", "overflowed", "select", "phase" or "done"
          phase,        \* index of the phase
          todo,         \* executable_hooks not yet executed
          order,        \* executed_hooks, in the order of their results
          failed,       \* failed_hook_ids
          skipped,      \* skipped_hooks
          blamed,       \* failed_dependencies: hook -> the dependencies that failed
          attempts      \* how often each hook was tried

chainVars == <<chain, status, phase, todo, order, failed, skipped, blamed, attempts>>

Deps == [h \in Hooks |-> chain.hooks[h].deps]
Executed == {order[i] : i \in DOMAIN order}

-----------------------------------------------------------------------------
(* Resolving: DependencyResolver.                                          *)

\* start, and what step makes of it when it is repeated.
Iterates(start, step) ==
    LET I[n \in Nat] == IF n = 0 THEN start ELSE step[I[n - 1]] IN I

\* build_graph links a hook to those that need it.
Dependents(deps, h) == {g \in Hooks : h \in deps[g]}

\* Two different hooks on one cycle: a strongly connected component of
\* petgraph's tarjan_scc with more than one member.
Reaches(deps, a) ==
    LET Further == [S \in SUBSET Hooks |-> S \cup {g \in Hooks : deps[g] \cap S # {}}]
    IN Iterates(Dependents(deps, a), Further)[Cardinality(Hooks)]
DetectCycles(deps) == {p \in Hooks \X Hooks : p[1] # p[2] /\ p[2] \in Reaches(deps, p[1]) /\ p[1] \in Reaches(deps, p[2])}

Validated(deps) == /\ \A h \in Hooks : deps[h] \subseteq Hooks
                   /\ DetectCycles(deps) = {}

\* The hooks that have a level below n.  A level takes every hook whose
\* dependencies all have one.
Assigned(deps) == Iterates({}, [S \in SUBSET Hooks |-> S \cup {h \in Hooks : deps[h] \subseteq S}])

\* The levels, or none at all when some hook never gets one: build_graph
\* swallows that error.
ExecutionLevels(deps) ==
    LET assigned == Assigned(deps)
        depth == CHOOSE n \in 0..Cardinality(Hooks) :
                   assigned[n] = Hooks /\ \A k \in 0..(n - 1) : assigned[k] # Hooks
    IN IF assigned[Cardinality(Hooks)] # Hooks THEN <<>>
       ELSE [n \in 1..depth |-> assigned[n] \ assigned[n - 1]]
Levels == ExecutionLevels(Deps)

-----------------------------------------------------------------------------
(* Planning: ExecutionPlanner.  A phase's hooks run one after another in   *)
(* every mode; the mode only decides whether a failure stops the phase.    *)

PhaseMode(level) ==
    CASE chain.strategy = "Sequential" -> "Sequential"
      [] chain.strategy = "ResourceOptimized" -> "Parallel"
      [] OTHER -> IF Cardinality(level) > 1 THEN "Parallel" ELSE "Sequential"

Largest(S) == CHOOSE m \in S : \A n \in S : n <= m

\* The hooks on a longest path from each hook (all count the same 30 seconds),
\* among the paths of n steps.
LongestFrom(deps) ==
    LET Longer == [paths \in [Hooks -> Nat] |->
                      [h \in Hooks |-> 1 + Largest({0} \cup {paths[g] : g \in Dependents(deps, h)})]]
    IN Iterates([h \in Hooks |-> 1], Longer)
TraceLongestPath(deps) == LongestFrom(deps)[Cardinality(Hooks)]

\* find_critical_path looks from the hooks without dependencies, and takes
\* any hook when there are none.
Starts(deps) == {h \in Hooks : deps[h] = {}}
CriticalPathLength(deps) ==
    IF Starts(deps) = {} /\ Hooks # {} THEN 1
    ELSE Largest({0} \cup {TraceLongestPath(deps)[h] : h \in Starts(deps)})

\* Its recursion has no end when it comes to a hook that depends on itself,
\* which the validation does not see.
Endless(deps) == \E start \in Starts(deps) : \E h \in Reaches(deps, start) : h \in deps[h]

-----------------------------------------------------------------------------
(* Conditions.  evaluate answers from the context; evaluate_conditions     *)
(* gives it no results of earlier hooks and no state of git.               *)

Evaluate(condition, context) ==
    \/ /\ condition \in {"FileExists", "FileModified", "EnvironmentVariable", "Custom"}
       /\ condition \in context.world
    \/ /\ condition \in {"PreviousHookSuccess", "PreviousHookOutput"}
       /\ context.results # {} /\ condition \in context.world
    \/ /\ condition \in {"GitBranch", "GitHasChanges"}
       /\ context.git /\ condition \in context.world

EvaluateConditions(conditions) ==
    \A c \in conditions : Evaluate(c, [world |-> chain.world, results |-> {}, git |-> FALSE])

-----------------------------------------------------------------------------
(* One hook: execute_single_hook_with_behavior.  A run that times out is   *)
(* reported at once, without the retries its behaviour asks for.           *)

TimesOut(h) == chain.hooks[h].entry = "sleep" /\ chain.hooks[h].hasty
Succeeds(h) == chain.hooks[h].entry # "false" /\ ~TimesOut(h)
Attempts(h) == IF Succeeds(h) \/ TimesOut(h) \/ chain.hooks[h].behavior # "RetryOnFailure"
               THEN 1 ELSE chain.hooks[h].retries + 1

-----------------------------------------------------------------------------
ChainInit == /\ chain \in Chains
             /\ status = "new" /\ phase = 0 /\ todo = {} /\ order = <<>>
             /\ failed = {} /\ skipped = {}
             /\ blamed = [h \in Hooks |-> {}] /\ attempts = [h \in Hooks |-> 0]

\* execute_chain up to its loop: build the graph, validate it, make the plan.
\* A plan that takes an endless recursion ends with the process's stack.
ExecuteChain ==
    /\ status = "new"
    /\ CASE ~Validated(Deps) -> status' = "refused" /\ UNCHANGED phase
         [] Validated(Deps) /\ Endless(Deps) -> status' = "overflowed" /\ UNCHANGED phase
         [] OTHER -> status' = "select" /\ phase' = 1
    /\ UNCHANGED <<chain, todo, order, failed, skipped, blamed, attempts>>

\* Mutant: a dependency that was skipped counts as fine.
DepsNotFailed(h) == Deps[h] \cap failed = {}

DepsOk(h) == Deps[h] \subseteq Executed \ failed

\* The top of the loop: which hooks of the phase can run, which are skipped.
SelectPhase ==
    /\ status = "select" /\ phase <= Len(Levels)
    /\ LET level == Levels[phase]
           ready == {h \in level : DepsOk(h)}
           runs  == {h \in ready : EvaluateConditions(chain.hooks[h].conditions)}
       IN /\ todo' = runs
          /\ skipped' = skipped \cup (level \ runs)
          /\ blamed' = [h \in Hooks |-> IF h \in level \ ready THEN Deps[h] \cap failed ELSE blamed[h]]
    /\ status' = "phase"
    /\ UNCHANGED <<chain, phase, order, failed, attempts>>

\* Whether this hook's failure breaks out of the phase's loop.
Breaks(h) == /\ PhaseMode(Levels[phase]) = "Sequential"
             /\ ~Succeeds(h)
             /\ chain.failure = "FailFast" \/ chain.hooks[h].behavior = "Critical"

\* The next hook of the phase, in the order of the level.
ExecuteHook(h) ==
    /\ status = "phase" /\ h \in todo
    /\ order' = Append(order, h)
    /\ attempts' = [attempts EXCEPT ![h] = Attempts(h)]
    /\ failed' = IF Succeeds(h) THEN failed ELSE failed \cup {h}
    /\ todo' = IF Breaks(h) THEN {} ELSE todo \ {h}
    /\ UNCHANGED <<chain, status, phase, skipped, blamed>>

\* The end of the loop: under FailFast a failure skips every later phase.
EndPhase ==
    /\ status = "phase" /\ todo = {}
    /\ IF failed # {} /\ chain.failure = "FailFast"
       THEN LET rest == UNION {Levels[n] : n \in (phase + 1)..Len(Levels)}
            IN /\ skipped' = skipped \cup rest
               /\ blamed' = [h \in Hooks |-> IF h \in rest THEN Deps[h] \cap failed ELSE blamed[h]]
               /\ status' = "done"
               /\ UNCHANGED phase
       ELSE status' = "select" /\ phase' = phase + 1 /\ UNCHANGED <<skipped, blamed>>
    /\ UNCHANGED <<chain, todo, order, failed, attempts>>

Finish == /\ status = "select" /\ phase > Len(Levels)
          /\ status' = "done"
          /\ UNCHANGED <<chain, phase, todo, order, failed, skipped, blamed, attempts>>

ChainNext == ExecuteChain \/ SelectPhase \/ (\E h \in Hooks : ExecuteHook(h)) \/ EndPhase \/ Finish

-----------------------------------------------------------------------------
ChainTypeOK == /\ status \in {"new", "refused", "overflowed", "select", "phase", "done"}
               /\ phase \in 0..(Cardinality(Hooks) + 1)
               /\ todo \subseteq Hooks /\ failed \subseteq Executed /\ skipped \subseteq Hooks
               /\ \A h \in Hooks : blamed[h] \subseteq failed

\* A chain is refused exactly when a dependency is missing or two hooks wait
\* for each other; a chain that is planned has every hook in one level, above
\* all of its dependencies, except that a hook that depends on itself leaves
\* the whole chain without levels.
PlanSound ==
    status \notin {"new", "refused"} =>
        \/ \E h \in Hooks : h \in Deps[h] /\ Levels = <<>>
        \/ /\ \A h \in Hooks : Cardinality({n \in DOMAIN Levels : h \in Levels[n]}) = 1
           /\ \A m, n \in DOMAIN Levels : \A h \in Levels[m], g \in Levels[n] : g \in Deps[h] => n < m
           /\ CriticalPathLength(Deps) = Len(Levels)

\* Execution after dependencies: every hook that ran found all of its
\* dependencies among the hooks that ran before it and succeeded, once each.
DependenciesFirst ==
    /\ \A i \in DOMAIN order : \A d \in Deps[order[i]] :
          \E j \in 1..(i - 1) : order[j] = d /\ d \notin failed
    /\ \A i, j \in DOMAIN order : order[i] = order[j] => i = j

LevelOf(h) == CHOOSE n \in DOMAIN Levels : h \in Levels[n]

\* Why a hook was skipped, and why it is in neither list: a failure broke out
\* of its own phase, or a hook that depends on itself left no phases at all.
SkippedFor(h) ==
    \/ \E d \in Deps[h] : d \in failed \cup skipped \cup (Hooks \ Executed)
    \/ ~EvaluateConditions(chain.hooks[h].conditions)
    \/ chain.failure = "FailFast" /\ \E g \in failed : LevelOf(g) < LevelOf(h)
LostTo(h) ==
    \/ Levels = <<>> /\ \E g \in Hooks : g \in Deps[g]
    \/ \E g \in failed : /\ LevelOf(g) = LevelOf(h)
                         /\ chain.failure = "FailFast" \/ chain.hooks[g].behavior = "Critical"

\* At the end every hook is accounted for: it ran or it was skipped, never
\* both, and what was skipped or lost has a reason that can be named.
ChainAccounts ==
    status = "done" =>
        /\ Executed \cap skipped = {}
        /\ \A h \in skipped : SkippedFor(h)
        /\ \A h \in Hooks \ (Executed \cup skipped) : LostTo(h)
        /\ \A h \in failed : attempts[h] > 0 /\ ~Succeeds(h)

=============================================================================
