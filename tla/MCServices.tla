----------------------------- MODULE MCServices -----------------------------
(***************************************************************************)
(* The services around the hooks, checked in one run: hook chains,         *)
(* recovery, the process manager and the event bus share no state, so a    *)
(* behaviour is a behaviour of the one its part names and the others rest. *)
(***************************************************************************)
EXTENDS HookChain, Recovery, ProcessManager, EventBus, TLC

VARIABLE part

\* Chains of three hooks: every graph over two of them and the ghost, the
\* third after them, with the behaviours that differ.
MCHook(deps, behavior, entry, conditions) ==
    [deps |-> deps, conditions |-> conditions, behavior |-> behavior, entry |-> entry,
     retries |-> 2, hasty |-> TRUE]
MCChains ==
    {[strategy |-> s, failure |-> f, world |-> {"FileExists", "PreviousHookSuccess"},
      hooks |-> ("h1" :> MCHook(d1, b, e1, c)) @@ ("h2" :> MCHook(d2, "RetryOnFailure", e2, {}))
                @@ ("h3" :> MCHook(d3, "Independent", "true", {}))] :
        s \in {"Sequential", "MaxParallel"}, f \in {"FailFast", "BestEffort"},
        b \in {"Critical", "Optional"}, e1 \in {"true", "false"}, e2 \in {"false", "sleep"},
        c \in {{"FileExists"}, {"PreviousHookSuccess"}},
        d1 \in SUBSET {"h1", "h2"}, d2 \in SUBSET {"h1", "ghost"}, d3 \in {{}, {"h1"}, {"h1", "h2"}}}

MCPrograms == {<<>>, <<"out", "err">>, <<"err", "err", "out">>}

servicesVars == <<part, chainVars, recoveryVars, procVars, busVars>>

IdleChain == chain = (CHOOSE c \in Chains : TRUE) /\ ChainInit
IdleProc == config = [c \in Configs |-> [program |-> <<>>, spawns |-> TRUE, capture |-> TRUE, code |-> 0]] /\ ProcInit

MCInit == /\ RecoveryInit /\ BusInit
          /\ \/ part = "chain" /\ ChainInit /\ IdleProc
             \/ part = "process" /\ IdleChain /\ ProcInit
             \/ part \in {"recovery", "bus"} /\ IdleChain /\ IdleProc

MCNext == /\ UNCHANGED part
          /\ \/ part = "chain" /\ ChainNext /\ UNCHANGED <<recoveryVars, procVars, busVars>>
             \/ part = "recovery" /\ RecoveryNext /\ UNCHANGED <<chainVars, procVars, busVars>>
             \/ part = "process" /\ ProcNext /\ UNCHANGED <<chainVars, recoveryVars, busVars>>
             \/ part = "bus" /\ BusNext /\ UNCHANGED <<chainVars, recoveryVars, procVars>>

\* The steps the program takes by itself once they can be taken: tokio polls
\* every task that is ready, a child runs on, a timeout fires.  Calls and the
\* passing of time are not among them.  Each of these steps brings its service
\* nearer to rest, so it is enough that some step is taken while one can be.
OwnStep == /\ UNCHANGED part
           /\ \/ part = "chain" /\ ChainNext /\ UNCHANGED <<recoveryVars, procVars, busVars>>
              \/ part = "recovery" /\ (\E t \in Tasks : TaskStep(t)) /\ UNCHANGED <<chainVars, procVars, busVars>>
              \/ part = "process" /\ ProcNext /\ UNCHANGED <<chainVars, recoveryVars, busVars>>
              \/ part = "bus" /\ (\E m \in Emitters : BusStep(m)) /\ UNCHANGED <<chainVars, recoveryVars, procVars>>

MCSpec == MCInit /\ [][MCNext]_servicesVars /\ WF_servicesVars(OwnStep)

\* What is said of constants alone is looked at in the first states only.

\* A chain keeps its bookkeeping (ChainTypeOK), its plan is sound, its hooks
\* run after their dependencies and every one of them is accounted for.
ChainSound == part = "chain" => ChainTypeOK /\ PlanSound /\ DependenciesFirst /\ ChainAccounts

\* The recovery engine's books agree and its actions tell the truth.
RecoverySound == part = "recovery" => RecoveryAccounts /\ (calls = 0 => ActionsTruthful)

\* The process manager accounts for its permits, children and results, and
\* gives its children the environment it was asked for.
ProcessesSound == part = "process" => ProcessesAccounted /\ (permits = MaxConcurrent => EnvironmentOrder)

\* The bus delivers; its metrics and filters agree with the event types.
BusSound == part = "bus" => EventsDelivered /\ (registered = {} /\ channel = <<>> => MetricsAndFilters)

\* Whatever the service, what it keeps and reports is so.
ServicesSound == ChainSound /\ RecoverySound /\ ProcessesSound /\ BusSound

\* Every service ends what it began: a chain is refused or done, a call of
\* handle_error returns, every config has its result, an emit returns.
ServicesEnd ==
    /\ part = "chain" ~> status \in {"refused", "overflowed", "done"}
    /\ RecoveryReturns
    /\ part = "process" ~> Len(collected) = NConfigs
    /\ \A m \in Emitters : step[m] # "idle" ~> step[m] = "idle"

=============================================================================
