------------------------------ MODULE MCShared ------------------------------
(***************************************************************************)
(* What tasks and processes share, checked in one run: lock files, the     *)
(* lock-free task scheduler, the lock-free and the negative cache, the     *)
(* caches of the hook engine and the manager of its pools.  They share no  *)
(* state with each other, so a behaviour is a behaviour of the one its     *)
(* part names and the others rest.                                         *)
(***************************************************************************)
EXTENDS MCFileLock, LockFreeScheduler, LockFreeCache, NegativeCache, EngineCaches, PoolManager

VARIABLE part

\* A batch of two tasks and a single one: more tasks than places in a queue.
MCBundle == ("s1" :> <<"a", "b">>) @@ ("s2" :> <<"c">>)

\* Two hooks of two repositories that need the same environment, two files.
MCWatched == <<"f1", "f2">>
MCNeeds == [h \in EngineHooks |-> "python"]
MCRepositoryOf == [h \in EngineHooks |-> IF h = "h1" THEN "r1" ELSE "r2"]

sharedVars == <<part, vars, schedVars, lfVars, negVars, engineVars, managerVars>>

\* Where they have a choice, the parts that rest make the first.
RestingNegative == NegInit /\ collides = {} /\ answers = {}
RestingEngine == EngineInit /\ incremental = <<>>

SharedInit ==
    /\ Init /\ SchedInit /\ LfInit /\ ManagerInit
    /\ \/ part = "negative" /\ NegInit /\ RestingEngine
       \/ part = "engine" /\ RestingNegative /\ EngineInit
       \/ part \in {"locks", "scheduler", "cache", "manager"} /\ RestingNegative /\ RestingEngine

SharedNext ==
    /\ UNCHANGED part
    /\ \/ part = "locks" /\ Next /\ UNCHANGED <<schedVars, lfVars, negVars, engineVars, managerVars>>
       \/ part = "scheduler" /\ SchedNext /\ UNCHANGED <<vars, lfVars, negVars, engineVars, managerVars>>
       \/ part = "cache" /\ LfNext /\ UNCHANGED <<vars, schedVars, negVars, engineVars, managerVars>>
       \/ part = "negative" /\ NegNext /\ UNCHANGED <<vars, schedVars, lfVars, engineVars, managerVars>>
       \/ part = "engine" /\ EngineNext /\ UNCHANGED <<vars, schedVars, lfVars, negVars, managerVars>>
       \/ part = "manager" /\ ManagerNext /\ UNCHANGED <<vars, schedVars, lfVars, negVars, engineVars>>

SharedSpec == SharedInit /\ [][SharedNext]_sharedVars

\* What the caches answer is so, and they hold what their counters tell: with
\* exactly the exceptions their definitions name.
CachesExplained ==
    /\ SizeExplained /\ CountersExplainSize
    /\ NegativesExplained
    /\ CachedResultFits /\ DetectorFits /\ EnvironmentsFit

=============================================================================
