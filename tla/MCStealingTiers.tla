--------------------------- MODULE MCStealingTiers ---------------------------
(***************************************************************************)
(* The work-stealing scheduler with its resolver, and the two-tier cache,  *)
(* checked in one run: they share no state, so a behaviour is a behaviour  *)
(* of the one its part names and the other rests.                          *)
(*                                                                         *)
(* The scheduler is given a batch of two tasks with every way they may     *)
(* depend on each other, on themselves or on a task not in the batch.      *)
(***************************************************************************)
EXTENDS WorkStealing, MultiTierCache

CONSTANTS ta, tb, other

VARIABLE part

MCBatches == <<{ta, tb}>>
MCDeps == {d \in [Ids -> SUBSET Ids] : d[other] = {}}

bothVars == <<part, vars, tierVars>>

RestingScheduler == Init /\ deps = [i \in Ids |-> {}] /\ ~balancing

BothInit ==
    /\ TierInit
    /\ \/ part = "stealing" /\ Init
       \/ part = "tiers" /\ RestingScheduler

Stealing(A) == part = "stealing" /\ A /\ UNCHANGED <<part, tierVars>>
Tiers(A) == part = "tiers" /\ A /\ UNCHANGED <<part, vars>>

BothNext == Stealing(Next) \/ Tiers(TierNext)

\* start is called, tokio polls every worker, idle_timeout passes, and every
\* task ends: execute_task has a timeout.  Stealing is lock-free: when workers
\* race for the queues again and again, one of them takes a task.  A cache
\* operation that can go on is polled, or its thread scheduled.
BothSpec ==
    /\ BothInit /\ [][BothNext]_bothVars
    /\ WF_bothVars(Stealing(Resolve)) /\ WF_bothVars(Stealing(Start))
    /\ SF_bothVars(Stealing(\E w \in W : Take(w)))
    /\ \A w \in W : WF_bothVars(Stealing(Work(w))) /\ WF_bothVars(Stealing(End(w)))
    /\ \A c \in Callers : WF_bothVars(Tiers(Run(c)))

\* Work that is begun is ended.  A submission waits for its result until it has
\* it or the scheduler is shut down, although notify_one stores one permit at
\* most and stealing may fail: each is submitted once, so it is enough that a
\* time comes when none waits.  A cache operation ends: with the mutex one is in
\* progress at a time, so it is enough that the cache comes to rest.
WorkEnds ==
    \/ part = "stealing" /\ \E s \in Subs : receiver[s] = "waiting"
    \/ part = "tiers" /\ ~Quiet
    ~> \/ part = "stealing" /\ (shutdown \/ \A s \in Subs : receiver[s] # "waiting")
       \/ part = "tiers" /\ Quiet

=============================================================================
