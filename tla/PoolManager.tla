---------------------------- MODULE PoolManager ----------------------------
(***************************************************************************)
(* ResourcePoolManager of src/src/resource_pool_manager.rs: the git and    *)
(* language pools by key, made on demand and shared through Arcs, kept in  *)
(* order by maintain_all_pools and given up by shutdown.  Calls need the   *)
(* manager for themselves (a tokio mutex, execution.rs); the pools they    *)
(* return are used after it was let go.  What a pool does with its         *)
(* resources is ResourcePool's business.                                   *)
(***************************************************************************)
EXTENDS Integers, FiniteSets

CONSTANTS
    GitKeys, LanguageKeys,   \* hashes of git configurations; languages with their version
    PoolUsers,
    MaxPools                 \* bound on the pools ever made

PoolKeys == GitKeys \cup LanguageKeys
NoPool == 0

VARIABLES
    pools,       \* git_pools and language_pools: the pool under each key
    poolsMade,
    openPools,   \* the pools that have not been shut down
    cacheDir,    \* does cache_directory exist?
    managing,    \* who has the manager: nobody, maintenance or shutdown
    visit,       \* the keys that have still to be visited
    maintained,   \* MaintenanceResults: maintained pools, errors
    arc, busy    \* each user: the pool it holds, and does it use a resource?

userVars == <<arc, busy>>
managerVars == <<pools, poolsMade, openPools, cacheDir, managing, visit, maintained, userVars>>

Managed == {pools[k] : k \in PoolKeys} \ {NoPool}

ManagerInit ==
    /\ pools = [k \in PoolKeys |-> NoPool] /\ poolsMade = 0 /\ openPools = {}
    /\ cacheDir = TRUE
    /\ managing = "nobody" /\ visit = {} /\ maintained = [done |-> {}, errors |-> {}]
    /\ arc = [u \in PoolUsers |-> NoPool] /\ busy = [u \in PoolUsers |-> FALSE]

\* A new pool under the key, unless it has one.
GetPool(u, k) ==
    /\ managing = "nobody" /\ arc[u] = NoPool
    /\ IF pools[k] # NoPool
       THEN arc' = [arc EXCEPT ![u] = pools[k]] /\ UNCHANGED <<pools, poolsMade, openPools>>
       ELSE /\ poolsMade < MaxPools /\ poolsMade' = poolsMade + 1
            /\ pools' = [pools EXCEPT ![k] = poolsMade']
            /\ openPools' = openPools \cup {poolsMade'}
            /\ arc' = [arc EXCEPT ![u] = poolsMade']
    /\ UNCHANGED <<cacheDir, managing, visit, maintained, busy>>

\* One pool for each configuration hash.
GetGitPool(u) == \E k \in GitKeys : GetPool(u, k)
\* One for each language and version.
GetLanguagePool(u) == \E k \in LanguageKeys : GetPool(u, k)

\* What a user does with its pool: a pool that is shut down refuses it.
AcquireResource(u) ==
    /\ arc[u] # NoPool /\ ~busy[u]
    /\ IF arc[u] \in openPools
       THEN busy' = [busy EXCEPT ![u] = TRUE] /\ UNCHANGED arc
       ELSE arc' = [arc EXCEPT ![u] = NoPool] /\ UNCHANGED busy
    /\ UNCHANGED <<pools, poolsMade, openPools, cacheDir, managing, visit, maintained>>

DropResource(u) ==
    /\ busy[u]
    /\ busy' = [busy EXCEPT ![u] = FALSE] /\ arc' = [arc EXCEPT ![u] = NoPool]
    /\ UNCHANGED <<pools, poolsMade, openPools, cacheDir, managing, visit, maintained>>

\* maintain_all_pools visits the pools one after the other, git pools first,
\* and goes on when one fails.
MaintainStart ==
    /\ managing = "nobody" /\ Managed # {}
    /\ managing' = "maintain" /\ visit' = {k \in PoolKeys : pools[k] # NoPool}
    /\ maintained' = [done |-> {}, errors |-> {}]
    /\ UNCHANGED <<pools, poolsMade, openPools, cacheDir, userVars>>

\* Git pools come before language pools.
NextKeys == IF visit \cap GitKeys # {} THEN visit \cap GitKeys ELSE visit

MaintainPool(k, ok) ==
    /\ managing = "maintain" /\ k \in NextKeys
    /\ maintained' = IF ok THEN [maintained EXCEPT !.done = @ \cup {k}] ELSE [maintained EXCEPT !.errors = @ \cup {k}]
    /\ visit' = visit \ {k}
    /\ managing' = IF visit' = {} THEN "nobody" ELSE managing
    /\ UNCHANGED <<pools, poolsMade, openPools, cacheDir, userVars>>

ShutdownManager ==
    /\ managing = "nobody" /\ managing' = "shutdown"
    /\ visit' = {k \in PoolKeys : pools[k] # NoPool}
    /\ UNCHANGED <<pools, poolsMade, openPools, cacheDir, maintained, userVars>>

\* A pool's shutdown may report an error, which is logged; its flag is set first.
ShutdownPool(k) ==
    /\ managing = "shutdown" /\ k \in NextKeys
    /\ openPools' = openPools \ {pools[k]} /\ visit' = visit \ {k}
    /\ UNCHANGED <<pools, poolsMade, cacheDir, managing, maintained, userVars>>

\* Mutant: the pools that were shut down stay in the maps.
ShutdownEndKeepsMaps ==
    /\ managing = "shutdown" /\ visit = {}
    /\ cacheDir' \in {FALSE, cacheDir} /\ managing' = "nobody"
    /\ UNCHANGED <<pools, poolsMade, openPools, visit, maintained, userVars>>

\* The maps are cleared and the cache directory goes, if it can be removed.
ShutdownEnd ==
    /\ managing = "shutdown" /\ visit = {}
    /\ pools' = [k \in PoolKeys |-> NoPool]
    /\ cacheDir' \in {FALSE, cacheDir} /\ managing' = "nobody"
    /\ UNCHANGED <<poolsMade, openPools, visit, maintained, userVars>>

ManagerNext ==
    \/ \E u \in PoolUsers : GetGitPool(u) \/ GetLanguagePool(u) \/ AcquireResource(u) \/ DropResource(u)
    \/ MaintainStart \/ \E k \in PoolKeys, ok \in BOOLEAN : MaintainPool(k, ok)
    \/ ShutdownManager \/ (\E k \in PoolKeys : ShutdownPool(k)) \/ ShutdownEnd

ManagerSpec == ManagerInit /\ [][ManagerNext]_managerVars

-----------------------------------------------------------------------------
\* When nobody has the manager, the pools that are open are the ones it knows:
\* none is forgotten open, none that was shut down is handed out again, and no
\* two keys share one (get_git_pool, get_language_pool, shutdown).
PoolsKnown ==
    /\ managing = "nobody" => openPools = Managed
    /\ openPools \subseteq Managed
    /\ \A j, k \in PoolKeys : j # k /\ pools[j] # NoPool => pools[j] # pools[k]

\* Maintenance visits every pool once and tells of each, and while it lasts no
\* pool comes or goes (maintain_all_pools).
MaintenanceComplete ==
    /\ maintained.done \cap maintained.errors = {}
    /\ managing = "maintain" =>
         visit \cup maintained.done \cup maintained.errors = {k \in PoolKeys : pools[k] # NoPool}

\* The pool manager forgets no open pool and maintains each of them.
ManagerKeepsPools == PoolsKnown /\ MaintenanceComplete
=============================================================================
