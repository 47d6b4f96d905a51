---------------------------- MODULE ResourcePool ----------------------------
(***************************************************************************)
(* The generic resource pool of src/src/resource_pool.rs.                  *)
(*                                                                         *)
(* `available`, `current_size` and `shutdown` are three separate tokio     *)
(* mutexes and the semaphore is a fourth object, so one pool operation is  *)
(* several steps.  The steps below are cut at the awaits that another      *)
(* task can observe.  `current_size` and `shutdown` are only ever held for *)
(* one statement and need no lock variable; `available` is held across     *)
(* is_healthy().await in acquire, hence `lock`.  Work on a resource that   *)
(* only its owner can reach (cleanup, update_usage) is folded into the     *)
(* owner's next visible step.                                              *)
(*                                                                         *)
(* Processes: clients that acquire and drop guards, one return task per    *)
(* dropped guard (indexed by the resource it carries, see PoolGuard::drop),*)
(* one caller of maintain_pool and one caller of shutdown.                 *)
(***************************************************************************)
EXTENDS Integers, Sequences, FiniteSets

CONSTANTS
    Clients,    \* tasks that call acquire
    Resources,  \* identities of everything T::create can produce (bound)
    NoResource, \* "no resource in this local variable"
    NoClient,   \* "nobody holds the available mutex"
    MinSize,    \* PoolConfig::min_size
    MaxSize     \* PoolConfig::max_size, the semaphore's initial permits

ASSUME PoolAssumption ==
    /\ IsFiniteSet(Clients) /\ IsFiniteSet(Resources)
    /\ NoResource \notin Resources
    /\ NoClient \notin Clients
    /\ MinSize \in Nat /\ MaxSize \in Nat \ {0}

VARIABLES
    available,    \* VecDeque<PooledResource<T>>
    current_size, \* usize counter behind its own mutex
    permits,      \* free permits of the semaphore
    shutdown,     \* the shutdown flag
    lock,         \* client that holds the available mutex across an await
    pc,           \* per client: where it is in acquire
    res,          \* per client: the resource it has in hand
    ret,          \* per resource: where its return task is
    mpc,          \* where maintain_pool is
    mres,         \* resource maintain_pool has in hand
    toKeep,       \* maintain_pool's local queue
    needed,       \* maintain_pool's remaining creations
    spc,          \* where shutdown() is
    created,      \* history: resources T::create returned
    cleaned       \* history: resources whose cleanup() was called

sharedVars == <<available, current_size, permits, shutdown, lock>>
clientVars == <<pc, res>>
maintVars  == <<mpc, mres, toKeep, needed>>
history    == <<created, cleaned>>
vars == <<sharedVars, clientVars, ret, maintVars, spc, history>>

-----------------------------------------------------------------------------
Init ==
    /\ available = <<>>
    /\ current_size = 0
    /\ permits = MaxSize
    /\ shutdown = FALSE
    /\ lock = NoClient
    /\ pc = [c \in Clients |-> "idle"]
    /\ res = [c \in Clients |-> NoResource]
    /\ ret = [r \in Resources |-> "none"]
    /\ mpc = "idle" /\ mres = NoResource /\ toKeep = <<>> /\ needed = 0
    /\ spc = "idle"
    /\ created = {} /\ cleaned = {}

\* usize::saturating_sub(1)
SaturatingDec(n) == IF n > 0 THEN n - 1 ELSE 0

\* T::create returns something never seen before.
Fresh(r) == r \in Resources \ created

-----------------------------------------------------------------------------
(* acquire                                                                 *)

\* The flag is read once, on entry; a set flag is Err(PoolShutdown).
AcquireStart(c) ==
    /\ pc[c] = "idle"
    /\ ~shutdown
    /\ pc' = [pc EXCEPT ![c] = "permit"]
    /\ UNCHANGED <<sharedVars, res, ret, maintVars, spc, history>>

AcquirePermit(c) ==
    /\ pc[c] = "permit"
    /\ permits > 0
    /\ permits' = permits - 1
    /\ pc' = [pc EXCEPT ![c] = "lock"]
    /\ UNCHANGED <<available, current_size, shutdown, lock, res, ret, maintVars,
                   spc, history>>

\* The timeout only fires while no permit can be had: Err(AcquireTimeout).
AcquireTimeout(c) ==
    /\ pc[c] = "permit"
    /\ permits = 0
    /\ pc' = [pc EXCEPT ![c] = "idle"]
    /\ UNCHANGED <<sharedVars, res, ret, maintVars, spc, history>>

LockAvailable(c) ==
    /\ pc[c] = "lock"
    /\ lock = NoClient
    /\ lock' = c
    /\ pc' = [pc EXCEPT ![c] = "scan"]
    /\ UNCHANGED <<available, current_size, permits, shutdown, res, ret, maintVars,
                   spc, history>>

\* Mutant: the front entry is cloned out of the queue, not popped.
TakeHealthyNoPop(c) ==
    /\ pc[c] = "scan"
    /\ available # <<>>
    /\ res' = [res EXCEPT ![c] = Head(available)]
    /\ lock' = NoClient
    /\ permits' = permits + 1
    /\ pc' = [pc EXCEPT ![c] = "using"]
    /\ UNCHANGED <<available, current_size, shutdown, ret, maintVars, spc, history>>

\* pop_front, is_healthy() = true: the guard is returned, _permit is dropped.
TakeHealthy(c) ==
    /\ pc[c] = "scan"
    /\ available # <<>>
    /\ res' = [res EXCEPT ![c] = Head(available)]
    /\ available' = Tail(available)
    /\ lock' = NoClient
    /\ permits' = permits + 1
    /\ pc' = [pc EXCEPT ![c] = "using"]
    /\ UNCHANGED <<current_size, shutdown, ret, maintVars, spc, history>>

\* pop_front, is_healthy() = false: cleanup, decrement, look at the next one.
DiscardUnhealthy(c) ==
    /\ pc[c] = "scan"
    /\ available # <<>>
    /\ available' = Tail(available)
    /\ cleaned' = cleaned \cup {Head(available)}
    /\ current_size' = SaturatingDec(current_size)
    /\ UNCHANGED <<permits, shutdown, lock, clientVars, ret, maintVars, spc, created>>

\* Mutant: the early return of the lock is forgotten.
ScanEmptyKeepsLock(c) ==
    /\ pc[c] = "scan"
    /\ available = <<>>
    /\ pc' = [pc EXCEPT ![c] = "create"]
    /\ UNCHANGED <<sharedVars, res, ret, maintVars, spc, history>>

\* Nothing left to scan: the lock is dropped before T::create.
ScanEmpty(c) ==
    /\ pc[c] = "scan"
    /\ available = <<>>
    /\ lock' = NoClient
    /\ pc' = [pc EXCEPT ![c] = "create"]
    /\ UNCHANGED <<available, current_size, permits, shutdown, res, ret, maintVars,
                   spc, history>>

CreateOk(c, r) ==
    /\ pc[c] = "create"
    /\ Fresh(r)
    /\ created' = created \cup {r}
    /\ res' = [res EXCEPT ![c] = r]
    /\ pc' = [pc EXCEPT ![c] = "count"]
    /\ UNCHANGED <<sharedVars, ret, maintVars, spc, cleaned>>

\* Err(ResourceCreation): the permit goes back, nothing was counted.
CreateFails(c) ==
    /\ pc[c] = "create"
    /\ permits' = permits + 1
    /\ pc' = [pc EXCEPT ![c] = "idle"]
    /\ UNCHANGED <<available, current_size, shutdown, lock, res, ret, maintVars, spc,
                   history>>

\* *current_size += 1, then the guard is returned and _permit dropped.
CountCreated(c) ==
    /\ pc[c] = "count"
    /\ current_size' = current_size + 1
    /\ permits' = permits + 1
    /\ pc' = [pc EXCEPT ![c] = "using"]
    /\ UNCHANGED <<available, shutdown, lock, res, ret, maintVars, spc, history>>

\* PoolGuard::drop spawns the return task and returns at once.
DropGuard(c) ==
    /\ pc[c] = "using"
    /\ ret' = [ret EXCEPT ![res[c]] = "check"]
    /\ res' = [res EXCEPT ![c] = NoResource]
    /\ pc' = [pc EXCEPT ![c] = "idle"]
    /\ UNCHANGED <<sharedVars, maintVars, spc, history>>

-----------------------------------------------------------------------------
(* return_resource, one task per dropped guard                             *)

\* Mutant: a refused resource is dropped without cleanup.
ReturnRefusedNoCleanup(r) ==
    /\ ret[r] = "check"
    /\ shutdown
    /\ ret' = [ret EXCEPT ![r] = "none"]
    /\ UNCHANGED <<sharedVars, clientVars, maintVars, spc, history>>

\* Flag set: cleanup and forget (the counter is left to shutdown()).
ReturnRefused(r) ==
    /\ ret[r] = "check"
    /\ shutdown
    /\ cleaned' = cleaned \cup {r}
    /\ ret' = [ret EXCEPT ![r] = "none"]
    /\ UNCHANGED <<sharedVars, clientVars, maintVars, spc, created>>

ReturnCheck(r) ==
    /\ ret[r] = "check"
    /\ ~shutdown
    /\ ret' = [ret EXCEPT ![r] = "reset"]
    /\ UNCHANGED <<sharedVars, clientVars, maintVars, spc, history>>

ResetOk(r) ==
    /\ ret[r] = "reset"
    /\ ret' = [ret EXCEPT ![r] = "push"]
    /\ UNCHANGED <<sharedVars, clientVars, maintVars, spc, history>>

\* Mutant: the resource is cleaned up but goes on to the push.
ResetFailsPushes(r) ==
    /\ ret[r] = "reset"
    /\ cleaned' = cleaned \cup {r}
    /\ ret' = [ret EXCEPT ![r] = "push"]
    /\ UNCHANGED <<sharedVars, clientVars, maintVars, spc, created>>

\* reset() = Err: cleanup and decrement.
ResetFails(r) ==
    /\ ret[r] = "reset"
    /\ cleaned' = cleaned \cup {r}
    /\ current_size' = SaturatingDec(current_size)
    /\ ret' = [ret EXCEPT ![r] = "none"]
    /\ UNCHANGED <<available, permits, shutdown, lock, clientVars, maintVars, spc,
                   created>>

\* The flag is not read again before the push.
ReturnPush(r) ==
    /\ ret[r] = "push"
    /\ lock = NoClient
    /\ available' = Append(available, r)
    /\ ret' = [ret EXCEPT ![r] = "none"]
    /\ UNCHANGED <<current_size, permits, shutdown, lock, clientVars, maintVars, spc,
                   history>>

-----------------------------------------------------------------------------
(* maintain_pool                                                           *)

MaintStart ==
    /\ mpc = "idle"
    /\ ~shutdown
    /\ mpc' = "scan"
    /\ UNCHANGED <<sharedVars, clientVars, ret, mres, toKeep, needed, spc, history>>

\* Under the lock: i - 1 fresh entries move to to_keep, the i-th is idle too
\* long; the lock is dropped and the idle resource cleaned up.
MaintDropIdle(i) ==
    /\ mpc = "scan"
    /\ lock = NoClient
    /\ i \in 1..Len(available)
    /\ toKeep' = toKeep \o SubSeq(available, 1, i - 1)
    /\ available' = SubSeq(available, i + 1, Len(available))
    /\ mres' = available[i]
    /\ cleaned' = cleaned \cup {available[i]}
    /\ mpc' = "dec"
    /\ UNCHANGED <<current_size, permits, shutdown, lock, clientVars, ret, needed, spc,
                   created>>

\* Decrement, then lock `available` again and go on scanning.
MaintDec ==
    /\ mpc = "dec"
    /\ current_size' = SaturatingDec(current_size)
    /\ mres' = NoResource
    /\ mpc' = "scan"
    /\ UNCHANGED <<available, permits, shutdown, lock, clientVars, ret, toKeep, needed,
                   spc, history>>

\* Nothing (left) is idle: everything scanned is put back.
MaintPutBack ==
    /\ mpc = "scan"
    /\ lock = NoClient
    /\ available' = toKeep \o available
    /\ toKeep' = <<>>
    /\ mpc' = "size"
    /\ UNCHANGED <<current_size, permits, shutdown, lock, clientVars, ret, mres, needed,
                   spc, history>>

\* current_size is read once; the number of creations is fixed here.
MaintReadSize ==
    /\ mpc = "size"
    /\ needed' = IF current_size < MinSize THEN MinSize - current_size ELSE 0
    /\ mpc' = "fill"
    /\ UNCHANGED <<sharedVars, clientVars, ret, mres, toKeep, spc, history>>

MaintCreateOk(r) ==
    /\ mpc = "fill"
    /\ needed > 0
    /\ Fresh(r)
    /\ created' = created \cup {r}
    /\ mres' = r
    /\ needed' = needed - 1
    /\ mpc' = "push"
    /\ UNCHANGED <<sharedVars, clientVars, ret, toKeep, spc, cleaned>>

MaintCreateFails ==
    /\ mpc = "fill"
    /\ needed > 0
    /\ needed' = needed - 1
    /\ UNCHANGED <<sharedVars, clientVars, ret, mpc, mres, toKeep, spc, history>>

\* push_back and += 1 both happen under the available lock.
MaintPush ==
    /\ mpc = "push"
    /\ lock = NoClient
    /\ available' = Append(available, mres)
    /\ current_size' = current_size + 1
    /\ mres' = NoResource
    /\ mpc' = "fill"
    /\ UNCHANGED <<permits, shutdown, lock, clientVars, ret, toKeep, needed, spc,
                   history>>

MaintDone ==
    /\ mpc = "fill"
    /\ needed = 0
    /\ mpc' = "idle"
    /\ UNCHANGED <<sharedVars, clientVars, ret, mres, toKeep, needed, spc, history>>

-----------------------------------------------------------------------------
(* shutdown                                                                *)

ShutdownFlag ==
    /\ spc = "idle"
    /\ shutdown' = TRUE
    /\ spc' = "drain"
    /\ UNCHANGED <<available, current_size, permits, lock, clientVars, ret, maintVars,
                   history>>

\* Everything in the queue is cleaned up and the counter reset, under the lock.
ShutdownDrain ==
    /\ spc = "drain"
    /\ lock = NoClient
    /\ cleaned' = cleaned \cup {available[i] : i \in 1..Len(available)}
    /\ available' = <<>>
    /\ current_size' = 0
    /\ spc' = "done"
    /\ UNCHANGED <<permits, shutdown, lock, clientVars, ret, maintVars, created>>

-----------------------------------------------------------------------------
Acquire(c) ==
    \/ AcquireStart(c) \/ AcquirePermit(c) \/ AcquireTimeout(c)
    \/ LockAvailable(c) \/ TakeHealthy(c) \/ DiscardUnhealthy(c) \/ ScanEmpty(c)
    \/ \E r \in Resources : CreateOk(c, r)
    \/ CreateFails(c) \/ CountCreated(c)

Return(r) ==
    ReturnRefused(r) \/ ReturnCheck(r) \/ ResetOk(r) \/ ResetFails(r) \/ ReturnPush(r)

Maintain ==
    \/ MaintStart \/ MaintDec \/ MaintPutBack \/ MaintReadSize
    \/ \E i \in 1..Len(available) : MaintDropIdle(i)
    \/ \E r \in Resources : MaintCreateOk(r)
    \/ MaintCreateFails \/ MaintPush \/ MaintDone

Next ==
    \/ \E c \in Clients : Acquire(c) \/ DropGuard(c)
    \/ \E r \in Resources : Return(r)
    \/ Maintain
    \/ ShutdownFlag \/ ShutdownDrain

Spec == Init /\ [][Next]_vars

\* An operation that has started is a tokio task that keeps being polled, and the
\* semaphore and the tokio mutexes serve their waiters in FIFO order, so a task
\* that can move again and again is not passed over forever: strong fairness of
\* each task.  Clients need not acquire or drop guards, and nobody has to call
\* maintain_pool or shutdown.
Fairness ==
    /\ \A c \in Clients : SF_vars(Acquire(c) /\ pc[c] # "idle")
    /\ \A r \in Resources : SF_vars(Return(r))
    /\ SF_vars(Maintain /\ mpc # "idle")
    /\ WF_vars(ShutdownDrain)

FairSpec == Spec /\ Fairness

-----------------------------------------------------------------------------
(* Properties                                                              *)

TypeOK ==
    /\ available \in Seq(Resources)
    /\ current_size \in Nat
    /\ permits \in Nat
    /\ shutdown \in BOOLEAN
    /\ lock \in Clients \cup {NoClient}
    /\ pc \in [Clients -> {"idle", "permit", "lock", "scan", "create", "count", "using"}]
    /\ res \in [Clients -> Resources \cup {NoResource}]
    /\ ret \in [Resources -> {"none", "check", "reset", "push"}]
    /\ mpc \in {"idle", "scan", "dec", "size", "fill", "push"}
    /\ mres \in Resources \cup {NoResource}
    /\ toKeep \in Seq(Resources)
    /\ needed \in 0..MinSize
    /\ spc \in {"idle", "drain", "done"}
    /\ created \in SUBSET Resources
    /\ cleaned \in SUBSET Resources

\* Where a live resource can be.
Queued    == {available[i] : i \in 1..Len(available)}
Kept      == {toKeep[i] : i \in 1..Len(toKeep)}
InHand    == {res[c] : c \in Clients} \ {NoResource}
Returning == {r \in Resources : ret[r] # "none"}
Filling   == IF mpc = "push" THEN {mres} ELSE {}

Injective(s) == \A i, j \in 1..Len(s) : s[i] = s[j] => i = j

\* A pooled resource has one owner: it is at one place of the queue, or in one
\* guard, or in one return task, or in maintain_pool's hands, never in two of
\* them (acquire hands an object out exclusively, resource_pool.rs:230).
ExclusiveOwnership ==
    /\ Injective(available) /\ Injective(toKeep)
    /\ \A c, d \in Clients : res[c] = res[d] /\ res[c] # NoResource => c = d
    /\ Queued \cap Kept = {}
    /\ (Queued \cup Kept) \cap (InHand \cup Returning \cup Filling) = {}
    /\ InHand \cap Returning = {}
    /\ (InHand \cup Returning) \cap Filling = {}

Reachable == Queued \cup Kept \cup InHand \cup Returning \cup Filling

\* Nobody uses, queues or resets a resource after cleanup() ran on it, and
\* cleanup() never runs twice on the same one.
NoUseAfterCleanup ==
    /\ Reachable \subseteq created
    /\ Reachable \cap cleaned = {}

\* Whatever was created and not cleaned up is still in somebody's hands: no path
\* (failed reset, failed creation, refused return, removal) drops a resource
\* without cleanup().
NoResourceLost == created \ cleaned \subseteq Reachable

\* Resources created or cleaned whose counter update is still to come.
Uncounted == {res[c] : c \in {d \in Clients : pc[d] = "count"}} \cup Filling
StillCounted == IF mpc = "dec" THEN {mres} ELSE {}

\* Until shutdown, current_size is the number of live resources, up to the
\* updates that are still under way: no decrement is lost or done twice, and
\* saturating_sub never hides one.
SizeExact ==
    ~shutdown =>
        current_size = Cardinality((created \ cleaned) \ Uncounted)
                       + Cardinality(StillCounted)

Acquiring == {c \in Clients : pc[c] \in {"lock", "scan", "create", "count"}}

\* No path through acquire leaks or duplicates a semaphore permit: the permits
\* out are exactly those of the calls in progress.
PermitsExact == permits + Cardinality(Acquiring) = MaxSize

\* Both counters of the pool, current_size and the semaphore, stay exact.
CountersExact == SizeExact /\ PermitsExact

\* Every resource is somewhere, and the counters tell how many there are
\* (resource_pool.rs, acquire, return_resource, maintain and shutdown).
ResourcesAccounted == TypeOK /\ NoResourceLost /\ CountersExact

\* A call of acquire returns, with a guard or an error, and every dropped guard's
\* resource ends up in the queue or cleaned up.
CallsComplete ==
    /\ \A c \in Clients : pc[c] = "permit" ~> pc[c] \in {"idle", "using"}
    /\ \A r \in Resources : ret[r] = "check" ~> (r \in Queued \/ r \in cleaned)

\* "the semaphore should limit active resources to max_size" (resource_pool.rs:613,
\* and the comments on lines 157 and 221).  (Violated: the permit is a local of
\* acquire and is dropped when acquire returns the guard.)
MaxSizeRespected == Cardinality({c \in Clients : pc[c] = "using"}) <= MaxSize

=============================================================================
