------------------------- MODULE ConcurrencyExecutor -------------------------
(***************************************************************************)
(* The task executor of src/src/concurrency.rs: execute_task, execute_batch,*)
(* cancel_task, cancel_all_tasks, shutdown and the task registry.          *)
(*                                                                         *)
(* A call is one invocation of execute_task.  The registry is keyed by the *)
(* task id, so two calls with the same id (two runs of the same hook on    *)
(* one engine) share an entry.  Every access to the registry is one short  *)
(* critical section of its RwLock, hence one atomic step; between them the *)
(* call awaits the semaphore, the sleep of the dependency check or the     *)
(* task.  The optional lock-free scheduler is only asked for statistics.   *)
(***************************************************************************)
EXTENDS Integers, Sequences, FiniteSets

CONSTANTS
    Calls,         \* invocations of execute_task (bound)
    Ids,           \* task ids
    IdOf,          \* IdOf[c]: config.id
    BatchOrder,    \* the calls of execute_batch, highest priority first
    WithDeps,      \* calls whose config.dependencies is not empty
    WithResources, \* calls with cpu_cores or memory_mb requirements
    MaxConcurrent, \* permits of the semaphore
    Unknown        \* the id execute_batch reports for a call that returned Err

ASSUME ExecutorAssumption ==
    /\ IsFiniteSet(Calls)
    /\ IdOf \in [Calls -> Ids]
    /\ BatchOrder \in Seq(Calls)
    /\ WithDeps \subseteq Calls /\ WithResources \subseteq Calls
    /\ MaxConcurrent \in Nat
    /\ Unknown \notin Ids

VARIABLES
    registry,   \* task_registry: last state written for each id
    permits,    \* free permits of the semaphore
    pc,         \* where each call is
    result,     \* what each call returned
    bpc,        \* where execute_batch is
    successful, failed,  \* lists of ids in the BatchResult
    spc         \* where shutdown() is

vars == <<registry, permits, pc, result, bpc, successful, failed, spc>>
batchVars == <<bpc, successful, failed>>

Batch == {BatchOrder[i] : i \in 1..Len(BatchOrder)}

Init ==
    /\ registry = [i \in Ids |-> "absent"]
    /\ permits = MaxConcurrent
    /\ pc = [c \in Calls |-> "idle"]
    /\ result = [c \in Calls |-> "none"]
    /\ bpc = "idle" /\ successful = <<>> /\ failed = <<>>
    /\ spc = "idle"

Write(i, s) == registry' = [registry EXCEPT ![i] = s]
Goto(c, l) == pc' = [pc EXCEPT ![c] = l]

-----------------------------------------------------------------------------
(* execute_task                                                            *)

Submit(c) ==
    /\ pc[c] = "idle" /\ c \notin Batch
    /\ Goto(c, "submitted")
    /\ UNCHANGED <<registry, permits, result, batchVars, spc>>

RegisterPending(c) ==
    /\ pc[c] = "submitted"
    /\ Write(IdOf[c], "Pending")
    /\ Goto(c, IF c \in WithDeps THEN "registered" ELSE "queued")
    /\ UNCHANGED <<permits, result, batchVars, spc>>

\* The check of the dependencies is a short sleep, nothing is waited for.
CheckDependencies(c) ==
    /\ pc[c] = "registered"
    /\ Write(IdOf[c], "WaitingForDependencies")
    /\ Goto(c, "queued")
    /\ UNCHANGED <<permits, result, batchVars, spc>>

\* Mutant: try_acquire, and the task goes on without a permit.
AcquirePermitBarging(c) ==
    /\ pc[c] = "queued"
    /\ permits' = IF permits > 0 THEN permits - 1 ELSE 0
    /\ Goto(c, "granted")
    /\ UNCHANGED <<registry, result, batchVars, spc>>

AcquirePermit(c) ==
    /\ pc[c] = "queued"
    /\ permits > 0
    /\ permits' = permits - 1
    /\ Goto(c, "granted")
    /\ UNCHANGED <<registry, result, batchVars, spc>>

\* A task cancelled while it was queued is not looked at: it runs all the same.
MarkRunning(c) ==
    /\ pc[c] = "granted"
    /\ Write(IdOf[c], "Running")
    /\ Goto(c, IF c \in WithResources THEN "admitted" ELSE "executing")
    /\ UNCHANGED <<permits, result, batchVars, spc>>

AcquireResources(c) ==
    /\ pc[c] = "admitted"
    /\ Goto(c, "executing")
    /\ UNCHANGED <<registry, permits, result, batchVars, spc>>

\* Mutant: the permit was forgotten (mem::forget) and the early return loses it.
ResourcesRefusedKeepsPermit(c) ==
    /\ pc[c] = "admitted"
    /\ result' = [result EXCEPT ![c] = "ResourceErr"]
    /\ Goto(c, "returned")
    /\ UNCHANGED <<registry, permits, batchVars, spc>>

\* ResourceLimitExceeded returns with `?`: the permit is dropped, the registry
\* still says Running.
ResourcesRefused(c) ==
    /\ pc[c] = "admitted"
    /\ permits' = permits + 1
    /\ result' = [result EXCEPT ![c] = "ResourceErr"]
    /\ Goto(c, "returned")
    /\ UNCHANGED <<registry, batchVars, spc>>

\* The task's future resolves, or the timeout drops it.
TaskEnds(c, r) ==
    /\ pc[c] = "executing"
    /\ r \in {"Ok", "TaskErr", "Timeout"}
    /\ result' = [result EXCEPT ![c] = r]
    /\ Goto(c, "ended")
    /\ UNCHANGED <<registry, permits, batchVars, spc>>

\* Mutant: a cancelled entry is left alone.
RecordOutcomeUnlessCancelled(c) ==
    /\ pc[c] = "ended"
    /\ IF registry[IdOf[c]] = "Cancelled" THEN UNCHANGED registry
       ELSE Write(IdOf[c], IF result[c] = "Ok" THEN "Completed" ELSE "Failed")
    /\ permits' = permits + 1
    /\ Goto(c, "returned")
    /\ UNCHANGED <<result, batchVars, spc>>

\* The final state replaces whatever the registry says, Cancelled included.
RecordOutcome(c) ==
    /\ pc[c] = "ended"
    /\ Write(IdOf[c], IF result[c] = "Ok" THEN "Completed" ELSE "Failed")
    /\ permits' = permits + 1
    /\ Goto(c, "returned")
    /\ UNCHANGED <<result, batchVars, spc>>

ExecuteTask(c) ==
    \/ RegisterPending(c) \/ CheckDependencies(c) \/ AcquirePermit(c)
    \/ MarkRunning(c) \/ AcquireResources(c) \/ ResourcesRefused(c)
    \/ \E r \in {"Ok", "TaskErr", "Timeout"} : TaskEnds(c, r)
    \/ RecordOutcome(c)

-----------------------------------------------------------------------------
(* execute_batch                                                           *)

BatchStart ==
    /\ bpc = "idle"
    /\ \A c \in Batch : pc[c] = "idle"
    /\ bpc' = "joining"
    /\ pc' = [c \in Calls |-> IF c \in Batch THEN "submitted" ELSE pc[c]]
    /\ UNCHANGED <<registry, permits, result, successful, failed, spc>>

\* An Err of execute_task has lost the id; an error of the task itself has not.
ReportedId(c) == IF result[c] \in {"Timeout", "ResourceErr"} THEN Unknown ELSE IdOf[c]

Reports(outcomes) ==
    LET chosen(c) == result[c] \in outcomes
        s == SelectSeq(BatchOrder, chosen)
    IN  [i \in 1..Len(s) |-> ReportedId(s[i])]

\* join_all returned: sort the results into successful and failed.
BatchCollect ==
    /\ bpc = "joining"
    /\ \A c \in Batch : pc[c] = "returned"
    /\ successful' = Reports({"Ok"})
    /\ failed' = Reports({"TaskErr", "Timeout", "ResourceErr"})
    /\ bpc' = "done"
    /\ UNCHANGED <<registry, permits, pc, result, spc>>

-----------------------------------------------------------------------------
(* cancel_task, cancel_all_tasks, shutdown                                 *)

\* Mutant: the state of the task is not looked at.
CancellableAlways(s) == s # "absent"

\* The states cancellation replaces; for the others it is an error or a no-op.
Cancellable(s) == s \in {"Pending", "WaitingForDependencies", "Running"}

CancelTask(i) ==
    /\ Cancellable(registry[i])
    /\ Write(i, "Cancelled")
    /\ UNCHANGED <<permits, pc, result, batchVars, spc>>

AllCancelled ==
    [i \in Ids |-> IF Cancellable(registry[i]) THEN "Cancelled" ELSE registry[i]]

CancelAllTasks ==
    /\ registry' = AllCancelled
    /\ UNCHANGED <<permits, pc, result, batchVars, spc>>

ShutdownCancel ==
    /\ spc = "idle"
    /\ registry' = AllCancelled
    /\ spc' = "polling"
    /\ UNCHANGED <<permits, pc, result, batchVars>>

RunningIds == {i \in Ids : registry[i] = "Running"}

ShutdownReturns ==
    /\ spc = "polling"
    /\ RunningIds = {}
    /\ spc' = "ok"
    /\ UNCHANGED <<registry, permits, pc, result, batchVars>>

ShutdownTimeout ==
    /\ spc = "polling"
    /\ RunningIds # {}
    /\ spc' = "err"
    /\ UNCHANGED <<registry, permits, pc, result, batchVars>>

-----------------------------------------------------------------------------
Next ==
    \/ \E c \in Calls : Submit(c) \/ ExecuteTask(c)
    \/ BatchStart \/ BatchCollect
    \/ \E i \in Ids : CancelTask(i)
    \/ CancelAllTasks \/ ShutdownCancel \/ ShutdownReturns \/ ShutdownTimeout

Spec == Init /\ [][Next]_vars

\* A call that was made is polled until it returns; the semaphore serves its
\* waiters in FIFO order, so a call is not passed over forever; the timeout ends
\* a task that does not end by itself; the poll of shutdown comes every 10 ms and
\* its deadline passes.
Fairness ==
    /\ \A c \in Calls : SF_vars(ExecuteTask(c))
    /\ WF_vars(BatchCollect)
    /\ WF_vars(ShutdownReturns \/ ShutdownTimeout)

FairSpec == Spec /\ Fairness

-----------------------------------------------------------------------------
(* Properties                                                              *)

States == {"absent", "Pending", "WaitingForDependencies", "Running", "Completed",
           "Failed", "Cancelled"}
Locations == {"idle", "submitted", "registered", "queued", "granted", "admitted",
              "executing", "ended", "returned"}
Results == {"none", "Ok", "TaskErr", "Timeout", "ResourceErr"}

TypeOK ==
    /\ registry \in [Ids -> States]
    /\ permits \in 0..MaxConcurrent
    /\ pc \in [Calls -> Locations]
    /\ result \in [Calls -> Results]
    /\ bpc \in {"idle", "joining", "done"}
    /\ spc \in {"idle", "polling", "ok", "err"}

Holding == {"granted", "admitted", "executing", "ended"}
Holders == {c \in Calls : pc[c] \in Holding}

\* Whatever way a call leaves execute_task (success, error, timeout, refused
\* resources) it gives its permit back, once: the permits that are out are those
\* of the calls inside, and `max_concurrent - available_permits` is their number.
PermitAccounting == permits + Cardinality(Holders) = MaxConcurrent

\* Never more than max_concurrent tasks are executing, whatever mix of batches,
\* single calls, cancellations and shutdown is under way.
BoundedParallelism == Cardinality({c \in Calls : pc[c] = "executing"}) <= MaxConcurrent

\* Refinement mapping: a call runs from the permit on.
Job ==
    [c \in Calls |-> IF pc[c] \in Holding THEN "running"
                     ELSE IF pc[c] = "returned" THEN "done" ELSE "waiting"]
Jobs == INSTANCE BoundedJobs WITH job <- Job

\* The executor implements its abstract specification: each call takes one running
\* slot, keeps it until it returns and never runs again, and a slot is only taken
\* while fewer than max_concurrent are in use.
ImplementsJobs == Jobs!Spec

OnlyCall(c) == \A d \in Calls : IdOf[d] = IdOf[c] => d = c

\* However cancellations interleave, once the only call for an id has returned its
\* status tells what really happened; a call that was refused its resources is the
\* one whose entry stays Running (or is Cancelled later).
StatusTellsOutcome ==
    \A c \in Calls : pc[c] = "returned" /\ OnlyCall(c) =>
        /\ result[c] = "Ok" => registry[IdOf[c]] = "Completed"
        /\ result[c] \in {"TaskErr", "Timeout"} => registry[IdOf[c]] = "Failed"
        /\ result[c] = "ResourceErr" => registry[IdOf[c]] \in {"Running", "Cancelled"}

\* A status Completed or Failed only changes because a new call for the same id
\* came in: neither cancel_task, cancel_all_tasks nor shutdown rewrites history.
TerminalSticky ==
    [][\A i \in Ids :
          registry[i] \in {"Completed", "Failed"} /\ registry'[i] # registry[i] =>
              \E c \in Calls : IdOf[c] = i /\ pc'[c] # pc[c]]_vars

Count(s, i) == Cardinality({k \in 1..Len(s) : s[k] = i})

\* execute_batch loses nobody: every call is listed once, under its id when its
\* task produced a result or an error, under "unknown" when execute_task gave up.
BatchReportsAll ==
    bpc = "done" =>
        /\ Len(successful) + Len(failed) = Len(BatchOrder)
        /\ Count(failed, Unknown) =
              Cardinality({c \in Batch : result[c] \in {"Timeout", "ResourceErr"}})
        /\ \A c \in Batch : result[c] = "Ok" => Count(successful, IdOf[c]) > 0

\* Every call of execute_task returns, and so does shutdown, with Ok or with a timeout.
CallsReturn ==
    /\ \A c \in Calls : pc[c] = "submitted" ~> pc[c] = "returned"
    /\ spc = "polling" ~> spc \in {"ok", "err"}

\* "Wait for running tasks to complete or timeout" (concurrency.rs:906): when
\* shutdown returns Ok no task is executing.  (Violated: cancel_all_tasks has
\* replaced the Running entries that shutdown then looks for.)
ShutdownWaits == spc = "ok" => \A c \in Calls : pc[c] # "executing"
=============================================================================
