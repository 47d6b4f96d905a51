---------------------------- MODULE WorkStealing ----------------------------
(***************************************************************************)
(* WorkStealingScheduler and DependencyResolver of                         *)
(* src/src/lock_free_scheduler.rs: one client hands batches of tasks to    *)
(* resolve_and_submit, which pushes them to the workers' queues; workers   *)
(* take, steal, execute and report; shutdown ends them.                    *)
(*                                                                         *)
(* A crossbeam Worker queue is not Sync, so submissions come from one      *)
(* thread.  The round-robin COUNTER is a static of the process, shared by  *)
(* all its schedulers: any worker may be the next target.  The resolver's  *)
(* waiting_tasks are never filled and are left out, with                   *)
(* submit_newly_ready_tasks and task_completed, which only read them; so   *)
(* is the ready_tasks cache, which only its caller fills.                  *)
(***************************************************************************)
EXTENDS Integers, Sequences, FiniteSets

CONSTANTS
    Ids,        \* task ids
    Batches,    \* the calls of resolve_and_submit: each a set of task ids
    DepChoices, \* the dependencies tasks may declare: functions from Ids to sets of ids
    N           \* number of workers

ASSUME WorkStealingAssumption ==
    /\ N \in Nat \ {0}
    /\ Batches \in Seq(SUBSET Ids)
    /\ \A d \in DepChoices : d \in [Ids -> SUBSET Ids]

W == 0..(N - 1)
Global == N      \* the injector, as a queue beside those of the workers
Queues == 0..N
Subs == [batch : 1..Len(Batches), id : Ids]
NoSub == [batch |-> 0, id |-> "none"]

VARIABLES
    deps, balancing,       \* the tasks' dependencies; enable_load_balancing
    rpc, batch,            \* the client: where it is, in which call
    todo, ready,           \* task_map, and the ready ids still to be submitted
    nodes, completed,      \* the resolver's graph nodes and completed_tasks
    outcome,               \* what each call returned
    queue, channels,       \* the queues; the submission whose sender each id has
    receiver,              \* what each submission's receiver has got
    permit,                \* the permit Notify stores
    wpc, pos, job,         \* each worker: where it is, the queue it looks at, its task
    active_workers, shutdown, spc,
    log                    \* history: the submissions in order

resolverVars == <<rpc, batch, todo, ready, nodes, completed, outcome>>
workerVars == <<wpc, pos, job>>
stopVars == <<active_workers, shutdown, spc>>
vars == <<deps, balancing, resolverVars, queue, channels, receiver, permit, workerVars,
          stopVars, log>>

Init ==
    /\ deps \in DepChoices /\ balancing \in BOOLEAN
    /\ rpc = "idle" /\ batch = 1 /\ todo = {} /\ ready = {} /\ nodes = {} /\ completed = {}
    /\ outcome = [b \in 1..Len(Batches) |-> "none"]
    /\ queue = [q \in Queues |-> <<>>]
    /\ channels = [i \in Ids |-> NoSub]
    /\ receiver = [s \in Subs |-> "none"]
    /\ permit = FALSE
    /\ wpc = [w \in W |-> "new"] /\ pos = [w \in W |-> 0] /\ job = [w \in W |-> NoSub]
    /\ active_workers = 0 /\ shutdown = FALSE /\ spc = "idle"
    /\ log = <<>>

-----------------------------------------------------------------------------
(* DependencyResolver                                                      *)

Tasks == Batches[batch]

\* has_cycle, from every task: some tasks each depend on one of them.
Circular(T) == \E S \in SUBSET T : S # {} /\ \A t \in S : deps[t] \cap S # {}

\* build_dependency_graph stops at a dependency that is not in the batch.
UnknownDependency(T) == \E t \in T : ~(deps[t] \subseteq T)

ResolveRefused ==
    /\ rpc = "idle" /\ batch <= Len(Batches)
    /\ Circular(Tasks) \/ UnknownDependency(Tasks)
    /\ outcome' = [outcome EXCEPT ![batch] = "Err"]
    /\ batch' = batch + 1
    /\ UNCHANGED <<deps, balancing, rpc, todo, ready, nodes, completed, queue, channels,
                   receiver, permit, workerVars, stopVars, log>>

ResolveStart ==
    /\ rpc = "idle" /\ batch <= Len(Batches)
    /\ ~Circular(Tasks) /\ ~UnknownDependency(Tasks)
    /\ nodes' = Tasks /\ todo' = Tasks
    /\ rpc' = "loop"
    /\ UNCHANGED <<deps, balancing, batch, ready, completed, outcome, queue, channels,
                   receiver, permit, workerVars, stopVars, log>>

\* get_ready_tasks: the nodes without an incoming edge that are not completed.
Ready == {t \in nodes : deps[t] \cap nodes = {}} \ completed

\* The next round; when nothing is ready, "Submit remaining tasks anyway".
ResolveRound ==
    /\ rpc = "loop" /\ ready = {} /\ todo # {}
    /\ ready' = IF Ready = {} THEN todo ELSE Ready
    /\ rpc' = "submit"
    /\ UNCHANGED <<deps, balancing, batch, todo, nodes, completed, outcome, queue, channels,
                   receiver, permit, workerVars, stopVars, log>>

ResolveDone ==
    /\ rpc = "loop" /\ todo = {}
    /\ outcome' = [outcome EXCEPT ![batch] = "Ok"]
    /\ batch' = batch + 1
    /\ rpc' = "idle"
    /\ UNCHANGED <<deps, balancing, todo, ready, nodes, completed, queue, channels, receiver,
                   permit, workerVars, stopVars, log>>

-----------------------------------------------------------------------------
(* WorkStealingScheduler::submit_task                                      *)

Targets == IF balancing THEN W ELSE {Global}

\* A sender already there for the id is dropped: its receiver is closed.
Closed(i) == IF channels[i] = NoSub THEN {} ELSE {channels[i]}

\* The result channel, then the queue; a task of the ready list is marked completed
\* as soon as it is submitted.
SubmitPush(t, q) ==
    LET s == [batch |-> batch, id |-> t]
    IN  /\ rpc = "submit" /\ t \in ready /\ q \in Targets
        /\ receiver' = [r \in Subs |-> IF r = s THEN "waiting"
                                       ELSE IF r \in Closed(t) THEN "closed" ELSE receiver[r]]
        /\ channels' = [channels EXCEPT ![t] = s]
        /\ queue' = [queue EXCEPT ![q] = Append(@, s)]
        /\ ready' = ready \ {t} /\ todo' = todo \ {t}
        /\ completed' = completed \cup {t}
        /\ nodes' = nodes \ {t}
        /\ log' = Append(log, s)
        /\ rpc' = "notify"
        /\ UNCHANGED <<deps, balancing, batch, outcome, permit, workerVars, stopVars>>

\* notify_one wakes a waiting worker, or leaves a permit (one at most).
Notify ==
    \/ \E w \in W :
          /\ wpc[w] = "wait"
          /\ wpc' = [wpc EXCEPT ![w] = "loop"]
          /\ UNCHANGED permit
    \/ /\ \A w \in W : wpc[w] # "wait"
       /\ permit' = TRUE
       /\ UNCHANGED wpc

SubmitNotify ==
    /\ rpc = "notify"
    /\ Notify
    /\ rpc' = IF ready = {} THEN "loop" ELSE "submit"
    /\ UNCHANGED <<deps, balancing, batch, todo, ready, nodes, completed, outcome, queue,
                   channels, receiver, pos, job, stopVars, log>>

-----------------------------------------------------------------------------
(* Workers                                                                 *)

\* start is called once: a second call returns at once.
Start ==
    /\ \A w \in W : wpc[w] = "new"
    /\ active_workers' = N
    /\ wpc' = [w \in W |-> "loop"]
    /\ UNCHANGED <<deps, balancing, resolverVars, queue, channels, receiver, permit, pos, job,
                   shutdown, spc, log>>

\* The head of worker_loop.
LoopHead(w) ==
    /\ wpc[w] = "loop"
    /\ \/ /\ shutdown
          /\ wpc' = [wpc EXCEPT ![w] = "exited"]
          /\ active_workers' = active_workers - 1
          /\ UNCHANGED pos
       \/ /\ ~shutdown
          /\ wpc' = [wpc EXCEPT ![w] = "find"]
          /\ pos' = [pos EXCEPT ![w] = 0]
          /\ UNCHANGED active_workers
    /\ UNCHANGED <<deps, balancing, resolverVars, queue, channels, receiver, permit, job,
                   shutdown, spc, log>>

\* The order in which worker w looks at the queues: its own, the injector, the others.
Place(w, k) == IF k = 0 THEN w ELSE IF k = 1 THEN Global ELSE (w + k - 1) % N
Seen(w) == Place(w, pos[w])

\* Mutant: the task stays in the queue it is stolen from.
TakeCopies(w) ==
    /\ wpc[w] = "find" /\ pos[w] <= N /\ queue[Seen(w)] # <<>>
    /\ job' = [job EXCEPT ![w] = Head(queue[Seen(w)])]
    /\ wpc' = [wpc EXCEPT ![w] = "execute"]
    /\ UNCHANGED <<deps, balancing, resolverVars, queue, channels, receiver, permit, pos,
                   stopVars, log>>

Take(w) ==
    /\ wpc[w] = "find" /\ pos[w] <= N /\ queue[Seen(w)] # <<>>
    /\ job' = [job EXCEPT ![w] = Head(queue[Seen(w)])]
    /\ queue' = [queue EXCEPT ![Seen(w)] = Tail(@)]
    /\ wpc' = [wpc EXCEPT ![w] = "execute"]
    /\ UNCHANGED <<deps, balancing, resolverVars, channels, receiver, permit, pos, stopVars,
                   log>>

\* Steal::Empty, or Steal::Retry when another worker is at the queues too.
LookOn(w) ==
    /\ wpc[w] = "find" /\ pos[w] <= N
    /\ queue[Seen(w)] = <<>> \/ \E v \in W \ {w} : wpc[v] = "find"
    /\ pos' = [pos EXCEPT ![w] = @ + 1]
    /\ UNCHANGED <<deps, balancing, resolverVars, queue, channels, receiver, permit, wpc, job,
                   stopVars, log>>

\* Nothing found: the stored permit, if there is one, ends the wait at once.
FoundNone(w) ==
    /\ wpc[w] = "find" /\ pos[w] > N
    /\ wpc' = [wpc EXCEPT ![w] = IF permit THEN "loop" ELSE "wait"]
    /\ permit' = FALSE
    /\ UNCHANGED <<deps, balancing, resolverVars, queue, channels, receiver, pos, job, stopVars,
                   log>>

\* Mutant: a worker waits for a notification however long it takes.
IdleForever(w) == FALSE

\* idle_timeout
IdleTimeout(w) ==
    /\ wpc[w] = "wait"
    /\ wpc' = [wpc EXCEPT ![w] = "loop"]
    /\ UNCHANGED <<deps, balancing, resolverVars, queue, channels, receiver, permit, pos, job,
                   stopVars, log>>

\* execute_task ends, in one way or another, and the result goes to the sender that is
\* registered for the id.
Report(w, result) ==
    /\ wpc[w] = "execute"
    /\ LET i == job[w].id
       IN  /\ receiver' = [s \in Subs |-> IF s = channels[i] THEN result ELSE receiver[s]]
           /\ channels' = [channels EXCEPT ![i] = NoSub]
    /\ job' = [job EXCEPT ![w] = NoSub]
    /\ wpc' = [wpc EXCEPT ![w] = "loop"]
    /\ UNCHANGED <<deps, balancing, resolverVars, queue, permit, pos, stopVars, log>>

-----------------------------------------------------------------------------
(* shutdown                                                                *)

\* The flag, then one notify_one per worker: with fewer than N waiting a permit is left.
ShutdownStart ==
    /\ spc = "idle"
    /\ shutdown' = TRUE /\ spc' = "waiting"
    /\ wpc' = [w \in W |-> IF wpc[w] = "wait" THEN "loop" ELSE wpc[w]]
    /\ permit' = (permit \/ \E w \in W : wpc[w] # "wait")
    /\ UNCHANGED <<deps, balancing, resolverVars, queue, channels, receiver, pos, job,
                   active_workers, log>>

ShutdownOk ==
    /\ spc = "waiting" /\ active_workers = 0
    /\ spc' = "Ok"
    /\ UNCHANGED <<deps, balancing, resolverVars, queue, channels, receiver, permit, workerVars,
                   active_workers, shutdown, log>>

ShutdownTimeout ==
    /\ spc = "waiting" /\ active_workers > 0
    /\ spc' = "Err"
    /\ UNCHANGED <<deps, balancing, resolverVars, queue, channels, receiver, permit, workerVars,
                   active_workers, shutdown, log>>

-----------------------------------------------------------------------------
Resolve ==
    \/ ResolveRefused \/ ResolveStart \/ ResolveRound \/ ResolveDone
    \/ \E t \in Ids, q \in Queues : SubmitPush(t, q)
    \/ SubmitNotify

Work(w) == LoopHead(w) \/ Take(w) \/ LookOn(w) \/ FoundNone(w) \/ IdleTimeout(w)
End(w) == \E r \in {"ok", "err"} : Report(w, r)

Next ==
    \/ Resolve \/ Start
    \/ \E w \in W : Work(w) \/ End(w)
    \/ ShutdownStart \/ ShutdownOk \/ ShutdownTimeout

Spec == Init /\ [][Next]_vars

-----------------------------------------------------------------------------
(* Properties                                                              *)

Members(q) == {queue[q][k] : k \in 1..Len(queue[q])}

TypeOK ==
    /\ rpc \in {"idle", "loop", "submit", "notify"}
    /\ batch \in 1..(Len(Batches) + 1)
    /\ {todo, ready, nodes, completed} \subseteq SUBSET Ids
    /\ \A q \in Queues : Members(q) \subseteq Subs
    /\ channels \in [Ids -> Subs \cup {NoSub}]
    /\ receiver \in [Subs -> {"none", "waiting", "ok", "err", "closed"}]
    /\ wpc \in [W -> {"new", "loop", "find", "execute", "wait", "exited"}]
    /\ pos \in [W -> 0..(N + 1)] /\ job \in [W -> Subs \cup {NoSub}]
    /\ active_workers \in 0..N
    /\ <<permit, shutdown>> \in BOOLEAN \X BOOLEAN /\ spc \in {"idle", "waiting", "Ok", "Err"}

Submitted(b) == {log[k] : k \in {j \in 1..Len(log) : log[j].batch = b}}

\* resolve_and_submit submits a batch in dependency order: what a task depends on is in
\* the queues before it, and a refused batch leaves nothing there.
SubmitsInOrder ==
    /\ \A k \in 1..Len(log) : \A t \in deps[log[k].id] :
          \E j \in 1..(k - 1) : log[j] = [batch |-> log[k].batch, id |-> t]
    /\ \A b \in 1..Len(Batches) :
          /\ outcome[b] = "Err" => Submitted(b) = {}
          /\ outcome[b] = "Ok" => Submitted(b) = {[batch |-> b, id |-> t] : t \in Batches[b]}

\* A submission whose receiver is waiting is in one queue or in the hands of one worker,
\* however workers steal: no task is lost, none is executed twice.
NothingLostOrTwice ==
    \A s \in Subs :
        Cardinality({q \in Queues : s \in Members(q)} \cup {-1 - w : w \in {v \in W : job[v] = s}})
          = IF receiver[s] = "waiting" THEN 1 ELSE 0

\* Once shutdown has returned Ok no worker executes a task, and none ever will again.
ShutdownQuiesces == spc = "Ok" => \A w \in W : wpc[w] \notin {"find", "execute", "wait"}

\* A task is submitted after its dependencies, is then in one queue or in the
\* hands of one worker until it is done, and once shutdown has returned Ok no
\* worker executes one (lock_free_scheduler.rs).
TasksAccounted == TypeOK /\ SubmitsInOrder /\ NothingLostOrTwice /\ ShutdownQuiesces

=============================================================================
