------------------------- MODULE LockFreeScheduler -------------------------
(***************************************************************************)
(* LockFreeTaskScheduler of src/src/lock_free_scheduler.rs: bounded queues *)
(* of the workers, an unbounded global queue and atomic counters, used by  *)
(* threads that submit batches, by workers that look for tasks and mark    *)
(* them done, and by a shutdown that polls the pending counter.            *)
(*                                                                         *)
(* Every atomic operation is a step of its own.  pending_tasks is an       *)
(* AtomicUsize and wraps; Wrap stands for 2^64.  A worker is named by its  *)
(* number, and marks each task it took once: the scheduler leaves that to  *)
(* its caller.  new() needs a worker and a capacity above zero (line 484   *)
(* divides by the one, ArrayQueue refuses the other).                      *)
(***************************************************************************)
EXTENDS Integers, Sequences, FiniteSets

CONSTANTS
    Submitters,  \* threads that submit
    Bundle,      \* the tasks of each one's submit_batch, a sequence of ids
    NumWorkers,
    LocalCapacity,
    Wrap

Owners == 0..(NumWorkers - 1)
GlobalQueue == NumWorkers
AllTasks == UNION {{Bundle[s][k] : k \in 1..Len(Bundle[s])} : s \in Submitters}
NoTask == "notask"

\* No task is submitted twice: a submitter gives its tasks away.
ASSUME SchedAssumption ==
    /\ NumWorkers \in Nat \ {0} /\ LocalCapacity \in Nat \ {0} /\ Wrap \in Nat \ {0}
    /\ IsFiniteSet(Submitters)
    /\ NoTask \notin AllTasks /\ \A s \in Submitters : Bundle[s] \in Seq(AllTasks)
    /\ \A s, u \in Submitters : \A i \in DOMAIN Bundle[s], j \in DOMAIN Bundle[u] :
          Bundle[s][i] = Bundle[u][j] => s = u /\ i = j

VARIABLES
    fifo,           \* the local queues, and the global one
    pending_tasks,
    tally,          \* submitted, completed, failed and stolen tasks
    worker_states,
    giver, given,   \* each submitter: the step it is at, how many it has submitted
    taker, seen, hand,   \* each worker: its step, the queues it has looked at, its task
    closing,        \* shutdown: not called, polling, or what it returned
    marked_tasks,   \* history: the tasks marked completed or failed
    forgotten       \* history: how many of them reset_stats has forgotten

queueVars == <<fifo, worker_states>>
givers == <<giver, given>>
takers == <<taker, seen, hand, marked_tasks>>
schedVars == <<fifo, pending_tasks, tally, worker_states, givers, takers, closing, forgotten>>

SchedInit ==
    /\ fifo = [q \in 0..NumWorkers |-> <<>>]
    /\ pending_tasks = 0
    /\ tally = [submitted |-> 0, completed |-> 0, failed |-> 0, stolen |-> 0]
    /\ worker_states = [w \in Owners |-> "none"]
    /\ giver = [s \in Submitters |-> "push"] /\ given = [s \in Submitters |-> 0]
    /\ taker = [w \in Owners |-> "rest"] /\ seen = [w \in Owners |-> 0]
    /\ hand = [w \in Owners |-> NoTask]
    /\ closing = "no" /\ marked_tasks = {} /\ forgotten = 0

-----------------------------------------------------------------------------
(* submit_batch: submit_task for each of the tasks.                          *)

\* The clock picks the worker (current_worker_id): any of them.
CurrentWorkerId == Owners

\* The worker's queue, or the global one when that is full.
SubmitQueue(s, w) ==
    /\ giver[s] = "push" /\ given[s] < Len(Bundle[s])
    /\ LET q == IF Len(fifo[w]) < LocalCapacity THEN w ELSE GlobalQueue
       IN  fifo' = [fifo EXCEPT ![q] = Append(@, Bundle[s][given[s] + 1])]
    /\ giver' = [giver EXCEPT ![s] = "count"]
    /\ UNCHANGED <<pending_tasks, tally, worker_states, given, takers, closing, forgotten>>

\* The task is counted only now: it may be taken, and done, before.
CountPending(s) ==
    /\ giver[s] = "count"
    /\ pending_tasks' = (pending_tasks + 1) % Wrap
    /\ giver' = [giver EXCEPT ![s] = "total"]
    /\ UNCHANGED <<queueVars, tally, given, takers, closing, forgotten>>

CountSubmitted(s) ==
    /\ giver[s] = "total"
    /\ tally' = [tally EXCEPT !.submitted = @ + 1]
    /\ giver' = [giver EXCEPT ![s] = "push"] /\ given' = [given EXCEPT ![s] = @ + 1]
    /\ UNCHANGED <<queueVars, pending_tasks, takers, closing, forgotten>>

-----------------------------------------------------------------------------
(* steal_task and the two ways to mark a task.                               *)

StealTask(w) ==
    /\ taker[w] = "rest"
    /\ taker' = [taker EXCEPT ![w] = "look"] /\ seen' = [seen EXCEPT ![w] = 0]
    /\ worker_states' = [worker_states EXCEPT ![w] = "Stealing"]
    /\ UNCHANGED <<fifo, pending_tasks, tally, givers, hand, marked_tasks, closing, forgotten>>

\* Its own queue first, the others' in their order, the global one last.
LookAt(w, k) ==
    CASE k = 0 -> w
      [] k = NumWorkers -> GlobalQueue
      [] OTHER -> IF k <= w THEN k - 1 ELSE k

\* update_worker_working follows the pop; a stolen task is counted.
PopTask(w) ==
    LET q == LookAt(w, seen[w])
    IN  /\ taker[w] = "look" /\ fifo[q] # <<>>
        /\ fifo' = [fifo EXCEPT ![q] = Tail(@)]
        /\ hand' = [hand EXCEPT ![w] = Head(fifo[q])]
        /\ tally' = [tally EXCEPT !.stolen = IF q \in Owners \ {w} THEN @ + 1 ELSE @]
        /\ worker_states' = [worker_states EXCEPT ![w] = "Working"]
        /\ taker' = [taker EXCEPT ![w] = "work"]
        /\ UNCHANGED <<pending_tasks, givers, seen, marked_tasks, closing, forgotten>>

PassQueue(w) ==
    /\ taker[w] = "look" /\ fifo[LookAt(w, seen[w])] = <<>>
    /\ IF seen[w] < NumWorkers
       THEN seen' = [seen EXCEPT ![w] = @ + 1] /\ UNCHANGED <<taker, worker_states>>
       ELSE /\ taker' = [taker EXCEPT ![w] = "rest"]
            /\ worker_states' = [worker_states EXCEPT ![w] = "Idle"]
            /\ UNCHANGED seen
    /\ UNCHANGED <<fifo, pending_tasks, tally, givers, hand, marked_tasks, closing, forgotten>>

\* Mutant: a task that is marked is still counted as pending.
UncountNothing(w) ==
    /\ taker[w] = "work"
    /\ taker' = [taker EXCEPT ![w] = "mark"]
    /\ UNCHANGED <<queueVars, pending_tasks, tally, givers, seen, hand, marked_tasks, closing, forgotten>>

\* mark_task_completed and mark_task_failed lower the counter first ...
Uncount(w) ==
    /\ taker[w] = "work"
    /\ pending_tasks' = (pending_tasks - 1) % Wrap
    /\ taker' = [taker EXCEPT ![w] = "mark"]
    /\ UNCHANGED <<queueVars, tally, givers, seen, hand, marked_tasks, closing, forgotten>>

\* ... and then count the task and put the worker to rest.
MarkTask(w, field) ==
    /\ taker[w] = "mark"
    /\ tally' = [tally EXCEPT ![field] = @ + 1]
    /\ worker_states' = [worker_states EXCEPT ![w] = "Idle"]
    /\ marked_tasks' = marked_tasks \cup {hand[w]}
    /\ hand' = [hand EXCEPT ![w] = NoTask]
    /\ taker' = [taker EXCEPT ![w] = "rest"]
    /\ UNCHANGED <<fifo, pending_tasks, givers, seen, closing, forgotten>>

-----------------------------------------------------------------------------
HasPendingTasks == pending_tasks > 0

ShutdownCall ==
    /\ closing = "no" /\ closing' = "poll"
    /\ UNCHANGED <<queueVars, pending_tasks, tally, givers, takers, forgotten>>

\* One round: done when nothing is pending, given up when time is.
ShutdownPoll ==
    /\ closing = "poll"
    /\ \/ ~HasPendingTasks /\ closing' = "Ok"
       \/ HasPendingTasks /\ closing' = "Timeout"
    /\ UNCHANGED <<queueVars, pending_tasks, tally, givers, takers, forgotten>>

\* reset_stats, its stores as one step, once; pending_tasks is left alone.
ResetStats ==
    /\ tally.completed > 0 /\ forgotten = 0
    /\ tally' = [f \in DOMAIN tally |-> 0] /\ forgotten' = Cardinality(marked_tasks)
    /\ UNCHANGED <<queueVars, pending_tasks, givers, takers, closing>>

\* get_stats, as a reader finds it: loads of the counters, and the workers
\* that are working.
SchedulerStats ==
    [tally |-> tally, pending |-> pending_tasks,
     active |-> Cardinality({w \in Owners : worker_states[w] = "Working"})]

QueueLengths == [q \in 0..NumWorkers |-> Len(fifo[q])]

\* get_load_balance_metrics: the shortest queue over the longest, the global
\* queue among them; one over one when all are empty.
LoadBalance ==
    LET lengths == {QueueLengths[q] : q \in 0..NumWorkers}
        longest == CHOOSE n \in lengths : \A m \in lengths : m <= n
        shortest == CHOOSE n \in lengths : \A m \in lengths : n <= m
    IN  [max |-> longest, min |-> shortest, over |-> IF longest > 0 THEN longest ELSE 1,
         under |-> IF longest > 0 THEN shortest ELSE 1]

Submit(s) == (\E w \in CurrentWorkerId : SubmitQueue(s, w)) \/ CountPending(s) \/ CountSubmitted(s)
LookAndMark(w) == PopTask(w) \/ PassQueue(w) \/ Uncount(w) \/ \E f \in {"completed", "failed"} : MarkTask(w, f)

SchedNext ==
    \/ \E s \in Submitters : Submit(s)
    \/ \E w \in Owners : StealTask(w) \/ LookAndMark(w)
    \/ ShutdownCall \/ ShutdownPoll \/ ResetStats

SchedSpec == SchedInit /\ [][SchedNext]_schedVars

-----------------------------------------------------------------------------
Queued == UNION {{fifo[q][k] : k \in 1..Len(fifo[q])} : q \in 0..NumWorkers}
QueuedCount == Cardinality({p \in (0..NumWorkers) \X (1..Cardinality(AllTasks)) : p[2] <= Len(fifo[p[1]])})
InHand == {hand[w] : w \in Owners} \ {NoTask}
AtWork == {w \in Owners : taker[w] = "work"}
NotCounted == {s \in Submitters : giver[s] = "count"}
HasPushed(s) == IF giver[s] = "push" THEN given[s] ELSE given[s] + 1
Pushed == UNION {{Bundle[s][k] : k \in 1..HasPushed(s)} : s \in Submitters}

\* A task that was pushed is in one queue, in one worker's hand or marked, and
\* nowhere else; local queues keep to their capacity (steal_task, submit_task).
EachTaskOnce ==
    /\ Pushed = Queued \cup InHand \cup marked_tasks
    /\ QueuedCount + Cardinality({w \in Owners : hand[w] # NoTask}) + Cardinality(marked_tasks)
         = Cardinality(Pushed)
    /\ \A w \in Owners : Len(fifo[w]) <= LocalCapacity

\* pending_tasks counts the tasks queued or being worked on, less those a
\* submitter has pushed and not counted yet: modulo 2^64, so that a task taken
\* and marked before it is counted leaves a huge number for a moment (lines 265
\* to 276, 335 to 348).
PendingAgrees ==
    pending_tasks = (QueuedCount + Cardinality(AtWork) - Cardinality(NotCounted)) % Wrap

\* What get_stats tells: a task is told to be completed or failed once it was
\* pushed, and at most the tasks in the hands of workers count as active.
StatsTruthful ==
    /\ tally.completed + tally.failed = Cardinality(marked_tasks) - forgotten
    /\ tally.stolen <= Cardinality(marked_tasks) - forgotten + Cardinality(InHand)
    /\ SchedulerStats.active = Cardinality(InHand)
    /\ LoadBalance.under <= LoadBalance.over

\* The lock-free scheduler keeps each task in one place, and its counters agree
\* with where the tasks are, at every point between two atomic operations.
SchedulerAccounts == EachTaskOnce /\ PendingAgrees /\ StatsTruthful
=============================================================================
