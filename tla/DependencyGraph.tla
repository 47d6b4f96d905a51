--------------------------- MODULE DependencyGraph ---------------------------
(***************************************************************************)
(* TaskDependencyGraph of src/src/concurrency.rs, which orders the hooks   *)
(* that name dependencies: add_task, add_dependency with its cycle check   *)
(* and rollback, detect_cycles (a depth-first search) and                  *)
(* resolve_execution_order (Kahn's algorithm).                             *)
(*                                                                         *)
(* self.edges maps a task to a list of dependencies that may hold the same *)
(* one twice; here it is the set of its entries, each with a slot number   *)
(* that keeps equal entries apart.  The two searches run step by step; the *)
(* order in which they walk a HashMap or a dependency list is any order.   *)
(* The recursion of dfs_cycle_check is the stack of its frames.            *)
(***************************************************************************)
EXTENDS Integers, Sequences, FiniteSets

CONSTANTS
    TaskIds,      \* task ids callers may use
    MaxEdges  \* bound on the entries of self.edges

ASSUME GraphAssumption == IsFiniteSet(TaskIds) /\ MaxEdges \in Nat

VARIABLES
    tasks,   \* keys of self.tasks
    edges,   \* entries of self.edges: task `from` depends on task `to`
    mode,    \* the operation in progress
    adding,  \* the set of the entry add_dependency has pushed and is checking
    verdict, \* what the last operation returned
    visited, recursion_stack,  \* of detect_cycles
    frames,  \* active dfs_cycle_check calls: the task and the entries still to check
    in_degree, queue, order   \* of resolve_execution_order

graphVars == <<tasks, edges, mode, adding, verdict, visited, recursion_stack, frames,
          in_degree, queue, order>>
dfsVars == <<visited, recursion_stack, frames>>
kahnVars == <<in_degree, queue, order>>

Slots == 1..MaxEdges
Edge == [from : TaskIds, to : TaskIds, slot : Slots]
Elements(s) == {s[i] : i \in 1..Len(s)}
OutEdges(t) == {e \in edges : e.from = t}

GraphInit ==
    /\ tasks = {} /\ edges = {}
    /\ mode = "idle" /\ adding = {} /\ verdict = "none"
    /\ visited = {} /\ recursion_stack = {} /\ frames = <<>>
    /\ in_degree = [t \in TaskIds |-> 0] /\ queue = <<>> /\ order = <<>>

-----------------------------------------------------------------------------
AddTask(t) ==
    /\ mode = "idle"
    /\ tasks' = tasks \cup {t}
    /\ verdict' = "Ok"
    /\ UNCHANGED <<edges, mode, adding, dfsVars, kahnVars>>

\* One of the two tasks is not in the graph.
AddDependencyUnknown(t, d) ==
    /\ mode = "idle"
    /\ t \notin tasks \/ d \notin tasks
    /\ verdict' = "UnknownTask"
    /\ UNCHANGED <<tasks, edges, mode, adding, dfsVars, kahnVars>>

\* The entry is pushed (a duplicate too), then the whole graph is searched.
AddDependency(t, d, n) ==
    /\ mode = "idle"
    /\ t \in tasks /\ d \in tasks
    /\ \A e \in edges : e.slot # n
    /\ adding' = {[from |-> t, to |-> d, slot |-> n]}
    /\ edges' = edges \cup adding'
    /\ mode' = "dfs"
    /\ UNCHANGED <<tasks, verdict, dfsVars, kahnVars>>

-----------------------------------------------------------------------------
(* detect_cycles                                                           *)

Top == frames[Len(frames)]
Visit(t, below) ==
    /\ visited' = visited \cup {t}
    /\ recursion_stack' = recursion_stack \cup {t}
    /\ frames' = Append(below, [task |-> t, todo |-> OutEdges(t)])

\* The frames once the top one has looked at entry e.
Checked(e) == [frames EXCEPT ![Len(frames)].todo = @ \ {e}]

\* The outer loop calls dfs_cycle_check on the next unvisited task.
DfsRoot(t) ==
    /\ mode = "dfs" /\ frames = <<>>
    /\ t \in tasks \ visited
    /\ Visit(t, frames)
    /\ UNCHANGED <<tasks, edges, mode, adding, verdict, kahnVars>>

DfsDescend(e) ==
    /\ mode = "dfs" /\ frames # <<>> /\ e \in Top.todo
    /\ e.to \notin visited
    /\ Visit(e.to, Checked(e))
    /\ UNCHANGED <<tasks, edges, mode, adding, verdict, kahnVars>>

\* Visited and not on the recursion stack: nothing to do.
DfsSeen(e) ==
    /\ mode = "dfs" /\ frames # <<>> /\ e \in Top.todo
    /\ e.to \in visited \ recursion_stack
    /\ frames' = Checked(e)
    /\ UNCHANGED <<tasks, edges, mode, adding, verdict, visited, recursion_stack, kahnVars>>

\* Mutant: the task stays on the recursion stack when its call returns.
DfsReturnKeepsStack ==
    /\ mode = "dfs" /\ frames # <<>> /\ Top.todo = {}
    /\ frames' = SubSeq(frames, 1, Len(frames) - 1)
    /\ UNCHANGED <<tasks, edges, mode, adding, verdict, visited, recursion_stack, kahnVars>>

DfsReturn ==
    /\ mode = "dfs" /\ frames # <<>> /\ Top.todo = {}
    /\ recursion_stack' = recursion_stack \ {Top.task}
    /\ frames' = SubSeq(frames, 1, Len(frames) - 1)
    /\ UNCHANGED <<tasks, edges, mode, adding, verdict, visited, kahnVars>>

\* Back in add_dependency; the local maps of detect_cycles are gone.
DfsOver ==
    /\ mode' = "idle" /\ adding' = {}
    /\ visited' = {} /\ recursion_stack' = {} /\ frames' = <<>>

\* retain(dep != depends_on): every entry equal to the pushed one goes.
Rollback == {e \in edges : \A a \in adding : ~(e.from = a.from /\ e.to = a.to)}

\* A dependency on the recursion stack closes a cycle: Err up to add_dependency,
\* which takes the entry back.
DfsCycle(e) ==
    /\ mode = "dfs" /\ frames # <<>> /\ e \in Top.todo
    /\ e.to \in recursion_stack
    /\ verdict' = "Cycle"
    /\ edges' = Rollback
    /\ DfsOver
    /\ UNCHANGED <<tasks, kahnVars>>

\* Mutant: the search ends with the first root.
DfsDoneEarly ==
    /\ mode = "dfs" /\ frames = <<>> /\ visited # {}
    /\ verdict' = "Ok"
    /\ DfsOver
    /\ UNCHANGED <<tasks, edges, kahnVars>>

DfsDone ==
    /\ mode = "dfs" /\ frames = <<>> /\ tasks \subseteq visited
    /\ verdict' = "Ok"
    /\ DfsOver
    /\ UNCHANGED <<tasks, edges, kahnVars>>

-----------------------------------------------------------------------------
(* resolve_execution_order                                                 *)

Arrangements(S) == {s \in [1..Cardinality(S) -> S] : Elements(s) = S}

\* The entries by which t depends on d.
Between(t, d) == {e \in edges : e.from = t /\ e.to = d}

\* Mutant: the in-degree counts distinct dependencies.
InitialDegreeDistinct(t) == Cardinality({e.to : e \in OutEdges(t)})

InitialDegree(t) == Cardinality(OutEdges(t))

\* in_degree and the adjacency list are built; tasks without dependencies queue up.
KahnStart ==
    /\ mode = "idle"
    /\ in_degree' = [t \in TaskIds |-> InitialDegree(t)]
    /\ queue' \in Arrangements({t \in tasks : InitialDegree(t) = 0})
    /\ order' = <<>>
    /\ mode' = "kahn"
    /\ UNCHANGED <<tasks, edges, adding, verdict, dfsVars>>

\* What popping `current` does to the in-degrees.
Lowered(current) == [t \in TaskIds |-> in_degree[t] - Cardinality(Between(t, current))]

\* Mutant: a dependent is queued when the first of its dependencies is out.
FreedEager(current) ==
    {t \in tasks : Between(t, current) # {}
                   /\ t \notin Elements(queue) \cup Elements(order)}

\* The dependents of `current` whose in-degree drops to zero.
Freed(current) ==
    {t \in tasks : Between(t, current) # {} /\ Lowered(current)[t] = 0}

\* The front of the queue is output; its dependents lose one degree per entry.
KahnPop ==
    /\ mode = "kahn" /\ queue # <<>>
    /\ in_degree' = Lowered(Head(queue))
    /\ \E s \in Arrangements(Freed(Head(queue))) : queue' = Tail(queue) \o s
    /\ order' = Append(order, Head(queue))
    /\ UNCHANGED <<tasks, edges, mode, adding, verdict, dfsVars>>

KahnDone ==
    /\ mode = "kahn" /\ queue = <<>>
    /\ verdict' = IF Len(order) = Cardinality(tasks) THEN "Ordered" ELSE "Cycle"
    /\ mode' = "idle"
    /\ in_degree' = [t \in TaskIds |-> 0] /\ queue' = <<>> /\ order' = <<>>
    /\ UNCHANGED <<tasks, edges, adding, dfsVars>>

-----------------------------------------------------------------------------
Dfs ==
    \/ \E t \in TaskIds : DfsRoot(t)
    \/ \E e \in edges : DfsDescend(e) \/ DfsSeen(e) \/ DfsCycle(e)
    \/ DfsReturn \/ DfsDone
Kahn == KahnPop \/ KahnDone

GraphNext ==
    \/ \E t \in TaskIds : AddTask(t)
    \/ \E t, d \in TaskIds : AddDependencyUnknown(t, d)
    \/ \E t, d \in TaskIds, n \in Slots : AddDependency(t, d, n)
    \/ KahnStart \/ Dfs \/ Kahn

GraphSpec == GraphInit /\ [][GraphNext]_graphVars

-----------------------------------------------------------------------------
(* Properties                                                              *)

GraphTypeOK ==
    /\ tasks \in SUBSET TaskIds
    /\ edges \in SUBSET [from : tasks, to : tasks, slot : Slots]
    /\ mode \in {"idle", "dfs", "kahn"}
    /\ adding \in SUBSET edges
    /\ verdict \in {"none", "Ok", "UnknownTask", "Cycle", "Ordered"}
    /\ visited \in SUBSET tasks /\ recursion_stack \in SUBSET tasks
    /\ frames \in Seq([task : tasks, todo : SUBSET edges])
    /\ in_degree \in [TaskIds -> Nat]
    /\ queue \in Seq(tasks) /\ order \in Seq(tasks)

\* Reference definition: some tasks that each depend on one of themselves.
CyclicSet(S, E) == S # {} /\ \A t \in S : \E e \in E : e.from = t /\ e.to \in S
Cyclic(E) == \E S \in SUBSET tasks : CyclicSet(S, E)

\* add_dependency keeps the graph acyclic: the depth-first search misses no cycle,
\* so whatever the callers add, resolve_execution_order gets an acyclic graph.
AlwaysAcyclic == mode # "dfs" => ~Cyclic(edges)

\* detect_cycles raises no false alarm: add_dependency is only refused when the new
\* entry closes a cycle, and then exactly that entry is taken back.
RefusalJustified ==
    [][mode = "dfs" /\ mode' = "idle" /\ verdict' = "Cycle" =>
          Cyclic(edges) /\ edges' = edges \ adding]_graphVars

\* The order Kahn's loop builds names no task twice and each one after all of its
\* dependencies, duplicate entries included.
OrderIsTopological ==
    mode = "kahn" =>
        /\ \A i \in 1..Len(order) : \A e \in OutEdges(order[i]) :
              \E j \in 1..(i - 1) : order[j] = e.to
        /\ \A i, j \in 1..Len(order) : order[i] = order[j] => i = j

\* resolve_execution_order orders every graph add_dependency can build: it never
\* stops short and reports a cycle.
OrderFound ==
    [][mode = "kahn" /\ mode' = "idle" => verdict' = "Ordered"]_graphVars

=============================================================================
