-------------------------- MODULE ConcurrencyProofs --------------------------
(***************************************************************************)
(* Theorems about the two parts of concurrency.rs, which share no state:   *)
(* the executor, for any calls, ids, dependencies and permits, and the     *)
(* graph that orders its tasks, for any tasks and edges.                   *)
(***************************************************************************)
EXTENDS MCConcurrency, FiniteSetTheorems, SequenceTheorems, TLAPS

-----------------------------------------------------------------------------
(* ConcurrencyExecutor.  The inductive invariant is TypeOK /\ PermitAccounting: *)
(* that permits stay within 0..MaxConcurrent is only true because the permits  *)
(* out are counted by the calls that hold one.                                 *)

IInv == TypeOK /\ PermitAccounting

\* The calls that hold a permit are finitely many.
LEMMA HoldersFinite == IsFiniteSet(Holders) /\ Cardinality(Holders) \in Nat
  <1>1. Holders \in SUBSET Calls
    BY DEF Holders
  <1>2. IsFiniteSet(Holders)
    BY <1>1, FS_Subset, ExecutorAssumption
  <1> QED
    BY <1>2, FS_CardinalityType

\* Initially nobody holds a permit and nothing is in the registry.
LEMMA InitIInv == Init => IInv
  <1> SUFFICES ASSUME Init PROVE IInv
    OBVIOUS
  <1>1. Holders = {}
    BY DEF Init, Holders, Holding
  <1>2. PermitAccounting
    BY <1>1, FS_EmptySet, ExecutorAssumption DEF Init, PermitAccounting
  <1>3. TypeOK
    BY ExecutorAssumption DEF Init, TypeOK, States, Locations, Results
  <1> QED
    BY <1>2, <1>3 DEF IInv

\* A step that moves no call in or out of the permit-holding section.
LEMMA SameHolders ==
    ASSUME IInv, permits' = permits, Holders' = Holders
    PROVE  PermitAccounting' /\ permits' \in 0..MaxConcurrent
  BY DEF IInv, TypeOK, PermitAccounting

\* A step by which one call enters the section and takes a permit.
LEMMA OneEnters ==
    ASSUME IInv, NEW c \in Calls, c \notin Holders, permits > 0,
           permits' = permits - 1, Holders' = Holders \cup {c}
    PROVE  PermitAccounting' /\ permits' \in 0..MaxConcurrent
  <1>1. Cardinality(Holders \cup {c}) = Cardinality(Holders) + 1
    BY HoldersFinite, FS_AddElement
  <1> QED
    BY <1>1, HoldersFinite, ExecutorAssumption DEF IInv, TypeOK, PermitAccounting

\* A step by which one call leaves the section and gives its permit back.
LEMMA OneLeaves ==
    ASSUME IInv, NEW c \in Calls, c \in Holders,
           permits' = permits + 1, Holders' = Holders \ {c}
    PROVE  PermitAccounting' /\ permits' \in 0..MaxConcurrent
  <1>1. Cardinality(Holders \ {c}) = Cardinality(Holders) - 1
    BY HoldersFinite, FS_RemoveElement
  <1>2. IsFiniteSet(Holders \ {c}) /\ Cardinality(Holders \ {c}) \in Nat
    BY HoldersFinite, FS_RemoveElement, FS_CardinalityType
  <1> QED
    BY <1>1, <1>2, HoldersFinite, ExecutorAssumption DEF IInv, TypeOK, PermitAccounting

\* Every step of the executor preserves the invariant.
LEMMA StepIInv == IInv /\ [Next]_vars => IInv'
  <1> SUFFICES ASSUME IInv, [Next]_vars PROVE IInv'
    OBVIOUS
  <1> USE ExecutorAssumption DEF IInv, TypeOK, States, Locations, Results, batchVars
  <1>1. ASSUME NEW c \in Calls, Submit(c) PROVE IInv'
    <2>1. Holders' = Holders
      BY <1>1 DEF Submit, Goto, Holders, Holding
    <2> QED
      BY <1>1, <2>1, SameHolders DEF Submit, Goto
  <1>2. ASSUME NEW c \in Calls, RegisterPending(c) PROVE IInv'
    <2>1. Holders' = Holders
      BY <1>2 DEF RegisterPending, Goto, Holders, Holding
    <2> QED
      BY <1>2, <2>1, SameHolders DEF RegisterPending, Goto, Write
  <1>3. ASSUME NEW c \in Calls, CheckDependencies(c) PROVE IInv'
    <2>1. Holders' = Holders
      BY <1>3 DEF CheckDependencies, Goto, Holders, Holding
    <2> QED
      BY <1>3, <2>1, SameHolders DEF CheckDependencies, Goto, Write
  <1>4. ASSUME NEW c \in Calls, AcquirePermit(c) PROVE IInv'
    <2>1. Holders' = Holders \cup {c} /\ c \notin Holders
      BY <1>4 DEF AcquirePermit, Goto, Holders, Holding
    <2>2. PermitAccounting' /\ permits' \in 0..MaxConcurrent
      BY <1>4, <2>1, OneEnters DEF AcquirePermit
    <2> QED
      BY <1>4, <2>2 DEF AcquirePermit, Goto
  <1>5. ASSUME NEW c \in Calls, MarkRunning(c) PROVE IInv'
    <2>1. Holders' = Holders
      BY <1>5 DEF MarkRunning, Goto, Holders, Holding
    <2> QED
      BY <1>5, <2>1, SameHolders DEF MarkRunning, Goto, Write
  <1>6. ASSUME NEW c \in Calls, AcquireResources(c) PROVE IInv'
    <2>1. Holders' = Holders
      BY <1>6 DEF AcquireResources, Goto, Holders, Holding
    <2> QED
      BY <1>6, <2>1, SameHolders DEF AcquireResources, Goto
  <1>7. ASSUME NEW c \in Calls, ResourcesRefused(c) PROVE IInv'
    <2>1. Holders' = Holders \ {c} /\ c \in Holders
      BY <1>7 DEF ResourcesRefused, Goto, Holders, Holding
    <2>2. PermitAccounting' /\ permits' \in 0..MaxConcurrent
      BY <1>7, <2>1, OneLeaves DEF ResourcesRefused
    <2> QED
      BY <1>7, <2>2 DEF ResourcesRefused, Goto
  <1>8. ASSUME NEW c \in Calls, NEW r, TaskEnds(c, r) PROVE IInv'
    <2>1. Holders' = Holders
      BY <1>8 DEF TaskEnds, Goto, Holders, Holding
    <2> QED
      BY <1>8, <2>1, SameHolders DEF TaskEnds, Goto
  <1>9. ASSUME NEW c \in Calls, RecordOutcome(c) PROVE IInv'
    <2>1. Holders' = Holders \ {c} /\ c \in Holders
      BY <1>9 DEF RecordOutcome, Goto, Holders, Holding
    <2>2. PermitAccounting' /\ permits' \in 0..MaxConcurrent
      BY <1>9, <2>1, OneLeaves DEF RecordOutcome
    <2> QED
      BY <1>9, <2>2 DEF RecordOutcome, Goto, Write
  <1>10. CASE BatchStart
    <2>1. Holders' = Holders
      BY <1>10 DEF BatchStart, Holders, Holding
    <2> QED
      BY <1>10, <2>1, SameHolders DEF BatchStart
  <1>11. CASE BatchCollect \/ ShutdownReturns \/ ShutdownTimeout \/ UNCHANGED vars
    <2>1. Holders' = Holders
      BY <1>11 DEF BatchCollect, ShutdownReturns, ShutdownTimeout, vars, Holders
    <2> QED
      BY <1>11, <2>1, SameHolders DEF BatchCollect, ShutdownReturns, ShutdownTimeout, vars
  <1>12. CASE CancelAllTasks \/ ShutdownCancel \/ \E i \in Ids : CancelTask(i)
    <2>1. Holders' = Holders
      BY <1>12 DEF CancelAllTasks, ShutdownCancel, CancelTask, Holders
    <2>2. registry' \in [Ids -> States]
      BY <1>12 DEF CancelAllTasks, ShutdownCancel, CancelTask, AllCancelled, Write
    <2> QED
      BY <1>12, <2>1, <2>2, SameHolders DEF CancelAllTasks, ShutdownCancel, CancelTask
  <1> QED
    BY <1>1, <1>2, <1>3, <1>4, <1>5, <1>6, <1>7, <1>8, <1>9, <1>10, <1>11, <1>12
    DEF Next, ExecuteTask

\* The invariant holds in every reachable state of the executor.
THEOREM IInvHolds == Spec => []IInv
  BY InitIInv, StepIInv, PTL DEF Spec

\* Type correctness: the registry, the permits and the calls keep their types, and
\* the semaphore never counts below zero or above max_concurrent.
THEOREM TypeCorrect == Spec => []TypeOK
  <1>1. IInv => TypeOK
    BY DEF IInv
  <1> QED
    BY <1>1, IInvHolds, PTL

\* No way out of execute_task leaks or duplicates a permit.
THEOREM PermitsExact == Spec => []PermitAccounting
  <1>1. IInv => PermitAccounting
    BY DEF IInv
  <1> QED
    BY <1>1, IInvHolds, PTL

\* At most max_concurrent tasks execute at any time.
THEOREM ParallelismBounded == Spec => []BoundedParallelism
  <1>1. ASSUME IInv PROVE BoundedParallelism
    <2> DEFINE E == {c \in Calls : pc[c] = "executing"}
    <2>1. E \in SUBSET Holders
      BY DEF Holders, Holding
    <2>2. Cardinality(E) <= Cardinality(Holders) /\ IsFiniteSet(E)
      BY <2>1, HoldersFinite, FS_Subset
    <2>3. Cardinality(E) \in Nat
      BY <2>2, FS_CardinalityType
    <2> QED
      BY <1>1, <2>2, <2>3, HoldersFinite, ExecutorAssumption
      DEF IInv, TypeOK, PermitAccounting, BoundedParallelism
  <1> QED
    BY <1>1, IInvHolds, PTL

-----------------------------------------------------------------------------
\* A status Completed or Failed is only replaced by a call for the same id.
THEOREM StatusSticky == Spec => TerminalSticky
  <1> DEFINE Sticky(i) ==
        registry[i] \in {"Completed", "Failed"} /\ registry'[i] # registry[i] =>
            \E c \in Calls : IdOf[c] = i /\ pc'[c] # pc[c]
  <1>1. ASSUME TypeOK, [Next]_vars, NEW i \in Ids PROVE Sticky(i)
    <2> USE <1>1, ExecutorAssumption DEF TypeOK, States, Locations, Results, batchVars
    <2>1. ASSUME NEW c \in Calls, RegisterPending(c) \/ CheckDependencies(c)
                                    \/ MarkRunning(c) \/ RecordOutcome(c)
          PROVE  Sticky(i)
      <3>1. \A j \in Ids : j # IdOf[c] => registry'[j] = registry[j]
        BY <2>1 DEF RegisterPending, CheckDependencies, MarkRunning, RecordOutcome, Write
      <3>2. pc'[c] # pc[c]
        BY <2>1 DEF RegisterPending, CheckDependencies, MarkRunning, RecordOutcome, Goto
      <3> QED
        BY <3>1, <3>2
    <2>2. CASE CancelAllTasks \/ ShutdownCancel \/ \E j \in Ids : CancelTask(j)
      BY <2>2 DEF CancelAllTasks, ShutdownCancel, CancelTask, AllCancelled, Cancellable, Write
    <2>3. CASE UNCHANGED registry
      BY <2>3
    <2> QED
      BY <2>1, <2>2, <2>3
      DEF Next, ExecuteTask, Submit, AcquirePermit, AcquireResources, ResourcesRefused,
          TaskEnds, BatchStart, BatchCollect, ShutdownReturns, ShutdownTimeout, vars
  <1>2. TypeOK /\ [Next]_vars => [\A i \in Ids : Sticky(i)]_vars
    BY <1>1
  <1> QED
    BY <1>2, TypeCorrect, PTL DEF Spec, TerminalSticky

-----------------------------------------------------------------------------
\* What StatusTellsOutcome needs to be inductive: a task that ended has its result,
\* and a call that is about to ask for its resources is marked Running (or has been
\* cancelled since).
StatusInv ==
    /\ StatusTellsOutcome
    /\ \A c \in Calls : pc[c] = "ended" => result[c] \in {"Ok", "TaskErr", "Timeout"}
    /\ \A c \in Calls : pc[c] = "admitted" /\ OnlyCall(c) =>
          registry[IdOf[c]] \in {"Running", "Cancelled"}

\* Only the call itself and a cancellation touch the entry of an only call.
LEMMA StepStatusInv == TypeOK /\ StatusInv /\ [Next]_vars => StatusInv'
  <1> SUFFICES ASSUME TypeOK, StatusInv, [Next]_vars PROVE StatusInv'
    OBVIOUS
  <1> USE ExecutorAssumption DEF TypeOK, States, Locations, Results, batchVars,
                                 StatusInv, StatusTellsOutcome, OnlyCall, Goto, Write
  <1>1. ASSUME NEW c \in Calls, Submit(c) \/ RegisterPending(c) \/ CheckDependencies(c)
        PROVE  StatusInv'
    BY <1>1 DEF Submit, RegisterPending, CheckDependencies
  <1>2. ASSUME NEW c \in Calls, AcquirePermit(c) \/ MarkRunning(c) \/ AcquireResources(c)
        PROVE  StatusInv'
    BY <1>2 DEF AcquirePermit, MarkRunning, AcquireResources
  <1>3. ASSUME NEW c \in Calls, ResourcesRefused(c) PROVE StatusInv'
    BY <1>3 DEF ResourcesRefused
  <1>4. ASSUME NEW c \in Calls, NEW r, TaskEnds(c, r) PROVE StatusInv'
    BY <1>4 DEF TaskEnds
  <1>5. ASSUME NEW c \in Calls, RecordOutcome(c) PROVE StatusInv'
    BY <1>5 DEF RecordOutcome
  <1>6. CASE BatchStart
    BY <1>6 DEF BatchStart
  <1>7. CASE BatchCollect \/ ShutdownReturns \/ ShutdownTimeout \/ UNCHANGED vars
    BY <1>7 DEF BatchCollect, ShutdownReturns, ShutdownTimeout, vars
  <1>8. CASE CancelAllTasks \/ ShutdownCancel \/ \E i \in Ids : CancelTask(i)
    BY <1>8 DEF CancelAllTasks, ShutdownCancel, CancelTask, AllCancelled, Cancellable
  <1> QED
    BY <1>1, <1>2, <1>3, <1>4, <1>5, <1>6, <1>7, <1>8 DEF Next, ExecuteTask

\* However cancellations interleave, the status of an id with one call tells the
\* outcome of that call once it has returned.
THEOREM StatusTruthful == Spec => []StatusTellsOutcome
  <1>1. Init => StatusInv
    BY DEF Init, StatusInv, StatusTellsOutcome
  <1>2. StatusInv => StatusTellsOutcome
    BY DEF StatusInv
  <1> QED
    BY <1>1, <1>2, StepStatusInv, TypeCorrect, PTL DEF Spec

-----------------------------------------------------------------------------
\* The permit-holding calls are the running jobs of the abstract specification.
LEMMA RunningJobs == TypeOK => Jobs!Running = Holders
  BY DEF Jobs!Running, Job, Holders, Holding, TypeOK

\* Every step of the executor is a step of BoundedJobs or leaves the jobs alone.
LEMMA StepRefines == IInv /\ [Next]_vars => [Jobs!Next]_Job
  <1> SUFFICES ASSUME IInv, [Next]_vars PROVE [Jobs!Next]_Job
    OBVIOUS
  <1> USE ExecutorAssumption DEF IInv, TypeOK, Locations, batchVars, Goto
  <1>1. ASSUME NEW c \in Calls, AcquirePermit(c) PROVE Jobs!Start(c)
    <2>1. Cardinality(Jobs!Running) < MaxConcurrent
      BY <1>1, RunningJobs, HoldersFinite DEF AcquirePermit, PermitAccounting
    <2>2. Job[c] = "waiting" /\ Job' = [Job EXCEPT ![c] = "running"]
      BY <1>1 DEF AcquirePermit, Job, Holding
    <2>3. Jobs!Cardinality(Jobs!Running) = Cardinality(Jobs!Running)
      BY DEF Jobs!Cardinality, Cardinality
    <2> QED
      BY <2>1, <2>2, <2>3 DEF Jobs!Start
  <1>2. ASSUME NEW c \in Calls, ResourcesRefused(c) \/ RecordOutcome(c) PROVE Jobs!End(c)
    <2>1. Job[c] = "running" /\ Job' = [Job EXCEPT ![c] = "done"]
      BY <1>2 DEF ResourcesRefused, RecordOutcome, Job, Holding
    <2> QED
      BY <2>1 DEF Jobs!End
  <1>3. ASSUME NEW c \in Calls, Submit(c) \/ RegisterPending(c) \/ CheckDependencies(c)
        PROVE  Job' = Job
    BY <1>3 DEF Submit, RegisterPending, CheckDependencies, Job, Holding
  <1>4. ASSUME NEW c \in Calls, MarkRunning(c) \/ AcquireResources(c)
                                  \/ \E r \in {"Ok", "TaskErr", "Timeout"} : TaskEnds(c, r)
        PROVE  Job' = Job
    BY <1>4 DEF MarkRunning, AcquireResources, TaskEnds, Job, Holding
  <1>5. CASE BatchStart
    BY <1>5 DEF BatchStart, Job, Holding
  <1>6. CASE UNCHANGED pc
    BY <1>6 DEF Job
  <1> QED
    BY <1>1, <1>2, <1>3, <1>4, <1>5, <1>6
    DEF Next, ExecuteTask, Jobs!Next, BatchCollect, CancelTask, CancelAllTasks,
        ShutdownCancel, ShutdownReturns, ShutdownTimeout, vars

\* The executor implements BoundedJobs, for every number of calls and permits.
THEOREM Refinement == Spec => ImplementsJobs
  <1>1. Init => Jobs!Init
    BY DEF Init, Jobs!Init, Job, Holding
  <1> QED
    BY <1>1, StepRefines, IInvHolds, PTL DEF Spec, ImplementsJobs, Jobs!Spec

-----------------------------------------------------------------------------
(* DependencyGraph.  The depth-first search finds a cycle exactly when there is  *)
(* one, and Kahn's algorithm orders every graph that add_dependency lets through. *)

\* The local variables of a search exist only while it runs.
ModeInv ==
    /\ mode # "dfs" =>
          adding = {} /\ visited = {} /\ recursion_stack = {} /\ frames = <<>>
    /\ mode # "kahn" =>
          in_degree = [t \in TaskIds |-> 0] /\ queue = <<>> /\ order = <<>>

\* The tasks whose search is complete.
Black == visited \ recursion_stack

\* The frames are a path of distinct tasks, the ones on the recursion stack.
StackInv ==
    /\ recursion_stack = {frames[i].task : i \in 1..Len(frames)}
    /\ recursion_stack \subseteq visited
    /\ \A i, j \in 1..Len(frames) : frames[i].task = frames[j].task => i = j
    /\ \A i \in 1..(Len(frames) - 1) :
          \E e \in edges : e.from = frames[i].task /\ e.to = frames[i + 1].task

\* A frame only has entries of its own task to check.
EntryInv == \A i \in 1..Len(frames) : \A e \in frames[i].todo : e.from = frames[i].task

\* What a frame has checked is complete, or is the frame above it.
FrameInv ==
    \A i \in 1..Len(frames) : \A e \in edges :
        e.from = frames[i].task /\ e \notin frames[i].todo =>
            \/ e.to \in Black
            \/ i < Len(frames) /\ e.to = frames[i + 1].task

\* The complete tasks are closed under dependencies and hold no cycle.
BlackInv ==
    /\ \A e \in edges : e.from \in Black => e.to \in Black
    /\ \A S \in SUBSET Black : ~CyclicSet(S, edges)

\* Without the entry being added the graph is acyclic.
AddingInv == (\E a \in edges : adding = {a}) /\ ~Cyclic(edges \ adding)

DfsInv == mode = "dfs" => StackInv /\ EntryInv /\ FrameInv /\ BlackInv /\ AddingInv

Out == Elements(order)
Que == Elements(queue)

\* The entries of t that Kahn's loop has not counted down yet.
Open(t) == {e \in OutEdges(t) : e.to \notin Out}

Distinct(s) == \A i, j \in 1..Len(s) : s[i] = s[j] => i = j

KahnInv ==
    mode = "kahn" =>
        /\ Distinct(order) /\ Distinct(queue) /\ Out \cap Que = {}
        /\ \A t \in TaskIds : in_degree[t] = Cardinality(Open(t))
        /\ \A t \in Out \cup Que : Open(t) = {}
        /\ \A t \in tasks : in_degree[t] = 0 => t \in Out \cup Que
        /\ OrderIsTopological

Inv == GraphTypeOK /\ ModeInv /\ DfsInv /\ KahnInv /\ AlwaysAcyclic

-----------------------------------------------------------------------------
\* Sets of entries are finite.
LEMMA EdgesFinite == GraphTypeOK => \A E \in SUBSET edges : IsFiniteSet(E) /\ Cardinality(E) \in Nat
  <1> SUFFICES ASSUME GraphTypeOK, NEW E \in SUBSET edges
               PROVE  IsFiniteSet(E) /\ Cardinality(E) \in Nat
    OBVIOUS
  <1>1. IsFiniteSet(TaskIds \X TaskIds) /\ IsFiniteSet(Slots)
    BY GraphAssumption, FS_Product, FS_Interval DEF Slots
  <1>2. IsFiniteSet((TaskIds \X TaskIds) \X Slots)
    BY <1>1, FS_Product
  <1> DEFINE G == [e \in Edge |-> <<<<e.from, e.to>>, e.slot>>]
  <1>3. G \in Injection(Edge, (TaskIds \X TaskIds) \X Slots)
    BY DEF Edge, Injection, IsInjective
  <1>4. IsFiniteSet(Edge)
    BY <1>2, <1>3, FS_Injection
  <1>5. E \in SUBSET Edge
    BY DEF GraphTypeOK, Edge
  <1> QED
    BY <1>4, <1>5, FS_Subset, FS_CardinalityType

\* Fewer entries make no new cycle.
LEMMA CyclicMonotone ==
    ASSUME NEW D, NEW E, D \subseteq E, Cyclic(D)
    PROVE  Cyclic(E)
  BY DEF Cyclic, CyclicSet

\* Once a task whose dependencies are all complete is complete too, there is still
\* no cycle among the complete ones.
LEMMA BlackGrows ==
    ASSUME NEW B, NEW t, NEW E, t \notin B,
           \A e \in E : e.from \in B => e.to \in B,
           \A e \in E : e.from = t => e.to \in B,
           \A S \in SUBSET B : ~CyclicSet(S, E)
    PROVE  \A S \in SUBSET (B \cup {t}) : ~CyclicSet(S, E)
  <1> SUFFICES ASSUME NEW S \in SUBSET (B \cup {t}), CyclicSet(S, E) PROVE FALSE
    OBVIOUS
  <1>1. S \ {t} \in SUBSET B
    OBVIOUS
  <1>2. \A s \in S \ {t} : \E e \in E : e.from = s /\ e.to \in S \ {t}
    BY <1>1 DEF CyclicSet
  <1>3. S \ {t} # {}
    BY <1>1 DEF CyclicSet
  <1> QED
    BY <1>1, <1>2, <1>3 DEF CyclicSet

-----------------------------------------------------------------------------
(* The depth-first search                                                  *)

\* The outer loop starts a search: the only frame has checked nothing yet.
LEMMA RootStep ==
    ASSUME Inv, NEW t \in TaskIds, DfsRoot(t)
    PROVE  /\ StackInv' /\ EntryInv' /\ FrameInv' /\ BlackInv'
           /\ frames' \in Seq([task : tasks, todo : SUBSET edges])
  <1> DEFINE f == [task |-> t, todo |-> OutEdges(t)]
  <1>1. frames' = <<f>> /\ visited' = visited \cup {t} /\ recursion_stack' = {t}
        /\ edges' = edges /\ recursion_stack = {} /\ t \in tasks /\ tasks' = tasks
        /\ t \notin visited
    BY DEF DfsRoot, Visit, Inv, GraphTypeOK, DfsInv, StackInv
  <1>2. Len(frames') = 1 /\ frames'[1].task = t /\ frames'[1].todo = OutEdges(t)
    BY <1>1
  <1>3. Black' = Black
    BY <1>1 DEF Black
  <1>4. StackInv'
    BY <1>1, <1>2 DEF StackInv, Inv, GraphTypeOK
  <1>5. FrameInv'
    BY <1>1, <1>2 DEF FrameInv, OutEdges
  <1>6. BlackInv'
    BY <1>1, <1>3 DEF BlackInv, CyclicSet, Inv, DfsInv, DfsRoot
  <1>9. EntryInv'
    BY <1>1, <1>2 DEF EntryInv, OutEdges
  <1>7. f \in [task : tasks, todo : SUBSET edges]
    BY <1>1 DEF OutEdges
  <1>8. frames' \in Seq([task : tasks, todo : SUBSET edges])
    BY <1>1, <1>7
  <1> QED
    BY <1>4, <1>5, <1>6, <1>8, <1>9

\* What looking at an entry does to the top frame.
LEMMA CheckedProperties ==
    ASSUME GraphTypeOK, frames # <<>>, NEW e
    PROVE  /\ Checked(e) \in Seq([task : tasks, todo : SUBSET edges])
           /\ Len(Checked(e)) = Len(frames)
           /\ \A i \in 1..Len(frames) : Checked(e)[i].task = frames[i].task
           /\ \A i \in 1..(Len(frames) - 1) : Checked(e)[i].todo = frames[i].todo
           /\ Checked(e)[Len(frames)].todo = Top.todo \ {e}
           /\ Len(frames) \in Nat \ {0}
  <1> DEFINE F == [task : tasks, todo : SUBSET edges]
             n == Len(frames)
             g == [Top EXCEPT !.todo = @ \ {e}]
  <1>1. frames \in Seq(F) /\ n \in Nat \ {0} /\ n \in 1..n
    BY EmptySeq DEF GraphTypeOK
  <1>2. Top \in F
    BY <1>1, ElementOfSeq DEF Top
  <1>3. g \in F /\ g.task = Top.task /\ g.todo = Top.todo \ {e}
    BY <1>2
  <1>4. Checked(e) = [frames EXCEPT ![n] = g]
    BY <1>1 DEF Checked, Top
  <1>5. /\ Checked(e) \in Seq(F)
        /\ Len(Checked(e)) = n
        /\ \A j \in 1..n : Checked(e)[j] = IF j = n THEN g ELSE frames[j]
    BY <1>1, <1>3, <1>4, ExceptSeq
  <1>6. Checked(e)[n] = g
    BY <1>1, <1>5
  <1>7. \A j \in 1..(n - 1) : j \in 1..n /\ Checked(e)[j] = frames[j]
    BY <1>1, <1>5
  <1>8. \A j \in 1..n : Checked(e)[j].task = frames[j].task
    <2> SUFFICES ASSUME NEW j \in 1..n PROVE Checked(e)[j].task = frames[j].task
      OBVIOUS
    <2>1. CASE j = n
      BY <1>3, <1>6, <2>1 DEF Top
    <2>2. CASE j # n
      BY <1>5, <2>2
    <2> QED
      BY <2>1, <2>2
  <1> HIDE DEF g
  <1> QED
    BY <1>1, <1>3, <1>5, <1>6, <1>7, <1>8

\* An unvisited dependency: its frame goes on top.
LEMMA DescendStep ==
    ASSUME Inv, NEW e \in edges, DfsDescend(e)
    PROVE  /\ StackInv' /\ EntryInv' /\ FrameInv' /\ BlackInv'
           /\ frames' \in Seq([task : tasks, todo : SUBSET edges])
  <1> DEFINE F == [task : tasks, todo : SUBSET edges]
             n == Len(frames)
             x == e.to
             f == [task |-> x, todo |-> OutEdges(x)]
  <1>1. /\ frames' = Append(Checked(e), f) /\ visited' = visited \cup {x}
        /\ recursion_stack' = recursion_stack \cup {x}
        /\ edges' = edges /\ tasks' = tasks /\ x \notin visited /\ e \in Top.todo
        /\ x \in tasks /\ frames # <<>>
    BY DEF DfsDescend, Visit, Inv, GraphTypeOK
  <1>2. GraphTypeOK /\ StackInv /\ EntryInv /\ FrameInv /\ BlackInv
    BY DEF Inv, DfsInv, DfsDescend
  <1>3. f \in F
    BY <1>1 DEF OutEdges
  <1>4. /\ frames' \in Seq(F) /\ Len(frames') = n + 1 /\ n \in Nat \ {0}
        /\ \A i \in 1..n : frames'[i].task = frames[i].task
        /\ \A i \in 1..(n - 1) : frames'[i].todo = frames[i].todo
        /\ frames'[n].todo = Top.todo \ {e}
        /\ frames'[n + 1].task = x /\ frames'[n + 1].todo = OutEdges(x)
    <2> DEFINE c == Checked(e)
    <2>1. /\ c \in Seq(F) /\ Len(c) = n /\ n \in Nat \ {0}
          /\ \A i \in 1..n : c[i].task = frames[i].task
          /\ \A i \in 1..(n - 1) : c[i].todo = frames[i].todo
          /\ c[n].todo = Top.todo \ {e}
      BY <1>1, <1>2, CheckedProperties
    <2> HIDE DEF c, F, f, n
    <2>2. frames' \in Seq(F) /\ Len(frames') = n + 1 /\ frames'[n + 1] = f
          /\ \A i \in 1..n : frames'[i] = c[i]
      BY <1>1, <1>3, <2>1, AppendProperties DEF c, f
    <2> QED
      BY <2>1, <2>2 DEF f
  <1>a. Len(frames) \in 1..Len(frames) /\ e \in frames[Len(frames)].todo
    BY <1>1, <1>4 DEF Top
  <1>5. e.from = frames[n].task
    BY <1>2, <1>a DEF EntryInv
  <1>6. Black' = Black
    BY <1>1 DEF Black
  <1>7. StackInv'
    <2> DEFINE R == {frames'[i].task : i \in 1..Len(frames')}
    <2>1. recursion_stack' = R
      <3>1. ASSUME NEW y \in recursion_stack' PROVE y \in R
        <4>1. CASE y = x
          BY <1>4, <4>1
        <4>2. CASE y # x
          <5>1. PICK i \in 1..n : y = frames[i].task
            BY <1>1, <1>2, <3>1, <4>2 DEF StackInv
          <5> QED
            BY <1>4, <5>1
        <4> QED
          BY <4>1, <4>2
      <3>2. ASSUME NEW i \in 1..(n + 1) PROVE frames'[i].task \in recursion_stack'
        <4>1. CASE i = n + 1
          BY <1>1, <1>4, <4>1
        <4>2. CASE i # n + 1
          <5>1. i \in 1..n
            BY <1>4, <4>2
          <5>2. frames'[i].task = frames[i].task
            BY <1>4, <5>1
          <5> QED
            BY <1>1, <1>2, <5>1, <5>2 DEF StackInv
        <4> QED
          BY <4>1, <4>2
      <3> QED
        BY <1>4, <3>1, <3>2
    <2>2. recursion_stack' \subseteq visited'
      BY <1>1, <1>2 DEF StackInv
    <2>3. \A i \in 1..n : frames'[i].task # x
      BY <1>1, <1>2, <1>4 DEF StackInv
    <2>4. \A i, j \in 1..Len(frames') : frames'[i].task = frames'[j].task => i = j
      BY <1>2, <1>4, <2>3 DEF StackInv
    <2>5. \A i \in 1..(Len(frames') - 1) :
              \E d \in edges : d.from = frames'[i].task /\ d.to = frames'[i + 1].task
      BY <1>2, <1>4, <1>5 DEF StackInv
    <2> QED
      BY <1>1, <2>1, <2>2, <2>4, <2>5 DEF StackInv
  <1>8. FrameInv'
    <2> SUFFICES ASSUME NEW i \in 1..(n + 1), NEW d \in edges,
                        d.from = frames'[i].task, d \notin frames'[i].todo
                 PROVE  \/ d.to \in Black
                        \/ i < n + 1 /\ d.to = frames'[i + 1].task
      BY <1>1, <1>4, <1>6 DEF FrameInv
    <2>1. CASE i = n + 1
      BY <1>4, <2>1 DEF OutEdges
    <2>2. CASE i \in 1..(n - 1)
      <3>1. /\ i \in 1..Len(frames) /\ d.from = frames[i].task /\ d \notin frames[i].todo
            /\ i + 1 \in 1..n
        <4>1. i \in 1..n /\ i + 1 \in 1..n /\ i \in 1..(n - 1)
          BY <1>4, <2>2
        <4>2. frames'[i].task = frames[i].task /\ frames'[i].todo = frames[i].todo
          BY <1>4, <4>1
        <4> QED
          BY <4>1, <4>2
      <3>2. d.to \in Black \/ (i < Len(frames) /\ d.to = frames[i + 1].task)
        BY <1>2, <3>1 DEF FrameInv
      <3>3. frames'[i + 1].task = frames[i + 1].task
        BY <1>4, <3>1
      <3> QED
        BY <1>4, <3>2, <3>3
    <2>3. CASE i = n /\ d = e
      BY <1>4, <2>3
    <2>4. CASE i = n /\ d # e
      <3>1. d \notin Top.todo /\ d.from = frames'[n].task
        BY <1>4, <2>4
      <3>2. Len(frames) \in 1..Len(frames) /\ d.from = frames[Len(frames)].task
            /\ d \notin frames[Len(frames)].todo
        BY <1>a, <1>4, <3>1 DEF Top
      <3>3. d.to \in Black \/ Len(frames) < Len(frames)
        BY <1>2, <3>2 DEF FrameInv
      <3> QED
        BY <1>4, <3>3
    <2> QED
      BY <1>4, <2>1, <2>2, <2>3, <2>4
  <1>9. BlackInv'
    BY <1>1, <1>2, <1>6 DEF BlackInv, CyclicSet
  <1>10. EntryInv'
    <2> SUFFICES ASSUME NEW i \in 1..(n + 1), NEW d \in frames'[i].todo
                 PROVE  d.from = frames'[i].task
      BY <1>4 DEF EntryInv
    <2>1. CASE i = n + 1
      BY <1>4, <2>1 DEF OutEdges
    <2>2. CASE i \in 1..(n - 1)
      BY <1>2, <1>4, <2>2 DEF EntryInv
    <2>3. CASE i = n
      <3>1. d \in frames[Len(frames)].todo /\ frames'[n].task = frames[n].task
        BY <1>4, <1>a, <2>3 DEF Top
      <3> QED
        BY <1>2, <1>a, <2>3, <3>1 DEF EntryInv
    <2> QED
      BY <1>4, <2>1, <2>2, <2>3
  <1> QED
    BY <1>1, <1>4, <1>7, <1>8, <1>9, <1>10

\* A complete dependency: only the top frame's list of entries shrinks.
LEMMA SeenStep ==
    ASSUME Inv, NEW e \in edges, DfsSeen(e)
    PROVE  /\ StackInv' /\ EntryInv' /\ FrameInv' /\ BlackInv'
           /\ frames' \in Seq([task : tasks, todo : SUBSET edges])
  <1> DEFINE F == [task : tasks, todo : SUBSET edges]
             n == Len(frames)
  <1>1. /\ frames' = Checked(e) /\ visited' = visited /\ recursion_stack' = recursion_stack
        /\ edges' = edges /\ tasks' = tasks /\ e.to \in Black /\ frames # <<>>
    BY DEF DfsSeen, Black
  <1>2. GraphTypeOK /\ StackInv /\ EntryInv /\ FrameInv /\ BlackInv
    BY DEF Inv, DfsInv, DfsSeen
  <1>3. /\ frames' \in Seq(F) /\ Len(frames') = n /\ n \in Nat \ {0} /\ n \in 1..n
        /\ \A i \in 1..n : frames'[i].task = frames[i].task
        /\ \A i \in 1..(n - 1) : frames'[i].todo = frames[i].todo
        /\ frames'[n].todo = frames[n].todo \ {e}
    <2>1. /\ Checked(e) \in Seq(F) /\ Len(Checked(e)) = n /\ n \in Nat \ {0}
          /\ \A i \in 1..n : Checked(e)[i].task = frames[i].task
          /\ \A i \in 1..(n - 1) : Checked(e)[i].todo = frames[i].todo
          /\ Checked(e)[n].todo = Top.todo \ {e}
      BY <1>1, <1>2, CheckedProperties
    <2>2. n \in 1..n /\ Top.todo = frames[n].todo
      BY <2>1 DEF Top
    <2> HIDE DEF F, n
    <2> QED
      BY <1>1, <2>1, <2>2
  <1>4. Black' = Black
    BY <1>1 DEF Black
  <1>5. \A i \in 1..n : frames'[i].todo \subseteq frames[i].todo
                        /\ frames[i].todo \subseteq frames'[i].todo \cup {e}
    <2> SUFFICES ASSUME NEW i \in 1..n
                 PROVE  /\ frames'[i].todo \subseteq frames[i].todo
                        /\ frames[i].todo \subseteq frames'[i].todo \cup {e}
      OBVIOUS
    <2>1. i = n \/ i \in 1..(n - 1)
      BY <1>3
    <2> QED
      BY <1>3, <2>1
  <1>6. StackInv'
    <2>1. {frames'[i].task : i \in 1..n} = {frames[i].task : i \in 1..n}
      BY <1>3
    <2>2. \A i \in 1..(n - 1) : i \in 1..n /\ i + 1 \in 1..n
      BY <1>3
    <2>3. recursion_stack' = {frames'[i].task : i \in 1..Len(frames')}
      BY <1>1, <1>2, <1>3, <2>1 DEF StackInv
    <2>4. \A i, j \in 1..n : frames'[i].task = frames'[j].task => i = j
      BY <1>2, <1>3 DEF StackInv
    <2>5. \A i \in 1..(n - 1) :
              \E d \in edges : d.from = frames'[i].task /\ d.to = frames'[i + 1].task
      <3> SUFFICES ASSUME NEW i \in 1..(n - 1)
                   PROVE  \E d \in edges : d.from = frames'[i].task /\ d.to = frames'[i + 1].task
        OBVIOUS
      <3>1. \E d \in edges : d.from = frames[i].task /\ d.to = frames[i + 1].task
        BY <1>2 DEF StackInv
      <3>2. frames'[i].task = frames[i].task /\ frames'[i + 1].task = frames[i + 1].task
        BY <1>3, <2>2
      <3> QED
        BY <3>1, <3>2
    <2>6. recursion_stack' \subseteq visited'
      BY <1>1, <1>2 DEF StackInv
    <2> QED
      BY <1>1, <1>3, <2>3, <2>4, <2>5, <2>6 DEF StackInv
  <1>7. EntryInv'
    BY <1>2, <1>3, <1>5 DEF EntryInv
  <1>8. FrameInv'
    <2> SUFFICES ASSUME NEW i \in 1..n, NEW d \in edges,
                        d.from = frames'[i].task, d \notin frames'[i].todo
                 PROVE  \/ d.to \in Black
                        \/ i < n /\ d.to = frames'[i + 1].task
      BY <1>1, <1>3, <1>4 DEF FrameInv
    <2>1. CASE d = e
      BY <1>1, <2>1
    <2>2. CASE d # e
      <3>1. d.from = frames[i].task /\ d \notin frames[i].todo
        BY <1>3, <1>5, <2>2
      <3>2. d.to \in Black \/ (i < Len(frames) /\ d.to = frames[i + 1].task)
        BY <1>2, <3>1 DEF FrameInv
      <3>3. i < n => i + 1 \in 1..n
        BY <1>3
      <3> QED
        BY <1>3, <3>2, <3>3
    <2> QED
      BY <2>1, <2>2
  <1>9. BlackInv'
    BY <1>1, <1>2, <1>4 DEF BlackInv, CyclicSet
  <1> QED
    BY <1>3, <1>6, <1>7, <1>8, <1>9

\* The top call returns: its task is complete, and so are all of its dependencies.
LEMMA ReturnStep ==
    ASSUME Inv, DfsReturn
    PROVE  /\ StackInv' /\ EntryInv' /\ FrameInv' /\ BlackInv'
           /\ frames' \in Seq([task : tasks, todo : SUBSET edges])
  <1> DEFINE F == [task : tasks, todo : SUBSET edges]
             n == Len(frames)
             t == frames[n].task
  <1>1. /\ frames' = SubSeq(frames, 1, n - 1) /\ visited' = visited
        /\ recursion_stack' = recursion_stack \ {t}
        /\ edges' = edges /\ tasks' = tasks /\ frames # <<>> /\ frames[n].todo = {}
    BY DEF DfsReturn, Top
  <1>2. GraphTypeOK /\ StackInv /\ EntryInv /\ FrameInv /\ BlackInv
    BY DEF Inv, DfsInv, DfsReturn
  <1>3. frames \in Seq(F) /\ n \in Nat \ {0} /\ n \in 1..n
    BY <1>1, <1>2, EmptySeq DEF GraphTypeOK
  <1>4. /\ frames' \in Seq(F) /\ Len(frames') = n - 1
        /\ \A i \in 1..(n - 1) : frames'[i] = frames[i] /\ i \in 1..n
    <2> HIDE DEF n, F
    <2>1. 1 \in 1..(n + 1) /\ n - 1 \in 0..n
      BY <1>3
    <2> QED
      <3>1. /\ SubSeq(frames, 1, n - 1) \in Seq(F)
            /\ Len(SubSeq(frames, 1, n - 1)) = IF 1 <= n - 1 THEN (n - 1) - 1 + 1 ELSE 0
            /\ \A i \in 1..((n - 1) - 1 + 1) : SubSeq(frames, 1, n - 1)[i] = frames[1 + i - 1]
        BY <1>3, <2>1, SubSeqProperties DEF n
      <3>2. \A i \in 1..(n - 1) : 1 + i - 1 = i /\ i \in 1..n /\ i \in 1..((n - 1) - 1 + 1)
        BY <1>3
      <3>3. (IF 1 <= n - 1 THEN (n - 1) - 1 + 1 ELSE 0) = n - 1
        BY <1>3
      <3> QED
        BY <1>1, <3>1, <3>2, <3>3
  <1>5. t \in recursion_stack /\ t \in visited
    BY <1>2, <1>3 DEF StackInv
  <1>6. Black' = Black \cup {t} /\ t \notin Black
    BY <1>1, <1>5 DEF Black
  <1>7. \A e \in edges : e.from = t => e.to \in Black
    BY <1>1, <1>2, <1>3 DEF FrameInv
  <1>8. BlackInv'
    <2>1. \A S \in SUBSET (Black \cup {t}) : ~CyclicSet(S, edges)
      BY <1>2, <1>6, <1>7, BlackGrows DEF BlackInv
    <2> QED
      BY <1>1, <1>2, <1>6, <1>7, <2>1 DEF BlackInv, CyclicSet
  <1>9. StackInv'
    <2>1. ASSUME NEW i \in 1..(n - 1) PROVE frames'[i].task \in recursion_stack \ {t}
      <3>1. frames'[i].task = frames[i].task /\ i \in 1..n /\ i # n
        BY <1>3, <1>4
      <3>2. frames[i].task \in recursion_stack
        BY <1>2, <3>1 DEF StackInv
      <3>3. frames[i].task # t
        BY <1>2, <1>3, <3>1 DEF StackInv
      <3> QED
        BY <3>1, <3>2, <3>3
    <2>2. ASSUME NEW y \in recursion_stack \ {t} PROVE \E i \in 1..(n - 1) : y = frames'[i].task
      <3>1. PICK i \in 1..n : y = frames[i].task
        BY <1>2 DEF StackInv
      <3>2. i \in 1..(n - 1)
        BY <1>3, <3>1, <2>2
      <3> QED
        BY <1>4, <3>1, <3>2
    <2>3. recursion_stack' = {frames'[i].task : i \in 1..Len(frames')}
      BY <1>1, <1>4, <2>1, <2>2
    <2>4. \A i, j \in 1..Len(frames') : frames'[i].task = frames'[j].task => i = j
      BY <1>2, <1>4 DEF StackInv
    <2>5. \A i \in 1..(Len(frames') - 1) : i \in 1..(n - 1) /\ i + 1 \in 1..(n - 1)
      BY <1>3, <1>4
    <2>6. \A i \in 1..(Len(frames') - 1) :
              \E d \in edges : d.from = frames'[i].task /\ d.to = frames'[i + 1].task
      BY <1>2, <1>4, <2>5 DEF StackInv
    <2> QED
      BY <1>1, <1>2, <2>3, <2>4, <2>6 DEF StackInv
  <1>10. EntryInv'
    BY <1>2, <1>4 DEF EntryInv
  <1>11. FrameInv'
    <2> SUFFICES ASSUME NEW i \in 1..(n - 1), NEW d \in edges,
                        d.from = frames'[i].task, d \notin frames'[i].todo
                 PROVE  \/ d.to \in Black \cup {t}
                        \/ i < n - 1 /\ d.to = frames'[i + 1].task
      BY <1>1, <1>4, <1>6 DEF FrameInv
    <2>1. i \in 1..n /\ d.from = frames[i].task /\ d \notin frames[i].todo
      BY <1>4
    <2>2. d.to \in Black \/ (i < Len(frames) /\ d.to = frames[i + 1].task)
      BY <1>2, <2>1 DEF FrameInv
    <2>3. CASE i = n - 1
      BY <1>3, <2>2, <2>3
    <2>4. CASE i # n - 1
      <3>1. i < n - 1 /\ i + 1 \in 1..(n - 1)
        BY <1>3, <2>4
      <3> QED
        BY <1>4, <2>2, <3>1
    <2> QED
      BY <2>3, <2>4
  <1> QED
    BY <1>4, <1>8, <1>9, <1>10, <1>11

\* An entry that leads back to the recursion stack: the frames from there to the top
\* are a cycle, it goes through the new entry, and the rollback removes only that one.
LEMMA CycleStep ==
    ASSUME Inv, NEW e \in edges, DfsCycle(e)
    PROVE  Cyclic(edges) /\ edges' = edges \ adding /\ ~Cyclic(edges)'
  <1> DEFINE n == Len(frames)
  <1>1. /\ edges' = Rollback /\ tasks' = tasks /\ frames # <<>>
        /\ e \in frames[n].todo /\ e.to \in recursion_stack
    BY DEF DfsCycle, Top
  <1>2. GraphTypeOK /\ StackInv /\ EntryInv /\ AddingInv
    BY DEF Inv, DfsInv, DfsCycle
  <1>3. n \in Nat \ {0} /\ n \in 1..n
    BY <1>1, <1>2, EmptySeq DEF GraphTypeOK
  <1>4. PICK k \in 1..n : e.to = frames[k].task
    BY <1>1, <1>2 DEF StackInv
  <1> DEFINE C == {frames[i].task : i \in k..n}
  <1>5. Cyclic(edges)
    <2>1. \A i \in k..n : i \in 1..n /\ frames[i].task \in recursion_stack
      BY <1>2, <1>3, <1>4 DEF StackInv
    <2>2. C \in SUBSET tasks
      BY <1>2, <2>1 DEF GraphTypeOK
    <2>3. frames[k].task \in C
      BY <1>3, <1>4
    <2>4. ASSUME NEW i \in k..n
          PROVE  \E d \in edges : d.from = frames[i].task /\ d.to \in C
      <3>1. CASE i = n
        <4>1. e.from = frames[n].task
          BY <1>1, <1>2, <1>3 DEF EntryInv
        <4> QED
          BY <1>4, <2>3, <3>1, <4>1
      <3>2. CASE i # n
        <4>1. i \in 1..(n - 1) /\ i + 1 \in k..n
          BY <1>3, <1>4, <3>2
        <4>2. PICK d \in edges : d.from = frames[i].task /\ d.to = frames[i + 1].task
          BY <1>2, <4>1 DEF StackInv
        <4> QED
          BY <4>1, <4>2
      <3> QED
        BY <3>1, <3>2
    <2>5. CyclicSet(C, edges)
      BY <2>3, <2>4 DEF CyclicSet
    <2> QED
      BY <2>2, <2>5 DEF Cyclic
  <1>6. PICK a \in edges : adding = {a}
    BY <1>2 DEF AddingInv
  <1>7. \A d \in edges \ {a} : ~(d.from = a.from /\ d.to = a.to)
    <2> SUFFICES ASSUME NEW d \in edges \ {a}, d.from = a.from, d.to = a.to
                 PROVE  FALSE
      OBVIOUS
    <2>1. PICK S \in SUBSET tasks : CyclicSet(S, edges)
      BY <1>5 DEF Cyclic
    <2>2. CyclicSet(S, edges \ {a})
      BY <2>1 DEF CyclicSet
    <2> QED
      BY <1>2, <1>6, <2>1, <2>2 DEF AddingInv, Cyclic
  <1>8. Rollback = edges \ adding
    BY <1>6, <1>7 DEF Rollback
  <1>9. ~Cyclic(edges)'
    BY <1>1, <1>2, <1>8 DEF AddingInv, Cyclic, CyclicSet
  <1> QED
    BY <1>1, <1>5, <1>8, <1>9

\* The search is over and every task is complete: there is no cycle.
LEMMA DoneStep ==
    ASSUME Inv, DfsDone
    PROVE  ~Cyclic(edges)'
  <1>1. /\ mode = "dfs" /\ frames = <<>> /\ tasks \subseteq visited
        /\ edges' = edges /\ tasks' = tasks
    BY DEF DfsDone
  <1>2. StackInv /\ BlackInv
    BY <1>1 DEF Inv, DfsInv
  <1>3. recursion_stack = {}
    BY <1>1, <1>2 DEF StackInv
  <1>4. tasks \subseteq Black
    BY <1>1, <1>3 DEF Black
  <1> QED
    BY <1>1, <1>2, <1>4 DEF BlackInv, Cyclic, CyclicSet

-----------------------------------------------------------------------------
(* Kahn's algorithm                                                        *)

\* The tasks queued in any order are each queued once.
LEMMA ArrangementProperties ==
    ASSUME NEW S, IsFiniteSet(S), NEW s \in Arrangements(S)
    PROVE  s \in Seq(S) /\ Elements(s) = S /\ Distinct(s)
  <1> DEFINE n == Cardinality(S)
  <1>1. n \in Nat
    BY FS_CardinalityType
  <1>2. s \in [1..n -> S] /\ Elements(s) = S
    BY DEF Arrangements
  <1>3. s \in Seq(S) /\ Len(s) = n
    BY <1>1, <1>2
  <1>4. s \in Surjection(1..n, S)
    BY <1>2, <1>3 DEF Surjection, Elements
  <1>5. IsFiniteSet(1..n) /\ Cardinality(1..n) = n
    BY <1>1, FS_Interval
  <1>6. s \in Injection(1..n, S)
    BY <1>4, <1>5, FS_SurjSameCardinalityImpliesInj
  <1>7. Distinct(s)
    BY <1>2, <1>3, <1>6 DEF Injection, IsInjective, Distinct
  <1> QED
    BY <1>2, <1>3, <1>7

\* The first in-degrees and the first queue.
LEMMA StartStep ==
    ASSUME Inv, KahnStart
    PROVE  KahnInv' /\ in_degree' \in [TaskIds -> Nat] /\ queue' \in Seq(tasks)
  <1> DEFINE Z == {t \in tasks : InitialDegree(t) = 0}
  <1>1. /\ in_degree' = [t \in TaskIds |-> Cardinality(OutEdges(t))] /\ queue' \in Arrangements(Z)
        /\ order' = <<>> /\ tasks' = tasks /\ edges' = edges
    BY DEF KahnStart, InitialDegree
  <1>2. GraphTypeOK
    BY DEF Inv
  <1>3. IsFiniteSet(Z)
    BY <1>2, GraphAssumption, FS_Subset DEF GraphTypeOK
  <1>4. queue' \in Seq(Z) /\ Que' = Z /\ Distinct(queue')
    BY <1>1, <1>3, ArrangementProperties DEF Que, Elements
  <1>5. queue' \in Seq(tasks)
    BY <1>4
  <1>6. \A t \in TaskIds : IsFiniteSet(OutEdges(t)) /\ Cardinality(OutEdges(t)) \in Nat
    BY <1>2, EdgesFinite DEF OutEdges
  <1>7. Out' = {} /\ Len(order') = 0
    BY <1>1 DEF Out, Elements
  <1>8. \A t \in TaskIds : Open(t)' = OutEdges(t)
    BY <1>1, <1>7 DEF Open, OutEdges
  <1>9. Z \in SUBSET TaskIds /\ tasks \in SUBSET TaskIds
    BY <1>2 DEF GraphTypeOK
  <1>10. \A t \in Z : Open(t)' = {}
    BY <1>6, <1>8, <1>9, FS_EmptySet DEF InitialDegree
  <1>11. \A t \in TaskIds : in_degree'[t] = Cardinality(Open(t)')
    BY <1>1, <1>8
  <1>12. \A t \in tasks : in_degree'[t] = 0 => t \in Z
    BY <1>1, <1>9 DEF InitialDegree
  <1>13. Distinct(order') /\ OrderIsTopological'
    BY <1>7 DEF Distinct, OrderIsTopological
  <1>14. KahnInv'
    BY <1>1, <1>4, <1>7, <1>10, <1>11, <1>12, <1>13 DEF KahnInv, Distinct
  <1> QED
    BY <1>1, <1>5, <1>6, <1>14

\* What the elements of a sequence are after the operations Kahn's loop uses.
LEMMA ElementsOfTail ==
    ASSUME NEW T, NEW s \in Seq(T), s # <<>>, Distinct(s)
    PROVE  /\ Elements(Tail(s)) = Elements(s) \ {Head(s)} /\ Distinct(Tail(s))
           /\ Head(s) \in Elements(s) /\ Tail(s) \in Seq(T)
  <1> DEFINE n == Len(s)
  <1>1. /\ n \in Nat \ {0} /\ Tail(s) \in Seq(T) /\ Len(Tail(s)) = n - 1
        /\ \A i \in 1..(n - 1) : Tail(s)[i] = s[i + 1]
        /\ Head(s) = s[1]
    BY EmptySeq, HeadTailProperties
  <1>2. \A i \in 1..(n - 1) : i + 1 \in 1..n /\ i + 1 # 1
    BY <1>1
  <1>3. 1 \in 1..n
    BY <1>1
  <1>4. \A i \in 1..n : i # 1 => i - 1 \in 1..(n - 1) /\ (i - 1) + 1 = i
    BY <1>1
  <1>5. Elements(Tail(s)) \subseteq Elements(s) \ {Head(s)}
    BY <1>1, <1>2, <1>3 DEF Elements, Distinct
  <1>6. Elements(s) \ {Head(s)} \subseteq Elements(Tail(s))
    <2> SUFFICES ASSUME NEW i \in 1..n, s[i] # Head(s)
                 PROVE  \E j \in 1..(n - 1) : Tail(s)[j] = s[i]
      BY <1>1 DEF Elements
    <2>1. i # 1
      BY <1>1
    <2> QED
      BY <1>1, <1>4, <2>1
  <1>7. Distinct(Tail(s))
    BY <1>1, <1>2 DEF Distinct
  <1> QED
    BY <1>1, <1>3, <1>5, <1>6, <1>7 DEF Elements

\* Two queues without a common task, one after the other.
LEMMA ElementsOfConcat ==
    ASSUME NEW T, NEW s \in Seq(T), NEW r \in Seq(T), Distinct(s), Distinct(r),
           Elements(s) \cap Elements(r) = {}
    PROVE  /\ Elements(s \o r) = Elements(s) \cup Elements(r) /\ Distinct(s \o r)
           /\ s \o r \in Seq(T)
  <1> DEFINE m == Len(s)
             n == Len(r)
             c == s \o r
  <1>1. /\ m \in Nat /\ n \in Nat /\ c \in Seq(T) /\ Len(c) = m + n
        /\ \A i \in 1..(m + n) : c[i] = IF i <= m THEN s[i] ELSE r[i - m]
    BY ConcatProperties
  <1> HIDE DEF c
  <1>2. \A i \in 1..m : i \in 1..(m + n) /\ c[i] = s[i]
    BY <1>1
  <1>3. \A i \in 1..n : m + i \in 1..(m + n) /\ c[m + i] = r[i]
    <2> SUFFICES ASSUME NEW i \in 1..n PROVE m + i \in 1..(m + n) /\ c[m + i] = r[i]
      OBVIOUS
    <2>1. m + i \in 1..(m + n) /\ ~(m + i <= m) /\ (m + i) - m = i
      BY <1>1
    <2> QED
      BY <1>1, <2>1
  <1>4. \A i \in 1..(m + n) : i \in 1..m \/ (i - m \in 1..n /\ m + (i - m) = i)
    BY <1>1
  <1>5. Elements(c) = Elements(s) \cup Elements(r)
    <2>1. Elements(c) \subseteq Elements(s) \cup Elements(r)
      <3> SUFFICES ASSUME NEW i \in 1..(m + n) PROVE c[i] \in Elements(s) \cup Elements(r)
        BY <1>1 DEF Elements
      <3>1. CASE i \in 1..m
        BY <1>2, <3>1 DEF Elements
      <3>2. CASE i - m \in 1..n /\ m + (i - m) = i
        <4>1. c[i] = r[i - m]
          BY <1>3, <3>2
        <4> QED
          BY <3>2, <4>1 DEF Elements
      <3> QED
        BY <1>4, <3>1, <3>2
    <2>2. Elements(s) \subseteq Elements(c)
      BY <1>1, <1>2 DEF Elements
    <2>3. Elements(r) \subseteq Elements(c)
      <3> SUFFICES ASSUME NEW i \in 1..n PROVE r[i] \in Elements(c)
        BY DEF Elements
      <3>1. c[m + i] = r[i] /\ m + i \in 1..Len(c)
        BY <1>1, <1>3
      <3> QED
        BY <3>1 DEF Elements
    <2> QED
      BY <2>1, <2>2, <2>3
  <1>6. Distinct(c)
    <2> SUFFICES ASSUME NEW i \in 1..(m + n), NEW j \in 1..(m + n), c[i] = c[j]
                 PROVE  i = j
      BY <1>1 DEF Distinct
    <2>1. CASE i \in 1..m /\ j \in 1..m
      BY <1>2, <2>1 DEF Distinct
    <2>2. CASE i \notin 1..m /\ j \notin 1..m
      <3>1. i - m \in 1..n /\ j - m \in 1..n
        BY <1>4, <2>2
      <3>2. r[i - m] = r[j - m]
        BY <1>3, <1>4, <2>2
      <3>3. i - m = j - m
        BY <3>1, <3>2 DEF Distinct
      <3> QED
        BY <1>1, <3>3
    <2>3. CASE i \in 1..m /\ j \notin 1..m
      <3>1. s[i] = r[j - m] /\ j - m \in 1..n
        BY <1>2, <1>3, <1>4, <2>3
      <3> QED
        BY <2>3, <3>1 DEF Elements
    <2>4. CASE i \notin 1..m /\ j \in 1..m
      <3>1. r[i - m] = s[j] /\ i - m \in 1..n
        BY <1>2, <1>3, <1>4, <2>4
      <3> QED
        BY <2>4, <3>1 DEF Elements
    <2> QED
      BY <2>1, <2>2, <2>3, <2>4
  <1> QED
    BY <1>1, <1>5, <1>6 DEF c

\* One round of Kahn's loop.
LEMMA PopStep ==
    ASSUME Inv, KahnPop
    PROVE  /\ KahnInv' /\ in_degree' \in [TaskIds -> Nat]
           /\ queue' \in Seq(tasks) /\ order' \in Seq(tasks)
  <1> DEFINE c == Head(queue)
             n == Len(order)
  <1>1. PICK s \in Arrangements(Freed(c)) : queue' = Tail(queue) \o s
    BY DEF KahnPop
  <1>2. /\ in_degree' = [t \in TaskIds |-> in_degree[t] - Cardinality(Between(t, c))]
        /\ order' = Append(order, c) /\ queue # <<>>
        /\ tasks' = tasks /\ edges' = edges /\ mode = "kahn"
    BY DEF KahnPop, Lowered
  <1>3. GraphTypeOK /\ KahnInv
    BY DEF Inv
  <1>4. /\ tasks \in SUBSET TaskIds /\ queue \in Seq(tasks) /\ order \in Seq(tasks)
        /\ in_degree \in [TaskIds -> Nat]
    BY <1>3 DEF GraphTypeOK
  <1>5. /\ Distinct(order) /\ Distinct(queue) /\ Out \cap Que = {}
        /\ \A t \in TaskIds : in_degree[t] = Cardinality(Open(t))
        /\ \A t \in Out \cup Que : Open(t) = {}
        /\ \A t \in tasks : in_degree[t] = 0 => t \in Out \cup Que
    BY <1>2, <1>3 DEF KahnInv
  <1>6. /\ Elements(Tail(queue)) = Que \ {c} /\ Distinct(Tail(queue))
        /\ c \in Que /\ Tail(queue) \in Seq(tasks)
    BY <1>2, <1>4, <1>5, ElementsOfTail DEF Que
  <1>7. c \in tasks /\ c \notin Out /\ Open(c) = {}
    <2>1. c \in tasks
      BY <1>2, <1>4, HeadTailProperties
    <2> QED
      BY <1>5, <1>6, <2>1
  <1>8. \A t \in TaskIds : Between(t, c) \subseteq Open(t)
    BY <1>7 DEF Between, Open, OutEdges
  <1>9. /\ Len(order') = n + 1 /\ n \in Nat /\ order'[n + 1] = c /\ order' \in Seq(tasks)
        /\ \A i \in 1..n : order'[i] = order[i]
    BY <1>2, <1>4, <1>7, AppendProperties
  <1>10. Out' = Out \cup {c}
    <2>1. \A i \in 1..(n + 1) : i \in 1..n \/ i = n + 1
      BY <1>9
    <2>2. \A i \in 1..n : i \in 1..(n + 1)
      BY <1>9
    <2>3. n + 1 \in 1..(n + 1)
      BY <1>9
    <2>4. Elements(order') \subseteq Elements(order) \cup {c}
      BY <1>9, <2>1 DEF Elements
    <2>5. Elements(order) \cup {c} \subseteq Elements(order')
      BY <1>9, <2>2, <2>3 DEF Elements
    <2>6. Elements(order)' = Elements(order')
      BY DEF Elements
    <2> QED
      BY <2>4, <2>5, <2>6 DEF Out
  <1>11. \A t \in TaskIds : Open(t)' = Open(t) \ Between(t, c)
    BY <1>2, <1>10 DEF Open, OutEdges, Between
  <1>12. \A t \in TaskIds : IsFiniteSet(Open(t)) /\ IsFiniteSet(Open(t)')
    BY <1>3, <1>11, EdgesFinite DEF Open, OutEdges
  <1>13. \A t \in TaskIds : in_degree'[t] = Cardinality(Open(t)') /\ in_degree'[t] \in Nat
    <2> SUFFICES ASSUME NEW t \in TaskIds
                 PROVE  in_degree'[t] = Cardinality(Open(t)') /\ in_degree'[t] \in Nat
      OBVIOUS
    <2>1. Open(t) \cap Between(t, c) = Between(t, c)
      BY <1>8
    <2>2. Cardinality(Open(t) \ Between(t, c)) = Cardinality(Open(t)) - Cardinality(Between(t, c))
      BY <1>12, <2>1, FS_Difference
    <2>3. Cardinality(Open(t)') \in Nat
      BY <1>12, FS_CardinalityType
    <2> QED
      BY <1>2, <1>5, <1>11, <2>2, <2>3
  <1>14. in_degree' \in [TaskIds -> Nat]
    BY <1>2, <1>13
  <1>15. \A t \in Freed(c) : t \in tasks /\ Between(t, c) # {} /\ in_degree'[t] = 0
    BY <1>2, <1>4 DEF Freed, Lowered
  <1>16. \A t \in Freed(c) : Open(t)' = {}
    BY <1>4, <1>12, <1>13, <1>15, FS_EmptySet
  <1>17. Freed(c) \cap (Out \cup Que) = {}
    BY <1>4, <1>5, <1>8, <1>15
  <1>18. IsFiniteSet(Freed(c)) /\ Freed(c) \in SUBSET tasks
    BY <1>4, <1>15, GraphAssumption, FS_Subset
  <1>19. s \in Seq(Freed(c)) /\ Elements(s) = Freed(c) /\ Distinct(s)
    BY <1>1, <1>18, ArrangementProperties
  <1>20. s \in Seq(tasks)
    BY <1>18, <1>19
  <1>21. /\ Elements(queue') = (Que \ {c}) \cup Freed(c)
         /\ Distinct(queue') /\ queue' \in Seq(tasks)
    <2> DEFINE q == Tail(queue)
    <2>1. q \in Seq(tasks) /\ Distinct(q) /\ Elements(q) = Que \ {c}
      BY <1>6
    <2>2. Elements(q) \cap Elements(s) = {}
      BY <1>17, <1>19, <2>1
    <2> HIDE DEF q
    <2>3. /\ Elements(q \o s) = Elements(q) \cup Elements(s)
          /\ Distinct(q \o s) /\ q \o s \in Seq(tasks)
      BY <1>19, <1>20, <2>1, <2>2, ElementsOfConcat
    <2>4. queue' = q \o s
      BY <1>1 DEF q
    <2> QED
      BY <1>19, <2>1, <2>3, <2>4
  <1>22. Que' = (Que \ {c}) \cup Freed(c)
    BY <1>21 DEF Que, Elements
  <1>23. Out' \cap Que' = {}
    BY <1>5, <1>6, <1>10, <1>17, <1>22
  <1>24. Distinct(order')
    <2> SUFFICES ASSUME NEW i \in 1..(n + 1), NEW j \in 1..(n + 1), order'[i] = order'[j]
                 PROVE  i = j
      BY <1>9 DEF Distinct
    <2>1. \A l \in 1..n : order'[l] \in Out
      BY <1>9 DEF Out, Elements
    <2>2. CASE i \in 1..n /\ j \in 1..n
      BY <1>5, <1>9, <2>2 DEF Distinct
    <2>3. CASE i = n + 1 /\ j \in 1..n
      BY <1>7, <1>9, <2>1, <2>3
    <2>4. CASE i \in 1..n /\ j = n + 1
      BY <1>7, <1>9, <2>1, <2>4
    <2> QED
      BY <1>9, <2>2, <2>3, <2>4
  <1>25. \A t \in Out' \cup Que' : Open(t)' = {}
    <2>1. \A t \in Out \cup Que : t \in TaskIds
      BY <1>4 DEF Out, Que, Elements
    <2> QED
      BY <1>5, <1>6, <1>10, <1>11, <1>16, <1>22, <2>1
  <1>26. \A t \in tasks : in_degree'[t] = 0 => t \in Out' \cup Que'
    <2> SUFFICES ASSUME NEW t \in tasks, in_degree'[t] = 0 PROVE t \in Out' \cup Que'
      OBVIOUS
    <2>1. CASE Between(t, c) = {}
      <3>1. Open(t)' = Open(t)
        BY <1>4, <1>11, <2>1
      <3>2. in_degree[t] = 0
        BY <1>4, <1>5, <1>13, <3>1
      <3> QED
        BY <1>5, <1>10, <1>22, <3>2
    <2>2. CASE Between(t, c) # {}
      <3>1. t \in Freed(c)
        BY <1>2, <1>4, <2>2 DEF Freed, Lowered
      <3> QED
        BY <1>22, <3>1
    <2> QED
      BY <2>1, <2>2
  <1>27. OrderIsTopological'
    <2>1. ASSUME NEW i \in 1..(n + 1), NEW e \in edges, e.from = order'[i]
          PROVE  \E j \in 1..(i - 1) : order'[j] = e.to
      <3>1. CASE i \in 1..n
        <4>1. PICK j \in 1..(i - 1) : order[j] = e.to
          BY <1>2, <1>3, <1>9, <2>1, <3>1 DEF KahnInv, OrderIsTopological, OutEdges
        <4>2. j \in 1..n
          BY <1>9, <3>1
        <4> QED
          BY <1>9, <4>1, <4>2
      <3>2. CASE i = n + 1
        <4>1. e.to \in Out
          BY <1>7, <1>9, <2>1, <3>2 DEF Open, OutEdges
        <4>2. PICK j \in 1..n : order[j] = e.to
          BY <4>1 DEF Out, Elements
        <4> QED
          BY <1>9, <3>2, <4>2
      <3> QED
        BY <1>9, <3>1, <3>2
    <2> QED
      BY <1>2, <1>9, <1>24, <2>1 DEF OrderIsTopological, OutEdges, Distinct
  <1>28. KahnInv'
    BY <1>13, <1>2, <1>21, <1>23, <1>24, <1>25, <1>26, <1>27 DEF KahnInv, Distinct
  <1> QED
    BY <1>9, <1>14, <1>21, <1>28

\* When the queue runs dry every task is out: the others would be a cycle.
LEMMA KahnDoneStep ==
    ASSUME Inv, KahnDone
    PROVE  verdict' = "Ordered"
  <1> DEFINE n == Len(order)
  <1>1. mode = "kahn" /\ queue = <<>>
    BY DEF KahnDone
  <1>2. GraphTypeOK /\ KahnInv /\ ~Cyclic(edges)
    BY <1>1 DEF Inv, AlwaysAcyclic
  <1>3. Que = {}
    BY <1>1 DEF Que, Elements
  <1>4. Out \subseteq tasks /\ n \in Nat /\ order \in [1..n -> tasks]
    BY <1>2 DEF GraphTypeOK, Out, Elements
  <1>5. tasks \subseteq Out
    <2> SUFFICES ASSUME tasks \ Out # {} PROVE FALSE
      OBVIOUS
    <2>1. ASSUME NEW t \in tasks \ Out
          PROVE  \E e \in edges : e.from = t /\ e.to \in tasks \ Out
      <3>1. in_degree[t] # 0 /\ in_degree[t] = Cardinality(Open(t))
        BY <1>1, <1>2, <1>3 DEF KahnInv, GraphTypeOK
      <3>2. Open(t) # {}
        BY <3>1, FS_EmptySet
      <3>3. PICK e \in edges : e.from = t /\ e.to \notin Out
        BY <3>2 DEF Open, OutEdges
      <3> QED
        BY <1>2, <3>3 DEF GraphTypeOK
    <2>2. CyclicSet(tasks \ Out, edges)
      BY <2>1 DEF CyclicSet
    <2>3. tasks \ Out \in SUBSET tasks
      OBVIOUS
    <2> QED
      BY <1>2, <2>2, <2>3 DEF Cyclic
  <1>6. Cardinality(tasks) = n
    <2>1. Out = tasks
      BY <1>4, <1>5
    <2>2. order \in Surjection(1..n, tasks)
      BY <1>4, <2>1 DEF Surjection, Out, Elements
    <2>3. order \in Injection(1..n, tasks)
      BY <1>1, <1>2, <1>4 DEF KahnInv, Distinct, Injection, IsInjective
    <2>4. IsFiniteSet(1..n) /\ Cardinality(1..n) = n
      BY <1>4, FS_Interval
    <2>5. ExistsBijection(1..n, tasks)
      BY <2>2, <2>3 DEF ExistsBijection, Bijection
    <2> QED
      BY <2>4, <2>5, FS_Bijection
  <1> QED
    BY <1>6 DEF KahnDone

-----------------------------------------------------------------------------
(* The invariant                                                           *)

\* The empty graph.
LEMMA InvInit == GraphInit => Inv
  <1> SUFFICES ASSUME GraphInit PROVE Inv
    OBVIOUS
  <1>1. GraphTypeOK
    BY DEF GraphInit, GraphTypeOK
  <1>2. ~Cyclic(edges)
    BY DEF GraphInit, Cyclic, CyclicSet
  <1> QED
    BY <1>1, <1>2 DEF GraphInit, Inv, ModeInv, DfsInv, KahnInv, AlwaysAcyclic

\* A step of the search that stays in it leaves the graph alone.
LEMMA SearchStep ==
    ASSUME Inv, mode = "dfs", UNCHANGED <<tasks, edges, mode, adding, verdict, kahnVars>>,
           visited' \in SUBSET tasks, recursion_stack' \in SUBSET tasks,
           StackInv', EntryInv', FrameInv', BlackInv',
           frames' \in Seq([task : tasks, todo : SUBSET edges])
    PROVE  Inv'
  <1>1. GraphTypeOK'
    BY DEF Inv, GraphTypeOK, kahnVars
  <1>2. AddingInv'
    BY DEF Inv, DfsInv, AddingInv, Cyclic, CyclicSet
  <1> QED
    BY <1>1, <1>2 DEF Inv, ModeInv, DfsInv, KahnInv, AlwaysAcyclic, kahnVars

\* A new task has no entries, so it closes no cycle.
LEMMA AddTaskStep ==
    ASSUME Inv, NEW t \in TaskIds, AddTask(t)
    PROVE  Inv'
  <1>1. /\ tasks' = tasks \cup {t} /\ edges' = edges /\ mode = "idle" /\ mode' = "idle"
        /\ GraphTypeOK /\ ModeInv /\ ~Cyclic(edges)
    BY DEF Inv, AddTask, AlwaysAcyclic
  <1>2. edges = edges' /\ tasks \subseteq tasks'
    BY <1>1
  <1>3. GraphTypeOK'
    <2>1. edges' \in SUBSET [from : tasks', to : tasks', slot : Slots]
      BY <1>1 DEF GraphTypeOK
    <2>2. frames' = <<>> /\ queue' = <<>> /\ order' = <<>>
      BY <1>1 DEF AddTask, ModeInv, dfsVars, kahnVars
    <2> QED
      BY <1>1, <2>1, <2>2 DEF GraphTypeOK, AddTask, dfsVars, kahnVars
  <1>4. ~Cyclic(edges)'
    <2> SUFFICES ASSUME NEW S \in SUBSET tasks', CyclicSet(S, edges) PROVE FALSE
      BY <1>1 DEF Cyclic, CyclicSet
    <2>1. S \in SUBSET tasks
      BY <1>1 DEF CyclicSet, GraphTypeOK
    <2> QED
      BY <1>1, <2>1 DEF Cyclic
  <1>5. ModeInv'
    BY <1>1 DEF ModeInv, AddTask, dfsVars, kahnVars
  <1> QED
    BY <1>1, <1>3, <1>4, <1>5 DEF Inv, DfsInv, KahnInv, AlwaysAcyclic

\* The search starts on an acyclic graph with one more entry.
LEMMA AddDependencyStep ==
    ASSUME Inv, NEW t \in TaskIds, NEW d \in TaskIds, NEW n \in Slots, AddDependency(t, d, n)
    PROVE  Inv'
  <1> DEFINE a == [from |-> t, to |-> d, slot |-> n]
  <1>1. /\ adding' = {a} /\ edges' = edges \cup {a} /\ tasks' = tasks /\ mode' = "dfs"
        /\ mode = "idle" /\ t \in tasks /\ d \in tasks /\ \A e \in edges : e.slot # n
        /\ UNCHANGED <<verdict, dfsVars, kahnVars>>
    BY DEF AddDependency
  <1>2. /\ GraphTypeOK /\ ~Cyclic(edges) /\ visited' = {} /\ recursion_stack' = {} /\ frames' = <<>>
        /\ in_degree' = [u \in TaskIds |-> 0] /\ queue' = <<>> /\ order' = <<>>
    BY <1>1 DEF Inv, AlwaysAcyclic, ModeInv, dfsVars, kahnVars
  <1>3. a \in [from : tasks, to : tasks, slot : Slots] /\ a \notin edges
    BY <1>1
  <1>4. GraphTypeOK'
    BY <1>1, <1>2, <1>3 DEF GraphTypeOK
  <1>5. edges' \ adding' = edges
    BY <1>1, <1>3
  <1>6. AddingInv'
    BY <1>1, <1>2, <1>5 DEF AddingInv, Cyclic, CyclicSet
  <1>7. Black' = {} /\ Len(frames') = 0
    BY <1>2 DEF Black
  <1>8. StackInv' /\ EntryInv' /\ FrameInv'
    BY <1>2, <1>7 DEF StackInv, EntryInv, FrameInv
  <1>9. BlackInv'
    BY <1>7 DEF BlackInv, CyclicSet
  <1> QED
    BY <1>1, <1>2, <1>4, <1>6, <1>8, <1>9 DEF Inv, ModeInv, DfsInv, KahnInv, AlwaysAcyclic

\* Where the search ends, with a smaller graph or the same one.
LEMMA OverStep ==
    ASSUME Inv, mode = "dfs", DfsOver, UNCHANGED <<tasks, kahnVars>>, edges' \in SUBSET edges,
           verdict' \in {"Ok", "Cycle"}, ~Cyclic(edges)'
    PROVE  Inv'
  <1>1. GraphTypeOK'
    BY DEF Inv, GraphTypeOK, DfsOver, kahnVars
  <1>2. ModeInv'
    BY DEF Inv, ModeInv, DfsOver, kahnVars
  <1> QED
    BY <1>1, <1>2 DEF Inv, DfsOver, DfsInv, KahnInv, AlwaysAcyclic

\* Every step keeps the invariant.
LEMMA InvStep == Inv /\ [GraphNext]_graphVars => Inv'
  <1> SUFFICES ASSUME Inv, [GraphNext]_graphVars PROVE Inv'
    OBVIOUS
  <1>1. ASSUME NEW t \in TaskIds, AddTask(t) PROVE Inv'
    BY <1>1, AddTaskStep
  <1>2. ASSUME NEW t \in TaskIds, NEW d \in TaskIds, AddDependencyUnknown(t, d) PROVE Inv'
    <2>1. /\ UNCHANGED <<tasks, edges, mode, adding, dfsVars, kahnVars>> /\ mode = "idle"
          /\ verdict' = "UnknownTask"
      BY <1>2 DEF AddDependencyUnknown
    <2>2. GraphTypeOK' /\ ModeInv'
      BY <2>1 DEF Inv, GraphTypeOK, ModeInv, dfsVars, kahnVars
    <2> QED
      BY <2>1, <2>2 DEF Inv, DfsInv, KahnInv, AlwaysAcyclic, Cyclic, CyclicSet
  <1>3. ASSUME NEW t \in TaskIds, NEW d \in TaskIds, NEW n \in Slots, AddDependency(t, d, n) PROVE Inv'
    BY <1>3, AddDependencyStep
  <1>4. ASSUME NEW t \in TaskIds, DfsRoot(t) PROVE Inv'
    <2>1. StackInv' /\ EntryInv' /\ FrameInv' /\ BlackInv'
          /\ frames' \in Seq([task : tasks, todo : SUBSET edges])
      BY <1>4, RootStep
    <2>2. /\ mode = "dfs" /\ UNCHANGED <<tasks, edges, mode, adding, verdict, kahnVars>>
          /\ visited' \in SUBSET tasks /\ recursion_stack' \in SUBSET tasks
      BY <1>4 DEF DfsRoot, Visit, Inv, GraphTypeOK
    <2> QED
      BY <2>1, <2>2, SearchStep
  <1>5. ASSUME NEW e \in edges, DfsDescend(e) PROVE Inv'
    <2>1. StackInv' /\ EntryInv' /\ FrameInv' /\ BlackInv'
          /\ frames' \in Seq([task : tasks, todo : SUBSET edges])
      BY <1>5, DescendStep
    <2>2. /\ mode = "dfs" /\ UNCHANGED <<tasks, edges, mode, adding, verdict, kahnVars>>
          /\ visited' \in SUBSET tasks /\ recursion_stack' \in SUBSET tasks
      BY <1>5 DEF DfsDescend, Visit, Inv, GraphTypeOK
    <2> QED
      BY <2>1, <2>2, SearchStep
  <1>6. ASSUME NEW e \in edges, DfsSeen(e) PROVE Inv'
    <2>1. StackInv' /\ EntryInv' /\ FrameInv' /\ BlackInv'
          /\ frames' \in Seq([task : tasks, todo : SUBSET edges])
      BY <1>6, SeenStep
    <2>2. /\ mode = "dfs" /\ UNCHANGED <<tasks, edges, mode, adding, verdict, kahnVars>>
          /\ visited' \in SUBSET tasks /\ recursion_stack' \in SUBSET tasks
      BY <1>6 DEF DfsSeen, Inv, GraphTypeOK
    <2> QED
      BY <2>1, <2>2, SearchStep
  <1>7. ASSUME NEW e \in edges, DfsCycle(e) PROVE Inv'
    <2>1. edges' = edges \ adding /\ ~Cyclic(edges)'
      BY <1>7, CycleStep
    <2> QED
      BY <1>7, <2>1, OverStep DEF DfsCycle
  <1>8. ASSUME DfsReturn PROVE Inv'
    <2>1. StackInv' /\ EntryInv' /\ FrameInv' /\ BlackInv'
          /\ frames' \in Seq([task : tasks, todo : SUBSET edges])
      BY <1>8, ReturnStep
    <2>2. /\ mode = "dfs" /\ UNCHANGED <<tasks, edges, mode, adding, verdict, kahnVars>>
          /\ visited' \in SUBSET tasks /\ recursion_stack' \in SUBSET tasks
      BY <1>8 DEF DfsReturn, Inv, GraphTypeOK
    <2> QED
      BY <2>1, <2>2, SearchStep
  <1>9. ASSUME DfsDone PROVE Inv'
    <2>1. ~Cyclic(edges)'
      BY <1>9, DoneStep
    <2> QED
      BY <1>9, <2>1, OverStep DEF DfsDone
  <1>10. ASSUME KahnStart PROVE Inv'
    <2>1. KahnInv' /\ in_degree' \in [TaskIds -> Nat] /\ queue' \in Seq(tasks)
      BY <1>10, StartStep
    <2>2. /\ mode = "idle" /\ mode' = "kahn" /\ order' = <<>>
          /\ UNCHANGED <<tasks, edges, adding, verdict, dfsVars>>
      BY <1>10 DEF KahnStart
    <2>3. GraphTypeOK' /\ ModeInv'
      BY <2>1, <2>2 DEF Inv, GraphTypeOK, ModeInv, dfsVars
    <2> QED
      BY <2>1, <2>2, <2>3 DEF Inv, DfsInv, AlwaysAcyclic, Cyclic, CyclicSet
  <1>11. ASSUME KahnPop PROVE Inv'
    <2>1. /\ KahnInv' /\ in_degree' \in [TaskIds -> Nat]
          /\ queue' \in Seq(tasks) /\ order' \in Seq(tasks)
      BY <1>11, PopStep
    <2>2. mode = "kahn" /\ UNCHANGED <<tasks, edges, mode, adding, verdict, dfsVars>>
      BY <1>11 DEF KahnPop
    <2>3. GraphTypeOK' /\ ModeInv'
      BY <2>1, <2>2 DEF Inv, GraphTypeOK, ModeInv, dfsVars
    <2> QED
      BY <2>1, <2>2, <2>3 DEF Inv, DfsInv, AlwaysAcyclic, Cyclic, CyclicSet
  <1>12. ASSUME KahnDone PROVE Inv'
    <2>1. /\ mode = "kahn" /\ mode' = "idle" /\ verdict' = "Ordered"
          /\ in_degree' = [t \in TaskIds |-> 0] /\ queue' = <<>> /\ order' = <<>>
          /\ UNCHANGED <<tasks, edges, adding, dfsVars>>
      BY <1>12, KahnDoneStep DEF KahnDone
    <2>2. GraphTypeOK' /\ ModeInv'
      BY <2>1 DEF Inv, GraphTypeOK, ModeInv, dfsVars
    <2> QED
      BY <2>1, <2>2 DEF Inv, DfsInv, KahnInv, AlwaysAcyclic, Cyclic, CyclicSet
  <1>13. ASSUME UNCHANGED graphVars PROVE Inv'
    <2>1. UNCHANGED <<tasks, edges, mode, adding, verdict, visited, recursion_stack, frames,
                      in_degree, queue, order>>
      BY <1>13 DEF graphVars
    <2>2. GraphTypeOK' /\ ModeInv' /\ AlwaysAcyclic'
      BY <2>1 DEF Inv, GraphTypeOK, ModeInv, AlwaysAcyclic, Cyclic, CyclicSet
    <2>3. StackInv => StackInv'
      BY <2>1 DEF StackInv
    <2>4. EntryInv => EntryInv'
      BY <2>1 DEF EntryInv
    <2>5. FrameInv => FrameInv'
      BY <2>1 DEF FrameInv, Black
    <2>6. BlackInv => BlackInv'
      BY <2>1 DEF BlackInv, Black, CyclicSet
    <2>7. AddingInv => AddingInv'
      BY <2>1 DEF AddingInv, Cyclic, CyclicSet
    <2>8. DfsInv'
      BY <2>1, <2>3, <2>4, <2>5, <2>6, <2>7 DEF Inv, DfsInv
    <2>9. Out' = Out /\ Que' = Que /\ \A t : Open(t)' = Open(t)
      BY <2>1 DEF Out, Que, Open, OutEdges, Elements
    <2>10. OrderIsTopological => OrderIsTopological'
      BY <2>1 DEF OrderIsTopological, OutEdges
    <2>11. KahnInv'
      BY <2>1, <2>9, <2>10 DEF Inv, KahnInv, Distinct
    <2> QED
      BY <2>2, <2>8, <2>11 DEF Inv
  <1> QED
    BY <1>1, <1>2, <1>3, <1>4, <1>5, <1>6, <1>7, <1>8, <1>9, <1>10, <1>11, <1>12, <1>13
       DEF GraphNext, Dfs, Kahn

\* The invariant holds in every reachable state.
LEMMA InvHolds == GraphSpec => []Inv
  BY InvInit, InvStep, PTL DEF GraphSpec

-----------------------------------------------------------------------------
\* Every field of the graph and of the two searches keeps its type: both ends of an
\* entry are tasks of the graph, and no in-degree drops below zero (usize in the code).
THEOREM GraphTypeCorrect == GraphSpec => []GraphTypeOK
  <1>1. Inv => GraphTypeOK
    BY DEF Inv
  <1> QED
    BY <1>1, InvHolds, PTL

\* add_dependency leaves the graph acyclic, whatever is added in whatever order.
THEOREM Acyclicity == GraphSpec => []AlwaysAcyclic
  <1>1. Inv => AlwaysAcyclic
    BY DEF Inv
  <1> QED
    BY <1>1, InvHolds, PTL

\* add_dependency refuses an entry only if it closes a cycle, and then removes that
\* entry and no other.
THEOREM Refusals == GraphSpec => RefusalJustified
  <1> DEFINE A == mode = "dfs" /\ mode' = "idle" /\ verdict' = "Cycle" =>
                     Cyclic(edges) /\ edges' = edges \ adding
  <1>1. Inv /\ [GraphNext]_graphVars => [A]_graphVars
    <2> SUFFICES ASSUME Inv, GraphNext, mode = "dfs", mode' = "idle", verdict' = "Cycle"
                 PROVE  Cyclic(edges) /\ edges' = edges \ adding
      OBVIOUS
    <2>1. \E e \in edges : DfsCycle(e)
      BY DEF GraphNext, Dfs, Kahn, AddTask, AddDependencyUnknown, AddDependency, DfsRoot,
             DfsDescend, DfsSeen, DfsReturn, DfsDone, KahnStart, KahnPop, KahnDone
    <2> QED
      BY <2>1, CycleStep
  <1> QED
    BY <1>1, InvHolds, PTL DEF GraphSpec, RefusalJustified

\* The order resolve_execution_order builds is a topological order without repetitions.
THEOREM TopologicalOrder == GraphSpec => []OrderIsTopological
  <1>1. Inv => OrderIsTopological
    BY DEF Inv, KahnInv, OrderIsTopological
  <1> QED
    BY <1>1, InvHolds, PTL

\* resolve_execution_order never reports a cycle: every graph it is given is ordered.
THEOREM OrderAlwaysFound == GraphSpec => OrderFound
  <1> DEFINE A == mode = "kahn" /\ mode' = "idle" => verdict' = "Ordered"
  <1>1. Inv /\ [GraphNext]_graphVars => [A]_graphVars
    <2> SUFFICES ASSUME Inv, GraphNext, mode = "kahn", mode' = "idle"
                 PROVE  verdict' = "Ordered"
      OBVIOUS
    <2>1. KahnDone
      BY DEF GraphNext, Dfs, Kahn, AddTask, AddDependencyUnknown, AddDependency, DfsRoot, DfsCycle,
             DfsDescend, DfsSeen, DfsReturn, DfsDone, KahnStart, KahnPop
    <2> QED
      BY <2>1, KahnDoneStep
  <1> QED
    BY <1>1, InvHolds, PTL DEF GraphSpec, OrderFound

==============================================================================
