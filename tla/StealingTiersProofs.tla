------------------------- MODULE StealingTiersProofs -------------------------
(***************************************************************************)
(* Theorems about the work-stealing scheduler with its resolver, for any   *)
(* batches, dependencies and workers, and about the two-tier cache, for    *)
(* any callers, keys, sizes and numbers of puts.                           *)
(***************************************************************************)
EXTENDS MCStealingTiers, SequenceTheorems, FiniteSetTheorems, FunctionTheorems, TLAPS

-----------------------------------------------------------------------------
(* Queues, sequences whose entries are distinct.                             *)

Entries(s) == {s[k] : k \in 1..Len(s)}
Distinct(s) == \A i, j \in 1..Len(s) : s[i] = s[j] => i = j

\* push adds its entry at the end.
LEMMA PushEntry ==
  ASSUME NEW S, NEW s \in Seq(S), NEW x \in S
  PROVE  /\ Append(s, x) \in Seq(S) /\ Len(Append(s, x)) = Len(s) + 1
         /\ Entries(Append(s, x)) = Entries(s) \cup {x}
         /\ Distinct(s) /\ x \notin Entries(s) => Distinct(Append(s, x))
<1>1. /\ Len(s) \in Nat /\ Len(Append(s, x)) = Len(s) + 1 /\ Append(s, x) \in Seq(S)
      /\ \A i \in 1..Len(s) : Append(s, x)[i] = s[i]
      /\ Append(s, x)[Len(s) + 1] = x
  BY AppendProperties, LenProperties
<1>2. ASSUME NEW y \in Entries(s) \cup {x} PROVE y \in Entries(Append(s, x))
  <2>1. CASE y = x
    BY <1>1, <2>1 DEF Entries
  <2>2. CASE y \in Entries(s)
    <3>1. PICK i \in 1..Len(s) : y = s[i]  BY <2>2 DEF Entries
    <3> QED  BY <1>1, <3>1 DEF Entries
  <2> QED  BY <2>1, <2>2
<1>3. ASSUME NEW y \in Entries(Append(s, x)) PROVE y \in Entries(s) \cup {x}
  BY <1>1 DEF Entries
<1>4. ASSUME Distinct(s), x \notin Entries(s) PROVE Distinct(Append(s, x))
  BY <1>1, <1>4 DEF Distinct, Entries
<1> QED  BY <1>1, <1>2, <1>3, <1>4

\* pop takes the first entry out.
LEMMA PopEntry ==
  ASSUME NEW S, NEW s \in Seq(S), s # <<>>, Distinct(s)
  PROVE  /\ Tail(s) \in Seq(S) /\ Len(Tail(s)) = Len(s) - 1 /\ Head(s) \in S
         /\ Head(s) \in Entries(s)
         /\ Entries(Tail(s)) = Entries(s) \ {Head(s)}
         /\ Distinct(Tail(s))
<1>1. /\ Len(s) \in Nat \ {0} /\ Head(s) = s[1] /\ Head(s) \in S
      /\ Len(Tail(s)) = Len(s) - 1 /\ Tail(s) \in Seq(S)
      /\ \A i \in 1..Len(Tail(s)) : Tail(s)[i] = s[i + 1]
  BY EmptySeq, HeadTailProperties
<1>2. Head(s) \in Entries(s)
  BY <1>1 DEF Entries
<1>3. ASSUME NEW x \in Entries(Tail(s)) PROVE x \in Entries(s) \ {Head(s)}
  BY <1>1 DEF Entries, Distinct
<1>4. ASSUME NEW x \in Entries(s) \ {Head(s)} PROVE x \in Entries(Tail(s))
  <2>1. PICK i \in 1..Len(s) : x = s[i]  BY DEF Entries
  <2>2. i - 1 \in 1..Len(Tail(s)) /\ Tail(s)[i - 1] = x  BY <1>1, <2>1
  <2> QED  BY <2>2 DEF Entries
<1>5. Distinct(Tail(s))
  BY <1>1 DEF Distinct
<1> QED  BY <1>1, <1>2, <1>3, <1>4, <1>5

-----------------------------------------------------------------------------
(* WorkStealing: the inductive invariant.                                    *)

\* No task id is handed to the scheduler twice.  It keeps one sender per id, and
\* the resolver never forgets what it has completed: a second task with the id of
\* an earlier one takes its sender away, and is submitted in no particular order.
FreshIds == \A a, b \in 1..Len(Batches) : a # b => Batches[a] \cap Batches[b] = {}

StealTypes ==
  /\ TypeOK
  /\ deps \in [Ids -> SUBSET Ids] /\ balancing \in BOOLEAN
  /\ outcome \in [1..Len(Batches) -> {"none", "Ok", "Err"}]
  /\ queue \in [Queues -> Seq(Subs)]
  /\ log \in Seq(Subs)

Logged == Entries(log)

\* What has been submitted belongs to the batches up to the current one; of that one
\* everything but todo.  What is ready depends on nothing that is still to be done.
ResolverInv ==
  /\ rpc # "idle" => /\ batch <= Len(Batches)
                     /\ ~Circular(Tasks) /\ ~UnknownDependency(Tasks)
                     /\ nodes = todo /\ todo \subseteq Tasks
                     /\ \A t \in Tasks \ todo : [batch |-> batch, id |-> t] \in Logged
  /\ rpc \in {"idle", "loop"} => ready = {}
  /\ ready \subseteq todo
  /\ \A t \in ready : deps[t] \cap todo = {}
  /\ completed \subseteq {s.id : s \in Logged}
  /\ \A s \in Logged : /\ s.id \in Batches[s.batch] /\ s.batch <= batch
                       /\ s.batch = batch => rpc # "idle" /\ s.id \notin todo
  /\ \A b \in 1..Len(Batches) : /\ outcome[b] # "none" => b < batch
                                /\ outcome[b] = "Err" => \A s \in Logged : s.batch # b
                                /\ outcome[b] = "Ok" => \A t \in Batches[b] : [batch |-> b, id |-> t] \in Logged

\* What a task depends on is in the log before it.
LogOrdered ==
  \A k \in 1..Len(log) : \A t \in deps[log[k].id] :
     \E j \in 1..(k - 1) : log[j] = [batch |-> log[k].batch, id |-> t]

\* A submission whose receiver waits is in one queue or in one worker's hands, and is
\* the one its id's sender belongs to.
PlaceInv ==
  /\ \A q \in Queues : Distinct(queue[q]) /\ \A s \in Entries(queue[q]) : receiver[s] = "waiting"
  /\ \A q, r \in Queues : q # r => Entries(queue[q]) \cap Entries(queue[r]) = {}
  /\ \A w \in W : job[w] # NoSub => receiver[job[w]] = "waiting"
  /\ \A v, w \in W : v # w /\ job[v] = job[w] => job[v] = NoSub
  /\ \A q \in Queues, w \in W : job[w] \notin Entries(queue[q])
  /\ \A s \in Subs : receiver[s] = "waiting" => \/ \E q \in Queues : s \in Entries(queue[q])
                                                \/ \E w \in W : job[w] = s
  /\ \A w \in W : wpc[w] = "execute" <=> job[w] # NoSub
  /\ \A s \in Subs : receiver[s] = "waiting" <=> channels[s.id] = s
  /\ \A i \in Ids : channels[i] # NoSub => channels[i].id = i
  /\ \A s \in Subs : receiver[s] # "none" => s \in Logged

Active == {w \in W : wpc[w] \notin {"new", "exited"}}

\* active_workers counts the workers that run.
StopInv ==
  /\ shutdown <=> spc # "idle"
  /\ active_workers = Cardinality(Active)
  /\ ShutdownQuiesces

StealInv == StealTypes /\ ResolverInv /\ LogOrdered /\ PlaceInv /\ StopInv

LEMMA NoSubNotSub == NoSub \notin Subs
  BY DEF NoSub, Subs

LEMMA WorkersFinite == IsFiniteSet(W) /\ Cardinality(W) = N /\ W \subseteq Queues /\ Global \in Queues
<1>1. N \in Nat \ {0} /\ 0 \in Int /\ N - 1 \in Int
  BY WorkStealingAssumption
<1>2. IsFiniteSet(0..(N - 1)) /\ Cardinality(0..(N - 1)) = IF 0 > N - 1 THEN 0 ELSE N - 1 - 0 + 1
  BY <1>1, FS_Interval
<1> QED  BY <1>1, <1>2 DEF W, Queues, Global

\* Worker w looks at all queues.
LEMMA PlaceIsQueue == \A w \in W, k \in 0..N : Place(w, k) \in Queues
<1> SUFFICES ASSUME NEW w \in W, NEW k \in 0..N PROVE Place(w, k) \in Queues
  OBVIOUS
<1>1. N \in Nat \ {0} /\ w + k - 1 \in Int
  BY WorkStealingAssumption DEF W
<1>2. (w + k - 1) % N \in 0..(N - 1)
  BY <1>1
<1> QED  BY <1>1, <1>2 DEF Place, W, Queues, Global

LEMMA MembersAreEntries == \A q : Members(q) = Entries(queue[q])
  BY DEF Members, Entries

-----------------------------------------------------------------------------
(* WorkStealing: types.                                                      *)

LEMMA NewSub ==
  ASSUME NEW t \in Ids, batch \in 1..Len(Batches)
  PROVE  [batch |-> batch, id |-> t] \in Subs
  BY DEF Subs

\* The types that the actions of the client and of the workers change.
LEMMA SubmitTypes ==
  ASSUME StealTypes, rpc # "idle" => batch <= Len(Batches),
         NEW t \in Ids, NEW q \in Queues, SubmitPush(t, q)
  PROVE  StealTypes'
<1>1. Len(Batches) \in Nat /\ N \in Nat \ {0}
  BY WorkStealingAssumption, LenProperties
<1>2. batch \in 1..Len(Batches)
  BY <1>1 DEF StealTypes, TypeOK, SubmitPush
<1> DEFINE s == [batch |-> batch, id |-> t]
<1>3. s \in Subs
  BY <1>2, NewSub
<1>4. queue' \in [Queues -> Seq(Subs)] /\ log' \in Seq(Subs) /\ channels' \in [Ids -> Subs \cup {NoSub}]
  BY <1>3, PushEntry DEF StealTypes, TypeOK, SubmitPush
<1>5. receiver' \in [Subs -> {"none", "waiting", "ok", "err", "closed"}]
  BY DEF StealTypes, TypeOK, SubmitPush
<1>6. {todo', ready', nodes', completed'} \subseteq SUBSET Ids
  BY DEF StealTypes, TypeOK, SubmitPush
<1>7. \A r \in Queues : (Members(r))' \subseteq Subs
  BY <1>4, ElementOfSeq DEF Members
<1> HIDE DEF s
<1> QED  BY <1>4, <1>5, <1>6, <1>7 DEF StealTypes, TypeOK, SubmitPush, workerVars, stopVars

LEMMA ActiveCounted ==
  ASSUME WorkStealingAssumption
  PROVE  IsFiniteSet(Active) /\ Cardinality(Active) \in 0..N
<1>1. Active \in SUBSET W
  BY DEF Active
<1>2. Cardinality(Active) <= N /\ IsFiniteSet(Active)
  BY <1>1, WorkersFinite, FS_Subset
<1>3. Cardinality(Active) \in Nat
  BY <1>2, FS_CardinalityType
<1>4. N \in Nat
  BY WorkStealingAssumption
<1> QED  BY <1>2, <1>3, <1>4

\* active_workers counts the active workers after a step as before it.
LEMMA StopStep ==
  ASSUME StealTypes, StopInv, [Next]_vars
  PROVE  StopInv'
<1> USE WorkStealingAssumption
<1> DEFINE A == Active
<1>0. /\ wpc \in [W -> {"new", "loop", "find", "execute", "wait", "exited"}]
      /\ IsFiniteSet(A) /\ Cardinality(A) \in 0..N /\ active_workers = Cardinality(A)
      /\ A = {w \in W : wpc[w] \notin {"new", "exited"}}
      /\ A' = {w \in W : wpc'[w] \notin {"new", "exited"}}
      /\ (shutdown <=> spc # "idle")
      /\ spc = "Ok" => \A w \in W : wpc[w] \notin {"find", "execute", "wait"}
  BY ActiveCounted DEF StealTypes, TypeOK, StopInv, Active, ShutdownQuiesces
<1> HIDE DEF A
<1> DEFINE Rest == /\ A' = A /\ UNCHANGED stopVars
                   /\ spc = "Ok" => \A w \in W : wpc'[w] \notin {"find", "execute", "wait"}
<1>1. ASSUME Rest PROVE StopInv'
  BY <1>0, <1>1 DEF StopInv, ShutdownQuiesces, stopVars, A
<1>2. ASSUME UNCHANGED <<wpc, stopVars>> PROVE Rest
  BY <1>0, <1>2
<1>3. CASE ResolveRefused \/ ResolveStart \/ ResolveRound \/ ResolveDone \/ UNCHANGED vars
  BY <1>1, <1>2, <1>3 DEF ResolveRefused, ResolveStart, ResolveRound, ResolveDone, vars, workerVars
<1>4. CASE \E t \in Ids, q \in Queues : SubmitPush(t, q)
  <2>1. UNCHANGED <<wpc, stopVars>>
    BY <1>4 DEF SubmitPush, workerVars
  <2> QED  BY <1>1, <1>2, <2>1
<1>5. CASE SubmitNotify
  <2>1. Rest
    BY <1>0, <1>5 DEF SubmitNotify, Notify
  <2> QED  BY <1>1, <2>1
<1>6. CASE Start
  <2>1. A' = W
    BY <1>0, <1>6 DEF Start
  <2>2. active_workers' = Cardinality(A')
    BY <2>1, <1>6, WorkersFinite DEF Start
  <2> QED  BY <1>0, <1>6, <2>2 DEF Start, StopInv, ShutdownQuiesces, A
<1>7. ASSUME NEW w \in W, LoopHead(w) PROVE StopInv'
  <2>1. CASE shutdown
    <3>1. A' = A \ {w} /\ w \in A
      BY <1>0, <1>7, <2>1 DEF LoopHead
    <3>2. Cardinality(A') = Cardinality(A) - 1
      BY <1>0, <3>1, FS_RemoveElement, ZenonT(40)
    <3> QED  BY <1>0, <1>7, <2>1, <3>2 DEF LoopHead, StopInv, ShutdownQuiesces, A
  <2>2. CASE ~shutdown
    <3>1. Rest
      BY <1>0, <1>7, <2>2 DEF LoopHead, stopVars
    <3> QED  BY <1>1, <3>1
  <2> QED  BY <2>1, <2>2
<1>8. ASSUME NEW w \in W, Take(w) \/ LookOn(w) \/ FoundNone(w) \/ IdleTimeout(w) \/ End(w) PROVE StopInv'
  <2>1. Rest
    BY <1>0, <1>8 DEF Take, LookOn, FoundNone, IdleTimeout, End, Report
  <2> QED  BY <1>1, <2>1
<1>9. CASE ShutdownStart
  BY <1>0, <1>9 DEF ShutdownStart, StopInv, ShutdownQuiesces, A
<1>10. CASE ShutdownOk
  <2>1. A = {}
    BY <1>0, <1>10, FS_EmptySet DEF ShutdownOk
  <2>2. A' = A
    BY <1>0, <1>10 DEF ShutdownOk, workerVars
  <2>3. \A w \in W : wpc'[w] \in {"new", "exited"}
    BY <1>0, <2>1, <2>2, <1>10 DEF ShutdownOk, workerVars
  <2> QED  BY <1>0, <1>10, <2>2, <2>3 DEF ShutdownOk, StopInv, ShutdownQuiesces, A
<1>11. CASE ShutdownTimeout
  BY <1>0, <1>11 DEF ShutdownTimeout, workerVars, StopInv, ShutdownQuiesces, A
<1> QED  BY <1>3, <1>4, <1>5, <1>6, <1>7, <1>8, <1>9, <1>10, <1>11 DEF Next, Resolve, Work

LEMMA ActiveBounded == ASSUME StopInv' PROVE active_workers' \in 0..N
<1>1. Active' \in SUBSET W
  BY DEF Active
<1>2. Cardinality(Active') <= N /\ IsFiniteSet(Active')
  BY <1>1, WorkersFinite, FS_Subset
<1>3. Cardinality(Active') \in Nat
  BY <1>2, FS_CardinalityType
<1> QED  BY <1>2, <1>3, WorkStealingAssumption DEF StopInv

LEMMA TypeStep ==
  ASSUME StealTypes, StopInv', rpc # "idle" => batch <= Len(Batches), [Next]_vars
  PROVE  StealTypes'
<1> USE DEF StealTypes, TypeOK
<1>1. Len(Batches) \in Nat /\ N \in Nat \ {0} /\ active_workers' \in 0..N
  BY WorkStealingAssumption, LenProperties, ActiveBounded
<1>2. ASSUME UNCHANGED queue PROVE \A q \in Queues : (Members(q))' \subseteq Subs
  BY <1>2 DEF Members
<1>3. CASE UNCHANGED vars
  BY <1>2, <1>3 DEF vars, resolverVars, workerVars, stopVars, Members
<1>4. CASE ResolveRefused
  BY <1>1, <1>2, <1>4 DEF ResolveRefused, workerVars, stopVars
<1>5. CASE ResolveStart
  <2>1. Tasks \in SUBSET Ids
    BY <1>1, <1>5, WorkStealingAssumption, ElementOfSeq DEF ResolveStart, Tasks
  <2> QED  BY <1>1, <1>2, <1>5, <2>1 DEF ResolveStart, workerVars, stopVars
<1>6. CASE ResolveRound
  <2>1. ready' \in SUBSET Ids
    BY <1>6 DEF ResolveRound, Ready
  <2> QED  BY <1>1, <1>2, <1>6, <2>1 DEF ResolveRound, workerVars, stopVars
<1>7. CASE ResolveDone
  BY <1>1, <1>2, <1>7 DEF ResolveDone, workerVars, stopVars
<1>8. CASE \E t \in Ids, q \in Queues : SubmitPush(t, q)
  BY <1>8, SubmitTypes
<1>9. CASE SubmitNotify
  <2>1. wpc' \in [W -> {"new", "loop", "find", "execute", "wait", "exited"}] /\ permit' \in BOOLEAN
    BY <1>9 DEF SubmitNotify, Notify
  <2> QED  BY <1>1, <1>2, <1>9, <2>1 DEF SubmitNotify, stopVars
<1>10. CASE Start
  BY <1>1, <1>2, <1>10 DEF Start, resolverVars
<1>11. ASSUME NEW w \in W, LoopHead(w) PROVE StealTypes'
  <2>1. pos' \in [W -> 0..(N + 1)]
    BY <1>1, <1>11 DEF LoopHead
  <2>2. wpc' \in [W -> {"new", "loop", "find", "execute", "wait", "exited"}]
    BY <1>11 DEF LoopHead
  <2> QED  BY <1>1, <1>2, <1>11, <2>1, <2>2 DEF LoopHead, resolverVars
<1>12. ASSUME NEW w \in W, Take(w) PROVE StealTypes'
  <2>1. Seen(w) \in Queues /\ queue[Seen(w)] \in Seq(Subs) /\ queue[Seen(w)] # <<>>
    BY <1>1, <1>12, PlaceIsQueue DEF Take, Seen
  <2>2. Head(queue[Seen(w)]) \in Subs /\ Tail(queue[Seen(w)]) \in Seq(Subs)
    BY <2>1, HeadTailProperties
  <2>3. queue' \in [Queues -> Seq(Subs)] /\ job' \in [W -> Subs \cup {NoSub}]
    BY <1>12, <2>1, <2>2 DEF Take
  <2>4. \A r \in Queues : (Members(r))' \subseteq Subs
    BY <2>3, ElementOfSeq DEF Members
  <2>5. wpc' \in [W -> {"new", "loop", "find", "execute", "wait", "exited"}]
    BY <1>12 DEF Take
  <2> QED  BY <1>1, <1>12, <2>3, <2>4, <2>5 DEF Take, resolverVars, stopVars
<1>13. ASSUME NEW w \in W, LookOn(w) PROVE StealTypes'
  <2>1. pos' \in [W -> 0..(N + 1)]
    BY <1>1, <1>13 DEF LookOn
  <2> QED  BY <1>1, <1>2, <1>13, <2>1 DEF LookOn, resolverVars, stopVars
<1>14. ASSUME NEW w \in W, FoundNone(w) \/ IdleTimeout(w) PROVE StealTypes'
  <2>1. wpc' \in [W -> {"new", "loop", "find", "execute", "wait", "exited"}]
    BY <1>14 DEF FoundNone, IdleTimeout
  <2>2. permit' \in BOOLEAN
    BY <1>14 DEF FoundNone, IdleTimeout
  <2>3. UNCHANGED <<deps, balancing, resolverVars, queue, channels, receiver, pos, job, stopVars, log>>
    BY <1>14 DEF FoundNone, IdleTimeout
  <2> QED  BY <1>1, <1>2, <2>1, <2>2, <2>3 DEF resolverVars, stopVars
<1>15. ASSUME NEW w \in W, NEW r \in {"ok", "err"}, Report(w, r) PROVE StealTypes'
  <2>1. receiver' \in [Subs -> {"none", "waiting", "ok", "err", "closed"}]
    BY <1>15 DEF Report
  <2>2. channels' \in [Ids -> Subs \cup {NoSub}]
    BY <1>15 DEF Report
  <2>3. job' \in [W -> Subs \cup {NoSub}] /\ wpc' \in [W -> {"new", "loop", "find", "execute", "wait", "exited"}]
    BY <1>15 DEF Report
  <2> QED  BY <1>1, <1>2, <1>15, <2>1, <2>2, <2>3 DEF Report, resolverVars, stopVars
<1>16. CASE ShutdownStart
  <2>1. wpc' \in [W -> {"new", "loop", "find", "execute", "wait", "exited"}] /\ permit' \in BOOLEAN
    BY <1>16 DEF ShutdownStart
  <2> QED  BY <1>1, <1>2, <1>16, <2>1 DEF ShutdownStart, resolverVars
<1>17. CASE ShutdownOk \/ ShutdownTimeout
  BY <1>1, <1>2, <1>17 DEF ShutdownOk, ShutdownTimeout, resolverVars, workerVars
<1> QED  BY <1>3, <1>4, <1>5, <1>6, <1>7, <1>8, <1>9, <1>10, <1>11, <1>12, <1>13, <1>14, <1>15, <1>16, <1>17
         DEF Next, Resolve, Work, End

-----------------------------------------------------------------------------
(* WorkStealing: the resolver.                                               *)

LEMMA LoggedSubs == ASSUME StealTypes PROVE Logged \subseteq Subs
  BY ElementOfSeq, LenProperties DEF StealTypes, Logged, Entries

\* While the resolver is at work, what it has completed is not what it has to do:
\* an id of this batch was in no earlier one.
LEMMA CompletedIsDone ==
  ASSUME FreshIds, StealTypes, ResolverInv, rpc # "idle"
  PROVE  completed \cap todo = {}
<1> SUFFICES ASSUME NEW t \in completed, t \in todo PROVE FALSE
  OBVIOUS
<1>1. PICK s \in Logged : s.id = t
  BY DEF ResolverInv
<1>2. s \in Subs
  BY LoggedSubs
<1>3. s.batch \in 1..Len(Batches)
  BY <1>2 DEF Subs
<1>4. batch \in 1..Len(Batches)
  BY LenProperties, WorkStealingAssumption DEF StealTypes, TypeOK, ResolverInv
<1>5. t \in Batches[s.batch] /\ t \in Batches[batch]
  BY <1>1 DEF ResolverInv, Tasks
<1>6. s.batch = batch
  BY <1>3, <1>4, <1>5 DEF FreshIds
<1> QED  BY <1>1, <1>6 DEF ResolverInv

\* While there is something to do something is ready: the dependencies have no cycle.
LEMMA SomethingReady ==
  ASSUME FreshIds, StealTypes, ResolverInv, rpc = "loop", todo # {}
  PROVE  Ready # {} /\ Ready \subseteq todo /\ \A t \in Ready : deps[t] \cap todo = {}
<1>1. nodes = todo /\ todo \subseteq Tasks /\ ~Circular(Tasks) /\ completed \cap todo = {}
  BY CompletedIsDone DEF ResolverInv
<1>2. PICK t \in todo : deps[t] \cap todo = {}
  BY <1>1 DEF Circular
<1>3. t \in Ready
  BY <1>1, <1>2 DEF Ready
<1> QED  BY <1>1, <1>3 DEF Ready

\* The log grows by one submission.
LEMMA LogGrows ==
  ASSUME StealTypes, NEW s \in Subs, log' = Append(log, s)
  PROVE  /\ Logged' = Logged \cup {s}
         /\ Len(log') = Len(log) + 1 /\ Len(log) \in Nat /\ log'[Len(log) + 1] = s
         /\ \A k \in 1..Len(log) : log'[k] = log[k]
<1>1. log \in Seq(Subs)
  BY DEF StealTypes
<1>2. Entries(Append(log, s)) = Entries(log) \cup {s}
  BY <1>1, PushEntry
<1>3. Logged' = Entries(log')
  BY DEF Logged, Entries
<1>4. Entries(log') = Entries(Append(log, s))
  OBVIOUS
<1> QED  BY <1>1, <1>2, <1>3, <1>4, AppendProperties, LenProperties DEF Logged

\* What a step of a worker or of shutdown leaves alone.
LEMMA ResolverRests ==
  ASSUME ResolverInv, LogOrdered, UNCHANGED <<deps, resolverVars, log>>
  PROVE  ResolverInv' /\ LogOrdered'
  BY DEF ResolverInv, LogOrdered, resolverVars, Logged, Entries, Tasks, Circular, UnknownDependency

LEMMA RoundStep ==
  ASSUME FreshIds, StealTypes, ResolverInv, LogOrdered,
         ResolveRefused \/ ResolveStart \/ ResolveRound \/ ResolveDone \/ SubmitNotify
  PROVE  ResolverInv' /\ LogOrdered'
<1>0. /\ Len(Batches) \in Nat /\ batch \in Nat \ {0}
      /\ outcome \in [1..Len(Batches) -> {"none", "Ok", "Err"}]
  BY WorkStealingAssumption, LenProperties DEF StealTypes, TypeOK
<1>1. UNCHANGED <<deps, log>>
  BY DEF ResolveRefused, ResolveStart, ResolveRound, ResolveDone, SubmitNotify
<1>2. LogOrdered' /\ Logged' = Logged
  BY <1>1 DEF LogOrdered, Logged, Entries
<1>3. \A s \in Logged : s.batch \in 1..Len(Batches)
  BY LoggedSubs DEF Subs
<1>4. CASE ResolveRefused
  <2>1. \A b \in 1..Len(Batches) : outcome'[b] = IF b = batch THEN "Err" ELSE outcome[b]
    BY <1>0, <1>4 DEF ResolveRefused
  <2>2. \A s \in Logged : s.batch # batch
    BY <1>4 DEF ResolveRefused, ResolverInv
  <2>3. \A s \in Logged : /\ s.id \in Batches[s.batch] /\ s.batch <= batch'
                          /\ s.batch # batch'
    BY <1>0, <1>3, <1>4 DEF ResolveRefused, ResolverInv
  <2> QED  BY <1>0, <1>2, <1>4, <2>1, <2>2, <2>3 DEF ResolveRefused, ResolverInv
<1>5. CASE ResolveStart
  <2>1. Tasks' = Tasks /\ Circular(Tasks)' = Circular(Tasks) /\ UnknownDependency(Tasks)' = UnknownDependency(Tasks)
    BY <1>1, <1>5 DEF ResolveStart, Tasks, Circular, UnknownDependency
  <2> QED  BY <1>0, <1>2, <1>5, <2>1 DEF ResolveStart, ResolverInv
<1>6. CASE ResolveRound
  <2>1. Tasks' = Tasks /\ Circular(Tasks)' = Circular(Tasks) /\ UnknownDependency(Tasks)' = UnknownDependency(Tasks)
    BY <1>1, <1>6 DEF ResolveRound, Tasks, Circular, UnknownDependency
  <2>2. ready' \subseteq todo' /\ \A t \in ready' : deps[t] \cap todo' = {}
    BY <1>6, SomethingReady DEF ResolveRound
  <2> QED  BY <1>0, <1>1, <1>2, <1>6, <2>1, <2>2 DEF ResolveRound, ResolverInv
<1>7. CASE ResolveDone
  <2>1. \A b \in 1..Len(Batches) : outcome'[b] = IF b = batch THEN "Ok" ELSE outcome[b]
    BY <1>0, <1>7 DEF ResolveDone
  <2>2. \A t \in Batches[batch] : [batch |-> batch, id |-> t] \in Logged
    BY <1>7 DEF ResolveDone, ResolverInv, Tasks
  <2>3. \A s \in Logged : /\ s.id \in Batches[s.batch] /\ s.batch <= batch'
                          /\ s.batch # batch'
    BY <1>0, <1>3, <1>7 DEF ResolveDone, ResolverInv
  <2> QED  BY <1>0, <1>1, <1>2, <1>7, <2>1, <2>2, <2>3 DEF ResolveDone, ResolverInv
<1>8. CASE SubmitNotify
  <2>1. Tasks' = Tasks /\ Circular(Tasks)' = Circular(Tasks) /\ UnknownDependency(Tasks)' = UnknownDependency(Tasks)
    BY <1>1, <1>8 DEF SubmitNotify, Tasks, Circular, UnknownDependency
  <2> QED  BY <1>0, <1>1, <1>2, <1>8, <2>1 DEF SubmitNotify, ResolverInv
<1> QED  BY <1>4, <1>5, <1>6, <1>7, <1>8

\* A task submitted is new to the log, and what it depends on is there.
LEMMA SubmitFacts ==
  ASSUME FreshIds, StealTypes, ResolverInv, NEW t \in Ids, NEW q \in Queues, SubmitPush(t, q)
  PROVE  /\ batch \in 1..Len(Batches) /\ t \in Tasks
         /\ \A s \in Logged : s.id # t
         /\ \A d \in deps[t] : [batch |-> batch, id |-> d] \in Logged
<1>1. /\ batch \in 1..Len(Batches) /\ t \in todo /\ t \in Tasks /\ deps[t] \cap todo = {}
      /\ ~UnknownDependency(Tasks)
  BY LenProperties, WorkStealingAssumption DEF StealTypes, TypeOK, ResolverInv, SubmitPush
<1>2. deps[t] \subseteq Tasks \ todo
  BY <1>1 DEF UnknownDependency
<1>3. \A d \in deps[t] : [batch |-> batch, id |-> d] \in Logged
  BY <1>2 DEF ResolverInv, SubmitPush
<1>4. ASSUME NEW s \in Logged, s.id = t PROVE FALSE
  <2>1. s.batch \in 1..Len(Batches)
    BY LoggedSubs DEF Subs
  <2>2. s.batch = batch
    BY <1>1, <1>4, <2>1 DEF FreshIds, ResolverInv, Tasks
  <2> QED  BY <1>1, <1>4, <2>2 DEF ResolverInv
<1> QED  BY <1>1, <1>3, <1>4

LEMMA SubmitStep ==
  ASSUME FreshIds, StealTypes, ResolverInv, LogOrdered,
         NEW t \in Ids, NEW q \in Queues, SubmitPush(t, q)
  PROVE  ResolverInv' /\ LogOrdered'
<1> DEFINE s == [batch |-> batch, id |-> t]
<1>1. /\ batch \in 1..Len(Batches) /\ t \in Tasks /\ s \in Subs /\ s.batch = batch /\ s.id = t
      /\ \A r \in Logged : r.id # t
      /\ \A d \in deps[t] : [batch |-> batch, id |-> d] \in Logged
  BY SubmitFacts, NewSub
<1>2. log' = Append(log, s)
  BY DEF SubmitPush
<1> HIDE DEF s
<1>3. /\ Logged' = Logged \cup {s}
      /\ Len(log') = Len(log) + 1 /\ Len(log) \in Nat /\ log'[Len(log) + 1] = s
      /\ \A k \in 1..Len(log) : log'[k] = log[k]
  BY <1>1, <1>2, LogGrows
<1>4. LogOrdered'
  <2> SUFFICES ASSUME NEW k \in 1..Len(log'), NEW d \in deps'[log'[k].id]
               PROVE  \E j \in 1..(k - 1) : log'[j] = [batch |-> log'[k].batch, id |-> d]
    BY DEF LogOrdered
  <2>1. deps' = deps
    BY DEF SubmitPush
  <2>2. CASE k = Len(log) + 1
    <3>1. PICK j \in 1..Len(log) : log[j] = [batch |-> batch, id |-> d]
      BY <1>1, <1>3, <2>1, <2>2 DEF Logged, Entries
    <3> QED  BY <1>1, <1>3, <2>2, <3>1
  <2>3. CASE k \in 1..Len(log)
    <3>1. PICK j \in 1..(k - 1) : log[j] = [batch |-> log[k].batch, id |-> d]
      BY <1>3, <2>1, <2>3 DEF LogOrdered
    <3> QED  BY <1>3, <2>3, <3>1
  <2> QED  BY <1>3, <2>2, <2>3
<1>5. /\ rpc = "submit" /\ rpc' = "notify" /\ t \in ready
      /\ ready' = ready \ {t} /\ todo' = todo \ {t} /\ nodes' = nodes \ {t}
      /\ completed' = completed \cup {t}
      /\ UNCHANGED <<deps, batch, outcome>>
  BY DEF SubmitPush
<1>6. Tasks' = Tasks /\ Circular(Tasks)' = Circular(Tasks) /\ UnknownDependency(Tasks)' = UnknownDependency(Tasks)
  BY <1>5 DEF Tasks, Circular, UnknownDependency
<1>7. \A u \in Tasks \ todo' : [batch |-> batch, id |-> u] \in Logged'
  BY <1>3, <1>5 DEF ResolverInv, s
<1>8. \A r \in Logged' : /\ r.id \in Batches[r.batch] /\ r.batch <= batch
                         /\ r.batch = batch => r.id \notin todo'
  BY <1>1, <1>3, <1>5 DEF ResolverInv, Tasks
<1>9. completed' \subseteq {r.id : r \in Logged'}
  BY <1>1, <1>3, <1>5 DEF ResolverInv
<1>10. \A b \in 1..Len(Batches) : /\ outcome[b] # "none" => b < batch
                                  /\ outcome[b] = "Err" => \A r \in Logged' : r.batch # b
                                  /\ outcome[b] = "Ok" => \A u \in Batches[b] : [batch |-> b, id |-> u] \in Logged'
  BY <1>1, <1>3 DEF ResolverInv
<1> QED  BY <1>4, <1>5, <1>6, <1>7, <1>8, <1>9, <1>10 DEF ResolverInv

-----------------------------------------------------------------------------
(* WorkStealing: where the submissions are.                                  *)

LEMMA PlacesRest ==
  ASSUME PlaceInv, UNCHANGED <<queue, channels, receiver, job, log>>,
         \A w \in W : wpc'[w] = "execute" <=> wpc[w] = "execute"
  PROVE  PlaceInv'
  BY SMTT(60) DEF PlaceInv, Logged

LEMMA PlaceSubmit ==
  ASSUME FreshIds, StealTypes, ResolverInv, PlaceInv,
         NEW t \in Ids, NEW q \in Queues, SubmitPush(t, q)
  PROVE  PlaceInv'
<1> DEFINE s == [batch |-> batch, id |-> t]
<1>1. s \in Subs /\ s.id = t /\ s \notin Logged /\ \A r \in Logged : r.id # t
  BY SubmitFacts, NewSub
<1>2. Closed(t) = {}
  <2>1. SUFFICES ASSUME channels[t] # NoSub PROVE FALSE
    BY DEF Closed
  <2>2. channels[t] \in Subs /\ channels[t].id = t
    BY <2>1 DEF PlaceInv, StealTypes, TypeOK
  <2>3. channels[t] \in Logged
    BY <2>2 DEF PlaceInv
  <2> QED  BY <1>1, <2>2, <2>3
<1>3. receiver[s] = "none"
  BY <1>1 DEF PlaceInv
<1>4. /\ receiver' = [r \in Subs |-> IF r = s THEN "waiting" ELSE receiver[r]]
      /\ channels' = [channels EXCEPT ![t] = s]
      /\ queue' = [queue EXCEPT ![q] = Append(@, s)]
      /\ log' = Append(log, s)
      /\ UNCHANGED <<wpc, job>>
  BY <1>2 DEF SubmitPush, workerVars
<1>5. s \notin Entries(queue[q]) /\ \A r \in Queues : s \notin Entries(queue[r])
  BY <1>3 DEF PlaceInv
<1>6. \A w \in W : job[w] # s
  BY <1>1, <1>3, NoSubNotSub DEF PlaceInv
<1> HIDE DEF s
<1>7. /\ \A r \in Queues : r # q => queue'[r] = queue[r]
      /\ queue'[q] = Append(queue[q], s) /\ queue[q] \in Seq(Subs) /\ Distinct(queue[q])
  BY <1>4 DEF StealTypes, PlaceInv
<1>8. Entries(queue'[q]) = Entries(queue[q]) \cup {s} /\ Distinct(queue'[q])
  BY <1>1, <1>5, <1>7, PushEntry
<1>9. Logged' = Logged \cup {s}
  BY <1>1, <1>4, LogGrows
<1>10. /\ \A r \in Queues : r # q => Entries(queue'[r]) = Entries(queue[r])
       /\ \A r \in Queues : Entries(queue'[r]) \subseteq Entries(queue[r]) \cup {s}
  BY <1>7, <1>8
<1>11. /\ receiver'[s] = "waiting" /\ \A r \in Subs : r # s => receiver'[r] = receiver[r]
  BY <1>1, <1>4
<1>12. \A r \in Queues : Entries(queue[r]) \subseteq Subs
  BY ElementOfSeq DEF Entries, StealTypes
<1>13. \A r \in Queues : /\ Distinct(queue'[r])
                         /\ \A x \in Entries(queue'[r]) : receiver'[x] = "waiting"
  <2> SUFFICES ASSUME NEW r \in Queues
               PROVE  /\ Distinct(queue'[r])
                      /\ \A x \in Entries(queue'[r]) : receiver'[x] = "waiting"
    OBVIOUS
  <2>1. Distinct(queue'[r])
    BY <1>7, <1>8 DEF PlaceInv
  <2>2. \A x \in Entries(queue[r]) : receiver'[x] = "waiting"
    BY <1>11, <1>12 DEF PlaceInv
  <2> QED  BY <1>10, <1>11, <2>1, <2>2
<1>14. \A r, p \in Queues : r # p => Entries(queue'[r]) \cap Entries(queue'[p]) = {}
  BY <1>5, <1>8, <1>10 DEF PlaceInv
<1>15. \A w \in W : job[w] # NoSub => receiver'[job[w]] = "waiting"
  BY <1>6, <1>11 DEF PlaceInv, StealTypes, TypeOK
<1>16. \A r \in Queues, w \in W : job[w] \notin Entries(queue'[r])
  BY <1>6, <1>10 DEF PlaceInv
<1>17. \A x \in Subs : receiver'[x] = "waiting" => \/ \E r \in Queues : x \in Entries(queue'[r])
                                                   \/ \E w \in W : job[w] = x
  BY <1>8, <1>10, <1>11 DEF PlaceInv
<1>18. \A x \in Subs : receiver'[x] = "waiting" <=> channels'[x.id] = x
  <2> SUFFICES ASSUME NEW x \in Subs PROVE receiver'[x] = "waiting" <=> channels'[x.id] = x
    OBVIOUS
  <2>0. x.id \in Ids /\ channels \in [Ids -> Subs \cup {NoSub}]
    BY DEF Subs, StealTypes, TypeOK
  <2>1. CASE x = s
    BY <1>1, <1>4, <1>11, <2>0, <2>1
  <2>2. CASE x # s /\ x.id = t
    <3>1. receiver'[x] # "waiting"
      BY <1>1, <1>11, <2>2 DEF PlaceInv
    <3> QED  BY <1>4, <2>0, <2>2, <3>1
  <2>3. CASE x # s /\ x.id # t
    BY <1>4, <1>11, <2>0, <2>3 DEF PlaceInv
  <2> QED  BY <2>1, <2>2, <2>3
<1>19. \A i \in Ids : channels'[i] # NoSub => channels'[i].id = i
  BY <1>1, <1>4 DEF PlaceInv, StealTypes, TypeOK
<1>20. \A x \in Subs : receiver'[x] # "none" => x \in Logged'
  BY <1>9, <1>11 DEF PlaceInv
<1>21. UNCHANGED <<wpc, job>> /\ (\A w \in W : wpc[w] = "execute" <=> job[w] # NoSub)
       /\ \A v, w \in W : v # w /\ job[v] = job[w] => job[v] = NoSub
  BY <1>4 DEF PlaceInv
<1> QED  BY <1>21, <1>13, <1>14, <1>15, <1>16, <1>17, <1>18, <1>19, <1>20 DEF PlaceInv

LEMMA PlaceTake ==
  ASSUME StealTypes, PlaceInv, NEW w \in W, Take(w)
  PROVE  PlaceInv'
<1> DEFINE q == Seen(w)
           s == Head(queue[q])
<1>1. q \in Queues /\ queue[q] \in Seq(Subs) /\ queue[q] # <<>>
  BY PlaceIsQueue, WorkStealingAssumption DEF Take, Seen, StealTypes, TypeOK
<1>2. /\ job' = [job EXCEPT ![w] = s]
      /\ queue' = [queue EXCEPT ![q] = Tail(@)]
      /\ wpc' = [wpc EXCEPT ![w] = "execute"]
      /\ wpc[w] = "find"
      /\ UNCHANGED <<channels, receiver, log>>
  BY DEF Take
<1> HIDE DEF q
<1>3. /\ \A r \in Queues : r # q => queue'[r] = queue[r]
      /\ queue'[q] = Tail(queue[q])
  BY <1>1, <1>2 DEF StealTypes
<1>4. /\ s \in Subs /\ s \in Entries(queue[q]) /\ Distinct(queue'[q])
      /\ Entries(queue'[q]) = Entries(queue[q]) \ {s}
  BY <1>1, <1>3, PopEntry DEF PlaceInv
<1> HIDE DEF s
<1>5. /\ \A r \in Queues : r # q => Entries(queue'[r]) = Entries(queue[r])
      /\ \A r \in Queues : Entries(queue'[r]) \subseteq Entries(queue[r])
  BY <1>3, <1>4
<1>6. \A r \in Queues : s \notin Entries(queue'[r])
  BY <1>1, <1>4, <1>5 DEF PlaceInv
<1>7. \A v \in W : v # w => job'[v] = job[v]
  BY <1>2 DEF StealTypes, TypeOK
<1>8. job'[w] = s /\ job[w] = NoSub /\ s # NoSub /\ receiver[s] = "waiting"
  BY <1>1, <1>2, <1>4, NoSubNotSub DEF PlaceInv, StealTypes, TypeOK
<1>9. \A v \in W : job[v] # s
  BY <1>1, <1>4 DEF PlaceInv
<1>10. \A r \in Queues : /\ Distinct(queue'[r])
                         /\ \A x \in Entries(queue'[r]) : receiver'[x] = "waiting"
  BY <1>1, <1>2, <1>3, <1>4, <1>5 DEF PlaceInv
<1>11. \A r, p \in Queues : r # p => Entries(queue'[r]) \cap Entries(queue'[p]) = {}
  BY <1>5 DEF PlaceInv
<1>12. \A v \in W : job'[v] # NoSub => receiver'[job'[v]] = "waiting"
  BY <1>2, <1>7, <1>8 DEF PlaceInv
<1>13. \A u, v \in W : u # v /\ job'[u] = job'[v] => job'[u] = NoSub
  BY <1>7, <1>8, <1>9 DEF PlaceInv
<1>14. \A r \in Queues, v \in W : job'[v] \notin Entries(queue'[r])
  BY <1>5, <1>6, <1>7, <1>8 DEF PlaceInv
<1>15. \A x \in Subs : receiver'[x] = "waiting" => \/ \E r \in Queues : x \in Entries(queue'[r])
                                                   \/ \E v \in W : job'[v] = x
  <2> SUFFICES ASSUME NEW x \in Subs, receiver[x] = "waiting", x # s
               PROVE  \/ \E r \in Queues : x \in Entries(queue'[r])
                      \/ \E v \in W : job'[v] = x
    BY <1>2, <1>8
  <2>1. CASE \E r \in Queues : x \in Entries(queue[r])
    BY <1>4, <1>5, <2>1
  <2>2. CASE \E v \in W : job[v] = x
    BY <1>7, <1>8, <2>2, NoSubNotSub
  <2> QED  BY <2>1, <2>2 DEF PlaceInv
<1>16. \A v \in W : wpc'[v] = "execute" <=> job'[v] # NoSub
  BY <1>2, <1>7, <1>8 DEF PlaceInv, StealTypes, TypeOK
<1>17. Logged' = Logged
  BY <1>2 DEF Logged, Entries
<1> QED  BY <1>2, <1>10, <1>11, <1>12, <1>13, <1>14, <1>15, <1>16, <1>17 DEF PlaceInv

LEMMA PlaceReport ==
  ASSUME StealTypes, PlaceInv, NEW w \in W, NEW result \in {"ok", "err"}, Report(w, result)
  PROVE  PlaceInv'
<1> DEFINE s == job[w]
<1>1. s \in Subs /\ s # NoSub /\ receiver[s] = "waiting" /\ channels[s.id] = s /\ s.id \in Ids
  BY NoSubNotSub DEF PlaceInv, StealTypes, TypeOK, Report, Subs
<1>2. /\ receiver' = [x \in Subs |-> IF x = s THEN result ELSE receiver[x]]
      /\ channels' = [channels EXCEPT ![s.id] = NoSub]
      /\ job' = [job EXCEPT ![w] = NoSub]
      /\ wpc' = [wpc EXCEPT ![w] = "loop"]
      /\ UNCHANGED <<queue, log>>
  BY <1>1 DEF Report
<1>3. \A x \in Subs : x # s => receiver'[x] = receiver[x]
  BY <1>2
<1>4. receiver'[s] = result /\ job'[w] = NoSub /\ \A v \in W : v # w => job'[v] = job[v] /\ job[v] # s
  BY <1>1, <1>2 DEF PlaceInv, StealTypes, TypeOK
<1>5. \A q \in Queues : s \notin Entries(queue[q]) /\ Entries(queue[q]) \subseteq Subs
  BY ElementOfSeq DEF PlaceInv, Entries, StealTypes
<1> HIDE DEF s
<1>6. \A q \in Queues : /\ Distinct(queue[q])
                        /\ \A x \in Entries(queue[q]) : receiver'[x] = "waiting"
  BY <1>3, <1>5 DEF PlaceInv
<1>7. \A v \in W : job'[v] # NoSub => receiver'[job'[v]] = "waiting"
  BY <1>3, <1>4 DEF PlaceInv, StealTypes, TypeOK
<1>8. \A u, v \in W : u # v /\ job'[u] = job'[v] => job'[u] = NoSub
  BY <1>4 DEF PlaceInv
<1>9. \A q \in Queues, v \in W : job'[v] \notin Entries(queue[q])
  BY <1>4, <1>5, NoSubNotSub DEF PlaceInv
<1>10. \A x \in Subs : receiver'[x] = "waiting" => \/ \E q \in Queues : x \in Entries(queue[q])
                                                   \/ \E v \in W : job'[v] = x
  <2> SUFFICES ASSUME NEW x \in Subs, receiver'[x] = "waiting"
               PROVE  \/ \E q \in Queues : x \in Entries(queue[q])
                      \/ \E v \in W : job'[v] = x
    OBVIOUS
  <2>1. x # s /\ receiver[x] = "waiting"
    BY <1>3, <1>4
  <2> QED  BY <1>4, <2>1 DEF PlaceInv, s
<1>11. \A v \in W : wpc'[v] = "execute" <=> job'[v] # NoSub
  BY <1>2, <1>4 DEF PlaceInv, StealTypes, TypeOK
<1>12. \A x \in Subs : receiver'[x] = "waiting" <=> channels'[x.id] = x
  <2> SUFFICES ASSUME NEW x \in Subs PROVE receiver'[x] = "waiting" <=> channels'[x.id] = x
    OBVIOUS
  <2>0. x.id \in Ids /\ channels \in [Ids -> Subs \cup {NoSub}]
    BY DEF Subs, StealTypes, TypeOK
  <2>1. CASE x = s
    BY <1>2, <1>4, <2>0, <2>1, <1>1
  <2>2. CASE x # s /\ x.id = s.id
    BY <1>1, <1>2, <1>3, <2>0, <2>2, NoSubNotSub DEF PlaceInv
  <2>3. CASE x # s /\ x.id # s.id
    BY <1>2, <1>3, <2>0, <2>3 DEF PlaceInv
  <2> QED  BY <2>1, <2>2, <2>3
<1>13. \A i \in Ids : channels'[i] # NoSub => channels'[i].id = i
  BY <1>2 DEF PlaceInv, StealTypes, TypeOK
<1>14. Logged' = Logged /\ \A x \in Subs : receiver'[x] # "none" => x \in Logged
  BY <1>1, <1>2, <1>3 DEF Logged, Entries, PlaceInv
<1>15. \A p, q \in Queues : p # q => Entries(queue[p]) \cap Entries(queue[q]) = {}
  BY DEF PlaceInv
<1>16. queue' = queue
  BY <1>2
<1> QED  BY <1>16, <1>6, <1>7, <1>8, <1>9, <1>10, <1>11, <1>12, <1>13, <1>14, <1>15 DEF PlaceInv

\* The workers' and the client's other steps move no submission.
LEMMA PlaceStep ==
  ASSUME FreshIds, StealTypes, ResolverInv, PlaceInv, [Next]_vars
  PROVE  PlaceInv'
<1> DEFINE Still == /\ UNCHANGED <<queue, channels, receiver, job, log>>
                    /\ \A w \in W : wpc'[w] = "execute" <=> wpc[w] = "execute"
<1>0. wpc \in [W -> {"new", "loop", "find", "execute", "wait", "exited"}]
  BY DEF StealTypes, TypeOK
<1>1. ASSUME Still PROVE PlaceInv'
  BY <1>1, PlacesRest
<1>2. CASE \E t \in Ids, q \in Queues : SubmitPush(t, q)
  BY <1>2, PlaceSubmit
<1>3. CASE \E w \in W : Take(w) \/ End(w)
  BY <1>3, PlaceTake, PlaceReport DEF End
<1>4. CASE UNCHANGED vars \/ ResolveRefused \/ ResolveStart \/ ResolveRound \/ ResolveDone
  <2>1. Still
    BY <1>4 DEF vars, ResolveRefused, ResolveStart, ResolveRound, ResolveDone, workerVars
  <2> QED  BY <1>1, <2>1
<1>5. CASE SubmitNotify
  <2>1. Still
    BY <1>0, <1>5 DEF SubmitNotify, Notify
  <2> QED  BY <1>1, <2>1
<1>6. CASE Start
  <2>1. Still
    BY <1>0, <1>6 DEF Start
  <2> QED  BY <1>1, <2>1
<1>7. ASSUME NEW w \in W, LoopHead(w) \/ LookOn(w) \/ FoundNone(w) \/ IdleTimeout(w) PROVE PlaceInv'
  <2>1. Still
    BY <1>0, <1>7 DEF LoopHead, LookOn, FoundNone, IdleTimeout
  <2> QED  BY <1>1, <2>1
<1>8. CASE ShutdownStart \/ ShutdownOk \/ ShutdownTimeout
  <2>1. Still
    BY <1>0, <1>8 DEF ShutdownStart, ShutdownOk, ShutdownTimeout, workerVars
  <2> QED  BY <1>1, <2>1
<1> QED  BY <1>2, <1>3, <1>4, <1>5, <1>6, <1>7, <1>8 DEF Next, Resolve, Work

LEMMA ResolverStep ==
  ASSUME FreshIds, StealTypes, ResolverInv, LogOrdered, [Next]_vars
  PROVE  ResolverInv' /\ LogOrdered'
<1>1. CASE \E t \in Ids, q \in Queues : SubmitPush(t, q)
  BY <1>1, SubmitStep
<1>2. CASE ResolveRefused \/ ResolveStart \/ ResolveRound \/ ResolveDone \/ SubmitNotify
  BY <1>2, RoundStep
<1>3. CASE UNCHANGED vars
  BY <1>3, ResolverRests DEF vars
<1>4. CASE Start \/ ShutdownStart \/ ShutdownOk \/ ShutdownTimeout
  BY <1>4, ResolverRests DEF Start, ShutdownStart, ShutdownOk, ShutdownTimeout
<1>5. CASE \E w \in W : Work(w) \/ End(w)
  BY <1>5, ResolverRests DEF Work, LoopHead, Take, LookOn, FoundNone, IdleTimeout, End, Report
<1> QED  BY <1>1, <1>2, <1>3, <1>4, <1>5 DEF Next, Resolve

-----------------------------------------------------------------------------
(* WorkStealing: the theorem.                                                *)

LEMMA StealInitially == Init => StealInv
<1> SUFFICES ASSUME Init PROVE StealInv
  OBVIOUS
<1> USE WorkStealingAssumption, LenProperties DEF Init
<1>1. Len(Batches) \in Nat /\ N \in Nat \ {0}
  OBVIOUS
<1>2. /\ \A q \in Queues : queue[q] = <<>> /\ Len(queue[q]) = 0 /\ Entries(queue[q]) = {} /\ Distinct(queue[q])
      /\ Len(log) = 0 /\ Logged = {}
  <2>1. Len(<<>>) = 0 /\ Entries(<<>>) = {} /\ Distinct(<<>>)
    BY EmptySeq DEF Entries, Distinct
  <2> QED  BY <2>1 DEF Logged
<1>3. deps \in [Ids -> SUBSET Ids]
  OBVIOUS
<1>4. StealTypes
  <2>1. queue \in [Queues -> Seq(Subs)] /\ log \in Seq(Subs)
    BY EmptySeq
  <2>2. batch \in 1..(Len(Batches) + 1) /\ active_workers \in 0..N
    BY <1>1
  <2>3. pos \in [W -> 0..(N + 1)] /\ job \in [W -> Subs \cup {NoSub}] /\ wpc \in [W -> {"new"}]
    BY <1>1
  <2>4. \A q \in Queues : Members(q) \subseteq Subs
    BY <1>2 DEF Members
  <2> QED  BY <1>3, <2>1, <2>2, <2>3, <2>4 DEF StealTypes, TypeOK
<1>5. ResolverInv
  BY <1>1, <1>2 DEF ResolverInv
<1>6. LogOrdered
  BY <1>2 DEF LogOrdered
<1>7. PlaceInv
  <2>1. \A s \in Subs : receiver[s] = "none" /\ channels[s.id] = NoSub /\ s # NoSub
    BY NoSubNotSub DEF Subs
  <2>2. \A w \in W : job[w] = NoSub /\ wpc[w] = "new"
    OBVIOUS
  <2>3. \A i \in Ids : channels[i] = NoSub
    OBVIOUS
  <2> QED  BY <1>2, <2>1, <2>2, <2>3 DEF PlaceInv
<1>8. StopInv
  <2>1. Active = {}
    BY DEF Active
  <2> QED  BY <2>1, FS_EmptySet DEF StopInv, ShutdownQuiesces
<1> QED  BY <1>4, <1>5, <1>6, <1>7, <1>8 DEF StealInv

\* A submission that waits is in one place, any other in none.
LEMMA InOnePlace == ASSUME StealTypes, PlaceInv PROVE NothingLostOrTwice
<1> SUFFICES ASSUME NEW s \in Subs
             PROVE  Cardinality({q \in Queues : s \in Members(q)} \cup {-1 - w : w \in {v \in W : job[v] = s}})
                      = IF receiver[s] = "waiting" THEN 1 ELSE 0
  BY DEF NothingLostOrTwice
<1> DEFINE QS == {q \in Queues : s \in Members(q)}
           WS == {-1 - w : w \in {v \in W : job[v] = s}}
<1>1. QS = {q \in Queues : s \in Entries(queue[q])}
  BY MembersAreEntries
<1> HIDE DEF QS
<1>2. s # NoSub
  BY NoSubNotSub
<1>3. CASE receiver[s] # "waiting"
  <2>1. QS = {}
    BY <1>1, <1>3 DEF PlaceInv
  <2>2. WS = {}
    BY <1>2, <1>3 DEF PlaceInv
  <2> HIDE DEF WS
  <2>3. QS \cup WS = {}
    BY <2>1, <2>2
  <2> QED  BY <1>3, <2>3, FS_EmptySet DEF QS, WS
<1>4. CASE receiver[s] = "waiting" /\ \E q \in Queues : s \in Entries(queue[q])
  <2>1. PICK q \in Queues : s \in Entries(queue[q])
    BY <1>4
  <2>2. QS = {q}
    BY <1>1, <2>1 DEF PlaceInv
  <2>3. WS = {}
    BY <2>1 DEF PlaceInv
  <2> HIDE DEF WS
  <2>4. QS \cup WS = {q}
    BY <2>2, <2>3
  <2> QED  BY <1>4, <2>4, FS_Singleton DEF QS, WS
<1>5. CASE receiver[s] = "waiting" /\ ~\E q \in Queues : s \in Entries(queue[q])
  <2>1. PICK w \in W : job[w] = s
    BY <1>5 DEF PlaceInv
  <2>2. QS = {}
    BY <1>1, <1>5
  <2>3. {v \in W : job[v] = s} = {w}
    BY <1>2, <2>1 DEF PlaceInv
  <2>4. WS = {-1 - w}
    BY <2>3
  <2> HIDE DEF WS
  <2>5. QS \cup WS = {-1 - w}
    BY <2>2, <2>4
  <2> QED  BY <1>5, <2>5, FS_Singleton DEF QS, WS
<1> QED  BY <1>3, <1>4, <1>5

LEMMA StealSound == ASSUME StealInv PROVE TasksAccounted
<1> USE DEF StealInv
<1>1. SubmitsInOrder
  <2>1. \A b : Submitted(b) = {s \in Logged : s.batch = b}
    BY DEF Submitted, Logged, Entries
  <2>2. ASSUME NEW b \in 1..Len(Batches), outcome[b] = "Err" PROVE Submitted(b) = {}
    BY <2>1, <2>2 DEF ResolverInv
  <2>3. ASSUME NEW b \in 1..Len(Batches), outcome[b] = "Ok"
        PROVE  Submitted(b) = {[batch |-> b, id |-> t] : t \in Batches[b]}
    <3>1. \A s \in Submitted(b) : s \in Subs /\ s.batch = b /\ s.id \in Batches[b]
      BY <2>1, LoggedSubs DEF ResolverInv
    <3>2. \A s \in Submitted(b) : s = [batch |-> b, id |-> s.id]
      BY <3>1 DEF Subs
    <3>3. \A t \in Batches[b] : [batch |-> b, id |-> t] \in Submitted(b)
      BY <2>1, <2>3 DEF ResolverInv
    <3> QED  BY <3>1, <3>2, <3>3
  <2> QED  BY <2>2, <2>3 DEF SubmitsInOrder, LogOrdered
<1> QED  BY <1>1, InOnePlace DEF TasksAccounted, StealTypes, StopInv

\* For any batches without a common id, any dependencies and any number of workers:
\* resolve_and_submit submits in dependency order and refuses a batch as a whole,
\* stealing loses and repeats no task, and a shutdown that returned Ok is final
\* (lock_free_scheduler.rs).
THEOREM StealingAccounts == ASSUME FreshIds PROVE Spec => []TasksAccounted
<1>1. StealInv /\ [Next]_vars => StealInv'
  <2> SUFFICES ASSUME StealInv, [Next]_vars PROVE StealInv'
    OBVIOUS
  <2>1. StopInv'
    BY StopStep DEF StealInv
  <2>2. rpc # "idle" => batch <= Len(Batches)
    BY DEF StealInv, ResolverInv
  <2>3. StealTypes'
    BY <2>1, <2>2, TypeStep DEF StealInv
  <2>4. PlaceInv'
    BY PlaceStep DEF StealInv
  <2>5. ResolverInv' /\ LogOrdered'
    BY ResolverStep DEF StealInv
  <2> QED  BY <2>1, <2>3, <2>4, <2>5 DEF StealInv
<1>2. StealInv => TasksAccounted
  BY StealSound
<1> QED  BY <1>1, <1>2, StealInitially, PTL DEF Spec

-----------------------------------------------------------------------------
(* MultiTierCache: the inductive invariant, with the cache under its Mutex.  *)

TierMutex == \A c, d \in Callers : pc[c] # "idle" /\ pc[d] # "idle" => c = d

\* What a get of the key finds is what the last put wrote.
Current(k) ==
  /\ k \in InL1 => l1[k].val = latest[k]
  /\ k \in InL2 \ InL1 => l2[k].val = latest[k]
  /\ latest[k] # 0 /\ k \notin dropped => k \in InL1 \cup InL2

\* The keys that the operation of a caller has, for a moment, in no order.
Exposed(c) ==
  {k \in Keys :
     \/ pc[c] \in {"room", "evict", "demote", "evicted", "insert", "invalidate2"} /\ k = key[c]
     \/ pc[c] \in {"demote", "promotedemote"} /\ k \in victim[c].keys
     \/ pc[c] = "clear2"
     \/ pc[c] \in {"age1", "age2"} /\ latest[k] <= entry[c].val}

Putting == {"room", "evict", "demote", "evicted", "insert"}
Promoting == {"promote", "promoteevict", "promotedemote", "promoteevicted", "promoteinsert"}

\* What holds of a caller's locals where it is.
StageInv(c) ==
  /\ pc[c] \in {"get", "hit", "l2", "pop", "invalidate", "invalidate2"} \cup Putting \cup Promoting => key[c] \in Keys
  /\ pc[c] \in Putting \cup Promoting => /\ entry[c] \in Entry \ {NoEntry}
                                         /\ entry[c].val = latest[key[c]]
  /\ pc[c] \in Promoting \cup {"l2", "invalidate2"} => key[c] \notin InL1
  /\ pc[c] = "pop" => key[c] \in InL1
  /\ pc[c] \in {"evict", "promoteevict"} => \E j \in InL1 : victim[c].keys = {j}
  /\ pc[c] \in {"demote", "promotedemote"} =>
        \E j \in Keys \ InL1 : /\ victim[c].keys = {j} /\ victim[c].e \in Entry \ {NoEntry}
                               /\ victim[c].e.val <= latest[j]
                               /\ j # key[c] => victim[c].e.val = latest[j]
                               /\ pc[c] = "promotedemote" => j # key[c]
  /\ pc[c] \in {"demote", "promotedemote", "evicted", "promoteevicted", "insert", "promoteinsert"} =>
        Cardinality(InL1) < L1Max
  /\ pc[c] = "clear2" => InL1 = {}
  /\ pc[c] = "age1" => \A k \in Keys : IF latest[k] <= entry[c].val THEN k \in InL1 => k \in victim[c].keys
                                                                     ELSE k \notin victim[c].keys
  /\ pc[c] = "age2" => \A k \in InL1 : latest[k] > entry[c].val

TierInv ==
  /\ TierTypeOK /\ TierMutex
  /\ \A k \in Keys : l1[k].val <= latest[k] /\ l2[k].val <= latest[k] /\ latest[k] <= puts
  /\ \A k \in Keys : (\A c \in Callers : k \notin Exposed(c)) => Current(k)
  /\ \A c \in Callers : StageInv(c)

-----------------------------------------------------------------------------
(* MultiTierCache: entries and tiers.                                        *)

LEMMA EntryFacts ==
  /\ NoEntry \in Entry /\ NoEntry.val = 0
  /\ \A e \in Entry : /\ e.val \in 0..MaxPuts /\ e.count \in 0..Threshold
                      /\ e # NoEntry <=> e.val # 0
  /\ \A e \in Entry \ {NoEntry} : /\ Accessed(e) \in Entry \ {NoEntry}
                                  /\ Accessed(e).val = e.val
<1>1. MaxPuts \in Nat /\ Threshold \in Nat \ {0}
  BY CacheAssumption
<1>2. ASSUME NEW e \in Entry
      PROVE  /\ e.val \in 0..MaxPuts /\ e.count \in 0..Threshold
             /\ e # NoEntry <=> e.val # 0
  BY <1>1 DEF Entry, NoEntry
<1>3. ASSUME NEW e \in Entry \ {NoEntry}
      PROVE  /\ Accessed(e) \in Entry \ {NoEntry}
             /\ Accessed(e).val = e.val
  <2>1. e \in [val : 1..MaxPuts, count : 1..Threshold]
    BY DEF Entry
  <2>2. Accessed(e) \in [val : 1..MaxPuts, count : 1..Threshold] /\ Accessed(e).val = e.val
    BY <1>1, <2>1 DEF Accessed
  <2>3. \A x \in [val : 1..MaxPuts, count : 1..Threshold] : x # NoEntry /\ x \in Entry
    BY DEF NoEntry, Entry
  <2> QED  BY <2>2, <2>3
<1> QED  BY <1>2, <1>3 DEF Entry, NoEntry

\* The keys that have an entry in a tier.
Held(f) == {k \in Keys : f[k] # NoEntry}

LEMMA HeldFinite ==
  ASSUME NEW f PROVE IsFiniteSet(Held(f)) /\ Cardinality(Held(f)) \in Nat
<1>1. Held(f) \in SUBSET Keys
  BY DEF Held
<1>2. IsFiniteSet(Held(f))
  BY <1>1, CacheAssumption, FS_Subset
<1> QED  BY <1>2, FS_CardinalityType

LEMMA HeldShrinks ==
  ASSUME NEW f, NEW g, Held(g) \subseteq Held(f)
  PROVE  Cardinality(Held(g)) <= Cardinality(Held(f))
  BY HeldFinite, FS_Subset

LEMMA HeldInsert ==
  ASSUME NEW f \in [Keys -> Entry], NEW k \in Keys, NEW e \in Entry \ {NoEntry},
         NEW g, g = [f EXCEPT ![k] = e]
  PROVE  /\ g \in [Keys -> Entry] /\ Held(g) = Held(f) \cup {k}
         /\ Cardinality(Held(g)) = IF k \in Held(f) THEN Cardinality(Held(f)) ELSE Cardinality(Held(f)) + 1
         /\ g[k] = e /\ \A j \in Keys \ {k} : g[j] = f[j]
<1>1. Held(g) = Held(f) \cup {k}
  BY DEF Held
<1>2. Cardinality(Held(f) \cup {k}) = IF k \in Held(f) THEN Cardinality(Held(f)) ELSE Cardinality(Held(f)) + 1
  BY HeldFinite, FS_AddElement
<1> QED  BY <1>1, <1>2

LEMMA HeldRemove ==
  ASSUME NEW f \in [Keys -> Entry], NEW k \in Keys,
         NEW g, g = [f EXCEPT ![k] = NoEntry]
  PROVE  /\ g \in [Keys -> Entry] /\ Held(g) = Held(f) \ {k}
         /\ Cardinality(Held(g)) = IF k \in Held(f) THEN Cardinality(Held(f)) - 1 ELSE Cardinality(Held(f))
         /\ g[k] = NoEntry /\ \A j \in Keys \ {k} : g[j] = f[j]
<1>1. Held(g) = Held(f) \ {k}
  BY DEF Held
<1>2. Cardinality(Held(f) \ {k}) = IF k \in Held(f) THEN Cardinality(Held(f)) - 1 ELSE Cardinality(Held(f))
  BY HeldFinite, FS_RemoveElement
<1> QED  BY <1>1, <1>2, EntryFacts

-----------------------------------------------------------------------------
(* MultiTierCache: one operation at a time.                                  *)

TierTypes ==
  /\ l1 \in [Keys -> Entry] /\ l2 \in [Keys -> Entry]
  /\ shard \in [Keys -> Callers \cup {Free}] /\ metrics \in Callers \cup {Free}
  /\ pc \in [Callers -> Labels] /\ key \in [Callers -> Keys \cup {NoKey}]
  /\ entry \in [Callers -> [val : 0..MaxPuts, count : 0..Threshold]]
  /\ victim \in [Callers -> [keys : SUBSET Keys, e : Entry]]
  /\ puts \in 0..MaxPuts /\ latest \in [Keys -> 0..MaxPuts] /\ dropped \in SUBSET Keys

Sized == Cardinality(Held(l1)) <= L1Max /\ Cardinality(Held(l2)) <= L2Max

NoNewer == \A k \in Keys : l1[k].val <= latest[k] /\ l2[k].val <= latest[k] /\ latest[k] <= puts

\* The invariant as the one caller whose operation is in progress has it.
Settled(c) ==
  /\ TierTypes /\ Sized /\ NoNewer /\ StageInv(c)
  /\ \A k \in Keys \ Exposed(c) : Current(k)

LEMMA InTiers == InL1 = Held(l1) /\ InL2 = Held(l2)
  BY DEF InL1, InL2, Held

LEMMA SettleOne ==
  ASSUME TierInv, NEW c \in Callers, \A d \in Callers \ {c} : pc[d] = "idle"
  PROVE  Settled(c)
<1>1. \A d \in Callers \ {c} : Exposed(d) = {}
  BY DEF Exposed
<1>2. \A k \in Keys \ Exposed(c) : Current(k)
  BY <1>1 DEF TierInv
<1> QED  BY <1>2, InTiers DEF TierInv, TierTypeOK, Settled, TierTypes, Sized, NoNewer

LEMMA UnsettleOne ==
  ASSUME NEW c \in Callers, \A d \in Callers \ {c} : pc'[d] = "idle", Settled(c)'
  PROVE  TierInv'
<1>1. TierTypeOK'
  <2>1. (InL1 = Held(l1) /\ InL2 = Held(l2))'
    BY DEF InL1, InL2, Held
  <2> QED  BY <2>1 DEF TierTypeOK, Settled, TierTypes, Sized
<1>2. TierMutex'
  BY DEF TierMutex
<1>3. \A d \in Callers \ {c} : StageInv(d)'
  BY DEF StageInv, Putting, Promoting
<1>4. StageInv(c)' /\ NoNewer' /\ \A k \in Keys \ Exposed(c)' : Current(k)'
  BY DEF Settled
<1> QED  BY <1>1, <1>2, <1>3, <1>4 DEF TierInv, NoNewer

\* A step that leaves the tiers and the history alone.
LEMMA TiersRest ==
  ASSUME NEW c \in Callers, Settled(c), UNCHANGED <<l1, l2, puts, latest, dropped>>,
         TierTypes', Exposed(c) \subseteq Exposed(c)', StageInv(c)'
  PROVE  Settled(c)'
<1>1. \A k \in Keys : Current(k) => Current(k)'
  BY DEF Current, InL1, InL2
<1> QED  BY <1>1 DEF Settled, Sized, Held, NoNewer

\* An operation begins with every key in order.
LEMMA BeginStep ==
  ASSUME NEW c \in Callers, Settled(c),
         \/ \E k \in Keys : BeginGet(c, k) \/ BeginInvalidate(c, k)
         \/ BeginMetrics(c) \/ BeginClear(c) \/ BeginEvict(c)
  PROVE  Settled(c)'
<1> USE DEF Begin, BeginGet, BeginInvalidate, BeginMetrics, BeginClear, BeginEvict, Goto
<1>0. /\ TierTypes
      /\ UNCHANGED <<tiers, lockVars, entry, victim, puts, latest, dropped>>
  BY DEF Settled
<1>1. PICK k \in Keys \cup {NoKey}, l \in {"get", "invalidate", "metrics", "clear", "age"} :
         /\ pc[c] = "idle"
         /\ pc' = [pc EXCEPT ![c] = l] /\ key' = [key EXCEPT ![c] = k]
         /\ l \in {"get", "invalidate"} => k \in Keys
  OBVIOUS
<1>2. TierTypes'
  BY <1>0, <1>1 DEF TierTypes, Labels, tiers, lockVars
<1>3. pc'[c] = l /\ key'[c] = k
  BY <1>0, <1>1 DEF TierTypes
<1>4. Exposed(c) = {}
  BY <1>1 DEF Exposed
<1>5. StageInv(c)'
  BY <1>1, <1>3 DEF StageInv, Putting, Promoting
<1> QED  BY <1>0, <1>2, <1>4, <1>5, TiersRest DEF tiers

\* put begins: the value it writes counts as the latest of its key.
LEMMA BeginPutStep ==
  ASSUME NEW c \in Callers, Settled(c), NEW k \in Keys, BeginPut(c, k)
  PROVE  Settled(c)'
<1>0. /\ TierTypes /\ NoNewer /\ MaxPuts \in Nat /\ Threshold \in Nat \ {0}
      /\ \A j \in Keys : Current(j)
  BY CacheAssumption DEF Settled, Exposed, BeginPut
<1>1. /\ pc' = [pc EXCEPT ![c] = "room"] /\ key' = [key EXCEPT ![c] = k]
      /\ puts < MaxPuts /\ puts' = puts + 1
      /\ entry' = [entry EXCEPT ![c] = NewEntry(puts + 1)]
      /\ latest' = [latest EXCEPT ![k] = puts + 1]
      /\ dropped' = dropped \ {k}
      /\ UNCHANGED <<l1, l2, shard, metrics, victim>>
  BY DEF BeginPut, Goto, tiers, lockVars
<1>2. NewEntry(puts + 1) \in Entry \ {NoEntry} /\ NewEntry(puts + 1).val = puts + 1
      /\ NewEntry(puts + 1) \in [val : 0..MaxPuts, count : 0..Threshold]
  BY <1>0, <1>1 DEF NewEntry, Entry, NoEntry, TierTypes
<1>3. TierTypes'
  BY <1>0, <1>1, <1>2 DEF TierTypes, Labels
<1>4. /\ pc'[c] = "room" /\ key'[c] = k /\ entry'[c] = NewEntry(puts + 1) /\ latest'[k] = puts + 1
      /\ \A j \in Keys \ {k} : latest'[j] = latest[j]
  BY <1>0, <1>1 DEF TierTypes
<1>5. NoNewer'
  <2> SUFFICES ASSUME NEW j \in Keys
               PROVE  l1[j].val <= latest'[j] /\ l2[j].val <= latest'[j] /\ latest'[j] <= puts'
    BY <1>1 DEF NoNewer
  <2>1. l1[j].val \in Nat /\ l2[j].val \in Nat /\ latest[j] \in Nat /\ puts \in Nat
    BY <1>0, EntryFacts DEF TierTypes
  <2> QED  BY <1>0, <1>1, <1>4, <2>1 DEF NoNewer
<1>6. \A j \in Keys \ Exposed(c)' : Current(j)'
  BY <1>0, <1>1, <1>4 DEF Exposed, Current, InL1, InL2
<1>7. StageInv(c)'
  BY <1>2, <1>4 DEF StageInv, Putting, Promoting
<1> QED  BY <1>1, <1>3, <1>5, <1>6, <1>7 DEF Settled, Sized, Held

\* The steps of get that only look, or count.
LEMMA GetQuietStep ==
  ASSUME NEW c \in Callers, Settled(c), GetL1Return(c) \/ GetL1Miss(c) \/ GetMiss(c) \/ GetL2Return(c)
  PROVE  Settled(c)'
<1> USE DEF GetL1Return, GetL1Miss, GetMiss, GetL2Return, Goto, Return
<1>0. TierTypes /\ Settled(c)
  BY DEF Settled
<1>1. /\ pc[c] \in {"hit", "get", "l2", "count"}
      /\ UNCHANGED <<l1, l2, metrics, victim, puts, latest, dropped>>
  BY DEF tiers, lockVars, history
<1>2. /\ pc' \in [Callers -> Labels] /\ pc'[c] \in {"idle", "l2", "count"}
      /\ pc'[c] = "l2" => pc[c] = "get" /\ key' = key
  BY <1>0 DEF TierTypes, Labels
<1>3. shard' \in [Keys -> Callers \cup {Free}]
  BY <1>0 DEF TierTypes, lockVars
<1>4. key' \in [Callers -> Keys \cup {NoKey}] /\ entry' \in [Callers -> [val : 0..MaxPuts, count : 0..Threshold]]
  <2>1. NoEntry \in [val : 0..MaxPuts, count : 0..Threshold]
    BY CacheAssumption DEF NoEntry
  <2> QED  BY <1>0, <2>1, SMTT(40) DEF TierTypes
<1>5. TierTypes'
  BY <1>0, <1>1, <1>2, <1>3, <1>4 DEF TierTypes
<1>6. Exposed(c) = {}
  BY <1>1 DEF Exposed
<1>7. StageInv(c)'
  <2>1. pc'[c] = "l2" => key'[c] \in Keys
    BY <1>0, <1>2 DEF Settled, StageInv
  <2>2. pc'[c] = "l2" => key'[c] \notin InL1'
    BY <1>1, <1>2 DEF InL1
  <2> QED  BY <1>2, <2>1, <2>2 DEF StageInv, Putting, Promoting
<1> QED  BY <1>1, <1>5, <1>6, <1>7, TiersRest

\* The steps of an insertion that only look, or count.
LEMMA InsertQuietStep ==
  ASSUME NEW c \in Callers, Settled(c),
         RoomInL1(c) \/ (\E k \in Keys : ChooseVictim(c, k)) \/ CountEviction(c)
  PROVE  Settled(c)'
<1> USE DEF RoomInL1, ChooseVictim, CountEviction, Goto, Inserting, Then
<1>0. /\ TierTypes /\ Settled(c) /\ StageInv(c) /\ L1Max \in Nat /\ Cardinality(InL1) \in Nat
      /\ UNCHANGED <<l1, l2, shard, metrics, key, entry, puts, latest, dropped>>
  BY HeldFinite, InTiers, CacheAssumption DEF Settled, tiers, lockVars, history
<1>1. InL1' = InL1
  BY <1>0 DEF InL1
<1>2. CASE RoomInL1(c) \/ CountEviction(c)
  <2>1. /\ pc[c] \in {"room", "promote", "evicted", "promoteevicted"}
        /\ pc'[c] = IF pc[c] \in {"room", "evicted"} THEN "insert" ELSE "promoteinsert"
        /\ pc' \in [Callers -> Labels] /\ victim' = victim
    BY <1>0, <1>2 DEF TierTypes, Labels
  <2>2. Cardinality(InL1) < L1Max
    BY <1>0, <1>2 DEF Full, StageInv
  <2>3. TierTypes'
    BY <1>0, <2>1 DEF TierTypes
  <2>4. Exposed(c) \subseteq Exposed(c)'
    BY <1>0, <2>1 DEF Exposed
  <2>5. StageInv(c)'
    BY <1>0, <1>1, <2>1, <2>2 DEF StageInv, Putting, Promoting
  <2> QED  BY <1>0, <2>3, <2>4, <2>5, TiersRest
<1>3. ASSUME NEW k \in Keys, ChooseVictim(c, k) PROVE Settled(c)'
  <2>1. /\ pc[c] \in {"room", "promote"} /\ k \in InL1
        /\ pc'[c] = IF pc[c] = "room" THEN "evict" ELSE "promoteevict"
        /\ pc' \in [Callers -> Labels]
        /\ victim' = [victim EXCEPT ![c] = [keys |-> {k}, e |-> NoEntry]] /\ victim'[c].keys = {k}
    BY <1>0, <1>3 DEF TierTypes, Labels
  <2>2. TierTypes'
    BY <1>0, <2>1, EntryFacts DEF TierTypes
  <2>3. Exposed(c) \subseteq Exposed(c)'
    BY <1>0, <2>1 DEF Exposed
  <2>4. StageInv(c)'
    BY <1>0, <1>1, <2>1 DEF StageInv, Putting, Promoting
  <2> QED  BY <1>0, <2>2, <2>3, <2>4, TiersRest
<1> QED  BY <1>2, <1>3

\* The steps of the other operations that only look, or count.
LEMMA OtherQuietStep ==
  ASSUME NEW c \in Callers, Settled(c), ClearMetrics(c) \/ GetMetrics(c) \/ Sizes(c)
  PROVE  Settled(c)'
<1> USE DEF ClearMetrics, GetMetrics, Sizes, Goto, Return
<1>0. /\ TierTypes /\ Settled(c)
      /\ UNCHANGED <<l1, l2, shard, victim, puts, latest, dropped>>
  BY DEF Settled, tiers, lockVars, history
<1>1. /\ pc[c] \in {"cleared", "metrics", "sizes"}
      /\ pc' \in [Callers -> Labels] /\ pc'[c] \in {"idle", "sizes"}
  BY <1>0 DEF TierTypes, Labels
<1>2. key' \in [Callers -> Keys \cup {NoKey}] /\ entry' \in [Callers -> [val : 0..MaxPuts, count : 0..Threshold]]
  <2>1. NoEntry \in [val : 0..MaxPuts, count : 0..Threshold]
    BY CacheAssumption DEF NoEntry
  <2>2. \/ key' = key /\ entry' = entry
        \/ key' = [key EXCEPT ![c] = NoKey] /\ entry' = [entry EXCEPT ![c] = NoEntry]
    OBVIOUS
  <2>3. key' \in [Callers -> Keys \cup {NoKey}]
    BY <1>0, <2>2 DEF TierTypes
  <2>4. entry' \in [Callers -> [val : 0..MaxPuts, count : 0..Threshold]]
    <3>1. entry \in [Callers -> [val : 0..MaxPuts, count : 0..Threshold]]
      BY <1>0 DEF TierTypes
    <3>2. [entry EXCEPT ![c] = NoEntry] \in [Callers -> [val : 0..MaxPuts, count : 0..Threshold]]
      BY <2>1, <3>1
    <3> QED  BY <2>2, <3>1, <3>2
  <2> QED  BY <2>3, <2>4
<1>3. TierTypes'
  BY <1>0, <1>1, <1>2 DEF TierTypes, lockVars
<1>4. Exposed(c) = {}
  BY <1>1 DEF Exposed
<1>5. StageInv(c)'
  BY <1>1 DEF StageInv, Putting, Promoting
<1> QED  BY <1>0, <1>3, <1>4, <1>5, TiersRest

LEMMA EvictScanStep ==
  ASSUME NEW c \in Callers, Settled(c), EvictScan(c)
  PROVE  Settled(c)'
<1>0. /\ TierTypes /\ Settled(c) /\ pc[c] = "age" /\ MaxPuts \in Nat
      /\ UNCHANGED <<l1, l2, shard, metrics, key, puts, latest, dropped>>
  BY CacheAssumption DEF Settled, EvictScan, tiers, lockVars, history
<1>1. Exposed(c) = {}
  BY <1>0 DEF Exposed
<1>2. \A k \in InL1 : l1[k].val = latest[k]
  BY <1>1 DEF Settled, Current, InL1
<1>3. PICK cutoff \in 0..puts :
        /\ victim' = [victim EXCEPT ![c].keys = {k \in InL1 : l1[k].val <= cutoff}]
        /\ entry' = [entry EXCEPT ![c].val = cutoff]
  BY DEF EvictScan
<1>4. /\ pc' \in [Callers -> Labels] /\ pc'[c] = "age1"
      /\ victim'[c].keys = {k \in InL1 : l1[k].val <= cutoff} /\ entry'[c].val = cutoff
  BY <1>0, <1>3 DEF TierTypes, Labels, EvictScan, Goto
<1>5. TierTypes'
  <2>1. {k \in InL1 : l1[k].val <= cutoff} \in SUBSET Keys
    BY DEF InL1
  <2>2. cutoff \in 0..MaxPuts
    BY <1>0 DEF TierTypes
  <2>3. victim' \in [Callers -> [keys : SUBSET Keys, e : Entry]]
    BY <1>0, <1>3, <2>1 DEF TierTypes
  <2>4. entry' \in [Callers -> [val : 0..MaxPuts, count : 0..Threshold]]
    BY <1>0, <1>3, <2>2 DEF TierTypes
  <2> QED  BY <1>0, <1>4, <2>3, <2>4 DEF TierTypes
<1>6. StageInv(c)'
  <2>1. InL1' = InL1 /\ latest' = latest /\ InL1 \subseteq Keys
    BY <1>0 DEF InL1
  <2>2. \A k \in Keys : IF latest[k] <= cutoff THEN k \in InL1 => k \in victim'[c].keys
                                               ELSE k \notin victim'[c].keys
    BY <1>2, <1>4
  <2> QED  BY <1>4, <2>1, <2>2 DEF StageInv, Putting, Promoting
<1> QED  BY <1>0, <1>1, <1>5, <1>6, TiersRest

-----------------------------------------------------------------------------
(* MultiTierCache: the steps that change a tier.                             *)

\* A hit counts the access; the values stay.
LEMMA HitStep ==
  ASSUME NEW c \in Callers, Settled(c), GetL1Hit(c) \/ GetL2Hit(c)
  PROVE  Settled(c)'
<1> DEFINE k == key[c]
<1>0. /\ TierTypes /\ Settled(c) /\ Sized /\ NoNewer /\ k \in Keys /\ pc[c] \in {"get", "l2"}
      /\ UNCHANGED <<metrics, key, victim, puts, latest, dropped>>
  BY DEF Settled, StageInv, GetL1Hit, GetL2Hit, history, lockVars
<1>1. Exposed(c) = {} /\ Exposed(c)' = {}
  <2>1. pc'[c] \in {"hit", "promote", "count"}
    BY <1>0 DEF GetL1Hit, GetL2Hit, Goto, TierTypes
  <2> QED  BY <1>0, <2>1 DEF Exposed
<1>2. CASE GetL1Hit(c)
  <2> DEFINE e == Accessed(l1[k])
  <2>1. /\ pc'[c] = "hit" /\ pc' \in [Callers -> Labels]
        /\ shard' \in [Keys -> Callers \cup {Free}]
        /\ UNCHANGED <<l2, entry>>
    BY <1>0, <1>2 DEF GetL1Hit, Goto, TierTypes, Labels
  <2>2. l1[k] \in Entry \ {NoEntry} /\ l1 \in [Keys -> Entry] /\ l1' = [l1 EXCEPT ![k] = e]
    BY <1>0, <1>2 DEF GetL1Hit, InL1, TierTypes
  <2>3. e \in Entry \ {NoEntry} /\ e.val = l1[k].val
    BY <2>2, EntryFacts
  <2> HIDE DEF k, e
  <2>4. /\ l1' \in [Keys -> Entry] /\ Held(l1') = Held(l1) \cup {k}
        /\ l1'[k] = e /\ \A j \in Keys \ {k} : l1'[j] = l1[j]
    <3>1. k \in Keys /\ l1 \in [Keys -> Entry] /\ l1' = [l1 EXCEPT ![k] = e]
      BY <1>0, <2>2
    <3>2. e \in Entry \ {NoEntry}
      BY <2>3
    <3> QED  BY <3>1, <3>2, HeldInsert
  <2>5. Held(l1') = Held(l1) /\ \A j \in Keys : l1'[j].val = l1[j].val
    BY <1>0, <2>2, <2>3, <2>4 DEF Held
  <2>6. TierTypes' /\ Sized' /\ NoNewer'
    BY <1>0, <2>1, <2>4, <2>5 DEF TierTypes, Sized, NoNewer
  <2>7. \A j \in Keys : Current(j)'
    <3>1. \A j \in Keys : Current(j)
      BY <1>0, <1>1 DEF Settled
    <3>2. InL1' = InL1 /\ InL2' = InL2
      BY <2>1, <2>5 DEF InL1, InL2, Held
    <3> QED  BY <1>0, <2>1, <2>5, <3>1, <3>2 DEF Current
  <2>8. StageInv(c)'
    BY <1>0, <2>1 DEF StageInv, Putting, Promoting, k
  <2> QED  BY <2>6, <2>7, <2>8 DEF Settled
<1>3. CASE GetL2Hit(c)
  <2> DEFINE e == Accessed(l2[k])
  <2>1. /\ l2[k] \in Entry \ {NoEntry} /\ l2 \in [Keys -> Entry] /\ l2' = [l2 EXCEPT ![k] = e]
        /\ entry' = [entry EXCEPT ![c] = e] /\ pc[c] = "l2"
        /\ pc' = [pc EXCEPT ![c] = IF e.count >= Threshold THEN "promote" ELSE "count"]
        /\ UNCHANGED <<l1, shard>>
    BY <1>0, <1>3 DEF GetL2Hit, InL2, TierTypes, lockVars, Goto
  <2>2. e \in Entry \ {NoEntry} /\ e.val = l2[k].val
    BY <2>1, EntryFacts
  <2>3. e \in [val : 0..MaxPuts, count : 0..Threshold]
    BY <2>2, CacheAssumption DEF Entry
  <2> HIDE DEF k, e
  <2>4. /\ l2' \in [Keys -> Entry] /\ Held(l2') = Held(l2) \cup {k}
        /\ l2'[k] = e /\ \A j \in Keys \ {k} : l2'[j] = l2[j]
    <3>1. k \in Keys /\ l2 \in [Keys -> Entry] /\ l2' = [l2 EXCEPT ![k] = e]
      BY <1>0, <2>1
    <3> QED  BY <2>2, <3>1, HeldInsert
  <2>5. Held(l2') = Held(l2) /\ \A j \in Keys : l2'[j].val = l2[j].val
    BY <1>0, <2>1, <2>2, <2>4 DEF Held
  <2>6. /\ pc' \in [Callers -> Labels] /\ pc'[c] \in {"promote", "count"} /\ entry'[c] = e
        /\ entry' \in [Callers -> [val : 0..MaxPuts, count : 0..Threshold]]
    BY <1>0, <2>1, <2>3 DEF TierTypes, Labels
  <2>7. TierTypes' /\ Sized' /\ NoNewer'
    BY <1>0, <2>1, <2>4, <2>5, <2>6 DEF TierTypes, Sized, NoNewer
  <2>8. \A j \in Keys : Current(j)
    BY <1>0, <1>1 DEF Settled
  <2>9. InL1' = InL1 /\ InL2' = InL2 /\ k \in InL2
    BY <1>0, <2>1, <2>5 DEF InL1, InL2, Held
  <2>10. \A j \in Keys : Current(j)'
    BY <1>0, <2>1, <2>5, <2>8, <2>9 DEF Current
  <2>11. StageInv(c)'
    <3>1. k \notin InL1 => e.val = latest[k]
      BY <1>0, <2>2, <2>8, <2>9 DEF Current
    <3>2. key'[c] = k /\ latest' = latest
      BY <1>0 DEF k
    <3>3. k \notin InL1
      BY <1>0, <2>1 DEF Settled, StageInv, k
    <3> QED  BY <1>0, <2>2, <2>6, <2>9, <3>1, <3>2, <3>3 DEF StageInv, Putting, Promoting
  <2> QED  BY <2>7, <2>10, <2>11 DEF Settled
<1> QED  BY <1>2, <1>3

\* A key's entry leaves L1.
LEMMA LeavesL1 ==
  ASSUME TierTypes, NEW k \in Keys, l1' = [l1 EXCEPT ![k] = NoEntry]
  PROVE  /\ l1' \in [Keys -> Entry] /\ InL1' = InL1 \ {k}
         /\ Cardinality(InL1') = IF k \in InL1 THEN Cardinality(InL1) - 1 ELSE Cardinality(InL1)
         /\ l1'[k].val = 0 /\ \A j \in Keys \ {k} : l1'[j] = l1[j]
<1>1. l1 \in [Keys -> Entry]
  BY DEF TierTypes
<1>2. /\ l1' \in [Keys -> Entry] /\ Held(l1') = Held(l1) \ {k}
      /\ Cardinality(Held(l1')) = IF k \in Held(l1) THEN Cardinality(Held(l1)) - 1 ELSE Cardinality(Held(l1))
      /\ l1'[k] = NoEntry /\ \A j \in Keys \ {k} : l1'[j] = l1[j]
  BY <1>1, HeldRemove
<1>3. InL1' = Held(l1') /\ InL1 = Held(l1)
  BY DEF InL1, Held
<1>4. l1'[k].val = 0
  BY <1>2, EntryFacts
<1>5. Cardinality(InL1') = IF k \in InL1 THEN Cardinality(InL1) - 1 ELSE Cardinality(InL1)
  BY <1>2, <1>3
<1> QED  BY <1>2, <1>3, <1>4, <1>5

LEMMA LeavesL2 ==
  ASSUME TierTypes, NEW k \in Keys, l2' = [l2 EXCEPT ![k] = NoEntry]
  PROVE  /\ l2' \in [Keys -> Entry] /\ InL2' = InL2 \ {k}
         /\ Cardinality(InL2') <= Cardinality(InL2)
         /\ l2'[k].val = 0 /\ \A j \in Keys \ {k} : l2'[j] = l2[j]
<1>1. l2 \in [Keys -> Entry]
  BY DEF TierTypes
<1>2. /\ l2' \in [Keys -> Entry] /\ Held(l2') = Held(l2) \ {k}
      /\ Cardinality(Held(l2')) = IF k \in Held(l2) THEN Cardinality(Held(l2)) - 1 ELSE Cardinality(Held(l2))
      /\ l2'[k] = NoEntry /\ \A j \in Keys \ {k} : l2'[j] = l2[j]
  BY <1>1, HeldRemove
<1>3. InL2' = Held(l2') /\ InL2 = Held(l2) /\ Cardinality(Held(l2)) \in Nat
  BY HeldFinite DEF InL2, Held
<1>4. l2'[k].val = 0
  BY <1>2, EntryFacts
<1>5. Cardinality(Held(l2')) <= Cardinality(Held(l2))
  <2>1. Cardinality(Held(l2)) \in Nat
    BY <1>3
  <2>2. \/ Cardinality(Held(l2')) = Cardinality(Held(l2)) - 1
        \/ Cardinality(Held(l2')) = Cardinality(Held(l2))
    BY <1>2
  <2> QED  BY <2>1, <2>2
<1>6. Cardinality(InL2') <= Cardinality(InL2)
  BY <1>3, <1>5
<1> QED  BY <1>2, <1>3, <1>4, <1>6

\* An entry enters L1.
LEMMA EntersL1 ==
  ASSUME TierTypes, NEW k \in Keys, NEW e \in Entry \ {NoEntry}, l1' = [l1 EXCEPT ![k] = e]
  PROVE  /\ l1' \in [Keys -> Entry] /\ InL1' = InL1 \cup {k}
         /\ Cardinality(InL1') = IF k \in InL1 THEN Cardinality(InL1) ELSE Cardinality(InL1) + 1
         /\ l1'[k] = e /\ \A j \in Keys \ {k} : l1'[j] = l1[j]
<1>1. l1 \in [Keys -> Entry]
  BY DEF TierTypes
<1>2. /\ l1' \in [Keys -> Entry] /\ Held(l1') = Held(l1) \cup {k}
      /\ Cardinality(Held(l1')) = IF k \in Held(l1) THEN Cardinality(Held(l1)) ELSE Cardinality(Held(l1)) + 1
      /\ l1'[k] = e /\ \A j \in Keys \ {k} : l1'[j] = l1[j]
  BY <1>1, HeldInsert, ZenonT(40)
<1>3. InL1' = Held(l1') /\ InL1 = Held(l1)
  BY DEF InL1, Held
<1> QED  BY <1>2, <1>3

\* Sized in the words of the specification.
LEMMA SizedIs == Sized <=> Cardinality(InL1) <= L1Max /\ Cardinality(InL2) <= L2Max
  BY DEF Sized, Held, InL1, InL2

LEMMA SizedWillBe == Sized' <=> Cardinality(InL1') <= L1Max /\ Cardinality(InL2') <= L2Max
  BY DEF Sized, Held, InL1, InL2

\* Cardinalities and values are numbers.
LEMMA TierNumbers ==
  ASSUME TierTypes
  PROVE  /\ Cardinality(InL1) \in Nat /\ Cardinality(InL2) \in Nat
         /\ L1Max \in Nat \ {0} /\ L2Max \in Nat \ {0} /\ MaxPuts \in Nat
         /\ \A k \in Keys : l1[k].val \in Nat /\ l2[k].val \in Nat /\ latest[k] \in Nat
         /\ \A k \in Keys : (k \in InL1 <=> l1[k].val # 0) /\ (k \in InL2 <=> l2[k].val # 0)
         /\ puts \in Nat
<1>1. Cardinality(InL1) \in Nat /\ Cardinality(InL2) \in Nat
  BY HeldFinite, InTiers
<1>2. L1Max \in Nat \ {0} /\ L2Max \in Nat \ {0} /\ MaxPuts \in Nat
  BY CacheAssumption
<1>3. ASSUME NEW k \in Keys
      PROVE  /\ l1[k].val \in Nat /\ l2[k].val \in Nat /\ latest[k] \in Nat
             /\ (k \in InL1 <=> l1[k].val # 0) /\ (k \in InL2 <=> l2[k].val # 0)
  <2>1. l1[k] \in Entry /\ l2[k] \in Entry /\ latest[k] \in 0..MaxPuts
    BY DEF TierTypes
  <2> QED  BY <1>2, <2>1, EntryFacts DEF InL1, InL2
<1> QED  BY <1>1, <1>2, <1>3 DEF TierTypes

\* The older copy in L2 goes once the entry is in L1.
LEMMA PopStep ==
  ASSUME NEW c \in Callers, Settled(c), PopPromoted(c)
  PROVE  Settled(c)'
<1> DEFINE k == key[c]
<1>0. /\ TierTypes /\ Sized /\ NoNewer /\ pc[c] = "pop" /\ k \in Keys /\ k \in InL1
      /\ l2' = [l2 EXCEPT ![k] = NoEntry] /\ pc' = [pc EXCEPT ![c] = "count"]
      /\ UNCHANGED <<l1, shard, metrics, key, entry, victim, puts, latest, dropped>>
  BY DEF Settled, StageInv, PopPromoted, Goto, lockVars, history
<1>1. \A j \in Keys : Current(j)
  BY <1>0 DEF Settled, Exposed
<1> HIDE DEF k
<1>2. /\ l2' \in [Keys -> Entry] /\ InL2' = InL2 \ {k} /\ Cardinality(InL2') <= Cardinality(InL2)
      /\ l2'[k].val = 0 /\ \A j \in Keys \ {k} : l2'[j] = l2[j]
  BY <1>0, LeavesL2
<1>3. pc' \in [Callers -> Labels] /\ pc'[c] = "count" /\ InL1' = InL1
  BY <1>0 DEF TierTypes, Labels, InL1
<1>4. TierTypes'
  BY <1>0, <1>2, <1>3 DEF TierTypes
<1>5. Sized' /\ Cardinality(InL2') \in Nat
  <2>1. IsFiniteSet(InL2') /\ Cardinality(InL2') \in Nat
    BY HeldFinite DEF InL2, Held
  <2> QED  BY <1>0, <1>2, <1>3, <2>1, SizedIs, SizedWillBe, TierNumbers
<1>6. NoNewer'
  BY <1>0, <1>2, TierNumbers DEF NoNewer
<1>7. \A j \in Keys : Current(j)'
  BY <1>0, <1>1, <1>2, <1>3 DEF Current
<1>8. StageInv(c)'
  BY <1>3 DEF StageInv, Putting, Promoting
<1> QED  BY <1>4, <1>5, <1>6, <1>7, <1>8 DEF Settled

\* The entry to be demoted leaves L1.
LEMMA RemoveVictimStep ==
  ASSUME NEW c \in Callers, Settled(c), RemoveVictim(c)
  PROVE  Settled(c)'
<1>0. /\ TierTypes /\ Sized /\ NoNewer /\ StageInv(c) /\ pc[c] \in {"evict", "promoteevict"}
      /\ UNCHANGED <<l2, shard, metrics, key, entry, puts, latest, dropped>>
  BY DEF Settled, RemoveVictim, lockVars, history
<1>1. PICK j \in InL1 : victim[c].keys = {j}
  BY <1>0 DEF StageInv
<1>2. /\ j \in Keys /\ l1' = [l1 EXCEPT ![j] = NoEntry]
      /\ victim' = [victim EXCEPT ![c] = [@ EXCEPT !.e = l1[j]]]
      /\ pc' = [pc EXCEPT ![c] = IF pc[c] = "evict" THEN "demote" ELSE "promotedemote"]
  BY <1>1 DEF RemoveVictim, Goto, InL1
<1>3. /\ l1' \in [Keys -> Entry] /\ InL1' = InL1 \ {j}
      /\ Cardinality(InL1') = IF j \in InL1 THEN Cardinality(InL1) - 1 ELSE Cardinality(InL1)
      /\ l1'[j].val = 0 /\ \A i \in Keys \ {j} : l1'[i] = l1[i]
  BY <1>0, <1>2, LeavesL1
<1>4. /\ pc' \in [Callers -> Labels] /\ InL2' = InL2
      /\ pc'[c] = IF pc[c] = "evict" THEN "demote" ELSE "promotedemote"
  BY <1>0, <1>2 DEF TierTypes, Labels, InL2
<1>5. /\ victim' \in [Callers -> [keys : SUBSET Keys, e : Entry]]
      /\ victim'[c].keys = {j} /\ victim'[c].e = l1[j] /\ l1[j] \in Entry \ {NoEntry}
  <2>1. l1[j] \in Entry \ {NoEntry}
    BY <1>0, <1>1, <1>2 DEF TierTypes, InL1
  <2>2. victim \in [Callers -> [keys : SUBSET Keys, e : Entry]]
    BY <1>0 DEF TierTypes
  <2> QED  BY <1>1, <1>2, <2>1, <2>2
<1>6. TierTypes'
  BY <1>0, <1>3, <1>4, <1>5 DEF TierTypes
<1>7. Sized' /\ Cardinality(InL1') < L1Max
  BY <1>0, <1>1, <1>3, <1>4, SizedIs, SizedWillBe, TierNumbers
<1>8. NoNewer'
  BY <1>0, <1>3, TierNumbers DEF NoNewer
<1>9. j # key[c] \/ pc[c] = "promoteevict" => l1[j].val = latest[j]
  <2>1. pc[c] = "promoteevict" => j # key[c]
    BY <1>0, <1>1 DEF StageInv, Promoting
  <2>2. j # key[c] => j \notin Exposed(c)
    BY <1>0 DEF Exposed
  <2> QED  BY <1>1, <1>2, <2>1, <2>2 DEF Settled, Current
<1>10. \A i \in Keys \ Exposed(c)' : Current(i)'
  <2> SUFFICES ASSUME NEW i \in Keys, i \notin Exposed(c)' PROVE Current(i)'
    OBVIOUS
  <2>1. i # j /\ i \notin Exposed(c)
    BY <1>0, <1>4, <1>5 DEF Exposed
  <2>2. Current(i)
    BY <2>1 DEF Settled
  <2> QED  BY <1>0, <1>3, <1>4, <2>1, <2>2 DEF Current
<1>11. StageInv(c)'
  <2>1. /\ j \in Keys \ InL1' /\ victim'[c].keys = {j} /\ victim'[c].e \in Entry \ {NoEntry}
        /\ victim'[c].e.val <= latest[j]
        /\ j # key[c] => victim'[c].e.val = latest[j]
        /\ pc[c] = "promoteevict" => j # key[c]
    BY <1>0, <1>1, <1>2, <1>3, <1>5, <1>9 DEF NoNewer, StageInv, Promoting
  <2>2. /\ key[c] \in Keys /\ entry[c] \in Entry \ {NoEntry} /\ entry[c].val = latest[key[c]]
        /\ pc[c] = "promoteevict" => key[c] \notin InL1'
    BY <1>0, <1>3 DEF StageInv, Putting, Promoting
  <2> QED  BY <1>0, <1>4, <1>7, <2>1, <2>2 DEF StageInv, Putting, Promoting
<1> QED  BY <1>6, <1>7, <1>8, <1>10, <1>11 DEF Settled

\* The evicted entry enters L2, at the cost of another key's when L2 is full.
LEMMA PushEffect ==
  ASSUME TierTypes, Sized, NEW k \in Keys, NEW e \in Entry \ {NoEntry}, Push(k, e)
  PROVE  \E gone \in SUBSET (Keys \ {k}) :
           /\ l2' \in [Keys -> Entry] /\ InL2' = (InL2 \ gone) \cup {k} /\ Cardinality(InL2') <= L2Max
           /\ l2'[k] = e /\ \A j \in gone : l2'[j] = NoEntry
           /\ \A j \in Keys \ (gone \cup {k}) : l2'[j] = l2[j]
           /\ dropped' = dropped \cup {j \in gone : j \notin InL1 \/ l1[j].val # latest[j]}
<1> DEFINE room == k \in InL2 \/ Cardinality(InL2) < L2Max
<1>1. PICK gone \in (IF room THEN {{}} ELSE {{j} : j \in InL2}) :
        /\ l2' = [j \in Keys |-> IF j = k THEN e ELSE IF j \in gone THEN NoEntry ELSE l2[j]]
        /\ dropped' = dropped \cup {j \in gone : j \notin InL1 \/ l1[j].val # latest[j]}
  BY DEF Push
<1>2. gone \in SUBSET (Keys \ {k}) /\ (room => gone = {}) /\ (~room => \E j \in InL2 : gone = {j})
  BY <1>1 DEF InL2
<1> HIDE DEF room
<1>3. l2 \in [Keys -> Entry]
  BY DEF TierTypes
<1>4. l2' \in [Keys -> Entry]
  BY <1>1, <1>3, EntryFacts
<1>5. /\ l2'[k] = e /\ \A j \in gone : l2'[j] = NoEntry
      /\ \A j \in Keys \ (gone \cup {k}) : l2'[j] = l2[j]
  BY <1>1, <1>2
<1>6. InL2' = (InL2 \ gone) \cup {k}
  BY <1>2, <1>5 DEF InL2
<1>7. IsFiniteSet(InL2) /\ Cardinality(InL2) \in Nat /\ Cardinality(InL2) <= L2Max /\ L2Max \in Nat
  BY HeldFinite, InTiers, SizedIs, CacheAssumption
<1>8. CASE room
  <2>1. InL2' = InL2 \cup {k}
    BY <1>2, <1>6, <1>8
  <2>2. Cardinality(InL2') = IF k \in InL2 THEN Cardinality(InL2) ELSE Cardinality(InL2) + 1
    BY <1>7, <2>1, FS_AddElement
  <2>3. Cardinality(InL2') <= L2Max
    BY <1>7, <1>8, <2>2 DEF room
  <2> QED  BY <1>1, <1>2, <1>4, <1>5, <1>6, <2>3
<1>9. CASE ~room
  <2>1. PICK j \in InL2 : gone = {j}
    BY <1>2, <1>9
  <2>2. InL2' = (InL2 \ {j}) \cup {k} /\ k \notin InL2 \ {j}
    BY <1>6, <1>9, <2>1 DEF room
  <2>3. IsFiniteSet(InL2 \ {j}) /\ Cardinality(InL2 \ {j}) = Cardinality(InL2) - 1
    BY <1>7, FS_RemoveElement
  <2>4. Cardinality(InL2') = Cardinality(InL2 \ {j}) + 1
    BY <2>2, <2>3, FS_AddElement
  <2>5. Cardinality(InL2') <= L2Max
    BY <1>7, <2>3, <2>4
  <2> QED  BY <1>1, <1>2, <1>4, <1>5, <1>6, <2>5
<1> QED  BY <1>8, <1>9

LEMMA DemoteStep ==
  ASSUME NEW c \in Callers, Settled(c), Demote(c)
  PROVE  Settled(c)'
<1>0. /\ TierTypes /\ Sized /\ NoNewer /\ StageInv(c) /\ pc[c] \in {"demote", "promotedemote"}
      /\ UNCHANGED <<l1, shard, metrics, key, entry, puts, latest>>
      /\ victim' = [victim EXCEPT ![c] = NoVictim]
      /\ pc' = [pc EXCEPT ![c] = IF pc[c] = "demote" THEN "evicted" ELSE "promoteevicted"]
  BY DEF Settled, Demote, Goto, lockVars
<1>1. PICK k \in Keys \ InL1 : /\ victim[c].keys = {k} /\ victim[c].e \in Entry \ {NoEntry}
                               /\ victim[c].e.val <= latest[k]
                               /\ k # key[c] => victim[c].e.val = latest[k]
                               /\ pc[c] = "promotedemote" => k # key[c]
  BY <1>0 DEF StageInv
<1> DEFINE e == victim[c].e
<1>2. Push(k, e)
  BY <1>1 DEF Demote
<1>3. e \in Entry \ {NoEntry} /\ e.val <= latest[k] /\ (k # key[c] => e.val = latest[k])
  BY <1>1
<1> HIDE DEF e
<1>4. PICK gone \in SUBSET (Keys \ {k}) :
           /\ l2' \in [Keys -> Entry] /\ InL2' = (InL2 \ gone) \cup {k} /\ Cardinality(InL2') <= L2Max
           /\ l2'[k] = e /\ \A j \in gone : l2'[j] = NoEntry
           /\ \A j \in Keys \ (gone \cup {k}) : l2'[j] = l2[j]
           /\ dropped' = dropped \cup {j \in gone : j \notin InL1 \/ l1[j].val # latest[j]}
  BY <1>0, <1>1, <1>2, <1>3, PushEffect
<1>5. /\ pc' \in [Callers -> Labels] /\ InL1' = InL1
      /\ pc'[c] = IF pc[c] = "demote" THEN "evicted" ELSE "promoteevicted"
      /\ victim' \in [Callers -> [keys : SUBSET Keys, e : Entry]]
  BY <1>0, EntryFacts DEF TierTypes, Labels, InL1, NoVictim
<1>6. TierTypes'
  <2>1. dropped' \in SUBSET Keys
    BY <1>0, <1>4 DEF TierTypes
  <2> QED  BY <1>0, <1>4, <1>5, <2>1 DEF TierTypes
<1>7. Sized'
  BY <1>0, <1>4, <1>5, SizedIs, SizedWillBe
<1>8. NoNewer'
  <2> SUFFICES ASSUME NEW j \in Keys PROVE l1'[j].val <= latest'[j] /\ l2'[j].val <= latest'[j] /\ latest'[j] <= puts'
    BY DEF NoNewer
  <2>1. l1[j].val <= latest[j] /\ l2[j].val <= latest[j] /\ latest[j] <= puts /\ latest[j] \in Nat
    BY <1>0, TierNumbers DEF NoNewer
  <2>2. l2'[j].val <= latest[j]
    <3>1. CASE j = k
      BY <1>3, <1>4, <3>1
    <3>2. CASE j \in gone
      BY <1>4, <2>1, <3>2, EntryFacts
    <3>3. CASE j \notin gone \cup {k}
      BY <1>4, <2>1, <3>3
    <3> QED  BY <3>1, <3>2, <3>3
  <2> QED  BY <1>0, <2>1, <2>2
<1>9. \A j \in Keys \ Exposed(c)' : Current(j)'
  <2> SUFFICES ASSUME NEW j \in Keys, j \notin Exposed(c)' PROVE Current(j)'
    OBVIOUS
  <2>1. pc[c] = "demote" => j # key[c]
    BY <1>0, <1>5 DEF Exposed
  <2>2. CASE j = k
    <3>1. e.val = latest[k]
      BY <1>0, <1>1, <1>3, <2>1, <2>2
    <3> QED  BY <1>0, <1>1, <1>4, <1>5, <2>2, <3>1 DEF Current
  <2>3. CASE j # k
    <3>1. Current(j)
      BY <1>0, <1>1, <2>1, <2>3 DEF Settled, Exposed
    <3>2. CASE j \in gone
      <4>1. j \notin InL2'
        BY <1>4, <2>3, <3>2
      <4>2. j \in InL1 => l1[j].val = latest[j]
        BY <3>1 DEF Current
      <4>3. j \notin InL1 => j \in dropped'
        BY <1>4, <3>2
      <4> QED  BY <1>0, <1>5, <4>1, <4>2, <4>3 DEF Current
    <3>3. CASE j \notin gone
      <4>1. (j \in InL2' <=> j \in InL2) /\ l2'[j] = l2[j] /\ (j \in dropped' <=> j \in dropped)
        BY <1>4, <2>3, <3>3
      <4> QED  BY <1>0, <1>5, <3>1, <4>1 DEF Current
    <3> QED  BY <3>2, <3>3
  <2> QED  BY <2>2, <2>3
<1>10. StageInv(c)'
  BY <1>0, <1>5 DEF StageInv, Putting, Promoting
<1> QED  BY <1>6, <1>7, <1>8, <1>9, <1>10 DEF Settled

\* The insertion that ends put, and the one that ends a promotion.
LEMMA InsertStep ==
  ASSUME NEW c \in Callers, Settled(c), PutInsert(c) \/ PromoteInsert(c)
  PROVE  Settled(c)'
<1> DEFINE k == key[c]
           e == entry[c]
<1>0. /\ TierTypes /\ Sized /\ NoNewer /\ StageInv(c) /\ pc[c] \in {"insert", "promoteinsert"}
      /\ l1' = [l1 EXCEPT ![k] = e]
      /\ UNCHANGED <<l2, shard, metrics, victim, puts, latest, dropped>>
  BY DEF Settled, PutInsert, PromoteInsert, Return, lockVars, history
<1>1. k \in Keys /\ e \in Entry \ {NoEntry} /\ e.val = latest[k] /\ Cardinality(InL1) < L1Max
  BY <1>0 DEF StageInv, Putting, Promoting
<1>2. /\ pc' \in [Callers -> Labels] /\ pc'[c] \in {"idle", "pop"}
      /\ pc'[c] = "pop" => key'[c] = k
      /\ key' \in [Callers -> Keys \cup {NoKey}]
  BY <1>0 DEF PutInsert, PromoteInsert, Goto, Return, TierTypes, Labels
<1>3. entry' \in [Callers -> [val : 0..MaxPuts, count : 0..Threshold]]
  <2>1. NoEntry \in [val : 0..MaxPuts, count : 0..Threshold]
    BY CacheAssumption DEF NoEntry
  <2>2. entry \in [Callers -> [val : 0..MaxPuts, count : 0..Threshold]]
    BY <1>0 DEF TierTypes
  <2>3. entry' = entry \/ entry' = [entry EXCEPT ![c] = NoEntry]
    BY DEF PutInsert, PromoteInsert, Return
  <2> QED  BY <2>1, <2>2, <2>3
<1>4. \A j \in Keys \ {k} : Current(j)
  <2>1. Exposed(c) \subseteq {k}
    BY <1>0 DEF Exposed
  <2> QED  BY <2>1 DEF Settled
<1> HIDE DEF k, e
<1>5. /\ l1' \in [Keys -> Entry] /\ InL1' = InL1 \cup {k}
      /\ Cardinality(InL1') = IF k \in InL1 THEN Cardinality(InL1) ELSE Cardinality(InL1) + 1
      /\ l1'[k] = e /\ \A j \in Keys \ {k} : l1'[j] = l1[j]
  BY <1>0, <1>1, EntersL1
<1>6. TierTypes'
  BY <1>0, <1>2, <1>3, <1>5 DEF TierTypes
<1>7. InL2' = InL2
  BY <1>0 DEF InL2
<1>8. Sized'
  BY <1>0, <1>1, <1>5, <1>7, SizedIs, SizedWillBe, TierNumbers
<1>9. NoNewer'
  BY <1>0, <1>1, <1>5, TierNumbers DEF NoNewer
<1>10. \A j \in Keys : Current(j)'
  <2>1. ASSUME NEW j \in Keys, j = k PROVE Current(j)'
    BY <1>0, <1>1, <1>5, <1>7, <2>1 DEF Current
  <2>2. ASSUME NEW j \in Keys \ {k} PROVE Current(j)'
    BY <1>0, <1>4, <1>5, <1>7 DEF Current
  <2> QED  BY <2>1, <2>2
<1>11. StageInv(c)'
  BY <1>1, <1>2, <1>5 DEF StageInv, Putting, Promoting
<1> QED  BY <1>6, <1>8, <1>9, <1>10, <1>11 DEF Settled

\* invalidate takes the key out of L1, then out of L2.
LEMMA InvalidateStep ==
  ASSUME NEW c \in Callers, Settled(c), InvalidateL1(c) \/ InvalidateL2(c)
  PROVE  Settled(c)'
<1> DEFINE k == key[c]
<1>0. /\ TierTypes /\ Sized /\ NoNewer /\ StageInv(c) /\ pc[c] \in {"invalidate", "invalidate2"} /\ k \in Keys
      /\ UNCHANGED <<shard, metrics, victim, puts>>
  BY DEF Settled, StageInv, InvalidateL1, InvalidateL2, Return, Forget, lockVars, history
<1>1. \A j \in Keys \ {k} : Current(j)
  <2>1. Exposed(c) \subseteq {k}
    BY <1>0 DEF Exposed
  <2> QED  BY <2>1 DEF Settled
<1>2. CASE InvalidateL1(c)
  <2>1. /\ l1' = [l1 EXCEPT ![k] = NoEntry] /\ pc' = [pc EXCEPT ![c] = "invalidate2"]
        /\ UNCHANGED <<l2, key, entry, latest, dropped>>
    BY <1>2 DEF InvalidateL1, Goto, history
  <2>2. /\ pc' \in [Callers -> Labels] /\ pc'[c] = "invalidate2" /\ InL2' = InL2 /\ key'[c] = k
    BY <1>0, <2>1 DEF TierTypes, Labels, InL2
  <2>3. k \in Exposed(c)'
    BY <1>0, <2>2 DEF Exposed
  <2> HIDE DEF k
  <2>4. /\ l1' \in [Keys -> Entry] /\ InL1' = InL1 \ {k}
        /\ Cardinality(InL1') = IF k \in InL1 THEN Cardinality(InL1) - 1 ELSE Cardinality(InL1)
        /\ l1'[k].val = 0 /\ \A j \in Keys \ {k} : l1'[j] = l1[j]
    BY <1>0, <2>1, LeavesL1
  <2>5. TierTypes'
    BY <1>0, <2>1, <2>2, <2>4 DEF TierTypes
  <2>6. Sized'
    BY <1>0, <2>2, <2>4, SizedIs, SizedWillBe, TierNumbers
  <2>7. NoNewer'
    BY <1>0, <2>1, <2>4, TierNumbers DEF NoNewer
  <2>8. ASSUME NEW j \in Keys \ {k} PROVE Current(j)'
    BY <1>0, <1>1, <2>1, <2>2, <2>4 DEF Current
  <2>9. StageInv(c)'
    BY <1>0, <2>2, <2>4 DEF StageInv, Putting, Promoting
  <2> QED  BY <2>3, <2>5, <2>6, <2>7, <2>8, <2>9 DEF Settled
<1>3. CASE InvalidateL2(c)
  <2>1. /\ l2' = [l2 EXCEPT ![k] = NoEntry] /\ l1' = l1
        /\ latest' = [j \in Keys |-> IF j \in {k} THEN 0 ELSE latest[j]] /\ dropped' = dropped \ {k}
        /\ key' = [key EXCEPT ![c] = NoKey] /\ entry' = [entry EXCEPT ![c] = NoEntry]
        /\ pc' = [pc EXCEPT ![c] = "idle"] /\ k \notin InL1
    BY <1>0, <1>3 DEF InvalidateL2, Return, Goto, Forget, StageInv
  <2>2. /\ pc' \in [Callers -> Labels] /\ pc'[c] = "idle" /\ InL1' = InL1
        /\ key' \in [Callers -> Keys \cup {NoKey}]
    BY <1>0, <2>1 DEF TierTypes, Labels, InL1
  <2>3. entry' \in [Callers -> [val : 0..MaxPuts, count : 0..Threshold]]
    <3>1. NoEntry \in [val : 0..MaxPuts, count : 0..Threshold]
      BY CacheAssumption DEF NoEntry
    <3> QED  BY <1>0, <2>1, <3>1 DEF TierTypes
  <2> HIDE DEF k
  <2>4. /\ l2' \in [Keys -> Entry] /\ InL2' = InL2 \ {k} /\ Cardinality(InL2') <= Cardinality(InL2)
        /\ l2'[k].val = 0 /\ \A j \in Keys \ {k} : l2'[j] = l2[j]
    BY <1>0, <2>1, LeavesL2
  <2>5. latest'[k] = 0 /\ \A j \in Keys \ {k} : latest'[j] = latest[j]
    BY <1>0, <2>1
  <2>6. latest' \in [Keys -> 0..MaxPuts] /\ dropped' \in SUBSET Keys
    BY <1>0, <2>1, CacheAssumption DEF TierTypes
  <2>7. TierTypes'
    BY <1>0, <2>1, <2>2, <2>3, <2>4, <2>6 DEF TierTypes
  <2>8. Sized'
    <3>1. Cardinality(InL2') \in Nat
      BY HeldFinite DEF InL2, Held
    <3> QED  BY <1>0, <2>2, <2>4, <3>1, SizedIs, SizedWillBe, TierNumbers
  <2>9. NoNewer'
    <3>1. l1[k].val = 0
      BY <1>0, <2>1, TierNumbers
    <3> QED  BY <1>0, <2>1, <2>4, <2>5, <3>1, TierNumbers DEF NoNewer
  <2>10. \A j \in Keys : Current(j)'
    <3>1. ASSUME NEW j \in Keys, j = k PROVE Current(j)'
      BY <2>1, <2>2, <2>4, <2>5, <3>1 DEF Current
    <3>2. ASSUME NEW j \in Keys \ {k} PROVE Current(j)'
      BY <1>1, <2>1, <2>2, <2>4, <2>5 DEF Current
    <3> QED  BY <3>1, <3>2
  <2>11. StageInv(c)'
    BY <2>2 DEF StageInv, Putting, Promoting
  <2> QED  BY <2>7, <2>8, <2>9, <2>10, <2>11 DEF Settled
<1> QED  BY <1>2, <1>3

\* clear empties L1, then L2.
LEMMA ClearStep ==
  ASSUME NEW c \in Callers, Settled(c), ClearL1(c) \/ ClearL2(c)
  PROVE  Settled(c)'
<1>0. /\ TierTypes /\ Sized /\ NoNewer /\ StageInv(c) /\ pc[c] \in {"clear", "clear2"}
      /\ UNCHANGED <<shard, metrics, key, entry, victim, puts>>
  BY DEF Settled, ClearL1, ClearL2, Forget, lockVars, history
<1>1. \A f : (\A k \in Keys : f[k] = NoEntry) => Cardinality(Held(f)) = 0
  <2>1. \A f : (\A k \in Keys : f[k] = NoEntry) => Held(f) = {}
    BY DEF Held
  <2> QED  BY <2>1, FS_EmptySet
<1>2. CASE ClearL1(c)
  <2>1. /\ l1' = [k \in Keys |-> NoEntry] /\ pc' = [pc EXCEPT ![c] = "clear2"]
        /\ UNCHANGED <<l2, latest, dropped>>
    BY <1>2 DEF ClearL1, Goto, history
  <2>2. /\ pc' \in [Callers -> Labels] /\ pc'[c] = "clear2" /\ InL2' = InL2
    BY <1>0, <2>1 DEF TierTypes, Labels, InL2
  <2>3. /\ l1' \in [Keys -> Entry] /\ \A k \in Keys : l1'[k] = NoEntry /\ l1'[k].val = 0
    BY <2>1, EntryFacts
  <2>4. InL1' = {} /\ Cardinality(InL1') = 0
    BY <2>3, FS_EmptySet DEF InL1
  <2>5. TierTypes'
    BY <1>0, <2>1, <2>2, <2>3 DEF TierTypes
  <2>6. Sized'
    BY <1>0, <2>2, <2>4, SizedIs, SizedWillBe, TierNumbers
  <2>7. NoNewer'
    BY <1>0, <2>1, <2>3, TierNumbers DEF NoNewer
  <2>8. Keys \ Exposed(c)' = {}
    BY <2>2 DEF Exposed
  <2>9. StageInv(c)'
    BY <2>2, <2>4 DEF StageInv, Putting, Promoting
  <2> QED  BY <2>5, <2>6, <2>7, <2>8, <2>9 DEF Settled
<1>3. CASE ClearL2(c)
  <2>1. /\ l2' = [k \in Keys |-> NoEntry] /\ pc' = [pc EXCEPT ![c] = "cleared"] /\ l1' = l1
        /\ latest' = [k \in Keys |-> IF k \in Keys THEN 0 ELSE latest[k]] /\ dropped' = dropped \ Keys
        /\ InL1 = {}
    BY <1>0, <1>3 DEF ClearL2, Goto, Forget, StageInv
  <2>2. /\ pc' \in [Callers -> Labels] /\ pc'[c] = "cleared" /\ InL1' = InL1
    BY <1>0, <2>1 DEF TierTypes, Labels, InL1
  <2>3. /\ l2' \in [Keys -> Entry] /\ \A k \in Keys : l2'[k] = NoEntry /\ l2'[k].val = 0 /\ latest'[k] = 0
    BY <2>1, EntryFacts
  <2>4. InL2' = {} /\ Cardinality(InL2') = 0
    BY <2>3, FS_EmptySet DEF InL2
  <2>5. TierTypes'
    <3>1. latest' \in [Keys -> 0..MaxPuts] /\ dropped' \in SUBSET Keys
      BY <1>0, <2>1, CacheAssumption DEF TierTypes
    <3> QED  BY <1>0, <2>1, <2>2, <2>3, <3>1 DEF TierTypes
  <2>6. Sized'
    BY <1>0, <2>2, <2>4, SizedIs, SizedWillBe, TierNumbers
  <2>7. NoNewer'
    <3>1. \A k \in Keys : l1[k].val = 0
      BY <1>0, <2>1, TierNumbers
    <3> QED  BY <1>0, <2>1, <2>3, <3>1, TierNumbers DEF NoNewer
  <2>8. \A k \in Keys : Current(k)'
    BY <2>1, <2>2, <2>3, <2>4 DEF Current
  <2>9. StageInv(c)'
    BY <2>2 DEF StageInv, Putting, Promoting
  <2> QED  BY <2>5, <2>6, <2>7, <2>8, <2>9 DEF Settled
<1> QED  BY <1>2, <1>3

\* evict_older_than takes the keys it collected out of L1, one by one.
LEMMA EvictL1Step ==
  ASSUME NEW c \in Callers, Settled(c), EvictL1(c)
  PROVE  Settled(c)'
<1>0. /\ TierTypes /\ Sized /\ NoNewer /\ StageInv(c) /\ pc[c] = "age1" /\ Settled(c)
      /\ UNCHANGED <<l2, shard, metrics, key, entry, puts, latest, dropped>>
  BY DEF Settled, EvictL1, lockVars, history
<1>1. \A k \in Keys : IF latest[k] <= entry[c].val THEN k \in InL1 => k \in victim[c].keys
                                                   ELSE k \notin victim[c].keys
  BY <1>0 DEF StageInv
<1>2. CASE victim[c].keys = {} /\ pc' = [pc EXCEPT ![c] = "age2"] /\ UNCHANGED <<l1, victim>>
  <2>1. /\ pc' \in [Callers -> Labels] /\ pc'[c] = "age2" /\ InL1' = InL1 /\ InL1 \subseteq Keys
    BY <1>0, <1>2 DEF TierTypes, Labels, InL1
  <2>2. TierTypes'
    BY <1>0, <1>2, <2>1 DEF TierTypes
  <2>3. Exposed(c) \subseteq Exposed(c)'
    BY <1>0, <2>1 DEF Exposed
  <2>4. \A k \in InL1 : latest[k] > entry[c].val
    <3>1. \A k \in InL1 : ~(latest[k] <= entry[c].val)
      BY <1>1, <1>2, <2>1
    <3>2. entry[c].val \in Nat
      BY <1>0, CacheAssumption DEF TierTypes
    <3> QED  BY <1>0, <2>1, <3>1, <3>2, TierNumbers
  <2>5. StageInv(c)'
    BY <1>0, <2>1, <2>4 DEF StageInv, Putting, Promoting
  <2> QED  BY <1>0, <1>2, <2>2, <2>3, <2>5, TiersRest
<1>3. CASE \E k \in victim[c].keys :
             /\ shard[k] = Free
             /\ l1' = [l1 EXCEPT ![k] = NoEntry]
             /\ victim' = [victim EXCEPT ![c].keys = @ \ {k}]
             /\ UNCHANGED pc
  <2>1. PICK k \in victim[c].keys : /\ l1' = [l1 EXCEPT ![k] = NoEntry]
                                    /\ victim' = [victim EXCEPT ![c].keys = @ \ {k}]
                                    /\ pc' = pc
    BY <1>3
  <2>2. victim \in [Callers -> [keys : SUBSET Keys, e : Entry]] /\ k \in Keys
    BY <1>0 DEF TierTypes
  <2>3. /\ victim' \in [Callers -> [keys : SUBSET Keys, e : Entry]]
        /\ victim'[c].keys = victim[c].keys \ {k} /\ InL2' = InL2
    BY <1>0, <2>1, <2>2 DEF InL2
  <2>4. /\ l1' \in [Keys -> Entry] /\ InL1' = InL1 \ {k}
        /\ Cardinality(InL1') = IF k \in InL1 THEN Cardinality(InL1) - 1 ELSE Cardinality(InL1)
        /\ l1'[k].val = 0 /\ \A j \in Keys \ {k} : l1'[j] = l1[j]
    BY <1>0, <2>1, <2>2, LeavesL1
  <2>5. TierTypes'
    BY <1>0, <2>1, <2>3, <2>4 DEF TierTypes
  <2>6. Sized'
    BY <1>0, <2>3, <2>4, SizedIs, SizedWillBe, TierNumbers
  <2>7. NoNewer'
    BY <1>0, <2>2, <2>4, TierNumbers DEF NoNewer
  <2>8. k \in Exposed(c)' /\ Exposed(c)' = Exposed(c)
    BY <1>0, <1>1, <2>1, <2>2 DEF Exposed
  <2>9. \A j \in Keys \ Exposed(c)' : Current(j)'
    <3> SUFFICES ASSUME NEW j \in Keys, j \notin Exposed(c)' PROVE Current(j)'
      OBVIOUS
    <3>1. j # k /\ Current(j)
      BY <2>8 DEF Settled
    <3> QED  BY <1>0, <2>3, <2>4, <3>1 DEF Current
  <2>10. StageInv(c)'
    <3>1. \A j \in Keys : IF latest[j] <= entry[c].val THEN j \in InL1' => j \in victim'[c].keys
                                                       ELSE j \notin victim'[c].keys
      BY <1>1, <2>3, <2>4
    <3> QED  BY <1>0, <2>1, <3>1 DEF StageInv, Putting, Promoting
  <2> QED  BY <2>5, <2>6, <2>7, <2>9, <2>10 DEF Settled
<1> QED  BY <1>2, <1>3 DEF EvictL1, Goto

\* Then L2 is swept: what is as old there is older than its key's value, or is it.
LEMMA EvictL2Step ==
  ASSUME NEW c \in Callers, Settled(c), EvictL2(c)
  PROVE  Settled(c)'
<1>0. /\ TierTypes /\ Sized /\ NoNewer /\ StageInv(c) /\ pc[c] = "age2"
      /\ UNCHANGED <<l1, shard, metrics, victim, puts>>
  BY DEF Settled, EvictL2, Forget, Return, lockVars
<1>1. PICK cutoff \in Nat : cutoff = entry[c].val
  BY <1>0, CacheAssumption DEF TierTypes
<1>2. /\ l2' = [k \in Keys |-> IF l2[k].val <= cutoff THEN NoEntry ELSE l2[k]]
      /\ latest' = [k \in Keys |-> IF k \in {j \in Keys : latest[j] <= cutoff} THEN 0 ELSE latest[k]]
      /\ dropped' = dropped \ {j \in Keys : latest[j] <= cutoff}
      /\ pc' = [pc EXCEPT ![c] = "idle"] /\ key' = [key EXCEPT ![c] = NoKey]
      /\ entry' = [entry EXCEPT ![c] = NoEntry]
  BY <1>1 DEF EvictL2, Forget, Return, Goto
<1>3. \A k \in Keys : /\ l2'[k] = IF l2[k].val <= cutoff THEN NoEntry ELSE l2[k]
                      /\ latest'[k] = IF latest[k] <= cutoff THEN 0 ELSE latest[k]
                      /\ latest[k] <= cutoff => k \notin dropped' /\ k \notin InL1
                      /\ latest[k] > cutoff => (k \in dropped' <=> k \in dropped) /\ Current(k)
  <2> SUFFICES ASSUME NEW k \in Keys
               PROVE  /\ l2'[k] = IF l2[k].val <= cutoff THEN NoEntry ELSE l2[k]
                      /\ latest'[k] = IF latest[k] <= cutoff THEN 0 ELSE latest[k]
                      /\ latest[k] <= cutoff => k \notin dropped' /\ k \notin InL1
                      /\ latest[k] > cutoff => (k \in dropped' <=> k \in dropped) /\ Current(k)
    OBVIOUS
  <2>1. latest[k] \in Nat
    BY <1>0, TierNumbers
  <2>2. k \in InL1 => latest[k] > cutoff
    BY <1>0, <1>1 DEF StageInv
  <2>3. latest[k] > cutoff => k \notin Exposed(c)
    BY <1>0, <1>1, <2>1 DEF Exposed
  <2>4. latest[k] > cutoff => Current(k)
    BY <2>3 DEF Settled
  <2> QED  BY <1>1, <1>2, <2>1, <2>2, <2>4
<1>4. \A k \in Keys : l2'[k] \in Entry /\ l2'[k].val <= latest'[k] /\ l1[k].val <= latest'[k] /\ latest'[k] <= puts
  <2> SUFFICES ASSUME NEW k \in Keys
               PROVE  l2'[k] \in Entry /\ l2'[k].val <= latest'[k] /\ l1[k].val <= latest'[k] /\ latest'[k] <= puts
    OBVIOUS
  <2>1. /\ l1[k].val \in Nat /\ l2[k].val \in Nat /\ latest[k] \in Nat /\ puts \in Nat
        /\ l1[k].val <= latest[k] /\ l2[k].val <= latest[k] /\ latest[k] <= puts
        /\ (k \in InL1 <=> l1[k].val # 0) /\ l2[k] \in Entry
    BY <1>0, TierNumbers DEF NoNewer, TierTypes
  <2>2. CASE latest[k] <= cutoff
    <3>1. latest'[k] = 0 /\ l2'[k] = NoEntry /\ l1[k].val = 0
      BY <1>1, <1>3, <2>1, <2>2
    <3> QED  BY <2>1, <3>1, EntryFacts
  <2>3. CASE latest[k] > cutoff
    <3>1. latest'[k] = latest[k] /\ (l2'[k] = NoEntry \/ l2'[k] = l2[k])
      BY <1>1, <1>3, <2>1, <2>3
    <3> QED  BY <2>1, <3>1, EntryFacts
  <2> QED  BY <1>1, <2>1, <2>2, <2>3
<1>5. l2' \in [Keys -> Entry]
  BY <1>2, <1>4
<1>6. /\ pc' \in [Callers -> Labels] /\ pc'[c] = "idle" /\ InL1' = InL1
      /\ key' \in [Callers -> Keys \cup {NoKey}]
  BY <1>0, <1>2 DEF TierTypes, Labels, InL1
<1>7. entry' \in [Callers -> [val : 0..MaxPuts, count : 0..Threshold]]
  <2>1. NoEntry \in [val : 0..MaxPuts, count : 0..Threshold]
    BY CacheAssumption DEF NoEntry
  <2> QED  BY <1>0, <1>2, <2>1 DEF TierTypes
<1>8. latest' \in [Keys -> 0..MaxPuts] /\ dropped' \in SUBSET Keys
  BY <1>0, <1>2, CacheAssumption DEF TierTypes
<1>9. TierTypes'
  BY <1>0, <1>5, <1>6, <1>7, <1>8 DEF TierTypes
<1>10. \A k \in Keys : k \in InL2' <=> k \in InL2 /\ ~(l2[k].val <= cutoff)
  BY <1>3 DEF InL2
<1>11. Sized'
  <2>1. Held(l2') \subseteq Held(l2)
    BY <1>3 DEF Held
  <2>2. Cardinality(Held(l2')) <= Cardinality(Held(l2))
    BY <2>1, HeldShrinks
  <2>3. Cardinality(Held(l2')) \in Nat /\ Cardinality(Held(l2)) \in Nat /\ L2Max \in Nat
    BY HeldFinite, CacheAssumption
  <2>4. Cardinality(Held(l2')) <= L2Max
    BY <1>0, <2>2, <2>3 DEF Sized
  <2>5. Held(l1') = Held(l1)
    BY <1>0
  <2> QED  BY <1>0, <2>4, <2>5 DEF Sized
<1>12. NoNewer'
  BY <1>0, <1>4 DEF NoNewer
<1>13. \A k \in Keys : Current(k)'
  <2> SUFFICES ASSUME NEW k \in Keys PROVE Current(k)'
    OBVIOUS
  <2>1. l2[k].val \in Nat /\ latest[k] \in Nat /\ l2[k].val <= latest[k]
    BY <1>0, TierNumbers DEF NoNewer
  <2>2. CASE latest[k] <= cutoff
    <3>1. k \notin InL1' /\ k \notin InL2' /\ latest'[k] = 0
      BY <1>1, <1>3, <1>6, <1>10, <2>1, <2>2
    <3> QED  BY <3>1 DEF Current
  <2>3. CASE latest[k] > cutoff
    <3>1. /\ latest'[k] = latest[k] /\ Current(k) /\ (k \in dropped' <=> k \in dropped)
          /\ l1' = l1 /\ (k \in InL1' <=> k \in InL1)
      BY <1>0, <1>1, <1>3, <1>6, <2>1, <2>3
    <3>2. CASE k \in InL1
      BY <3>1, <3>2 DEF Current
    <3>3. CASE k \notin InL1 /\ k \in InL2
      <4>1. l2[k].val = latest[k]
        BY <3>1, <3>3 DEF Current
      <4>2. k \in InL2' /\ l2'[k] = l2[k]
        BY <1>1, <1>3, <1>10, <2>1, <2>3, <3>3, <4>1
      <4> QED  BY <3>1, <3>3, <4>1, <4>2 DEF Current
    <3>4. CASE k \notin InL1 /\ k \notin InL2
      <4>1. k \notin InL2'
        BY <1>10, <3>4
      <4> QED  BY <3>1, <3>4, <4>1 DEF Current
    <3> QED  BY <3>2, <3>3, <3>4
  <2> QED  BY <1>1, <2>1, <2>2, <2>3
<1>14. StageInv(c)'
  BY <1>6 DEF StageInv, Putting, Promoting
<1> QED  BY <1>9, <1>11, <1>12, <1>13, <1>14 DEF Settled

-----------------------------------------------------------------------------
(* MultiTierCache: the theorem.                                              *)

LEMMA TierInitially == TierInit => TierInv
<1> SUFFICES ASSUME TierInit PROVE TierInv
  OBVIOUS
<1> USE DEF TierInit
<1>0. MaxPuts \in Nat /\ L1Max \in Nat \ {0} /\ L2Max \in Nat \ {0} /\ Threshold \in Nat \ {0}
  BY CacheAssumption
<1>1. InL1 = {} /\ InL2 = {} /\ NoEntry.val = 0
  BY EntryFacts DEF InL1, InL2
<1>2. TierTypeOK
  <2>1. Cardinality(InL1) <= L1Max /\ Cardinality(InL2) <= L2Max
    BY <1>0, <1>1, FS_EmptySet
  <2>2. NoEntry \in [val : 0..MaxPuts, count : 0..Threshold]
    BY <1>0 DEF NoEntry
  <2>3. victim \in [Callers -> [keys : SUBSET Keys, e : Entry]]
    BY EntryFacts DEF NoVictim
  <2>4. pc \in [Callers -> Labels]
    BY DEF Labels
  <2> QED  BY <1>0, <2>1, <2>2, <2>3, <2>4, EntryFacts DEF TierTypeOK
<1>3. \A k \in Keys : l1[k].val <= latest[k] /\ l2[k].val <= latest[k] /\ latest[k] <= puts
  BY <1>1
<1>4. \A k \in Keys : Current(k)
  BY <1>1 DEF Current
<1>5. \A c \in Callers : StageInv(c)
  BY DEF StageInv, Putting, Promoting
<1> QED  BY <1>2, <1>3, <1>4, <1>5 DEF TierInv, TierMutex

\* With the Mutex one operation is in progress at a time.
LEMMA TierStep ==
  ASSUME Mutexed, TierInv, NEW c \in Callers,
         \/ \E k \in Keys : BeginGet(c, k) \/ BeginPut(c, k) \/ BeginInvalidate(c, k)
         \/ BeginMetrics(c) \/ BeginClear(c) \/ BeginEvict(c)
         \/ Run(c)
  PROVE  TierInv'
<1>1. \A d \in Callers \ {c} : pc[d] = "idle"
  <2>1. CASE pc[c] # "idle"
    BY <2>1 DEF TierInv, TierMutex
  <2>2. CASE pc[c] = "idle"
    <3>1. ~Run(c)
      BY <2>2 DEF Run, GetL1Hit, GetL1Return, GetL1Miss, GetL2Hit, GetMiss, PopPromoted, GetL2Return,
         RoomInL1, ChooseVictim, RemoveVictim, Demote, CountEviction, PutInsert, PromoteInsert, InvalidateL1,
         InvalidateL2, ClearL1, ClearL2, ClearMetrics, EvictScan, EvictL1, EvictL2, GetMetrics, Sizes, Inserting
    <3> QED  BY <3>1 DEF BeginGet, BeginPut, BeginInvalidate, BeginMetrics, BeginClear, BeginEvict, Begin
  <2> QED  BY <2>1, <2>2
<1>2. Settled(c)
  BY <1>1, SettleOne
<1>3. Settled(c)'
  BY <1>2, BeginStep, BeginPutStep, GetQuietStep, InsertQuietStep, OtherQuietStep, EvictScanStep, HitStep,
     PopStep, RemoveVictimStep, DemoteStep, InsertStep, InvalidateStep, ClearStep, EvictL1Step, EvictL2Step
  DEF Run
<1>4. \A d \in Callers \ {c} : pc'[d] = "idle"
  <2>1. pc \in [Callers -> Labels]
    BY DEF TierInv, TierTypeOK
  <2>2. \E l : pc' = [pc EXCEPT ![c] = l]
    <3>1. CASE \/ \E k \in Keys : BeginGet(c, k) \/ BeginPut(c, k) \/ BeginInvalidate(c, k)
               \/ BeginMetrics(c) \/ BeginClear(c) \/ BeginEvict(c)
      BY <3>1 DEF BeginGet, BeginPut, BeginInvalidate, BeginMetrics, BeginClear, BeginEvict, Begin, Goto
    <3>2. CASE Run(c) /\ ~EvictL1(c)
      BY <3>2 DEF Run, GetL1Hit, GetL1Return, GetL1Miss, GetL2Hit, GetMiss, PopPromoted, GetL2Return,
         RoomInL1, ChooseVictim, RemoveVictim, Demote, CountEviction, PutInsert, PromoteInsert, InvalidateL1,
         InvalidateL2, ClearL1, ClearL2, ClearMetrics, EvictScan, EvictL2, GetMetrics, Sizes, Goto, Return
    <3>3. CASE EvictL1(c)
      <4>1. pc = [pc EXCEPT ![c] = pc[c]]
        BY <2>1
      <4> QED  BY <3>3, <4>1 DEF EvictL1, Goto
    <3> QED  BY <3>1, <3>2, <3>3
  <2> QED  BY <1>1, <2>1, <2>2
<1> QED  BY <1>3, <1>4, UnsettleOne

\* For any callers, keys, sizes of the tiers and numbers of puts, with the cache under
\* one Mutex as EnhancedRegexProcessor has it (regex_processor.rs): promotion and
\* demotion keep both tiers within their limits, and between operations a get finds what
\* the last put wrote, unless L2 had no room for it (cache.rs).
THEOREM TiersAreTruthful == ASSUME Mutexed PROVE TierSpec => []TiersTruthful
<1>1. TierInv /\ [TierNext]_tierVars => TierInv'
  <2> SUFFICES ASSUME TierInv, [TierNext]_tierVars PROVE TierInv'
    OBVIOUS
  <2>1. CASE TierNext
    BY <2>1, TierStep DEF TierNext
  <2>2. CASE UNCHANGED tierVars
    BY <2>2 DEF TierInv, tierVars, TierTypeOK, TierMutex, Current, Exposed, StageInv, InL1, InL2
  <2> QED  BY <2>1, <2>2
<1>2. TierInv => TiersTruthful
  <2> SUFFICES ASSUME TierInv PROVE TiersTruthful
    OBVIOUS
  <2>1. ASSUME Quiet PROVE \A k \in Keys : Current(k)
    BY <2>1 DEF Quiet, TierInv, Exposed
  <2> QED  BY <2>1 DEF TiersTruthful, TopCopyIsLatest, NothingLost, Current, TierInv
<1> QED  BY <1>1, <1>2, TierInitially, PTL DEF TierSpec

-----------------------------------------------------------------------------
(* Both of them beside each other, as the model checker runs them.           *)

\* A behaviour of the composition is one of the scheduler and one of the cache, so
\* both properties hold of it.
THEOREM BothAreSound ==
  ASSUME FreshIds, Mutexed PROVE BothSpec => [](TasksAccounted /\ TiersTruthful)
<1>1. BothInit => Init /\ TierInit
  BY DEF BothInit, RestingScheduler
<1>2. [BothNext]_bothVars => [Next]_vars /\ [TierNext]_tierVars
  BY DEF BothNext, bothVars, Stealing, Tiers
<1>3. BothSpec => Spec /\ TierSpec
  BY <1>1, <1>2, PTL DEF BothSpec, Spec, TierSpec
<1> QED  BY <1>3, StealingAccounts, TiersAreTruthful, PTL

=============================================================================
