------------------------- MODULE HookPipelineProofs -------------------------
(***************************************************************************)
(* What one run of the engine promises, whatever the hooks, their kinds,   *)
(* dependencies and outcomes and whichever of the entry points is called.  *)
(***************************************************************************)
EXTENDS HookPipeline, FiniteSetTheorems, SequenceTheorems, TLAPS

HasWork(h) == Matches(h) \/ AlwaysRun(h)
Parallel == cfg.strategy = "auto" /\ UseParallel
Underway == phase \in {"setup", "parallel", "run", "done"}
Tried(h) == \E i \in 1..(next - 1) : order[i] = h
ExecStates == {"idle", "started", "prepared"} \cup TaskOutcomes

OneEach(s) ==
    /\ \A i, j \in 1..Len(s) : s[i] = s[j] => i = j
    /\ \A h \in Hooks : \E i \in 1..Len(s) : s[i] = h

\* Before anything has happened.
StartInv ==
    phase = "start" =>
        /\ order = <<>> /\ next = 1 /\ cur = "idle" /\ log = <<>>
        /\ passed = <<>> /\ failed = <<>> /\ skipped = <<>> /\ success = TRUE
        /\ task = [h \in Hooks |-> "none"]

\* Which hooks come when, and which of the two ways the run takes.
OrderInv ==
    /\ Underway => OneEach(order)
    /\ Underway /\ cfg.strategy = "auto" => DependenciesFirst(order)
    /\ phase \in {"setup", "parallel"} => Parallel
    /\ ~Parallel => task = [h \in Hooks |-> "none"]
    /\ cur # "idle" => ~Parallel /\ phase \in {"run", "error"} /\ next <= Len(order)
    /\ Parallel /\ phase \in {"run", "done"} =>
          next = Len(order) + 1 /\ \A h \in Hooks : task[h] \in TaskOutcomes
    /\ phase \in {"setup", "parallel"} =>
          next = 1 /\ passed = <<>> /\ failed = <<>> /\ skipped = <<>> /\ success = TRUE
    /\ phase = "done" => next = Len(order) + 1

\* Who is in the lists: one by one, those who had their turn; and all at once.
CountInv ==
    /\ ~Parallel /\ cfg.strategy \in {"auto", "pooled"} /\ phase \in {"run", "done"} =>
          /\ failed \in Seq(Hooks)
          /\ \A h \in Hooks : Reported(h) = IF Tried(h) THEN 1 ELSE 0
    /\ Parallel /\ phase \in {"run", "done"} =>
          /\ \A h \in Hooks :
                /\ Occurrences(passed, h) = IF task[h] = "passed" THEN 1 ELSE 0
                /\ Occurrences(skipped, h) = IF task[h] = "skipped" THEN 1 ELSE 0
                /\ Occurrences(failed, h) =
                      IF task[h] \in {"failed", "default", "error"} THEN 1 ELSE 0
          /\ Occurrences(failed, Unknown) = Cardinality(EndedWith({"timeout"}))

\* What a skip, a success and fail_fast are good for.
VerdictInv ==
    /\ cur = "skipped" => ~HasWork(Current)
    /\ \A h \in Hooks : task[h] = "skipped" => ~HasWork(h)
    /\ cfg.strategy = "auto" /\ phase \in {"run", "done"} /\ success =>
          failed = <<>> /\ \A h \in Hooks : HasWork(h) => Occurrences(skipped, h) = 0
    /\ cfg.strategy = "auto" /\ cfg.failFast /\ phase = "run" /\ cur # "idle" => success
    /\ cfg.strategy = "arena" /\ cfg.failFast /\ phase = "run" /\ next <= Len(order) =>
          failed = <<>>

EventNames == {"PipelineStarted", "PipelineCompleted", "HookStarted", "FilesProcessed"} \cup Terminal

\* Whose events are on the bus: hooks that had their turn, and the current one as
\* far as it got.
LogInv ==
    /\ log \in Seq(EventNames \X (Hooks \cup {Unknown}))
    /\ Underway /\ cfg.strategy # "pooled" => log # <<>>
    /\ phase \in {"setup", "parallel", "run"} => \A i \in 1..Len(log) : log[i][2] \in Hooks =>
          \E k \in 1..next : k <= Len(order) /\ order[k] = log[i][2] /\ (k = next => cur # "idle")
    /\ Parallel => \A i \in 1..Len(log) : log[i][2] \notin Hooks
    /\ phase = "run" /\ cur \in {"started", "prepared"} =>
          /\ \E i \in 1..Len(log) : log[i][2] = Current
          /\ \A i \in 1..Len(log) : log[i][2] = Current => log[i][1] \notin Terminal

IInv ==
    /\ TypeOK /\ StartInv /\ OrderInv /\ CountInv /\ VerdictInv
    /\ LogInv /\ EventDiscipline

-----------------------------------------------------------------------------
(* Sequences: how often a hook is in one, and those that list a set        *)

\* The number of occurrences is a number.
LEMMA OccType ==
  ASSUME NEW S, NEW s \in Seq(S), NEW h
  PROVE  Occurrences(s, h) \in Nat
<1>1. Len(s) \in Nat
  BY LenProperties
<1>2. IsFiniteSet(1..Len(s)) /\ {i \in 1..Len(s) : s[i] = h} \in SUBSET (1..Len(s))
  BY <1>1, FS_Interval
<1>3. IsFiniteSet({i \in 1..Len(s) : s[i] = h})
  BY <1>2, FS_Subset
<1> QED  BY <1>3, FS_CardinalityType DEF Occurrences

\* What is not in a sequence does not occur in it.
LEMMA OccAbsent ==
  ASSUME NEW S, NEW s \in Seq(S), NEW h, \A i \in 1..Len(s) : s[i] # h
  PROVE  Occurrences(s, h) = 0
<1>1. {i \in 1..Len(s) : s[i] = h} = {}
  OBVIOUS
<1> QED  BY <1>1, FS_EmptySet DEF Occurrences

LEMMA OccEmpty == \A h : Occurrences(<<>>, h) = 0
<1> SUFFICES ASSUME NEW h PROVE Occurrences(<<>>, h) = 0
  OBVIOUS
<1>1. {i \in 1..Len(<<>>) : <<>>[i] = h} = {}
  OBVIOUS
<1> QED  BY <1>1, FS_EmptySet DEF Occurrences

\* An appended element occurs once more, the others as often as before.
LEMMA OccAppend ==
  ASSUME NEW S, NEW s \in Seq(S), NEW x \in S, NEW h
  PROVE  Occurrences(Append(s, x), h) = Occurrences(s, h) + (IF x = h THEN 1 ELSE 0)
<1> DEFINE t == Append(s, x)
           A == {i \in 1..Len(s) : s[i] = h}
           B == {i \in 1..Len(t) : t[i] = h}
<1>1. /\ Len(s) \in Nat /\ Len(t) = Len(s) + 1 /\ t[Len(s) + 1] = x
      /\ \A i \in 1..Len(s) : t[i] = s[i]
  BY AppendProperties, LenProperties
<1>2. IsFiniteSet(1..Len(s)) /\ A \in SUBSET (1..Len(s))
  BY <1>1, FS_Interval
<1>3. IsFiniteSet(A) /\ Cardinality(A) \in Nat
  BY <1>2, FS_Subset, FS_CardinalityType
<1>4. Len(s) + 1 \notin A
  BY <1>1
<1>5. CASE x = h
  <2>1. B = A \cup {Len(s) + 1}
    BY <1>1, <1>5
  <2> QED  BY <2>1, <1>3, <1>4, <1>5, FS_AddElement DEF Occurrences
<1>6. CASE x # h
  <2>1. B = A
    BY <1>1, <1>6
  <2> HIDE DEF A, B
  <2>2. Cardinality(B) = Cardinality(A) + 0
    BY <2>1, <1>3
  <2> QED  BY <2>2, <1>6 DEF Occurrences, A, B
<1> QED  BY <1>5, <1>6

\* A sequence that has each hook at one place has it once.
LEMMA OccOnce ==
  ASSUME NEW S, NEW s \in Seq(S), NEW k \in 1..Len(s),
         \A i \in 1..Len(s) : s[i] = s[k] => i = k
  PROVE  Occurrences(s, s[k]) = 1
<1>1. {i \in 1..Len(s) : s[i] = s[k]} = {k}
  OBVIOUS
<1> QED  BY <1>1, FS_Singleton DEF Occurrences

LEMMA FunctionIsSeq ==
  ASSUME NEW S, NEW n \in Nat, NEW s \in [1..n -> S]
  PROVE  s \in Seq(S) /\ Len(s) = n
BY SeqDef, LenProperties

\* A sequence as long as there are hooks that has them all has each once.
LEMMA PermutationOneEach ==
  ASSUME NEW s \in [1..Cardinality(Hooks) -> Hooks],
         \A h \in Hooks : \E i \in 1..Cardinality(Hooks) : s[i] = h
  PROVE  s \in Seq(Hooks) /\ Len(s) = Cardinality(Hooks) /\ OneEach(s)
<1> DEFINE n == Cardinality(Hooks)
<1>1. IsFiniteSet(Hooks) /\ n \in Nat
  BY PipelineAssumption, FS_CardinalityType
<1>2. s \in Seq(Hooks) /\ Len(s) = n
  BY <1>1, FunctionIsSeq
<1>3. IsFiniteSet(1..n) /\ Cardinality(1..n) = n
  BY <1>1, FS_Interval
<1>4. s \in Surjection(1..n, Hooks)
  BY DEF Surjection
<1>5. s \in Injection(1..n, Hooks)
  BY <1>3, <1>4, FS_SurjSameCardinalityImpliesInj
<1>6. \A i, j \in 1..n : s[i] = s[j] => i = j
  BY <1>5 DEF Injection, IsInjective
<1> HIDE DEF n
<1> QED  BY <1>2, <1>6 DEF OneEach, n

\* The configuration lists each hook once.
LEMMA ConfigOrderOneEach == ConfigOrder \in Seq(Hooks) /\ OneEach(ConfigOrder)
BY PipelineAssumption DEF OneEach

\* Whatever orders the hooks before a run has each of them once.
LEMMA OrdersOneEach ==
  /\ \A s \in ResolvedOrders : s \in Seq(Hooks) /\ OneEach(s)
  /\ \A s \in GroupedOrders : s \in Seq(Hooks) /\ OneEach(s)
<1>1. Cardinality(Hooks) \in Nat
  BY PipelineAssumption, FS_CardinalityType
<1>2. ASSUME NEW s \in [1..Cardinality(Hooks) -> Hooks], Permutation(s)
      PROVE  s \in Seq(Hooks) /\ OneEach(s)
  BY <1>1, <1>2, PermutationOneEach DEF Permutation
<1> QED  BY <1>2, ConfigOrderOneEach DEF ResolvedOrders, GroupedOrders

\* OfTask lists every hook whose task ended so, once, and no other.
LEMMA ListedOnce ==
  ASSUME order \in Seq(Hooks), OneEach(order), NEW o, NEW s \in OfTask(o)
  PROVE  /\ s \in Seq(EndedWith(o)) /\ Len(s) = Cardinality(EndedWith(o))
         /\ \A i, j \in 1..Len(s) : s[i] = s[j] => i = j
         /\ \A h \in EndedWith(o) : \E i \in 1..Len(s) : s[i] = h
         /\ \A h : Occurrences(s, h) = IF h \in EndedWith(o) THEN 1 ELSE 0
<1> DEFINE E == EndedWith(o)
           n == Cardinality(E)
<1>1. IsFiniteSet(E) /\ n \in Nat
  <2>1. IsFiniteSet(Hooks) /\ E \in SUBSET Hooks
    BY PipelineAssumption DEF EndedWith
  <2>2. IsFiniteSet(E)
    BY <2>1, FS_Subset
  <2> QED  BY <2>2, FS_CardinalityType
<1>2. s \in [1..n -> E]
  BY DEF OfTask
<1>3. s \in Seq(E) /\ Len(s) = n
  BY <1>1, <1>2, FunctionIsSeq
<1>4. IsFiniteSet(1..n) /\ Cardinality(1..n) = n
  BY <1>1, FS_Interval
<1>5. ASSUME NEW i \in 1..n, NEW j \in 1..n, s[i] = s[j]
      PROVE  i = j
  <2>1. \A a, b \in 1..n : a < b => Position(order, s[a]) < Position(order, s[b])
    BY <1>2 DEF OfTask
  <2>2. \A a, b \in 1..n : a < b => s[a] # s[b]
    <3> SUFFICES ASSUME NEW a \in 1..n, NEW b \in 1..n, a < b, s[a] = s[b]
                 PROVE  FALSE
      OBVIOUS
    <3>1. Position(order, s[a]) < Position(order, s[a])
      BY <2>1
    <3>2. s[a] \in Hooks
      BY <1>2 DEF EndedWith
    <3>3. Position(order, s[a]) \in 1..Len(order)
      BY <3>2 DEF Position, OneEach
    <3> QED  BY <3>1, <3>3
  <2> QED  BY <1>5, <2>2, <1>1
<1>6. s \in Injection(1..n, E)
  BY <1>2, <1>5 DEF Injection, IsInjective
<1>7. s \in Surjection(1..n, E)
  BY <1>1, <1>4, <1>6, FS_Injection
<1>8. \A h \in E : \E i \in 1..n : s[i] = h
  BY <1>7 DEF Surjection
<1>9. ASSUME NEW h
      PROVE  Occurrences(s, h) = IF h \in E THEN 1 ELSE 0
  <2>1. CASE h \in E
    <3>1. PICK k \in 1..n : s[k] = h
      BY <2>1, <1>8
    <3>2. \A i \in 1..Len(s) : s[i] = s[k] => i = k
      BY <1>3, <1>5
    <3> QED  BY <3>1, <3>2, <1>3, <2>1, OccOnce
  <2>2. CASE h \notin E
    <3>1. \A i \in 1..Len(s) : s[i] # h
      BY <1>2, <1>3, <2>2
    <3> QED  BY <3>1, <1>3, <2>2, OccAbsent
  <2> QED  BY <2>1, <2>2
<1> HIDE DEF n
<1> QED  BY <1>3, <1>5, <1>8, <1>9 DEF n

NotPassed == {"failed", "default", "error", "timeout"}

\* The list of failures of a parallel run: the hooks that failed, and "unknown" once
\* for each that timed out.
LEMMA FailuresListed ==
  ASSUME order \in Seq(Hooks), OneEach(order),
         NEW f \in OfTask({"failed", "default"}), NEW e \in OfTask({"error", "timeout"}),
         NEW g, g = [i \in 1..Len(f \o e) |-> ReportedId((f \o e)[i])]
  PROVE  /\ g \in Seq(Hooks \cup {Unknown})
         /\ \A h \in Hooks : Occurrences(g, h) =
               IF task[h] \in {"failed", "default", "error"} THEN 1 ELSE 0
         /\ Occurrences(g, Unknown) = Cardinality(EndedWith({"timeout"}))
         /\ g = <<>> => EndedWith(NotPassed) = {}
<1> DEFINE c == f \o e
           F == EndedWith({"failed", "default"})
           E == EndedWith({"error", "timeout"})
           T == EndedWith({"timeout"})
<1>1. /\ f \in Seq(F) /\ e \in Seq(E)
      /\ \A i, j \in 1..Len(f) : f[i] = f[j] => i = j
      /\ \A i, j \in 1..Len(e) : e[i] = e[j] => i = j
      /\ \A h \in F : \E i \in 1..Len(f) : f[i] = h
      /\ \A h \in E : \E i \in 1..Len(e) : e[i] = h
  BY ListedOnce
<1>2. F \subseteq Hooks /\ E \subseteq Hooks /\ F \cap E = {} /\ T \subseteq E
  BY DEF EndedWith
<1>3. f \in Seq(Hooks) /\ e \in Seq(Hooks) /\ Len(f) \in Nat /\ Len(e) \in Nat
  BY <1>1, <1>2
<1>4. /\ c \in Seq(Hooks) /\ Len(c) = Len(f) + Len(e)
      /\ \A i \in 1..Len(f) : c[i] = f[i] /\ c[i] \in F
      /\ \A i \in Len(f)+1..Len(c) : c[i] = e[i - Len(f)] /\ i - Len(f) \in 1..Len(e) /\ c[i] \in E
  <2>1. /\ c \in Seq(Hooks) /\ Len(c) = Len(f) + Len(e)
        /\ \A i \in 1..(Len(f) + Len(e)) :
              c[i] = IF i <= Len(f) THEN f[i] ELSE e[i - Len(f)]
    BY <1>3, ConcatProperties
  <2> HIDE DEF c, F, E
  <2>2. \A i \in 1..Len(f) : c[i] = f[i] /\ f[i] \in F
    BY <2>1, <1>1, <1>3
  <2>3. \A i \in Len(f)+1..Len(c) : c[i] = e[i - Len(f)] /\ i - Len(f) \in 1..Len(e)
    BY <2>1, <1>3
  <2>4. \A k \in 1..Len(e) : e[k] \in E
    BY <1>1
  <2> QED  BY <2>1, <2>2, <2>3, <2>4
<1>5. /\ \A i \in 1..Len(c) : c[i] \in Hooks /\ c[i] \in F \cup E
      /\ \A i, j \in 1..Len(c) : c[i] = c[j] => i = j
      /\ \A h \in F \cup E : \E i \in 1..Len(c) : c[i] = h
  <2> HIDE DEF c, F, E
  <2>1. \A i \in 1..Len(c) : i \in 1..Len(f) \/ i \in Len(f)+1..Len(c)
    BY <1>3, <1>4
  <2>2. \A i \in 1..Len(c) : c[i] \in Hooks /\ c[i] \in F \cup E
    BY <2>1, <1>2, <1>4
  <2>3. ASSUME NEW i \in 1..Len(c), NEW j \in 1..Len(c), c[i] = c[j]
        PROVE  i = j
    <3>1. CASE i \in 1..Len(f) /\ j \in 1..Len(f)
      BY <3>1, <2>3, <1>1, <1>4
    <3>2. CASE i \in 1..Len(f) /\ j \in Len(f)+1..Len(c)
      BY <3>2, <2>3, <1>2, <1>4
    <3>3. CASE i \in Len(f)+1..Len(c) /\ j \in 1..Len(f)
      BY <3>3, <2>3, <1>2, <1>4
    <3>4. CASE i \in Len(f)+1..Len(c) /\ j \in Len(f)+1..Len(c)
      <4>1. e[i - Len(f)] = e[j - Len(f)] /\ i - Len(f) \in 1..Len(e) /\ j - Len(f) \in 1..Len(e)
        BY <3>4, <2>3, <1>4
      <4>2. i - Len(f) = j - Len(f)
        BY <4>1, <1>1
      <4> QED  BY <4>2, <1>3, <1>4
    <3> QED  BY <2>1, <3>1, <3>2, <3>3, <3>4
  <2>4. ASSUME NEW h \in F
        PROVE  \E i \in 1..Len(c) : c[i] = h
    <3>1. PICK i \in 1..Len(f) : f[i] = h
      BY <2>4, <1>1
    <3> QED  BY <3>1, <1>3, <1>4
  <2>5. ASSUME NEW h \in E
        PROVE  \E i \in 1..Len(c) : c[i] = h
    <3>1. PICK i \in 1..Len(e) : e[i] = h
      BY <2>5, <1>1
    <3>2. Len(f) + i \in Len(f)+1..Len(c) /\ (Len(f) + i) - Len(f) = i /\ Len(f) + i \in 1..Len(c)
      BY <3>1, <1>3, <1>4
    <3> QED  BY <3>1, <3>2, <1>4
  <2> QED  BY <2>2, <2>3, <2>4, <2>5
<1>6. Len(c) \in Nat
  BY <1>3, <1>4
<1> HIDE DEF c
<1>7. g = [i \in 1..Len(c) |-> IF task[c[i]] = "timeout" THEN Unknown ELSE c[i]]
  BY DEF c, ReportedId
<1>8. g \in [1..Len(c) -> Hooks \cup {Unknown}]
  BY <1>7, <1>5
<1>9. g \in Seq(Hooks \cup {Unknown}) /\ Len(g) = Len(c)
  <2> DEFINE U == Hooks \cup {Unknown}
             n == Len(c)
  <2>1. n \in Nat /\ g \in [1..n -> U]
    BY <1>6, <1>8
  <2> HIDE DEF U, n
  <2>2. g \in Seq(U) /\ Len(g) = n
    BY <2>1, FunctionIsSeq
  <2> QED  BY <2>2 DEF U, n
<1>10. ASSUME NEW h \in Hooks
       PROVE  Occurrences(g, h) = IF task[h] \in {"failed", "default", "error"} THEN 1 ELSE 0
  <2>1. \A i \in 1..Len(g) : g[i] = h <=> c[i] = h /\ task[h] # "timeout"
    <3> SUFFICES ASSUME NEW i \in 1..Len(g)
                 PROVE  g[i] = h <=> c[i] = h /\ task[h] # "timeout"
      OBVIOUS
    <3>1. g[i] = IF task[c[i]] = "timeout" THEN Unknown ELSE c[i]
      BY <1>7, <1>9
    <3>2. Unknown # h
      BY PipelineAssumption
    <3> QED  BY <3>1, <3>2
  <2>2. CASE task[h] \in {"failed", "default", "error"}
    <3>1. h \in F \cup E /\ task[h] # "timeout"
      BY <2>2 DEF EndedWith
    <3>2. PICK k \in 1..Len(c) : c[k] = h
      BY <3>1, <1>5
    <3>4. g[k] = h /\ k \in 1..Len(g)
      BY <3>1, <3>2, <2>1, <1>9
    <3>3. \A i \in 1..Len(g) : g[i] = g[k] => i = k
      BY <3>4, <3>2, <2>1, <1>5, <1>9, ZenonT(40)
    <3> QED  BY <3>3, <3>4, <2>2, <1>9, OccOnce
  <2>3. CASE ~(task[h] \in {"failed", "default", "error"})
    <3>1. task[h] # "timeout" => h \notin F \cup E
      BY <2>3 DEF EndedWith
    <3>2. \A i \in 1..Len(g) : c[i] \in F \cup E
      BY <1>5, <1>9
    <3> HIDE DEF F, E
    <3>3. \A i \in 1..Len(g) : g[i] # h
      BY <3>1, <3>2, <2>1
    <3> QED  BY <3>3, <2>3, <1>9, OccAbsent
  <2> QED  BY <2>2, <2>3
<1>11. Occurrences(g, Unknown) = Cardinality(T)
  <2> DEFINE I == {i \in 1..Len(g) : g[i] = Unknown}
             b == [i \in I |-> c[i]]
  <2>1. \A i \in 1..Len(g) : g[i] = Unknown <=> task[c[i]] = "timeout"
    <3> SUFFICES ASSUME NEW i \in 1..Len(g)
                 PROVE  g[i] = Unknown <=> task[c[i]] = "timeout"
      OBVIOUS
    <3>1. g[i] = IF task[c[i]] = "timeout" THEN Unknown ELSE c[i]
      BY <1>7, <1>9
    <3>2. Unknown # c[i]
      BY <1>5, <1>9, PipelineAssumption
    <3> QED  BY <3>1, <3>2
  <2>2. \A i \in I : c[i] \in T
    BY <2>1, <1>5, <1>9 DEF EndedWith
  <2>3. \A i, j \in I : c[i] = c[j] => i = j
    BY <1>5, <1>9
  <2>4. \A h \in T : \E i \in I : c[i] = h
    <3> SUFFICES ASSUME NEW h \in T PROVE \E i \in I : c[i] = h
      OBVIOUS
    <3>1. h \in E /\ task[h] = "timeout"
      BY DEF EndedWith
    <3>2. PICK i \in 1..Len(c) : c[i] = h
      BY <3>1, <1>5
    <3> QED  BY <3>1, <3>2, <2>1, <1>9
  <2>5. IsFiniteSet(I)
    <3>1. IsFiniteSet(1..Len(g)) /\ I \in SUBSET (1..Len(g))
      <4>1. 1 \in Int /\ Len(g) \in Int
        BY <1>6, <1>9
      <4>2. IsFiniteSet(1..Len(g))
        BY <4>1, FS_Interval
      <4> QED  BY <4>2
    <3> QED  BY <3>1, FS_Subset
  <2>6. b \in Bijection(I, T)
    <3> HIDE DEF I, T
    <3>1. b \in [I -> T]
      BY <2>2
    <3> QED  BY <3>1, <2>3, <2>4 DEF Bijection, Injection, Surjection, IsInjective
  <2>7. ExistsBijection(I, T)
    BY <2>6 DEF ExistsBijection
  <2>8. Cardinality(T) = Cardinality(I)
    BY <2>5, <2>7, FS_Bijection
  <2> QED  BY <2>8 DEF Occurrences
<1>12. ASSUME g = <<>>
       PROVE  EndedWith(NotPassed) = {}
  <2>1. Len(c) = 0
    BY <1>12, <1>9
  <2>2. F \cup E = {}
    BY <2>1, <1>5
  <2> QED  BY <2>2 DEF EndedWith, NotPassed
<1> QED  BY <1>9, <1>10, <1>11, <1>12

-----------------------------------------------------------------------------
(* Steps                                                                   *)

\* The call does not change its arguments, and what is asked of them stays so.
LEMMA ConfigKept ==
  ASSUME Next
  PROVE  /\ cfg' = cfg /\ (Parallel <=> Parallel')
         /\ \A h \in Hooks : HasWork(h)' <=> HasWork(h)
         /\ DependenciesFirst(order') => DependenciesFirst(order)'
<1>1. cfg' = cfg
  <2>1. CASE ExecuteSingleHook
    BY <2>1 DEF ExecuteSingleHook, SingleOffStage, SingleStart, SingleFilterError, SingleSkip,
       SingleCacheHit, SinglePrepare, SingleError, SingleSuccess, SingleFailure, SingleKeeps
  <2>2. CASE ResolveFails \/ StartAuto \/ StartPooled \/ StartArena
    BY <2>2 DEF ResolveFails, StartAuto, StartPooled, StartArena
  <2>3. CASE SequentialSkip \/ SequentialRecord \/ PooledRecord \/ PooledAcquireFails
    BY <2>3 DEF SequentialSkip, SequentialRecord, PooledRecord, PooledAcquireFails, Advance
  <2>4. CASE ArenaRecord \/ ArenaError \/ ParallelSetup \/ ParallelSetupFails
    BY <2>4 DEF ArenaRecord, ArenaError, ParallelSetup, ParallelSetupFails
  <2>5. CASE \E h \in Hooks : TaskStart(h) \/ TaskEnd(h) \/ TaskTimeout(h)
    BY <2>5 DEF TaskStart, TaskEnd, TaskTimeout
  <2>6. CASE Collect \/ Finish
    BY <2>6 DEF Collect, Finish
  <2> QED  BY <2>1, <2>2, <2>3, <2>4, <2>5, <2>6 DEF Next
<1>2. Parallel <=> Parallel'
  BY <1>1 DEF Parallel, UseParallel, HasDependencies, HasNonConcurrent
<1>3. \A h \in Hooks : HasWork(h)' <=> HasWork(h)
  BY <1>1 DEF HasWork, Matches, AlwaysRun
<1>4. DependenciesFirst(order') => DependenciesFirst(order)'
  BY <1>1 DEF DependenciesFirst, Position
<1> QED  BY <1>1, <1>2, <1>3, <1>4

\* A step of execute_single_hook keeps everything but its progress and the events:
\* the hook's first one, then others, and none after a terminal one.
SingleEffect ==
    /\ phase = "run" /\ next <= Len(order)
    /\ UNCHANGED <<phase, order, next, task, passed, failed, skipped, success, summary>>
    /\ cur' \in {"default", "started", "error", "skipped", "passed", "prepared", "failed"}
    /\ cur' = "skipped" => ~HasWork(Current)
    /\ cur = "idle" => ~SkippedByLoop
    /\ \/ log' = log /\ cur' \notin {"started", "prepared"}
       \/ cur = "idle" /\ log' = Append(log, <<"HookStarted", Current>>)
       \/ /\ cur \in {"started", "prepared"}
          /\ \E e \in {"FilesProcessed"} \cup Terminal :
                /\ log' = Append(log, <<e, Current>>)
                /\ e \in Terminal => cur' \notin {"started", "prepared"}

\* The steps of execute_single_hook do so.
LEMMA SingleHookKeeps ==
  ASSUME ExecuteSingleHook
  PROVE  SingleEffect
<1>1. CASE SingleOffStage
  BY <1>1 DEF SingleOffStage, SingleKeeps, resultVars, Working, SingleEffect
<1>2. CASE SingleFilterError
  BY <1>2 DEF SingleFilterError, SingleKeeps, resultVars, Working, SingleEffect
<1>3. CASE SingleCacheHit
  BY <1>3 DEF SingleCacheHit, SingleKeeps, resultVars, Working, SingleEffect
<1>4. CASE SingleError
  BY <1>4 DEF SingleError, SingleKeeps, resultVars, Working, SingleEffect
<1>5. CASE SingleStart
  BY <1>5 DEF SingleStart, SingleKeeps, resultVars, Working, SingleEffect, Emit
<1>6. CASE SingleSkip
  BY <1>6 DEF SingleSkip, SingleKeeps, resultVars, Working, SingleEffect, Emit, Terminal, HasWork
<1>7. CASE SinglePrepare
  BY <1>7 DEF SinglePrepare, SingleKeeps, resultVars, Working, SingleEffect, Emit, Terminal
<1>8. CASE SingleSuccess
  BY <1>8 DEF SingleSuccess, SingleKeeps, resultVars, Working, SingleEffect, Emit, Terminal
<1>9. CASE SingleFailure
  BY <1>9 DEF SingleFailure, SingleKeeps, resultVars, Working, SingleEffect, Emit, Terminal
<1> QED  BY <1>1, <1>2, <1>3, <1>4, <1>5, <1>6, <1>7, <1>8, <1>9 DEF ExecuteSingleHook

Turn == SequentialSkip \/ SequentialRecord \/ PooledRecord

\* A turn of the sequential or the pooled run ends: the hook goes to one list.
TurnEffect ==
    /\ phase = "run" /\ next <= Len(order) /\ Current \in Hooks
    /\ cfg.strategy \in {"auto", "pooled"}
    /\ UNCHANGED <<phase, order, task, summary, log>>
    /\ next' = next + 1 /\ cur' = "idle"
    /\ \/ passed' = Append(passed, Current) /\ UNCHANGED <<failed, skipped, success>>
       \/ /\ failed' = Append(failed, Current) /\ success' = FALSE
          /\ UNCHANGED <<passed, skipped>>
       \/ /\ skipped' = Append(skipped, Current) /\ UNCHANGED <<passed, failed, success>>
          /\ cfg.strategy = "auto" /\ (cur = "skipped" \/ (cur = "idle" /\ SkippedByLoop))

\* SequentialSkip, SequentialRecord and PooledRecord do so.
LEMMA TurnEnds ==
  ASSUME TypeOK, Turn
  PROVE  TurnEffect
<1>1. CASE SequentialSkip
  BY <1>1 DEF TurnEffect, SequentialSkip, Working, SkippedByLoop, Current, Advance, AddSkipped, TypeOK
<1>2. CASE SequentialRecord
  <2>1. phase = "run" /\ next <= Len(order) /\ Current \in Hooks /\ cfg.strategy = "auto"
    BY <1>2 DEF SequentialRecord, Working, Current, TypeOK
  <2>2. UNCHANGED <<phase, order, task, summary, log>> /\ next' = next + 1 /\ cur' = "idle"
    BY <1>2 DEF SequentialRecord, Advance
  <2>3. CASE cur = "passed" /\ AddPassed(Current)
    BY <2>1, <2>2, <2>3 DEF AddPassed, TurnEffect
  <2>4. CASE cur = "skipped" /\ AddSkipped(Current)
    BY <2>1, <2>2, <2>4 DEF AddSkipped, TurnEffect
  <2>5. CASE AddFailed(Current)
    BY <2>1, <2>2, <2>5 DEF AddFailed, TurnEffect
  <2> QED  BY <1>2, <2>3, <2>4, <2>5 DEF SequentialRecord
<1>3. CASE PooledRecord
  BY <1>3 DEF TurnEffect, PooledRecord, Working, Current, Advance, AddPassed, AddFailed, TypeOK
<1> QED  BY <1>1, <1>2, <1>3 DEF Turn

\* A turn of the arena run: nothing but a failure is put on the list of failures, and
\* with fail_fast nothing comes after one.
ArenaEffect ==
    /\ phase = "run" /\ next <= Len(order) /\ Current \in Hooks
    /\ cfg.strategy = "arena" /\ cur' = "idle"
    /\ UNCHANGED <<phase, order, task, log>>
    /\ next' \in {next + 1, Len(order) + 1}
    /\ \/ UNCHANGED failed
       \/ /\ failed' = Append(failed, Current) /\ success' = FALSE
          /\ cfg.failFast => next' = Len(order) + 1
    /\ passed' \in {passed, Append(passed, Current)}
    /\ skipped' \in {skipped, Append(skipped, Current)}
    /\ success' \in BOOLEAN

\* ArenaRecord does so.
LEMMA ArenaTurnEnds ==
  ASSUME TypeOK, ArenaRecord
  PROVE  ArenaEffect
<1>1. Working /\ Current \in Hooks /\ cfg.strategy = "arena" /\ success \in BOOLEAN
  BY DEF ArenaRecord, Working, Current, TypeOK
<1>2. /\ UNCHANGED <<phase, order, task, log>> /\ cur' = "idle"
      /\ next' = IF cfg.failFast /\ cur \in {"failed", "skipped"} THEN Len(order) + 1 ELSE next + 1
  BY DEF ArenaRecord
<1>3. CASE cur = "passed" /\ AddPassed(Current)
  BY <1>1, <1>2, <1>3 DEF ArenaEffect, Working, AddPassed
<1>4. CASE cur = "default" /\ AddSkipped(Current)
  BY <1>1, <1>2, <1>4 DEF ArenaEffect, Working, AddSkipped
<1>5. CASE /\ cur = "skipped" /\ skipped' = Append(skipped, Current) /\ success' = FALSE
           /\ UNCHANGED <<passed, failed>>
  BY <1>1, <1>2, <1>5 DEF ArenaEffect, Working
<1>6. CASE cur = "failed" /\ AddFailed(Current)
  BY <1>1, <1>2, <1>6 DEF ArenaEffect, Working, AddFailed
<1> QED  BY <1>3, <1>4, <1>5, <1>6 DEF ArenaRecord

\* The run ends with an error.
Abort == ResolveFails \/ PooledAcquireFails \/ ArenaError \/ ParallelSetupFails

LEMMA AbortKeeps ==
  ASSUME Abort
  PROVE  /\ phase \in {"start", "run", "setup"} /\ phase' = "error"
         /\ UNCHANGED <<order, next, cur, task, passed, failed, skipped, success, summary, log>>
BY DEF Abort, ResolveFails, PooledAcquireFails, ArenaError, ParallelSetupFails, resultVars, Working

\* A step of one task of a parallel run.
TaskStep(h) == TaskStart(h) \/ TaskEnd(h) \/ TaskTimeout(h)

LEMMA TaskKeeps ==
  ASSUME NEW h \in Hooks, TaskStep(h)
  PROVE  /\ phase = "parallel"
         /\ UNCHANGED <<phase, order, next, cur, passed, failed, skipped, success, summary, log>>
         /\ \E o \in {"running"} \cup TaskOutcomes :
               /\ task' = [task EXCEPT ![h] = o]
               /\ o = "skipped" => ~HasWork(h)
BY DEF TaskStep, TaskStart, TaskEnd, TaskTimeout, resultVars, TaskOutcomes, HasWork

Start == StartAuto \/ StartPooled \/ StartArena

\* The hooks are put in an order.
LEMMA StartOrders ==
  ASSUME Start
  PROVE  /\ phase = "start"
         /\ UNCHANGED <<next, cur, task, passed, failed, skipped, success, summary>>
         /\ order' \in Seq(Hooks) /\ OneEach(order')
         /\ phase' \in {"run", "setup"} /\ (phase' = "setup" <=> Parallel)
         /\ cfg.strategy = "auto" => DependenciesFirst(order')
         /\ IF cfg.strategy = "pooled" THEN log' = log
            ELSE log' = Append(log, <<"PipelineStarted", Unknown>>)
<1>1. CASE StartAuto
  <2>1. order' \in ResolvedOrders
    BY <1>1 DEF StartAuto
  <2>2. order' \in Seq(Hooks) /\ OneEach(order')
    BY <2>1, OrdersOneEach
  <2>3. DependenciesFirst(order')
    <3>1. CASE HasDependencies
      BY <2>1, <3>1 DEF ResolvedOrders
    <3>2. CASE ~HasDependencies
      BY <3>2 DEF HasDependencies, DependenciesFirst
    <3> QED  BY <3>1, <3>2
  <2> QED  BY <1>1, <2>2, <2>3 DEF StartAuto, Parallel, resultVars, Emit
<1>2. CASE StartPooled
  <2>1. order' \in GroupedOrders
    BY <1>2 DEF StartPooled
  <2>2. order' \in Seq(Hooks) /\ OneEach(order')
    BY <2>1, OrdersOneEach
  <2> QED  BY <1>2, <2>2 DEF StartPooled, Parallel, resultVars
<1>3. CASE StartArena
  BY <1>3, ConfigOrderOneEach DEF StartArena, Parallel, resultVars, Emit
<1> QED  BY <1>1, <1>2, <1>3 DEF Start

\* All that a run can do.
LEMMA StepKinds ==
  Next => \/ Abort \/ Start \/ ExecuteSingleHook \/ Turn \/ ArenaRecord \/ ParallelSetup
          \/ (\E h \in Hooks : TaskStep(h)) \/ Collect \/ Finish
BY DEF Next, Abort, Start, Turn, TaskStep

\* What Collect makes of a batch whose tasks have all ended.
CollectEffect ==
    /\ phase = "parallel" /\ phase' = "run" /\ next' = Len(order) + 1
    /\ UNCHANGED <<order, cur, task, summary, log>>
    /\ \A h \in Hooks : task[h] \in TaskOutcomes
    /\ passed' \in Seq(Hooks) /\ skipped' \in Seq(Hooks)
    /\ failed' \in Seq(Hooks \cup {Unknown}) /\ success' \in BOOLEAN
    /\ \A h \in Hooks :
          /\ Occurrences(passed', h) = IF task[h] = "passed" THEN 1 ELSE 0
          /\ Occurrences(skipped', h) = IF task[h] = "skipped" THEN 1 ELSE 0
          /\ Occurrences(failed', h) =
                IF task[h] \in {"failed", "default", "error"} THEN 1 ELSE 0
    /\ Occurrences(failed', Unknown) = Cardinality(EndedWith({"timeout"}))
    /\ success' => failed' = <<>> /\ EndedWith(NotPassed) = {}

\* Collect does so.
LEMMA CollectResult ==
  ASSUME TypeOK, OrderInv, Collect
  PROVE  CollectEffect
<1>1. order \in Seq(Hooks) /\ OneEach(order)
  <2>1. order \in Seq(Hooks)
    BY DEF TypeOK
  <2>2. OneEach(order)
    BY DEF OrderInv, Underway, Collect
  <2> QED  BY <2>1, <2>2
<1>2. passed' \in OfTask({"passed"}) /\ skipped' \in OfTask({"skipped"})
  BY DEF Collect
<1>3. PICK f \in OfTask({"failed", "default"}), e \in OfTask({"error", "timeout"}) :
          failed' = [i \in 1..Len(f \o e) |-> ReportedId((f \o e)[i])]
  BY DEF Collect
<1>4. \A s \in OfTask({"passed"}) :
         s \in Seq(Hooks) /\ \A h \in Hooks : Occurrences(s, h) = IF task[h] = "passed" THEN 1 ELSE 0
  <2>1. ASSUME NEW s \in OfTask({"passed"})
        PROVE  /\ s \in Seq(EndedWith({"passed"}))
               /\ \A h : Occurrences(s, h) = IF h \in EndedWith({"passed"}) THEN 1 ELSE 0
    BY <1>1, ListedOnce
  <2>2. /\ EndedWith({"passed"}) \subseteq Hooks
        /\ \A h \in Hooks : h \in EndedWith({"passed"}) <=> task[h] = "passed"
    BY DEF EndedWith
  <2> QED  BY <2>1, <2>2
<1>5. \A s \in OfTask({"skipped"}) :
         s \in Seq(Hooks) /\ \A h \in Hooks : Occurrences(s, h) = IF task[h] = "skipped" THEN 1 ELSE 0
  <2>1. ASSUME NEW s \in OfTask({"skipped"})
        PROVE  /\ s \in Seq(EndedWith({"skipped"}))
               /\ \A h : Occurrences(s, h) = IF h \in EndedWith({"skipped"}) THEN 1 ELSE 0
    BY <1>1, ListedOnce
  <2>2. /\ EndedWith({"skipped"}) \subseteq Hooks
        /\ \A h \in Hooks : h \in EndedWith({"skipped"}) <=> task[h] = "skipped"
    BY DEF EndedWith
  <2> QED  BY <2>1, <2>2
<1>6. /\ failed' \in Seq(Hooks \cup {Unknown})
      /\ \A h \in Hooks : Occurrences(failed', h) =
            IF task[h] \in {"failed", "default", "error"} THEN 1 ELSE 0
      /\ Occurrences(failed', Unknown) = Cardinality(EndedWith({"timeout"}))
      /\ failed' = <<>> => EndedWith(NotPassed) = {}
  <2>1. \A g : g = [i \in 1..Len(f \o e) |-> ReportedId((f \o e)[i])] =>
          /\ g \in Seq(Hooks \cup {Unknown})
          /\ \A h \in Hooks : Occurrences(g, h) =
                IF task[h] \in {"failed", "default", "error"} THEN 1 ELSE 0
          /\ Occurrences(g, Unknown) = Cardinality(EndedWith({"timeout"}))
          /\ g = <<>> => EndedWith(NotPassed) = {}
    <3> SUFFICES ASSUME NEW g, g = [i \in 1..Len(f \o e) |-> ReportedId((f \o e)[i])]
                 PROVE  /\ g \in Seq(Hooks \cup {Unknown})
                        /\ \A h \in Hooks : Occurrences(g, h) =
                              IF task[h] \in {"failed", "default", "error"} THEN 1 ELSE 0
                        /\ Occurrences(g, Unknown) = Cardinality(EndedWith({"timeout"}))
                        /\ g = <<>> => EndedWith(NotPassed) = {}
      OBVIOUS
    <3> QED  BY <1>1, FailuresListed
  <2> QED  BY <2>1, <1>3
<1>7. /\ phase = "parallel" /\ phase' = "run" /\ next' = Len(order) + 1
      /\ UNCHANGED <<order, cur, task, summary, log>>
      /\ \A h \in Hooks : task[h] \in TaskOutcomes
      /\ success' = (failed' = <<>>)
  BY DEF Collect
<1>8. passed' \in Seq(Hooks) /\ \A h \in Hooks : Occurrences(passed', h) = IF task[h] = "passed" THEN 1 ELSE 0
  BY <1>2, <1>4
<1>9. skipped' \in Seq(Hooks) /\ \A h \in Hooks : Occurrences(skipped', h) = IF task[h] = "skipped" THEN 1 ELSE 0
  BY <1>2, <1>5
<1>10. success' \in BOOLEAN /\ (success' => failed' = <<>> /\ EndedWith(NotPassed) = {})
  BY <1>6, <1>7
<1> QED  BY <1>6, <1>7, <1>8, <1>9, <1>10 DEF CollectEffect

\* Nothing has happened yet.
LEMMA InitIInv == Init => IInv
<1> SUFFICES ASSUME Init PROVE IInv
  OBVIOUS
<1>1. TypeOK
  BY DEF Init, TypeOK
<1>2. StartInv /\ OrderInv
  BY DEF Init, StartInv, OrderInv, Underway
<1>3. CountInv /\ VerdictInv
  BY DEF Init, CountInv, VerdictInv
<1>4. LogInv /\ EventDiscipline
  BY DEF Init, LogInv, EventDiscipline, Underway
<1> QED  BY <1>1, <1>2, <1>3, <1>4 DEF IInv

\* The variables keep their types.
LEMMA TypeStep ==
  ASSUME TypeOK, StartInv, OrderInv, Next
  PROVE  TypeOK'
<1>0. cfg' \in Configs
  BY ConfigKept DEF TypeOK
<1>1. CASE Abort
  BY <1>0, <1>1, AbortKeeps DEF TypeOK
<1>2. CASE Start
  <2>1. next' \in 1..(Len(order') + 1)
    BY <1>2, StartOrders, LenProperties DEF StartInv
  <2> QED  BY <1>0, <1>2, <2>1, StartOrders DEF TypeOK
<1>3. CASE ExecuteSingleHook
  BY <1>0, <1>3, SingleHookKeeps DEF SingleEffect, TypeOK, TaskOutcomes
<1>4a. Turn => TurnEffect
  BY TurnEnds
<1>4. CASE Turn
  <2>1. next' \in 1..(Len(order) + 1) /\ Len(order) \in Nat
    BY <1>4, <1>4a DEF TypeOK, TurnEffect
  <2>2. passed' \in Seq(Hooks) /\ failed' \in Seq(Hooks \cup {Unknown}) /\ skipped' \in Seq(Hooks)
    <3>1. passed \in Seq(Hooks) /\ failed \in Seq(Hooks \cup {Unknown}) /\ skipped \in Seq(Hooks)
      BY DEF TypeOK
    <3>2. Current \in Hooks \cup {Unknown} /\ Current \in Hooks
      BY <1>4, <1>4a DEF TurnEffect
    <3>3. /\ Append(passed, Current) \in Seq(Hooks) /\ Append(skipped, Current) \in Seq(Hooks)
          /\ Append(failed, Current) \in Seq(Hooks \cup {Unknown})
      BY <3>1, <3>2, AppendProperties
    <3> QED  BY <1>4, <1>4a, <3>1, <3>3 DEF TurnEffect
  <2> QED  BY <1>0, <1>4, <1>4a, <2>1, <2>2 DEF TypeOK, TurnEffect
<1>5a. ArenaRecord => ArenaEffect
  BY ArenaTurnEnds
<1>5. CASE ArenaRecord
  <2>1. next' \in 1..(Len(order) + 1) /\ Len(order) \in Nat
    BY <1>5, <1>5a DEF TypeOK, ArenaEffect
  <2>2. passed' \in Seq(Hooks) /\ failed' \in Seq(Hooks \cup {Unknown}) /\ skipped' \in Seq(Hooks)
    <3>1. passed \in Seq(Hooks) /\ failed \in Seq(Hooks \cup {Unknown}) /\ skipped \in Seq(Hooks)
      BY DEF TypeOK
    <3>2. Current \in Hooks \cup {Unknown} /\ Current \in Hooks
      BY <1>5, <1>5a DEF ArenaEffect
    <3>3. /\ Append(passed, Current) \in Seq(Hooks) /\ Append(skipped, Current) \in Seq(Hooks)
          /\ Append(failed, Current) \in Seq(Hooks \cup {Unknown})
      BY <3>1, <3>2, AppendProperties
    <3> QED  BY <1>5, <1>5a, <3>1, <3>3 DEF ArenaEffect
  <2> QED  BY <1>0, <1>5, <1>5a, <2>1, <2>2 DEF TypeOK, ArenaEffect
<1>6. CASE ParallelSetup
  BY <1>0, <1>6 DEF ParallelSetup, TypeOK, resultVars
<1>7. CASE \E h \in Hooks : TaskStep(h)
  <2>1. PICK h \in Hooks : TaskStep(h)
    BY <1>7
  <2> QED  BY <1>0, <2>1, TaskKeeps DEF TypeOK
<1>8a. Collect => CollectEffect
  BY CollectResult
<1>8. CASE Collect
  <2>1. next' \in 1..(Len(order') + 1)
    BY <1>8, <1>8a, LenProperties DEF TypeOK, CollectEffect
  <2> QED  BY <1>0, <1>8, <1>8a, <2>1 DEF TypeOK, CollectEffect
<1>9. CASE Finish
  BY <1>0, <1>9 DEF Finish, TypeOK, resultVars
<1> QED  BY <1>1, <1>2, <1>3, <1>4, <1>5, <1>6, <1>7, <1>8, <1>9, StepKinds

\* The order of the hooks and the way the run takes are settled at its start.
LEMMA OrderStep ==
  ASSUME TypeOK, StartInv, OrderInv, Next
  PROVE  StartInv' /\ OrderInv'
<1>0. /\ cfg' = cfg /\ (Parallel <=> Parallel') /\ Len(order) \in Nat
      /\ DependenciesFirst(order') => DependenciesFirst(order)'
  BY ConfigKept DEF TypeOK
<1>1. CASE Abort
  BY <1>0, <1>1, AbortKeeps DEF StartInv, OrderInv, Underway
<1>2. CASE Start
  <2>1. UNCHANGED <<next, cur, task, passed, failed, skipped, success>> /\ cur = "idle" /\ next = 1
        /\ task = [h \in Hooks |-> "none"] /\ passed = <<>> /\ failed = <<>> /\ skipped = <<>>
        /\ success = TRUE
    BY <1>2, StartOrders DEF StartInv
  <2>2. cfg.strategy = "auto" => DependenciesFirst(order)'
    BY <1>0, <1>2, StartOrders
  <2> QED  BY <1>0, <1>2, <2>1, <2>2, StartOrders DEF StartInv, OrderInv, Underway
<1>3. CASE ExecuteSingleHook
  BY <1>0, <1>3, SingleHookKeeps DEF SingleEffect, StartInv, OrderInv, Underway
<1>4a. Turn => TurnEffect
  BY TurnEnds
<1>4. CASE Turn
  BY <1>0, <1>4, <1>4a DEF TurnEffect, StartInv, OrderInv, Underway, TypeOK
<1>5a. ArenaRecord => ArenaEffect
  BY ArenaTurnEnds
<1>5. CASE ArenaRecord
  BY <1>0, <1>5, <1>5a DEF ArenaEffect, StartInv, OrderInv, Underway, TypeOK
<1>6. CASE ParallelSetup
  BY <1>0, <1>6 DEF ParallelSetup, StartInv, OrderInv, Underway, resultVars
<1>7. CASE \E h \in Hooks : TaskStep(h)
  <2>1. PICK h \in Hooks : TaskStep(h)
    BY <1>7
  <2> QED  BY <1>0, <2>1, TaskKeeps DEF StartInv, OrderInv, Underway
<1>8a. Collect => CollectEffect
  BY CollectResult
<1>8. CASE Collect
  BY <1>0, <1>8, <1>8a DEF CollectEffect, StartInv, OrderInv, Underway
<1>9. CASE Finish
  BY <1>0, <1>9 DEF Finish, StartInv, OrderInv, Underway, resultVars, TypeOK
<1> QED  BY <1>1, <1>2, <1>3, <1>4, <1>5, <1>6, <1>7, <1>8, <1>9, StepKinds

\* A turn adds its hook to the hooks that are reported, and no other.
LEMMA CountStep ==
  ASSUME TypeOK, StartInv, OrderInv, CountInv, Next
  PROVE  CountInv'
<1>0. /\ cfg' = cfg /\ (Parallel <=> Parallel') /\ Len(order) \in Nat /\ next \in 1..(Len(order) + 1)
  BY ConfigKept DEF TypeOK
<1>1. CASE Abort
  BY <1>1, AbortKeeps DEF CountInv
<1>2. CASE Start
  <2>1. /\ next' = 1 /\ passed' = <<>> /\ failed' = <<>> /\ skipped' = <<>>
        /\ phase' \in {"run", "setup"} /\ (phase' = "setup" <=> Parallel)
    BY <1>2, StartOrders DEF StartInv
  <2>2. \A h \in Hooks : Reported(h)' = 0
    BY <2>1, OccEmpty DEF Reported
  <2>3. \A h \in Hooks : ~Tried(h)'
    BY <2>1 DEF Tried
  <2> QED  BY <1>0, <2>1, <2>2, <2>3 DEF CountInv
<1>3. CASE ExecuteSingleHook
  <2>1. UNCHANGED <<phase, order, next, task, passed, failed, skipped>> /\ phase = "run" /\ next <= Len(order)
    BY <1>3, SingleHookKeeps DEF SingleEffect
  <2>2. ~Parallel
    BY <1>0, <2>1 DEF OrderInv
  <2> QED  BY <1>0, <2>1, <2>2 DEF CountInv, Reported, Occurrences, Tried
<1>4. CASE Turn
  <2>1. TurnEffect
    BY <1>4, TurnEnds
  <2>2. ~Parallel /\ OneEach(order)
    BY <1>0, <2>1 DEF OrderInv, TurnEffect, Underway
  <2>3. failed \in Seq(Hooks) /\ \A h \in Hooks : Reported(h) = IF Tried(h) THEN 1 ELSE 0
    BY <2>1, <2>2 DEF CountInv, TurnEffect
  <2>4. passed \in Seq(Hooks) /\ skipped \in Seq(Hooks) /\ Current \in Hooks
    BY <2>1 DEF TypeOK, TurnEffect
  <2>5. ASSUME NEW h \in Hooks
        PROVE  Tried(h)' <=> Tried(h) \/ h = Current
    <3>1. next' = next + 1 /\ order' = order /\ next \in Nat /\ next >= 1
      BY <1>0, <2>1 DEF TurnEffect
    <3>2. 1..(next' - 1) = 1..(next - 1) \cup {next}
      BY <3>1
    <3> QED  BY <3>1, <3>2 DEF Tried, Current
  <2>6. ~Tried(Current)
    <3> SUFFICES ASSUME NEW i \in 1..(next - 1), order[i] = order[next] PROVE FALSE
      BY DEF Tried, Current
    <3>1. i \in 1..Len(order) /\ next \in 1..Len(order) /\ i # next
      BY <1>0, <2>1 DEF TurnEffect
    <3> QED  BY <3>1, <2>2 DEF OneEach
  <2>7. ASSUME NEW h \in Hooks
        PROVE  Reported(h)' = Reported(h) + (IF h = Current THEN 1 ELSE 0)
    <3>1. /\ Occurrences(passed, h) \in Nat /\ Occurrences(failed, h) \in Nat
          /\ Occurrences(skipped, h) \in Nat
      BY <2>3, <2>4, OccType
    <3>2. \A q \in Seq(Hooks) : Occurrences(Append(q, Current), h)
                                 = Occurrences(q, h) + (IF Current = h THEN 1 ELSE 0)
      BY <2>4, OccAppend
    <3>3. Reported(h)' = Occurrences(passed', h) + Occurrences(failed', h) + Occurrences(skipped', h)
      BY DEF Reported, Occurrences
    <3>4. CASE passed' = Append(passed, Current) /\ UNCHANGED <<failed, skipped>>
      <4>1. Occurrences(passed', h) = Occurrences(passed, h) + (IF Current = h THEN 1 ELSE 0)
        BY <3>2, <3>4, <2>4
      <4>2. Occurrences(failed', h) = Occurrences(failed, h) /\ Occurrences(skipped', h) = Occurrences(skipped, h)
        BY <3>4
      <4> QED  BY <4>1, <4>2, <3>1, <3>3 DEF Reported
    <3>5. CASE failed' = Append(failed, Current) /\ UNCHANGED <<passed, skipped>>
      <4>1. Occurrences(failed', h) = Occurrences(failed, h) + (IF Current = h THEN 1 ELSE 0)
        BY <3>2, <3>5, <2>3
      <4>2. Occurrences(passed', h) = Occurrences(passed, h) /\ Occurrences(skipped', h) = Occurrences(skipped, h)
        BY <3>5
      <4> QED  BY <4>1, <4>2, <3>1, <3>3 DEF Reported
    <3>6. CASE skipped' = Append(skipped, Current) /\ UNCHANGED <<passed, failed>>
      <4>1. Occurrences(skipped', h) = Occurrences(skipped, h) + (IF Current = h THEN 1 ELSE 0)
        BY <3>2, <3>6, <2>4
      <4>2. Occurrences(passed', h) = Occurrences(passed, h) /\ Occurrences(failed', h) = Occurrences(failed, h)
        BY <3>6
      <4> QED  BY <4>1, <4>2, <3>1, <3>3 DEF Reported
    <3> QED  BY <2>1, <3>4, <3>5, <3>6 DEF TurnEffect
  <2>8. \A h \in Hooks : Reported(h)' = IF Tried(h)' THEN 1 ELSE 0
    BY <2>3, <2>5, <2>6, <2>7
  <2>9. failed' \in Seq(Hooks)
    BY <2>1, <2>3, <2>4, AppendProperties, ZenonT(40) DEF TurnEffect
  <2> QED  BY <1>0, <2>2, <2>8, <2>9 DEF CountInv
<1>5. CASE ArenaRecord
  BY <1>0, <1>5, ArenaTurnEnds DEF CountInv, Parallel, ArenaEffect
<1>6. CASE ParallelSetup
  BY <1>6 DEF ParallelSetup, CountInv
<1>7. CASE \E h \in Hooks : TaskStep(h)
  BY <1>7, TaskKeeps DEF CountInv
<1>8. CASE Collect
  <2>1. CollectEffect /\ Parallel
    BY <1>8, CollectResult DEF OrderInv, CollectEffect
  <2>2. EndedWith({"timeout"})' = EndedWith({"timeout"})
    BY <2>1 DEF CollectEffect, EndedWith
  <2>3. \A h : /\ Occurrences(passed, h)' = Occurrences(passed', h)
               /\ Occurrences(skipped, h)' = Occurrences(skipped', h)
               /\ Occurrences(failed, h)' = Occurrences(failed', h)
    BY DEF Occurrences
  <2> QED  BY <1>0, <2>1, <2>2, <2>3 DEF CountInv, CollectEffect
<1>9. CASE Finish
  <2>1. UNCHANGED <<order, next, task, passed, failed, skipped>> /\ phase = "run"
    BY <1>9 DEF Finish, resultVars
  <2> QED  BY <1>0, <2>1 DEF CountInv, Reported, Occurrences, Tried, EndedWith
<1> QED  BY <1>1, <1>2, <1>3, <1>4, <1>5, <1>6, <1>7, <1>8, <1>9, StepKinds

\* Who skips a hook has a reason, and fail_fast lets nothing start after a failure.
LEMMA VerdictStep ==
  ASSUME TypeOK, StartInv, OrderInv, VerdictInv, Next
  PROVE  VerdictInv'
<1>0. /\ cfg' = cfg /\ (Parallel <=> Parallel') /\ Len(order) \in Nat /\ next \in 1..(Len(order) + 1)
      /\ \A h \in Hooks : HasWork(h)' <=> HasWork(h)
  BY ConfigKept DEF TypeOK
<1>k. ASSUME UNCHANGED <<order, next>>
      PROVE  Current' = Current /\ (HasWork(Current)' <=> HasWork(Current))
  BY <1>0, <1>k DEF Current, HasWork, Matches, AlwaysRun
<1>s. ASSUME UNCHANGED skipped
      PROVE  \A h : Occurrences(skipped, h)' = Occurrences(skipped, h)
  BY <1>s DEF Occurrences
<1>1. CASE Abort
  <2>1. UNCHANGED <<order, next, cur, task>> /\ phase' = "error"
    BY <1>1, AbortKeeps
  <2> QED  BY <1>0, <1>k, <2>1 DEF VerdictInv
<1>2. CASE Start
  <2>1. /\ next' = 1 /\ cur' = "idle" /\ failed' = <<>> /\ skipped' = <<>> /\ UNCHANGED task
    BY <1>2, StartOrders DEF StartInv
  <2>2. \A h \in Hooks : Occurrences(skipped, h)' = 0
    BY <2>1, OccEmpty
  <2> QED  BY <1>0, <2>1, <2>2 DEF VerdictInv
<1>3. CASE ExecuteSingleHook
  <2>1. SingleEffect
    BY <1>3, SingleHookKeeps
  <2>2. cur' = "skipped" => ~HasWork(Current)'
    BY <1>k, <2>1 DEF SingleEffect
  <2>3. cfg.strategy = "auto" /\ cfg.failFast => success
    BY <2>1 DEF VerdictInv, SingleEffect, SkippedByLoop
  <2> QED  BY <1>0, <1>s, <2>1, <2>2, <2>3 DEF VerdictInv, SingleEffect
<1>4. CASE Turn
  <2>1. TurnEffect
    BY <1>4, TurnEnds
  <2>2. skipped \in Seq(Hooks) /\ Current \in Hooks
    BY <2>1 DEF TypeOK, TurnEffect
  <2>3. CASE UNCHANGED <<failed, skipped, success>>
    BY <1>0, <1>s, <2>1, <2>3 DEF VerdictInv, TurnEffect
  <2>4. CASE success' = FALSE
    BY <1>0, <2>1, <2>4 DEF VerdictInv, TurnEffect
  <2>5. CASE /\ skipped' = Append(skipped, Current) /\ UNCHANGED <<passed, failed, success>>
             /\ cfg.strategy = "auto" /\ (cur = "skipped" \/ (cur = "idle" /\ SkippedByLoop))
    <3>1. success => ~HasWork(Current)
      BY <2>5 DEF VerdictInv, SkippedByLoop, HasWork, Matches
    <3>2. ASSUME NEW h \in Hooks, h # Current
          PROVE  Occurrences(skipped, h)' = Occurrences(skipped, h)
      <4>1. Occurrences(Append(skipped, Current), h)
               = Occurrences(skipped, h) + (IF Current = h THEN 1 ELSE 0)
        BY <2>2, OccAppend
      <4>2. Occurrences(skipped, h) \in Nat
        BY <2>2, OccType
      <4>3. Occurrences(Append(skipped, Current), h) = Occurrences(skipped, h)
        BY <3>2, <4>1, <4>2
      <4>4. Occurrences(skipped, h)' = Occurrences(skipped', h)
        BY DEF Occurrences
      <4> QED  BY <2>5, <4>3, <4>4
    <3> QED  BY <1>0, <2>1, <2>5, <3>1, <3>2 DEF VerdictInv, TurnEffect
  <2> QED  BY <2>1, <2>3, <2>4, <2>5 DEF TurnEffect
<1>5. CASE ArenaRecord
  <2>1. ArenaEffect
    BY <1>5, ArenaTurnEnds
  <2> QED  BY <1>0, <2>1 DEF VerdictInv, ArenaEffect
<1>6. CASE ParallelSetup
  <2>1. /\ UNCHANGED <<order, next, cur>> /\ phase' = "parallel"
        /\ \A h \in Hooks : task'[h] = "pending"
    BY <1>6 DEF ParallelSetup
  <2> QED  BY <1>0, <1>k, <2>1 DEF VerdictInv
<1>7. CASE \E h \in Hooks : TaskStep(h)
  <2>1. PICK h \in Hooks : TaskStep(h)
    BY <1>7
  <2>2. UNCHANGED <<order, next, cur>> /\ phase' = "parallel"
    BY <2>1, TaskKeeps
  <2>3. \A g \in Hooks : task'[g] = "skipped" => ~HasWork(g)
    BY <2>1, TaskKeeps DEF VerdictInv, TypeOK
  <2> QED  BY <1>0, <1>k, <2>2, <2>3 DEF VerdictInv
<1>8. CASE Collect
  <2>1. CollectEffect /\ cur = "idle"
    BY <1>8, CollectResult DEF OrderInv, CollectEffect
  <2>2. \A h : Occurrences(skipped, h)' = Occurrences(skipped', h)
    BY DEF Occurrences
  <2>3. cfg.strategy = "arena" => FALSE
    BY <2>1 DEF OrderInv, CollectEffect, Parallel
  <2> QED  BY <1>0, <2>1, <2>2, <2>3 DEF VerdictInv, CollectEffect
<1>9. CASE Finish
  <2>1. UNCHANGED <<order, next, cur, task, failed, skipped, success>> /\ phase = "run" /\ phase' = "done"
    BY <1>9 DEF Finish, resultVars
  <2> QED  BY <1>0, <1>k, <1>s, <2>1 DEF VerdictInv
<1> QED  BY <1>1, <1>2, <1>3, <1>4, <1>5, <1>6, <1>7, <1>8, <1>9, StepKinds

-----------------------------------------------------------------------------
(* The events                                                              *)

\* What an appended event changes.
LEMMA LogAppend ==
  ASSUME NEW S, NEW s \in Seq(S), NEW e \in S
  PROVE  /\ Append(s, e) \in Seq(S) /\ Append(s, e) # <<>> /\ Len(s) \in Nat
         /\ Len(Append(s, e)) = Len(s) + 1
         /\ Append(s, e)[Len(s) + 1] = e
         /\ \A i \in 1..Len(s) : Append(s, e)[i] = s[i]
<1>1. /\ Append(s, e) \in Seq(S) /\ Len(s) \in Nat /\ Len(Append(s, e)) = Len(s) + 1
      /\ Append(s, e)[Len(s) + 1] = e /\ \A i \in 1..Len(s) : Append(s, e)[i] = s[i]
  BY AppendProperties, LenProperties
<1>2. Append(s, e) # <<>>
  BY AppendProperties
<1> QED  BY <1>1, <1>2

\* There is no event of the current hook before it has begun.
LEMMA NoEventYet ==
  ASSUME TypeOK, OrderInv, LogInv, phase \in {"setup", "parallel", "run"}
  PROVE  cur = "idle" /\ next <= Len(order) =>
            \A i \in 1..Len(log) : log[i][2] # Current
<1>0. Len(order) \in Nat /\ next \in 1..(Len(order) + 1) /\ order \in Seq(Hooks)
  BY DEF TypeOK
<1>1. \A i \in 1..Len(log) : log[i][2] \in Hooks =>
          \E k \in 1..next : k <= Len(order) /\ order[k] = log[i][2] /\ (k = next => cur # "idle")
  BY DEF LogInv
<1>2. OneEach(order)
  BY DEF OrderInv, Underway
<1>4. ASSUME cur = "idle", next <= Len(order), NEW i \in 1..Len(log), log[i][2] = Current
      PROVE  FALSE
  <2>1. next \in 1..Len(order) /\ Current \in Hooks
    BY <1>0, <1>4 DEF Current
  <2>2. PICK k \in 1..next : k <= Len(order) /\ order[k] = Current /\ (k = next => cur # "idle")
    BY <1>1, <1>4, <2>1
  <2>3. k = next
    BY <1>0, <1>2, <2>1, <2>2 DEF OneEach, Current
  <2> QED  BY <1>4, <2>2, <2>3
<1> QED  BY <1>4

NonPipeline == EventNames \ {"PipelineStarted", "PipelineCompleted"}

\* An event of the current hook keeps the log in order.
LEMMA HookEventKept ==
  ASSUME TypeOK, OrderInv, LogInv, EventDiscipline, cfg' = cfg, SingleEffect
  PROVE  LogInv' /\ EventDiscipline'
<1> DEFINE n == Len(log)
           D(l, i) == l[i][2] \in Hooks =>
              /\ l[i][1] = "HookStarted" <=> \A j \in 1..(i - 1) : l[j][2] # l[i][2]
              /\ l[i][1] \in Terminal => \A j \in (i + 1)..Len(l) : l[j][2] # l[i][2]
<1>0. /\ phase = "run" /\ next <= Len(order) /\ UNCHANGED <<phase, order, next>> /\ cur' # "idle"
      /\ ~Parallel /\ ~Parallel' /\ Current' = Current
  <2>1. /\ phase = "run" /\ next <= Len(order) /\ UNCHANGED <<phase, order, next>> /\ cur' # "idle"
    BY DEF SingleEffect
  <2>2. Len(order) \in Nat
    BY DEF TypeOK
  <2>3. ~Parallel
    BY <2>1, <2>2 DEF OrderInv
  <2> QED  BY <2>1, <2>3 DEF Parallel, UseParallel, HasDependencies, HasNonConcurrent, Current
<1>1. /\ log \in Seq(EventNames \X (Hooks \cup {Unknown})) /\ n \in Nat
      /\ cfg.strategy # "pooled" => log # <<>>
      /\ \A i \in 1..n : log[i][2] \in Hooks =>
            \E k \in 1..next : k <= Len(order) /\ order[k] = log[i][2] /\ (k = next => cur # "idle")
      /\ cur \in {"started", "prepared"} =>
            /\ \E i \in 1..n : log[i][2] = Current
            /\ \A i \in 1..n : log[i][2] = Current => log[i][1] \notin Terminal
  BY <1>0, LenProperties DEF LogInv, Underway
<1>2. /\ cfg.strategy # "pooled" /\ log # <<>> => log[1][1] = "PipelineStarted"
      /\ \A i \in 1..n : log[i][1] # "PipelineCompleted"
      /\ \A i \in 1..n : D(log, i)
  BY <1>0 DEF EventDiscipline
<1>3. Current \in Hooks /\ next \in 1..Len(order)
  BY <1>0 DEF TypeOK, Current
<1>4. CASE log' = log /\ cur' \notin {"started", "prepared"}
  <2>1. LogInv'
    BY <1>0, <1>1, <1>4 DEF LogInv, Underway
  <2>2. EventDiscipline'
    BY <1>0, <1>4 DEF EventDiscipline
  <2> QED  BY <2>1, <2>2
<1>5. ASSUME NEW e \in NonPipeline, log' = Append(log, <<e, Current>>),
             cur' \in {"started", "prepared"} => e \notin Terminal,
             \/ e = "HookStarted" /\ cur = "idle"
             \/ e # "HookStarted" /\ cur \in {"started", "prepared"}
      PROVE  LogInv' /\ EventDiscipline'
  <2>1. <<e, Current>> \in EventNames \X (Hooks \cup {Unknown})
    BY <1>3 DEF NonPipeline
  <2>2. /\ log' \in Seq(EventNames \X (Hooks \cup {Unknown})) /\ log' # <<>>
        /\ Len(log') = n + 1 /\ log'[n + 1] = <<e, Current>>
        /\ \A i \in 1..n : log'[i] = log[i]
    BY <1>1, <1>5, <2>1, LogAppend
  <2>3. \A i \in 1..Len(log') : i \in 1..n \/ i = n + 1
    BY <1>1, <2>2
  <2>4. cur = "idle" => \A i \in 1..n : log[i][2] # Current
    BY <1>0, NoEventYet
  <2> HIDE DEF D
  <2>5. \A i \in 1..Len(log') : log'[i][2] \in Hooks =>
            \E k \in 1..next' : k <= Len(order') /\ order'[k] = log'[i][2] /\ (k = next' => cur' # "idle")
    <3> SUFFICES ASSUME NEW i \in 1..Len(log'), log'[i][2] \in Hooks
                 PROVE  \E k \in 1..next' : k <= Len(order') /\ order'[k] = log'[i][2] /\ (k = next' => cur' # "idle")
      OBVIOUS
    <3>1. CASE i \in 1..n
      <4>1. log[i][2] \in Hooks /\ log'[i][2] = log[i][2]
        BY <3>1, <2>2
      <4> QED  BY <1>0, <1>1, <3>1, <4>1
    <3>2. CASE i = n + 1
      <4>1. log'[i][2] = order[next]
        BY <3>2, <2>2 DEF Current
      <4> QED  BY <1>0, <1>3, <4>1
    <3> QED  BY <2>3, <3>1, <3>2
  <2>6. /\ \E i \in 1..Len(log') : log'[i][2] = Current
        /\ cur' \in {"started", "prepared"} =>
              \A i \in 1..Len(log') : log'[i][2] = Current => log'[i][1] \notin Terminal
    <3>1. n + 1 \in 1..Len(log') /\ log'[n + 1][2] = Current /\ log'[n + 1][1] = e
      BY <1>1, <2>2
    <3>2. \A i \in 1..n : log[i][2] = Current => log[i][1] \notin Terminal
      BY <1>1, <1>5, <2>4
    <3>3. cur' \in {"started", "prepared"} =>
              \A i \in 1..Len(log') : log'[i][2] = Current => log'[i][1] \notin Terminal
      BY <1>5, <2>2, <2>3, <3>1, <3>2
    <3> QED  BY <3>1, <3>3
  <2>7. LogInv'
    BY <1>0, <2>2, <2>5, <2>6 DEF LogInv
  <2>8. cfg.strategy # "pooled" => log'[1][1] = "PipelineStarted"
    <3>1. ASSUME cfg.strategy # "pooled" PROVE 1 \in 1..n
      <4>1. log # <<>>
        BY <1>1, <3>1
      <4> QED  BY <4>1, <1>1, EmptySeq
    <3> QED  BY <3>1, <1>1, <1>2, <2>2
  <2>9. \A i \in 1..Len(log') : log'[i][1] # "PipelineCompleted"
    BY <1>2, <2>2, <2>3, <1>5 DEF NonPipeline
  <2>10. ASSUME NEW i \in 1..Len(log') PROVE D(log', i)
    <3>1. CASE i \in 1..n
      <4>1. D(log, i) /\ log'[i] = log[i] /\ \A j \in 1..(i - 1) : log'[j] = log[j]
        BY <1>1, <1>2, <2>2, <3>1
      <4>2. ASSUME log[i][2] \in Hooks, log[i][1] \in Terminal, NEW j \in (i + 1)..Len(log')
            PROVE  log'[j][2] # log[i][2]
        <5>1. CASE j \in 1..n
          <6>1. j \in (i + 1)..Len(log)
            BY <1>1, <3>1, <4>2, <5>1
          <6> QED  BY <4>1, <4>2, <5>1, <6>1, <2>2 DEF D
        <5>2. CASE j = n + 1
          <6>1. log[i][2] # Current
            BY <1>1, <1>5, <2>4, <3>1, <4>2
          <6> QED  BY <5>2, <6>1, <2>2
        <5> QED  BY <1>1, <2>2, <3>1, <4>2, <5>1, <5>2, SMTT(40)
      <4> QED  BY <4>1, <4>2 DEF D
    <3>2. CASE i = n + 1
      <4>1. log'[i][2] = Current /\ log'[i][1] = e
        BY <3>2, <2>2
      <4>2. e = "HookStarted" <=> \A j \in 1..(i - 1) : log'[j][2] # Current
        <5>1. 1..(i - 1) = 1..n
          BY <3>2, <1>1
        <5>2. CASE e = "HookStarted"
          BY <1>5, <2>2, <2>4, <5>1, <5>2
        <5>3. CASE e # "HookStarted"
          <6>1. \E j \in 1..n : log[j][2] = Current
            BY <1>1, <1>5, <5>3
          <6> QED  BY <2>2, <5>1, <5>3, <6>1
        <5> QED  BY <5>2, <5>3
      <4>3. (i + 1)..Len(log') = {}
        BY <3>2, <1>1, <2>2
      <4> QED  BY <4>1, <4>2, <4>3 DEF D
    <3> QED  BY <2>3, <3>1, <3>2
  <2>11. EventDiscipline'
    <3>1. \A i \in 1..Len(log') : D(log', i)
      BY <2>10
    <3> QED  BY <2>8, <2>9, <3>1 DEF EventDiscipline, D
  <2> QED  BY <2>7, <2>11
<1>6. CASE cur = "idle" /\ log' = Append(log, <<"HookStarted", Current>>)
  <2>1. "HookStarted" \in NonPipeline /\ "HookStarted" \notin Terminal
    BY DEF NonPipeline, EventNames, Terminal
  <2> QED  BY <1>5, <1>6, <2>1
<1>7. CASE /\ cur \in {"started", "prepared"}
           /\ \E e \in {"FilesProcessed"} \cup Terminal :
                /\ log' = Append(log, <<e, Current>>)
                /\ e \in Terminal => cur' \notin {"started", "prepared"}
  <2>1. PICK e \in {"FilesProcessed"} \cup Terminal :
                /\ log' = Append(log, <<e, Current>>)
                /\ e \in Terminal => cur' \notin {"started", "prepared"}
    BY <1>7
  <2>2. e \in NonPipeline /\ e # "HookStarted"
    BY DEF NonPipeline, EventNames, Terminal
  <2> QED  BY <1>5, <1>7, <2>1, <2>2
<1> QED  BY <1>4, <1>6, <1>7 DEF SingleEffect

\* The events stay in order.
LEMMA LogStep ==
  ASSUME TypeOK, StartInv, OrderInv, LogInv, EventDiscipline, Next
  PROVE  LogInv' /\ EventDiscipline'
<1>0. /\ cfg' = cfg /\ (Parallel <=> Parallel') /\ Len(order) \in Nat /\ next \in 1..(Len(order) + 1)
  BY ConfigKept DEF TypeOK
<1>t. Len(log) \in Nat /\ log \in Seq(EventNames \X (Hooks \cup {Unknown}))
  BY LenProperties DEF LogInv
<1>1. CASE Abort
  <2>1. phase \in {"start", "run", "setup"} /\ phase' = "error" /\ UNCHANGED <<order, next, cur, log>>
    BY <1>1, AbortKeeps
  <2> QED  BY <1>0, <2>1 DEF LogInv, EventDiscipline, Underway
<1>2. CASE Start
  <2>1. /\ log = <<>> /\ next' = 1 /\ cur' = "idle" /\ phase' \in {"run", "setup"}
        /\ IF cfg.strategy = "pooled" THEN log' = log
           ELSE log' = Append(log, <<"PipelineStarted", Unknown>>)
    BY <1>2, StartOrders DEF StartInv
  <2>2. CASE cfg.strategy = "pooled"
    BY <1>0, <2>1, <2>2 DEF LogInv, EventDiscipline
  <2>3. CASE cfg.strategy # "pooled"
    <3>1. <<"PipelineStarted", Unknown>> \in EventNames \X (Hooks \cup {Unknown})
      BY DEF EventNames
    <3>2. /\ log' \in Seq(EventNames \X (Hooks \cup {Unknown})) /\ log' # <<>>
          /\ Len(log') = 1 /\ log'[1] = <<"PipelineStarted", Unknown>>
      <4>1. Len(log) = 0
        BY <2>1
      <4> QED  BY <1>t, <2>1, <2>3, <3>1, <4>1, LogAppend
    <3>3. \A i \in 1..Len(log') : log'[i][1] = "PipelineStarted" /\ log'[i][2] \notin Hooks
      BY <3>2, PipelineAssumption
    <3> QED  BY <1>0, <2>1, <3>2, <3>3 DEF LogInv, EventDiscipline
  <2> QED  BY <2>2, <2>3
<1>3. CASE ExecuteSingleHook
  BY <1>0, <1>3, SingleHookKeeps, HookEventKept
<1>4. CASE Turn \/ ArenaRecord
  <2>1. /\ phase = "run" /\ phase' = "run" /\ UNCHANGED <<order, log>> /\ cur' = "idle"
        /\ next <= Len(order) /\ next' \in {next + 1, Len(order) + 1}
    BY <1>0, <1>4, TurnEnds, ArenaTurnEnds DEF TurnEffect, ArenaEffect
  <2>2. \A i \in 1..Len(log') : log'[i][2] \in Hooks =>
          \E k \in 1..next' : k <= Len(order') /\ order'[k] = log'[i][2] /\ (k = next' => cur' # "idle")
    <3> SUFFICES ASSUME NEW i \in 1..Len(log), log[i][2] \in Hooks
                 PROVE  \E k \in 1..next' : k <= Len(order) /\ order[k] = log[i][2] /\ k # next'
      BY <2>1
    <3>1. PICK k \in 1..next : k <= Len(order) /\ order[k] = log[i][2]
      BY <2>1 DEF LogInv
    <3>2. k \in 1..next' /\ k # next'
      BY <1>0, <2>1
    <3> QED  BY <3>1, <3>2
  <2>3. LogInv'
    BY <1>0, <2>1, <2>2 DEF LogInv, Underway
  <2>4. EventDiscipline'
    BY <1>0, <2>1 DEF EventDiscipline
  <2> QED  BY <2>3, <2>4
<1>6. CASE ParallelSetup \/ (\E h \in Hooks : TaskStep(h))
  <2>1. /\ phase \in {"setup", "parallel"} /\ phase' = "parallel" /\ UNCHANGED <<order, next, cur, log>>
    BY <1>6, TaskKeeps DEF ParallelSetup
  <2> QED  BY <1>0, <2>1 DEF LogInv, EventDiscipline, Underway
<1>8. CASE Collect
  <2>1. /\ phase = "parallel" /\ phase' = "run" /\ UNCHANGED <<order, cur, log>> /\ Parallel /\ cur = "idle"
    BY <1>8, CollectResult DEF CollectEffect, OrderInv
  <2> QED  BY <1>0, <2>1 DEF LogInv, EventDiscipline, Underway
<1>9. CASE Finish
  <2>1. /\ phase = "run" /\ phase' = "done" /\ UNCHANGED <<order, next, cur>>
        /\ log' = IF cfg.strategy = "pooled" THEN log ELSE Append(log, <<"PipelineCompleted", Unknown>>)
    BY <1>9 DEF Finish
  <2>2. CASE cfg.strategy = "pooled"
    BY <1>0, <2>1, <2>2 DEF LogInv, EventDiscipline, Underway
  <2>3. CASE cfg.strategy # "pooled"
    <3> DEFINE n == Len(log)
    <3>1. <<"PipelineCompleted", Unknown>> \in EventNames \X (Hooks \cup {Unknown})
      BY DEF EventNames
    <3>2. /\ log' \in Seq(EventNames \X (Hooks \cup {Unknown})) /\ log' # <<>>
          /\ Len(log') = n + 1 /\ log'[n + 1] = <<"PipelineCompleted", Unknown>>
          /\ \A i \in 1..n : log'[i] = log[i]
      BY <1>t, <2>1, <2>3, <3>1, LogAppend
    <3>3. \A i \in 1..Len(log') : i \in 1..n \/ i = n + 1
      BY <1>t, <3>2
    <3>4. log'[n + 1][2] \notin Hooks /\ log'[n + 1][1] = "PipelineCompleted"
      BY <3>2, PipelineAssumption
    <3>5. LogInv'
      <4>1. Parallel => \A i \in 1..Len(log') : log'[i][2] \notin Hooks
        BY <3>2, <3>3, <3>4 DEF LogInv
      <4> QED  BY <1>0, <2>1, <3>2, <4>1 DEF LogInv, Underway
    <3>6. log'[1][1] = "PipelineStarted"
      <4>1. log # <<>>
        BY <2>1, <2>3 DEF LogInv, Underway
      <4>2. 1 \in 1..n
        BY <4>1, <1>t, EmptySeq
      <4> QED  BY <2>3, <4>1, <4>2, <3>2 DEF EventDiscipline
    <3>7. \A i \in 1..Len(log') : log'[i][1] = "PipelineCompleted" => i = Len(log')
      BY <2>1, <3>2, <3>3 DEF EventDiscipline
    <3>8. ASSUME NEW i \in 1..Len(log'), log'[i][2] \in Hooks
          PROVE  /\ log'[i][1] = "HookStarted" <=> \A j \in 1..(i - 1) : log'[j][2] # log'[i][2]
                 /\ log'[i][1] \in Terminal => \A j \in (i + 1)..Len(log') : log'[j][2] # log'[i][2]
      <4>1. i \in 1..n /\ log'[i] = log[i] /\ \A j \in 1..(i - 1) : log'[j] = log[j]
        BY <1>t, <3>2, <3>3, <3>4, <3>8
      <4>2. /\ log[i][1] = "HookStarted" <=> \A j \in 1..(i - 1) : log[j][2] # log[i][2]
            /\ log[i][1] \in Terminal => \A j \in (i + 1)..n : log[j][2] # log[i][2]
        BY <4>1, <3>8 DEF EventDiscipline
      <4>3. \A j \in (i + 1)..Len(log') : (j \in (i + 1)..n /\ log'[j] = log[j]) \/ j = n + 1
        BY <1>t, <3>2, <4>1
      <4>4. log'[i][1] \in Terminal => \A j \in (i + 1)..Len(log') : log'[j][2] # log'[i][2]
        BY <3>4, <3>8, <4>1, <4>2, <4>3
      <4> QED  BY <4>1, <4>2, <4>4
    <3> QED  BY <2>1, <3>5, <3>6, <3>7, <3>8 DEF EventDiscipline
  <2> QED  BY <2>2, <2>3
<1> QED  BY <1>1, <1>2, <1>3, <1>4, <1>6, <1>8, <1>9, StepKinds

-----------------------------------------------------------------------------
(* Theorems                                                                *)

\* Nothing changes in a stuttering step.
LEMMA StutterKeeps == IInv /\ UNCHANGED vars => IInv'
<1> SUFFICES ASSUME IInv, UNCHANGED vars PROVE IInv'
  OBVIOUS
<1>0. UNCHANGED <<cfg, phase, order, next, cur, task, passed, failed, skipped, success, log>>
  BY DEF vars
<1>1. TypeOK' /\ StartInv'
  BY <1>0 DEF IInv, TypeOK, StartInv, Configs
<1>p. Parallel' <=> Parallel
  BY <1>0 DEF Parallel, UseParallel, HasDependencies, HasNonConcurrent
<1>2. OrderInv'
  <2>1. DependenciesFirst(order)' <=> DependenciesFirst(order)
    BY <1>0 DEF DependenciesFirst, Position
  <2> QED  BY <1>0, <1>p, <2>1 DEF IInv, OrderInv, Underway
<1>5. CountInv'
  <2>1. \A h : /\ Occurrences(passed, h)' = Occurrences(passed, h)
               /\ Occurrences(skipped, h)' = Occurrences(skipped, h)
               /\ Occurrences(failed, h)' = Occurrences(failed, h)
               /\ Reported(h)' = Reported(h)
    BY <1>0 DEF Occurrences, Reported
  <2>2. (\A h : Tried(h)' <=> Tried(h)) /\ EndedWith({"timeout"})' = EndedWith({"timeout"})
    BY <1>0 DEF Tried, EndedWith
  <2> QED  BY <1>0, <1>p, <2>1, <2>2 DEF IInv, CountInv
<1>3. VerdictInv'
  BY <1>0 DEF IInv, VerdictInv, HasWork, Matches, AlwaysRun, Current, Occurrences
<1>4. LogInv' /\ EventDiscipline'
  BY <1>0 DEF IInv, LogInv, EventDiscipline, Underway, Parallel, UseParallel, HasDependencies,
     HasNonConcurrent, Current
<1> QED  BY <1>1, <1>2, <1>3, <1>4, <1>5 DEF IInv

\* Every reachable state of a run satisfies the invariant.
LEMMA RunInv == Spec => []IInv
<1>1. IInv /\ [Next]_vars => IInv'
  <2> SUFFICES ASSUME IInv, [Next]_vars PROVE IInv'
    OBVIOUS
  <2>1. CASE Next
    BY <2>1, TypeStep, OrderStep, CountStep, VerdictStep, LogStep DEF IInv
  <2>2. CASE UNCHANGED vars
    BY <2>2, StutterKeeps
  <2> QED  BY <2>1, <2>2
<1> QED  BY InitIInv, <1>1, PTL DEF Spec

\* A finished run has one result for every hook, none missing and none twice; only the
\* tasks that timed out stand in the list as "unknown", once each (execute_hooks and
\* execute_hooks_with_pools).
THEOREM EveryHookIsReported == Spec => []RunReported
<1>1. IInv => RunReported
  <2> SUFFICES ASSUME IInv, phase = "done", cfg.strategy \in {"auto", "pooled"}
               PROVE  /\ \A h \in Hooks : Reported(h) = IF task[h] = "timeout" THEN 0 ELSE 1
                      /\ Occurrences(failed, Unknown) = Cardinality({h \in Hooks : task[h] = "timeout"})
    BY DEF IInv, RunReported, EveryHookReported
  <2>1. EndedWith({"timeout"}) = {h \in Hooks : task[h] = "timeout"}
    BY DEF EndedWith
  <2>2. CASE Parallel
    <3>1. \A h \in Hooks :
            /\ task[h] \in TaskOutcomes
            /\ Occurrences(passed, h) = IF task[h] = "passed" THEN 1 ELSE 0
            /\ Occurrences(skipped, h) = IF task[h] = "skipped" THEN 1 ELSE 0
            /\ Occurrences(failed, h) = IF task[h] \in {"failed", "default", "error"} THEN 1 ELSE 0
      BY <2>2 DEF IInv, CountInv, OrderInv
    <3>2. \A h \in Hooks : Reported(h) = IF task[h] = "timeout" THEN 0 ELSE 1
      BY <3>1 DEF Reported, TaskOutcomes
    <3> QED  BY <2>1, <2>2, <3>2 DEF IInv, CountInv
  <2>3. CASE ~Parallel
    <3>1. /\ OneEach(order) /\ next = Len(order) + 1 /\ task = [h \in Hooks |-> "none"]
          /\ failed \in Seq(Hooks) /\ \A h \in Hooks : Reported(h) = IF Tried(h) THEN 1 ELSE 0
          /\ Len(order) \in Nat
      BY <2>3, LenProperties DEF IInv, CountInv, OrderInv, Underway, TypeOK
    <3>2. \A h \in Hooks : Tried(h)
      BY <3>1 DEF Tried, OneEach
    <3>3. \A h \in Hooks : Reported(h) = IF task[h] = "timeout" THEN 0 ELSE 1
      BY <3>1, <3>2
    <3>4. Occurrences(failed, Unknown) = 0
      <4>1. \A i \in 1..Len(failed) : failed[i] # Unknown
        BY <3>1, PipelineAssumption, SMTT(40)
      <4> QED  BY <3>1, <4>1, OccAbsent
    <3>5. {h \in Hooks : task[h] = "timeout"} = {}
      BY <3>1
    <3> QED  BY <3>3, <3>4, <3>5, FS_EmptySet
  <2> QED  BY <2>2, <2>3
<1> QED  BY RunInv, <1>1, PTL

\* When execute_hooks reports success, every hook that had something to do has passed.
THEOREM SuccessIsReal == Spec => []SuccessMeansAllPassed
<1>1. IInv => SuccessMeansAllPassed
  <2> SUFFICES ASSUME IInv, phase = "done", cfg.strategy = "auto", success,
                      NEW h \in Hooks, HasWork(h)
               PROVE  Occurrences(passed, h) = 1
    BY DEF SuccessMeansAllPassed, HasWork
  <2>1. failed = <<>> /\ Occurrences(skipped, h) = 0 /\ Occurrences(failed, h) = 0
    BY OccEmpty DEF IInv, VerdictInv
  <2>2. CASE Parallel
    <3>1. /\ task[h] \in TaskOutcomes /\ Occurrences(failed, Unknown) = 0
          /\ Occurrences(passed, h) = IF task[h] = "passed" THEN 1 ELSE 0
          /\ Occurrences(skipped, h) = IF task[h] = "skipped" THEN 1 ELSE 0
          /\ Occurrences(failed, h) = IF task[h] \in {"failed", "default", "error"} THEN 1 ELSE 0
          /\ Occurrences(failed, Unknown) = Cardinality(EndedWith({"timeout"}))
      BY <2>1, <2>2, OccEmpty DEF IInv, CountInv, OrderInv
    <3>2. IsFiniteSet(EndedWith({"timeout"}))
      <4>1. IsFiniteSet(Hooks) /\ EndedWith({"timeout"}) \in SUBSET Hooks
        BY PipelineAssumption DEF EndedWith
      <4> QED  BY <4>1, FS_Subset
    <3>3. EndedWith({"timeout"}) = {}
      BY <3>1, <3>2, FS_EmptySet
    <3>4. task[h] # "timeout"
      BY <3>3 DEF EndedWith
    <3> QED  BY <2>1, <3>1, <3>4 DEF TaskOutcomes
  <2>3. CASE ~Parallel
    <3>1. /\ OneEach(order) /\ next = Len(order) + 1 /\ Len(order) \in Nat
          /\ Reported(h) = IF Tried(h) THEN 1 ELSE 0
      BY <2>3, LenProperties DEF IInv, CountInv, OrderInv, Underway, TypeOK
    <3>2. Tried(h)
      BY <3>1 DEF Tried, OneEach
    <3>3. Occurrences(passed, h) \in Nat
      BY OccType DEF IInv, TypeOK
    <3> QED  BY <2>1, <3>1, <3>2, <3>3 DEF Reported
  <2> QED  BY <2>2, <2>3
<1> QED  BY RunInv, <1>1, PTL

\* No hook starts after a failure under fail_fast, and on the sequential path none
\* before the results of all it depends on are in; dependencies are never left to the
\* parallel path.
THEOREM OrderIsKept == Spec => []OrderKept
<1>1. IInv => OrderKept
  <2> SUFFICES ASSUME IInv PROVE OrderKept
    OBVIOUS
  <2>0. /\ order \in Seq(Hooks) /\ Len(order) \in Nat /\ next \in 1..(Len(order) + 1)
        /\ cfg.deps \in [Hooks -> SUBSET Hooks]
    BY LenProperties, PipelineAssumption DEF IInv, TypeOK, Configs
  <2>1. FailFastStops
    BY DEF IInv, FailFastStops, VerdictInv, OrderInv
  <2>2. ASSUME cfg.strategy = "auto", phase = "run", cur # "idle", NEW d \in cfg.deps[Current]
        PROVE  Reported(d) = 1
    <3>1. /\ ~Parallel /\ next <= Len(order) /\ OneEach(order) /\ DependenciesFirst(order)
      BY <2>2 DEF IInv, OrderInv, Underway
    <3>2. Current \in Hooks /\ next \in 1..Len(order) /\ d \in Hooks
      BY <2>0, <2>2, <3>1 DEF Current
    <3>3. Position(order, Current) = next
      BY <3>1, <3>2 DEF Position, OneEach, Current
    <3>4. Position(order, d) \in 1..Len(order) /\ order[Position(order, d)] = d
      BY <3>1, <3>2 DEF Position, OneEach
    <3>5. Position(order, d) < next
      BY <2>2, <3>1, <3>2, <3>3 DEF DependenciesFirst
    <3>6. Tried(d)
      BY <2>0, <3>4, <3>5 DEF Tried
    <3> QED  BY <2>2, <3>1, <3>2, <3>6 DEF IInv, CountInv
  <2>3. ASSUME cfg.strategy = "auto", HasDependencies
        PROVE  Running = {}
    <3>1. ~Parallel
      BY <2>3 DEF Parallel, UseParallel
    <3>2. task = [h \in Hooks |-> "none"]
      BY <3>1 DEF IInv, OrderInv
    <3> QED  BY <3>2 DEF Running
  <2> QED  BY <2>1, <2>2, <2>3 DEF OrderKept, DependenciesSettled
<1> QED  BY RunInv, <1>1, PTL

\* The bus sees PipelineStarted first, PipelineCompleted last and only of a run that is
\* done, and of each hook one HookStarted first and nothing after a terminal event.
THEOREM EventsInOrder == Spec => []EventDiscipline
<1>1. IInv => EventDiscipline
  BY DEF IInv
<1> QED  BY RunInv, <1>1, PTL

=============================================================================
