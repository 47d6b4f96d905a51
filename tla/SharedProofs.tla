---------------------------- MODULE SharedProofs ----------------------------
(***************************************************************************)
(* Theorems about what tasks share: the lock-free scheduler, the lock-free *)
(* and the negative cache, the caches of the engine and the manager of     *)
(* its pools, for any threads, workers, tasks, keys, files and hooks; and  *)
(* about FileLock, which shares no state with them: a call gets all of its *)
(* locks or none, and callers do not wait for each other in a cycle when   *)
(* no two paths have the same key to sort by.                              *)
(***************************************************************************)
EXTENDS MCShared, FileLock, WellFoundedInduction, SequenceTheorems, FiniteSetTheorems,
        FunctionTheorems, TLAPS

-----------------------------------------------------------------------------
(* Queues, sequences whose entries are distinct.                             *)

Entries(s) == {s[k] : k \in 1..Len(s)}
Distinct(s) == \A i, j \in 1..Len(s) : s[i] = s[j] => i = j

\* A queue of distinct entries has as many as its length tells.
LEMMA EntriesCounted ==
  ASSUME NEW S, NEW s \in Seq(S), Distinct(s)
  PROVE  IsFiniteSet(Entries(s)) /\ Cardinality(Entries(s)) = Len(s)
<1> DEFINE f == [k \in 1..Len(s) |-> s[k]]
<1>1. Len(s) \in Nat
  BY LenProperties
<1>2. IsFiniteSet(1..Len(s)) /\ Cardinality(1..Len(s)) = Len(s)
  <2>1. 1 \in Int /\ Len(s) \in Int
    BY <1>1
  <2>2. IsFiniteSet(1..Len(s)) /\ Cardinality(1..Len(s)) = IF 1 > Len(s) THEN 0 ELSE Len(s) - 1 + 1
    BY <2>1, FS_Interval
  <2> QED  BY <1>1, <2>2
<1>3. f \in Bijection(1..Len(s), Entries(s))
  <2>1. f \in [1..Len(s) -> Entries(s)]
    BY DEF Entries
  <2>2. \A i, j \in 1..Len(s) : f[i] = f[j] => i = j
    BY DEF Distinct
  <2>3. \A e \in Entries(s) : \E i \in 1..Len(s) : f[i] = e
    BY DEF Entries
  <2> HIDE DEF f
  <2> QED  BY <2>1, <2>2, <2>3 DEF Bijection, Injection, IsInjective, Surjection
<1>4. ExistsBijection(1..Len(s), Entries(s))
  BY <1>3 DEF ExistsBijection
<1> QED  BY <1>2, <1>4, FS_Bijection

\* push adds its entry at the end.
LEMMA PushEntry ==
  ASSUME NEW S, NEW s \in Seq(S), NEW x \in S
  PROVE  /\ Append(s, x) \in Seq(S) /\ Len(Append(s, x)) = Len(s) + 1
         /\ Entries(Append(s, x)) = Entries(s) \cup {x}
         /\ Distinct(s) /\ x \notin Entries(s) => Distinct(Append(s, x))
<1>1. /\ Len(s) \in Nat /\ Len(Append(s, x)) = Len(s) + 1 /\ Append(s, x) \in Seq(S)
      /\ \A i \in 1..Len(s) : Append(s, x)[i] = s[i]
      /\ Append(s, x)[Len(s) + 1] = x
  BY AppendProperties, LenProperties
<1>2. ASSUME NEW y \in Entries(s) \cup {x} PROVE y \in Entries(Append(s, x))
  <2>1. CASE y = x
    BY <1>1, <2>1 DEF Entries
  <2>2. CASE y \in Entries(s)
    <3>1. PICK i \in 1..Len(s) : y = s[i]  BY <2>2 DEF Entries
    <3> QED  BY <1>1, <3>1 DEF Entries
  <2> QED  BY <2>1, <2>2
<1>3. ASSUME NEW y \in Entries(Append(s, x)) PROVE y \in Entries(s) \cup {x}
  BY <1>1 DEF Entries
<1>4. ASSUME Distinct(s), x \notin Entries(s) PROVE Distinct(Append(s, x))
  BY <1>1, <1>4 DEF Distinct, Entries
<1> QED  BY <1>1, <1>2, <1>3, <1>4

\* pop takes the first entry out.
LEMMA PopEntry ==
  ASSUME NEW S, NEW s \in Seq(S), s # <<>>, Distinct(s)
  PROVE  /\ Tail(s) \in Seq(S) /\ Len(Tail(s)) = Len(s) - 1 /\ Head(s) \in S
         /\ Head(s) \in Entries(s)
         /\ Entries(Tail(s)) = Entries(s) \ {Head(s)}
         /\ Distinct(Tail(s))
<1>1. /\ Len(s) \in Nat \ {0} /\ Head(s) = s[1] /\ Head(s) \in S
      /\ Len(Tail(s)) = Len(s) - 1 /\ Tail(s) \in Seq(S)
      /\ \A i \in 1..Len(Tail(s)) : Tail(s)[i] = s[i + 1]
  BY EmptySeq, HeadTailProperties
<1>2. Head(s) \in Entries(s)
  BY <1>1 DEF Entries
<1>3. ASSUME NEW x \in Entries(Tail(s)) PROVE x \in Entries(s) \ {Head(s)}
  BY <1>1 DEF Entries, Distinct
<1>4. ASSUME NEW x \in Entries(s) \ {Head(s)} PROVE x \in Entries(Tail(s))
  <2>1. PICK i \in 1..Len(s) : x = s[i]  BY DEF Entries
  <2>2. i - 1 \in 1..Len(Tail(s)) /\ Tail(s)[i - 1] = x  BY <1>1, <2>1
  <2> QED  BY <2>2 DEF Entries
<1>5. Distinct(Tail(s))
  BY <1>1 DEF Distinct
<1> QED  BY <1>1, <1>2, <1>3, <1>4, <1>5

-----------------------------------------------------------------------------
(* FileLock: sorting.                                                        *)

\* In a finite set that is not empty some element has the greatest key.
LEMMA HasMaximum ==
  ASSUME NEW S, IsFiniteSet(S), S # {}, NEW key, \A c \in S : key[c] \in Nat
  PROVE  \E c \in S : \A d \in S : key[d] <= key[c]
<1> DEFINE above(c) == {d \in S : key[d] > key[c]}
           T == {above(c) : c \in S}
<1>1. T \subseteq FiniteSubsetsOf(S) /\ T # {}
  <2>1. \A c \in S : above(c) \in SUBSET S /\ IsFiniteSet(above(c))
    BY FS_Subset
  <2> QED  BY <2>1 DEF FiniteSubsetsOf
<1>2. PICK m \in T : \A y \in T : <<y, m>> \notin StrictSubsetOrdering(S)
  BY <1>1, FS_StrictSubsetOrderingWellFounded, WFMin
<1>3. PICK c \in S : m = above(c)
  OBVIOUS
<1>4. ASSUME NEW d \in S, key[d] > key[c] PROVE FALSE
  <2>1. above(d) \subseteq above(c) /\ d \in above(c) /\ d \notin above(d)
    BY <1>4
  <2>2. <<above(d), above(c)>> \in StrictSubsetOrdering(S)
    BY <2>1 DEF StrictSubsetOrdering
  <2> QED  BY <1>2, <1>3, <2>2
<1> QED  BY <1>4

-----------------------------------------------------------------------------
\* The order of two places in the list that sort_by_hierarchy puts right.
Before(s, i, j) == \/ SortKey[s[i]] < SortKey[s[j]]
                   \/ SortKey[s[i]] = SortKey[s[j]] /\ i < j
Place(s, i) == 1 + Cardinality({j \in 1..Len(s) : Before(s, j, i)})

\* Each place of the sorted list gets exactly one entry of the list, and an entry that
\* comes before another gets an earlier place.
LEMMA Places ==
  ASSUME NEW s \in Seq(Paths)
  PROVE  /\ \A i \in 1..Len(s) : Place(s, i) \in 1..Len(s)
         /\ \A i, j \in 1..Len(s) : Before(s, i, j) => Place(s, i) < Place(s, j)
         /\ \A i, j \in 1..Len(s) : Place(s, i) = Place(s, j) => i = j
         /\ \A k \in 1..Len(s) : \E i \in 1..Len(s) : Place(s, i) = k
<1> DEFINE n == Len(s)
           earlier(i) == {j \in 1..n : Before(s, j, i)}
           place == [i \in 1..n |-> Place(s, i)]
<1>1. n \in Nat /\ \A i \in 1..n : SortKey[s[i]] \in Nat
  BY LenProperties, ElementOfSeq, LockAssumption
<1> HIDE DEF n
<1>2. IsFiniteSet(1..n) /\ Cardinality(1..n) = n
  <2>1. 1 \in Int /\ n \in Int
    BY <1>1
  <2>2. IsFiniteSet(1..n) /\ Cardinality(1..n) = IF 1 > n THEN 0 ELSE n - 1 + 1
    BY <2>1, FS_Interval
  <2> QED  BY <1>1, <2>2
<1>3. ASSUME NEW i \in 1..n
      PROVE  /\ IsFiniteSet(earlier(i)) /\ Cardinality(earlier(i)) \in Nat
             /\ Cardinality(earlier(i)) < n
  <2>1. earlier(i) \in SUBSET ((1..n) \ {i})
    BY <1>1 DEF Before
  <2>2. IsFiniteSet((1..n) \ {i}) /\ Cardinality((1..n) \ {i}) = n - 1
    BY <1>2, FS_RemoveElement
  <2>3. IsFiniteSet(earlier(i)) /\ Cardinality(earlier(i)) <= n - 1
    BY <2>1, <2>2, FS_Subset
  <2>4. Cardinality(earlier(i)) \in Nat
    BY <2>3, FS_CardinalityType
  <2> QED  BY <1>1, <2>3, <2>4
<1>4. ASSUME NEW i \in 1..n
      PROVE  Place(s, i) = 1 + Cardinality(earlier(i)) /\ Place(s, i) \in 1..n
  <2>1. Place(s, i) = 1 + Cardinality(earlier(i))
    BY DEF Place, n
  <2> HIDE DEF earlier
  <2> QED  BY <1>1, <1>3, <2>1
<1>5. ASSUME NEW i \in 1..n, NEW j \in 1..n, Before(s, i, j)
      PROVE  Place(s, i) < Place(s, j)
  <2>1. earlier(i) \in SUBSET earlier(j) /\ i \in earlier(j) /\ i \notin earlier(i)
    BY <1>1, <1>5 DEF Before
  <2>2. /\ Cardinality(earlier(i)) <= Cardinality(earlier(j))
        /\ Cardinality(earlier(i)) # Cardinality(earlier(j))
    BY <1>3, <2>1, FS_Subset
  <2> HIDE DEF earlier
  <2> QED  BY <1>3, <1>4, <2>2
<1>6. ASSUME NEW i \in 1..n, NEW j \in 1..n, Place(s, i) = Place(s, j)
      PROVE  i = j
  <2>1. i = j \/ Before(s, i, j) \/ Before(s, j, i)
    BY <1>1 DEF Before
  <2>2. Place(s, i) \in 1..n /\ Place(s, j) \in 1..n
    BY <1>4
  <2>3. ~(Place(s, i) < Place(s, j)) /\ ~(Place(s, j) < Place(s, i))
    BY <1>1, <1>6, <2>2
  <2> QED  BY <1>5, <2>1, <2>3
<1>7. place \in Injection(1..n, 1..n)
  <2>1. \A i \in 1..n : place[i] = Place(s, i) /\ place[i] \in 1..n
    BY <1>4
  <2>2. place \in [1..n -> 1..n]
    BY <2>1
  <2> HIDE DEF place
  <2> QED  BY <1>6, <2>1, <2>2 DEF Injection, IsInjective
<1>8. place \in Surjection(1..n, 1..n)
  BY <1>2, <1>7, FS_Injection
<1>9. ASSUME NEW k \in 1..n PROVE \E i \in 1..n : Place(s, i) = k
  BY <1>8 DEF Surjection
<1> QED  BY <1>4, <1>5, <1>6, <1>9 DEF n

\* sort_by_hierarchy returns the paths it was given, in ascending order of their keys.
LEMMA Sorting ==
  ASSUME NEW s \in Requests
  PROVE  LET t == SortByHierarchy(s)
         IN  /\ t \in Seq(Paths) /\ Len(t) = Len(s) /\ Len(t) > 0
             /\ \A i, j \in 1..Len(t) : t[i] = t[j] => i = j
             /\ \A i, j \in 1..Len(t) : i < j => SortKey[t[i]] <= SortKey[t[j]]
             /\ {t[i] : i \in 1..Len(t)} = {s[i] : i \in 1..Len(s)}
<1> DEFINE t == SortByHierarchy(s)
           from(k) == CHOOSE i \in 1..Len(s) : Place(s, i) = k
<1>1. /\ s \in Seq(Paths) /\ s # <<>> /\ Len(s) \in Nat \ {0}
      /\ \A i, j \in 1..Len(s) : s[i] = s[j] => i = j
      /\ \A i \in 1..Len(s) : s[i] \in Paths /\ SortKey[s[i]] \in Nat
  BY LockAssumption, EmptySeq, ElementOfSeq
<1>2. t = [k \in 1..Len(s) |-> s[from(k)]]
  BY DEF SortByHierarchy, Place, Before
<1>3. ASSUME NEW k \in 1..Len(s) PROVE from(k) \in 1..Len(s) /\ Place(s, from(k)) = k
  <2>1. \E i \in 1..Len(s) : Place(s, i) = k
    BY <1>1, Places
  <2> QED  BY <2>1
<1> HIDE DEF t, from
<1>4. \A k \in 1..Len(s) : t[k] = s[from(k)] /\ t[k] \in Paths
  BY <1>1, <1>2, <1>3
<1>5. t \in Seq(Paths) /\ Len(t) = Len(s)
  <2>1. t \in [1..Len(s) -> Paths]
    BY <1>2, <1>4
  <2> QED  BY <1>1, <2>1, SeqDef
<1>6. ASSUME NEW i \in 1..Len(t), NEW j \in 1..Len(t), t[i] = t[j] PROVE i = j
  <2>1. from(i) = from(j)
    BY <1>1, <1>3, <1>4, <1>5, <1>6
  <2> QED  BY <1>3, <1>5, <2>1
<1>7. ASSUME NEW i \in 1..Len(t), NEW j \in 1..Len(t), i < j
      PROVE  SortKey[t[i]] <= SortKey[t[j]]
  <2>1. SUFFICES ASSUME SortKey[t[j]] < SortKey[t[i]] PROVE FALSE
    BY <1>1, <1>3, <1>4, <1>5
  <2>2. Before(s, from(j), from(i))
    BY <1>4, <1>5, <2>1 DEF Before
  <2>3. Place(s, from(j)) < Place(s, from(i))
    BY <1>1, <1>3, <1>5, <2>2, Places
  <2>4. j < i
    BY <1>3, <1>5, <2>3
  <2> QED  BY <1>1, <1>5, <1>7, <2>4
<1>8. ASSUME NEW i \in 1..Len(s) PROVE \E k \in 1..Len(t) : t[k] = s[i]
  <2>1. Place(s, i) \in 1..Len(s)
    BY <1>1, Places
  <2>2. from(Place(s, i)) = i
    BY <1>1, <1>3, <2>1, Places
  <2> QED  BY <1>4, <1>5, <2>1, <2>2
<1>9. {t[i] : i \in 1..Len(t)} = {s[i] : i \in 1..Len(s)}
  <2>1. \A k \in 1..Len(t) : \E i \in 1..Len(s) : t[k] = s[i]
    BY <1>3, <1>4, <1>5
  <2> QED  BY <1>8, <2>1
<1>10. Len(t) > 0
  BY <1>1, <1>5
<1> QED  BY <1>5, <1>6, <1>7, <1>9, <1>10, Zenon DEF t

-----------------------------------------------------------------------------
(* FileLock: the inductive invariant.                                        *)

PathsOf(H) == {h.path : h \in H}
FirstPaths(c, n) == {asked[c][i] : i \in 1..n}

\* The list of a call names each path once, in the order of the keys.
AskedInOrder(c) ==
  /\ asked[c] \in Seq(Paths)
  /\ \A i, j \in 1..Len(asked[c]) : asked[c][i] = asked[c][j] => i = j
  /\ \A i, j \in 1..Len(asked[c]) : i < j => SortKey[asked[c][i]] <= SortKey[asked[c][j]]

\* A call that is locking has exactly the locks of the first paths of its list, and
\* its length tells how many; a call that is over returned what AllOrNothing says.
HeldAsAsked(c) ==
  /\ IsFiniteSet(held[c])
  /\ pc[c] \in {"open", "flock"} => Done(c) < Len(asked[c])
  /\ pc[c] = "record" => Done(c) \in 1..Len(asked[c])
  /\ pc[c] \in {"open", "flock", "record"} => PathsOf(held[c]) = FirstPaths(c, Done(c))
  /\ pc[c] # "idle" => outcome[c] = "none"
  /\ outcome[c] = "Ok" => PathsOf(held[c]) = FirstPaths(c, Len(asked[c]))
  /\ outcome[c] = "Err" => held[c] = {}

CallInv(c) == AskedInOrder(c) /\ HeldAsAsked(c)

LockInv == TypeOK /\ \A c \in Callers : CallInv(c)

\* A caller whose variables a step leaves alone keeps its part of the invariant.
LEMMA Others ==
  ASSUME NEW c \in Callers, CallInv(c), asked'[c] = asked[c], held'[c] = held[c],
         pc'[c] = pc[c], outcome'[c] = outcome[c]
  PROVE  CallInv(c)'
<1>1. Done(c)' = Done(c) /\ PathsOf(held[c])' = PathsOf(held[c])
  BY DEF Done, PathsOf
<1>2. FirstPaths(c, Done(c))' = FirstPaths(c, Done(c))
  BY <1>1 DEF FirstPaths
<1>3. FirstPaths(c, Len(asked[c]))' = FirstPaths(c, Len(asked[c]))
  BY DEF FirstPaths
<1> QED  BY <1>1, <1>2, <1>3 DEF CallInv, AskedInOrder, HeldAsAsked

\* The path a call is working on is one of its list.
LEMMA WantedIsPath ==
  ASSUME LockInv, NEW c \in Callers, pc[c] \in {"open", "flock"}
  PROVE  /\ Done(c) \in Nat /\ Len(asked[c]) \in Nat /\ Done(c) + 1 \in 1..Len(asked[c])
         /\ Wanted(c) \in Paths /\ LockFileOf[Wanted(c)] \in Files
<1>1. Done(c) \in Nat /\ Len(asked[c]) \in Nat /\ Done(c) + 1 \in 1..Len(asked[c])
  BY FS_CardinalityType, LenProperties DEF LockInv, CallInv, AskedInOrder, HeldAsAsked, Done
<1>2. Wanted(c) \in Paths
  BY <1>1, ElementOfSeq DEF LockInv, CallInv, AskedInOrder, Wanted
<1> QED  BY <1>1, <1>2 DEF Files

\* A call starts with a sorted list and nothing locked.
LEMMA CallStarts ==
  ASSUME LockInv, NEW c \in Callers, NEW s, NEW t \in LockTypes, Call(c, s, t), held'[c] = {},
         s \in Seq(Paths), Len(s) > 0,
         \A i, j \in 1..Len(s) : s[i] = s[j] => i = j,
         \A i, j \in 1..Len(s) : i < j => SortKey[s[i]] <= SortKey[s[j]]
  PROVE  /\ CallInv(c)'
         /\ \A d \in Callers \ {c} : asked'[d] = asked[d] /\ pc'[d] = pc[d] /\ outcome'[d] = outcome[d]
<1>1. /\ asked'[c] = s /\ pc'[c] = "open" /\ outcome'[c] = "none"
      /\ \A d \in Callers \ {c} :
            asked'[d] = asked[d] /\ pc'[d] = pc[d] /\ outcome'[d] = outcome[d]
  BY DEF LockInv, TypeOK, Call
<1>2. AskedInOrder(c)'
  BY <1>1 DEF AskedInOrder
<1>3. Done(c)' = 0 /\ IsFiniteSet(held'[c]) /\ PathsOf(held[c])' = {} /\ FirstPaths(c, Done(c))' = {}
  <2>1. Done(c)' = 0 /\ IsFiniteSet(held'[c]) /\ PathsOf(held[c])' = {}
    BY FS_EmptySet DEF Done, PathsOf
  <2> QED  BY <2>1 DEF FirstPaths
<1>4. HeldAsAsked(c)'
  BY <1>1, <1>3 DEF HeldAsAsked
<1> QED  BY <1>1, <1>2, <1>4 DEF CallInv

-----------------------------------------------------------------------------
LEMMA TypeStep == ASSUME LockInv, [Next]_vars PROVE TypeOK'
<1> USE LockAssumption DEF LockInv, TypeOK
<1>1. CASE UNCHANGED vars
  BY <1>1 DEF vars
<1>2. ASSUME NEW c \in Callers, NEW s \in Requests, NEW t \in LockTypes, Acquire(c, s, t)
      PROVE  TypeOK'
  BY <1>2, Sorting DEF Acquire, Call, fileVars
<1>3. ASSUME NEW c \in Callers, Open(c) PROVE TypeOK'
  <2>1. LockFileOf[Wanted(c)] \in Files
    BY <1>3, WantedIsPath DEF Open
  <2> QED  BY <1>3, <2>1 DEF Open
<1>4. ASSUME NEW c \in Callers, Granted(c) PROVE TypeOK'
  <2>1. Wanted(c) \in Paths
    BY <1>4, WantedIsPath DEF Granted
  <2>2. [path |-> Wanted(c), gen |-> fd[c], type |-> type[c], flocked |-> ~Conflicts(c)] \in Handle
    <3>1. fd[c] \in 0..MaxRemovals /\ type[c] \in LockTypes /\ (~Conflicts(c)) \in BOOLEAN
      OBVIOUS
    <3> QED  BY <2>1, <3>1 DEF Handle
  <2>3. held' \in [Callers -> SUBSET Handle]
    BY <1>4, <2>2 DEF Granted
  <2> QED  BY <1>4, <2>3 DEF Granted, fileVars
<1>5. ASSUME NEW c \in Callers, Refused(c) \/ Elapse(c) PROVE TypeOK'
  <2>1. CASE Refused(c)
    BY <2>1 DEF Refused, fileVars
  <2>2. CASE Elapse(c)
    BY <2>2 DEF Elapse, fileVars
  <2> QED  BY <1>5, <2>1, <2>2
<1>6. ASSUME NEW c \in Callers, Record(c) PROVE TypeOK'
  BY <1>6 DEF Record, Return, fileVars, LockTypes
<1>7. ASSUME NEW c \in Callers, Unwind(c) PROVE TypeOK'
  <2>1. ASSUME NEW h \in held[c], ReleaseHandle(c, h),
               UNCHANGED <<pc, outcome, type, expired, asked, fd, fileVars, marked>>
        PROVE  TypeOK'
    BY <2>1 DEF ReleaseHandle, fileVars
  <2>2. ASSUME Return(c, "Err"), expired' = [expired EXCEPT ![c] = FALSE],
               UNCHANGED <<held, locks, asked, fd, fileVars, marked>>
        PROVE  TypeOK'
    BY <2>2 DEF Return, fileVars, LockTypes
  <2> QED  BY <1>7, <2>1, <2>2 DEF Unwind
<1>8. ASSUME NEW c \in Callers, NEW h \in held[c], Release(c, h) \/ Drop(c, h) PROVE TypeOK'
  <2>1. <<>> \in Seq(Paths)
    BY EmptySeq
  <2>2. CASE Release(c, h)
    BY <2>1, <2>2 DEF Release, ReleaseHandle, Forget, fileVars
  <2>3. CASE Drop(c, h)
    BY <2>1, <2>3 DEF Drop, Forget, fileVars
  <2> QED  BY <1>8, <2>2, <2>3
<1>9. ASSUME NEW c \in Callers, NEW h \in held[c], NEW t \in LockTypes, Upgrade(c, h, t)
      PROVE  TypeOK'
  <2>1. h.path \in Paths /\ <<h.path>> \in Seq(Paths)
    BY DEF Handle
  <2> QED  BY <1>9, <2>1 DEF Upgrade, ReleaseHandle, Call, fileVars
<1>10. ASSUME NEW p \in Paths, Age(p) PROVE TypeOK'
  BY <1>10 DEF Age, callVars, fileVars
<1>11. ASSUME NEW p \in Paths, ForceUnlock(p) PROVE TypeOK'
  <2>1. exists' \in [Files -> BOOLEAN] /\ gen' \in [Files -> 0..MaxRemovals]
    BY <1>11 DEF ForceUnlock, Removed, Removable
  <2> QED  BY <1>11, <2>1 DEF ForceUnlock, callVars
<1>12. CASE CleanupIdentify
  BY <1>12 DEF CleanupIdentify, callVars, fileVars
<1>13. CASE CleanupRemove
  <2>1. PICK P \in SUBSET marked :
          /\ \A p \in marked : exists[LockFileOf[p]] <=>
                \E q \in P : LockFileOf[q] = LockFileOf[p]
          /\ Removed({LockFileOf[p] : p \in P})
          /\ locks' = [p \in Paths |-> IF p \in P THEN "none" ELSE locks[p]]
    BY <1>13 DEF CleanupRemove
  <2>2. \A p \in P : gen[LockFileOf[p]] < MaxRemovals
    BY <1>13, <2>1 DEF CleanupRemove, Removable
  <2>3. exists' \in [Files -> BOOLEAN] /\ gen' \in [Files -> 0..MaxRemovals]
    BY <2>1, <2>2 DEF Removed
  <2> QED  BY <1>13, <2>1, <2>3 DEF CleanupRemove, callVars
<1> QED
  BY <1>1, <1>2, <1>3, <1>4, <1>5, <1>6, <1>7, <1>8, <1>9, <1>10, <1>11, <1>12, <1>13
  DEF Next, Steps

-----------------------------------------------------------------------------
\* A step of caller c leaves the calls of the others alone.
LEMMA GrantKeeps ==
  ASSUME LockInv, NEW c \in Callers, Granted(c)
  PROVE  CallInv(c)'
<1> DEFINE new == [path |-> Wanted(c), gen |-> fd[c], type |-> type[c], flocked |-> ~Conflicts(c)]
<1>1. /\ Done(c) \in Nat /\ Len(asked[c]) \in Nat /\ Done(c) + 1 \in 1..Len(asked[c])
      /\ IsFiniteSet(held[c]) /\ PathsOf(held[c]) = FirstPaths(c, Done(c))
      /\ AskedInOrder(c) /\ outcome[c] = "none"
  BY WantedIsPath DEF Granted, LockInv, CallInv, HeldAsAsked
<1>2. held'[c] = held[c] \cup {new} /\ pc'[c] = "record" /\ UNCHANGED <<asked, outcome>>
  BY DEF Granted, LockInv, TypeOK
<1>3. new.path = asked[c][Done(c) + 1]
  BY DEF Wanted
<1> HIDE DEF new
<1>4. new \notin held[c]
  <2>1. SUFFICES ASSUME new \in held[c] PROVE FALSE
    OBVIOUS
  <2>2. new.path \in FirstPaths(c, Done(c))
    BY <1>1, <2>1 DEF PathsOf
  <2>3. PICK i \in 1..Done(c) : asked[c][i] = asked[c][Done(c) + 1]
    BY <1>3, <2>2 DEF FirstPaths
  <2>4. i = Done(c) + 1
    BY <1>1, <2>3 DEF AskedInOrder
  <2> QED  BY <1>1, <2>4
<1>5. Done(c)' = Done(c) + 1 /\ IsFiniteSet(held'[c])
  BY <1>1, <1>2, <1>4, FS_AddElement DEF Done
<1>6. PathsOf(held[c])' = PathsOf(held[c]) \cup {new.path}
  BY <1>2 DEF PathsOf
<1>7. FirstPaths(c, Done(c))' = FirstPaths(c, Done(c)) \cup {asked[c][Done(c) + 1]}
  BY <1>1, <1>2, <1>5 DEF FirstPaths
<1>8. PathsOf(held[c])' = FirstPaths(c, Done(c))'
  BY <1>1, <1>3, <1>6, <1>7
<1>9. HeldAsAsked(c)'
  BY <1>1, <1>2, <1>5, <1>8 DEF HeldAsAsked
<1> QED  BY <1>1, <1>2, <1>9 DEF CallInv, AskedInOrder

LEMMA RecordKeeps ==
  ASSUME LockInv, NEW c \in Callers, Record(c)
  PROVE  CallInv(c)'
<1>1. /\ Done(c) \in Nat /\ Len(asked[c]) \in Nat /\ Done(c) \in 1..Len(asked[c])
      /\ IsFiniteSet(held[c]) /\ PathsOf(held[c]) = FirstPaths(c, Done(c))
      /\ AskedInOrder(c) /\ outcome[c] = "none"
  BY LenProperties, FS_CardinalityType
  DEF Record, LockInv, CallInv, AskedInOrder, HeldAsAsked, Done
<1>2. /\ UNCHANGED <<asked, held>> /\ Done(c)' = Done(c)
      /\ \/ Done(c) = Len(asked[c]) /\ pc'[c] = "idle" /\ outcome'[c] = "Ok"
         \/ Done(c) < Len(asked[c]) /\ pc'[c] = "open" /\ outcome'[c] = "none"
  BY <1>1 DEF Record, Return, LockInv, TypeOK, Done
<1>3. PathsOf(held[c])' = PathsOf(held[c]) /\ FirstPaths(c, Done(c))' = FirstPaths(c, Done(c))
  BY <1>2 DEF PathsOf, FirstPaths
<1>4. Done(c) = Len(asked[c]) => FirstPaths(c, Len(asked[c]))' = FirstPaths(c, Done(c))'
  BY <1>2 DEF FirstPaths
<1>5. HeldAsAsked(c)'
  BY <1>1, <1>2, <1>3, <1>4 DEF HeldAsAsked
<1> QED  BY <1>1, <1>2, <1>5 DEF CallInv, AskedInOrder

\* Opening the lock file, waiting and giving up leave locks and list alone.
LEMMA TryKeeps ==
  ASSUME LockInv, NEW c \in Callers, Open(c) \/ Refused(c) \/ Elapse(c)
  PROVE  CallInv(c)'
<1>1. /\ UNCHANGED <<asked, held, outcome>> /\ Done(c)' = Done(c)
      /\ pc[c] \in {"open", "flock"} /\ pc'[c] \in {"open", "flock", "unwind"}
  BY DEF Open, Refused, Elapse, LockInv, TypeOK, Done
<1>2. /\ FirstPaths(c, Done(c))' = FirstPaths(c, Done(c))
      /\ PathsOf(held[c])' = PathsOf(held[c])
  BY <1>1 DEF FirstPaths, PathsOf
<1>3. AskedInOrder(c) /\ HeldAsAsked(c) /\ outcome[c] = "none"
  BY <1>1 DEF LockInv, CallInv, HeldAsAsked
<1>4. HeldAsAsked(c)'
  BY <1>1, <1>2, <1>3 DEF HeldAsAsked
<1> QED  BY <1>1, <1>3, <1>4 DEF CallInv, AskedInOrder

\* Giving locks back, in a call that fails or after one that succeeded.
LEMMA GiveBackKeeps ==
  ASSUME LockInv, NEW c \in Callers,
         Unwind(c) \/ \E h \in held[c] : Release(c, h) \/ Drop(c, h)
  PROVE  CallInv(c)'
<1>1. AskedInOrder(c) /\ IsFiniteSet(held[c])
  BY DEF LockInv, CallInv, HeldAsAsked
<1>2. CASE held[c] = {} /\ UNCHANGED <<held, asked>> /\ pc'[c] = "idle" /\ outcome'[c] = "Err"
  <2>1. HeldAsAsked(c)'
    BY <1>1, <1>2 DEF HeldAsAsked
  <2> QED  BY <1>1, <1>2, <2>1 DEF CallInv, AskedInOrder
<1>3. ASSUME NEW h \in held[c], held' = [held EXCEPT ![c] = @ \ {h}],
             pc'[c] \in {"idle", "unwind"}, outcome'[c] = "none",
             asked'[c] \in {asked[c], <<>>}
      PROVE  CallInv(c)'
  <2>1. IsFiniteSet(held'[c])
    BY <1>1, <1>3, FS_RemoveElement DEF LockInv, TypeOK
  <2>2. HeldAsAsked(c)'
    BY <1>3, <2>1 DEF HeldAsAsked
  <2>3. CASE asked'[c] = asked[c]
    BY <1>1, <2>2, <2>3 DEF CallInv, AskedInOrder
  <2>4. CASE asked'[c] = <<>>
    BY <2>2, <2>4, EmptySeq DEF CallInv, AskedInOrder
  <2> QED  BY <1>3, <2>3, <2>4
<1>4. CASE Unwind(c)
  <2>1. outcome[c] = "none"
    BY <1>4 DEF Unwind, LockInv, CallInv, HeldAsAsked
  <2> QED
    BY <1>2, <1>3, <1>4, <2>1 DEF Unwind, ReleaseHandle, Return, LockInv, TypeOK
<1>5. ASSUME NEW h \in held[c], Release(c, h) \/ Drop(c, h) PROVE CallInv(c)'
  BY <1>3, <1>5 DEF Release, Drop, ReleaseHandle, Forget, LockInv, TypeOK
<1> QED  BY <1>4, <1>5

\* Acquiring, upgrading and downgrading start a call.
LEMMA StartKeeps ==
  ASSUME LockInv, NEW c \in Callers,
         \/ \E s \in Requests, t \in LockTypes : Acquire(c, s, t)
         \/ \E h \in held[c], t \in LockTypes : Upgrade(c, h, t)
  PROVE  CallInv(c)'
<1>1. ASSUME NEW s \in Requests, NEW t \in LockTypes, Acquire(c, s, t) PROVE CallInv(c)'
  <2> DEFINE l == SortByHierarchy(s)
  <2>1. /\ l \in Seq(Paths) /\ Len(l) > 0
        /\ \A i, j \in 1..Len(l) : l[i] = l[j] => i = j
        /\ \A i, j \in 1..Len(l) : i < j => SortKey[l[i]] <= SortKey[l[j]]
    BY Sorting
  <2>2. Call(c, l, t) /\ held'[c] = {}
    BY <1>1 DEF Acquire
  <2> HIDE DEF l
  <2> QED  BY <2>1, <2>2, CallStarts
<1>2. ASSUME NEW h \in held[c], NEW t \in LockTypes, Upgrade(c, h, t) PROVE CallInv(c)'
  <2> DEFINE l == <<h.path>>
  <2>1. h.path \in Paths
    BY DEF LockInv, TypeOK, Handle
  <2>2. /\ l \in Seq(Paths) /\ Len(l) > 0
        /\ \A i, j \in 1..Len(l) : l[i] = l[j] => i = j
        /\ \A i, j \in 1..Len(l) : i < j => SortKey[l[i]] <= SortKey[l[j]]
    BY <2>1
  <2>3. Call(c, l, t) /\ held'[c] = {}
    BY <1>2 DEF Upgrade, ReleaseHandle, LockInv, TypeOK
  <2> HIDE DEF l
  <2> QED  BY <2>2, <2>3, CallStarts
<1> QED  BY <1>1, <1>2

LEMMA LockStep == ASSUME LockInv, [Next]_vars PROVE LockInv'
<1> DEFINE Own(c) ==
      \/ \E s \in Requests, t \in LockTypes : Acquire(c, s, t)
      \/ Steps(c)
      \/ \E h \in held[c] : Release(c, h) \/ Drop(c, h)
      \/ \E h \in held[c], t \in LockTypes : Upgrade(c, h, t)
<1>1. ASSUME NEW c \in Callers, Own(c), NEW d \in Callers PROVE CallInv(d)'
  <2>1. CASE d = c
    BY <1>1, <2>1, StartKeeps, TryKeeps, GrantKeeps, RecordKeeps, GiveBackKeeps DEF Steps
  <2>2. CASE d # c
    <3>1. asked'[d] = asked[d] /\ held'[d] = held[d] /\ pc'[d] = pc[d] /\ outcome'[d] = outcome[d]
      BY <1>1, <2>2 DEF Acquire, Call, Steps, Open, Granted, Refused, Elapse, Record, Return, Unwind,
         ReleaseHandle, Release, Drop, Forget, Upgrade, LockInv, TypeOK
    <3> QED  BY <3>1, Others DEF LockInv
  <2> QED  BY <2>1, <2>2
<1>2. CASE \/ UNCHANGED vars \/ \E p \in Paths : Age(p) \/ ForceUnlock(p)
           \/ CleanupIdentify \/ CleanupRemove
  <2>1. UNCHANGED <<asked, held, pc, outcome>>
    BY <1>2 DEF vars, Age, ForceUnlock, CleanupIdentify, CleanupRemove, callVars
  <2> QED  BY <2>1, TypeStep, Others DEF LockInv
<1>3. CASE \E c \in Callers : Own(c)
  BY <1>1, <1>3, TypeStep DEF LockInv
<1> QED  BY <1>2, <1>3 DEF Next

LEMMA LockInit == ASSUME Init PROVE LockInv
<1>1. TypeOK
  BY LockAssumption, EmptySeq DEF Init, TypeOK, LockTypes
<1>2. ASSUME NEW c \in Callers PROVE CallInv(c)
  <2>1. AskedInOrder(c)
    BY EmptySeq DEF Init, AskedInOrder
  <2>2. HeldAsAsked(c)
    BY FS_EmptySet DEF Init, HeldAsAsked
  <2> QED  BY <2>1, <2>2 DEF CallInv
<1> QED  BY <1>1, <1>2 DEF LockInv

-----------------------------------------------------------------------------
(* FileLock: the theorems.                                                   *)

\* acquire_multiple_ordered (file_lock.rs) returns with a lock on every path or with
\* none, whatever times out, is released, cleaned up or unlocked by force meanwhile.
THEOREM CallsAreAtomic == Spec => []LocksAllOrNothing
<1>1. LockInv => LocksAllOrNothing
  BY DEF LockInv, CallInv, HeldAsAsked, LocksAllOrNothing, AllOrNothing, PathsOf, FirstPaths
<1> QED  BY <1>1, LockInit, LockStep, PTL DEF Spec

\* What keeps callers from waiting in a cycle: no two paths with the same key, and no
\* lock file for two paths.  (The run filelock_deadlock is the case of equal keys.)
DistinctKeys ==
  /\ \A p, q \in Paths : SortKey[p] = SortKey[q] => p = q
  /\ \A p, q \in Paths : LockFileOf[p] = LockFileOf[q] => p = q

\* A caller that waits for d wants a path with a smaller key than d does.
LEMMA WaitsUpwards ==
  ASSUME LockInv, DistinctKeys, NEW c \in Callers, NEW d \in Callers, WaitsFor(c, d),
         pc[d] \in {"open", "flock"}
  PROVE  SortKey[Wanted(c)] < SortKey[Wanted(d)]
<1>1. PICK h \in held[d] : LockFileOf[h.path] = LockFileOf[Wanted(c)]
  BY DEF WaitsFor
<1>2. h.path = Wanted(c)
  BY <1>1, WantedIsPath DEF WaitsFor, DistinctKeys, LockInv, TypeOK, Handle
<1>3. h.path \in FirstPaths(d, Done(d))
  <2>1. PathsOf(held[d]) = FirstPaths(d, Done(d))
    BY DEF LockInv, CallInv, HeldAsAsked
  <2> QED  BY <2>1 DEF PathsOf
<1>4. PICK i \in 1..Done(d) : h.path = asked[d][i]
  BY <1>3 DEF FirstPaths
<1>5. Done(d) \in Nat /\ Done(d) + 1 \in 1..Len(asked[d]) /\ i \in 1..Len(asked[d]) /\ i < Done(d) + 1
  BY WantedIsPath
<1>6. SortKey[h.path] <= SortKey[Wanted(d)] /\ h.path # Wanted(d)
  BY <1>4, <1>5 DEF LockInv, CallInv, AskedInOrder, Wanted
<1>7. SortKey[h.path] # SortKey[Wanted(d)]
  BY <1>2, <1>6, WantedIsPath DEF WaitsFor, DistinctKeys
<1>8. SortKey[Wanted(c)] \in Nat /\ SortKey[Wanted(d)] \in Nat
  BY WantedIsPath, LockAssumption DEF WaitsFor
<1> QED  BY <1>2, <1>6, <1>7, <1>8

\* "Sort paths to prevent deadlocks": with distinct keys it does.
THEOREM NoDeadlock == ASSUME DistinctKeys PROVE Spec => []NoWaitCycle
<1>1. ASSUME LockInv PROVE NoWaitCycle
  <2> SUFFICES ASSUME NEW S \in SUBSET Callers, S # {}
               PROVE  \E c \in S : \A d \in S : ~WaitsFor(c, d)
    BY DEF NoWaitCycle
  <2>1. CASE \E c \in S : pc[c] \notin {"open", "flock"}
    BY <2>1 DEF WaitsFor
  <2>2. CASE \A c \in S : pc[c] \in {"open", "flock"}
    <3> DEFINE key == [c \in S |-> SortKey[Wanted(c)]]
    <3>1. IsFiniteSet(S)
      BY LockAssumption, FS_Subset
    <3>2. \A c \in S : key[c] = SortKey[Wanted(c)] /\ key[c] \in Nat
      BY <1>1, <2>2, WantedIsPath, LockAssumption
    <3> HIDE DEF key
    <3>3. PICK c \in S : \A d \in S : key[d] <= key[c]
      BY <3>1, <3>2, HasMaximum
    <3>4. ASSUME NEW d \in S, WaitsFor(c, d) PROVE FALSE
      <4>1. key[c] < key[d]
        BY <1>1, <2>2, <3>2, <3>4, WaitsUpwards
      <4> QED  BY <3>2, <3>3, <4>1
    <3> QED  BY <3>4
  <2> QED  BY <2>1, <2>2
<1> QED  BY <1>1, LockInit, LockStep, PTL DEF Spec

-----------------------------------------------------------------------------
(* Arithmetic of a counter that wraps.                                       *)

\* Quotient and remainder are unique.
LEMMA Remainder ==
  ASSUME NEW W \in Nat \ {0}, NEW x \in Int, NEW q \in Int, NEW r \in 0..(W - 1), x = W * q + r
  PROVE  x % W = r
OBVIOUS

\* Counting up or down by one commutes with wrapping.
LEMMA WrapStep ==
  ASSUME NEW W \in Nat \ {0}, NEW x \in Int
  PROVE  /\ x % W \in 0..(W - 1)
         /\ ((x % W) + 1) % W = (x + 1) % W
         /\ ((x % W) - 1) % W = (x - 1) % W
<1> DEFINE q == x \div W
           r == x % W
<1>1. q \in Int /\ r \in 0..(W - 1) /\ x = W * q + r
  OBVIOUS
<1> HIDE DEF q, r
<1>2. (r + 1) % W = (x + 1) % W
  <2>1. CASE r + 1 < W
    <3>1. x + 1 = W * q + (r + 1) /\ r + 1 = W * 0 + (r + 1) /\ r + 1 \in 0..(W - 1)
      BY <1>1, <2>1
    <3>2. (x + 1) % W = r + 1
      BY <1>1, <3>1, Remainder
    <3>3. (r + 1) % W = r + 1
      BY <1>1, <3>1, Remainder
    <3> QED  BY <3>2, <3>3
  <2>2. CASE r + 1 = W
    <3>1. x + 1 = W * (q + 1) + 0 /\ r + 1 = W * 1 + 0 /\ q + 1 \in Int
      BY <1>1, <2>2
    <3>2. (x + 1) % W = 0
      BY <1>1, <3>1, Remainder
    <3>3. (r + 1) % W = 0
      BY <1>1, <3>1, Remainder
    <3> QED  BY <3>2, <3>3
  <2> QED  BY <1>1, <2>1, <2>2
<1>3. (r - 1) % W = (x - 1) % W
  <2>1. CASE r > 0
    <3>1. x - 1 = W * q + (r - 1) /\ r - 1 = W * 0 + (r - 1) /\ r - 1 \in 0..(W - 1)
      BY <1>1, <2>1
    <3>2. (x - 1) % W = r - 1
      BY <1>1, <3>1, Remainder
    <3>3. (r - 1) % W = r - 1
      BY <1>1, <3>1, Remainder
    <3> QED  BY <3>2, <3>3
  <2>2. CASE r = 0
    <3>1. /\ x - 1 = W * (q - 1) + (W - 1) /\ r - 1 = W * (0 - 1) + (W - 1)
          /\ q - 1 \in Int /\ W - 1 \in 0..(W - 1)
      BY <1>1, <2>2
    <3>2. (x - 1) % W = W - 1
      BY <1>1, <3>1, Remainder
    <3>3. (r - 1) % W = W - 1
      BY <1>1, <3>1, Remainder
    <3> QED  BY <3>2, <3>3
  <2> QED  BY <1>1, <2>1, <2>2
<1> QED  BY <1>1, <1>2, <1>3 DEF q, r

-----------------------------------------------------------------------------
(* LockFreeScheduler: where the tasks are.                                   *)

Queues == 0..NumWorkers

SchedTypes ==
  /\ fifo \in [Queues -> Seq(AllTasks)]
  /\ giver \in [Submitters -> {"push", "count", "total"}]
  /\ given \in [Submitters -> Nat]
  /\ \A s \in Submitters : HasPushed(s) <= Len(Bundle[s])
  /\ taker \in [Owners -> {"rest", "look", "work", "mark"}]
  /\ seen \in [Owners -> Queues]
  /\ hand \in [Owners -> AllTasks \cup {NoTask}]
  /\ worker_states \in [Owners -> {"none", "Stealing", "Working", "Idle"}]
  /\ marked_tasks \subseteq AllTasks

\* No task is twice in the queues.
QueuesApart ==
  /\ \A q \in Queues : Distinct(fifo[q])
  /\ \A q, r \in Queues : q # r => Entries(fifo[q]) \cap Entries(fifo[r]) = {}

\* A worker has a task in hand, and one that no other has, from the pop to the
\* mark, and says that it is working just then.
HandsApart ==
  /\ \A v, w \in Owners : v # w /\ hand[v] = hand[w] => hand[v] = NoTask
  /\ \A w \in Owners : hand[w] # NoTask <=> taker[w] \in {"work", "mark"}
  /\ \A w \in Owners : worker_states[w] = "Working" <=> hand[w] # NoTask

PlacesApart ==
  /\ Queued \cap InHand = {} /\ Queued \cap marked_tasks = {} /\ InHand \cap marked_tasks = {}
  /\ Pushed = Queued \cup InHand \cup marked_tasks

PlaceInv ==
  /\ SchedTypes /\ QueuesApart /\ HandsApart /\ PlacesApart
  /\ \A w \in Owners : Len(fifo[w]) <= LocalCapacity

LEMMA QueuedIsUnion == Queued = UNION {Entries(fifo[q]) : q \in Queues}
  BY DEF Queued, Entries, Queues

\* A task pushed on a queue.
LEMMA QueueGains ==
  ASSUME SchedTypes, QueuesApart, NEW q \in Queues, NEW x \in AllTasks, x \notin Queued,
         fifo' = [fifo EXCEPT ![q] = Append(@, x)]
  PROVE  /\ fifo' \in [Queues -> Seq(AllTasks)] /\ QueuesApart' /\ Queued' = Queued \cup {x}
         /\ Len(fifo'[q]) = Len(fifo[q]) + 1
<1>1. fifo[q] \in Seq(AllTasks) /\ \A r \in Queues : r # q => fifo'[r] = fifo[r]
  BY DEF SchedTypes
<1>2. fifo'[q] = Append(fifo[q], x)
  BY DEF SchedTypes
<1>3. \A r \in Queues : x \notin Entries(fifo[r])
  BY QueuedIsUnion
<1>4. /\ fifo'[q] \in Seq(AllTasks) /\ Entries(fifo'[q]) = Entries(fifo[q]) \cup {x}
      /\ Distinct(fifo'[q]) /\ Len(fifo'[q]) = Len(fifo[q]) + 1
  BY <1>1, <1>2, <1>3, PushEntry DEF QueuesApart
<1>5. QueuesApart'
  <2>1. \A r \in Queues : Distinct(fifo'[r])
    BY <1>1, <1>4 DEF QueuesApart
  <2>2. \A r \in Queues : r # q => Entries(fifo'[r]) = Entries(fifo[r])
    BY <1>1
  <2>3. \A r \in Queues : r # q => Entries(fifo'[q]) \cap Entries(fifo'[r]) = {}
    <3> SUFFICES ASSUME NEW r \in Queues, r # q
                 PROVE  Entries(fifo'[q]) \cap Entries(fifo'[r]) = {}
      OBVIOUS
    <3>1. Entries(fifo[q]) \cap Entries(fifo[r]) = {}
      BY DEF QueuesApart
    <3>2. x \notin Entries(fifo[r])
      BY <1>3
    <3>3. Entries(fifo'[q]) = Entries(fifo[q]) \cup {x}
      BY <1>4
    <3>4. Entries(fifo'[r]) = Entries(fifo[r])
      BY <2>2
    <3> QED  BY <3>1, <3>2, <3>3, <3>4
  <2>4. \A r, s \in Queues : r # q /\ s # q /\ r # s => Entries(fifo'[r]) \cap Entries(fifo'[s]) = {}
    BY <2>2 DEF QueuesApart
  <2>5. \A r, s \in Queues : r # s => Entries(fifo'[r]) \cap Entries(fifo'[s]) = {}
    BY <2>3, <2>4
  <2> QED  BY <2>1, <2>5 DEF QueuesApart, Distinct, Entries
<1>6. Queued' = UNION {Entries(fifo'[r]) : r \in Queues}
  BY DEF Queued, Entries, Queues
<1>7. Queued' = Queued \cup {x}
  BY <1>1, <1>4, <1>6, QueuedIsUnion
<1> QED  BY <1>4, <1>5, <1>7 DEF SchedTypes

\* A task popped from a queue.
LEMMA QueueLoses ==
  ASSUME SchedTypes, QueuesApart, NEW q \in Queues, fifo[q] # <<>>,
         fifo' = [fifo EXCEPT ![q] = Tail(@)]
  PROVE  /\ fifo' \in [Queues -> Seq(AllTasks)] /\ QueuesApart'
         /\ Head(fifo[q]) \in AllTasks /\ Head(fifo[q]) \in Queued
         /\ Queued' = Queued \ {Head(fifo[q])}
         /\ Len(fifo'[q]) = Len(fifo[q]) - 1
<1> DEFINE x == Head(fifo[q])
<1>1. fifo[q] \in Seq(AllTasks) /\ \A r \in Queues : r # q => fifo'[r] = fifo[r]
  BY DEF SchedTypes
<1>2. fifo'[q] = Tail(fifo[q])
  BY DEF SchedTypes
<1>3. /\ fifo'[q] \in Seq(AllTasks) /\ Entries(fifo'[q]) = Entries(fifo[q]) \ {x}
      /\ Distinct(fifo'[q]) /\ Len(fifo'[q]) = Len(fifo[q]) - 1
      /\ x \in AllTasks /\ x \in Entries(fifo[q])
  BY <1>1, <1>2, PopEntry DEF QueuesApart
<1> HIDE DEF x
<1>4. \A r \in Queues : r # q => x \notin Entries(fifo[r])
  BY <1>3 DEF QueuesApart
<1>5. QueuesApart'
  <2>1. \A r \in Queues : Distinct(fifo'[r])
    BY <1>1, <1>3 DEF QueuesApart
  <2>2. \A r \in Queues : Entries(fifo'[r]) \subseteq Entries(fifo[r])
    BY <1>1, <1>3
  <2>3. \A r, s \in Queues : r # s => Entries(fifo'[r]) \cap Entries(fifo'[s]) = {}
    BY <2>2 DEF QueuesApart
  <2> QED  BY <2>1, <2>3 DEF QueuesApart, Distinct, Entries
<1>6. Queued' = UNION {Entries(fifo'[r]) : r \in Queues}
  BY DEF Queued, Entries, Queues
<1>7. Queued' = Queued \ {x} /\ x \in Queued
  BY <1>1, <1>3, <1>4, <1>6, QueuedIsUnion
<1> QED  BY <1>3, <1>5, <1>7 DEF SchedTypes, x

\* What a submitter has pushed, and what it pushes next.
PushedBy(s) == {Bundle[s][k] : k \in 1..HasPushed(s)}

LEMMA NextTask ==
  ASSUME SchedTypes, NEW s \in Submitters, giver[s] = "push", given[s] < Len(Bundle[s])
  PROVE  /\ Bundle[s][given[s] + 1] \in AllTasks
         /\ Bundle[s][given[s] + 1] \notin Pushed
<1> DEFINE n == given[s] + 1
<1>1. Bundle[s] \in Seq(AllTasks) /\ Len(Bundle[s]) \in Nat /\ given[s] \in Nat
  BY LenProperties, SchedAssumption DEF SchedTypes
<1>2. n \in 1..Len(Bundle[s]) /\ n \notin 1..HasPushed(s)
  BY <1>1 DEF HasPushed
<1>3. Bundle[s][n] \in AllTasks
  BY <1>1, <1>2, ElementOfSeq
<1>4. ASSUME NEW u \in Submitters, NEW k \in 1..HasPushed(u), Bundle[u][k] = Bundle[s][n]
      PROVE  FALSE
  <2>1. HasPushed(u) \in Nat /\ HasPushed(u) <= Len(Bundle[u]) /\ Len(Bundle[u]) \in Nat
    BY LenProperties, SchedAssumption DEF SchedTypes, HasPushed
  <2>2. /\ k \in DOMAIN Bundle[u] /\ n \in DOMAIN Bundle[s]
    BY <1>1, <1>2, <2>1, LenProperties, SchedAssumption
  <2>3. u = s /\ k = n
    BY <1>4, <2>2, SchedAssumption
  <2> QED  BY <1>2, <2>3
<1>5. Bundle[s][n] \notin Pushed
  BY <1>4 DEF Pushed
<1> QED  BY <1>3, <1>5

LEMMA PushedGains ==
  ASSUME SchedTypes, NEW s \in Submitters, given' = given, giver[s] = "push",
         giver' = [giver EXCEPT ![s] = "count"], given[s] < Len(Bundle[s])
  PROVE  /\ Pushed' = Pushed \cup {Bundle[s][given[s] + 1]}
         /\ \A u \in Submitters : HasPushed(u)' <= Len(Bundle[u])
<1>1. /\ HasPushed(s) = given[s] /\ HasPushed(s)' = given[s] + 1 /\ given[s] \in Nat
      /\ \A u \in Submitters : u # s => HasPushed(u)' = HasPushed(u)
  BY DEF SchedTypes, HasPushed
<1>2. Pushed = UNION {PushedBy(u) : u \in Submitters} /\ Pushed' = UNION {PushedBy(u)' : u \in Submitters}
  BY DEF Pushed, PushedBy
<1>3. PushedBy(s)' = PushedBy(s) \cup {Bundle[s][given[s] + 1]}
  <2>1. 1..(given[s] + 1) = (1..given[s]) \cup {given[s] + 1}
    BY <1>1
  <2> QED  BY <1>1, <2>1 DEF PushedBy
<1>4. \A u \in Submitters : u # s => PushedBy(u)' = PushedBy(u)
  BY <1>1 DEF PushedBy
<1>5. Len(Bundle[s]) \in Nat
  BY LenProperties, SchedAssumption
<1>6. ASSUME NEW u \in Submitters PROVE HasPushed(u)' <= Len(Bundle[u])
  <2>1. CASE u = s
    BY <1>1, <1>5, <2>1
  <2>2. CASE u # s
    BY <1>1, <2>2 DEF SchedTypes
  <2> QED  BY <2>1, <2>2
<1> HIDE DEF PushedBy
<1> QED  BY <1>2, <1>3, <1>4, <1>6

LEMMA PushedStays ==
  ASSUME SchedTypes, \A s \in Submitters : HasPushed(s)' = HasPushed(s)
  PROVE  Pushed' = Pushed /\ \A u \in Submitters : HasPushed(u)' <= Len(Bundle[u])
  BY DEF Pushed, SchedTypes

\* Its own queue, those of the others and the global one: one of the queues.
LEMMA LooksAtQueue ==
  ASSUME SchedTypes, NEW w \in Owners PROVE LookAt(w, seen[w]) \in Queues
  BY SchedAssumption DEF SchedTypes, LookAt, Owners, Queues, GlobalQueue

-----------------------------------------------------------------------------
\* Threads that submit push, count and count again.
LEMMA SubmitPlaces ==
  ASSUME PlaceInv, NEW s \in Submitters, Submit(s) PROVE PlaceInv'
<1>1. ASSUME NEW w \in Owners, SubmitQueue(s, w) PROVE PlaceInv'
  <2> DEFINE q == IF Len(fifo[w]) < LocalCapacity THEN w ELSE GlobalQueue
             x == Bundle[s][given[s] + 1]
  <2>1. /\ giver[s] = "push" /\ given[s] < Len(Bundle[s])
        /\ fifo' = [fifo EXCEPT ![q] = Append(@, x)]
        /\ giver' = [giver EXCEPT ![s] = "count"]
        /\ UNCHANGED <<given, worker_states, taker, seen, hand, marked_tasks>>
    BY <1>1 DEF SubmitQueue, takers
  <2>2. q \in Queues /\ (q \in Owners => Len(fifo[q]) < LocalCapacity)
    BY SchedAssumption DEF Owners, Queues, GlobalQueue
  <2>3. x \in AllTasks /\ x \notin Pushed /\ x \notin Queued
    BY <2>1, NextTask DEF PlaceInv, PlacesApart
  <2> HIDE DEF q, x
  <2>4. /\ fifo' \in [Queues -> Seq(AllTasks)] /\ QueuesApart' /\ Queued' = Queued \cup {x}
        /\ Len(fifo'[q]) = Len(fifo[q]) + 1
    BY <2>1, <2>2, <2>3, QueueGains DEF PlaceInv
  <2>5. Pushed' = Pushed \cup {x} /\ \A u \in Submitters : HasPushed(u)' <= Len(Bundle[u])
    BY <2>1, PushedGains DEF PlaceInv, x
  <2>6. SchedTypes'
    BY <2>1, <2>4, <2>5 DEF PlaceInv, SchedTypes
  <2>7. HandsApart' /\ InHand' = InHand
    BY <2>1 DEF PlaceInv, HandsApart, InHand
  <2>8. PlacesApart'
    BY <2>1, <2>3, <2>4, <2>5, <2>7 DEF PlaceInv, PlacesApart
  <2>9. ASSUME NEW v \in Owners PROVE Len(fifo'[v]) <= LocalCapacity
    <3>1. v \in Queues /\ fifo[v] \in Seq(AllTasks) /\ Len(fifo[v]) \in Nat
      BY LenProperties, SchedAssumption DEF PlaceInv, SchedTypes, Owners, Queues
    <3>2. v # q => fifo'[v] = fifo[v]
      BY <2>1, <3>1 DEF PlaceInv, SchedTypes
    <3> QED  BY <2>2, <2>4, <3>1, <3>2, SchedAssumption DEF PlaceInv
  <2> QED  BY <2>4, <2>6, <2>7, <2>8, <2>9 DEF PlaceInv
<1>2. CASE CountPending(s) \/ CountSubmitted(s)
  <2>1. /\ UNCHANGED <<fifo, worker_states, taker, seen, hand, marked_tasks>>
        /\ giver' \in [Submitters -> {"push", "count", "total"}]
        /\ given' \in [Submitters -> Nat]
        /\ \A u \in Submitters : HasPushed(u)' = HasPushed(u)
    <3>1. CASE CountPending(s)
      BY <3>1 DEF PlaceInv, SchedTypes, CountPending, queueVars, takers, HasPushed
    <3>2. CASE CountSubmitted(s)
      BY <3>2 DEF PlaceInv, SchedTypes, CountSubmitted, queueVars, takers, HasPushed
    <3> QED  BY <1>2, <3>1, <3>2
  <2>2. Pushed' = Pushed /\ \A u \in Submitters : HasPushed(u)' <= Len(Bundle[u])
    BY <2>1, PushedStays DEF PlaceInv
  <2>3. SchedTypes'
    BY <2>1, <2>2 DEF PlaceInv, SchedTypes
  <2>4. Queued' = Queued /\ InHand' = InHand
    BY <2>1 DEF Queued, InHand
  <2> QED
    BY <2>1, <2>2, <2>3, <2>4 DEF PlaceInv, QueuesApart, HandsApart, PlacesApart
<1> QED  BY <1>1, <1>2 DEF Submit, CurrentWorkerId

\* A worker looks for a task, works on it and marks it.
LEMMA WorkerPlaces ==
  ASSUME PlaceInv, NEW w \in Owners, StealTask(w) \/ LookAndMark(w) PROVE PlaceInv'
<1>0. \A s \in Submitters : giver' = giver /\ given' = given => HasPushed(s)' = HasPushed(s)
  BY DEF HasPushed
<1>1. CASE PopTask(w)
  <2> DEFINE q == LookAt(w, seen[w])
             x == Head(fifo[q])
  <2>1. /\ taker[w] = "look" /\ fifo[q] # <<>>
        /\ fifo' = [fifo EXCEPT ![q] = Tail(@)] /\ hand' = [hand EXCEPT ![w] = x]
        /\ worker_states' = [worker_states EXCEPT ![w] = "Working"]
        /\ taker' = [taker EXCEPT ![w] = "work"]
        /\ UNCHANGED <<giver, given, seen, marked_tasks>>
    BY <1>1 DEF PopTask, givers
  <2>2. q \in Queues
    BY LooksAtQueue DEF PlaceInv
  <2>3. /\ fifo' \in [Queues -> Seq(AllTasks)] /\ QueuesApart' /\ x \in AllTasks /\ x \in Queued
        /\ Queued' = Queued \ {x} /\ Len(fifo'[q]) = Len(fifo[q]) - 1
    BY <2>1, <2>2, QueueLoses DEF PlaceInv
  <2> HIDE DEF q, x
  <2>4. Pushed' = Pushed
    BY <1>0, <2>1, PushedStays DEF PlaceInv
  <2>5. SchedTypes'
    BY <1>0, <2>1, <2>3, PushedStays DEF PlaceInv, SchedTypes
  <2>6. x # NoTask /\ x \notin InHand /\ hand[w] = NoTask
    BY <2>1, <2>3, SchedAssumption DEF PlaceInv, PlacesApart, HandsApart
  <2>7. /\ hand'[w] = x /\ \A v \in Owners : v # w => hand'[v] = hand[v] /\ hand[v] # x
    BY <2>1, <2>6 DEF PlaceInv, SchedTypes, InHand
  <2>8. HandsApart'
    BY <2>1, <2>6, <2>7 DEF PlaceInv, SchedTypes, HandsApart
  <2>9. InHand' = InHand \cup {x}
    BY <2>6, <2>7 DEF InHand
  <2>10. PlacesApart'
    BY <2>1, <2>3, <2>4, <2>6, <2>9 DEF PlaceInv, PlacesApart
  <2>11. ASSUME NEW v \in Owners PROVE Len(fifo'[v]) <= LocalCapacity
    <3>1. v \in Queues /\ fifo[v] \in Seq(AllTasks) /\ Len(fifo[v]) \in Nat
      BY LenProperties, SchedAssumption DEF PlaceInv, SchedTypes, Owners, Queues
    <3>2. v # q => fifo'[v] = fifo[v]
      BY <2>1, <3>1 DEF PlaceInv, SchedTypes
    <3> QED  BY <2>3, <3>1, <3>2, SchedAssumption DEF PlaceInv
  <2> QED  BY <2>3, <2>5, <2>8, <2>10, <2>11 DEF PlaceInv
<1>2. ASSUME NEW f \in {"completed", "failed"}, MarkTask(w, f) PROVE PlaceInv'
  <2>1. /\ taker[w] = "mark" /\ worker_states' = [worker_states EXCEPT ![w] = "Idle"]
        /\ marked_tasks' = marked_tasks \cup {hand[w]} /\ hand' = [hand EXCEPT ![w] = NoTask]
        /\ taker' = [taker EXCEPT ![w] = "rest"]
        /\ UNCHANGED <<fifo, giver, given, seen>>
    BY <1>2 DEF MarkTask, givers
  <2>2. Pushed' = Pushed /\ Queued' = Queued
    BY <1>0, <2>1, PushedStays DEF PlaceInv, Queued
  <2>3. hand[w] # NoTask /\ hand[w] \in AllTasks /\ hand[w] \in InHand
    BY <2>1 DEF PlaceInv, SchedTypes, HandsApart, InHand
  <2>4. SchedTypes'
    BY <1>0, <2>1, <2>3, PushedStays DEF PlaceInv, SchedTypes
  <2>5. hand'[w] = NoTask /\ \A v \in Owners : v # w => hand'[v] = hand[v] /\ hand[v] # hand[w]
    BY <2>1, <2>3 DEF PlaceInv, SchedTypes, HandsApart
  <2>6. HandsApart'
    BY <2>1, <2>5 DEF PlaceInv, SchedTypes, HandsApart
  <2>7. InHand' = InHand \ {hand[w]}
    BY <2>3, <2>5 DEF InHand
  <2>8. PlacesApart'
    BY <2>1, <2>2, <2>3, <2>7 DEF PlaceInv, PlacesApart
  <2> QED  BY <2>1, <2>4, <2>6, <2>8 DEF PlaceInv, QueuesApart
<1>3. CASE StealTask(w) \/ PassQueue(w) \/ Uncount(w)
  <2>1. UNCHANGED <<fifo, giver, given, hand, marked_tasks>>
    BY <1>3 DEF StealTask, PassQueue, Uncount, givers, queueVars
  <2>2. Pushed' = Pushed /\ Queued' = Queued /\ InHand' = InHand
    BY <1>0, <2>1, PushedStays DEF PlaceInv, Queued, InHand
  <2>3. /\ taker' \in [Owners -> {"rest", "look", "work", "mark"}]
        /\ seen' \in [Owners -> Queues]
        /\ worker_states' \in [Owners -> {"none", "Stealing", "Working", "Idle"}]
    <3>1. CASE StealTask(w)
      BY <3>1, SchedAssumption DEF PlaceInv, SchedTypes, StealTask, Queues
    <3>2. CASE PassQueue(w)
      <4>1. seen[w] \in Queues /\ (seen[w] < NumWorkers => seen[w] + 1 \in Queues)
        BY SchedAssumption DEF PlaceInv, SchedTypes, Queues
      <4> QED  BY <3>2, <4>1 DEF PlaceInv, SchedTypes, PassQueue
    <3>3. CASE Uncount(w)
      BY <3>3 DEF PlaceInv, SchedTypes, Uncount, queueVars
    <3> QED  BY <1>3, <3>1, <3>2, <3>3
  <2>4. SchedTypes'
    BY <1>0, <2>1, <2>3, PushedStays DEF PlaceInv, SchedTypes
  <2>5. HandsApart'
    BY <1>3, <2>1, ZenonT(40) DEF PlaceInv, SchedTypes, HandsApart, StealTask, PassQueue, Uncount, queueVars
  <2> QED  BY <2>1, <2>2, <2>4, <2>5 DEF PlaceInv, QueuesApart, PlacesApart
<1> QED  BY <1>1, <1>2, <1>3 DEF LookAndMark

LEMMA PlaceStep == ASSUME PlaceInv, [SchedNext]_schedVars PROVE PlaceInv'
<1>1. CASE ShutdownCall \/ ShutdownPoll \/ ResetStats \/ UNCHANGED schedVars
  <2>1. UNCHANGED <<fifo, worker_states, giver, given, taker, seen, hand, marked_tasks>>
    BY <1>1 DEF ShutdownCall, ShutdownPoll, ResetStats, schedVars, queueVars, givers, takers
  <2>2. \A s \in Submitters : HasPushed(s)' = HasPushed(s)
    BY <2>1 DEF HasPushed
  <2>3. Pushed' = Pushed /\ Queued' = Queued /\ InHand' = InHand
    BY <2>1, <2>2, PushedStays DEF PlaceInv, Queued, InHand
  <2>4. SchedTypes'
    BY <2>1, <2>2, PushedStays DEF PlaceInv, SchedTypes
  <2> QED  BY <2>1, <2>3, <2>4 DEF PlaceInv, QueuesApart, HandsApart, PlacesApart
<1> QED  BY <1>1, SubmitPlaces, WorkerPlaces DEF SchedNext

LEMMA PlaceInit == ASSUME SchedInit PROVE PlaceInv
<1>1. \A s \in Submitters : HasPushed(s) = 0 /\ Len(Bundle[s]) \in Nat
  BY LenProperties, SchedAssumption DEF SchedInit, HasPushed
<1>2. SchedTypes
  BY <1>1, EmptySeq, SchedAssumption DEF SchedInit, SchedTypes, Queues
<1>3. \A q \in Queues : fifo[q] = <<>> /\ Len(fifo[q]) = 0 /\ Entries(fifo[q]) = {}
  BY EmptySeq DEF SchedInit, Queues, Entries
<1>4. QueuesApart /\ Queued = {}
  <2>1. \A q \in Queues : Distinct(fifo[q])
    BY <1>3 DEF Distinct
  <2> QED  BY <1>3, <2>1, QueuedIsUnion DEF QueuesApart
<1>5. HandsApart /\ InHand = {} /\ marked_tasks = {}
  BY DEF SchedInit, HandsApart, InHand
<1>6. Pushed = {}
  BY <1>1 DEF Pushed
<1>7. \A w \in Owners : Len(fifo[w]) <= LocalCapacity
  BY <1>3, SchedAssumption DEF Owners, Queues
<1> QED  BY <1>2, <1>4, <1>5, <1>6, <1>7 DEF PlaceInv, PlacesApart

-----------------------------------------------------------------------------
(* LockFreeScheduler: how many tasks there are.                              *)

LEMMA AllTasksFinite == IsFiniteSet(AllTasks)
<1> DEFINE B == {Entries(Bundle[s]) : s \in Submitters}
           f == [s \in Submitters |-> Entries(Bundle[s])]
<1>1. AllTasks = UNION B
  BY DEF AllTasks, Entries
<1>2. ASSUME NEW s \in Submitters PROVE IsFiniteSet(Entries(Bundle[s]))
  <2>1. Bundle[s] \in Seq(AllTasks) /\ DOMAIN Bundle[s] = 1..Len(Bundle[s])
    BY LenProperties, SchedAssumption
  <2>2. Distinct(Bundle[s])
    BY <2>1, SchedAssumption DEF Distinct
  <2> QED  BY <2>1, <2>2, EntriesCounted
<1>3. f \in Surjection(Submitters, B)
  BY DEF Surjection
<1>4. IsFiniteSet(B)
  BY <1>3, FS_Surjection, SchedAssumption
<1>5. \A T \in B : IsFiniteSet(T)
  BY <1>2
<1> QED  BY <1>1, <1>4, <1>5, FS_UNION

LEMMA OwnersFinite == IsFiniteSet(Owners)
<1>1. 0 \in Int /\ NumWorkers - 1 \in Int
  BY SchedAssumption
<1> QED  BY <1>1, FS_Interval DEF Owners

LEMMA SetsFinite ==
  ASSUME PlaceInv
  PROVE  /\ Queued \subseteq AllTasks /\ IsFiniteSet(Queued)
         /\ IsFiniteSet(InHand) /\ IsFiniteSet(marked_tasks)
<1>1. Queued \subseteq AllTasks
  BY QueuedIsUnion, ElementOfSeq DEF PlaceInv, SchedTypes, Entries
<1>2. InHand \subseteq AllTasks /\ marked_tasks \subseteq AllTasks
  BY DEF PlaceInv, SchedTypes, InHand
<1> QED  BY <1>1, <1>2, AllTasksFinite, FS_Subset

\* The queues are as long, together, as there are tasks in them.
LEMMA QueuesCounted == ASSUME PlaceInv PROVE QueuedCount = Cardinality(Queued)
<1> DEFINE P == {p \in (0..NumWorkers) \X (1..Cardinality(AllTasks)) : p[2] <= Len(fifo[p[1]])}
           f == [p \in P |-> fifo[p[1]][p[2]]]
<1>1. ASSUME NEW q \in Queues
      PROVE  /\ fifo[q] \in Seq(AllTasks) /\ Len(fifo[q]) \in Nat
             /\ Len(fifo[q]) <= Cardinality(AllTasks)
  <2>1. fifo[q] \in Seq(AllTasks) /\ Distinct(fifo[q]) /\ Len(fifo[q]) \in Nat
    BY LenProperties DEF PlaceInv, SchedTypes, QueuesApart
  <2>2. Cardinality(Entries(fifo[q])) = Len(fifo[q])
    BY <2>1, EntriesCounted
  <2>3. Entries(fifo[q]) \in SUBSET AllTasks
    BY <2>1, ElementOfSeq DEF Entries
  <2>4. Cardinality(Entries(fifo[q])) <= Cardinality(AllTasks)
    BY <2>3, AllTasksFinite, FS_Subset
  <2> QED  BY <2>1, <2>2, <2>4
<1>2. Cardinality(AllTasks) \in Nat
  BY AllTasksFinite, FS_CardinalityType
<1>3. \A p \in P : /\ p[1] \in Queues /\ p[2] \in 1..Len(fifo[p[1]]) /\ p = <<p[1], p[2]>>
  BY <1>1, <1>2 DEF Queues
<1>4. \A q \in Queues : \A k \in 1..Len(fifo[q]) : <<q, k>> \in P
  BY <1>1, <1>2 DEF Queues
<1> HIDE DEF P
<1>5. f \in [P -> Queued]
  BY <1>3, QueuedIsUnion DEF Entries
<1>6. ASSUME NEW p \in P, NEW r \in P, f[p] = f[r] PROVE p = r
  <2>1. /\ f[p] \in Entries(fifo[p[1]]) /\ f[r] \in Entries(fifo[r[1]])
    BY <1>3 DEF Entries
  <2>2. p[1] = r[1]
    BY <1>3, <1>6, <2>1 DEF PlaceInv, QueuesApart
  <2>3. fifo[p[1]][p[2]] = fifo[p[1]][r[2]]
    BY <1>6, <2>2
  <2>4. p[2] = r[2]
    BY <1>3, <2>2, <2>3 DEF PlaceInv, QueuesApart, Distinct
  <2> QED  BY <1>3, <2>2, <2>4
<1>7. ASSUME NEW x \in Queued PROVE \E p \in P : f[p] = x
  <2>1. PICK q \in Queues : \E k \in 1..Len(fifo[q]) : x = fifo[q][k]
    BY QueuedIsUnion DEF Entries
  <2>2. PICK k \in 1..Len(fifo[q]) : x = fifo[q][k]
    BY <2>1
  <2>3. <<q, k>> \in P /\ f[<<q, k>>] = x
    BY <1>4, <2>2
  <2> QED  BY <2>3
<1>8. f \in Injection(P, Queued) /\ f \in Surjection(P, Queued)
  <2> HIDE DEF f
  <2> QED  BY <1>5, <1>6, <1>7 DEF Injection, IsInjective, Surjection
<1>9. Cardinality(P) = Cardinality(Queued)
  BY <1>8, SetsFinite, FS_Injection
<1> QED  BY <1>9 DEF QueuedCount, P

\* As many workers have a task in hand as there are tasks in hands.
HaveTask == {w \in Owners : hand[w] # NoTask}

LEMMA HandsCounted ==
  ASSUME PlaceInv PROVE IsFiniteSet(HaveTask) /\ Cardinality(HaveTask) = Cardinality(InHand)
<1> DEFINE f == [w \in HaveTask |-> hand[w]]
<1>1. f \in [HaveTask -> InHand]
  BY DEF HaveTask, InHand
<1>2. \A v, w \in HaveTask : f[v] = f[w] => v = w
  BY DEF HaveTask, PlaceInv, HandsApart
<1>3. \A x \in InHand : \E w \in HaveTask : f[w] = x
  BY DEF HaveTask, InHand
<1> HIDE DEF f
<1>4. f \in Injection(HaveTask, InHand) /\ f \in Surjection(HaveTask, InHand)
  BY <1>1, <1>2, <1>3 DEF Injection, IsInjective, Surjection
<1> QED  BY <1>4, SetsFinite, FS_Injection

\* A task that was pushed is in one place, and the places are counted so.
LEMMA PlacesGiveOnce == ASSUME PlaceInv PROVE EachTaskOnce
<1>1. /\ IsFiniteSet(Queued) /\ IsFiniteSet(InHand) /\ IsFiniteSet(marked_tasks)
      /\ Queued \cap InHand = {} /\ (Queued \cup InHand) \cap marked_tasks = {}
      /\ Pushed = (Queued \cup InHand) \cup marked_tasks
  BY SetsFinite DEF PlaceInv, PlacesApart
<1>2. /\ IsFiniteSet(Queued \cup InHand)
      /\ Cardinality(Queued \cup InHand)
           = Cardinality(Queued) + Cardinality(InHand) - Cardinality(Queued \cap InHand)
  BY <1>1, FS_Union
<1>3. Cardinality(Pushed) = Cardinality(Queued \cup InHand) + Cardinality(marked_tasks)
                              - Cardinality((Queued \cup InHand) \cap marked_tasks)
  BY <1>1, <1>2, FS_Union
<1>4. /\ Cardinality(Queued) \in Nat /\ Cardinality(InHand) \in Nat
      /\ Cardinality(marked_tasks) \in Nat /\ Cardinality({}) = 0
  BY <1>1, FS_CardinalityType, FS_EmptySet
<1>5. Cardinality(Pushed) = Cardinality(Queued) + Cardinality(InHand) + Cardinality(marked_tasks)
  <2>1. /\ Cardinality(Queued \cap InHand) = 0
        /\ Cardinality((Queued \cup InHand) \cap marked_tasks) = 0
    BY <1>1, <1>4
  <2> QED  BY <1>2, <1>3, <1>4, <2>1
<1>6. Cardinality({w \in Owners : hand[w] # NoTask}) = Cardinality(InHand)
  BY HandsCounted DEF HaveTask
<1> QED  BY <1>1, <1>4, <1>5, <1>6, QueuesCounted DEF EachTaskOnce, PlaceInv

-----------------------------------------------------------------------------
(* LockFreeScheduler: the counters.                                          *)

InQueues == Cardinality(Queued)

\* pending_tasks is the number of tasks queued or worked on, less those that
\* are not counted yet.
PendingInv ==
  pending_tasks = (InQueues + Cardinality(AtWork) - Cardinality(NotCounted)) % Wrap

\* completed and failed count the marks since the last reset, and no more tasks
\* were stolen since than are marked or in hand.
TallyInv ==
  /\ tally \in [submitted : Nat, completed : Nat, failed : Nat, stolen : Nat]
  /\ forgotten \in Nat /\ forgotten <= Cardinality(marked_tasks)
  /\ tally.completed + tally.failed = Cardinality(marked_tasks) - forgotten
  /\ tally.stolen <= Cardinality(marked_tasks) - forgotten + Cardinality(InHand)

SchedInv == PlaceInv /\ PendingInv /\ TallyInv

LEMMA CountsNatural ==
  ASSUME PlaceInv
  PROVE  /\ IsFiniteSet(AtWork) /\ IsFiniteSet(NotCounted)
         /\ InQueues \in Nat /\ Cardinality(AtWork) \in Nat /\ Cardinality(NotCounted) \in Nat
         /\ Cardinality(InHand) \in Nat /\ Cardinality(marked_tasks) \in Nat
<1>1. AtWork \in SUBSET Owners /\ NotCounted \in SUBSET Submitters
  BY DEF AtWork, NotCounted
<1>2. IsFiniteSet(AtWork) /\ IsFiniteSet(NotCounted)
  BY <1>1, OwnersFinite, SchedAssumption, FS_Subset
<1> QED  BY <1>2, SetsFinite, FS_CardinalityType DEF InQueues

\* Steps of a submitter.
LEMMA SubmitCounts ==
  ASSUME SchedInv, NEW s \in Submitters, Submit(s) PROVE PendingInv' /\ TallyInv'
<1>0. PlaceInv /\ PlaceInv' /\ Wrap \in Nat \ {0}
  BY SubmitPlaces, SchedAssumption DEF SchedInv
<1>1. ASSUME NEW w \in Owners, SubmitQueue(s, w) PROVE PendingInv' /\ TallyInv'
  <2> DEFINE q == IF Len(fifo[w]) < LocalCapacity THEN w ELSE GlobalQueue
             x == Bundle[s][given[s] + 1]
  <2>1. /\ giver[s] = "push" /\ given[s] < Len(Bundle[s])
        /\ fifo' = [fifo EXCEPT ![q] = Append(@, x)]
        /\ giver' = [giver EXCEPT ![s] = "count"]
        /\ UNCHANGED <<tally, pending_tasks, forgotten, taker, hand, marked_tasks>>
    BY <1>1 DEF SubmitQueue, takers
  <2>2. q \in Queues
    BY SchedAssumption DEF Owners, Queues, GlobalQueue
  <2>3. x \in AllTasks /\ x \notin Queued
    BY <1>0, <2>1, NextTask DEF PlaceInv, PlacesApart
  <2> HIDE DEF q, x
  <2>4. Queued' = Queued \cup {x}
    BY <1>0, <2>1, <2>2, <2>3, QueueGains DEF PlaceInv
  <2>5. InQueues' = InQueues + 1
    BY <1>0, <2>3, <2>4, SetsFinite, FS_AddElement DEF InQueues
  <2>6. NotCounted' = NotCounted \cup {s} /\ s \notin NotCounted
    BY <1>0, <2>1 DEF NotCounted, PlaceInv, SchedTypes
  <2>7. Cardinality(NotCounted') = Cardinality(NotCounted) + 1
    BY <1>0, <2>6, CountsNatural, FS_AddElement
  <2>8. AtWork' = AtWork /\ InHand' = InHand
    BY <2>1 DEF AtWork, InHand
  <2>9. PendingInv'
    BY <1>0, <2>1, <2>5, <2>7, <2>8, CountsNatural DEF SchedInv, PendingInv
  <2> QED  BY <2>1, <2>8, <2>9 DEF SchedInv, TallyInv
<1>2. CASE CountPending(s)
  <2>1. /\ giver[s] = "count" /\ giver' = [giver EXCEPT ![s] = "total"]
        /\ pending_tasks' = (pending_tasks + 1) % Wrap
        /\ UNCHANGED <<fifo, tally, forgotten, taker, hand, marked_tasks>>
    BY <1>2 DEF CountPending, queueVars, takers
  <2>2. NotCounted' = NotCounted \ {s} /\ s \in NotCounted
    BY <1>0, <2>1 DEF NotCounted, PlaceInv, SchedTypes
  <2>3. Cardinality(NotCounted') = Cardinality(NotCounted) - 1
    BY <1>0, <2>2, CountsNatural, FS_RemoveElement
  <2>4. AtWork' = AtWork /\ InHand' = InHand /\ InQueues' = InQueues
    BY <2>1 DEF AtWork, InHand, InQueues, Queued
  <2> DEFINE v == InQueues + Cardinality(AtWork) - Cardinality(NotCounted)
  <2>5. v \in Int /\ pending_tasks = v % Wrap
        /\ InQueues' + Cardinality(AtWork') - Cardinality(NotCounted') = v + 1
    BY <1>0, <2>3, <2>4, CountsNatural DEF SchedInv, PendingInv
  <2> HIDE DEF v
  <2>6. pending_tasks' = (v + 1) % Wrap
    BY <1>0, <2>1, <2>5, WrapStep
  <2> QED  BY <2>1, <2>4, <2>5, <2>6 DEF SchedInv, PendingInv, TallyInv
<1>3. CASE CountSubmitted(s)
  <2>1. /\ giver[s] = "total" /\ giver' = [giver EXCEPT ![s] = "push"]
        /\ tally' = [tally EXCEPT !.submitted = @ + 1]
        /\ UNCHANGED <<fifo, pending_tasks, forgotten, taker, hand, marked_tasks>>
    BY <1>3 DEF CountSubmitted, queueVars, takers
  <2>2. NotCounted' = NotCounted
    BY <1>0, <2>1 DEF NotCounted, PlaceInv, SchedTypes
  <2>3. AtWork' = AtWork /\ InHand' = InHand /\ InQueues' = InQueues
    BY <2>1 DEF AtWork, InHand, InQueues, Queued
  <2> QED  BY <2>1, <2>2, <2>3 DEF SchedInv, PendingInv, TallyInv
<1> QED  BY <1>1, <1>2, <1>3 DEF Submit, CurrentWorkerId

\* Steps of a worker.
LEMMA WorkerCounts ==
  ASSUME SchedInv, NEW w \in Owners, StealTask(w) \/ LookAndMark(w)
  PROVE  PendingInv' /\ TallyInv'
<1>0. PlaceInv /\ PlaceInv' /\ Wrap \in Nat \ {0}
  BY WorkerPlaces, SchedAssumption DEF SchedInv
<1>1. CASE PopTask(w)
  <2> DEFINE q == LookAt(w, seen[w])
             x == Head(fifo[q])
  <2>1. /\ taker[w] = "look" /\ fifo[q] # <<>>
        /\ fifo' = [fifo EXCEPT ![q] = Tail(@)] /\ hand' = [hand EXCEPT ![w] = x]
        /\ taker' = [taker EXCEPT ![w] = "work"]
        /\ UNCHANGED <<pending_tasks, giver, forgotten, marked_tasks>>
    BY <1>1 DEF PopTask, givers
  <2>2. tally' = [tally EXCEPT !.stolen = @ + 1] \/ tally' = tally
    BY <1>1 DEF PopTask, SchedInv, TallyInv
  <2>3. q \in Queues
    BY <1>0, LooksAtQueue DEF PlaceInv
  <2>4. x \in AllTasks /\ x \in Queued /\ Queued' = Queued \ {x}
    BY <1>0, <2>1, <2>3, QueueLoses DEF PlaceInv
  <2> HIDE DEF q, x
  <2>5. InQueues' = InQueues - 1
    BY <1>0, <2>4, SetsFinite, FS_RemoveElement DEF InQueues
  <2>6. AtWork' = AtWork \cup {w} /\ w \notin AtWork
    BY <1>0, <2>1 DEF AtWork, PlaceInv, SchedTypes
  <2>7. Cardinality(AtWork') = Cardinality(AtWork) + 1
    BY <1>0, <2>6, CountsNatural, FS_AddElement
  <2>8. NotCounted' = NotCounted
    BY <2>1 DEF NotCounted
  <2>9. PendingInv'
    BY <1>0, <2>1, <2>5, <2>7, <2>8, CountsNatural DEF SchedInv, PendingInv
  <2>10. x # NoTask /\ x \notin InHand /\ hand[w] = NoTask
    BY <1>0, <2>1, <2>4, SchedAssumption DEF PlaceInv, PlacesApart, HandsApart
  <2>11. InHand' = InHand \cup {x}
    <3>1. hand'[w] = x /\ \A v \in Owners : v # w => hand'[v] = hand[v]
      BY <1>0, <2>1 DEF PlaceInv, SchedTypes
    <3> QED  BY <2>10, <3>1 DEF InHand
  <2>12. Cardinality(InHand') = Cardinality(InHand) + 1
    BY <1>0, <2>10, <2>11, SetsFinite, FS_AddElement
  <2>13. TallyInv'
    <3>1. CASE tally' = tally
      BY <1>0, <2>1, <2>12, <3>1, CountsNatural DEF SchedInv, TallyInv
    <3>2. CASE tally' = [tally EXCEPT !.stolen = @ + 1]
      <4>1. /\ tally' \in [submitted : Nat, completed : Nat, failed : Nat, stolen : Nat]
            /\ tally'.completed = tally.completed /\ tally'.failed = tally.failed
            /\ tally'.stolen = tally.stolen + 1 /\ tally.stolen \in Nat
        BY <3>2 DEF SchedInv, TallyInv
      <4> QED  BY <1>0, <2>1, <2>12, <4>1, CountsNatural, SMTT(40) DEF SchedInv, TallyInv
    <3> QED  BY <2>2, <3>1, <3>2
  <2> QED  BY <2>9, <2>13
<1>2. ASSUME NEW f \in {"completed", "failed"}, MarkTask(w, f) PROVE PendingInv' /\ TallyInv'
  <2>1. /\ taker[w] = "mark" /\ taker' = [taker EXCEPT ![w] = "rest"]
        /\ marked_tasks' = marked_tasks \cup {hand[w]} /\ hand' = [hand EXCEPT ![w] = NoTask]
        /\ UNCHANGED <<fifo, pending_tasks, giver, forgotten>>
    BY <1>2 DEF MarkTask, givers
  <2>2. \/ tally' = [tally EXCEPT !.completed = @ + 1]
        \/ tally' = [tally EXCEPT !.failed = @ + 1]
    BY <1>2 DEF MarkTask
  <2>3. AtWork' = AtWork /\ NotCounted' = NotCounted /\ InQueues' = InQueues
    BY <1>0, <2>1 DEF AtWork, NotCounted, InQueues, Queued, PlaceInv, SchedTypes
  <2>4. PendingInv'
    BY <2>1, <2>3 DEF SchedInv, PendingInv
  <2>5. hand[w] \in InHand /\ hand[w] \notin marked_tasks
    BY <1>0, <2>1 DEF PlaceInv, HandsApart, PlacesApart, InHand
  <2>6. InHand' = InHand \ {hand[w]}
    <3>1. hand'[w] = NoTask /\ \A v \in Owners : v # w => hand'[v] = hand[v]
      BY <1>0, <2>1 DEF PlaceInv, SchedTypes
    <3>2. \A v \in Owners : v # w /\ hand[v] = hand[w] => hand[v] = NoTask
      BY <1>0 DEF PlaceInv, HandsApart
    <3> QED  BY <2>5, <3>1, <3>2 DEF InHand
  <2>7. /\ Cardinality(InHand') = Cardinality(InHand) - 1
        /\ Cardinality(marked_tasks') = Cardinality(marked_tasks) + 1
    BY <1>0, <2>1, <2>5, <2>6, SetsFinite, FS_AddElement, FS_RemoveElement
  <2>8. TallyInv'
    BY <1>0, <2>1, <2>2, <2>7, CountsNatural DEF SchedInv, TallyInv
  <2> QED  BY <2>4, <2>8
<1>3. CASE Uncount(w)
  <2>1. /\ taker[w] = "work" /\ taker' = [taker EXCEPT ![w] = "mark"]
        /\ pending_tasks' = (pending_tasks - 1) % Wrap
        /\ UNCHANGED <<fifo, tally, giver, forgotten, hand, marked_tasks>>
    BY <1>3 DEF Uncount, queueVars, givers
  <2>2. AtWork' = AtWork \ {w} /\ w \in AtWork
    BY <1>0, <2>1 DEF AtWork, PlaceInv, SchedTypes
  <2>3. Cardinality(AtWork') = Cardinality(AtWork) - 1
    BY <1>0, <2>2, CountsNatural, FS_RemoveElement
  <2>4. NotCounted' = NotCounted /\ InHand' = InHand /\ InQueues' = InQueues
    BY <2>1 DEF NotCounted, InHand, InQueues, Queued
  <2> DEFINE v == InQueues + Cardinality(AtWork) - Cardinality(NotCounted)
  <2>5. /\ v \in Int /\ pending_tasks = v % Wrap
        /\ InQueues' + Cardinality(AtWork') - Cardinality(NotCounted') = v - 1
    <3>1. Cardinality(NotCounted') = Cardinality(NotCounted) /\ InQueues' = InQueues
      BY <2>4
    <3>2. pending_tasks = v % Wrap
      BY DEF SchedInv, PendingInv
    <3>3. v \in Int /\ Cardinality(AtWork) \in Nat
      BY <1>0, CountsNatural
    <3> QED  BY <1>0, <2>3, <3>1, <3>2, <3>3, CountsNatural
  <2> HIDE DEF v
  <2>6. pending_tasks' = (v - 1) % Wrap
    BY <1>0, <2>1, <2>5, WrapStep
  <2> QED  BY <2>1, <2>4, <2>5, <2>6 DEF SchedInv, PendingInv, TallyInv
<1>4. CASE StealTask(w) \/ PassQueue(w)
  <2>1. /\ UNCHANGED <<fifo, pending_tasks, tally, giver, forgotten, hand, marked_tasks>>
        /\ \E t \in {"rest", "look"} : taker[w] \in {"rest", "look"} /\ taker' = [taker EXCEPT ![w] = t]
    BY <1>0, <1>4 DEF StealTask, PassQueue, givers, PlaceInv, SchedTypes
  <2>2. AtWork' = AtWork /\ NotCounted' = NotCounted /\ InQueues' = InQueues /\ InHand' = InHand
    BY <1>0, <2>1 DEF AtWork, NotCounted, InQueues, Queued, InHand, PlaceInv, SchedTypes
  <2> QED  BY <2>1, <2>2 DEF SchedInv, PendingInv, TallyInv
<1> QED  BY <1>1, <1>2, <1>3, <1>4 DEF LookAndMark

LEMMA SchedStep == ASSUME SchedInv, [SchedNext]_schedVars PROVE SchedInv'
<1>1. PlaceInv'
  BY PlaceStep DEF SchedInv
<1>2. CASE ShutdownCall \/ ShutdownPoll \/ UNCHANGED schedVars
  <2>1. UNCHANGED <<fifo, pending_tasks, tally, forgotten, giver, taker, hand, marked_tasks>>
    BY <1>2 DEF ShutdownCall, ShutdownPoll, schedVars, queueVars, givers, takers
  <2>2. AtWork' = AtWork /\ NotCounted' = NotCounted /\ InQueues' = InQueues /\ InHand' = InHand
    BY <2>1 DEF AtWork, NotCounted, InQueues, Queued, InHand
  <2> QED  BY <1>1, <2>1, <2>2 DEF SchedInv, PendingInv, TallyInv
<1>3. CASE ResetStats
  <2>1. /\ UNCHANGED <<fifo, pending_tasks, giver, taker, hand, marked_tasks>>
        /\ tally' = [f \in DOMAIN tally |-> 0] /\ forgotten' = Cardinality(marked_tasks)
    BY <1>3 DEF ResetStats, queueVars, givers, takers
  <2>2. tally' = [submitted |-> 0, completed |-> 0, failed |-> 0, stolen |-> 0]
    BY <2>1 DEF SchedInv, TallyInv
  <2>3. InHand' = InHand /\ Cardinality(InHand) \in Nat /\ Cardinality(marked_tasks) \in Nat
    BY <2>1, CountsNatural DEF InHand, SchedInv
  <2>4. TallyInv'
    BY <2>1, <2>2, <2>3 DEF TallyInv
  <2>5. PendingInv'
    BY <2>1 DEF SchedInv, PendingInv, AtWork, NotCounted, InQueues, Queued
  <2> QED  BY <1>1, <2>4, <2>5 DEF SchedInv
<1> QED  BY <1>1, <1>2, <1>3, SubmitCounts, WorkerCounts DEF SchedNext, SchedInv

LEMMA SchedBegin == ASSUME SchedInit PROVE SchedInv
<1>1. PlaceInv
  BY PlaceInit
<1>2. \A q \in Queues : Entries(fifo[q]) = {}
  BY EmptySeq DEF SchedInit, Queues, Entries
<1>3. Queued = {} /\ AtWork = {} /\ NotCounted = {} /\ InHand = {} /\ marked_tasks = {}
  BY <1>2, QueuedIsUnion DEF SchedInit, AtWork, NotCounted, InHand
<1>4. Cardinality({}) = 0
  BY FS_EmptySet
<1>5. PendingInv
  <2>1. 0 = Wrap * 0 + 0 /\ 0 \in 0..(Wrap - 1) /\ Wrap \in Nat \ {0}
    BY SchedAssumption
  <2>2. 0 % Wrap = 0
    BY <2>1, Remainder
  <2> QED  BY <1>3, <1>4, <2>2 DEF SchedInit, PendingInv, InQueues
<1> QED  BY <1>1, <1>3, <1>4, <1>5 DEF SchedInv, TallyInv, SchedInit

\* The balance that get_load_balance_metrics tells is at most one.
LEMMA BalanceBounded == ASSUME PlaceInv PROVE LoadBalance.under <= LoadBalance.over
<1> DEFINE lengths == {QueueLengths[q] : q \in 0..NumWorkers}
           longest == CHOOSE n \in lengths : \A m \in lengths : m <= n
           shortest == CHOOSE n \in lengths : \A m \in lengths : n <= m
<1>1. \A q \in 0..NumWorkers : QueueLengths[q] = Len(fifo[q]) /\ QueueLengths[q] \in Nat
  BY LenProperties DEF PlaceInv, SchedTypes, Queues, QueueLengths
<1>2. IsFiniteSet(0..NumWorkers) /\ 0..NumWorkers # {}
  <2>1. 0 \in Int /\ NumWorkers \in Int /\ 0 \in 0..NumWorkers
    BY SchedAssumption
  <2> QED  BY <2>1, FS_Interval
<1>3. \E q \in 0..NumWorkers : \A r \in 0..NumWorkers : QueueLengths[r] <= QueueLengths[q]
  BY <1>1, <1>2, HasMaximum
<1>4. longest \in lengths /\ \A m \in lengths : m <= longest
  <2>1. \E n \in lengths : \A m \in lengths : m <= n
    BY <1>3
  <2> QED  BY <2>1
<1>5. longest \in Nat
  BY <1>1, <1>4
<1> HIDE DEF longest
<1> DEFINE missing == [q \in 0..NumWorkers |-> longest - QueueLengths[q]]
<1>6. \A q \in 0..NumWorkers : missing[q] \in Nat
  <2>1. \A q \in 0..NumWorkers : QueueLengths[q] <= longest
    BY <1>4
  <2> QED  BY <1>1, <1>5, <2>1
<1>7. \E q \in 0..NumWorkers : \A r \in 0..NumWorkers : missing[r] <= missing[q]
  <2> HIDE DEF missing
  <2> QED  BY <1>2, <1>6, HasMaximum
<1>8. \E q \in 0..NumWorkers : \A r \in 0..NumWorkers : QueueLengths[q] <= QueueLengths[r]
  <2>1. PICK q \in 0..NumWorkers : \A r \in 0..NumWorkers : missing[r] <= missing[q]
    BY <1>7
  <2>2. \A r \in 0..NumWorkers : longest - QueueLengths[r] <= longest - QueueLengths[q]
    BY <2>1
  <2> HIDE DEF missing
  <2>3. \A r \in 0..NumWorkers : QueueLengths[q] <= QueueLengths[r]
    BY <1>1, <1>5, <2>2
  <2> QED  BY <2>3
<1>9. shortest \in lengths /\ \A m \in lengths : shortest <= m
  BY <1>8
<1>10. shortest \in Nat /\ shortest <= longest
  BY <1>1, <1>4, <1>9
<1>11. /\ LoadBalance.over = (IF longest > 0 THEN longest ELSE 1)
       /\ LoadBalance.under = (IF longest > 0 THEN shortest ELSE 1)
  BY DEF LoadBalance, longest
<1> HIDE DEF longest, shortest
<1> QED  BY <1>5, <1>10, <1>11

\* The lock-free scheduler keeps each task in one place, and its counters agree
\* with where the tasks are, between any two atomic operations (submit_task,
\* steal_task, mark_task_completed, mark_task_failed, reset_stats).
THEOREM TasksInOnePlace == SchedSpec => []SchedulerAccounts
<1>1. ASSUME SchedInv PROVE SchedulerAccounts
  <2>1. PlaceInv
    BY <1>1 DEF SchedInv
  <2>2. PendingAgrees
    <3>1. QueuedCount = InQueues
      BY <2>1, QueuesCounted DEF InQueues
    <3> QED  BY <1>1, <3>1 DEF SchedInv, PendingInv, PendingAgrees
  <2>3. StatsTruthful
    <3>1. SchedulerStats.active = Cardinality(HaveTask)
      <4>1. {w \in Owners : worker_states[w] = "Working"} = HaveTask
        BY <2>1 DEF HaveTask, PlaceInv, HandsApart
      <4> QED  BY <4>1 DEF SchedulerStats
    <3> QED
      BY <1>1, <2>1, <3>1, HandsCounted, BalanceBounded DEF SchedInv, TallyInv, StatsTruthful
  <2> QED  BY <2>1, <2>2, <2>3, PlacesGiveOnce DEF SchedulerAccounts
<1> QED  BY <1>1, SchedBegin, SchedStep, PTL DEF SchedSpec

-----------------------------------------------------------------------------
(* PoolManager.                                                              *)

PoolKeysUsed == {k \in PoolKeys : pools[k] # NoPool}

\* Shutting down, the manager leaves open the pools it has not visited yet;
\* maintaining, it keeps apart the keys it has to visit and those it has visited.
ManagerInv ==
  /\ poolsMade \in Nat /\ pools \in [PoolKeys -> 0..poolsMade]
  /\ \A j, k \in PoolKeys : j # k /\ pools[j] # NoPool => pools[j] # pools[k]
  /\ managing \in {"nobody", "maintain", "shutdown"}
  /\ visit \subseteq PoolKeysUsed
  /\ managing \in {"nobody", "maintain"} => openPools = Managed
  /\ managing = "shutdown" => openPools = {pools[k] : k \in visit}
  /\ maintained \in [done : SUBSET PoolKeys, errors : SUBSET PoolKeys]
  /\ maintained.done \cap maintained.errors = {}
  /\ managing = "maintain" =>
       /\ visit \cap (maintained.done \cup maintained.errors) = {}
       /\ visit \cup maintained.done \cup maintained.errors = PoolKeysUsed

\* A pool is made under a key that has none.
LEMMA PoolMade ==
  ASSUME ManagerInv, NEW u \in PoolUsers, NEW k \in PoolKeys, GetPool(u, k) PROVE ManagerInv'
<1>1. managing = "nobody" /\ UNCHANGED <<managing, visit, maintained>>
  BY DEF GetPool
<1>2. CASE pools[k] # NoPool
  <2>1. UNCHANGED <<pools, poolsMade, openPools>>
    BY <1>2 DEF GetPool
  <2> QED  BY <1>1, <2>1 DEF ManagerInv, PoolKeysUsed, Managed
<1>3. CASE pools[k] = NoPool
  <2>1. /\ poolsMade' = poolsMade + 1 /\ pools' = [pools EXCEPT ![k] = poolsMade + 1]
        /\ openPools' = openPools \cup {poolsMade + 1}
    BY <1>3 DEF GetPool
  <2>2. /\ poolsMade + 1 # NoPool /\ \A j \in PoolKeys : pools[j] # poolsMade + 1
        /\ pools'[k] = poolsMade + 1 /\ \A j \in PoolKeys : j # k => pools'[j] = pools[j]
        /\ poolsMade' \in Nat /\ pools' \in [PoolKeys -> 0..poolsMade']
    BY <2>1 DEF ManagerInv, NoPool
  <2>3. Managed' = Managed \cup {poolsMade + 1}
    BY <1>3, <2>2 DEF Managed
  <2>4. PoolKeysUsed' = PoolKeysUsed \cup {k}
    BY <2>2 DEF PoolKeysUsed
  <2>5. \A i, j \in PoolKeys : i # j /\ pools'[i] # NoPool => pools'[i] # pools'[j]
    BY <2>2 DEF ManagerInv
  <2> QED  BY <1>1, <2>1, <2>2, <2>3, <2>4, <2>5 DEF ManagerInv
<1> QED  BY <1>2, <1>3

LEMMA ManagerStep == ASSUME ManagerInv, [ManagerNext]_managerVars PROVE ManagerInv'
<1>1. ASSUME NEW u \in PoolUsers, GetGitPool(u) \/ GetLanguagePool(u) PROVE ManagerInv'
  BY <1>1, PoolMade DEF GetGitPool, GetLanguagePool, PoolKeys
<1>2. CASE (\E u \in PoolUsers : AcquireResource(u) \/ DropResource(u)) \/ UNCHANGED managerVars
  <2>1. UNCHANGED <<pools, poolsMade, openPools, managing, visit, maintained>>
    BY <1>2 DEF AcquireResource, DropResource, managerVars
  <2> QED  BY <2>1 DEF ManagerInv, PoolKeysUsed, Managed
<1>3. CASE MaintainStart
  <2>1. /\ managing' = "maintain" /\ visit' = PoolKeysUsed /\ managing = "nobody"
        /\ maintained' = [done |-> {}, errors |-> {}] /\ UNCHANGED <<pools, poolsMade, openPools>>
    BY <1>3 DEF MaintainStart, PoolKeysUsed
  <2>2. PoolKeysUsed' = PoolKeysUsed /\ Managed' = Managed
    BY <2>1 DEF PoolKeysUsed, Managed
  <2> QED  BY <2>1, <2>2 DEF ManagerInv
<1>4. ASSUME NEW k \in PoolKeys, NEW ok \in BOOLEAN, MaintainPool(k, ok) PROVE ManagerInv'
  <2>1. /\ managing = "maintain" /\ managing' \in {"nobody", "maintain"} /\ k \in visit
        /\ visit' = visit \ {k} /\ UNCHANGED <<pools, poolsMade, openPools>>
    BY <1>4 DEF MaintainPool, NextKeys
  <2>2. PoolKeysUsed' = PoolKeysUsed /\ Managed' = Managed
    BY <2>1 DEF PoolKeysUsed, Managed
  <2>3. /\ maintained' \in [done : SUBSET PoolKeys, errors : SUBSET PoolKeys]
        /\ \/ maintained'.done = maintained.done \cup {k} /\ maintained'.errors = maintained.errors
           \/ maintained'.errors = maintained.errors \cup {k} /\ maintained'.done = maintained.done
    BY <1>4 DEF MaintainPool, ManagerInv
  <2>4. k \notin maintained.done /\ k \notin maintained.errors
    BY <2>1 DEF ManagerInv
  <2>5. /\ maintained'.done \cap maintained'.errors = {}
        /\ visit' \cap (maintained'.done \cup maintained'.errors) = {}
        /\ visit' \cup maintained'.done \cup maintained'.errors = PoolKeysUsed
    BY <2>1, <2>3, <2>4 DEF ManagerInv
  <2> QED  BY <2>1, <2>2, <2>3, <2>5 DEF ManagerInv
<1>5. CASE ShutdownManager
  <2>1. /\ managing = "nobody" /\ managing' = "shutdown" /\ visit' = PoolKeysUsed
        /\ UNCHANGED <<pools, poolsMade, openPools, maintained>>
    BY <1>5 DEF ShutdownManager, PoolKeysUsed
  <2>2. PoolKeysUsed' = PoolKeysUsed /\ Managed = {pools[k] : k \in PoolKeysUsed}
    BY <2>1 DEF PoolKeysUsed, Managed
  <2> QED  BY <2>1, <2>2 DEF ManagerInv
<1>6. ASSUME NEW k \in PoolKeys, ShutdownPool(k) PROVE ManagerInv'
  <2>1. /\ managing = "shutdown" /\ k \in visit /\ visit' = visit \ {k}
        /\ openPools' = openPools \ {pools[k]}
        /\ UNCHANGED <<pools, poolsMade, managing, maintained>>
    BY <1>6 DEF ShutdownPool, NextKeys
  <2>2. PoolKeysUsed' = PoolKeysUsed
    BY <2>1 DEF PoolKeysUsed
  <2>3. \A j \in visit : j # k => pools[j] # pools[k]
    BY <2>1 DEF ManagerInv, PoolKeysUsed
  <2>4. openPools' = {pools[j] : j \in visit'}
    BY <2>1, <2>3 DEF ManagerInv
  <2> QED  BY <2>1, <2>2, <2>4 DEF ManagerInv
<1>7. CASE ShutdownEnd
  <2>1. /\ managing = "shutdown" /\ managing' = "nobody" /\ visit = {}
        /\ pools' = [k \in PoolKeys |-> NoPool] /\ UNCHANGED <<poolsMade, openPools, visit, maintained>>
    BY <1>7 DEF ShutdownEnd
  <2>2. openPools = {} /\ Managed' = {} /\ PoolKeysUsed' = {}
    BY <2>1 DEF ManagerInv, Managed, PoolKeysUsed
  <2>3. pools' \in [PoolKeys -> 0..poolsMade] /\ \A k \in PoolKeys : pools'[k] = NoPool
    BY <2>1 DEF ManagerInv, NoPool
  <2> QED  BY <2>1, <2>2, <2>3 DEF ManagerInv
<1> QED
  BY <1>1, <1>2, <1>3, <1>4, <1>5, <1>6, <1>7 DEF ManagerNext

\* When nobody has the manager, the pools that are open are those it knows, one
\* under each key, and maintenance visits each of them once (get_git_pool,
\* get_language_pool, maintain_all_pools, shutdown).
THEOREM PoolsStayKnown == ManagerSpec => []ManagerKeepsPools
<1>1. ASSUME ManagerInit PROVE ManagerInv
  <2>1. Managed = {} /\ PoolKeysUsed = {}
    BY <1>1 DEF ManagerInit, Managed, PoolKeysUsed
  <2>2. /\ poolsMade \in Nat /\ pools \in [PoolKeys -> 0..poolsMade]
        /\ maintained \in [done : SUBSET PoolKeys, errors : SUBSET PoolKeys]
        /\ \A k \in PoolKeys : pools[k] = NoPool
    BY <1>1 DEF ManagerInit, NoPool
  <2> QED  BY <1>1, <2>1, <2>2 DEF ManagerInit, ManagerInv
<1>2. ASSUME ManagerInv PROVE ManagerKeepsPools
  <2>1. openPools \subseteq Managed
    <3>1. CASE managing = "shutdown"
      BY <1>2, <3>1 DEF ManagerInv, Managed, PoolKeysUsed
    <3> QED  BY <1>2, <3>1 DEF ManagerInv
  <2> QED
    BY <1>2, <2>1 DEF ManagerInv, ManagerKeepsPools, PoolsKnown, MaintenanceComplete, PoolKeysUsed
<1> QED  BY <1>1, <1>2, ManagerStep, PTL DEF ManagerSpec

-----------------------------------------------------------------------------
(* NegativeCache.                                                            *)

\* A recorded file that matches has changed since it was recorded.
NegInv ==
  /\ NegativesExplained /\ IsFiniteSet(bloom)
  /\ \A n \in bloom : n \in answers => n \in stale

LEMMA NegStep == ASSUME NegInv, [NegNext]_negVars PROVE NegInv'
<1>1. CASE UNCHANGED negVars
  BY <1>1 DEF negVars, NegInv, NegativesExplained
<1>2. CASE Reset
  <2>1. /\ bloom' = {} /\ confirmed' = {} /\ recorded_misses' = 0 /\ decided' = <<>>
    BY <1>2 DEF Reset
  <2>2. IsFiniteSet({}) /\ Cardinality({}) = 0
    BY FS_EmptySet
  <2> QED  BY <2>1, <2>2, NegAssumption DEF NegInv, NegativesExplained
<1>3. ASSUME NEW n \in Names, ChangeAnswer(n) PROVE NegInv'
  <2>1. /\ UNCHANGED <<collides, bloom, confirmed, recorded_misses>> /\ decided' = <<>>
        /\ \A m : m # n => (m \in answers' <=> m \in answers)
        /\ stale' = IF n \in bloom THEN stale \cup {n} ELSE stale
    BY <1>3 DEF ChangeAnswer
  <2> QED  BY <2>1 DEF NegInv, NegativesExplained
<1>4. ASSUME NEW n \in Names, FilterFile(n) PROVE NegInv'
  <2>1. UNCHANGED <<collides, answers>>
    BY <1>4 DEF FilterFile
  <2>2. CASE /\ ProbablyAbsent(n) \/ DefinitelyAbsent(n)
             /\ decided' = <<n, FALSE>> /\ UNCHANGED <<bloom, confirmed, recorded_misses, stale>>
    <3>1. n \in bloom \/ \E m \in bloom : <<m, n>> \in collides
      BY <2>2 DEF NegInv, NegativesExplained, ProbablyAbsent, DefinitelyAbsent, BloomContains
    <3> QED  BY <2>1, <2>2, <3>1 DEF NegInv, NegativesExplained
  <2>3. CASE /\ n \in answers /\ decided' = <<n, TRUE>>
             /\ UNCHANGED <<bloom, confirmed, recorded_misses, stale>>
    BY <2>1, <2>3 DEF NegInv, NegativesExplained
  <2>4. CASE /\ ~ProbablyAbsent(n) /\ n \notin answers
             /\ RecordMiss(n) /\ stale' = stale \ {n} /\ decided' = <<n, FALSE>>
    <3>1. n \notin bloom /\ n \notin confirmed
      BY <2>4 DEF ProbablyAbsent, BloomContains, NegInv, NegativesExplained
    <3>2. bloom' = bloom \cup {n} /\ recorded_misses' = recorded_misses + 1
      BY <2>4 DEF RecordMiss
    <3>3. IsFiniteSet(bloom') /\ Cardinality(bloom') = Cardinality(bloom) + 1
      BY <3>1, <3>2, FS_AddElement DEF NegInv
    <3>4. confirmed \subseteq bloom /\ IsFiniteSet(confirmed) /\ Cardinality(confirmed) \in Nat
      BY FS_Subset, FS_CardinalityType DEF NegInv, NegativesExplained
    <3>5. Cardinality(confirmed \cup {n}) = Cardinality(confirmed) + 1
      BY <3>1, <3>4, FS_AddElement
    <3>6. confirmed' \subseteq bloom' /\ Cardinality(confirmed') <= MaxConfirmed
      BY <2>4, <3>2, <3>4, <3>5, NegAssumption DEF RecordMiss, NegInv, NegativesExplained
    <3>7. \A m \in bloom' : m \in answers' => m \in stale'
      BY <2>1, <2>4, <3>2 DEF NegInv
    <3>8. recorded_misses' = Cardinality(bloom')
      BY <3>2, <3>3 DEF NegInv, NegativesExplained
    <3> QED  BY <2>1, <2>4, <3>3, <3>6, <3>7, <3>8 DEF NegInv, NegativesExplained
  <2> QED  BY <1>4, <2>2, <2>3, <2>4 DEF FilterFile
<1> QED  BY <1>1, <1>2, <1>3, <1>4 DEF NegNext

\* A file is left out wrongly only when its bits collide or its answer has
\* changed, and a miss is recorded once (filter_files_with_negative_cache,
\* record_miss).
THEOREM NegativesAreExplained == NegSpec => []NegativesExplained
<1>1. ASSUME NegInit PROVE NegInv
  <2>1. bloom = {} /\ confirmed = {} /\ recorded_misses = 0 /\ decided = <<>>
    BY <1>1 DEF NegInit
  <2>2. IsFiniteSet({}) /\ Cardinality({}) = 0
    BY FS_EmptySet
  <2> QED  BY <2>1, <2>2, NegAssumption DEF NegInv, NegativesExplained
<1>2. NegInv => NegativesExplained
  BY DEF NegInv
<1> QED  BY <1>1, <1>2, NegStep, PTL DEF NegSpec

-----------------------------------------------------------------------------
(* LockFreeCache.                                                            *)

Inserting == {t \in Threads : at[t] \in {"check", "scan", "evict", "insert"}}
Entered == Cardinality(Stored)
Room == IF LfMax = 0 THEN 1 ELSE LfMax

LfTypes ==
  /\ at \in [Threads -> {"idle", "check", "scan", "evict", "insert", "expire"}]
  /\ chosen \in [Threads -> SUBSET (LfKeys \cup {NoLfKey})]
  /\ on \in [Threads -> LfKeys \cup {NoLfKey}]
  /\ IsFiniteSet(Stored) /\ Stored \subseteq LfKeys \cup {NoLfKey}
  /\ stats \in [evictions : Nat, inserts : Nat] /\ uncounted \in Int /\ overlaps \in Nat

\* Every insert in progress but those of P has found another one in progress,
\* which overlaps counts: it may add an entry at any time.  P holds at most the
\* one that began alone; there is room for its entry when it comes to store it,
\* unless it will replace the entry it found or remove the victim it chose.
Owed(P) == Cardinality(Inserting \ P)
RoomLeft(P) == Entered + Owed(P) + 1 <= Room + overlaps

RoomFor(P) ==
  /\ P \subseteq Inserting /\ (P = {} \/ \E p \in Threads : P = {p})
  /\ Entered + Owed(P) <= Room + overlaps /\ Owed(P) <= overlaps
  /\ \A p \in P :
       /\ at[p] = "insert" => RoomLeft(P) \/ on[p] \in Stored
       /\ at[p] = "evict" => RoomLeft(P) \/ (chosen[p] # {} /\ chosen[p] \subseteq Stored)

LfInv == LfTypes /\ CountersExplainSize /\ \E P \in SUBSET Threads : RoomFor(P)

LEMMA LfCounts ==
  ASSUME LfTypes, NEW P
  PROVE  /\ Entered \in Nat /\ IsFiniteSet(Inserting) /\ IsFiniteSet(Inserting \ P)
         /\ Owed(P) \in Nat /\ Room \in Nat \ {0} /\ Room >= LfMax
<1>1. Inserting \in SUBSET Threads /\ Inserting \ P \in SUBSET Threads
  BY DEF Inserting
<1>2. IsFiniteSet(Inserting) /\ IsFiniteSet(Inserting \ P)
  BY <1>1, FS_Subset, LfAssumption
<1> QED
  BY <1>2, FS_CardinalityType, LfAssumption DEF LfTypes, Entered, Owed, Room

\* Entries are removed.
LEMMA Fewer ==
  ASSUME IsFiniteSet(Stored), Stored' \subseteq Stored
  PROVE  /\ IsFiniteSet(Stored') /\ Entered' \in Nat /\ Entered \in Nat /\ Entered' <= Entered
         /\ Stored' # Stored => Entered' <= Entered - 1
         /\ Entered' = Entered - Cardinality(Stored \ Stored')
         /\ Cardinality(Stored \ Stored') \in Nat
<1>1. Stored' \in SUBSET Stored /\ Stored \ (Stored \ Stored') = Stored'
      /\ Stored \cap (Stored \ Stored') = Stored \ Stored' /\ Stored \ Stored' \in SUBSET Stored
  OBVIOUS
<1>2. /\ IsFiniteSet(Stored') /\ Cardinality(Stored') <= Cardinality(Stored)
      /\ Cardinality(Stored) = Cardinality(Stored') => Stored = Stored'
  BY <1>1, FS_Subset
<1>3. IsFiniteSet(Stored \ Stored')
  BY <1>1, FS_Subset
<1>4. Cardinality(Stored \ (Stored \ Stored'))
        = Cardinality(Stored) - Cardinality(Stored \cap (Stored \ Stored'))
  BY FS_Difference
<1>5. /\ Cardinality(Stored) \in Nat /\ Cardinality(Stored') \in Nat
      /\ Cardinality(Stored \ Stored') \in Nat
  BY <1>2, <1>3, FS_CardinalityType
<1>6. Cardinality(Stored') = Cardinality(Stored) - Cardinality(Stored \ Stored')
  BY <1>1, <1>4
<1> QED  BY <1>2, <1>5, <1>6 DEF Entered

\* Nothing is added, and the insert that began alone does nothing.
LEMMA RoomKept ==
  ASSUME LfTypes, NEW P, RoomFor(P), Stored' \subseteq Stored, Inserting' = Inserting,
         overlaps' = overlaps,
         \A p \in P : at'[p] = at[p] /\ on'[p] = on[p] /\ chosen'[p] = chosen[p]
  PROVE  RoomFor(P)'
<1>1. /\ Entered' \in Nat /\ Entered \in Nat /\ Entered' <= Entered /\ Owed(P) \in Nat
      /\ Stored' # Stored => Entered' <= Entered - 1
  BY Fewer, LfCounts DEF LfTypes
<1>2. Owed(P)' = Owed(P) /\ Room \in Nat /\ overlaps \in Nat
  BY LfCounts DEF Owed, LfTypes
<1>3. RoomLeft(P) => RoomLeft(P)'
  BY <1>1, <1>2 DEF RoomLeft
<1>4. Stored' # Stored => RoomLeft(P)'
  BY <1>1, <1>2 DEF RoomLeft, RoomFor
<1>5. Entered' + Owed(P)' <= Room + overlaps' /\ Owed(P)' <= overlaps'
  BY <1>1, <1>2 DEF RoomFor
<1> QED  BY <1>3, <1>4, <1>5 DEF RoomFor

\* An insert begins, alone or while others are in progress.
LEMMA RoomAtBegin ==
  ASSUME LfTypes, NEW P \in SUBSET Threads, RoomFor(P), NEW t \in Threads, at[t] = "idle",
         NEW k \in LfKeys, BeginInsert(t, k), Stored' = Stored, chosen' = chosen
  PROVE  \E Q \in SUBSET Threads : RoomFor(Q)'
<1>1. /\ at' = [at EXCEPT ![t] = "check"] /\ on' = [on EXCEPT ![t] = k]
      /\ overlaps' = IF Inserting = {} THEN overlaps ELSE overlaps + 1
  BY DEF BeginInsert, GoTo, Inserting, LfTypes
<1>2. Inserting' = Inserting \cup {t} /\ t \notin Inserting
  BY <1>1 DEF Inserting, LfTypes
<1>3. /\ Entered' = Entered /\ Entered \in Nat /\ Owed(P) \in Nat /\ Room \in Nat \ {0}
      /\ overlaps \in Nat
  BY LfCounts DEF Entered, LfTypes
<1>4. CASE Inserting = {}
  <2>1. P = {} /\ Inserting' = {t} /\ Inserting \ P = {} /\ Inserting' \ {t} = {}
    BY <1>2, <1>4 DEF RoomFor
  <2>2. Owed(P) = Cardinality({}) /\ Owed({t})' = Cardinality({}) /\ Cardinality({}) = 0
    BY <2>1, FS_EmptySet DEF Owed
  <2>3. at'[t] = "check"
    BY <1>1 DEF LfTypes
  <2>4. RoomFor({t})'
    BY <1>1, <1>3, <1>4, <2>1, <2>2, <2>3 DEF RoomFor
  <2> QED  BY <2>4
<1>5. CASE Inserting # {}
  <2>1. Inserting' \ P = (Inserting \ P) \cup {t} /\ t \notin Inserting \ P /\ t \notin P
    BY <1>2 DEF RoomFor
  <2>2. Owed(P)' = Owed(P) + 1
    BY <2>1, LfCounts, FS_AddElement DEF Owed
  <2>3. RoomLeft(P) => RoomLeft(P)'
    BY <1>1, <1>3, <1>5, <2>2 DEF RoomLeft
  <2>4. \A p \in P : at'[p] = at[p] /\ on'[p] = on[p]
    BY <1>1, <2>1 DEF LfTypes
  <2>5. Entered' + Owed(P)' <= Room + overlaps' /\ Owed(P)' <= overlaps'
    BY <1>1, <1>3, <1>5, <2>2 DEF RoomFor
  <2>6. RoomFor(P)'
    BY <1>2, <2>3, <2>4, <2>5 DEF RoomFor
  <2> QED  BY <2>6
<1> QED  BY <1>4, <1>5

\* An insert looks for room, and for a victim.
LEMMA RoomWhileLooking ==
  ASSUME LfTypes, NEW P \in SUBSET Threads, RoomFor(P), NEW t \in Threads,
         CheckRoom(t) \/ FindLru(t)
  PROVE  RoomFor(P)'
<1>1. /\ UNCHANGED <<storage, overlaps, on>> /\ at[t] \in {"check", "scan"}
      /\ \A p \in Threads : p # t => at'[p] = at[p] /\ chosen'[p] = chosen[p]
      /\ at'[t] \in {"scan", "insert", "evict"}
  BY DEF CheckRoom, FindLru, GoTo, LfTypes
<1>2. Stored' = Stored /\ Inserting' = Inserting
  BY <1>1 DEF Stored, Inserting, LfTypes
<1>3. CASE t \notin P
  BY <1>1, <1>2, <1>3, RoomKept
<1>4. CASE t \in P
  <2>1. P = {t}
    BY <1>4 DEF RoomFor
  <2>2. /\ Entered' = Entered /\ Entered \in Nat /\ Owed(P) \in Nat /\ Owed(P)' = Owed(P)
        /\ Room \in Nat \ {0} /\ Room >= LfMax /\ overlaps \in Nat
    BY <1>2, LfCounts DEF Entered, Owed, LfTypes
  <2>3. RoomLeft(P)' <=> RoomLeft(P)
    BY <1>1, <2>2 DEF RoomLeft
  <2>4. CASE CheckRoom(t)
    <3>1. at'[t] = IF NeedsRoom(on[t]) THEN "scan" ELSE "insert"
      BY <2>4 DEF CheckRoom, GoTo, LfTypes
    <3>2. at'[t] = "insert" => on[t] \in Stored \/ Entered < LfMax
      BY <2>2, <3>1, LfAssumption DEF NeedsRoom, Entered
    <3>3. Entered < LfMax => RoomLeft(P)
      BY <2>2, LfAssumption DEF RoomLeft, RoomFor
    <3> QED  BY <1>1, <1>2, <2>1, <2>2, <2>3, <3>1, <3>2, <3>3 DEF RoomFor
  <2>5. CASE FindLru(t)
    <3>1. /\ at'[t] = "evict"
          /\ chosen'[t] \in {{k} : k \in Stored} \/ (chosen'[t] = {} /\ Stored = {})
      BY <2>5 DEF FindLru, GoTo, LfTypes
    <3>2. Stored = {} => Entered = 0
      BY FS_EmptySet DEF Entered
    <3>3. Stored = {} => RoomLeft(P)
      BY <2>2, <3>2 DEF RoomLeft, RoomFor
    <3> QED  BY <1>1, <1>2, <2>1, <2>2, <2>3, <3>1, <3>3 DEF RoomFor
  <2> QED  BY <2>4, <2>5
<1> QED  BY <1>3, <1>4

\* The victim goes, unless another thread has removed it.
LEMMA RoomAfterEviction ==
  ASSUME LfTypes, NEW P \in SUBSET Threads, RoomFor(P), NEW t \in Threads, EvictLru(t)
  PROVE  RoomFor(P)'
<1>1. /\ at[t] = "evict" /\ storage' = Without(chosen[t]) /\ UNCHANGED <<on, overlaps>>
      /\ \A p \in Threads : p # t => at'[p] = at[p] /\ chosen'[p] = chosen[p]
      /\ at'[t] = "insert"
  BY DEF EvictLru, Evict, GoTo, LfTypes
<1>2. /\ Stored' = Stored \ chosen[t] /\ Entered' \in Nat /\ Entered \in Nat /\ Entered' <= Entered
      /\ chosen[t] \cap Stored # {} => Entered' <= Entered - 1
  <2>1. Stored' = Stored \ chosen[t]
    BY <1>1 DEF Without, Stored
  <2> QED  BY <2>1, Fewer DEF LfTypes
<1>3. Inserting' = Inserting
  BY <1>1 DEF Inserting, LfTypes
<1>4. CASE t \notin P
  BY <1>1, <1>2, <1>3, <1>4, RoomKept
<1>5. CASE t \in P
  <2>1. P = {t}
    BY <1>5 DEF RoomFor
  <2>2. Owed(P) \in Nat /\ Owed(P)' = Owed(P) /\ Room \in Nat /\ overlaps \in Nat
    BY <1>3, LfCounts DEF Owed, LfTypes
  <2>3. RoomLeft(P) \/ chosen[t] \cap Stored # {}
    BY <1>1, <1>5 DEF RoomFor
  <2>4. RoomLeft(P)'
    BY <1>1, <1>2, <2>2, <2>3 DEF RoomLeft, RoomFor
  <2>5. Entered' + Owed(P)' <= Room + overlaps' /\ Owed(P)' <= overlaps'
    BY <1>1, <1>2, <2>2 DEF RoomFor
  <2> QED  BY <1>1, <1>3, <2>1, <2>4, <2>5 DEF RoomFor
<1> QED  BY <1>4, <1>5

\* The entry is stored, where there was room for it or where one was owed.
LEMMA RoomAfterStoring ==
  ASSUME LfTypes, NEW P \in SUBSET Threads, RoomFor(P), NEW t \in Threads, StoreEntry(t)
  PROVE  \E Q \in SUBSET Threads : RoomFor(Q)'
<1>1. /\ at[t] = "insert" /\ UNCHANGED <<chosen, overlaps>>
      /\ \A p \in Threads : p # t => at'[p] = at[p] /\ on'[p] = on[p]
      /\ at'[t] = "idle" /\ Stored' = Stored \cup {on[t]}
  BY DEF StoreEntry, GoTo, LfTypes, Stored
<1>2. Inserting' = Inserting \ {t} /\ t \in Inserting
  BY <1>1 DEF Inserting, LfTypes
<1>3. /\ Entered \in Nat /\ Owed(P) \in Nat /\ Room \in Nat /\ overlaps \in Nat
      /\ IsFiniteSet(Stored) /\ IsFiniteSet(Inserting \ P)
  BY LfCounts DEF LfTypes
<1>4. /\ on[t] \in Stored => Entered' = Entered
      /\ on[t] \notin Stored => Entered' = Entered + 1
  <2>1. on[t] \in Stored => Stored' = Stored
    BY <1>1
  <2> QED  BY <1>1, <1>3, <2>1, FS_AddElement DEF Entered
<1>5. CASE t \in P
  <2>1. P = {t}
    BY <1>5 DEF RoomFor
  <2>2. Inserting' \ {} = Inserting \ P
    BY <1>2, <2>1
  <2>3. Owed({})' = Owed(P)
    BY <2>2 DEF Owed
  <2>4. RoomLeft(P) \/ on[t] \in Stored
    BY <1>1, <1>5 DEF RoomFor
  <2>5. Entered' + Owed({})' <= Room + overlaps' /\ Owed({})' <= overlaps'
    BY <1>1, <1>3, <1>4, <2>3, <2>4 DEF RoomFor, RoomLeft
  <2>6. RoomFor({})'
    BY <2>5 DEF RoomFor
  <2> QED  BY <2>6
<1>6. CASE t \notin P
  <2>1. Inserting' \ P = (Inserting \ P) \ {t} /\ t \in Inserting \ P
    BY <1>2, <1>6
  <2>2. Owed(P)' = Owed(P) - 1
    BY <1>3, <2>1, FS_RemoveElement DEF Owed
  <2>3. Entered' + Owed(P)' <= Entered + Owed(P) /\ Owed(P)' <= Owed(P) /\ Entered' \in Nat
    BY <1>3, <1>4, <2>2
  <2>4. Owed(P)' \in Int
    BY <1>3, <2>2
  <2>5. RoomLeft(P) => RoomLeft(P)'
    BY <1>1, <1>3, <2>3, <2>4 DEF RoomLeft
  <2>6. Entered' + Owed(P)' <= Room + overlaps' /\ Owed(P)' <= overlaps'
    BY <1>1, <1>3, <2>3, <2>4 DEF RoomFor
  <2>7. P \subseteq Inserting'
    BY <1>2, <1>6 DEF RoomFor
  <2>8. RoomFor(P)'
    BY <1>1, <1>6, <2>5, <2>6, <2>7 DEF RoomFor
  <2> QED  BY <2>8
<1> QED  BY <1>5, <1>6

\* Every step keeps room for what is going to be stored.
LEMMA RoomStep ==
  ASSUME LfInv, [LfNext]_lfVars PROVE \E P \in SUBSET Threads : RoomFor(P)'
<1> PICK P \in SUBSET Threads : RoomFor(P)
  BY DEF LfInv
<1>0. LfTypes
  BY DEF LfInv
<1>1. CASE Tick \/ UNCHANGED lfVars
  <2>1. UNCHANGED <<storage, at, on, chosen, overlaps>>
    BY <1>1 DEF Tick, lfVars, threadVars
  <2>2. RoomFor(P)'
    BY <1>0, <2>1, RoomKept DEF Stored, Inserting
  <2> QED  BY <2>2
<1>2. ASSUME NEW t \in Threads, NEW k \in LfKeys, Get(t, k) \/ Insert(t, k) \/ GetOrCompute(t, k)
      PROVE  \E Q \in SUBSET Threads : RoomFor(Q)'
  <2>1. Stored' = Stored /\ chosen' = chosen /\ at[t] = "idle"
    BY <1>2 DEF Get, Insert, GetOrCompute, Access, Stored, threadVars
  <2>2. CASE BeginInsert(t, k)
    BY <1>0, <2>1, <2>2, RoomAtBegin
  <2>3. CASE UNCHANGED <<at, on, overlaps>>
    <3>1. RoomFor(P)'
      BY <1>0, <2>1, <2>3, RoomKept DEF Inserting
    <3> QED  BY <3>1
  <2> QED  BY <1>2, <2>2, <2>3 DEF Get, Insert, GetOrCompute, threadVars
<1>3. ASSUME NEW t \in Threads, (\E k \in LfKeys : Remove(t, k)) \/ Clear(t) \/ ResetCounters(t)
      PROVE  RoomFor(P)'
  <2>1. Stored' \subseteq Stored /\ UNCHANGED <<at, on, chosen, overlaps>>
    BY <1>3 DEF Remove, Clear, ResetCounters, Without, Stored, threadVars
  <2> QED  BY <1>0, <2>1, RoomKept DEF Inserting
<1>4. ASSUME NEW t \in Threads, CollectExpired(t) \/ RemoveExpired(t) PROVE RoomFor(P)'
  <2>1. /\ Stored' \subseteq Stored /\ UNCHANGED <<on, overlaps>>
        /\ at[t] \in {"idle", "expire"} /\ at'[t] \in {"idle", "expire"}
        /\ \A p \in Threads : p # t => at'[p] = at[p] /\ chosen'[p] = chosen[p]
    BY <1>0, <1>4 DEF CollectExpired, RemoveExpired, Evict, GoTo, Without, Stored, LfTypes
  <2>2. Inserting' = Inserting /\ t \notin P
    BY <1>0, <2>1 DEF Inserting, LfTypes, RoomFor
  <2> QED  BY <1>0, <2>1, <2>2, RoomKept
<1>5. ASSUME NEW t \in Threads, CheckRoom(t) \/ FindLru(t) \/ EvictLru(t) PROVE RoomFor(P)'
  BY <1>0, <1>5, RoomWhileLooking, RoomAfterEviction
<1>6. ASSUME NEW t \in Threads, StoreEntry(t) PROVE \E Q \in SUBSET Threads : RoomFor(Q)'
  BY <1>0, <1>6, RoomAfterStoring
<1> QED  BY <1>1, <1>2, <1>3, <1>4, <1>5, <1>6 DEF LfNext, LfStep

\* Every step counts what it removes or adds, or uncounted does.
LEMMA CountersStep ==
  ASSUME LfTypes, CountersExplainSize, [LfNext]_lfVars PROVE CountersExplainSize'
<1>0. /\ Entered \in Nat /\ stats.inserts \in Nat /\ stats.evictions \in Nat /\ uncounted \in Int
      /\ stats.inserts - stats.evictions + uncounted = Entered
  BY LfCounts DEF LfTypes, CountersExplainSize, Entered
<1> SUFFICES stats'.inserts - stats'.evictions + uncounted' = Entered'
  BY DEF CountersExplainSize, Entered
<1>1. CASE Stored' = Stored /\ UNCHANGED <<stats, uncounted>>
  BY <1>0, <1>1 DEF Entered
<1>2. CASE Tick \/ UNCHANGED lfVars
  BY <1>1, <1>2 DEF Tick, lfVars, Stored
<1>3. ASSUME NEW t \in Threads, NEW k \in LfKeys, Get(t, k) \/ Insert(t, k) \/ GetOrCompute(t, k)
      PROVE  Stored' = Stored /\ UNCHANGED <<stats, uncounted>>
  BY <1>3 DEF Get, Insert, GetOrCompute, BeginInsert, Access, Stored
<1>4. ASSUME NEW t \in Threads, CheckRoom(t) \/ FindLru(t) \/ CollectExpired(t)
      PROVE  Stored' = Stored /\ UNCHANGED <<stats, uncounted>>
  BY <1>4 DEF CheckRoom, FindLru, CollectExpired, Stored
<1>5. ASSUME Stored' \subseteq Stored, stats' = stats,
             uncounted' = uncounted - Cardinality(Stored \ Stored')
      PROVE  stats'.inserts - stats'.evictions + uncounted' = Entered'
  BY <1>0, <1>5, Fewer DEF LfTypes
<1>6. ASSUME NEW t \in Threads, NEW k \in LfKeys, Remove(t, k)
      PROVE  stats'.inserts - stats'.evictions + uncounted' = Entered'
  <2>1. Stored' = Stored \ {k} /\ stats' = stats
        /\ uncounted' = uncounted - Cardinality({k} \cap Stored)
    BY <1>6 DEF Remove, Without, Stored
  <2>2. {k} \cap Stored = Stored \ Stored'
    BY <2>1
  <2> QED  BY <1>5, <2>1, <2>2
<1>7. ASSUME NEW t \in Threads, Clear(t)
      PROVE  stats'.inserts - stats'.evictions + uncounted' = Entered'
  <2>1. Stored' = {} /\ stats' = stats /\ uncounted' = uncounted - Cardinality(Stored)
    BY <1>7 DEF Clear, Without, Stored
  <2>2. Stored \ Stored' = Stored
    BY <2>1
  <2> QED  BY <1>5, <2>1, <2>2
<1>8. ASSUME NEW t \in Threads, EvictLru(t) \/ RemoveExpired(t)
      PROVE  stats'.inserts - stats'.evictions + uncounted' = Entered'
  <2>1. /\ Stored' = Stored \ chosen[t] /\ uncounted' = uncounted
        /\ stats' = [stats EXCEPT !.evictions = @ + Cardinality(chosen[t] \cap Stored)]
    BY <1>8 DEF EvictLru, RemoveExpired, Evict, Without, Stored
  <2>2. chosen[t] \cap Stored = Stored \ Stored'
    BY <2>1
  <2>3. /\ stats'.inserts = stats.inserts
        /\ stats'.evictions = stats.evictions + Cardinality(Stored \ Stored')
    BY <2>1, <2>2 DEF LfTypes
  <2>4. Entered' = Entered - Cardinality(Stored \ Stored') /\ Cardinality(Stored \ Stored') \in Nat
    BY <2>1, Fewer DEF LfTypes
  <2> QED  BY <1>0, <2>1, <2>3, <2>4
<1>9. ASSUME NEW t \in Threads, ResetCounters(t)
      PROVE  stats'.inserts - stats'.evictions + uncounted' = Entered'
  <2>1. /\ stats' = [f \in DOMAIN stats |-> 0] /\ Stored' = Stored
        /\ uncounted' = uncounted + stats.inserts - stats.evictions
    BY <1>9 DEF ResetCounters, Stored
  <2>2. stats'.inserts = 0 /\ stats'.evictions = 0 /\ Entered' = Entered
    BY <2>1 DEF LfTypes, Entered
  <2> QED  BY <1>0, <2>1, <2>2
<1>10. ASSUME NEW t \in Threads, StoreEntry(t)
       PROVE  stats'.inserts - stats'.evictions + uncounted' = Entered'
  <2>1. /\ Stored' = Stored \cup {on[t]} /\ uncounted' = uncounted
        /\ stats'.inserts = IF on[t] \in Stored THEN stats.inserts ELSE stats.inserts + 1
        /\ stats'.evictions = stats.evictions
    BY <1>10 DEF StoreEntry, Stored, LfTypes
  <2>2. CASE on[t] \in Stored
    <3>1. Stored' = Stored
      BY <2>1, <2>2
    <3> QED  BY <1>0, <2>1, <2>2, <3>1 DEF Entered
  <2>3. CASE on[t] \notin Stored
    <3>1. Entered' = Entered + 1
      BY <2>1, <2>3, FS_AddElement DEF Entered, LfTypes
    <3> QED  BY <1>0, <2>1, <2>3, <3>1
  <2> QED  BY <2>2, <2>3
<1> QED
  BY <1>1, <1>2, <1>3, <1>4, <1>6, <1>7, <1>8, <1>9, <1>10 DEF LfNext, LfStep

LEMMA LfTypesStep == ASSUME LfTypes, [LfNext]_lfVars PROVE LfTypes'
<1>1. CASE Tick \/ UNCHANGED lfVars
  BY <1>1 DEF Tick, lfVars, threadVars, LfTypes, Stored
<1>2. ASSUME NEW t \in Threads, NEW k \in LfKeys, Get(t, k) \/ Insert(t, k) \/ GetOrCompute(t, k)
      PROVE  LfTypes'
  <2>1. Stored' = Stored /\ UNCHANGED <<chosen, stats, uncounted>>
    BY <1>2 DEF Get, Insert, GetOrCompute, BeginInsert, Access, Stored, threadVars
  <2>2. CASE BeginInsert(t, k)
    BY <2>1, <2>2 DEF BeginInsert, GoTo, LfTypes
  <2>3. CASE UNCHANGED <<at, on, overlaps>>
    BY <2>1, <2>3 DEF LfTypes
  <2> QED  BY <1>2, <2>2, <2>3 DEF Get, Insert, GetOrCompute, threadVars
<1>3. ASSUME NEW t \in Threads, NEW k \in LfKeys, Remove(t, k) PROVE LfTypes'
  <2>1. /\ Stored' = Stored \ {k} /\ UNCHANGED <<at, on, chosen, stats, overlaps>>
        /\ uncounted' = uncounted - Cardinality({k} \cap Stored)
    BY <1>3 DEF Remove, Without, Stored, threadVars
  <2>2. {k} \cap Stored = Stored \ Stored' /\ Stored' \subseteq Stored
    BY <2>1
  <2>3. uncounted' \in Int /\ IsFiniteSet(Stored')
    BY <2>1, <2>2, Fewer DEF LfTypes
  <2> QED  BY <2>1, <2>3 DEF LfTypes
<1>4. ASSUME NEW t \in Threads, Clear(t) PROVE LfTypes'
  <2>1. /\ Stored' = {} /\ UNCHANGED <<at, on, chosen, stats, overlaps>>
        /\ uncounted' = uncounted - Cardinality(Stored)
    BY <1>4 DEF Clear, Without, Stored, threadVars
  <2>2. uncounted' \in Int /\ IsFiniteSet(Stored')
    BY <2>1, FS_EmptySet, LfCounts DEF LfTypes, Entered
  <2> QED  BY <2>1, <2>2 DEF LfTypes
<1>5. ASSUME NEW t \in Threads, ResetCounters(t) PROVE LfTypes'
  <2>1. stats' = [evictions |-> 0, inserts |-> 0]
    BY <1>5 DEF ResetCounters, LfTypes
  <2> QED  BY <1>5, <2>1 DEF ResetCounters, LfTypes, Stored, threadVars
<1>6. ASSUME NEW t \in Threads, EvictLru(t) \/ RemoveExpired(t) PROVE LfTypes'
  <2>1. /\ Stored' = Stored \ chosen[t] /\ UNCHANGED <<on, uncounted, overlaps>>
        /\ chosen' = [chosen EXCEPT ![t] = {}] /\ \E a \in {"insert", "idle"} : at' = [at EXCEPT ![t] = a]
        /\ stats' = [stats EXCEPT !.evictions = @ + Cardinality(chosen[t] \cap Stored)]
    BY <1>6 DEF EvictLru, RemoveExpired, Evict, GoTo, Without, Stored
  <2>2. chosen[t] \cap Stored = Stored \ Stored' /\ Stored' \subseteq Stored
    BY <2>1
  <2>3. Cardinality(chosen[t] \cap Stored) \in Nat /\ IsFiniteSet(Stored')
    BY <2>2, Fewer DEF LfTypes
  <2> QED  BY <2>1, <2>3 DEF LfTypes
<1>7. ASSUME NEW t \in Threads, CheckRoom(t) \/ FindLru(t) \/ CollectExpired(t) PROVE LfTypes'
  <2>1. chosen' \in [Threads -> SUBSET (LfKeys \cup {NoLfKey})]
    BY <1>7 DEF CheckRoom, FindLru, CollectExpired, LfTypes
  <2>2. /\ Stored' = Stored /\ UNCHANGED <<on, uncounted, overlaps, stats>>
        /\ \E a \in {"scan", "insert", "evict", "expire"} : at' = [at EXCEPT ![t] = a]
    BY <1>7 DEF CheckRoom, FindLru, CollectExpired, GoTo, Stored
  <2> QED  BY <2>1, <2>2 DEF LfTypes
<1>8. ASSUME NEW t \in Threads, StoreEntry(t) PROVE LfTypes'
  <2>1. /\ Stored' = Stored \cup {on[t]} /\ UNCHANGED <<chosen, uncounted, overlaps>>
        /\ at' = [at EXCEPT ![t] = "idle"] /\ on' = [on EXCEPT ![t] = NoLfKey]
        /\ stats' \in [evictions : Nat, inserts : Nat]
    BY <1>8 DEF StoreEntry, GoTo, Stored, LfTypes
  <2>2. IsFiniteSet(Stored')
    BY <2>1, FS_AddElement DEF LfTypes
  <2> QED  BY <2>1, <2>2 DEF LfTypes
<1> QED
  BY <1>1, <1>2, <1>3, <1>4, <1>5, <1>6, <1>7, <1>8 DEF LfNext, LfStep

\* The cache outgrows its limit by at most one entry for each insert that
\* overlapped another, and its counters explain its size (insert, evict_lru,
\* evict_expired, remove, clear).
THEOREM CacheSizeExplained == LfSpec => [](SizeExplained /\ CountersExplainSize)
<1>1. ASSUME LfInit PROVE LfInv
  <2>1. Stored = {} /\ Inserting = {} /\ Inserting \ {} = {}
    BY <1>1 DEF LfInit, Stored, Inserting
  <2>2. IsFiniteSet({}) /\ Cardinality({}) = 0
    BY FS_EmptySet
  <2>3. LfTypes /\ CountersExplainSize
    BY <1>1, <2>1, <2>2 DEF LfInit, LfTypes, CountersExplainSize
  <2>4. RoomFor({})
    BY <1>1, <2>1, <2>2, LfAssumption DEF LfInit, RoomFor, Entered, Owed, Room
  <2> QED  BY <2>3, <2>4 DEF LfInv
<1>2. ASSUME LfInv, [LfNext]_lfVars PROVE LfInv'
  <2>1. LfTypes' /\ CountersExplainSize'
    BY <1>2, LfTypesStep, CountersStep DEF LfInv
  <2>2. \E P \in SUBSET Threads : RoomFor(P)'
    BY <1>2, RoomStep
  <2> QED  BY <2>1, <2>2 DEF LfInv
<1>3. ASSUME LfInv PROVE SizeExplained /\ CountersExplainSize
  <2>1. PICK P \in SUBSET Threads : RoomFor(P)
    BY <1>3 DEF LfInv
  <2>2. Entered \in Nat /\ Owed(P) \in Nat /\ Room \in Nat /\ overlaps \in Nat
    BY <1>3, LfCounts DEF LfInv, LfTypes
  <2>3. Entered <= Room + overlaps
    BY <2>1, <2>2 DEF RoomFor
  <2> QED  BY <1>3, <2>3 DEF LfInv, SizeExplained, Entered, Room
<1> QED  BY <1>1, <1>2, <1>3, PTL DEF LfSpec

-----------------------------------------------------------------------------
(* EngineCaches.                                                             *)

EngineTypes ==
  /\ now \in Nat /\ edits \in Nat
  /\ disk \in [WatchedFiles -> [content : Int, size : {Missing, Small, Large}, mtime : Nat]]
  /\ \A f \in WatchedFiles :
       disk[f].mtime <= now /\ (disk[f].size = Missing => disk[f].content = Gone)
  /\ changedFiles \in Seq(WatchedFiles) /\ left \in Seq(WatchedFiles)
  /\ stepAt # "idle" => hookAt \in EngineHooks
  /\ handedOut \in [WatchedFiles -> SUBSET Int]

Stamp(f) == [size |-> disk[f].size, sec |-> IF disk[f].size = Small THEN Sec(disk[f].mtime) ELSE 0]

\* What is kept of a file's content and stamp: unless the file is blurred, the
\* stamp is not from a later second than the file is, and the content is the
\* file's when the stamp is.
FitsFile(f, stamp, content) ==
  /\ stamp.size = Missing => content = Gone
  /\ stamp.size = Small => stamp.sec \in Int /\ stamp.sec <= Sec(disk[f].mtime)
  /\ stamp = Stamp(f) => content = disk[f].content

ResultsTrue ==
  \A r \in results :
    /\ DOMAIN r.hash = DOMAIN r.contents /\ DOMAIN r.contents \subseteq WatchedFiles
    /\ \A f \in DOMAIN r.contents : f \in blurred \/ FitsFile(f, r.hash[f], r.contents[f])

AnswerTrue ==
  /\ answer.from = "cache" => stepAt = "idle" /\ CachedResultFits
  /\ stepAt = "store" =>
       /\ DOMAIN answer.contents = Changed
       /\ \A f \in Changed : f \in blurred \/ answer.contents[f] = disk[f].content

\* A file the detector knows was handed out as it was then.
KnownTrue ==
  /\ IsFiniteSet(known) /\ Cardinality(known) <= CacheSize + 1
  /\ \A i \in known :
       /\ i.file \in WatchedFiles /\ handedOut[i.file] # {}
       /\ i.file \in blurred
          \/ /\ i.mtime \in Nat /\ i.mtime <= disk[i.file].mtime
             /\ i.mtime = disk[i.file].mtime => disk[i.file].content \in handedOut[i.file]

EngineInv == EngineTypes /\ ResultsTrue /\ AnswerTrue /\ KnownTrue /\ EnvironmentsFit

LEMMA SecGrows ==
  /\ \A a \in Nat : Sec(a) \in Nat
  /\ \A a, b \in Nat : a <= b => Sec(a) <= Sec(b)
  BY DEF Sec

\* A file is edited.
LEMMA EditKeeps ==
  ASSUME EngineInv, NEW f \in WatchedFiles, NEW size \in {Missing, Small, Large}, EditFile(f, size)
  PROVE  EngineInv'
<1>1. /\ edits' = edits + 1 /\ edits \in Nat
      /\ disk' = [disk EXCEPT ![f] =
           [content |-> IF size = Missing THEN Gone ELSE edits', size |-> size, mtime |-> now]]
      /\ UNCHANGED <<now, results, environments, known, handedOut, stepAt, hookAt, left, changedFiles>>
      /\ answer' = IF stepAt = "idle" THEN NoAnswer ELSE answer
  BY DEF EditFile, detectorVars, runVars, EngineInv, EngineTypes
<1>2. /\ blurred' = blurred \/ blurred' = blurred \cup {f}
      /\ f \notin blurred' => /\ Sec(disk[f].mtime) # Sec(now) /\ size # Large /\ stepAt = "idle"
                              /\ blurred' = blurred
  BY DEF EditFile
<1>3. /\ disk'[f].size = size /\ disk'[f].mtime = now /\ now \in Nat
      /\ disk'[f].content = IF size = Missing THEN Gone ELSE edits + 1
      /\ \A g \in WatchedFiles : g # f => disk'[g] = disk[g]
      /\ disk[f].mtime \in Nat /\ disk[f].mtime <= now
  BY <1>1 DEF EngineInv, EngineTypes
<1>4. f \notin blurred' => Sec(disk[f].mtime) < Sec(now) /\ disk[f].mtime < now
  <2>1. Sec(disk[f].mtime) \in Nat /\ Sec(now) \in Nat /\ Sec(disk[f].mtime) <= Sec(now)
    BY <1>3, SecGrows
  <2>2. disk[f].mtime = now => Sec(disk[f].mtime) = Sec(now)
    OBVIOUS
  <2> QED  BY <1>2, <1>3, <2>1, <2>2
<1>5. EngineTypes'
  BY <1>1, <1>3 DEF EngineInv, EngineTypes, Gone
<1>6. ASSUME NEW stamp, NEW content, NEW g \in WatchedFiles, g \in blurred \/ FitsFile(g, stamp, content)
      PROVE  g \in blurred' \/ FitsFile(g, stamp, content)'
  <2>1. CASE g # f
    <3>1. Stamp(g)' = Stamp(g)
      BY <1>3, <2>1 DEF Stamp
    <3> QED  BY <1>2, <1>3, <1>6, <2>1, <3>1 DEF FitsFile
  <2>2. CASE g = f /\ f \notin blurred'
    <3>1. FitsFile(f, stamp, content) /\ (size = Missing \/ size = Small)
      BY <1>2, <1>6, <2>2
    <3>2. Sec(disk[f].mtime) \in Nat /\ Sec(now) \in Nat
      BY <1>3, SecGrows
    <3>3. CASE size = Missing
      <4>1. Stamp(f)' = [size |-> Missing, sec |-> 0] /\ disk'[f].content = Gone
        BY <1>3, <3>3 DEF Stamp, Missing, Small
      <4>2. stamp = Stamp(f)' => stamp.size = Missing
        BY <4>1
      <4> QED  BY <1>3, <1>4, <2>2, <3>1, <3>2, <4>1, <4>2 DEF FitsFile
    <3>4. CASE size = Small
      <4>1. Stamp(f)' = [size |-> Small, sec |-> Sec(now)]
        BY <1>3, <3>4 DEF Stamp
      <4>2. stamp = Stamp(f)' => stamp.size = Small /\ stamp.sec = Sec(now)
        BY <4>1
      <4> QED  BY <1>3, <1>4, <2>2, <3>1, <3>2, <4>1, <4>2 DEF FitsFile
    <3> QED  BY <3>1, <3>3, <3>4
  <2> QED  BY <2>1, <2>2
<1>7. ResultsTrue'
  BY <1>1, <1>6 DEF EngineInv, ResultsTrue
<1>8. AnswerTrue'
  <2>1. CASE stepAt = "idle"
    BY <1>1, <2>1 DEF AnswerTrue, NoAnswer
  <2>2. CASE stepAt # "idle"
    <3>1. f \in blurred'
      BY <1>2, <2>2
    <3>2. answer' = answer /\ answer.from # "cache" /\ Changed' = Changed
      BY <1>1, <2>2 DEF EngineInv, AnswerTrue, Changed
    <3>3. Changed \subseteq WatchedFiles
      BY ElementOfSeq DEF Changed, EngineInv, EngineTypes
    <3> QED  BY <1>1, <1>2, <1>3, <3>1, <3>2, <3>3 DEF EngineInv, AnswerTrue
  <2> QED  BY <2>1, <2>2
<1>9. KnownTrue'
  <2>1. ASSUME NEW i \in known, i.file \notin blurred'
        PROVE  /\ i.mtime \in Nat /\ i.mtime <= disk'[i.file].mtime
               /\ i.mtime = disk'[i.file].mtime => disk'[i.file].content \in handedOut[i.file]
    <3>1. /\ i.file \in WatchedFiles /\ i.mtime \in Nat /\ i.mtime <= disk[i.file].mtime
          /\ i.mtime = disk[i.file].mtime => disk[i.file].content \in handedOut[i.file]
      BY <1>2, <2>1 DEF EngineInv, KnownTrue
    <3>2. CASE i.file = f
      BY <1>3, <1>4, <2>1, <3>1, <3>2
    <3>3. CASE i.file # f
      BY <1>3, <3>1, <3>3
    <3> QED  BY <3>2, <3>3
  <2> QED  BY <1>1, <2>1 DEF EngineInv, KnownTrue
<1>10. EnvironmentsFit'
  BY <1>1 DEF EngineInv, EnvironmentsFit
<1> QED  BY <1>5, <1>7, <1>8, <1>9, <1>10 DEF EngineInv

\* Steps that leave the disk and what is known of it alone.
LEMMA RestKeeps ==
  ASSUME EngineInv, UNCHANGED <<disk, edits, blurred, results, known, handedOut>>,
         EngineTypes', AnswerTrue', EnvironmentsFit'
  PROVE  EngineInv'
<1>1. ResultsTrue'
  BY DEF EngineInv, ResultsTrue, FitsFile, Stamp
<1>2. KnownTrue'
  BY DEF EngineInv, KnownTrue
<1> QED  BY <1>1, <1>2 DEF EngineInv

\* Time, the watcher, and the steps between two hooks.
LEMMA QuietKeeps ==
  ASSUME EngineInv,
         \/ PassTime \/ ClearChangedFiles \/ UNCHANGED engineVars
         \/ \E f \in WatchedFiles : WatcherEvent(f)
  PROVE  EngineInv'
<1>1. /\ UNCHANGED <<disk, edits, blurred, results, known, handedOut, environments, answer, stepAt,
                     hookAt, left, changedFiles>>
      /\ now' \in {now, now + 1}
  BY DEF PassTime, ClearChangedFiles, WatcherEvent, engineVars, worldVars, detectorVars, runVars
<1>2. EngineTypes'
  BY <1>1 DEF EngineInv, EngineTypes
<1>3. AnswerTrue' /\ EnvironmentsFit'
  BY <1>1 DEF EngineInv, AnswerTrue, CachedResultFits, Changed, EnvironmentsFit
<1> QED  BY <1>1, <1>2, <1>3, RestKeeps

LEMMA NoFiles == /\ <<>> \in Seq(WatchedFiles) /\ Watched \in Seq(WatchedFiles)
  BY EmptySeq, EngineAssumption

\* The steps of a hook that does not yet run.
LEMMA HookStepsKeep ==
  ASSUME EngineInv,
         \/ SkipHook \/ DetectDone \/ SetupFails \/ GetOrCreateEnvironment
         \/ \E h \in EngineHooks : RunHook(h)
  PROVE  EngineInv'
<1>1. /\ UNCHANGED <<disk, edits, blurred, results, known, handedOut, now>>
      /\ answer'.from # "cache" /\ stepAt' # "store"
  BY DEF SkipHook, DetectDone, SetupFails, GetOrCreateEnvironment, RunHook, EndHook, worldVars,
     detectorVars, NoAnswer, EngineInv, AnswerTrue
<1>2. /\ changedFiles' \in Seq(WatchedFiles) /\ left' \in Seq(WatchedFiles)
      /\ stepAt' # "idle" => hookAt' \in EngineHooks
  BY NoFiles DEF SkipHook, DetectDone, SetupFails, GetOrCreateEnvironment, RunHook, EndHook,
     EngineInv, EngineTypes
<1>3. EngineTypes' /\ AnswerTrue'
  BY <1>1, <1>2 DEF EngineInv, EngineTypes, AnswerTrue
<1>4. EnvironmentsFit'
  <2>1. CASE SkipHook \/ DetectDone \/ SetupFails \/ \E h \in EngineHooks : RunHook(h)
    <3>1. UNCHANGED environments /\ stepAt' # "execute"
      BY <2>1 DEF SkipHook, DetectDone, SetupFails, RunHook, EndHook
    <3> QED  BY <3>1 DEF EngineInv, EnvironmentsFit
  <2>2. CASE GetOrCreateEnvironment
    <3> DEFINE fitting == {e \in environments : e.needs = Needs[hookAt]}
               made_now == [needs |-> Needs[hookAt], repo |-> RepositoryOf[hookAt]]
    <3>1. /\ stepAt = "setup" /\ hookAt' = hookAt
          /\ \/ fitting # {} /\ UNCHANGED environments
             \/ \E kept \in SUBSET (environments \ fitting) : environments' = kept \cup {made_now}
      BY <2>2 DEF GetOrCreateEnvironment
    <3>2. CASE fitting # {} /\ UNCHANGED environments
      BY <3>1, <3>2 DEF EngineInv, EnvironmentsFit
    <3>3. ASSUME NEW kept \in SUBSET (environments \ fitting), environments' = kept \cup {made_now}
          PROVE  EnvironmentsFit'
      <4>1. hookAt \in EngineHooks
        BY <3>1 DEF EngineInv, EngineTypes
      <4>2. \A e \in kept : e \in environments /\ e.needs # Needs[hookAt]
        OBVIOUS
      <4>3. made_now.needs = Needs[hookAt] /\ made_now.repo = RepositoryOf[hookAt]
        OBVIOUS
      <4> HIDE DEF made_now, fitting
      <4>4. \A e \in environments' : \E h \in EngineHooks : e.needs = Needs[h] /\ e.repo = RepositoryOf[h]
        BY <3>3, <4>1, <4>2, <4>3 DEF EngineInv, EnvironmentsFit
      <4>5. \A d, e \in environments' : d.needs = e.needs => d = e
        BY <3>3, <4>2, <4>3 DEF EngineInv, EnvironmentsFit
      <4>6. \E e \in environments' : e.needs = Needs[hookAt']
        BY <3>1, <3>3, <4>3
      <4> QED  BY <4>4, <4>5, <4>6 DEF EnvironmentsFit
    <3> QED  BY <3>1, <3>2, <3>3
  <2> QED  BY <2>1, <2>2
<1> QED  BY <1>1, <1>3, <1>4, RestKeeps

\* What is found under the stamps the files have now fits their contents.
LEMMA CheckKeeps == ASSUME EngineInv, CheckCache PROVE EngineInv'
<1>1. /\ UNCHANGED <<disk, edits, blurred, results, known, handedOut, now, environments, changedFiles,
                     hookAt>>
      /\ stepAt = "check" /\ stepAt' \in {"idle", "setup"} /\ left' \in {left, <<>>}
  BY DEF CheckCache, EndHook, worldVars, detectorVars
<1>2. EngineTypes'
  BY <1>1, NoFiles DEF EngineInv, EngineTypes
<1>3. EnvironmentsFit'
  BY <1>1 DEF EngineInv, EnvironmentsFit
<1>4. CASE answer' = answer /\ stepAt' = "setup"
  <2>1. AnswerTrue'
    BY <1>1, <1>4 DEF EngineInv, AnswerTrue
  <2> QED  BY <1>1, <1>2, <1>3, <2>1, RestKeeps
<1>5. ASSUME NEW r \in results, r.hash = FilesHash(Changed), stepAt' = "idle",
             answer' = [from |-> "cache", contents |-> r.contents]
      PROVE  AnswerTrue'
  <2>1. DOMAIN r.contents = Changed /\ DOMAIN r.hash = Changed
    BY <1>5 DEF EngineInv, ResultsTrue, FilesHash
  <2>2. \A f \in Changed : r.hash[f] = Stamp(f)
    BY <1>5 DEF FilesHash, Stamp
  <2>3. \A f \in Changed : f \in blurred \/ r.contents[f] = disk[f].content
    BY <2>1, <2>2 DEF EngineInv, ResultsTrue, FitsFile
  <2>4. CachedResultFits'
    BY <1>1, <1>5, <2>1, <2>3 DEF CachedResultFits
  <2> QED  BY <1>5, <2>4 DEF AnswerTrue
<1>6. \/ answer' = answer /\ stepAt' = "setup"
      \/ \E r \in results : /\ r.hash = FilesHash(Changed) /\ stepAt' = "idle"
                            /\ answer' = [from |-> "cache", contents |-> r.contents]
  BY DEF CheckCache, EndHook
<1> QED  BY <1>1, <1>2, <1>3, <1>4, <1>5, <1>6, RestKeeps

\* The hook runs over the contents the files have now.
LEMMA ExecuteKeeps == ASSUME EngineInv, NEW ok \in BOOLEAN, Execute(ok) PROVE EngineInv'
<1>1. /\ UNCHANGED <<disk, edits, blurred, results, known, handedOut, now, environments, changedFiles,
                     hookAt>>
      /\ stepAt = "execute" /\ stepAt' \in {"idle", "store"} /\ left' \in {left, <<>>}
      /\ answer' = [from |-> "hook", contents |-> Contents]
  BY DEF Execute, EndHook, worldVars, detectorVars
<1>2. EngineTypes'
  BY <1>1, NoFiles DEF EngineInv, EngineTypes
<1>3. EnvironmentsFit'
  BY <1>1 DEF EngineInv, EnvironmentsFit
<1>4. AnswerTrue'
  BY <1>1 DEF AnswerTrue, Contents, Changed
<1> QED  BY <1>1, <1>2, <1>3, <1>4, RestKeeps

\* The result is stored under the stamps the files have by now.
LEMMA StoreKeeps == ASSUME EngineInv, StoreInCache PROVE EngineInv'
<1> DEFINE entry == [hook |-> hookAt, hash |-> FilesHash(Changed), at |-> now, contents |-> answer.contents]
<1>1. /\ UNCHANGED <<disk, edits, blurred, known, handedOut, now, environments, changedFiles, hookAt>>
      /\ stepAt = "store" /\ stepAt' = "idle" /\ left' = <<>> /\ answer'.from # "cache"
      /\ results' \subseteq results \cup {entry}
  BY DEF StoreInCache, EndHook, worldVars, detectorVars
<1>2. EngineTypes'
  BY <1>1, NoFiles DEF EngineInv, EngineTypes
<1>3. EnvironmentsFit'
  BY <1>1 DEF EngineInv, EnvironmentsFit
<1>4. AnswerTrue'
  BY <1>1 DEF AnswerTrue
<1>5. /\ DOMAIN entry.hash = Changed /\ DOMAIN entry.contents = Changed /\ Changed \subseteq WatchedFiles
      /\ \A f \in Changed : entry.hash[f] = Stamp(f)
      /\ \A f \in Changed : f \in blurred \/ entry.contents[f] = disk[f].content
  <2>1. Changed \subseteq WatchedFiles
    BY ElementOfSeq DEF Changed, EngineInv, EngineTypes
  <2> QED  BY <1>1, <2>1 DEF EngineInv, AnswerTrue, FilesHash, Stamp
<1>6. \A f \in Changed : f \in blurred \/ FitsFile(f, entry.hash[f], entry.contents[f])
  <2> HIDE DEF entry
  <2>1. ASSUME NEW f \in Changed, entry.contents[f] = disk[f].content
        PROVE  FitsFile(f, entry.hash[f], entry.contents[f])
    <3>1. f \in WatchedFiles /\ entry.hash[f] = Stamp(f)
      BY <1>5
    <3>2. /\ disk[f].size = Missing => disk[f].content = Gone
          /\ disk[f].mtime \in Nat
      BY <3>1 DEF EngineInv, EngineTypes
    <3>3. Sec(disk[f].mtime) \in Nat
      BY <3>2, SecGrows
    <3>4. Stamp(f).size = disk[f].size /\ Stamp(f).size = Small => Stamp(f).sec = Sec(disk[f].mtime)
      BY DEF Stamp
    <3>5. Stamp(f).size = disk[f].size
      BY DEF Stamp
    <3> QED  BY <2>1, <3>1, <3>2, <3>3, <3>4, <3>5 DEF FitsFile
  <2> QED  BY <1>5, <2>1
<1>7. ASSUME NEW r \in results'
      PROVE  /\ DOMAIN r.hash = DOMAIN r.contents /\ DOMAIN r.contents \subseteq WatchedFiles
             /\ \A f \in DOMAIN r.contents : f \in blurred \/ FitsFile(f, r.hash[f], r.contents[f])
  <2>1. CASE r = entry
    <3> HIDE DEF entry
    <3> QED  BY <1>5, <1>6, <2>1
  <2>2. CASE r \in results
    BY <2>2 DEF EngineInv, ResultsTrue
  <2> QED  BY <1>1, <2>1, <2>2
<1>8. \A f, s, v : FitsFile(f, s, v)' <=> FitsFile(f, s, v)
  BY <1>1 DEF FitsFile, Stamp
<1>9. ResultsTrue'
  BY <1>1, <1>7, <1>8 DEF ResultsTrue
<1>10. KnownTrue'
  BY <1>1 DEF EngineInv, KnownTrue
<1> QED  BY <1>2, <1>3, <1>4, <1>9, <1>10 DEF EngineInv

\* evict_old_entries leaves at most cache_size of the entries.
LEMMA EvictionBounds ==
  ASSUME NEW K, IsFiniteSet(K), NEW R \in EvictOldEntries(K)
  PROVE  R \subseteq K /\ IsFiniteSet(R) /\ Cardinality(R) <= CacheSize
<1> DEFINE fresh == {i \in K : i.at > now - Ttl}
           excess == Cardinality(fresh) - CacheSize
<1>1. CASE Cardinality(K) <= CacheSize
  BY <1>1 DEF EvictOldEntries
<1>2. CASE ~(Cardinality(K) <= CacheSize)
  <2>1. fresh \in SUBSET K
    OBVIOUS
  <2>2. IsFiniteSet(fresh) /\ Cardinality(fresh) \in Nat
    BY <2>1, FS_Subset, FS_CardinalityType
  <2>3. CASE excess <= 0
    <3>1. R = fresh
      BY <1>2, <2>3 DEF EvictOldEntries
    <3> HIDE DEF fresh
    <3> QED  BY <2>1, <2>2, <2>3, <3>1, EngineAssumption
  <2>4. CASE ~(excess <= 0)
    <3>1. \E O \in SUBSET fresh : R = fresh \ O /\ Cardinality(O) = excess
      BY <1>2, <2>4 DEF EvictOldEntries
    <3> HIDE DEF fresh
    <3>2. PICK O \in SUBSET fresh : R = fresh \ O /\ Cardinality(O) = excess
      BY <3>1
    <3>3. /\ IsFiniteSet(fresh \ O) /\ fresh \cap O = O
          /\ Cardinality(fresh \ O) = Cardinality(fresh) - Cardinality(fresh \cap O)
      BY <2>2, FS_Difference
    <3>4. Cardinality(R) = Cardinality(fresh) - excess
      BY <3>2, <3>3
    <3> QED  BY <2>1, <2>2, <3>2, <3>3, <3>4, EngineAssumption
  <2> QED  BY <2>3, <2>4
<1> QED  BY <1>1, <1>2

\* The detector remembers a file as it is now, in a cache that has room for it.
LEMMA UpdateBounds ==
  ASSUME EngineInv, NEW f \in WatchedFiles, UpdateFileCache(f)
  PROVE  /\ known' \subseteq known \cup {CachedFileInfo(f)}
         /\ IsFiniteSet(known') /\ Cardinality(known') <= CacheSize + 1
<1>1. IsFiniteSet(known) /\ Cardinality(known) \in Nat
  BY FS_CardinalityType DEF EngineInv, KnownTrue
<1>2. PICK K \in (IF Cardinality(known) >= CacheSize THEN EvictOldEntries(known) ELSE {known}) :
        known' = {i \in K : i.file # f} \cup {CachedFileInfo(f)}
  BY DEF UpdateFileCache
<1>3. K \subseteq known /\ IsFiniteSet(K) /\ Cardinality(K) <= CacheSize
  BY <1>1, <1>2, EvictionBounds, EngineAssumption
<1> DEFINE others == {i \in K : i.file # f}
<1>4. others \in SUBSET K
  OBVIOUS
<1>5. IsFiniteSet(others) /\ Cardinality(others) <= Cardinality(K)
  BY <1>3, <1>4, FS_Subset
<1>6. Cardinality(others) \in Nat /\ Cardinality(K) \in Nat
  BY <1>3, <1>5, FS_CardinalityType
<1>7. known' = others \cup {CachedFileInfo(f)}
  BY <1>2
<1> HIDE DEF others
<1>8. /\ IsFiniteSet(known')
      /\ Cardinality(known') = IF CachedFileInfo(f) \in others THEN Cardinality(others)
                               ELSE Cardinality(others) + 1
  BY <1>5, <1>7, FS_AddElement
<1> QED  BY <1>3, <1>4, <1>5, <1>6, <1>7, <1>8, EngineAssumption

\* The detector is asked about a file.
LEMMA DetectKeeps == ASSUME EngineInv, DetectFile PROVE EngineInv'
<1> DEFINE f == Head(left)
<1>1. /\ stepAt = "detect" /\ left # <<>> /\ left' = Tail(left) /\ HasFileChanged(f)
      /\ UNCHANGED <<now, disk, edits, blurred, results, environments, stepAt, hookAt, answer>>
      /\ handedOut' = IF changedFiles' = changedFiles THEN handedOut
                      ELSE [handedOut EXCEPT ![f] = @ \cup {disk[f].content}]
  BY DEF DetectFile, worldVars
<1>2. f \in WatchedFiles /\ left' \in Seq(WatchedFiles)
  BY <1>1, HeadTailProperties DEF EngineInv, EngineTypes
<1> HIDE DEF f
<1>3. CASE UNCHANGED <<known, changedFiles>>
  <2>1. handedOut' = handedOut
    BY <1>1, <1>3
  <2>2. EngineTypes' /\ AnswerTrue' /\ EnvironmentsFit'
    BY <1>1, <1>2, <1>3, <2>1 DEF EngineInv, EngineTypes, AnswerTrue, CachedResultFits, EnvironmentsFit
  <2> QED  BY <1>1, <1>3, <2>1, <2>2, RestKeeps
<1>4. CASE changedFiles' = Append(changedFiles, f)
  <2>1. /\ changedFiles' \in Seq(WatchedFiles) /\ changedFiles' # changedFiles
    <3>1. changedFiles \in Seq(WatchedFiles) /\ Len(changedFiles) \in Nat
      BY LenProperties DEF EngineInv, EngineTypes
    <3>2. Append(changedFiles, f) \in Seq(WatchedFiles)
          /\ Len(Append(changedFiles, f)) = Len(changedFiles) + 1
      BY <1>2, <3>1, AppendProperties
    <3> QED  BY <1>4, <3>1, <3>2
  <2>2. /\ handedOut' = [handedOut EXCEPT ![f] = @ \cup {disk[f].content}]
        /\ disk[f].content \in Int /\ disk[f].mtime \in Nat
    BY <1>1, <1>2, <2>1 DEF EngineInv, EngineTypes
  <2>3. /\ handedOut' \in [WatchedFiles -> SUBSET Int] /\ disk[f].content \in handedOut'[f]
        /\ \A g \in WatchedFiles : handedOut[g] \subseteq handedOut'[g]
    BY <1>2, <2>2 DEF EngineInv, EngineTypes
  <2>4. EngineTypes' /\ AnswerTrue' /\ EnvironmentsFit'
    BY <1>1, <1>2, <2>1, <2>3 DEF EngineInv, EngineTypes, AnswerTrue, CachedResultFits, EnvironmentsFit
  <2>5. ResultsTrue'
    BY <1>1 DEF EngineInv, ResultsTrue, FitsFile, Stamp
  <2>6. /\ known' \subseteq known \cup {CachedFileInfo(f)}
        /\ IsFiniteSet(known') /\ Cardinality(known') <= CacheSize + 1
    <3>1. CASE UNCHANGED known
      BY <3>1 DEF EngineInv, KnownTrue
    <3>2. CASE UpdateFileCache(f)
      BY <1>2, <3>2, UpdateBounds
    <3> QED  BY <1>1, <3>1, <3>2 DEF HasFileChanged
  <2>7. ASSUME NEW i \in known'
        PROVE  /\ i.file \in WatchedFiles /\ handedOut'[i.file] # {}
               /\ i.file \in blurred
                  \/ /\ i.mtime \in Nat /\ i.mtime <= disk[i.file].mtime
                     /\ i.mtime = disk[i.file].mtime => disk[i.file].content \in handedOut'[i.file]
    <3>1. CASE i = CachedFileInfo(f)
      <4>1. i.file = f /\ i.mtime = disk[f].mtime
        BY <3>1 DEF CachedFileInfo
      <4> QED  BY <1>2, <2>2, <2>3, <4>1
    <3>2. CASE i \in known
      BY <2>3, <3>2 DEF EngineInv, KnownTrue
    <3> QED  BY <2>6, <3>1, <3>2
  <2>8. KnownTrue'
    BY <1>1, <2>6, <2>7 DEF KnownTrue
  <2> QED  BY <2>4, <2>5, <2>8 DEF EngineInv
<1> QED  BY <1>1, <1>3, <1>4 DEF HasFileChanged

LEMMA EngineStepKeeps == ASSUME EngineInv, [EngineNext]_engineVars PROVE EngineInv'
  BY EditKeeps, QuietKeeps, HookStepsKeep, CheckKeeps, ExecuteKeeps, StoreKeeps, DetectKeeps
     DEF EngineNext, EngineStep

LEMMA EngineBegin == ASSUME EngineInit PROVE EngineInv
<1>1. EngineTypes
  BY NoFiles DEF EngineInit, EngineTypes, Missing, Small, Large
<1>2. ResultsTrue /\ EnvironmentsFit
  BY DEF EngineInit, ResultsTrue, EnvironmentsFit
<1>3. AnswerTrue
  BY DEF EngineInit, AnswerTrue, NoAnswer
<1>4. KnownTrue
  BY FS_EmptySet, EngineAssumption DEF EngineInit, KnownTrue
<1> QED  BY <1>1, <1>2, <1>3, <1>4 DEF EngineInv

LEMMA EngineInvShows == EngineInv => CachedResultFits /\ DetectorFits /\ EnvironmentsFit
<1> HAVE EngineInv
<1>1. CachedResultFits
  BY DEF EngineInv, AnswerTrue, CachedResultFits
<1>2. DetectorFits
  BY DEF EngineInv, KnownTrue, DetectorFits, SameAsKnown
<1> QED  BY <1>1, <1>2 DEF EngineInv

\* A result from the cache is that of a run over the present contents, the
\* detector has handed out what it knows, and environments serve hooks of their
\* language and dependencies, up to the exceptions these properties name
\* (generate_files_hash, store_in_cache, has_file_changed, evict_old_entries,
\* get_or_create_environment).
THEOREM EngineCachesFit ==
  EngineSpec => [](CachedResultFits /\ DetectorFits /\ EnvironmentsFit)
  BY EngineBegin, EngineStepKeeps, EngineInvShows, PTL DEF EngineSpec

-----------------------------------------------------------------------------
(* All of them beside each other, as the model checker runs them.            *)

LEMMA SharedIsEach ==
  SharedSpec => SchedSpec /\ LfSpec /\ NegSpec /\ EngineSpec /\ ManagerSpec /\ Spec
<1>1. SharedInit => SchedInit /\ LfInit /\ NegInit /\ EngineInit /\ ManagerInit /\ Init
  BY DEF SharedInit, RestingNegative, RestingEngine
<1>2. [SharedNext]_sharedVars => /\ [SchedNext]_schedVars /\ [LfNext]_lfVars /\ [NegNext]_negVars
                                 /\ [EngineNext]_engineVars /\ [ManagerNext]_managerVars
                                 /\ [Next]_vars
  BY DEF SharedNext, sharedVars
<1> QED  BY <1>1, <1>2, PTL DEF SharedSpec, SchedSpec, LfSpec, NegSpec, EngineSpec, ManagerSpec, Spec

\* Every answer of a cache is explained, and every cache keeps to the size its
\* counters explain (lock_free_cache.rs, negative_cache.rs, execution.rs,
\* file_change_detector.rs).
THEOREM AnswersExplained == SharedSpec => []CachesExplained
<1>1. SizeExplained /\ CountersExplainSize /\ NegativesExplained
        /\ CachedResultFits /\ DetectorFits /\ EnvironmentsFit => CachesExplained
  BY DEF CachesExplained
<1> QED
  BY <1>1, SharedIsEach, CacheSizeExplained, NegativesAreExplained, EngineCachesFit, PTL

=============================================================================
