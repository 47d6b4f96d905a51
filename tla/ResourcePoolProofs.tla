------------------------- MODULE ResourcePoolProofs -------------------------
(***************************************************************************)
(* Theorems about ResourcePool, for every set of clients, every pool size  *)
(* and any number of resources.                                            *)
(***************************************************************************)
EXTENDS ResourcePool, SequenceTheorems, FiniteSetTheorems, TLAPS

\* maintain_pool has a resource in hand exactly between taking or creating it
\* and counting it.
MaintHand == mpc \in {"dec", "push"} <=> mres # NoResource

TypeInv == TypeOK /\ MaintHand

-----------------------------------------------------------------------------
\* Every step of the pool keeps the types and maintain_pool's local variable.
LEMMA TypeStep == ASSUME TypeInv, [Next]_vars PROVE TypeInv'
<1> USE PoolAssumption
<1>1. CASE UNCHANGED vars
  BY <1>1 DEF TypeInv, TypeOK, MaintHand, vars, sharedVars, clientVars, maintVars, history
<1>2. CASE \E c \in Clients : Acquire(c) \/ DropGuard(c)
  <2> PICK c \in Clients : Acquire(c) \/ DropGuard(c)  BY <1>2
  <2>1. CASE TakeHealthy(c)
    BY <2>1, HeadTailProperties DEF TypeInv, TypeOK, MaintHand, TakeHealthy, maintVars, history
  <2>2. CASE DiscardUnhealthy(c)
    BY <2>2, HeadTailProperties DEF TypeInv, TypeOK, MaintHand, DiscardUnhealthy, clientVars,
       maintVars, SaturatingDec
  <2>3. ASSUME NEW r \in Resources, CreateOk(c, r) PROVE TypeInv'
    BY <2>3 DEF TypeInv, TypeOK, MaintHand, CreateOk, sharedVars, maintVars
  <2>4. CASE DropGuard(c)
    BY <2>4 DEF TypeInv, TypeOK, MaintHand, DropGuard, sharedVars, maintVars, history
  <2>5. CASE AcquireStart(c) \/ AcquirePermit(c) \/ AcquireTimeout(c) \/ LockAvailable(c)
             \/ ScanEmpty(c) \/ CreateFails(c) \/ CountCreated(c)
    BY <2>5 DEF TypeInv, TypeOK, MaintHand, AcquireStart, AcquirePermit, AcquireTimeout,
       LockAvailable, ScanEmpty, CreateFails, CountCreated, sharedVars, maintVars, history
  <2> QED  BY <2>1, <2>2, <2>3, <2>4, <2>5 DEF Acquire
<1>3. CASE \E r \in Resources : Return(r)
  <2> PICK r \in Resources : Return(r)  BY <1>3
  <2>1. CASE ReturnPush(r)
    BY <2>1, AppendProperties DEF TypeInv, TypeOK, MaintHand, ReturnPush, clientVars,
       maintVars, history
  <2>2. CASE ReturnRefused(r) \/ ReturnCheck(r) \/ ResetOk(r) \/ ResetFails(r)
    BY <2>2 DEF TypeInv, TypeOK, MaintHand, ReturnRefused, ReturnCheck, ResetOk, ResetFails,
       SaturatingDec, sharedVars, clientVars, maintVars, history
  <2> QED  BY <2>1, <2>2 DEF Return
<1>4. CASE Maintain
  <2>1. ASSUME NEW i \in 1..Len(available), MaintDropIdle(i) PROVE TypeInv'
    <3>1. /\ SubSeq(available, 1, i - 1) \in Seq(Resources)
          /\ SubSeq(available, i + 1, Len(available)) \in Seq(Resources)
          /\ available[i] \in Resources
      BY LenProperties, ElementOfSeq, SubSeqProperties DEF TypeInv, TypeOK
    <3> QED
      BY <2>1, <3>1, ConcatProperties DEF TypeInv, TypeOK, MaintHand, MaintDropIdle, clientVars
  <2>2. CASE MaintPutBack
    BY <2>2, ConcatProperties, EmptySeq DEF TypeInv, TypeOK, MaintHand, MaintPutBack,
       clientVars, history
  <2>3. ASSUME NEW r \in Resources, MaintCreateOk(r) PROVE TypeInv'
    BY <2>3 DEF TypeInv, TypeOK, MaintHand, MaintCreateOk, sharedVars, clientVars
  <2>4. CASE MaintPush
    BY <2>4, AppendProperties DEF TypeInv, TypeOK, MaintHand, MaintPush, clientVars, history
  <2>5. CASE MaintStart \/ MaintDec \/ MaintReadSize \/ MaintCreateFails \/ MaintDone
    BY <2>5 DEF TypeInv, TypeOK, MaintHand, MaintStart, MaintDec, MaintReadSize,
       MaintCreateFails, MaintDone, SaturatingDec, sharedVars, clientVars, history
  <2> QED  BY <1>4, <2>1, <2>2, <2>3, <2>4, <2>5 DEF Maintain
<1>5. CASE ShutdownFlag
  BY <1>5 DEF TypeInv, TypeOK, MaintHand, ShutdownFlag, clientVars, maintVars, history
<1>6. CASE ShutdownDrain
  BY <1>6, EmptySeq, LenProperties, ElementOfSeq DEF TypeInv, TypeOK, MaintHand,
     ShutdownDrain, clientVars, maintVars
<1> QED  BY <1>1, <1>2, <1>3, <1>4, <1>5, <1>6 DEF Next

LEMMA TypeInit == ASSUME Init PROVE TypeInv
<1>1. shutdown \in BOOLEAN /\ MaintHand  BY DEF Init, MaintHand
<1>2. available \in Seq(Resources) /\ toKeep \in Seq(Resources)  BY DEF Init
<1>3. permits \in Nat /\ needed \in 0..MinSize  BY PoolAssumption DEF Init
<1>4. /\ pc \in [Clients -> {"idle", "permit", "lock", "scan", "create", "count", "using"}]
      /\ res \in [Clients -> Resources \cup {NoResource}]
      /\ ret \in [Resources -> {"none", "check", "reset", "push"}]
  BY DEF Init
<1> QED  BY <1>1, <1>2, <1>3, <1>4 DEF Init, TypeInv, TypeOK

\* TypeOK is an invariant of the pool.
THEOREM TypeCorrect == Spec => []TypeOK
<1>1. TypeInv => TypeOK
  BY DEF TypeInv
<1> QED  BY <1>1, TypeInit, TypeStep, PTL DEF Spec

-----------------------------------------------------------------------------
(* Sequences without repetition: what the queue operations do to the set of  *)
(* their elements.                                                           *)

ElementsOf(s) == {s[i] : i \in 1..Len(s)}

\* pop_front takes one element out.
LEMMA PopElements ==
  ASSUME NEW S, NEW s \in Seq(S), s # <<>>, Injective(s)
  PROVE  /\ Head(s) \in ElementsOf(s)
         /\ ElementsOf(Tail(s)) = ElementsOf(s) \ {Head(s)}
         /\ Injective(Tail(s))
<1>1. /\ Len(s) \in Nat \ {0} /\ Head(s) = s[1]
      /\ Len(Tail(s)) = Len(s) - 1
      /\ \A i \in 1..Len(Tail(s)) : Tail(s)[i] = s[i + 1]
  BY EmptySeq, HeadTailProperties
<1>2. Head(s) \in ElementsOf(s)
  BY <1>1 DEF ElementsOf
<1>3. ASSUME NEW x \in ElementsOf(Tail(s)) PROVE x \in ElementsOf(s) \ {Head(s)}
  BY <1>1 DEF ElementsOf, Injective
<1>4. ASSUME NEW x \in ElementsOf(s) \ {Head(s)} PROVE x \in ElementsOf(Tail(s))
  <2>1. PICK i \in 1..Len(s) : x = s[i]  BY DEF ElementsOf
  <2>2. i - 1 \in 1..Len(Tail(s)) /\ Tail(s)[i - 1] = x  BY <1>1, <2>1
  <2> QED  BY <2>2 DEF ElementsOf
<1>5. Injective(Tail(s))
  BY <1>1 DEF Injective
<1> QED  BY <1>2, <1>3, <1>4, <1>5

\* push_back adds one.
LEMMA PushElements ==
  ASSUME NEW S, NEW s \in Seq(S), NEW x \in S
  PROVE  /\ ElementsOf(Append(s, x)) = ElementsOf(s) \cup {x}
         /\ Injective(s) /\ x \notin ElementsOf(s) => Injective(Append(s, x))
<1>1. /\ Len(s) \in Nat /\ Len(Append(s, x)) = Len(s) + 1
      /\ \A i \in 1..Len(s) : Append(s, x)[i] = s[i]
      /\ Append(s, x)[Len(s) + 1] = x
  BY AppendProperties, LenProperties
<1>2. ASSUME NEW y \in ElementsOf(s) \cup {x} PROVE y \in ElementsOf(Append(s, x))
  <2>1. CASE y = x
    BY <1>1, <2>1 DEF ElementsOf
  <2>2. CASE y \in ElementsOf(s)
    <3>1. PICK i \in 1..Len(s) : y = s[i]  BY <2>2 DEF ElementsOf
    <3> QED  BY <1>1, <3>1 DEF ElementsOf
  <2> QED  BY <2>1, <2>2
<1>3. ASSUME NEW y \in ElementsOf(Append(s, x)) PROVE y \in ElementsOf(s) \cup {x}
  BY <1>1 DEF ElementsOf
<1>4. ASSUME Injective(s), x \notin ElementsOf(s) PROVE Injective(Append(s, x))
  BY <1>1, <1>4 DEF Injective, ElementsOf
<1> QED  BY <1>2, <1>3, <1>4

\* Joining two queues joins their elements.
LEMMA JoinElements ==
  ASSUME NEW S, NEW s \in Seq(S), NEW t \in Seq(S)
  PROVE  /\ ElementsOf(s \o t) = ElementsOf(s) \cup ElementsOf(t)
         /\ Injective(s) /\ Injective(t) /\ ElementsOf(s) \cap ElementsOf(t) = {}
              => Injective(s \o t)
<1>1. /\ Len(s) \in Nat /\ Len(t) \in Nat /\ Len(s \o t) = Len(s) + Len(t)
      /\ \A i \in 1..Len(s) + Len(t) :
            (s \o t)[i] = IF i <= Len(s) THEN s[i] ELSE t[i - Len(s)]
  BY ConcatProperties, LenProperties
<1>2. ASSUME NEW y \in ElementsOf(s) PROVE y \in ElementsOf(s \o t)
  <2>1. PICK i \in 1..Len(s) : y = s[i]  BY DEF ElementsOf
  <2>2. i \in 1..Len(s \o t) /\ (s \o t)[i] = y  BY <1>1, <2>1
  <2> QED  BY <2>2 DEF ElementsOf
<1>3. ASSUME NEW y \in ElementsOf(t) PROVE y \in ElementsOf(s \o t)
  <2>1. PICK i \in 1..Len(t) : y = t[i]  BY DEF ElementsOf
  <2>2. i + Len(s) \in 1..Len(s \o t) /\ (s \o t)[i + Len(s)] = y  BY <1>1, <2>1
  <2> QED  BY <2>2 DEF ElementsOf
<1>4. ASSUME NEW i \in 1..Len(s \o t)
      PROVE  \/ i \in 1..Len(s) /\ (s \o t)[i] = s[i] /\ s[i] \in ElementsOf(s)
             \/ /\ i - Len(s) \in 1..Len(t) /\ (s \o t)[i] = t[i - Len(s)]
                /\ t[i - Len(s)] \in ElementsOf(t)
  BY <1>1 DEF ElementsOf
<1>5. ElementsOf(s \o t) \subseteq ElementsOf(s) \cup ElementsOf(t)
  BY <1>4 DEF ElementsOf
<1>6. ASSUME Injective(s), Injective(t), ElementsOf(s) \cap ElementsOf(t) = {},
             NEW i \in 1..Len(s \o t), NEW j \in 1..Len(s \o t), (s \o t)[i] = (s \o t)[j]
      PROVE  i = j
  BY <1>1, <1>4, <1>6, SMTT(40) DEF Injective
<1> QED  BY <1>2, <1>3, <1>5, <1>6 DEF Injective

\* Taking the i-th entry of a queue divides the others into those before and after.
LEMMA SplitElements ==
  ASSUME NEW S, NEW s \in Seq(S), Injective(s), NEW i \in 1..Len(s)
  PROVE  LET before == SubSeq(s, 1, i - 1)
             after == SubSeq(s, i + 1, Len(s))
         IN  /\ before \in Seq(S) /\ after \in Seq(S)
             /\ Injective(before) /\ Injective(after)
             /\ ElementsOf(before) \cap ElementsOf(after) = {}
             /\ ElementsOf(before) \cup ElementsOf(after) = ElementsOf(s) \ {s[i]}
             /\ s[i] \in ElementsOf(s)
<1> DEFINE before == SubSeq(s, 1, i - 1)
           after == SubSeq(s, i + 1, Len(s))
<1>1. Len(s) \in Nat /\ \A j \in 1..Len(s) : s[j] \in S
  BY LenProperties, ElementOfSeq
<1>2. /\ before \in Seq(S) /\ Len(before) = i - 1
      /\ \A j \in 1..i - 1 : before[j] = s[j]
  BY <1>1, SubSeqProperties
<1>3. /\ after \in Seq(S) /\ Len(after) = Len(s) - i
      /\ \A j \in 1..Len(s) - i : after[j] = s[i + j]
  BY <1>1, SubSeqProperties
<1> HIDE DEF before, after
<1>4. Injective(before) /\ Injective(after)
  <2>1. ASSUME NEW j \in 1..Len(before), NEW k \in 1..Len(before), before[j] = before[k]
        PROVE  j = k
    <3>1. j \in 1..Len(s) /\ k \in 1..Len(s) /\ s[j] = s[k]  BY <1>1, <1>2, <2>1
    <3> QED  BY <3>1 DEF Injective
  <2>2. ASSUME NEW j \in 1..Len(after), NEW k \in 1..Len(after), after[j] = after[k]
        PROVE  j = k
    <3>1. i + j \in 1..Len(s) /\ i + k \in 1..Len(s) /\ s[i + j] = s[i + k]
      BY <1>1, <1>3, <2>2
    <3>2. i + j = i + k  BY <3>1 DEF Injective
    <3> QED  BY <1>3, <3>2
  <2> QED  BY <2>1, <2>2 DEF Injective
<1>5. ElementsOf(before) \cap ElementsOf(after) = {}
  <2> SUFFICES ASSUME NEW j \in 1..Len(before), NEW k \in 1..Len(after), before[j] = after[k]
               PROVE  FALSE
    BY DEF ElementsOf
  <2>1. j \in 1..Len(s) /\ i + k \in 1..Len(s) /\ s[j] = s[i + k]  BY <1>1, <1>2, <1>3
  <2>2. j = i + k  BY <2>1 DEF Injective
  <2> QED  BY <1>2, <1>3, <2>2
<1>6. ElementsOf(before) \cup ElementsOf(after) \subseteq ElementsOf(s) \ {s[i]}
  BY <1>1, <1>2, <1>3 DEF Injective, ElementsOf
<1>7. ASSUME NEW x \in ElementsOf(s) \ {s[i]}
      PROVE  x \in ElementsOf(before) \cup ElementsOf(after)
  <2>1. PICK j \in 1..Len(s) : x = s[j]  BY DEF ElementsOf
  <2>2. CASE j < i
    <3>1. j \in 1..Len(before) /\ before[j] = x  BY <1>1, <1>2, <2>1, <2>2
    <3> QED  BY <3>1 DEF ElementsOf
  <2>3. CASE i < j
    <3>1. j - i \in 1..Len(after) /\ after[j - i] = x  BY <1>1, <1>3, <2>1, <2>3
    <3> QED  BY <3>1 DEF ElementsOf
  <2> QED  BY <1>1, <2>1, <2>2, <2>3
<1>8. s[i] \in ElementsOf(s)
  BY DEF ElementsOf
<1> QED  BY <1>2, <1>3, <1>4, <1>5, <1>6, <1>7, <1>8 DEF before, after

-----------------------------------------------------------------------------
(* Who has a resource                                                        *)

\* A client has a resource in hand exactly while it counts or uses it.
HandsAgree == \A c \in Clients : res[c] # NoResource <=> pc[c] \in {"count", "using"}

\* The inductive invariant of ownership: where a resource can be is told by the
\* control state, nothing is in two places, and what is alive is somewhere.
OwnInv ==
  /\ TypeInv /\ HandsAgree
  /\ ExclusiveOwnership /\ NoUseAfterCleanup /\ NoResourceLost
  /\ cleaned \subseteq created

\* The steps that move a resource within the pool's parts use these facts about
\* the five sets a resource can be in.
LEMMA QueueSets ==
  /\ Queued = ElementsOf(available) /\ Queued' = ElementsOf(available')
  /\ Kept = ElementsOf(toKeep) /\ Kept' = ElementsOf(toKeep')
  BY DEF Queued, Kept, ElementsOf

\* A client takes x.
LEMMA HandTakes ==
  ASSUME OwnInv, NEW c \in Clients, NEW x \in Resources, res[c] = NoResource,
         res' = [res EXCEPT ![c] = x]
  PROVE  /\ InHand' = InHand \cup {x}
         /\ x \notin InHand => \A a, b \in Clients : res'[a] = res'[b] /\ res'[a] # NoResource => a = b
<1> USE PoolAssumption DEF OwnInv, TypeInv, TypeOK, ExclusiveOwnership
<1>1. \A d \in Clients : res'[d] = IF d = c THEN x ELSE res[d]
  OBVIOUS
<1>2. InHand' = InHand \cup {x}
  BY <1>1 DEF InHand
<1>3. ASSUME x \notin InHand, NEW a \in Clients, NEW b \in Clients, res'[a] = res'[b],
             res'[a] # NoResource
      PROVE  a = b
  BY <1>1, <1>3 DEF InHand
<1> QED  BY <1>2, <1>3

\* A client lets go of what it has.
LEMMA HandGives ==
  ASSUME OwnInv, NEW c \in Clients, res[c] # NoResource,
         res' = [res EXCEPT ![c] = NoResource]
  PROVE  /\ res[c] \in Resources /\ res[c] \in InHand
         /\ InHand' = InHand \ {res[c]}
         /\ \A a, b \in Clients : res'[a] = res'[b] /\ res'[a] # NoResource => a = b
<1> USE PoolAssumption DEF OwnInv, TypeInv, TypeOK, ExclusiveOwnership
<1>1. \A d \in Clients : res'[d] = IF d = c THEN NoResource ELSE res[d]
  OBVIOUS
<1>2. InHand' = InHand \ {res[c]}
  BY <1>1 DEF InHand
<1>3. ASSUME NEW a \in Clients, NEW b \in Clients, res'[a] = res'[b], res'[a] # NoResource
      PROVE  a = b
  BY <1>1, <1>3
<1>4. res[c] \in Resources /\ res[c] \in InHand
  BY DEF InHand
<1> QED  BY <1>2, <1>3, <1>4

\* What the steps of acquire and the drop of a guard do to ownership.
LEMMA OwnClientStep ==
  ASSUME OwnInv, TypeInv', NEW c \in Clients, Acquire(c) \/ DropGuard(c)
  PROVE  OwnInv'
<1> USE PoolAssumption DEF OwnInv, TypeInv, TypeOK
<1>1. CASE TakeHealthy(c)
  <2>1. res[c] = NoResource /\ Head(available) \in Resources
    BY <1>1, HeadTailProperties DEF TakeHealthy, HandsAgree
  <2>2. /\ Head(available) \in Queued /\ Queued' = Queued \ {Head(available)}
        /\ Injective(available')
    BY <1>1, PopElements, QueueSets DEF TakeHealthy, ExclusiveOwnership
  <2>3. Head(available) \notin InHand
    BY <2>2 DEF ExclusiveOwnership
  <2>4. /\ InHand' = InHand \cup {Head(available)}
        /\ \A a, b \in Clients : res'[a] = res'[b] /\ res'[a] # NoResource => a = b
    BY <1>1, <2>1, <2>3, HandTakes DEF TakeHealthy
  <2>5. /\ Kept' = Kept /\ Returning' = Returning /\ Filling' = Filling
        /\ created' = created /\ cleaned' = cleaned /\ toKeep' = toKeep
    BY <1>1 DEF TakeHealthy, Kept, Returning, Filling, maintVars, history
  <2>6. HandsAgree'
    BY <1>1, <2>1 DEF TakeHealthy, HandsAgree
  <2> QED
    BY <2>2, <2>4, <2>5, <2>6 DEF ExclusiveOwnership, NoUseAfterCleanup, NoResourceLost, Reachable
<1>2. CASE DiscardUnhealthy(c)
  <2>1. /\ Head(available) \in Queued /\ Queued' = Queued \ {Head(available)}
        /\ Injective(available')
    BY <1>2, PopElements, QueueSets DEF DiscardUnhealthy, ExclusiveOwnership
  <2>2. /\ Kept' = Kept /\ Returning' = Returning /\ Filling' = Filling /\ InHand' = InHand
        /\ created' = created /\ cleaned' = cleaned \cup {Head(available)} /\ toKeep' = toKeep
        /\ res' = res /\ pc' = pc
    BY <1>2 DEF DiscardUnhealthy, Kept, Returning, Filling, InHand, maintVars, clientVars
  <2> QED
    BY <2>1, <2>2 DEF ExclusiveOwnership, NoUseAfterCleanup, NoResourceLost, Reachable, HandsAgree
<1>3. ASSUME NEW r \in Resources, CreateOk(c, r) PROVE OwnInv'
  <2>1. res[c] = NoResource
    BY <1>3 DEF CreateOk, HandsAgree
  <2>2. r \notin Reachable /\ r \notin created /\ r \notin cleaned
    BY <1>3 DEF CreateOk, Fresh, NoUseAfterCleanup
  <2>3. /\ InHand' = InHand \cup {r}
        /\ r \notin InHand => \A a, b \in Clients : res'[a] = res'[b] /\ res'[a] # NoResource => a = b
    BY <1>3, <2>1, HandTakes DEF CreateOk
  <2>4. /\ Queued' = Queued /\ Kept' = Kept /\ Returning' = Returning /\ Filling' = Filling
        /\ created' = created \cup {r} /\ cleaned' = cleaned
        /\ toKeep' = toKeep /\ available' = available
    BY <1>3 DEF CreateOk, Queued, Kept, Returning, Filling, maintVars, sharedVars
  <2>5. HandsAgree'
    BY <1>3, <2>1 DEF CreateOk, HandsAgree
  <2> QED
    BY <1>3, <2>2, <2>3, <2>4, <2>5
    DEF ExclusiveOwnership, NoUseAfterCleanup, NoResourceLost, Reachable
<1>4. CASE DropGuard(c)
  <2>1. /\ res[c] # NoResource /\ res[c] \in Resources /\ res[c] \in InHand
        /\ InHand' = InHand \ {res[c]}
        /\ \A a, b \in Clients : res'[a] = res'[b] /\ res'[a] # NoResource => a = b
    BY <1>4, HandGives DEF DropGuard, HandsAgree
  <2>2. Returning' = Returning \cup {res[c]}
    BY <1>4, <2>1 DEF DropGuard, Returning
  <2>3. /\ Queued' = Queued /\ Kept' = Kept /\ Filling' = Filling
        /\ created' = created /\ cleaned' = cleaned
        /\ toKeep' = toKeep /\ available' = available
    BY <1>4 DEF DropGuard, Queued, Kept, Filling, maintVars, sharedVars, history
  <2>4. HandsAgree'
    BY <1>4 DEF DropGuard, HandsAgree
  <2> QED
    BY <2>1, <2>2, <2>3, <2>4 DEF ExclusiveOwnership, NoUseAfterCleanup, NoResourceLost, Reachable
<1>5. CASE AcquireStart(c) \/ AcquirePermit(c) \/ AcquireTimeout(c) \/ LockAvailable(c)
           \/ ScanEmpty(c) \/ CreateFails(c) \/ CountCreated(c)
  <2>1. /\ available' = available /\ toKeep' = toKeep /\ res' = res /\ ret' = ret
        /\ mpc' = mpc /\ mres' = mres /\ created' = created /\ cleaned' = cleaned
        /\ HandsAgree'
    BY <1>5, SMTT(40) DEF AcquireStart, AcquirePermit, AcquireTimeout, LockAvailable, ScanEmpty,
       CreateFails, CountCreated, sharedVars, maintVars, history, HandsAgree
  <2>2. Queued' = Queued /\ Kept' = Kept /\ InHand' = InHand /\ Returning' = Returning
        /\ Filling' = Filling
    BY <2>1 DEF Queued, Kept, InHand, Returning, Filling
  <2> QED
    BY <2>1, <2>2 DEF ExclusiveOwnership, NoUseAfterCleanup, NoResourceLost, Reachable
<1> QED  BY <1>1, <1>2, <1>3, <1>4, <1>5 DEF Acquire

\* What return_resource does to it.
LEMMA OwnReturnStep ==
  ASSUME OwnInv, TypeInv', NEW r \in Resources, Return(r)
  PROVE  OwnInv'
<1> USE PoolAssumption DEF OwnInv, TypeInv, TypeOK
<1>1. Kept' = Kept /\ InHand' = InHand /\ Filling' = Filling /\ created' = created /\ HandsAgree'
      /\ toKeep' = toKeep /\ res' = res
  <2>1. /\ toKeep' = toKeep /\ mpc' = mpc /\ mres' = mres /\ created' = created
        /\ res' = res /\ pc' = pc
    BY DEF Return, ReturnRefused, ReturnCheck, ResetOk, ResetFails, ReturnPush,
       clientVars, maintVars, history
  <2> QED
    BY <2>1 DEF Kept, InHand, Filling, HandsAgree
<1>2. r \in Returning
  BY DEF Return, ReturnRefused, ReturnCheck, ResetOk, ResetFails, ReturnPush, Returning
<1>3. CASE ReturnRefused(r) \/ ResetFails(r)
  <2>1. /\ Returning' = Returning \ {r} /\ cleaned' = cleaned \cup {r}
        /\ Queued' = Queued /\ available' = available
    BY <1>3 DEF ReturnRefused, ResetFails, Returning, Queued, sharedVars
  <2> QED
    BY <1>1, <1>2, <2>1 DEF ExclusiveOwnership, NoUseAfterCleanup, NoResourceLost, Reachable
<1>4. CASE ReturnCheck(r) \/ ResetOk(r)
  <2>1. /\ Returning' = Returning /\ cleaned' = cleaned
        /\ Queued' = Queued /\ available' = available
    BY <1>4 DEF ReturnCheck, ResetOk, Returning, Queued, sharedVars, history
  <2> QED
    BY <1>1, <2>1 DEF ExclusiveOwnership, NoUseAfterCleanup, NoResourceLost, Reachable
<1>5. CASE ReturnPush(r)
  <2>1. Returning' = Returning \ {r} /\ cleaned' = cleaned
    BY <1>5 DEF ReturnPush, Returning, history
  <2>2. Queued' = Queued \cup {r} /\ Injective(available')
    BY <1>2, <1>5, PushElements, QueueSets DEF ReturnPush, ExclusiveOwnership
  <2> QED
    BY <1>1, <1>2, <2>1, <2>2 DEF ExclusiveOwnership, NoUseAfterCleanup, NoResourceLost, Reachable
<1> QED  BY <1>3, <1>4, <1>5 DEF Return

\* What maintain_pool and shutdown do to it.
LEMMA OwnMaintainStep ==
  ASSUME OwnInv, TypeInv', Maintain \/ ShutdownFlag \/ ShutdownDrain
  PROVE  OwnInv'
<1> USE PoolAssumption DEF OwnInv, TypeInv, TypeOK
<1>1. InHand' = InHand /\ Returning' = Returning /\ HandsAgree' /\ res' = res
  BY DEF Maintain, MaintStart, MaintDec, MaintPutBack, MaintReadSize, MaintDropIdle, MaintCreateOk,
     MaintCreateFails, MaintPush, MaintDone, ShutdownFlag, ShutdownDrain, InHand, Returning,
     HandsAgree, sharedVars, clientVars, history
<1>2. ASSUME NEW i \in 1..Len(available), MaintDropIdle(i) PROVE OwnInv'
  <2> DEFINE before == SubSeq(available, 1, i - 1)
             after == SubSeq(available, i + 1, Len(available))
  <2>1. /\ before \in Seq(Resources) /\ after \in Seq(Resources)
        /\ Injective(before) /\ Injective(after)
        /\ ElementsOf(before) \cap ElementsOf(after) = {}
        /\ ElementsOf(before) \cup ElementsOf(after) = Queued \ {available[i]}
        /\ available[i] \in Queued
    BY SplitElements, QueueSets DEF ExclusiveOwnership
  <2>2. available' = after /\ toKeep' = toKeep \o before
    BY <1>2 DEF MaintDropIdle
  <2> HIDE DEF before, after
  <2>3. ElementsOf(before) \subseteq Queued
    BY <2>1
  <2>4. Kept' = Kept \cup ElementsOf(before) /\ Injective(toKeep')
    BY <2>1, <2>2, <2>3, JoinElements, QueueSets DEF ExclusiveOwnership
  <2>5. Queued' = ElementsOf(after) /\ Injective(available')
    BY <2>1, <2>2, QueueSets
  <2>6. /\ Filling' = {} /\ Filling = {} /\ created' = created
        /\ cleaned' = cleaned \cup {available[i]}
    BY <1>2 DEF MaintDropIdle, Filling
  <2> QED
    BY <1>1, <2>1, <2>4, <2>5, <2>6
    DEF ExclusiveOwnership, NoUseAfterCleanup, NoResourceLost, Reachable
<1>3. CASE MaintPutBack
  <2>1. /\ Queued' = Kept \cup Queued /\ Injective(available')
        /\ Kept' = {} /\ Injective(toKeep')
    <3>1. toKeep' = <<>> /\ available' = toKeep \o available
      BY <1>3 DEF MaintPutBack
    <3>2. Len(toKeep') = 0
      BY <3>1, EmptySeq
    <3>3. Kept' = {} /\ Injective(toKeep')
      BY <3>2 DEF Kept, Injective
    <3> QED
      BY <3>1, <3>3, JoinElements, QueueSets DEF ExclusiveOwnership
  <2>2. Filling' = {} /\ Filling = {} /\ created' = created /\ cleaned' = cleaned
    BY <1>3 DEF MaintPutBack, Filling, history
  <2> QED
    BY <1>1, <2>1, <2>2 DEF ExclusiveOwnership, NoUseAfterCleanup, NoResourceLost, Reachable
<1>4. ASSUME NEW r \in Resources, MaintCreateOk(r) PROVE OwnInv'
  <2>1. r \notin Reachable /\ r \notin created /\ r \notin cleaned
    BY <1>4 DEF MaintCreateOk, Fresh, NoUseAfterCleanup
  <2>2. /\ Filling = {} /\ Filling' = {r} /\ created' = created \cup {r} /\ cleaned' = cleaned
        /\ Queued' = Queued /\ Kept' = Kept /\ available' = available /\ toKeep' = toKeep
    BY <1>4 DEF MaintCreateOk, Filling, Queued, Kept, sharedVars
  <2> QED
    BY <1>1, <2>1, <2>2 DEF ExclusiveOwnership, NoUseAfterCleanup, NoResourceLost, Reachable
<1>5. CASE MaintPush
  <2>1. mres \in Resources /\ Filling = {mres} /\ Filling' = {}
    BY <1>5 DEF MaintPush, MaintHand, Filling
  <2>2. /\ Kept' = Kept /\ toKeep' = toKeep /\ created' = created /\ cleaned' = cleaned
    BY <1>5 DEF MaintPush, Kept, history
  <2>3. Queued' = Queued \cup {mres} /\ Injective(available')
    BY <1>5, <2>1, PushElements, QueueSets DEF MaintPush, ExclusiveOwnership
  <2> QED
    BY <1>1, <2>1, <2>2, <2>3 DEF ExclusiveOwnership, NoUseAfterCleanup, NoResourceLost, Reachable
<1>6. CASE MaintStart \/ MaintDec \/ MaintReadSize \/ MaintCreateFails \/ MaintDone \/ ShutdownFlag
  <2>1. /\ Queued' = Queued /\ Kept' = Kept /\ Filling' = Filling /\ available' = available
        /\ toKeep' = toKeep /\ created' = created /\ cleaned' = cleaned
    <3>1. /\ available' = available /\ toKeep' = toKeep /\ created' = created /\ cleaned' = cleaned
          /\ mpc' = "push" <=> mpc = "push"
          /\ mpc = "push" => mres' = mres
      BY <1>6 DEF MaintStart, MaintDec, MaintReadSize, MaintCreateFails, MaintDone, ShutdownFlag,
         sharedVars, maintVars, history
    <3>2. Queued' = Queued /\ Kept' = Kept
      BY <3>1 DEF Queued, Kept
    <3>3. Filling' = Filling
      BY <3>1 DEF Filling
    <3> QED
      BY <3>1, <3>2, <3>3
  <2> QED
    BY <1>1, <2>1 DEF ExclusiveOwnership, NoUseAfterCleanup, NoResourceLost, Reachable
<1>7. CASE ShutdownDrain
  <2>1. /\ cleaned' = cleaned \cup Queued /\ Kept' = Kept /\ Filling' = Filling
        /\ toKeep' = toKeep /\ created' = created
    BY <1>7 DEF ShutdownDrain, Queued, Kept, Filling, maintVars
  <2>2. Queued' = {} /\ Injective(available')
    <3>1. available' = <<>> /\ Len(available') = 0
      BY <1>7, EmptySeq DEF ShutdownDrain
    <3> QED  BY <3>1 DEF Queued, Injective
  <2> QED
    BY <1>1, <2>1, <2>2 DEF ExclusiveOwnership, NoUseAfterCleanup, NoResourceLost, Reachable
<1> QED  BY <1>2, <1>3, <1>4, <1>5, <1>6, <1>7 DEF Maintain

LEMMA OwnStep == ASSUME OwnInv, [Next]_vars PROVE OwnInv'
<1>1. TypeInv'
  BY TypeStep DEF OwnInv
<1>2. CASE UNCHANGED vars
  <2>1. /\ available' = available /\ toKeep' = toKeep /\ res' = res /\ ret' = ret /\ pc' = pc
        /\ mpc' = mpc /\ mres' = mres /\ created' = created /\ cleaned' = cleaned
    BY <1>2 DEF vars, sharedVars, clientVars, maintVars, history
  <2>2. Queued' = Queued /\ Kept' = Kept /\ InHand' = InHand /\ Returning' = Returning
        /\ Filling' = Filling
    BY <2>1 DEF Queued, Kept, InHand, Returning, Filling
  <2> QED
    BY <1>1, <2>1, <2>2 DEF OwnInv, HandsAgree, ExclusiveOwnership, NoUseAfterCleanup,
       NoResourceLost, Reachable
<1> QED
  BY <1>1, <1>2, OwnClientStep, OwnReturnStep, OwnMaintainStep DEF Next

LEMMA OwnInit == ASSUME Init PROVE OwnInv
<1>1. TypeInv
  BY TypeInit
<1>2. Queued = {} /\ Kept = {} /\ Injective(available) /\ Injective(toKeep)
  <2>1. available = <<>> /\ toKeep = <<>> /\ Len(available) = 0 /\ Len(toKeep) = 0
    BY EmptySeq DEF Init
  <2> QED  BY <2>1 DEF Queued, Kept, Injective
<1>3. InHand = {} /\ Returning = {} /\ Filling = {} /\ HandsAgree
      /\ \A c, d \in Clients : res[c] = res[d] /\ res[c] # NoResource => c = d
  BY DEF Init, InHand, Returning, Filling, HandsAgree
<1> QED
  BY <1>1, <1>2, <1>3 DEF Init, OwnInv, ExclusiveOwnership, NoUseAfterCleanup, NoResourceLost,
     Reachable

\* acquire hands a pooled resource out exclusively (resource_pool.rs): it has one
\* owner, whatever the clients, return tasks, maintenance and shutdown do.
THEOREM OwnershipIsExclusive == Spec => []ExclusiveOwnership
<1>1. OwnInv => ExclusiveOwnership
  BY DEF OwnInv
<1> QED  BY <1>1, OwnInit, OwnStep, PTL DEF Spec

\* No resource is used, queued or reset once cleanup() ran on it.
THEOREM CleanupIsFinal == Spec => []NoUseAfterCleanup
<1>1. OwnInv => NoUseAfterCleanup
  BY DEF OwnInv
<1> QED  BY <1>1, OwnInit, OwnStep, PTL DEF Spec

-----------------------------------------------------------------------------
(* What the counters tell                                                    *)

\* The resources current_size has counted and that are alive.
Counted == (created \ cleaned) \ Uncounted
Counting == {res[c] : c \in {d \in Clients : pc[d] = "count"}}

\* The inductive invariant of the counters: a pool that drains has set its flag.
CountInv == OwnInv /\ CountersExact /\ (spc # "idle" => shutdown)

LEMMA CountedFinite == ASSUME OwnInv PROVE IsFiniteSet(Counted) /\ Counting \subseteq InHand
<1>1. Counted \subseteq Resources
  BY DEF OwnInv, TypeInv, TypeOK, Counted
<1>2. IsFiniteSet(Counted)
  BY <1>1, FS_Subset, PoolAssumption
<1>3. Counting \subseteq InHand
  BY DEF Counting, InHand, OwnInv, HandsAgree
<1> QED  BY <1>2, <1>3

\* The steps of a client keep current_size the number of live resources.
LEMMA SizeClientStep ==
  ASSUME CountInv, OwnInv', NEW c \in Clients, Acquire(c) \/ DropGuard(c), ~shutdown'
  PROVE  current_size' = Cardinality(Counted') + Cardinality(StillCounted')
<1> USE DEF CountInv, OwnInv, TypeInv, TypeOK, CountersExact, SizeExact
<1>1. /\ current_size = Cardinality(Counted) + Cardinality(StillCounted)
      /\ StillCounted' = StillCounted /\ Filling' = Filling
  <2>1. shutdown' = shutdown /\ mpc' = mpc /\ mres' = mres
    BY DEF Acquire, AcquireStart, AcquirePermit, AcquireTimeout, LockAvailable, TakeHealthy,
       DiscardUnhealthy, ScanEmpty, CreateOk, CreateFails, CountCreated, DropGuard,
       sharedVars, maintVars
  <2> QED  BY <2>1 DEF Counted, StillCounted, Filling
<1>2. /\ IsFiniteSet(Counted) /\ Counting \subseteq InHand
      /\ Cardinality(StillCounted) \in Nat /\ Cardinality(Counted) \in Nat
  BY CountedFinite, FS_CardinalityType, FS_EmptySet, FS_Singleton DEF StillCounted
<1>3. Uncounted = Counting \cup Filling /\ Uncounted' = Counting' \cup Filling'
  BY DEF Uncounted, Counting
<1>4. CASE DiscardUnhealthy(c)
  <2>1. Head(available) \in Queued
    BY <1>4, PopElements, QueueSets DEF DiscardUnhealthy, ExclusiveOwnership
  <2>2. Head(available) \in Counted
    BY <1>2, <1>3, <2>1 DEF Counted, ExclusiveOwnership, NoUseAfterCleanup, Reachable
  <2>3. Counting' = Counting /\ created' = created /\ cleaned' = cleaned \cup {Head(available)}
    BY <1>4 DEF DiscardUnhealthy, Counting, clientVars
  <2>4. Counted' = Counted \ {Head(available)}
    BY <1>1, <1>3, <2>3 DEF Counted
  <2>5. Cardinality(Counted') = Cardinality(Counted) - 1
    <3>1. Cardinality(Counted \ {Head(available)}) = Cardinality(Counted) - 1
      BY <1>2, <2>2, FS_RemoveElement
    <3> QED  BY <2>4, <3>1
  <2>6. Cardinality(Counted) # 0
    BY <1>2, <2>2, FS_EmptySet
  <2> QED
    BY <1>1, <1>2, <1>4, <2>5, <2>6 DEF DiscardUnhealthy, SaturatingDec
<1>5. ASSUME NEW r \in Resources, CreateOk(c, r)
      PROVE  current_size' = Cardinality(Counted') + Cardinality(StillCounted')
  <2>1. Counting' = Counting \cup {r}
    BY <1>5 DEF CreateOk, Counting
  <2>2. Counted' = Counted
    BY <1>1, <1>3, <1>5, <2>1 DEF CreateOk, Fresh, Counted
  <2> QED  BY <1>1, <1>5, <2>2 DEF CreateOk, sharedVars
<1>6. CASE CountCreated(c)
  <2>1. res[c] \in InHand /\ res[c] \in Counting
    BY <1>6 DEF CountCreated, HandsAgree, InHand, Counting
  <2>2. Counting' = Counting \ {res[c]}
    BY <1>6 DEF CountCreated, Counting, HandsAgree, ExclusiveOwnership
  <2>3. res[c] \notin Counted /\ Counted' = Counted \cup {res[c]}
    BY <1>1, <1>3, <1>6, <2>1, <2>2
    DEF CountCreated, Counted, history, ExclusiveOwnership, NoUseAfterCleanup, Reachable
  <2>4. Cardinality(Counted') = Cardinality(Counted) + 1
    BY <1>2, <2>3, FS_AddElement
  <2> QED
    BY <1>1, <1>2, <1>6, <2>4 DEF CountCreated
<1>7. CASE AcquireStart(c) \/ AcquirePermit(c) \/ AcquireTimeout(c) \/ LockAvailable(c)
           \/ ScanEmpty(c) \/ CreateFails(c) \/ TakeHealthy(c) \/ DropGuard(c)
  <2>1. current_size' = current_size /\ created' = created /\ cleaned' = cleaned
    BY <1>7 DEF AcquireStart, AcquirePermit, AcquireTimeout, LockAvailable, TakeHealthy, ScanEmpty,
       CreateFails, DropGuard, sharedVars, history
  <2>2. \A d \in Clients : pc'[d] = "count" <=> pc[d] = "count"
    BY <1>7 DEF AcquireStart, AcquirePermit, AcquireTimeout, LockAvailable, TakeHealthy, ScanEmpty,
       CreateFails, DropGuard
  <2>3. \A d \in Clients : pc[d] = "count" => res'[d] = res[d]
    BY <1>7 DEF AcquireStart, AcquirePermit, AcquireTimeout, LockAvailable, TakeHealthy, ScanEmpty,
       CreateFails, DropGuard
  <2>4. Counting' = Counting
    BY <2>2, <2>3 DEF Counting
  <2> QED  BY <1>1, <1>3, <2>1, <2>4 DEF Counted
<1> QED  BY <1>4, <1>5, <1>6, <1>7 DEF Acquire

\* So do those of a return task, of maintain_pool and of shutdown, which
\* resets the counter when it has set the flag.
LEMMA SizeOtherStep ==
  ASSUME CountInv, OwnInv', ~shutdown',
         (\E r \in Resources : Return(r)) \/ Maintain \/ ShutdownFlag \/ ShutdownDrain
  PROVE  current_size' = Cardinality(Counted') + Cardinality(StillCounted')
<1> USE DEF CountInv, OwnInv, TypeInv, TypeOK, CountersExact, SizeExact
<1>1. ~ShutdownFlag /\ ~ShutdownDrain
  BY DEF ShutdownFlag, ShutdownDrain
<1>2. ~shutdown
  BY <1>1 DEF Return, ReturnRefused, ReturnCheck, ResetOk, ResetFails, ReturnPush, Maintain,
     MaintStart, MaintDec, MaintPutBack, MaintReadSize, MaintDropIdle, MaintCreateOk,
     MaintCreateFails, MaintPush, MaintDone, sharedVars
<1>3. current_size = Cardinality(Counted) + Cardinality(StillCounted)
  BY <1>2 DEF Counted
<1>4. /\ IsFiniteSet(Counted) /\ Counting \subseteq InHand
      /\ Cardinality(StillCounted) \in Nat /\ Cardinality(Counted) \in Nat
  BY CountedFinite, FS_CardinalityType, FS_EmptySet, FS_Singleton DEF StillCounted
<1>5. Uncounted = Counting \cup Filling /\ Uncounted' = Counting' \cup Filling'
  BY DEF Uncounted, Counting
<1>6. Counting' = Counting
  <2>1. pc' = pc /\ res' = res
    BY <1>1 DEF Return, ReturnRefused, ReturnCheck, ResetOk, ResetFails, ReturnPush, Maintain,
       MaintStart, MaintDec, MaintPutBack, MaintReadSize, MaintDropIdle, MaintCreateOk,
       MaintCreateFails, MaintPush, MaintDone, clientVars
  <2> QED  BY <2>1 DEF Counting
<1>7. ASSUME NEW r \in Resources, Return(r)
      PROVE  current_size' = Cardinality(Counted') + Cardinality(StillCounted')
  <2>1. Filling' = Filling /\ StillCounted' = StillCounted /\ created' = created
    <3>1. mpc' = mpc /\ mres' = mres /\ created' = created
      BY <1>7 DEF Return, ReturnRefused, ReturnCheck, ResetOk, ResetFails, ReturnPush, maintVars,
         history
    <3> QED  BY <3>1 DEF Filling, StillCounted
  <2>2. CASE ResetFails(r)
    <3>1. r \in Returning
      BY <2>2 DEF ResetFails, Returning
    <3>2. r \in Counted
      BY <1>4, <1>5, <3>1 DEF Counted, ExclusiveOwnership, NoUseAfterCleanup, Reachable
    <3>3. Counted' = Counted \ {r}
      BY <1>5, <1>6, <2>1, <2>2 DEF ResetFails, Counted
    <3>4. Cardinality(Counted') = Cardinality(Counted) - 1
      BY <1>4, <3>2, <3>3, FS_RemoveElement
    <3>5. Cardinality(Counted) # 0
      BY <1>4, <3>2, FS_EmptySet
    <3> QED  BY <1>3, <1>4, <2>1, <2>2, <3>4, <3>5 DEF ResetFails, SaturatingDec
  <2>3. CASE ~ResetFails(r)
    <3>1. current_size' = current_size /\ cleaned' = cleaned
      BY <1>2, <1>7, <2>3 DEF Return, ReturnRefused, ReturnCheck, ResetOk, ReturnPush, sharedVars,
         history
    <3> QED  BY <1>3, <1>5, <1>6, <2>1, <3>1 DEF Counted
  <2> QED  BY <2>2, <2>3
<1>8. CASE Maintain
  <2>1. ASSUME NEW i \in 1..Len(available), MaintDropIdle(i)
        PROVE  current_size' = Cardinality(Counted') + Cardinality(StillCounted')
    <3>1. available[i] \in Queued
      BY DEF Queued
    <3>2. /\ Filling' = {} /\ Filling = {} /\ StillCounted = {}
          /\ StillCounted' = {available[i]} /\ current_size' = current_size
          /\ created' = created /\ cleaned' = cleaned \cup {available[i]}
      BY <2>1 DEF MaintDropIdle, Filling, StillCounted
    <3>3. available[i] \in Counted /\ Counted' = Counted \ {available[i]}
      BY <1>4, <1>5, <1>6, <3>1, <3>2
      DEF Counted, ExclusiveOwnership, NoUseAfterCleanup, Reachable
    <3>4. Cardinality(Counted') = Cardinality(Counted) - 1
      BY <1>4, <3>3, FS_RemoveElement, ZenonT(40)
    <3>5. Cardinality(StillCounted) = 0 /\ Cardinality(StillCounted') = 1
      BY <3>2, FS_EmptySet, FS_Singleton
    <3>6. Cardinality(Counted) \in Nat /\ current_size = Cardinality(Counted) + 0
      BY <1>3, <1>4, <3>5
    <3> QED  BY <3>2, <3>4, <3>5, <3>6
  <2>2. CASE MaintDec
    <3>1. /\ Filling' = {} /\ Filling = {} /\ StillCounted = {mres} /\ StillCounted' = {}
          /\ current_size' = SaturatingDec(current_size)
          /\ created' = created /\ cleaned' = cleaned
      BY <2>2 DEF MaintDec, Filling, StillCounted, history
    <3>2. Cardinality(StillCounted) = 1 /\ Cardinality(StillCounted') = 0
      BY <3>1, FS_EmptySet, FS_Singleton
    <3>3. Counted' = Counted
      BY <1>5, <1>6, <3>1 DEF Counted
    <3>4. Cardinality(Counted') = Cardinality(Counted) /\ Cardinality(Counted) \in Nat
      BY <1>4, <3>3
    <3>5. current_size = Cardinality(Counted) + 1
      BY <1>3, <3>2
    <3> QED  BY <3>1, <3>2, <3>4, <3>5 DEF SaturatingDec
  <2>3. ASSUME NEW r \in Resources, MaintCreateOk(r)
        PROVE  current_size' = Cardinality(Counted') + Cardinality(StillCounted')
    <3>1. /\ Filling = {} /\ Filling' = {r} /\ StillCounted = {} /\ StillCounted' = {}
          /\ current_size' = current_size /\ r \notin created
          /\ created' = created \cup {r} /\ cleaned' = cleaned
      BY <2>3 DEF MaintCreateOk, Fresh, Filling, StillCounted, sharedVars
    <3>2. Counted' = Counted
      BY <1>5, <1>6, <3>1 DEF Counted
    <3> QED  BY <1>3, <3>1, <3>2
  <2>4. CASE MaintPush
    <3>1. /\ Filling = {mres} /\ Filling' = {} /\ StillCounted = {} /\ StillCounted' = {}
          /\ current_size' = current_size + 1
          /\ created' = created /\ cleaned' = cleaned
      BY <2>4 DEF MaintPush, Filling, StillCounted, history
    <3>2. mres \notin Counted /\ Counted' = Counted \cup {mres}
      BY <1>4, <1>5, <1>6, <3>1 DEF Counted, ExclusiveOwnership, NoUseAfterCleanup, Reachable
    <3>3. Cardinality(Counted') = Cardinality(Counted) + 1
      BY <1>4, <3>2, FS_AddElement
    <3>4. current_size \in Nat /\ current_size = Cardinality(Counted) + Cardinality(StillCounted)
          /\ Cardinality(Counted) \in Nat /\ Cardinality(StillCounted) \in Nat
      BY <1>3, <1>4
    <3>5. Cardinality(StillCounted') = Cardinality(StillCounted)
      BY <3>1
    <3> QED  BY <3>1, <3>3, <3>4, <3>5
  <2>5. CASE MaintStart \/ MaintPutBack \/ MaintReadSize \/ MaintCreateFails \/ MaintDone
    <3>1. /\ Filling' = {} /\ Filling = {} /\ StillCounted = {} /\ StillCounted' = {}
          /\ current_size' = current_size /\ created' = created /\ cleaned' = cleaned
      BY <2>5 DEF MaintStart, MaintPutBack, MaintReadSize, MaintCreateFails, MaintDone, Filling,
         StillCounted, sharedVars, history
    <3>2. Counted' = Counted
      BY <1>5, <1>6, <3>1 DEF Counted
    <3> QED  BY <1>3, <3>1, <3>2
  <2> QED  BY <1>8, <2>1, <2>2, <2>3, <2>4, <2>5 DEF Maintain
<1> QED  BY <1>1, <1>7, <1>8

\* The permits out are those of the calls in progress.
LEMMA PermitStep ==
  ASSUME CountInv, [Next]_vars
  PROVE  PermitsExact'
<1> USE PoolAssumption DEF CountInv, OwnInv, TypeInv, TypeOK, CountersExact, PermitsExact
<1>1. IsFiniteSet(Acquiring) /\ Cardinality(Acquiring) \in Nat
  <2>1. Acquiring \in SUBSET Clients
    BY DEF Acquiring
  <2> QED  BY <2>1, FS_Subset, FS_CardinalityType
<1>2. ASSUME NEW c \in Clients, AcquirePermit(c) PROVE PermitsExact'
  <2>1. c \notin Acquiring /\ Acquiring' = Acquiring \cup {c}
    BY <1>2 DEF AcquirePermit, Acquiring
  <2>2. Cardinality(Acquiring') = Cardinality(Acquiring) + 1
    BY <1>1, <2>1, FS_AddElement
  <2> QED  BY <1>1, <1>2, <2>2 DEF AcquirePermit
<1>3. ASSUME NEW c \in Clients, TakeHealthy(c) \/ CreateFails(c) \/ CountCreated(c)
      PROVE  PermitsExact'
  <2>1. c \in Acquiring /\ Acquiring' = Acquiring \ {c}
    BY <1>3 DEF TakeHealthy, CreateFails, CountCreated, Acquiring
  <2>2. Cardinality(Acquiring') = Cardinality(Acquiring) - 1
    BY <1>1, <2>1, FS_RemoveElement
  <2>3. permits' = permits + 1
    BY <1>3 DEF TakeHealthy, CreateFails, CountCreated
  <2> QED  BY <1>1, <2>2, <2>3
<1>4. ASSUME NEW c \in Clients,
             \/ AcquireStart(c) \/ AcquireTimeout(c) \/ LockAvailable(c) \/ DiscardUnhealthy(c)
             \/ ScanEmpty(c) \/ (\E r \in Resources : CreateOk(c, r)) \/ DropGuard(c)
      PROVE  PermitsExact'
  <2>1. Acquiring' = Acquiring
    BY <1>4 DEF AcquireStart, AcquireTimeout, LockAvailable, DiscardUnhealthy, ScanEmpty, CreateOk,
       DropGuard, Acquiring, clientVars
  <2>2. permits' = permits
    BY <1>4 DEF AcquireStart, AcquireTimeout, LockAvailable, DiscardUnhealthy, ScanEmpty, CreateOk,
       DropGuard, sharedVars
  <2> QED  BY <2>1, <2>2
<1>5. CASE \/ UNCHANGED vars \/ (\E r \in Resources : Return(r)) \/ Maintain
           \/ ShutdownFlag \/ ShutdownDrain
  <2>1. permits' = permits /\ pc' = pc
    BY <1>5 DEF Return, ReturnRefused, ReturnCheck, ResetOk, ResetFails, ReturnPush, Maintain,
       MaintStart, MaintDec, MaintPutBack, MaintReadSize, MaintDropIdle, MaintCreateOk,
       MaintCreateFails, MaintPush, MaintDone, ShutdownFlag, ShutdownDrain,
       vars, sharedVars, clientVars
  <2> QED  BY <2>1 DEF Acquiring
<1> QED  BY <1>2, <1>3, <1>4, <1>5 DEF Next, Acquire

LEMMA CountStep == ASSUME CountInv, [Next]_vars PROVE CountInv'
<1>1. OwnInv'
  BY OwnStep DEF CountInv
<1>2. ASSUME ~shutdown' PROVE current_size' = Cardinality(Counted') + Cardinality(StillCounted')
  <2>1. CASE UNCHANGED vars
    <3>1. /\ current_size' = current_size /\ shutdown' = shutdown /\ pc' = pc /\ res' = res
          /\ mpc' = mpc /\ mres' = mres /\ created' = created /\ cleaned' = cleaned
      BY <2>1 DEF vars, sharedVars, clientVars, maintVars, history
    <3>2. Uncounted' = Uncounted /\ StillCounted' = StillCounted
      BY <3>1 DEF Uncounted, StillCounted, Filling
    <3> QED
      BY <1>2, <3>1, <3>2 DEF CountInv, CountersExact, SizeExact, Counted
  <2> QED
    BY <1>1, <1>2, <2>1, SizeClientStep, SizeOtherStep DEF Next
<1>3. spc' # "idle" => shutdown'
  BY DEF CountInv, Next, Acquire, AcquireStart, AcquirePermit, AcquireTimeout, LockAvailable,
     TakeHealthy, DiscardUnhealthy, ScanEmpty, CreateOk, CreateFails, CountCreated, DropGuard,
     Return, ReturnRefused, ReturnCheck, ResetOk, ResetFails, ReturnPush, Maintain,
     MaintStart, MaintDec, MaintPutBack, MaintReadSize, MaintDropIdle, MaintCreateOk,
     MaintCreateFails, MaintPush, MaintDone, ShutdownFlag, ShutdownDrain, vars, sharedVars
<1>4. SizeExact'
  BY <1>2 DEF SizeExact, Counted
<1> QED
  BY <1>1, <1>3, <1>4, PermitStep DEF CountInv, CountersExact

\* Whatever was created and not cleaned up is somewhere, current_size is the number
\* of live resources until shutdown, and the semaphore's permits are exact.
THEOREM PoolAccounts == Spec => []ResourcesAccounted
<1>1. ASSUME Init PROVE CountInv
  <2>1. Counted = {} /\ StillCounted = {} /\ Acquiring = {}
    BY <1>1 DEF Init, Counted, StillCounted, Acquiring
  <2>2. Cardinality({}) = 0
    BY FS_EmptySet
  <2>3. SizeExact
    BY <1>1, <2>1, <2>2 DEF Init, SizeExact, Counted
  <2>4. PermitsExact
    BY <1>1, <2>1, <2>2, PoolAssumption DEF Init, PermitsExact
  <2> QED
    BY <1>1, <2>3, <2>4, OwnInit DEF Init, CountInv, CountersExact
<1>2. CountInv => ResourcesAccounted
  BY DEF CountInv, OwnInv, TypeInv, ResourcesAccounted
<1> QED  BY <1>1, <1>2, CountStep, PTL DEF Spec

=============================================================================
