------------------------------ MODULE FileLock ------------------------------
(***************************************************************************)
(* FileLockManager of src/src/file_lock.rs: advisory locks on files, each  *)
(* an flock on a lock file beside it, with acquire_lock, try_acquire_lock, *)
(* acquire_multiple_ordered and its unwinding, release_lock, dropping a    *)
(* FileLock, upgrade_lock / downgrade_lock, cleanup_stale_locks and        *)
(* force_unlock.                                                           *)
(*                                                                         *)
(* The callers are threads, of one process or of several: an flock belongs *)
(* to an open file, so two threads exclude each other like two processes.  *)
(* A lock file that is removed and created again is a new inode; gen[f]    *)
(* tells the inodes of lock file f apart, and a lock on an inode that is   *)
(* no longer linked does not exclude a later opener.                       *)
(*                                                                         *)
(* A caller asks for locks while it holds none, and upgrades a lock that   *)
(* is its only one.  I/O errors and the counters of LockMetrics are left   *)
(* out.                                                                    *)
(***************************************************************************)
EXTENDS Integers, Sequences, FiniteSets

CONSTANTS
    Callers,
    Paths,
    LockFileOf,  \* the lock file of each path: its extension followed by .lock
    SortKey,     \* what sort_by_hierarchy sorts each path by
    Requests,    \* the lists of paths callers ask for, each path at most once
    MaxRemovals  \* bound on how often one lock file is removed

Files == {LockFileOf[p] : p \in Paths}
LockTypes == {"Shared", "Exclusive"}

ASSUME LockAssumption ==
    /\ IsFiniteSet(Callers)
    /\ SortKey \in [Paths -> Nat] /\ MaxRemovals \in Nat
    /\ Requests \subseteq Seq(Paths) \ {<<>>}
    /\ \A s \in Requests : \A i, j \in 1..Len(s) : s[i] = s[j] => i = j

VARIABLES
    pc,       \* where each caller's call is
    asked,    \* the paths of the call in progress, sorted
    type,     \* the LockType asked for
    expired,  \* has the call's current acquire_lock used up its timeout?
    fd,       \* inode of the lock file the call has opened
    held,     \* the FileLock values each caller owns
    outcome,  \* what the caller's last call returned
    exists, gen,  \* is lock file f there, and which inode is it (or will it be)?
    locks,    \* the manager's map: no entry, a recent entry or an old one
    marked    \* paths cleanup_stale_locks has identified as stale

vars == <<pc, asked, type, expired, fd, held, outcome, exists, gen, locks, marked>>
callVars == <<pc, asked, type, expired, fd, outcome>>
fileVars == <<exists, gen>>

Handle == [path : Paths, gen : 0..MaxRemovals, type : LockTypes, flocked : BOOLEAN]

Init ==
    /\ pc = [c \in Callers |-> "idle"]
    /\ asked = [c \in Callers |-> <<>>]
    /\ type = [c \in Callers |-> "Shared"]
    /\ expired = [c \in Callers |-> FALSE]
    /\ fd = [c \in Callers |-> 0]
    /\ held = [c \in Callers |-> {}]
    /\ outcome = [c \in Callers |-> "none"]
    /\ exists = [f \in Files |-> FALSE] /\ gen = [f \in Files |-> 0]
    /\ locks = [p \in Paths |-> "none"]
    /\ marked = {}

-----------------------------------------------------------------------------
(* Acquiring                                                               *)

\* Mutant: the paths are locked in the caller's order.
CallerOrder(s) == s

\* A stable sort: paths with equal keys keep the caller's order.
SortByHierarchy(s) ==
    LET before(i, j) == \/ SortKey[s[i]] < SortKey[s[j]]
                        \/ SortKey[s[i]] = SortKey[s[j]] /\ i < j
        place(i) == 1 + Cardinality({j \in 1..Len(s) : before(j, i)})
    IN  [k \in 1..Len(s) |-> s[CHOOSE i \in 1..Len(s) : place(i) = k]]

\* A call starts.  try_acquire_lock is a call whose timeout is zero: it has elapsed
\* before the first attempt.
Call(c, s, t) ==
    /\ asked' = [asked EXCEPT ![c] = s]
    /\ type' = [type EXCEPT ![c] = t]
    /\ expired' = [expired EXCEPT ![c] = FALSE]
    /\ pc' = [pc EXCEPT ![c] = "open"]
    /\ outcome' = [outcome EXCEPT ![c] = "none"]

Acquire(c, s, t) ==
    /\ pc[c] = "idle" /\ held[c] = {}
    /\ Call(c, SortByHierarchy(s), t)
    /\ UNCHANGED <<fd, held, fileVars, locks, marked>>

\* The path the call is working on: the first one it has no handle for.
Done(c) == Cardinality(held[c])
Wanted(c) == asked[c][Done(c) + 1]

\* OpenOptions with create: the lock file is there afterwards.
Open(c) ==
    /\ pc[c] = "open"
    /\ LET f == LockFileOf[Wanted(c)]
       IN  /\ fd' = [fd EXCEPT ![c] = gen[f]]
           /\ exists' = [exists EXCEPT ![f] = TRUE]
    /\ pc' = [pc EXCEPT ![c] = "flock"]
    /\ UNCHANGED <<asked, type, expired, held, outcome, gen, locks, marked>>

\* The handles that have inode g of lock file f locked.
Flocks(f, g) ==
    {h \in UNION {held[c] : c \in Callers} :
        h.flocked /\ LockFileOf[h.path] = f /\ h.gen = g}

\* flock refuses the caller: some other open file has a lock it cannot share.
Conflicts(c) ==
    \E h \in Flocks(LockFileOf[Wanted(c)], fd[c]) :
        type[c] = "Exclusive" \/ h.type = "Exclusive"

\* A shared lock that flock refuses is handed out all the same, unlocked.
Granted(c) ==
    /\ pc[c] = "flock"
    /\ type[c] = "Exclusive" => ~Conflicts(c)
    /\ held' = [held EXCEPT ![c] = @ \cup
          {[path |-> Wanted(c), gen |-> fd[c], type |-> type[c], flocked |-> ~Conflicts(c)]}]
    /\ pc' = [pc EXCEPT ![c] = "record"]
    /\ fd' = [fd EXCEPT ![c] = 0]
    /\ UNCHANGED <<asked, type, expired, outcome, fileVars, locks, marked>>

\* Sleep and try again, or give up with LockError::Timeout.
Refused(c) ==
    /\ pc[c] = "flock" /\ type[c] = "Exclusive" /\ Conflicts(c)
    /\ pc' = [pc EXCEPT ![c] = IF expired[c] THEN "unwind" ELSE "open"]
    /\ fd' = [fd EXCEPT ![c] = 0]
    /\ UNCHANGED <<asked, type, expired, held, outcome, fileVars, locks, marked>>

\* The timeout of the current acquire_lock passes.
Elapse(c) ==
    /\ pc[c] \in {"open", "flock"} /\ ~expired[c]
    /\ expired' = [expired EXCEPT ![c] = TRUE]
    /\ UNCHANGED <<pc, asked, type, fd, held, outcome, fileVars, locks, marked>>

\* The call is over; its locals are gone.
Return(c, result) ==
    /\ pc' = [pc EXCEPT ![c] = "idle"]
    /\ outcome' = [outcome EXCEPT ![c] = result]
    /\ type' = [type EXCEPT ![c] = "Shared"]

\* The handle just granted gets its entry, replacing any other for the path; then the
\* next path, with a timeout of its own, or the end of the call.
Record(c) ==
    /\ pc[c] = "record"
    /\ locks' = [locks EXCEPT ![asked[c][Done(c)]] = "recent"]
    /\ expired' = [expired EXCEPT ![c] = FALSE]
    /\ \/ /\ Done(c) = Len(asked[c])
          /\ Return(c, "Ok")
       \/ /\ Done(c) < Len(asked[c])
          /\ pc' = [pc EXCEPT ![c] = "open"]
          /\ UNCHANGED <<type, outcome>>
    /\ UNCHANGED <<asked, fd, held, fileVars, marked>>

\* release_lock: the entry of the path goes, whoever it is for, then the flock.
ReleaseHandle(c, h) ==
    /\ held' = [held EXCEPT ![c] = @ \ {h}]
    /\ locks' = [locks EXCEPT ![h.path] = "none"]

\* Mutant: the call fails with the locks it has.
UnwindNothing(c) ==
    /\ pc[c] = "unwind"
    /\ Return(c, "Err")
    /\ expired' = [expired EXCEPT ![c] = FALSE]
    /\ UNCHANGED <<held, locks, asked, fd, fileVars, marked>>

\* acquire_multiple_ordered gives back what it has before it returns the error.
Unwind(c) ==
    /\ pc[c] = "unwind"
    /\ \/ /\ \E h \in held[c] : ReleaseHandle(c, h)
          /\ UNCHANGED <<pc, outcome, type, expired>>
       \/ /\ held[c] = {}
          /\ Return(c, "Err")
          /\ expired' = [expired EXCEPT ![c] = FALSE]
          /\ UNCHANGED <<held, locks>>
    /\ UNCHANGED <<asked, fd, fileVars, marked>>

-----------------------------------------------------------------------------
(* Releasing                                                               *)

\* What the last call returned no longer describes what the caller holds.
Forget(c) ==
    /\ outcome' = [outcome EXCEPT ![c] = "none"]
    /\ asked' = [asked EXCEPT ![c] = <<>>]

Release(c, h) ==
    /\ pc[c] = "idle" /\ h \in held[c]
    /\ ReleaseHandle(c, h)
    /\ Forget(c)
    /\ UNCHANGED <<pc, type, expired, fd, fileVars, marked>>

\* Dropping a FileLock closes its file; the manager does not hear of it.
Drop(c, h) ==
    /\ pc[c] = "idle" /\ h \in held[c]
    /\ held' = [held EXCEPT ![c] = @ \ {h}]
    /\ Forget(c)
    /\ UNCHANGED <<pc, type, expired, fd, fileVars, locks, marked>>

\* upgrade_lock and downgrade_lock release the lock and acquire it anew.
Upgrade(c, h, t) ==
    /\ pc[c] = "idle" /\ held[c] = {h}
    /\ ReleaseHandle(c, h)
    /\ Call(c, <<h.path>>, t)
    /\ UNCHANGED <<fd, fileVars, marked>>

-----------------------------------------------------------------------------
(* Stale locks                                                             *)

\* An entry's last_accessed is never refreshed: after stale_timeout it is Abandoned.
Age(p) ==
    /\ locks[p] = "recent"
    /\ locks' = [locks EXCEPT ![p] = "old"]
    /\ UNCHANGED <<callVars, held, fileVars, marked>>

\* cleanup_stale_locks, first half, under the read lock.
CleanupIdentify ==
    /\ marked = {}
    /\ marked' = {p \in Paths : locks[p] = "old"}
    /\ marked' # {}
    /\ UNCHANGED <<callVars, held, fileVars, locks>>

Removable(f) == exists[f] /\ gen[f] < MaxRemovals

Removed(F) ==
    /\ exists' = [f \in Files |-> exists[f] /\ f \notin F]
    /\ gen' = [f \in Files |-> IF f \in F THEN gen[f] + 1 ELSE gen[f]]

\* Second half, under the write lock: the lock file goes, and the entry with it; the
\* status is not looked at again.  Of two paths with one lock file the first removes it.
CleanupRemove ==
    /\ marked # {}
    /\ \A p \in marked : exists[LockFileOf[p]] => Removable(LockFileOf[p])
    /\ \E P \in SUBSET marked :
          /\ \A p \in marked : exists[LockFileOf[p]] <=>
                \E q \in P : LockFileOf[q] = LockFileOf[p]
          /\ \A p, q \in P : LockFileOf[p] = LockFileOf[q] => p = q
          /\ Removed({LockFileOf[p] : p \in P})
          /\ locks' = [p \in Paths |-> IF p \in P THEN "none" ELSE locks[p]]
    /\ marked' = {}
    /\ UNCHANGED <<callVars, held>>

ForceUnlock(p) ==
    /\ exists[LockFileOf[p]] => Removable(LockFileOf[p])
    /\ locks' = [locks EXCEPT ![p] = "none"]
    /\ Removed({LockFileOf[p]} \cap {f \in Files : exists[f]})
    /\ UNCHANGED <<callVars, held, marked>>

-----------------------------------------------------------------------------
Steps(c) == Open(c) \/ Granted(c) \/ Refused(c) \/ Elapse(c) \/ Record(c) \/ Unwind(c)

Next ==
    \/ \E c \in Callers :
          \/ \E s \in Requests, t \in LockTypes : Acquire(c, s, t)
          \/ Steps(c)
          \/ \E h \in held[c] : Release(c, h) \/ Drop(c, h)
          \/ \E h \in held[c], t \in LockTypes : Upgrade(c, h, t)
    \/ \E p \in Paths : Age(p) \/ ForceUnlock(p)
    \/ CleanupIdentify \/ CleanupRemove

Spec == Init /\ [][Next]_vars

-----------------------------------------------------------------------------
(* Properties                                                              *)

TypeOK ==
    /\ pc \in [Callers -> {"idle", "open", "flock", "record", "unwind"}]
    /\ asked \in [Callers -> Seq(Paths)]
    /\ type \in [Callers -> LockTypes]
    /\ expired \in [Callers -> BOOLEAN]
    /\ fd \in [Callers -> 0..MaxRemovals]
    /\ held \in [Callers -> SUBSET Handle]
    /\ outcome \in [Callers -> {"none", "Ok", "Err"}]
    /\ exists \in [Files -> BOOLEAN] /\ gen \in [Files -> 0..MaxRemovals]
    /\ locks \in [Paths -> {"none", "recent", "old"}]
    /\ marked \in SUBSET Paths

\* A call that returns Ok has a lock on every path asked for, one that returns Err has
\* none: a timeout half-way through acquire_multiple_ordered leaves nothing locked.
AllOrNothing ==
    \A c \in Callers :
        /\ outcome[c] = "Ok" => {h.path : h \in held[c]} = {asked[c][i] : i \in 1..Len(asked[c])}
        /\ outcome[c] = "Err" => held[c] = {}

\* A call has all of its locks or none, whatever times out or is cleaned up
\* (file_lock.rs, acquire_multiple_ordered).
LocksAllOrNothing == TypeOK /\ AllOrNothing

\* c keeps trying for a lock that d holds.
WaitsFor(c, d) ==
    /\ pc[c] \in {"open", "flock"} /\ type[c] = "Exclusive"
    /\ \E h \in held[d] :
          /\ h.flocked /\ LockFileOf[h.path] = LockFileOf[Wanted(c)]
          /\ h.gen = gen[LockFileOf[Wanted(c)]]

\* "Sort paths to prevent deadlocks": no set of callers each of which waits for a lock
\* that another of them holds.
NoWaitCycle ==
    \A S \in SUBSET Callers : S # {} => \E c \in S : \A d \in S : ~WaitsFor(c, d)
=============================================================================
