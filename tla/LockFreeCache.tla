---------------------------- MODULE LockFreeCache ----------------------------
(***************************************************************************)
(* LockFreeCache of src/src/lock_free_cache.rs: a DashMap with a size      *)
(* limit.  Each operation on the map is atomic, insert as a whole is not:  *)
(* it asks whether the key is new and the map full, looks for a victim,    *)
(* removes it and inserts, and other threads act in between.  The counter  *)
(* that goes with a change of the map is bumped in the same step.          *)
(*                                                                         *)
(* Times are in milliseconds, so several accesses share one; Tick lets     *)
(* them pass.  Values are left out, the map holds the entry of the last    *)
(* insert of a key, and so are hits and misses, which nothing depends on.  *)
(***************************************************************************)
EXTENDS Integers, FiniteSets

CONSTANTS
    Threads,
    LfKeys,
    LfMax,       \* max_size
    LastTime,    \* bound on the clock
    MaxInserts   \* bound on the calls of insert

NoLfKey == "nokey"

ASSUME LfAssumption == IsFiniteSet(Threads) /\ LfMax \in Nat

VARIABLES
    storage,     \* the entries: when each was created and last accessed
    clock,
    stats,       \* evictions, inserts
    at, on,      \* each thread: the step it is at and the key it works on
    chosen,      \* the victims it has chosen
    insertsBegun,
    uncounted,   \* history: changes of size no counter tells of
    overlaps     \* history: inserts that were in progress together

threadVars == <<at, on, chosen>>
lfVars == <<storage, clock, stats, threadVars, insertsBegun, uncounted, overlaps>>

Stored == DOMAIN storage
Without(S) == [k \in Stored \ S |-> storage[k]]

LfInit ==
    /\ storage = [k \in {} |-> 0]
    /\ clock = 0
    /\ stats = [evictions |-> 0, inserts |-> 0]
    /\ at = [t \in Threads |-> "idle"] /\ on = [t \in Threads |-> NoLfKey]
    /\ chosen = [t \in Threads |-> {}]
    /\ insertsBegun = 0 /\ uncounted = 0 /\ overlaps = 0

Tick ==
    /\ clock < LastTime /\ clock' = clock + 1
    /\ UNCHANGED <<storage, stats, threadVars, insertsBegun, uncounted, overlaps>>

GoTo(t, place) == at' = [at EXCEPT ![t] = place]

\* get touches the entry it finds.
Access(k) ==
    storage' = IF k \in Stored THEN [storage EXCEPT ![k].accessed = clock] ELSE storage

Get(t, k) ==
    /\ at[t] = "idle" /\ Access(k)
    /\ UNCHANGED <<clock, stats, threadVars, insertsBegun, uncounted, overlaps>>

BeginInsert(t, k) ==
    /\ insertsBegun < MaxInserts /\ insertsBegun' = insertsBegun + 1
    /\ GoTo(t, "check") /\ on' = [on EXCEPT ![t] = k]
    /\ overlaps' = IF \E u \in Threads \ {t} : at[u] \notin {"idle", "expire"} THEN overlaps + 1 ELSE overlaps

\* insert; insert_bulk is one after the other.
Insert(t, k) ==
    /\ at[t] = "idle" /\ BeginInsert(t, k)
    /\ UNCHANGED <<storage, clock, stats, chosen, uncounted>>

\* get_or_compute and its async twin: what get does not find is computed and
\* inserted, by as many threads as have missed it.
GetOrCompute(t, k) ==
    /\ at[t] = "idle" /\ Access(k)
    /\ IF k \in Stored THEN UNCHANGED <<at, on, insertsBegun, overlaps>> ELSE BeginInsert(t, k)
    /\ UNCHANGED <<clock, stats, chosen, uncounted>>

\* A new key, and no room for it.
NeedsRoom(k) == k \notin Stored /\ Cardinality(Stored) >= LfMax

CheckRoom(t) ==
    /\ at[t] = "check"
    /\ GoTo(t, IF NeedsRoom(on[t]) THEN "scan" ELSE "insert")
    /\ UNCHANGED <<storage, clock, stats, on, chosen, insertsBegun, uncounted, overlaps>>

\* evict_lru looks for the entry accessed longest ago; of several any may be
\* met first.
FindLru(t) ==
    /\ at[t] = "scan"
    /\ \E V \in {{k} : k \in {j \in Stored : \A i \in Stored : storage[j].accessed <= storage[i].accessed}}
              \cup {W \in {{}} : Stored = {}} : chosen' = [chosen EXCEPT ![t] = V]
    /\ GoTo(t, "evict")
    /\ UNCHANGED <<storage, clock, stats, on, insertsBegun, uncounted, overlaps>>

\* Removal of the chosen keys, those that are still there.
Evict(S) ==
    /\ storage' = Without(S)
    /\ stats' = [stats EXCEPT !.evictions = @ + Cardinality(S \cap Stored)]

EvictLru(t) ==
    /\ at[t] = "evict" /\ Evict(chosen[t])
    /\ chosen' = [chosen EXCEPT ![t] = {}] /\ GoTo(t, "insert")
    /\ UNCHANGED <<clock, on, insertsBegun, uncounted, overlaps>>

StoreEntry(t) ==
    /\ at[t] = "insert"
    /\ storage' = [k \in Stored \cup {on[t]} |->
                      IF k = on[t] THEN [created |-> clock, accessed |-> clock] ELSE storage[k]]
    /\ stats' = [stats EXCEPT !.inserts = IF on[t] \in Stored THEN @ ELSE @ + 1]
    /\ GoTo(t, "idle") /\ on' = [on EXCEPT ![t] = NoLfKey]
    /\ UNCHANGED <<clock, chosen, insertsBegun, uncounted, overlaps>>

Remove(t, k) ==
    /\ at[t] = "idle"
    /\ storage' = Without({k})
    /\ uncounted' = uncounted - Cardinality({k} \cap Stored)
    /\ UNCHANGED <<clock, stats, threadVars, insertsBegun, overlaps>>

Clear(t) ==
    /\ at[t] = "idle"
    /\ storage' = Without(Stored)
    /\ uncounted' = uncounted - Cardinality(Stored)
    /\ UNCHANGED <<clock, stats, threadVars, insertsBegun, overlaps>>

ResetCounters(t) ==
    /\ at[t] = "idle"
    /\ stats' = [f \in DOMAIN stats |-> 0]
    /\ uncounted' = uncounted + stats.inserts - stats.evictions
    /\ UNCHANGED <<storage, clock, threadVars, insertsBegun, overlaps>>

\* evict_expired collects the entries created before the cutoff, and removes
\* them whatever has become of them since.
CollectExpired(t) ==
    /\ at[t] = "idle" /\ \E k \in Stored : storage[k].created < clock
    /\ chosen' = [chosen EXCEPT ![t] = {k \in Stored : storage[k].created < clock}]
    /\ GoTo(t, "expire")
    /\ UNCHANGED <<storage, clock, stats, on, insertsBegun, uncounted, overlaps>>

RemoveExpired(t) ==
    /\ at[t] = "expire" /\ Evict(chosen[t])
    /\ chosen' = [chosen EXCEPT ![t] = {}] /\ GoTo(t, "idle")
    /\ UNCHANGED <<clock, on, insertsBegun, uncounted, overlaps>>

LfStep(t) == CheckRoom(t) \/ FindLru(t) \/ EvictLru(t) \/ StoreEntry(t) \/ RemoveExpired(t)

LfNext ==
    \/ Tick
    \/ \E t \in Threads :
         \/ \E k \in LfKeys : Get(t, k) \/ Insert(t, k) \/ GetOrCompute(t, k) \/ Remove(t, k)
         \/ Clear(t) \/ ResetCounters(t) \/ CollectExpired(t) \/ LfStep(t)

LfSpec == LfInit /\ [][LfNext]_lfVars

-----------------------------------------------------------------------------
\* The cache holds max_size entries (one, when that is zero), and one more for
\* each insert that overlapped another: two inserts may find the same room, or
\* choose the same victim, and nothing ever makes up for it (insert, evict_lru).
SizeExplained == Cardinality(Stored) <= (IF LfMax = 0 THEN 1 ELSE LfMax) + overlaps

\* inserts less evictions is the size, apart from what remove, clear and
\* reset_stats do without counting (insert, evict_lru, evict_expired).
CountersExplainSize == stats.inserts - stats.evictions + uncounted = Cardinality(Stored)
=============================================================================
