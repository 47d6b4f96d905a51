--------------------------- MODULE MultiTierCache ---------------------------
(***************************************************************************)
(* MultiTierCache of src/src/cache.rs: an L1 DashMap above an L2 LruCache, *)
(* with promotion, demotion, invalidation, clear, ageing and metrics.      *)
(*                                                                         *)
(* Clones share their tiers, so any operations may overlap; with Mutexed   *)
(* there is one tokio Mutex around the cache, as EnhancedRegexProcessor    *)
(* has it.  A DashMap entry guard blocks its shard; every key has its own. *)
(* A value is the number of the put that wrote it, which also orders the   *)
(* created_at times.  The L3 operations of the code do nothing: L3 is      *)
(* always empty.  Which entry is the least recently used is left open, and *)
(* so are the counters of CacheMetrics: only their lock matters here.      *)
(***************************************************************************)
EXTENDS Integers, FiniteSets

CONSTANTS
    Callers, Keys,
    L1Max, L2Max,  \* l1_max_entries, l2_max_entries
    Threshold,     \* promotion_threshold
    MaxPuts,       \* bound on the number of puts
    Mutexed        \* is every operation made under one Mutex?

ASSUME CacheAssumption ==
    /\ {L1Max, L2Max, Threshold} \subseteq Nat \ {0}
    /\ MaxPuts \in Nat /\ Mutexed \in BOOLEAN
    /\ IsFiniteSet(Keys)

Free == "free"
NoKey == "nokey"

VARIABLES
    l1, l2,   \* the entry of each key in each tier
    shard,    \* who holds the DashMap guard of each key
    metrics,  \* who holds the metrics lock
    pc, key,  \* each caller's operation: where it is, and its key
    entry,    \* the entry it carries: to be inserted in L1, or found in L2
    victim,   \* the entry it is demoting: a key and what was found there
    puts,     \* number of puts so far
    latest,   \* history: the put that wrote the current value of each key, 0 if none
    dropped   \* history: keys whose current value L2 had no room for

tierVars == <<l1, l2, shard, metrics, pc, key, entry, victim, puts, latest, dropped>>
tiers == <<l1, l2>>
lockVars == <<shard, metrics>>
history == <<puts, latest, dropped>>

NoEntry == [val |-> 0, count |-> 0]
Entry == {NoEntry} \cup [val : 1..MaxPuts, count : 1..Threshold]
InL1 == {k \in Keys : l1[k] # NoEntry}
InL2 == {k \in Keys : l2[k] # NoEntry}
NoVictim == [keys |-> {}, e |-> NoEntry]

TierInit ==
    /\ l1 = [k \in Keys |-> NoEntry] /\ l2 = [k \in Keys |-> NoEntry]
    /\ shard = [k \in Keys |-> Free] /\ metrics = Free
    /\ pc = [c \in Callers |-> "idle"]
    /\ key = [c \in Callers |-> NoKey]
    /\ entry = [c \in Callers |-> NoEntry]
    /\ victim = [c \in Callers |-> NoVictim]
    /\ puts = 0 /\ latest = [k \in Keys |-> 0] /\ dropped = {}

-----------------------------------------------------------------------------
Goto(c, l) == pc' = [pc EXCEPT ![c] = l]

\* An operation starts; put, clear and evict_older_than borrow the cache mutably, but a
\* clone shares its contents.
Begin(c, k, l) ==
    /\ pc[c] = "idle"
    /\ Mutexed => \A d \in Callers : pc[d] = "idle"
    /\ Goto(c, l)
    /\ key' = [key EXCEPT ![c] = k]
    /\ UNCHANGED <<tiers, lockVars, entry, victim, puts, latest, dropped>>

BeginGet(c, k) == Begin(c, k, "get")
BeginInvalidate(c, k) == Begin(c, k, "invalidate")
BeginMetrics(c) == Begin(c, NoKey, "metrics")
BeginClear(c) == Begin(c, NoKey, "clear")
BeginEvict(c) == Begin(c, NoKey, "age")

\* CacheEntry::new
NewEntry(v) == [val |-> v, count |-> 1]

\* put makes the entry first; the value counts as written from here on.
BeginPut(c, k) ==
    /\ pc[c] = "idle" /\ puts < MaxPuts
    /\ Mutexed => \A d \in Callers : pc[d] = "idle"
    /\ Goto(c, "room")
    /\ key' = [key EXCEPT ![c] = k]
    /\ puts' = puts + 1
    /\ entry' = [entry EXCEPT ![c] = NewEntry(puts + 1)]
    /\ latest' = [latest EXCEPT ![k] = puts + 1]
    /\ dropped' = dropped \ {k}
    /\ UNCHANGED <<tiers, lockVars, victim>>

\* The operation returns; its locals are gone.
Return(c) ==
    /\ Goto(c, "idle")
    /\ key' = [key EXCEPT ![c] = NoKey]
    /\ entry' = [entry EXCEPT ![c] = NoEntry]
    /\ UNCHANGED victim

\* access_count only matters up to the threshold.
Accessed(e) == [e EXCEPT !.count = IF @ < Threshold THEN @ + 1 ELSE @]

-----------------------------------------------------------------------------
(* get                                                                     *)

\* l1_cache.get_mut: the guard stays while the metrics lock is awaited.
GetL1Hit(c) ==
    /\ pc[c] = "get" /\ shard[key[c]] = Free /\ key[c] \in InL1
    /\ l1' = [l1 EXCEPT ![key[c]] = Accessed(@)]
    /\ shard' = [shard EXCEPT ![key[c]] = c]
    /\ Goto(c, "hit")
    /\ UNCHANGED <<l2, metrics, key, entry, victim, history>>

GetL1Return(c) ==
    /\ pc[c] = "hit" /\ metrics = Free
    /\ shard' = [shard EXCEPT ![key[c]] = Free]
    /\ Return(c)
    /\ UNCHANGED <<history, tiers, metrics>>

GetL1Miss(c) ==
    /\ pc[c] = "get" /\ shard[key[c]] = Free /\ key[c] \notin InL1
    /\ Goto(c, "l2")
    /\ UNCHANGED <<tiers, lockVars, key, entry, victim, history>>

\* Under the L2 lock; an entry used often enough is promoted once the lock is released.
GetL2Hit(c) ==
    /\ pc[c] = "l2" /\ key[c] \in InL2
    /\ LET e == Accessed(l2[key[c]])
       IN  /\ l2' = [l2 EXCEPT ![key[c]] = e]
           /\ entry' = [entry EXCEPT ![c] = e]
           /\ Goto(c, IF e.count >= Threshold THEN "promote" ELSE "count")
    /\ UNCHANGED <<l1, lockVars, key, victim, history>>

\* Nothing in L3 either: what is left is to count the miss.
GetMiss(c) ==
    /\ pc[c] = "l2" /\ key[c] \notin InL2
    /\ Goto(c, "count")
    /\ UNCHANGED <<tiers, lockVars, key, entry, victim, history>>

\* promote_to_l1 has counted the promotion: "Remove from L2 after promotion".
PopPromoted(c) ==
    /\ pc[c] = "pop" /\ metrics = Free
    /\ l2' = [l2 EXCEPT ![key[c]] = NoEntry]
    /\ Goto(c, "count")
    /\ UNCHANGED <<l1, lockVars, key, entry, victim, history>>

\* The hit in L2, or the miss, is counted.
GetL2Return(c) ==
    /\ pc[c] = "count" /\ metrics = Free
    /\ Return(c)
    /\ UNCHANGED <<history, tiers, lockVars>>

-----------------------------------------------------------------------------
(* Making room in L1 and inserting: the end of put and of promote_to_l1    *)

NoGuards == \A k \in Keys : shard[k] = Free
Inserting(c) == pc[c] \in {"room", "promote"}
\* Where to go after the insertion.
Then(c) == IF pc[c] = "room" THEN "insert" ELSE "promoteinsert"

\* l1_cache.len() and the scan of find_lru_in_l1 lock every shard in turn.
Full == Cardinality(InL1) >= L1Max

RoomInL1(c) ==
    /\ Inserting(c) /\ NoGuards /\ ~Full
    /\ Goto(c, Then(c))
    /\ UNCHANGED <<tiers, lockVars, key, entry, victim, history>>

ChooseVictim(c, k) ==
    /\ Inserting(c) /\ NoGuards /\ Full /\ k \in InL1
    /\ victim' = [victim EXCEPT ![c] = [keys |-> {k}, e |-> NoEntry]]
    /\ Goto(c, IF pc[c] = "room" THEN "evict" ELSE "promoteevict")
    /\ UNCHANGED <<tiers, lockVars, key, entry, history>>

\* l1_cache.remove of the victim; if another operation has removed it first there is
\* nothing to demote.
RemoveVictim(c) ==
    /\ pc[c] \in {"evict", "promoteevict"}
    /\ \E k \in victim[c].keys :
          LET found == k \in InL1
          IN  /\ shard[k] = Free
              /\ l1' = [l1 EXCEPT ![k] = NoEntry]
              /\ victim' = [victim EXCEPT ![c] = IF found THEN [@ EXCEPT !.e = l1[k]] ELSE NoVictim]
              /\ Goto(c, IF pc[c] = "evict"
                         THEN IF found THEN "demote" ELSE "insert"
                         ELSE IF found THEN "promotedemote" ELSE "promoteinsert")
    /\ UNCHANGED <<l2, lockVars, key, entry, history>>

\* LruCache::push: the key's old entry is replaced, else a full L2 drops one.
Push(k, e) ==
    LET out == IF k \in InL2 \/ Cardinality(InL2) < L2Max THEN {{}} ELSE {{j} : j \in InL2}
    IN  \E gone \in out :
          /\ l2' = [j \in Keys |-> IF j = k THEN e ELSE IF j \in gone THEN NoEntry ELSE l2[j]]
          /\ dropped' = dropped \cup {j \in gone : j \notin InL1 \/ l1[j].val # latest[j]}

\* Mutant: the evicted entry is not kept in L2.
DemoteForgets(c) ==
    /\ pc[c] \in {"demote", "promotedemote"}
    /\ victim' = [victim EXCEPT ![c] = NoVictim]
    /\ Goto(c, IF pc[c] = "demote" THEN "evicted" ELSE "promoteevicted")
    /\ UNCHANGED <<tiers, lockVars, key, entry, history>>

\* demote_to_l2, under the L2 lock.
Demote(c) ==
    /\ pc[c] \in {"demote", "promotedemote"}
    /\ \E k \in victim[c].keys : Push(k, victim[c].e)
    /\ victim' = [victim EXCEPT ![c] = NoVictim]
    /\ Goto(c, IF pc[c] = "demote" THEN "evicted" ELSE "promoteevicted")
    /\ UNCHANGED <<l1, lockVars, key, entry, puts, latest>>

\* The eviction is counted once the L2 lock is released.
CountEviction(c) ==
    /\ pc[c] \in {"evicted", "promoteevicted"} /\ metrics = Free
    /\ Goto(c, IF pc[c] = "evicted" THEN "insert" ELSE "promoteinsert")
    /\ UNCHANGED <<tiers, lockVars, key, entry, victim, history>>

PutInsert(c) ==
    /\ pc[c] = "insert" /\ shard[key[c]] = Free
    /\ l1' = [l1 EXCEPT ![key[c]] = entry[c]]
    /\ Return(c)
    /\ UNCHANGED <<history, l2, lockVars>>

PromoteInsert(c) ==
    /\ pc[c] = "promoteinsert" /\ shard[key[c]] = Free
    /\ l1' = [l1 EXCEPT ![key[c]] = entry[c]]
    /\ Goto(c, "pop")
    /\ UNCHANGED <<l2, lockVars, key, entry, victim, history>>

-----------------------------------------------------------------------------
(* invalidate, clear, evict_older_than, get_metrics                        *)

\* The keys' values are no longer current.
Forget(K) ==
    /\ latest' = [k \in Keys |-> IF k \in K THEN 0 ELSE latest[k]]
    /\ dropped' = dropped \ K
    /\ UNCHANGED puts

InvalidateL1(c) ==
    /\ pc[c] = "invalidate" /\ shard[key[c]] = Free
    /\ l1' = [l1 EXCEPT ![key[c]] = NoEntry]
    /\ Goto(c, "invalidate2")
    /\ UNCHANGED <<l2, lockVars, key, entry, victim, history>>

InvalidateL2(c) ==
    /\ pc[c] = "invalidate2"
    /\ l2' = [l2 EXCEPT ![key[c]] = NoEntry]
    /\ Forget({key[c]})
    /\ Return(c)
    /\ UNCHANGED <<l1, lockVars>>

ClearL1(c) ==
    /\ pc[c] = "clear" /\ NoGuards
    /\ l1' = [k \in Keys |-> NoEntry]
    /\ Goto(c, "clear2")
    /\ UNCHANGED <<l2, lockVars, key, entry, victim, history>>

ClearL2(c) ==
    /\ pc[c] = "clear2"
    /\ l2' = [k \in Keys |-> NoEntry]
    /\ Forget(Keys)
    /\ Goto(c, "cleared")
    /\ UNCHANGED <<l1, lockVars, key, entry, victim>>

ClearMetrics(c) ==
    /\ pc[c] = "cleared" /\ metrics = Free
    /\ Return(c)
    /\ UNCHANGED <<tiers, lockVars, history>>

\* The puts up to cutoff are too old: their keys in L1 are collected, then removed,
\* then L2 is swept.
EvictScan(c) ==
    /\ pc[c] = "age" /\ NoGuards
    /\ \E cutoff \in 0..puts :
          /\ victim' = [victim EXCEPT ![c].keys = {k \in InL1 : l1[k].val <= cutoff}]
          /\ entry' = [entry EXCEPT ![c].val = cutoff]
    /\ Goto(c, "age1")
    /\ UNCHANGED <<tiers, lockVars, key, history>>

EvictL1(c) ==
    /\ pc[c] = "age1"
    /\ \/ /\ victim[c].keys = {}
          /\ Goto(c, "age2")
          /\ UNCHANGED <<l1, victim>>
       \/ \E k \in victim[c].keys :
             /\ shard[k] = Free
             /\ l1' = [l1 EXCEPT ![k] = NoEntry]
             /\ victim' = [victim EXCEPT ![c].keys = @ \ {k}]
             /\ UNCHANGED pc
    /\ UNCHANGED <<l2, lockVars, key, entry, history>>

EvictL2(c) ==
    /\ pc[c] = "age2"
    /\ l2' = [k \in Keys |-> IF l2[k].val <= entry[c].val THEN NoEntry ELSE l2[k]]
    /\ Forget({k \in Keys : latest[k] <= entry[c].val})
    /\ Return(c)
    /\ UNCHANGED <<l1, lockVars>>

GetMetrics(c) ==
    /\ pc[c] = "metrics" /\ metrics = Free
    /\ metrics' = c
    /\ Goto(c, "sizes")
    /\ UNCHANGED <<tiers, shard, key, entry, victim, history>>

\* l1_cache.len(), under the metrics lock.
Sizes(c) ==
    /\ pc[c] = "sizes" /\ NoGuards
    /\ metrics' = Free
    /\ Return(c)
    /\ UNCHANGED <<tiers, shard, history>>

-----------------------------------------------------------------------------
Run(c) ==
    \/ GetL1Hit(c) \/ GetL1Return(c) \/ GetL1Miss(c) \/ GetL2Hit(c) \/ GetMiss(c)
    \/ PopPromoted(c) \/ GetL2Return(c)
    \/ RoomInL1(c) \/ (\E k \in Keys : ChooseVictim(c, k)) \/ RemoveVictim(c)
    \/ Demote(c) \/ CountEviction(c)
    \/ PutInsert(c) \/ PromoteInsert(c)
    \/ InvalidateL1(c) \/ InvalidateL2(c) \/ ClearL1(c) \/ ClearL2(c) \/ ClearMetrics(c)
    \/ EvictScan(c) \/ EvictL1(c) \/ EvictL2(c) \/ GetMetrics(c) \/ Sizes(c)

TierNext ==
    \E c \in Callers :
        \/ \E k \in Keys : BeginGet(c, k) \/ BeginPut(c, k) \/ BeginInvalidate(c, k)
        \/ BeginMetrics(c) \/ BeginClear(c) \/ BeginEvict(c)
        \/ Run(c)

TierSpec == TierInit /\ [][TierNext]_tierVars

-----------------------------------------------------------------------------
(* Properties                                                              *)

Labels ==
    {"idle", "get", "hit", "l2", "promote", "pop", "count", "room", "insert", "promoteinsert",
     "evict", "promoteevict", "demote", "promotedemote", "evicted", "promoteevicted",
     "invalidate", "invalidate2", "clear", "clear2", "cleared", "age", "age1", "age2",
     "metrics", "sizes"}

TierTypeOK ==
    /\ l1 \in [Keys -> Entry] /\ l2 \in [Keys -> Entry]
    /\ shard \in [Keys -> Callers \cup {Free}] /\ metrics \in Callers \cup {Free}
    /\ pc \in [Callers -> Labels] /\ key \in [Callers -> Keys \cup {NoKey}]
    /\ entry \in [Callers -> [val : 0..MaxPuts, count : 0..Threshold]]
    /\ victim \in [Callers -> [keys : SUBSET Keys, e : Entry]]
    /\ puts \in 0..MaxPuts /\ latest \in [Keys -> 0..MaxPuts] /\ dropped \in SUBSET Keys
    /\ Cardinality(InL1) <= L1Max /\ Cardinality(InL2) <= L2Max

Quiet == \A c \in Callers : pc[c] = "idle"

\* Between operations the copy a get would find is the one the last put wrote: no older
\* copy left in L2 comes to the surface, and nothing invalidated, cleared or aged is
\* found at all.
TopCopyIsLatest ==
    Quiet => \A k \in Keys :
        /\ k \in InL1 => l1[k].val = latest[k]
        /\ k \in InL2 \ InL1 => l2[k].val = latest[k]

\* Demotion and promotion lose nothing: a current value is in one of the tiers unless
\* L2 had no room for it.
NothingLost ==
    Quiet => \A k \in Keys : latest[k] # 0 /\ k \notin dropped => k \in InL1 \cup InL2

\* Promotion and demotion keep both tiers within their limits, lose no entry and
\* leave no older copy where a get would find it (cache.rs, get and put).
TiersTruthful == TierTypeOK /\ TopCopyIsLatest /\ NothingLost

=============================================================================
