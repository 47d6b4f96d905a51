---------------------------- MODULE NegativeCache ----------------------------
(***************************************************************************)
(* NegativeCache of src/src/negative_cache.rs as                           *)
(* filter_files_with_negative_cache (src/src/filesystem.rs) uses it: files *)
(* that did not match are recorded, in a Bloom filter and, while there is  *)
(* room, in a set, and are not matched again.  The caller holds the cache  *)
(* exclusively.  It is keyed by the path alone, so that a caller who keeps *)
(* it while the filter's answer changes is told the old one.               *)
(***************************************************************************)
EXTENDS Integers, FiniteSets

CONSTANTS
    Names,          \* paths
    MaxConfirmed    \* max_confirmed_entries

ASSUME NegAssumption == MaxConfirmed \in Nat

VARIABLES
    collides,       \* the keys whose bits another key of the Bloom filter sets
    bloom, confirmed,
    recorded_misses,
    answers,        \* what the file filter matches at present
    stale,          \* history: paths whose answer has changed since they were recorded
    decided         \* the last file asked about, and whether it was kept

negVars == <<collides, bloom, confirmed, recorded_misses, answers, stale, decided>>

\* Any key may collide with any other; the relation is fixed by the hashes.
NegInit ==
    /\ collides \in SUBSET {p \in Names \X Names : p[1] # p[2]}
    /\ bloom = {} /\ confirmed = {} /\ recorded_misses = 0
    /\ answers \in SUBSET Names
    /\ stale = {} /\ decided = <<>>

\* The Bloom filter: it has every key that was inserted, and perhaps others.
BloomContains(n) == n \in bloom \/ \E m \in bloom : <<m, n>> \in collides

ProbablyAbsent(n) == BloomContains(n)
DefinitelyAbsent(n) == n \in confirmed

RecordMiss(n) ==
    /\ recorded_misses' = recorded_misses + 1
    /\ bloom' = bloom \cup {n}
    /\ confirmed' = IF Cardinality(confirmed) < MaxConfirmed THEN confirmed \cup {n} ELSE confirmed

\* One file of filter_files_with_negative_cache.
FilterFile(n) ==
    /\ \/ /\ ProbablyAbsent(n) \/ DefinitelyAbsent(n)
          /\ decided' = <<n, FALSE>> /\ UNCHANGED <<bloom, confirmed, recorded_misses, stale>>
       \/ /\ ~ProbablyAbsent(n) /\ ~DefinitelyAbsent(n) /\ n \in answers
          /\ decided' = <<n, TRUE>> /\ UNCHANGED <<bloom, confirmed, recorded_misses, stale>>
       \/ /\ ~ProbablyAbsent(n) /\ ~DefinitelyAbsent(n) /\ n \notin answers
          /\ RecordMiss(n) /\ stale' = stale \ {n} /\ decided' = <<n, FALSE>>
    /\ UNCHANGED <<collides, answers>>

Reset ==
    /\ bloom # {}
    /\ bloom' = {} /\ confirmed' = {} /\ recorded_misses' = 0
    /\ stale' = {} /\ decided' = <<>>
    /\ UNCHANGED <<collides, answers>>

\* The file, or the filter, changes.
ChangeAnswer(n) ==
    /\ answers' = (answers \cup {n}) \ (answers \cap {n})
    /\ stale' = IF n \in bloom THEN stale \cup {n} ELSE stale
    /\ decided' = <<>>
    /\ UNCHANGED <<collides, bloom, confirmed, recorded_misses>>

NegNext == Reset \/ \E n \in Names : FilterFile(n) \/ ChangeAnswer(n)

NegSpec == NegInit /\ [][NegNext]_negVars

-----------------------------------------------------------------------------
\* A file that matches is left out only if its bits were set by another one or
\* if it matched after it had been recorded; a file that is kept matches; a
\* miss is recorded once, however often it is asked about, and the confirmed
\* ones are among the Bloom filter's, within their limit
\* (filter_files_with_negative_cache, record_miss).
NegativesExplained ==
    /\ decided # <<>> /\ ~decided[2] /\ decided[1] \in answers
         => decided[1] \in stale \/ \E m \in bloom : <<m, decided[1]>> \in collides
    /\ decided # <<>> /\ decided[2] => decided[1] \in answers
    /\ recorded_misses = Cardinality(bloom)
    /\ confirmed \subseteq bloom /\ Cardinality(confirmed) <= MaxConfirmed
=============================================================================
