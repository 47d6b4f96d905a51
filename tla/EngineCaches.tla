---------------------------- MODULE EngineCaches ----------------------------
(***************************************************************************)
(* What one HookExecutionEngine remembers from hook to hook                *)
(* (src/src/execution.rs): the results of hooks that passed, the           *)
(* environments it has set up and, with incremental detection, the file    *)
(* change detector (src/src/file_change_detector.rs) all hooks share.      *)
(* Hooks run one after the other, as on the sequential path; the files     *)
(* they look at are edited at any time.                                    *)
(*                                                                         *)
(* The clock counts ticks, two to a second.  A file's modification time is *)
(* a tick, the result cache sees its second.  Contents are the number of   *)
(* the edit that wrote them.  Everything is kept in memory: persisting the *)
(* detector's cache is not implemented, and loads nothing.                 *)
(***************************************************************************)
EXTENDS Integers, Sequences, FiniteSets

CONSTANTS
    EngineHooks,
    Watched,      \* the files every hook is run for, a sequence
    Needs,        \* language and dependencies of each hook
    RepositoryOf, \* the repository each hook comes from
    CacheSize,    \* cache_size of the detector
    ResultsKept,  \* entries after which expired results are dropped
    Ttl,          \* ticks in the hour that a result is good for
    LastTick, MaxEdits, MaxHookRuns  \* bounds

WatchedFiles == {Watched[k] : k \in 1..Len(Watched)}
Missing == 0
Gone == -1      \* content of a file that is missing
Small == 1
Large == 2      \* a size of 1 MB or more: the time is not hashed
Sec(tick) == tick \div 2

ASSUME EngineAssumption == CacheSize \in Nat /\ Watched \in Seq(WatchedFiles)

VARIABLES
    now, disk, edits,    \* the clock; content, size and mtime of each file; edits so far
    hookRuns,            \* hooks run so far
    incremental,         \* incremental_config: none, or its watch and force flags
    results,             \* hook_cache: what is known under each hook and files hash
    environments,        \* environment_cache
    made, known, changed_set,  \* the detector: is there one; file_cache and changed_files
    events,              \* file system events on their way to the watcher
    stepAt, hookAt, left, changedFiles,  \* the hook being run, and its files
    answer,              \* where the last answer came from, until a file is edited
    firstRun,            \* the files each hook has processed in its first run
    blurred,             \* history: files edited so that their stamp may not tell
    handedOut            \* history: contents of each file the detector has reported changed

worldVars == <<now, disk, edits, blurred>>
detectorVars == <<made, known, changed_set, handedOut>>
runVars == <<stepAt, hookAt, left, changedFiles, hookRuns>>
engineVars == <<worldVars, incremental, results, environments, detectorVars, events, runVars,
                answer, firstRun>>

Incrementals == {<<>>} \cup {<<c>> : c \in [watch : BOOLEAN, force : BOOLEAN]}
NotRun == {"notrun"}
NoAnswer == [from |-> "none", contents |-> <<>>]

EngineInit ==
    /\ now = 0 /\ edits = 0 /\ hookRuns = 0
    /\ disk = [f \in WatchedFiles |-> [content |-> 0, size |-> Small, mtime |-> 0]]
    /\ incremental \in Incrementals
    /\ results = {} /\ environments = {} /\ known = {} /\ changed_set = {} /\ events = {} /\ made = FALSE
    /\ stepAt = "idle" /\ hookAt = CHOOSE h \in EngineHooks : TRUE
    /\ left = <<>> /\ changedFiles = <<>>
    /\ answer = NoAnswer
    /\ firstRun = [h \in EngineHooks |-> NotRun]
    /\ blurred = {} /\ handedOut = [f \in WatchedFiles |-> {}]

-----------------------------------------------------------------------------
(* The world: time passes, files are edited, the watcher hears of it.        *)

PassTime ==
    /\ now < LastTick /\ now' = now + 1
    /\ UNCHANGED <<disk, edits, blurred, incremental, results, environments, detectorVars, events,
                   runVars, answer, firstRun>>

\* From the first hook on.
Watching == made /\ incremental[1].watch

\* An edit is blurred when the file was already written in this second, is
\* large, or is being looked at by a hook.
EditFile(f, size) ==
    /\ edits < MaxEdits /\ edits' = edits + 1
    /\ disk[f].size # Missing \/ size # Missing
    /\ disk' = [disk EXCEPT ![f] =
                   [content |-> IF size = Missing THEN Gone ELSE edits', size |-> size, mtime |-> now]]
    /\ blurred' = IF Sec(disk[f].mtime) = Sec(now) \/ size = Large \/ disk[f].size = Large
                     \/ stepAt # "idle"
                  THEN blurred \cup {f} ELSE blurred
    /\ answer' = IF stepAt = "idle" THEN NoAnswer ELSE answer
    /\ events' = IF Watching THEN events \cup {f} ELSE events
    /\ UNCHANGED <<now, incremental, results, environments, detectorVars, runVars, firstRun>>

\* The watcher's callback (start_watching).
WatcherEvent(f) ==
    /\ f \in events /\ events' = events \ {f}
    /\ changed_set' = changed_set \cup {f}
    /\ UNCHANGED <<worldVars, incremental, results, environments, made, known, handedOut, runVars, answer, firstRun>>

-----------------------------------------------------------------------------
(* apply_incremental_detection and the detector.                             *)

\* create_cached_file_info reads the file's times; its hash is compared nowhere.
CachedFileInfo(f) == [file |-> f, mtime |-> disk[f].mtime, size |-> disk[f].size, at |-> now]

\* Called with cache_size entries or more, does nothing for just so many.
EvictOldEntries(K) ==
    IF Cardinality(K) <= CacheSize THEN {K}
    ELSE LET fresh == {i \in K : i.at > now - Ttl}
             excess == Cardinality(fresh) - CacheSize
         IN  IF excess <= 0 THEN {fresh}
             ELSE {fresh \ O : O \in {O \in SUBSET fresh : Cardinality(O) = excess
                                        /\ \A i \in O, j \in fresh \ O : i.at <= j.at}}

UpdateFileCache(f) ==
    \E K \in IF Cardinality(known) >= CacheSize THEN EvictOldEntries(known) ELSE {known} :
        known' = {i \in K : i.file # f} \cup {CachedFileInfo(f)}

InChangedSet(f) == incremental[1].watch /\ f \in changed_set

\* Same time and same size as when it was last looked at.
SameAsKnown(f) == \E i \in known : i.file = f /\ i.mtime = disk[f].mtime /\ i.size = disk[f].size

\* A file that the detector takes for unchanged is dropped; one that is not the
\* same is remembered as it is now, before any hook has seen it.
HasFileChanged(f) ==
    \/ /\ disk[f].size = Missing \/ InChangedSet(f)
       /\ changedFiles' = Append(changedFiles, f) /\ UNCHANGED known
    \/ /\ disk[f].size # Missing /\ ~InChangedSet(f) /\ ~SameAsKnown(f)
       /\ UpdateFileCache(f) /\ changedFiles' = Append(changedFiles, f)
    \/ /\ disk[f].size # Missing /\ ~InChangedSet(f) /\ SameAsKnown(f) /\ UNCHANGED <<known, changedFiles>>

\* One file of get_changed_files.
DetectFile ==
    /\ stepAt = "detect" /\ left # <<>>
    /\ HasFileChanged(Head(left))
    /\ left' = Tail(left)
    /\ handedOut' = IF changedFiles' = changedFiles THEN handedOut
                    ELSE [handedOut EXCEPT ![Head(left)] = @ \cup {disk[Head(left)].content}]
    /\ UNCHANGED <<worldVars, incremental, results, environments, made, changed_set, events, stepAt, hookAt,
                   hookRuns, answer, firstRun>>

\* execute_single_hook: every file, or those the detector is asked about.
RunHook(h) ==
    /\ stepAt = "idle" /\ hookAt' = h
    /\ hookRuns < MaxHookRuns /\ hookRuns' = hookRuns + 1
    /\ IF incremental # <<>> /\ ~incremental[1].force
       THEN stepAt' = "detect" /\ left' = Watched /\ changedFiles' = <<>>
       ELSE stepAt' = "check" /\ left' = <<>> /\ changedFiles' = Watched
    /\ made' = (incremental # <<>>) /\ answer' = NoAnswer
    /\ UNCHANGED <<worldVars, incremental, results, environments, known, changed_set, handedOut, events, firstRun>>

\* clear_changed_files, which is left to the engine's user.
ClearChangedFiles ==
    /\ stepAt = "idle" /\ changed_set # {} /\ changed_set' = {}
    /\ UNCHANGED <<worldVars, incremental, results, environments, made, known, handedOut, events, runVars,
                   answer, firstRun>>

EndHook(from, contents, processed) ==
    /\ stepAt' = "idle" /\ left' = <<>> /\ UNCHANGED <<hookAt, changedFiles, hookRuns>>
    /\ answer' = [from |-> from, contents |-> contents]
    /\ firstRun' = [firstRun EXCEPT ![hookAt] = IF @ = NotRun THEN processed ELSE @]

\* The hook is skipped when none of its files has changed.
SkipHook ==
    /\ stepAt = "detect" /\ left = <<>> /\ changedFiles = <<>>
    /\ EndHook("skip", <<>>, {})
    /\ UNCHANGED <<worldVars, incremental, results, environments, detectorVars, events>>

DetectDone ==
    /\ stepAt = "detect" /\ left = <<>> /\ changedFiles # <<>> /\ stepAt' = "check"
    /\ UNCHANGED <<worldVars, incremental, results, environments, detectorVars, events,
                   hookAt, left, changedFiles, hookRuns, answer, firstRun>>

-----------------------------------------------------------------------------
(* The result cache.                                                         *)

Changed == {changedFiles[k] : k \in 1..Len(changedFiles)}
Contents == [f \in Changed |-> disk[f].content]

\* Mutant: the time is left out for every file.
FilesHashBySize(F) == [f \in F |-> [size |-> disk[f].size, sec |-> 0]]

\* generate_files_hash: path and, if it is there, size, and the second of the
\* last change when the file is below 1 MB.
FilesHash(F) ==
    [f \in F |-> [size |-> disk[f].size, sec |-> IF disk[f].size = Small THEN Sec(disk[f].mtime) ELSE 0]]

\* The hook's own hash does not change while the engine lives.
CheckCache ==
    LET hits == {r \in results : r.hook = hookAt /\ r.hash = FilesHash(Changed) /\ now - r.at < Ttl}
    IN  /\ stepAt = "check"
        /\ \/ /\ hits # {}
              /\ \E r \in hits : EndHook("cache", r.contents, Changed)
           \/ /\ hits = {} /\ stepAt' = "setup"
              /\ UNCHANGED <<hookAt, left, changedFiles, hookRuns, answer, firstRun>>
        /\ UNCHANGED <<worldVars, incremental, results, environments, detectorVars, events>>

\* get_or_create_environment: the key is language and dependencies, and the
\* repository a new one is made in is the asking hook's.  One found may have
\* expired; when one is added to more than fifty, old ones are dropped.
GetOrCreateEnvironment ==
    LET fitting == {e \in environments : e.needs = Needs[hookAt]}
    IN  /\ stepAt = "setup" /\ stepAt' = "execute"
        /\ \/ fitting # {} /\ UNCHANGED environments
           \/ \E kept \in SUBSET (environments \ fitting) :
                environments' = kept \cup {[needs |-> Needs[hookAt], repo |-> RepositoryOf[hookAt]]}
        /\ UNCHANGED <<worldVars, incremental, results, detectorVars, events, hookAt, left,
                       changedFiles, hookRuns, answer, firstRun>>

\* The plugin, or the installation of the dependencies, fails: so does the hook.
SetupFails ==
    /\ stepAt = "setup" /\ stepAt' = "idle"
    /\ UNCHANGED <<worldVars, incremental, results, environments, detectorVars, events, hookAt, left,
                   changedFiles, hookRuns, answer, firstRun>>

\* The hook reads the files as they are; changedFiles keeps what it was given.
Execute(ok) ==
    /\ stepAt = "execute"
    /\ IF ok THEN /\ stepAt' = "store" /\ answer' = [from |-> "hook", contents |-> Contents]
                  /\ UNCHANGED <<hookAt, left, changedFiles, hookRuns, firstRun>>
             ELSE EndHook("hook", Contents, Changed)
    /\ UNCHANGED <<worldVars, incremental, results, environments, detectorVars, events>>

\* store_in_cache hashes the files again, as they are by now; only expired
\* results make room.
StoreInCache ==
    LET entry == [hook |-> hookAt, hash |-> FilesHash(Changed), at |-> now, contents |-> answer.contents]
        stored == {r \in results : r.hook # hookAt \/ r.hash # entry.hash} \cup {entry}
    IN  /\ stepAt = "store"
        /\ results' = IF Cardinality(stored) > ResultsKept THEN {r \in stored : now - r.at <= Ttl} ELSE stored
        /\ EndHook("hook", answer.contents, Changed)
        /\ UNCHANGED <<worldVars, incremental, environments, detectorVars, events>>

EngineStep ==
    \/ DetectFile \/ SkipHook \/ DetectDone \/ CheckCache \/ GetOrCreateEnvironment \/ SetupFails
    \/ (\E ok \in BOOLEAN : Execute(ok)) \/ StoreInCache

EngineNext ==
    \/ PassTime \/ ClearChangedFiles \/ EngineStep
    \/ \E h \in EngineHooks : RunHook(h)
    \/ \E f \in WatchedFiles : WatcherEvent(f) \/ \E size \in {Missing, Small, Large} : EditFile(f, size)

EngineSpec == EngineInit /\ [][EngineNext]_engineVars

-----------------------------------------------------------------------------
\* A result taken from the cache is that of a run over the contents the files
\* have now, unless one of them was edited twice within a second, is large, or
\* was edited while a hook was at work (generate_files_hash, store_in_cache).
CachedResultFits ==
    answer.from = "cache" =>
        \/ DOMAIN answer.contents \cap blurred # {}
        \/ \A f \in DOMAIN answer.contents : answer.contents[f] = disk[f].content

\* A file the detector knows was reported as changed with the content it then
\* had, to some hook; the detector remembers at most one file more than
\* cache_size (has_file_changed, evict_old_entries).
DetectorFits ==
    /\ \A i \in known : handedOut[i.file] # {}
    /\ \A f \in WatchedFiles : SameAsKnown(f) /\ f \notin blurred => disk[f].content \in handedOut[f]
    /\ Cardinality(known) <= CacheSize + 1

\* An environment serves the hooks of its language and dependencies, also those
\* of another repository than the one it was made in; there is one for each.
EnvironmentsFit ==
    /\ \A e \in environments : \E h \in EngineHooks : e.needs = Needs[h] /\ e.repo = RepositoryOf[h]
    /\ \A d, e \in environments : d.needs = e.needs => d = e
    /\ stepAt = "execute" => \E e \in environments : e.needs = Needs[hookAt]

\* "First run - all hooks should process the file"
\* (tests/incremental_detection_tests.rs:237): of a hook that is run for the
\* first time every file is processed.
FirstRunProcessesAll == \A h \in EngineHooks : firstRun[h] \in {NotRun, WatchedFiles}
=============================================================================
