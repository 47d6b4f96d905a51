-------------------------- MODULE LanguageRegistry --------------------------
(***************************************************************************)
(* The registry of language plugins, the manager of environments and the   *)
(* executor that uses both (src/src/language/registry.rs, environment.rs,  *)
(* executor.rs).  The registry is a set of concurrent maps and counters    *)
(* without a common lock: each access is one step, so calls of several     *)
(* threads interleave between the map of plugins, the map of               *)
(* configurations, the counter and the detection cache.  The environment   *)
(* manager is behind a mutex, its calls are single steps.                  *)
(***************************************************************************)
EXTENDS Integers, Sequences, FiniteSets, SequencesExt

CONSTANTS Threads,       \* threads that use the registry
          Names,         \* names of languages
          Files,         \* paths whose language is asked for
          Capacity,      \* entries of the execution cache (100 in the code)
          CacheLimit,    \* max_cache_size.max(1000), whatever is configured
          MaxOps         \* bound: calls that are made

NoLanguage == "no language"      \* None, as detected and as cached
NotCached  == "not cached"

ASSUME RegistryAssumption ==
  /\ IsFiniteSet(Threads) /\ IsFiniteSet(Names)
  /\ NoLanguage \notin Names /\ NotCached \notin Names
  /\ Capacity \in Nat \ {0}

VARIABLES
  plugins,      \* names with a plugin
  configs,      \* names with a configuration
  active,       \* active_plugins
  detection,    \* detection[f]: what the detection cache says of f
  pc,           \* pc[th]: where th is in its call
  name,         \* name[th]: the language of the call
  found,        \* found[th]: a path and what detect_language_uncached says of it
  environments, \* active_environments: ids in memory
  dirs,         \* ids whose directory exists
  recorded,     \* ids the store has a row for
  results,      \* the execution cache, least recently used first
  raced,        \* calls about one language overlapped, one an unregister
  deleted,      \* ids whose directory somebody else has deleted
  ops
registry == <<plugins, configs, active, detection, found, raced>>
manager  == <<environments, dirs, deleted>>
registryVars == <<registry, manager, recorded, results, pc, name, ops>>

RegistryInit ==
  /\ plugins = {} /\ configs = {} /\ active = 0
  /\ detection = [f \in Files |-> NotCached]
  /\ pc = [th \in Threads |-> "idle"] /\ name = [th \in Threads |-> NoLanguage]
  /\ found = [th \in Threads |-> << >>]
  /\ environments = {} /\ dirs = {} /\ recorded \in SUBSET Names /\ results = << >>
  /\ raced = FALSE /\ deleted = {} /\ ops = 0

Goto(th, l) == pc' = [pc EXCEPT ![th] = l]
Unregistering == {"unreg_config", "unreg_count", "unreg_cache"}
Writing == {"reg_config", "reg_count", "conf_insert", "detect_store"}

\* A call about language n begins; "raced" notes that an unregister and a
\* write about the same language are under way together.
Enter(th, n, l, mine) ==
  /\ pc[th] = "idle" /\ ops < MaxOps
  /\ ops' = ops + 1
  /\ Goto(th, l)
  /\ name' = [name EXCEPT ![th] = n]
  /\ raced' = (raced \/ \E u \in Threads \ {th} : name[u] = n /\ pc[u] \in mine)

\* register_plugin: the plugin, then its default configuration, then the
\* counter if the name was new.
Register(th, n) ==
  /\ Enter(th, n, IF n \in plugins THEN "reg_config_old" ELSE "reg_config", Unregistering)
  /\ plugins' = plugins \union {n}
  /\ UNCHANGED <<configs, active, detection, found, manager, recorded, results>>
RegisterConfig(th) ==
  /\ pc[th] \in {"reg_config", "reg_config_old"}
  /\ configs' = configs \union {name[th]}
  /\ Goto(th, IF pc[th] = "reg_config" THEN "reg_count" ELSE "idle")
  /\ UNCHANGED <<plugins, active, detection, found, raced, manager, recorded,
                 results, name, ops>>
RegisterCount(th) ==
  /\ pc[th] = "reg_count"
  /\ active' = active + 1
  /\ Goto(th, "idle")
  /\ UNCHANGED <<plugins, configs, detection, found, raced, manager, recorded,
                 results, name, ops>>

\* load_builtin_plugins registers one plugin after the other.
LoadBuiltin(th) ==
  \E n \in Names : n \notin plugins /\ Register(th, n)

\* unregister_plugin: an unknown name is refused; else the plugin, the
\* configuration, the counter (a usize that wraps below zero until a
\* register_plugin that is under way has counted) and the cached detections.
Unregister(th, n) ==
  /\ n \in plugins
  /\ Enter(th, n, "unreg_config", Writing \union {"reg_config_old"})
  /\ plugins' = plugins \ {n}
  /\ UNCHANGED <<configs, active, detection, found, manager, recorded, results>>
\* Mutant: the configuration is left.
UnregisterConfigKept(th) ==
  /\ pc[th] = "unreg_config"
  /\ Goto(th, "unreg_count")
  /\ UNCHANGED <<plugins, configs, active, detection, found, raced, manager, recorded,
                 results, name, ops>>
UnregisterConfig(th) ==
  /\ pc[th] = "unreg_config"
  /\ configs' = configs \ {name[th]}
  /\ Goto(th, "unreg_count")
  /\ UNCHANGED <<plugins, active, detection, found, raced, manager, recorded,
                 results, name, ops>>
UnregisterCount(th) ==
  /\ pc[th] = "unreg_count"
  /\ active' = active - 1
  /\ Goto(th, "unreg_cache")
  /\ UNCHANGED <<plugins, configs, detection, found, raced, manager, recorded,
                 results, name, ops>>
UnregisterCache(th) ==
  /\ pc[th] = "unreg_cache"
  /\ detection' = [f \in Files |-> IF detection[f] = name[th] THEN NotCached
                                   ELSE detection[f]]
  /\ Goto(th, "idle")
  /\ UNCHANGED <<plugins, configs, active, found, raced, manager, recorded,
                 results, name, ops>>

\* detect_language_uncached: some registered plugin that knows the extension or
\* a pattern of the name; every plugin of Names knows every file of Files.
DetectUncached == IF plugins = {} THEN {NoLanguage} ELSE plugins

\* detect_language: a cached answer, also a cached None, ends the call.
Detect(th, f) ==
  /\ detection[f] = NotCached
  /\ \E n \in DetectUncached :
       /\ Enter(th, n, "detect_store", Unregistering)
       /\ found' = [found EXCEPT ![th] = <<f, n>>]
  /\ UNCHANGED <<plugins, configs, active, detection, manager, recorded, results>>
DetectStore(th) ==
  /\ pc[th] = "detect_store"
  /\ detection' = IF Cardinality({g \in Files : detection[g] # NotCached}) < CacheLimit
                  THEN [detection EXCEPT ![found[th][1]] = found[th][2]] ELSE detection
  /\ Goto(th, "idle")
  /\ UNCHANGED <<plugins, configs, active, found, raced, manager, recorded,
                 results, name, ops>>
ClearCache ==
  /\ \E f \in Files : detection[f] # NotCached
  /\ detection' = [f \in Files |-> NotCached]
  /\ UNCHANGED <<plugins, configs, active, found, raced, manager, recorded,
                 results, pc, name, ops>>

\* configure_plugin: asks for the plugin, validates, then inserts.
Configure(th, n) ==
  /\ n \in plugins
  /\ Enter(th, n, "conf_insert", Unregistering)
  /\ UNCHANGED <<plugins, configs, active, detection, found, manager, recorded, results>>
ConfigureInsert(th) ==
  /\ pc[th] = "conf_insert"
  /\ configs' = configs \union {name[th]}
  /\ Goto(th, "idle")
  /\ UNCHANGED <<plugins, active, detection, found, raced, manager, recorded,
                 results, name, ops>>

-----------------------------------------------------------------------------
(* The environment manager.  An environment's id stands for the language,  *)
(* the version and the additional dependencies; the repository and the     *)
(* variables are not part of it, so one id per language is enough here.    *)

EnvironmentKey(n) == n

\* create_environment: the directory, then the entry in memory.
CreateEnvironment(k) ==
  /\ dirs' = dirs \union {k}
  /\ environments' = environments \union {k}
  /\ deleted' = deleted \ {k}

\* get_or_create_environment: one in memory is not looked up on disk; one the
\* store knows is taken over if its directory is there; else it is created.
GetOrCreate(k) ==
  \/ k \in environments /\ UNCHANGED manager
  \/ /\ k \notin environments /\ k \in recorded /\ k \in dirs
     /\ environments' = environments \union {k}
     /\ UNCHANGED <<dirs, deleted>>
  \/ /\ k \notin environments /\ ~(k \in recorded /\ k \in dirs)
     /\ CreateEnvironment(k)

\* destroy_environment, called for each old one by cleanup_unused_environments.
Destroy(k) ==
  /\ k \in environments \union dirs
  /\ environments' = environments \ {k} /\ dirs' = dirs \ {k}
  /\ UNCHANGED <<registry, recorded, results, pc, name, ops, deleted>>

\* warm_environment_cache: get_or_create for a language without a version.
Warm(n) ==
  /\ EnvironmentKey(n) \notin environments
  /\ GetOrCreate(EnvironmentKey(n))
  /\ UNCHANGED <<registry, recorded, results, pc, name, ops>>

\* The user or another process removes the directory.
DeleteDir(k) ==
  /\ k \in dirs /\ dirs' = dirs \ {k} /\ deleted' = deleted \union {k}
  /\ UNCHANGED <<registry, environments, recorded, results, pc, name, ops>>

-----------------------------------------------------------------------------
(* The executor. *)

\* execute_hook: PluginNotFound for an unknown language.
Execute(th, n) ==
  /\ n \in plugins
  /\ Enter(th, n, "prepare", {})
  /\ UNCHANGED <<plugins, configs, active, detection, found, manager, recorded, results>>

\* prepare_hook_environment: the environment first, then the plugin is asked
\* for again, and may be gone.
Prepare(th) ==
  /\ pc[th] = "prepare"
  /\ GetOrCreate(EnvironmentKey(name[th]))
  /\ Goto(th, IF name[th] \in plugins THEN "execute" ELSE "idle")
  /\ UNCHANGED <<registry, recorded, results, name, ops>>

\* The hook runs, and its result goes to the execution cache, which nobody
\* reads: the least recently used entry makes room.
CacheResult(th) ==
  LET rest == IF \E i \in DOMAIN results : results[i] = name[th]
              THEN RemoveAt(results, CHOOSE i \in DOMAIN results : results[i] = name[th])
              ELSE results IN
  /\ pc[th] = "execute"
  /\ results' = Append(IF Len(rest) = Capacity THEN Tail(rest) ELSE rest, name[th])
  /\ Goto(th, "idle")
  /\ UNCHANGED <<registry, manager, recorded, name, ops>>

RegistryNext ==
  \/ \E th \in Threads :
       \/ \E n \in Names : Register(th, n) \/ Unregister(th, n) \/ Configure(th, n)
                           \/ Execute(th, n)
       \/ \E f \in Files : Detect(th, f)
       \/ DetectStore(th) \/ LoadBuiltin(th) \/ RegisterConfig(th) \/ RegisterCount(th)
       \/ UnregisterConfig(th) \/ UnregisterCount(th) \/ UnregisterCache(th)
       \/ ConfigureInsert(th) \/ Prepare(th) \/ CacheResult(th)
  \/ ClearCache
  \/ \E n \in Names : Destroy(n) \/ Warm(n) \/ DeleteDir(n)

-----------------------------------------------------------------------------
RegistryTypeOK ==
  /\ plugins \subseteq Names /\ configs \subseteq Names
  /\ active \in -Cardinality(Threads) .. Cardinality(Names) + Cardinality(Threads)
  /\ \A f \in Files : detection[f] \in Names \union {NoLanguage, NotCached}
  /\ Len(results) <= Capacity /\ IsInjective(results)

\* When no call is under way the registry's maps and its counter agree: the
\* counter is the number of plugins whatever calls overlapped, and every
\* plugin, and only a plugin, has a configuration and cached detections, unless
\* an unregister_plugin overlapped a call about the same language
\* (registry.rs:123: four accesses without a lock).
MapsAgree ==
  (\A th \in Threads : pc[th] = "idle") =>
    /\ active = Cardinality(plugins)
    /\ ~raced => /\ configs = plugins
                 /\ \A f \in Files : detection[f] \in plugins \union {NoLanguage, NotCached}

\* An environment that the manager hands out has its directory, unless someone
\* else has deleted it: a hit in memory is not checked (environment.rs:125).
EnvironmentOnDisk ==
  /\ environments \subseteq dirs \union deleted
  /\ \A th \in Threads : pc[th] = "execute" /\ EnvironmentKey(name[th]) \in environments
       => EnvironmentKey(name[th]) \in dirs \union deleted

\* The maps and the counter of the registry agree when no call is under way,
\* and the environment manager hands out directories that exist.
RegistryAgrees == RegistryTypeOK /\ MapsAgree /\ EnvironmentOnDisk
=============================================================================
