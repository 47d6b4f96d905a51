------------------------------- MODULE Store -------------------------------
(***************************************************************************)
(* Store of src/src/storage.rs: the SQLite table of cached repositories    *)
(* and environments, the directories it points to, and the configs table.  *)
(* clone_repository, install_environment, get_*, mark_config_used and      *)
(* garbage_collect are steps of processes that may be killed between any   *)
(* two of them; what is in the database and on the disk then stays.        *)
(*                                                                         *)
(* One SQL statement is atomic and durable.  A key stands for a url, a     *)
(* revision and dependencies, or for a language and dependencies; it has   *)
(* one directory name.  exclusive_lock has no caller.                      *)
(***************************************************************************)
EXTENDS FiniteSets, Naturals

CONSTANTS
    Procs,
    Repos, Envs,  \* keys of the repositories and environments tables
    Configs       \* configuration files

Keys == Repos \cup Envs

VARIABLES
    readonly,     \* has the process no write permission?
    row,          \* last_used of each key's row: "none" when there is no row
    dir,          \* what is in its directory
    conf, file,   \* rows of the configs table; configuration files that exist
    pc, key,      \* each process: where it is, and the key it works on
    paths, older, \* gc: the directories selected, the rows before the cutoff
    outcome,      \* what its last call returned
    orphaned      \* history: keys whose row has outlived the directory

vars == <<readonly, row, dir, conf, file, pc, key, paths, older, outcome, orphaned>>
disk == <<row, dir, conf, file>>
gcVars == <<paths, older>>

NoKey == "nokey"
Complete == {"revision", "head"}

Init ==
    /\ readonly \in [Procs -> BOOLEAN]
    /\ row = [k \in Keys |-> "none"] /\ dir = [k \in Keys |-> "absent"]
    /\ conf = {} /\ file \in SUBSET Configs
    /\ pc = [p \in Procs |-> "idle"] /\ key = [p \in Procs |-> NoKey]
    /\ paths = [p \in Procs |-> {}] /\ older = [p \in Procs |-> {}]
    /\ outcome = [p \in Procs |-> "none"]
    /\ orphaned = {}

-----------------------------------------------------------------------------
Goto(p, l) == pc' = [pc EXCEPT ![p] = l]

\* The call returns; the key is kept, to tell what the outcome is about.
Return(p, o) ==
    /\ Goto(p, "idle")
    /\ outcome' = [outcome EXCEPT ![p] = o]
    /\ UNCHANGED key

\* A row whose directory has gone, or that gc has begun to remove, is an orphan until it
\* is deleted or the directory is known to be complete again.
Orphans == orphaned' =
    {k \in Keys : row'[k] # "none" /\ (dir'[k] = "absent" \/ k \in orphaned)}

\* Once a row has a new last_used it is no longer before anybody's cutoff.
Renewed(k) == older' = [p \in Procs |-> older[p] \ {k}]

Call(p, k) ==
    /\ pc[p] = "idle"
    /\ Goto(p, "lookup")
    /\ key' = [key EXCEPT ![p] = k]
    /\ outcome' = [outcome EXCEPT ![p] = "none"]
    /\ UNCHANGED <<readonly, disk, gcVars, orphaned>>

\* get_repository, get_environment: a row, and its directory exists.
Trusted(k) == row[k] # "none" /\ dir[k] # "absent"

\* clone_repository and install_environment refuse before they look.
Refuse(p) ==
    /\ pc[p] = "lookup" /\ readonly[p]
    /\ Return(p, "Readonly")
    /\ UNCHANGED <<readonly, disk, gcVars, orphaned>>

Hit(p) ==
    /\ pc[p] = "lookup" /\ Trusted(key[p])
    /\ Goto(p, "touch")
    /\ UNCHANGED <<readonly, disk, key, gcVars, outcome, orphaned>>

\* UPDATE ... SET last_used: a row that has gone meanwhile is not missed.
Touch(p) ==
    /\ pc[p] = "touch"
    /\ IF row[key[p]] = "none" \/ readonly[p]
       THEN UNCHANGED <<row, older>>
       ELSE row' = [row EXCEPT ![key[p]] = "recent"] /\ Renewed(key[p])
    /\ Return(p, "Ok")
    /\ UNCHANGED <<readonly, dir, conf, file, paths, orphaned>>

\* get_repository and get_environment on their own.
NotFound(p) ==
    /\ pc[p] = "lookup" /\ ~Trusted(key[p])
    /\ Return(p, "NotFound")
    /\ UNCHANGED <<readonly, disk, gcVars, orphaned>>

Miss(p) ==
    /\ pc[p] = "lookup" /\ ~readonly[p] /\ ~Trusted(key[p])
    /\ Goto(p, "remove")
    /\ UNCHANGED <<readonly, disk, key, gcVars, outcome, orphaned>>

\* "Remove existing directory if it exists to ensure clean clone"; install_environment
\* keeps what is there.
RemoveExisting(p) ==
    /\ pc[p] = "remove"
    /\ dir' = IF key[p] \in Repos THEN [dir EXCEPT ![key[p]] = "absent"] ELSE dir
    /\ Goto(p, "create")
    /\ UNCHANGED <<readonly, row, conf, file, key, gcVars, outcome>>
    /\ Orphans

\* Mutant: the row is there before the clone.
CreateWithRow(p) ==
    /\ pc[p] = "create"
    /\ dir' = [dir EXCEPT ![key[p]] = "partial"]
    /\ row' = [row EXCEPT ![key[p]] = "recent"]
    /\ Renewed(key[p])
    /\ Goto(p, "clone")
    /\ UNCHANGED <<readonly, conf, file, key, paths, outcome>>
    /\ Orphans

\* The directory comes into being; create_dir_all keeps an existing one as it is.
Create(p) ==
    /\ pc[p] = "create"
    /\ dir' = [dir EXCEPT ![key[p]] = IF @ = "absent" THEN "partial" ELSE @]
    /\ Goto(p, "clone")
    /\ UNCHANGED <<readonly, row, conf, file, key, gcVars, outcome>>
    /\ Orphans

\* RepoBuilder::clone fails, and removes what it has made.
CloneFails(p) ==
    /\ pc[p] = "clone" /\ key[p] \in Repos
    /\ dir' = [dir EXCEPT ![key[p]] = "absent"]
    /\ Return(p, "CloneErr")
    /\ UNCHANGED <<readonly, row, conf, file, gcVars>>
    /\ Orphans

\* Cloned at HEAD.
Cloned(p) ==
    /\ pc[p] = "clone" /\ key[p] \in Repos
    /\ dir' = [dir EXCEPT ![key[p]] = "head"]
    /\ Goto(p, "checkout")
    /\ UNCHANGED <<readonly, row, conf, file, key, gcVars, outcome>>
    /\ Orphans

\* A revision that cannot be resolved, in a clone of depth 1 of the default branch, leaves
\* the clone at HEAD.
Checkout(p, content) ==
    /\ pc[p] = "checkout"
    /\ dir' = [dir EXCEPT ![key[p]] = content]
    /\ Goto(p, "insert")
    /\ UNCHANGED <<readonly, row, conf, file, key, gcVars, outcome>>
    /\ Orphans

\* checkout_tree, set_head_detached or the marker file fails: what is there stays.
CheckoutFails(p) ==
    /\ pc[p] = "checkout"
    /\ dir' = [dir EXCEPT ![key[p]] = "partial"]
    /\ Return(p, "CloneErr")
    /\ UNCHANGED <<readonly, row, conf, file, gcVars>>
    /\ Orphans

\* An environment's directory holds its marker file and no more.
WriteMarker(p) ==
    /\ pc[p] = "clone" /\ key[p] \in Envs
    /\ dir' = [dir EXCEPT ![key[p]] = "revision"]
    /\ Goto(p, "insert")
    /\ UNCHANGED <<readonly, row, conf, file, key, gcVars, outcome>>
    /\ Orphans

InsertOk(p) ==
    /\ pc[p] = "insert" /\ row[key[p]] = "none"
    /\ row' = [row EXCEPT ![key[p]] = "recent"]
    /\ Renewed(key[p])
    /\ Return(p, "Ok")
    /\ UNCHANGED <<readonly, dir, conf, file, paths>>
    /\ Orphans

\* Mutant: the directory is cleaned up when it cannot be recorded.
InsertConflictCleansUp(p) ==
    /\ pc[p] = "insert" /\ row[key[p]] # "none"
    /\ dir' = [dir EXCEPT ![key[p]] = "absent"]
    /\ Return(p, "Unique")
    /\ UNCHANGED <<readonly, row, conf, file, gcVars>>
    /\ Orphans

\* The UNIQUE constraint: the row of a directory that had disappeared is still there.
InsertConflict(p) ==
    /\ pc[p] = "insert" /\ row[key[p]] # "none"
    /\ Return(p, "Unique")
    /\ orphaned' = orphaned \ {key[p]}
    /\ UNCHANGED <<readonly, disk, gcVars>>

-----------------------------------------------------------------------------
(* garbage_collect, cleanup_old_repositories, cleanup_environments         *)

\* One table: the rows last used before the cutoff, all the old ones and, with a shorter
\* max_age, any other.  The connection is locked until the rows are deleted.
GcSelect(p, table) ==
    /\ ~readonly[p] /\ (pc[p] = "idle" \/ (pc[p] = "gcselect" /\ table = Envs))
    /\ Goto(p, IF table = Repos THEN "gcrepos" ELSE "gcenvs")
    /\ \E K \in SUBSET {k \in table : row[k] # "none"} :
          /\ {k \in table : row[k] = "old"} \subseteq K
          /\ paths' = [paths EXCEPT ![p] = {k \in K : dir[k] # "absent"}]
          /\ older' = [older EXCEPT ![p] = K]
    /\ key' = [key EXCEPT ![p] = NoKey]
    /\ outcome' = [outcome EXCEPT ![p] = "none"]
    /\ UNCHANGED <<readonly, disk, orphaned>>

\* remove_dir_all takes a directory away file by file,
GcRemoveFiles(p, k) ==
    /\ pc[p] \in {"gcrepos", "gcenvs"} /\ k \in paths[p] /\ dir[k] \in Complete
    /\ dir' = [dir EXCEPT ![k] = "partial"]
    /\ orphaned' = orphaned \cup {k}
    /\ UNCHANGED <<readonly, row, conf, file, pc, key, gcVars, outcome>>

\* and is done, or fails with a warning and leaves the rest behind.
GcRemoveDir(p, k, content) ==
    /\ pc[p] \in {"gcrepos", "gcenvs"} /\ k \in paths[p]
    /\ dir' = [dir EXCEPT ![k] = content]
    /\ paths' = [paths EXCEPT ![p] = @ \ {k}]
    /\ UNCHANGED <<readonly, row, conf, file, pc, key, older, outcome>>
    /\ Orphans

GcDeleteRows(p) ==
    /\ pc[p] \in {"gcrepos", "gcenvs"} /\ paths[p] = {}
    /\ row' = [k \in Keys |-> IF k \in older[p] THEN "none" ELSE row[k]]
    /\ older' = [q \in Procs |-> older[q] \ older[p]]
    /\ Goto(p, IF pc[p] = "gcrepos" THEN "gcselect" ELSE "gcconfigs")
    /\ UNCHANGED <<readonly, dir, conf, file, key, paths, outcome>>
    /\ Orphans

\* A cleanup of one table, called by itself.
CleanupDone(p) ==
    /\ pc[p] \in {"gcselect", "gcconfigs"}
    /\ Return(p, "Ok")
    /\ UNCHANGED <<readonly, disk, gcVars, orphaned>>

\* cleanup_missing_configs: the files are looked for first, the rows deleted then.
GcFindConfigs(p) ==
    /\ pc[p] = "gcconfigs"
    /\ paths' = [paths EXCEPT ![p] = conf \ file]
    /\ Goto(p, "gcforget")
    /\ UNCHANGED <<readonly, disk, key, older, outcome, orphaned>>

GcForgetConfigs(p) ==
    /\ pc[p] = "gcforget"
    /\ conf' = conf \ paths[p]
    /\ paths' = [paths EXCEPT ![p] = {}]
    /\ Return(p, "Ok")
    /\ UNCHANGED <<readonly, row, dir, file, older, orphaned>>

MarkConfigUsed(p, c) ==
    /\ pc[p] = "idle" /\ ~readonly[p]
    /\ conf' = conf \cup {c}
    /\ UNCHANGED <<readonly, row, dir, file, pc, key, gcVars, outcome, orphaned>>

-----------------------------------------------------------------------------
(* The world around                                                        *)

\* Thirty days without use.
Age(k) ==
    /\ row[k] = "recent"
    /\ row' = [row EXCEPT ![k] = "old"]
    /\ UNCHANGED <<readonly, dir, conf, file, pc, key, gcVars, outcome, orphaned>>

\* What the processes last returned is only about a disk nobody else has touched.
Stale == outcome' = [p \in Procs |-> "none"]

\* The user removes a cached directory, though not while a process works on it, or adds
\* or removes a configuration file.
DeleteDir(k) ==
    /\ dir[k] # "absent"
    /\ \A p \in Procs : key[p] = k => pc[p] = "idle"
    /\ dir' = [dir EXCEPT ![k] = "absent"]
    /\ Stale
    /\ UNCHANGED <<readonly, row, conf, file, pc, key, gcVars>>
    /\ Orphans

EditConfig(c) ==
    /\ file' = (file \ {c}) \cup ({c} \ file)
    /\ UNCHANGED <<readonly, row, dir, conf, pc, key, gcVars, outcome, orphaned>>

\* The process ends, or is killed; another one takes its place, maybe with other
\* permissions.
Restart(p) ==
    /\ \E b \in BOOLEAN : readonly' = [readonly EXCEPT ![p] = b]
    /\ Goto(p, "idle")
    /\ key' = [key EXCEPT ![p] = NoKey]
    /\ outcome' = [outcome EXCEPT ![p] = "none"]
    /\ paths' = [paths EXCEPT ![p] = {}] /\ older' = [older EXCEPT ![p] = {}]
    /\ UNCHANGED <<disk, orphaned>>

-----------------------------------------------------------------------------
Next ==
    \/ \E p \in Procs :
          \/ \E k \in Keys : Call(p, k)
          \/ Refuse(p) \/ Hit(p) \/ Touch(p) \/ NotFound(p) \/ Miss(p) \/ RemoveExisting(p)
          \/ Create(p)
          \/ CloneFails(p) \/ Cloned(p) \/ (\E c \in Complete : Checkout(p, c))
          \/ CheckoutFails(p) \/ WriteMarker(p) \/ InsertOk(p) \/ InsertConflict(p)
          \/ GcDeleteRows(p) \/ CleanupDone(p) \/ GcFindConfigs(p) \/ GcForgetConfigs(p)
          \/ \E table \in {Repos, Envs} : GcSelect(p, table)
          \/ \E k \in Keys :
                \/ GcRemoveFiles(p, k)
                \/ \E c \in {"absent", dir[k]} : GcRemoveDir(p, k, c)
          \/ \E c \in Configs : MarkConfigUsed(p, c)
          \/ Restart(p)
    \/ \E k \in Keys : Age(k) \/ DeleteDir(k)
    \/ \E c \in Configs : EditConfig(c)

Spec == Init /\ [][Next]_vars

-----------------------------------------------------------------------------
(* Properties                                                              *)

TypeOK ==
    /\ readonly \in [Procs -> BOOLEAN]
    /\ row \in [Keys -> {"none", "recent", "old"}]
    /\ dir \in [Keys -> {"absent", "partial"} \cup Complete]
    /\ conf \in SUBSET Configs /\ file \in SUBSET Configs
    /\ pc \in [Procs -> {"idle", "lookup", "touch", "remove", "create", "clone", "checkout",
                         "insert", "gcrepos", "gcselect", "gcenvs", "gcconfigs", "gcforget"}]
    /\ key \in [Procs -> Keys \cup {NoKey}]
    /\ paths \in [Procs -> SUBSET (Keys \cup Configs)]
    /\ \A p \in Procs :
          paths[p] \subseteq (CASE pc[p] = "gcrepos"  -> Repos
                              [] pc[p] = "gcenvs"   -> Envs
                              [] pc[p] = "gcforget" -> Configs
                              [] OTHER              -> {})
    /\ older \in [Procs -> SUBSET Keys]
    /\ outcome \in [Procs -> {"none", "Ok", "NotFound", "Readonly", "CloneErr", "Unique"}]
    /\ orphaned \in SUBSET Keys

\* Wherever a clone is interrupted, a directory the database vouches for is complete,
\* unless its row had outlived an earlier directory or gc has begun to remove it.
TrustedComplete == \A k \in Keys \ orphaned : Trusted(k) => dir[k] \in Complete

\* The store's database never vouches for a directory that is not complete,
\* but for one that was taken away under its row (storage.rs).
StoreTrusted == TypeOK /\ TrustedComplete

\* "Repository directory was deleted. Try running the command again.": a call that
\* fails on the UNIQUE constraint leaves everything ready for the next one.
RetrySucceeds ==
    \A p \in Procs : outcome[p] = "Unique" => Trusted(key[p]) /\ dir[key[p]] \in Complete

=============================================================================
