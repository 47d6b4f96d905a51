----------------------------- MODULE HookInstall -----------------------------
(***************************************************************************)
(* install.rs: GitHookManager writes git's hook files, keeping the user's  *)
(* own hook as <hook>.legacy, and puts it back when it uninstalls.  Every  *)
(* call of the file system is a step of its own, a write truncates before  *)
(* it writes, and the process may be killed between any two.  Between      *)
(* commands the user writes and deletes hooks and time passes.             *)
(* The other way a hook is written, GitRepository::install_hook of git.rs, *)
(* renames the user's hook instead of copying it.                          *)
(***************************************************************************)
EXTENDS Integers, Sequences, FiniteSets, SequencesExt

CONSTANTS Types,       \* the hook types of the run, a subset of HookTypes
          MaxEdits,    \* bound: hooks the user writes
          MaxCommands, \* bound: commands run
          MaxKills     \* bound: commands killed

\* HookType::all, and what parse accepts.
HookTypes == {"pre-commit", "pre-push", "commit-msg", "post-commit", "pre-rebase",
              "post-rewrite", "post-checkout", "post-merge"}
Parses(y) == y \in HookTypes

ASSUME InstallAssumption == {"pre-commit", "pre-push"} \subseteq Types /\ Types \subseteq HookTypes

(* What a file holds: nothing, SNP's script, the user's hook of some       *)
(* edition, or the first part of a write that was cut short, with the      *)
(* marker "Generated by SNP" in it or not.                                 *)
NoFile == [is |-> "none", v |-> 0]
Script == [is |-> "snp", v |-> 0]
User(v) == [is |-> "user", v |-> v]
Torn == [is |-> "torn", v |-> 0]
TornMarked == [is |-> "snp", v |-> 1]

VARIABLES hook,     \* hooks/<type>
          legacy,   \* hooks/<type>.legacy
          aged,     \* the types whose .legacy was last written 30 days ago
          job,      \* the command that runs: its kind, options and types left
          at,       \* where it is
          report,   \* what its result will say
          mine,     \* the user's latest hook of each type, 0 when given up
          cut,      \* the types whose backup was made of a half-written hook
          edits, commands, kills

installVars == <<hook, legacy, aged, job, at, report, mine, cut, edits, commands, kills>>

Idle == [kind |-> "none", left |-> <<>>, overwrite |-> FALSE, backup |-> TRUE,
         restore |-> TRUE, clean |-> FALSE, asked |-> {}]
Nothing == [installed |-> {}, backedUp |-> {}, warned |-> {}, removed |-> {}, restored |-> {}, ended |-> "ok"]

InstallInit ==
    /\ hook = [y \in Types |-> NoFile] /\ legacy = [y \in Types |-> NoFile] /\ aged = {}
    /\ job = Idle /\ at = "idle" /\ report = Nothing
    /\ mine = [y \in Types |-> 0] /\ cut = {} /\ edits = 0 /\ commands = 0 /\ kills = 0

Exists(y) == hook[y].is # "none"
IsSnpHook(y) == hook[y].is = "snp"
FindInstalled == SetToSeq({y \in Types : IsSnpHook(y)})
Current == Head(job.left)

\* A backup made of a hook that a kill left half written is noted.
Spoil(y) == cut' = IF hook[y] = Torn THEN cut \union {y} ELSE cut

Unchanged(vs) == UNCHANGED <<vs, edits, commands, kills>>

(* The user and the clock.                                                 *)
UserWrites(y) ==
    /\ at = "idle" /\ edits < MaxEdits
    /\ edits' = edits + 1 /\ hook' = [hook EXCEPT ![y] = User(edits + 1)]
    /\ mine' = [mine EXCEPT ![y] = edits + 1] /\ cut' = cut \ {y}
    /\ report' = Nothing /\ UNCHANGED <<legacy, aged, job, at, commands, kills>>
UserDeletes(y) ==
    /\ at = "idle" /\ hook[y].is = "user" /\ edits < MaxEdits
    /\ edits' = edits + 1 /\ hook' = [hook EXCEPT ![y] = NoFile] /\ mine' = [mine EXCEPT ![y] = 0]
    /\ report' = Nothing /\ UNCHANGED <<legacy, aged, job, at, cut, commands, kills>>
MonthPasses ==
    /\ at = "idle" /\ aged # {y \in Types : legacy[y].is # "none"}
    /\ aged' = {y \in Types : legacy[y].is # "none"}
    /\ Unchanged(<<hook, legacy, job, at, report, mine, cut>>)

(* install_hooks: refused when core.hooksPath is set or the configuration  *)
(* is missing; the types given, or pre-commit alone.                       *)
InstallHooks(types, overwrite, backup, refused) ==
    /\ at = "idle" /\ commands < MaxCommands
    /\ commands' = commands + 1
    /\ report' = [Nothing EXCEPT !.ended = IF refused THEN "refused" ELSE "running"]
    /\ IF refused
       THEN job' = Idle /\ at' = "idle"
       ELSE /\ job' = [Idle EXCEPT !.kind = "install", !.overwrite = overwrite, !.backup = backup,
                                   !.left = IF types = <<>> THEN <<"pre-commit">> ELSE types,
                                   !.asked = IF types = <<>> THEN {"pre-commit"} ELSE ToSet(types)]
            /\ at' = "next"
    /\ UNCHANGED <<hook, legacy, aged, mine, cut, edits, kills>>

\* uninstall_hooks: the types given, or every type whose hook is SNP's.
UninstallHooks(types, restore, clean) ==
    /\ at = "idle" /\ commands < MaxCommands
    /\ commands' = commands + 1
    /\ report' = [Nothing EXCEPT !.ended = "running"]
    /\ LET ts == IF types = <<>> THEN FindInstalled ELSE types
       IN job' = [Idle EXCEPT !.kind = "uninstall", !.restore = restore, !.clean = clean,
                              !.left = ts, !.asked = ToSet(ts)]
    /\ at' = "next"
    /\ UNCHANGED <<hook, legacy, aged, mine, cut, edits, kills>>

\* The loop ends at a type that does not parse: `?` returns the error and
\* what was done for the types before it stays.
BadType ==
    /\ at = "next" /\ job.left # <<>> /\ ~Parses(Current)
    /\ report' = [report EXCEPT !.ended = "error"] /\ job' = Idle /\ at' = "idle"
    /\ Unchanged(<<hook, legacy, aged, mine, cut>>)

\* install_single_hook, up to its first write.
InstallOne ==
    /\ at = "next" /\ job.kind = "install" /\ job.left # <<>> /\ Parses(Current)
    /\ LET y == Current IN
       \/ /\ IsSnpHook(y)                              \* already installed: skipped
          /\ job' = [job EXCEPT !.left = Tail(@)] /\ UNCHANGED <<hook, at, report, mine>>
       \/ /\ Exists(y) /\ ~IsSnpHook(y) /\ job.overwrite
          /\ hook' = [hook EXCEPT ![y] = NoFile]
          /\ mine' = [mine EXCEPT ![y] = IF hook[y].is = "user" THEN 0 ELSE @]
          /\ at' = "write" /\ UNCHANGED <<job, report>>
       \/ /\ Exists(y) /\ ~IsSnpHook(y) /\ ~job.overwrite /\ job.backup
          /\ at' = "backup" /\ UNCHANGED <<hook, job, report, mine>>
       \/ /\ Exists(y) /\ ~IsSnpHook(y) /\ ~job.overwrite /\ ~job.backup
          /\ report' = [report EXCEPT !.warned = @ \union {y}]
          /\ job' = [job EXCEPT !.left = Tail(@)] /\ UNCHANGED <<hook, at, mine>>
       \/ /\ ~Exists(y)
          /\ at' = "write" /\ UNCHANGED <<hook, job, report, mine>>
    /\ Unchanged(<<legacy, aged, cut>>)

\* Mutant: an existing backup is taken for the backup of this hook.
BackupOnce ==
    /\ at \in {"backup", "copying"}
    /\ legacy' = IF legacy[Current].is = "none" THEN [legacy EXCEPT ![Current] = hook[Current]] ELSE legacy
    /\ at' = "write" /\ aged' = aged \ {Current}
    /\ report' = [report EXCEPT !.backedUp = @ \union {Current}]
    /\ Unchanged(<<hook, job, mine, cut>>)

\* backup_hook: fs::copy truncates the old backup, then fills it.
BackupHook ==
    \/ /\ at = "backup" /\ at' = "copying"
       /\ legacy' = [legacy EXCEPT ![Current] = Torn] /\ aged' = aged \ {Current}
       /\ Spoil(Current) /\ Unchanged(<<hook, job, report, mine>>)
    \/ /\ at = "copying" /\ at' = "write"
       /\ legacy' = [legacy EXCEPT ![Current] = hook[Current]]
       /\ report' = [report EXCEPT !.backedUp = @ \union {Current}]
       /\ Unchanged(<<hook, aged, job, mine, cut>>)

\* fs::write truncates the hook and writes the script.
BeginWrite ==
    /\ at = "write" /\ at' = "writing"
    /\ \E part \in {Torn, TornMarked} : hook' = [hook EXCEPT ![Current] = part]
    /\ Unchanged(<<legacy, aged, job, report, mine, cut>>)
\* The script is complete; the permissions are set and the type is reported.
EndWrite ==
    /\ at = "writing" /\ at' = "next"
    /\ hook' = [hook EXCEPT ![Current] = Script]
    /\ report' = [report EXCEPT !.installed = @ \union {Current}]
    /\ job' = [job EXCEPT !.left = Tail(@)]
    /\ Unchanged(<<legacy, aged, mine, cut>>)

\* uninstall_single_hook: only a hook of SNP's own is removed.
UninstallOne ==
    /\ at = "next" /\ job.kind = "uninstall" /\ job.left # <<>> /\ Parses(Current)
    /\ IF IsSnpHook(Current)
       THEN /\ hook' = [hook EXCEPT ![Current] = NoFile]
            /\ report' = [report EXCEPT !.removed = @ \union {Current}]
            /\ IF job.restore THEN at' = "restore" /\ UNCHANGED job
                              ELSE at' = at /\ job' = [job EXCEPT !.left = Tail(@)]
       ELSE /\ job' = [job EXCEPT !.left = Tail(@)] /\ UNCHANGED <<hook, at, report>>
    /\ Unchanged(<<legacy, aged, mine, cut>>)

\* restore_hook: copy the backup over the hook, then remove the backup.  Its
\* error (there is no backup) is only logged.
RestoreHook ==
    /\ LET y == Current IN
       \/ /\ at = "restore" /\ legacy[y].is = "none"
          /\ job' = [job EXCEPT !.left = Tail(@)] /\ at' = "next" /\ UNCHANGED <<hook, legacy, aged, report>>
       \/ /\ at = "restore" /\ legacy[y].is # "none"
          /\ hook' = [hook EXCEPT ![y] = Torn] /\ at' = "restoring"
          /\ UNCHANGED <<legacy, aged, job, report>>
       \/ /\ at = "restoring" /\ at' = "forget"
          /\ hook' = [hook EXCEPT ![y] = legacy[y]]
          /\ UNCHANGED <<legacy, aged, job, report>>
       \/ /\ at = "forget" /\ at' = "next"
          /\ legacy' = [legacy EXCEPT ![y] = NoFile] /\ aged' = aged \ {y}
          /\ report' = [report EXCEPT !.restored = @ \union {y}]
          /\ job' = [job EXCEPT !.left = Tail(@)] /\ UNCHANGED hook
    /\ Unchanged(<<mine, cut>>)

\* cleanup_backups(30): backups of a month are gone, with what they held.
CleanupBackups ==
    /\ legacy' = [y \in Types |-> IF y \in aged THEN NoFile ELSE legacy[y]] /\ aged' = {}
    /\ mine' = [y \in Types |-> IF y \in aged /\ hook[y] # User(mine[y]) THEN 0 ELSE mine[y]]

\* The command returns, after the clean-up it was asked for.
Done ==
    /\ at = "next" /\ job.left = <<>>
    /\ IF job.clean THEN CleanupBackups ELSE UNCHANGED <<legacy, aged, mine>>
    /\ report' = [report EXCEPT !.ended = job.kind] /\ job' = [Idle EXCEPT !.asked = job.asked]
    /\ at' = "idle"
    /\ Unchanged(<<hook, cut>>)

\* The process is killed; the files stay as they are.
Kill ==
    /\ at # "idle" /\ kills < MaxKills /\ kills' = kills + 1
    /\ job' = Idle /\ at' = "idle" /\ report' = [Nothing EXCEPT !.ended = "killed"]
    /\ UNCHANGED <<hook, legacy, aged, mine, cut, edits, commands>>

\* git.rs, install_hook: a hook without the marker is renamed, in one step,
\* and the script written.
GitInstallHook(y) ==
    /\ at = "idle" /\ commands < MaxCommands /\ commands' = commands + 1
    /\ IF Exists(y) /\ ~IsSnpHook(y)
       THEN legacy' = [legacy EXCEPT ![y] = hook[y]] /\ aged' = aged \ {y} /\ hook' = [hook EXCEPT ![y] = NoFile] /\ Spoil(y)
       ELSE UNCHANGED <<legacy, aged, hook, cut>>
    /\ job' = [Idle EXCEPT !.kind = "install", !.left = <<y>>, !.asked = {y}] /\ at' = "write"
    /\ report' = [Nothing EXCEPT !.ended = "running"]
    /\ UNCHANGED <<mine, edits, kills>>

InstallStep == BadType \/ InstallOne \/ BackupHook \/ BeginWrite \/ EndWrite \/ UninstallOne \/ RestoreHook \/ Done
\* The lists of types the commands are given.
TypeLists == {<<>>, <<"pre-commit", "pre-push">>, <<"pre-push", "no-such-hook", "pre-commit">>}
InstallNext ==
    \/ \E y \in Types : UserWrites(y) \/ UserDeletes(y) \/ GitInstallHook(y)
    \/ MonthPasses \/ Kill \/ InstallStep
    \/ \E ts \in TypeLists, o, b, r \in BOOLEAN : InstallHooks(ts, o, b, r)
    \/ \E ts \in TypeLists, r, c \in BOOLEAN : UninstallHooks(ts, r, c)

InstallSpec == InstallInit /\ [][InstallNext]_installVars

-----------------------------------------------------------------------------
\* The user's hook is never lost: the latest hook the user wrote is the hook
\* itself or its backup, until the user deletes it, asks for --overwrite or
\* for backups of a month to be cleaned.  The exception is a backup made of a
\* hook that a kill left half written: it does not carry the marker, and the
\* next install copies it over the good backup.
UserHookKept ==
    \A y \in Types : mine[y] # 0 /\ y \notin cut =>
        \/ hook[y] = User(mine[y]) \/ legacy[y] = User(mine[y])

\* What a command reports is so.  An install that returns has installed every
\* type it was asked for, or warned; one that stops at a bad type reports an
\* error although it may have installed others.  An uninstall that returns
\* leaves no script of SNP's among the types it was asked for, and gave back
\* the user's latest hook unless its backup was spoilt so.
ReportTrue ==
    at = "idle" =>
        /\ report.ended = "install" =>
              /\ \A y \in job.asked : y \in report.warned \/ IsSnpHook(y)
              /\ report.backedUp \subseteq report.installed
        /\ report.ended = "uninstall" =>
              /\ \A y \in job.asked : ~IsSnpHook(y)
              /\ \A y \in report.restored : mine[y] # 0 /\ y \notin cut => hook[y] = User(mine[y])
              /\ report.restored \subseteq report.removed

=============================================================================
