----------------------------- MODULE Maintenance -----------------------------
(***************************************************************************)
(* The commands that look after what is on disk: clean and gc of           *)
(* commands/clean.rs, while other processes go on using the store;         *)
(* commands/try_repo.rs, which works in a temporary clone; and, as         *)
(* operators, commands/migrate_config.rs and commands/init_templatedir.rs. *)
(***************************************************************************)
EXTENDS Integers, Sequences, FiniteSets, SequencesExt, Subsequences

CONSTANTS Items,     \* names of entries of each kind
          MaxNow,    \* bound: ticks
          MaxAge,    \* the age gc asks for, in ticks
          MaxUses,   \* bound: uses by other processes
          MaxCleans  \* bound: clean commands

Kinds == {"repos", "envs", "temp"}

VARIABLES stamp,     \* kind and item to the tick of its last use, 0 when absent
          now,
          cleaning,  \* the clean command: its options and the kinds left
          listed,    \* what the kind under way has listed
          counts,    \* what the result says, per kind
          gone,      \* what the command has removed, per kind
          uses, cleans

cleanVars == <<stamp, now, cleaning, listed, counts, gone, uses, cleans>>

NoCounts == [k \in Kinds |-> 0]
NoClean == [which |-> {}, older |-> <<>>, dry |-> FALSE, left |-> {}, step |-> "rest"]
CleanInit == /\ \E used \in [Items -> {0, 1}] : stamp = [k \in Kinds |-> used]
             /\ now = 1
             /\ cleaning = NoClean /\ listed = {} /\ counts = NoCounts
             /\ gone = [k \in Kinds |-> {}] /\ uses = 0 /\ cleans = 0

Present(k) == {i \in Items : stamp[k][i] # 0}
\* find_old_repositories, find_old_environments and the cut-off of the store.
Old(k, age) == {i \in Present(k) : stamp[k][i] < now - age}

\* Other processes, while the command runs: the store stamps what is used,
\* and a temporary file is written; time passes.
Use(k, i) == /\ cleaning.step # "rest" /\ uses < MaxUses /\ uses' = uses + 1
             /\ stamp[k][i] # now /\ stamp' = [stamp EXCEPT ![k][i] = now]
             /\ UNCHANGED <<now, cleaning, listed, counts, gone, cleans>>
Pass == /\ now < MaxNow /\ now' = now + 1
        /\ UNCHANGED <<stamp, cleaning, listed, counts, gone, uses, cleans>>

\* Without a flag everything is cleaned, with flags only what they name.
Selected(k, which) == k \in which \/ which \intersect (Kinds \ {k}) = {}
ExecuteCleanup(which, older, dry) ==
    /\ cleaning.step = "rest" /\ cleans < MaxCleans /\ cleans' = cleans + 1
    /\ cleaning' = [which |-> which, older |-> older, dry |-> dry, step |-> "list",
                    left |-> {k \in Kinds : Selected(k, which)}]
    /\ listed' = {} /\ counts' = NoCounts /\ gone' = [k \in Kinds |-> {}]
    /\ UNCHANGED <<stamp, now, uses>>
\* gc: everything older than a week when aggressive, else than a month.
ExecuteGc(dry) == ExecuteCleanup(Kinds, <<MaxAge>>, dry)

\* The kinds are cleaned in this order.
Kind == IF "repos" \in cleaning.left THEN "repos" ELSE IF "envs" \in cleaning.left THEN "envs" ELSE "temp"
Chosen(k) == IF cleaning.older = <<>> THEN Present(k) ELSE Old(k, cleaning.older[1])
NextKind == cleaning' = [cleaning EXCEPT !.left = @ \ {Kind}, !.step = "list"]

\* A dry run counts what it would clean.
CleanDry ==
    /\ cleaning.step = "list" /\ cleaning.left # {} /\ cleaning.dry
    /\ counts' = [counts EXCEPT ![Kind] = Cardinality(Chosen(Kind))]
    /\ NextKind /\ UNCHANGED <<stamp, now, listed, gone, uses, cleans>>
\* Mutant: an entry of the very age is old.
CleanStoredAged ==
    /\ cleaning.step = "list" /\ cleaning.left # {} /\ ~cleaning.dry /\ Kind # "temp"
    /\ LET age == IF cleaning.older = <<>> THEN 0 ELSE cleaning.older[1]
           out == {i \in Present(Kind) : stamp[Kind][i] <= now - age}
       IN /\ stamp' = [stamp EXCEPT ![Kind] = [i \in Items |-> IF i \in out THEN 0 ELSE @[i]]]
          /\ gone' = [gone EXCEPT ![Kind] = out]
          /\ counts' = [counts EXCEPT ![Kind] = Cardinality(out)]
    /\ NextKind /\ UNCHANGED <<now, listed, uses, cleans>>
\* clean_repositories and clean_environments: with an age the store cleans
\* and counts; without one they are listed and counted, then cleaned as
\* older than nothing: what is used this very tick stays.
CleanStored ==
    \/ /\ cleaning.step = "list" /\ cleaning.left # {} /\ ~cleaning.dry /\ Kind # "temp"
       /\ cleaning.older = <<>>
       /\ counts' = [counts EXCEPT ![Kind] = Cardinality(Present(Kind))]
       /\ listed' = Present(Kind) /\ cleaning' = [cleaning EXCEPT !.step = "remove"]
       /\ UNCHANGED <<stamp, now, gone, uses, cleans>>
    \/ /\ cleaning.left # {} /\ ~cleaning.dry /\ Kind # "temp"
       /\ cleaning.step = IF cleaning.older = <<>> THEN "remove" ELSE "list"
       /\ LET out == Old(Kind, IF cleaning.older = <<>> THEN 0 ELSE cleaning.older[1]) IN
          /\ stamp' = [stamp EXCEPT ![Kind] = [i \in Items |-> IF i \in out THEN 0 ELSE @[i]]]
          /\ gone' = [gone EXCEPT ![Kind] = out]
          /\ counts' = IF cleaning.older = <<>> THEN counts ELSE [counts EXCEPT ![Kind] = Cardinality(out)]
       /\ NextKind /\ UNCHANGED <<now, listed, uses, cleans>>
\* clean_temp_files lists, by age if one is given, then removes one by one; a
\* directory cannot be removed so and is not counted.
CleanTempFiles(directories) ==
    \/ /\ cleaning.step = "list" /\ cleaning.left # {} /\ ~cleaning.dry /\ Kind = "temp"
       /\ listed' = Chosen("temp") /\ cleaning' = [cleaning EXCEPT !.step = "remove"]
       /\ UNCHANGED <<stamp, now, counts, gone, uses, cleans>>
    \/ /\ cleaning.step = "remove" /\ cleaning.left # {} /\ Kind = "temp"
       /\ LET out == listed \ directories IN
          /\ stamp' = [stamp EXCEPT !["temp"] = [i \in Items |-> IF i \in out THEN 0 ELSE @[i]]]
          /\ gone' = [gone EXCEPT !["temp"] = out]
          /\ counts' = [counts EXCEPT !["temp"] = Cardinality(out)]
       /\ NextKind /\ UNCHANGED <<now, listed, uses, cleans>>
CleanReturns == /\ cleaning.step = "list" /\ cleaning.left = {} /\ cleaning' = [cleaning EXCEPT !.step = "rest"]
                /\ UNCHANGED <<stamp, now, listed, counts, gone, uses, cleans>>

CleanStep == CleanDry \/ CleanStored \/ (\E d \in SUBSET Items : CleanTempFiles(d)) \/ CleanReturns
CleanNext == \/ \E k \in Kinds, i \in Items : Use(k, i)
             \/ Pass \/ CleanStep
             \/ \E d \in BOOLEAN : ExecuteGc(d)
             \/ \E w \in {{}, {"repos"}, {"envs", "temp"}}, o \in {<<>>, <<MaxAge>>}, d \in BOOLEAN : ExecuteCleanup(w, o, d)
CleanSpec == CleanInit /\ [][CleanNext]_cleanVars

\* clean and gc remove what they should.  A repository or an environment that
\* is used within the age asked for, or this very tick, survives, whatever
\* other processes do meanwhile; only the kinds asked for are touched; a dry
\* run removes nothing.  The count is what was removed, and at least that
\* when no age is given, as the entries are counted before they are cleaned.
CleanupExact ==
    cleaning.step = "rest" =>
        \A k \in Kinds :
            /\ cleaning.dry => gone[k] = {}
            /\ cleans > 0 /\ ~Selected(k, cleaning.which) => gone[k] = {} /\ counts[k] = 0
            /\ ~cleaning.dry /\ cleaning.older # <<>> => counts[k] = Cardinality(gone[k])
            /\ k = "temp" /\ ~cleaning.dry => counts[k] = Cardinality(gone[k])
\* As a step: what a clean command takes away was not used within the age it
\* was asked for, and what is used at this tick stays.
OnlyOldRemoved ==
    [][\A k \in {"repos", "envs"}, i \in Items : stamp[k][i] # 0 /\ stamp'[k][i] = 0 =>
          stamp[k][i] < now - (IF cleaning.older = <<>> THEN 0 ELSE cleaning.older[1])]_cleanVars

-----------------------------------------------------------------------------
(* migrate_config.  A file is a list or a map of repos; it spells rev as   *)
(* "sha:" or not, names python_venv or not, and writes its stages in one   *)
(* of the ways below.                                                      *)
StageForms == {"none", "[commit]", "[push]", "[commit, push]", "- commit", "- commit-msg",
               "[pre-commit]", "[pre-push]", "- pre-commit", "- pre-commit-msg"}
OldConfigs == [list : BOOLEAN, sha : BOOLEAN, venv : BOOLEAN, stages : StageForms]
DetectConfigVersion(c) ==
    CASE c.list -> "legacy-list"
      [] ~c.list /\ c.sha -> "sha-format"
      [] ~c.list /\ ~c.sha /\ c.venv -> "python_venv-format"
      [] ~c.list /\ ~c.sha /\ ~c.venv /\ c.stages \in {"[commit]", "[push]", "[commit, push]", "- commit"} -> "old-stages-format"
      [] OTHER -> "current"
NeedsMigration(version) == version # "current"
FromLegacyList(c) == [c EXCEPT !.list = FALSE]
ShaToRev(c) == [c EXCEPT !.sha = FALSE]
PythonLanguage(c) == [c EXCEPT !.venv = FALSE]
\* The texts replaced; "- commit" is also the beginning of "- commit-msg".
\* A flow list of two stages is none of them.
StageNamesMigrated(c) ==
    [c EXCEPT !.stages = CASE c.stages = "[commit]" -> "[pre-commit]" [] c.stages = "[push]" -> "[pre-push]"
                           [] c.stages = "- commit" -> "- pre-commit" [] c.stages = "- commit-msg" -> "- pre-commit-msg"
                           [] OTHER -> c.stages]
MigrateContent(c) == StageNamesMigrated(PythonLanguage(ShaToRev(FromLegacyList(c))))
\* The command: what is on disk afterwards, its backup and what is reported.
ExecuteMigrate(c, dry, backup) ==
    LET needed == NeedsMigration(DetectConfigVersion(c))
    IN [needed |-> needed, applied |-> needed /\ ~dry,
        disk |-> IF needed /\ ~dry THEN MigrateContent(c) ELSE c,
        bak |-> IF needed /\ ~dry /\ backup THEN <<c>> ELSE <<>>]

\* A migrated file needs no further migration and is not changed by one,
\* except for a flow list of two old stages, which is detected for ever and
\* never rewritten; the backup is the file as it was, and nothing is written
\* by a dry run or where nothing is needed.
MigrationSettles ==
    \A c \in OldConfigs, dry, backup \in BOOLEAN :
        LET r == ExecuteMigrate(c, dry, backup) IN
        /\ r.applied => \/ DetectConfigVersion(r.disk) = "current"
                        \/ r.disk.stages = "[commit, push]"
        /\ r.applied => MigrateContent(r.disk) = r.disk
        /\ r.bak # <<>> => r.bak[1] = c
        /\ r.disk # c => r.applied /\ (backup => r.bak # <<>>)

-----------------------------------------------------------------------------
(* init_templatedir.  w is the disk: whether the configuration exists and  *)
(* parses, and the template directory's hooks with their modes.            *)
ValidateConfigFile(cfg, w) == cfg = <<>> \/ (w.exists /\ w.parses)
CreateTemplateDirectory(w) == [w EXCEPT !.dir = TRUE]
InstallGitHooks(w, types) == [w EXCEPT !.hooks = @ \union ToSet(types), !.executable = @ \union ToSet(types)]
SetHookPermissions(w, types) == [w EXCEPT !.executable = @ \union (ToSet(types) \intersect w.hooks)]
ValidateTemplateDirectory(w, types) == w.dir /\ ToSet(types) \subseteq w.hooks \intersect w.executable
\* The script runs snp with the stage of its type, known or not.  It does not
\* hold the marker by which install.rs knows its own scripts.
TemplateHookScript(y) == [stage |-> y, warns |-> y = "no-such-hook", marked |-> FALSE]
InitTemplatedir(types, cfg, allow, w) ==
    IF ~allow /\ ~ValidateConfigFile(cfg, w) THEN [ok |-> FALSE, disk |-> w, valid |-> FALSE]
    ELSE LET d == SetHookPermissions(InstallGitHooks(CreateTemplateDirectory(w), types), types)
         IN [ok |-> TRUE, disk |-> d, valid |-> ValidateTemplateDirectory(d, types)]
\* A template that is reported is complete and executable, and a refused one
\* leaves the directory alone.
TemplatesComplete ==
    \A types \in {<<>>, <<"pre-commit">>, <<"pre-push", "no-such-hook">>}, cfg \in {<<>>, <<"c">>}, allow \in BOOLEAN,
      w \in [exists : BOOLEAN, parses : BOOLEAN, dir : BOOLEAN, hooks : {{}, {"pre-commit"}}, executable : {{}}] :
        LET r == InitTemplatedir(types, cfg, allow, w) IN
        /\ r.ok => r.valid /\ \A i \in DOMAIN types : TemplateHookScript(types[i]).stage = types[i]
        /\ ~r.ok => r.disk = w

-----------------------------------------------------------------------------
(* try_repo.  A URL is http (parsed or not), ssh, a path that exists or    *)
(* none of them; the clone has a manifest, with entries that may lack an   *)
(* id or an entry; the hooks are executed one after another in the clone.  *)
IsValidRepositoryUrl(u) ==
    CASE u.form = "http" -> u.parses
      [] u.form = "ssh" -> u.user /\ u.path /\ u.host
      [] OTHER -> u.exists
CheckoutRevision(rev, revs) == rev = <<>> \/ rev[1] \in revs
CloneRepository(u, rev, remote) == IsValidRepositoryUrl(u) /\ remote.reachable /\ CheckoutRevision(rev, remote.revs)
\* load_repository_hooks: <<>> when it fails.  Every entry up to the wanted
\* ones must have an id, and the wanted ones an entry; of the stages, the
\* unknown are dropped, and pre-commit is the default.
LoadRepositoryHooks(manifest, want) ==
    LET wanted == Subsequence(manifest[1], {i \in DOMAIN manifest[1] : want = <<>> \/ manifest[1][i].id = want})
        hs == [i \in DOMAIN wanted |->
                     [id |-> wanted[i].id[1],
                      stages |-> IF wanted[i].stages = <<>> THEN {"pre-commit"}
                                 ELSE wanted[i].stages[1] \intersect {"pre-commit", "pre-push"}]]
    IN IF \/ manifest = <<>> \/ \E i \in DOMAIN manifest[1] : manifest[1][i].id = <<>>
          \/ \E i \in DOMAIN wanted : ~wanted[i].entry
          \/ (wanted = <<>> /\ want # <<>>)
       THEN <<>> ELSE <<hs>>
DetermineFiles(files, all, staged, indexed) ==
    IF files # {} THEN files ELSE IF all \/ staged = {} THEN indexed ELSE staged

VARIABLES trying,   \* "rest", "clone", "load", "files", "hooks", "clean" or "over"
          attempt,  \* what is tried: URL, revision, hook wanted, the remote
          loaded,   \* the hooks still to be executed
          results,  \* one per hook executed
          temp,     \* the temporary directory exists
          cwd       \* the working directory: "home" or "temp"

tryVars == <<trying, attempt, loaded, results, temp, cwd>>

TryUrls == {[form |-> "http", parses |-> p, user |-> TRUE, path |-> TRUE, host |-> TRUE, exists |-> FALSE] : p \in BOOLEAN}
           \union {[form |-> "ssh", parses |-> FALSE, user |-> u, path |-> TRUE, host |-> TRUE, exists |-> FALSE] : u \in BOOLEAN}
           \union {[form |-> "path", parses |-> FALSE, user |-> TRUE, path |-> TRUE, host |-> TRUE, exists |-> e] : e \in BOOLEAN}
ManifestHook(id, entry, stages) == [id |-> id, entry |-> entry, stages |-> stages]
Manifests == {<<>>, <<<<>>>>,
              <<<<ManifestHook(<<"a">>, TRUE, <<>>), ManifestHook(<<"b">>, TRUE, <<{"pre-push", "nonsense"}>>)>>>>,
              <<<<ManifestHook(<<"a">>, FALSE, <<>>), ManifestHook(<<"b">>, TRUE, <<>>)>>>>,
              <<<<ManifestHook(<<"a">>, TRUE, <<>>), ManifestHook(<<>>, TRUE, <<>>)>>>>}
TryInit == trying = "rest" /\ attempt = <<>> /\ loaded = <<>> /\ results = <<>> /\ temp = FALSE /\ cwd = "home"

\* The TempDir is made first; every early return drops it, which removes it.
TryRepo(u, rev, want, remote) ==
    /\ trying = "rest" /\ trying' = "clone" /\ temp' = TRUE
    /\ attempt' = [url |-> u, rev |-> rev, want |-> want, remote |-> remote]
    /\ UNCHANGED <<loaded, results, cwd>>
Fails == trying' = "over" /\ temp' = FALSE /\ UNCHANGED <<attempt, loaded, results, cwd>>
TryClone == /\ trying = "clone"
            /\ IF CloneRepository(attempt.url, attempt.rev, attempt.remote)
               THEN trying' = "load" /\ UNCHANGED <<attempt, loaded, results, temp, cwd>> ELSE Fails
TryLoad == /\ trying = "load"
           /\ LET hs == LoadRepositoryHooks(attempt.remote.manifest, attempt.want) IN
              IF hs = <<>> THEN Fails
              ELSE trying' = "hooks" /\ loaded' = hs[1] /\ UNCHANGED <<attempt, results, temp, cwd>>
\* execute_single_hook moves the process into the clone, for good; an error
\* of the engine is a failed result, an error of the store ends the command.
TryHook ==
    /\ trying = "hooks" /\ loaded # <<>>
    /\ \/ /\ cwd' = "temp" /\ loaded' = Tail(loaded)
          /\ \E s \in BOOLEAN : results' = Append(results, [id |-> Head(loaded).id, success |-> s])
          /\ UNCHANGED <<trying, attempt, temp>>
       \/ Fails
TryCleanup == /\ trying = "hooks" /\ loaded = <<>> /\ trying' = "over" /\ temp' = FALSE
              /\ UNCHANGED <<attempt, loaded, results, cwd>>
TryStep == TryClone \/ TryLoad \/ TryHook \/ TryCleanup
TryNext == \/ \E u \in TryUrls, r \in {<<>>, <<"v1">>, <<"gone">>}, w \in {<<>>, <<"b">>, <<"z">>}, m \in Manifests, ok \in BOOLEAN :
                TryRepo(u, r, w, [reachable |-> ok, revs |-> {"v1"}, manifest |-> m])
           \/ TryStep

\* The clone never outlives the command; a command that ends well has one
\* result for every hook asked for, in the order of the manifest, and ran
\* none that was not asked for.  Files are never taken from an empty set
\* while the clone has some.
TryLeavesNothing ==
    /\ trying = "over" => ~temp
    /\ cwd = "temp" => attempt # <<>>
    /\ attempt # <<>> /\ trying # "clone" => \A i \in DOMAIN results :
          /\ attempt.want # <<>> => results[i].id = attempt.want[1]
          /\ attempt.remote.manifest # <<>> /\ attempt.remote.reachable
    /\ trying = "over" /\ results # <<>> /\ loaded = <<>> =>
          \A h \in ToSet(attempt.remote.manifest[1]) : (attempt.want = <<>> \/ h.id = attempt.want) =>
              \E i \in DOMAIN results : results[i].id = h.id[1]
    /\ trying = "rest" => \A fs, st, ix \in SUBSET {"f", "g"}, all \in BOOLEAN :
          st \subseteq ix /\ ix # {} => DetermineFiles(fs, all, st, ix) # {}

=============================================================================
