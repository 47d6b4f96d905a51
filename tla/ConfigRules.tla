----------------------------- MODULE ConfigRules -----------------------------
(***************************************************************************)
(* What snp computes from a configuration: whether it is accepted (by      *)
(* config.rs, which loads it, by validation.rs, which reports on it, and   *)
(* by core.rs, which runs it), what an external hook becomes when its      *)
(* repository is read, which files a hook is given (filesystem.rs,         *)
(* classification.rs), and what a migration makes of an old file.          *)
(*                                                                         *)
(* An optional field is << >> or <<value>>.  A pattern is the set of files *)
(* it matches, BadRegex if it does not compile.  A configuration is        *)
(* [repos, files, exclude, stages, types]: the last two are its            *)
(* default_stages and default_install_hook_types.  A repository is         *)
(* [repo, rev, sha, hooks].                                                *)
(***************************************************************************)
EXTENDS Integers, Sequences, FiniteSets, SequencesExt, Subsequences

BadRegex == {"bad"}
Compiles(p) == p # <<BadRegex>>
Some(o) == o # << >>
Default(o, d) == IF Some(o) THEN o[1] ELSE d
AllOf(s, Test(_)) == \A i \in DOMAIN s : Test(s[i])

-----------------------------------------------------------------------------
(* Stages and the lists of accepted words. *)

StageNames == {"pre-commit", "pre-merge-commit", "pre-push", "prepare-commit-msg", "commit-msg",
               "post-commit", "post-checkout", "post-merge", "pre-rebase", "post-rewrite",
               "manual", "merge-commit"}
\* Stage::from_str, with its two old names.
StageFromStr(s) ==
  CASE s \in StageNames -> <<s>>
    [] s = "commit" -> <<"pre-commit">>
    [] s = "push"   -> <<"pre-push">>
    [] OTHER        -> << >>

IsValidStage(s) == s \in StageNames \union {"commit", "push"}            \* config.rs
IsValidHookType(s) == s \in StageNames \ {"manual", "merge-commit"}      \* config.rs
SupportedStages == StageNames                                            \* validation.rs
ValidatorHookType(s) == s \in StageNames                                 \* validation.rs
SupportedLanguages == {"python", "rust", "system"}

-----------------------------------------------------------------------------
(* config.rs: the first error ends the loading. *)

\* Mutant: stages are not checked when a hook is loaded.
HookValidateAnyStage(h) == h.id # "" /\ Compiles(h.files) /\ Compiles(h.exclude)
HookValidate(h) ==
  /\ h.id # ""
  /\ Compiles(h.files) /\ Compiles(h.exclude)
  /\ Some(h.stages) => AllOf(h.stages[1], IsValidStage)
RepositoryValidate(r) ==
  /\ r.repo # ""
  /\ r.repo \in {"local", "meta"} \/ Some(r.rev)
  /\ r.hooks # << >> /\ AllOf(r.hooks, HookValidate)
ConfigValidate(c) ==
  /\ AllOf(c.repos, RepositoryValidate)
  /\ Compiles(c.files) /\ Compiles(c.exclude)
  /\ AllOf(c.stages, IsValidStage) /\ AllOf(c.types, IsValidHookType)

-----------------------------------------------------------------------------
(* validation.rs: every error is reported, warnings apart. *)

IsValidGitUrl(r) == r = "url"
IsValidRevisionFormat(v) == v \notin {"", "a b"}
Report(errs, warns) == [errors |-> errs, warnings |-> warns]
Merge(a, b) == Report(a.errors \union b.errors, a.warnings \union b.warnings)
MergeAll(s) == Report(UNION {s[i].errors : i \in DOMAIN s}, UNION {s[i].warnings : i \in DOMAIN s})
When(cond, e) == IF cond THEN {e} ELSE {}

\* A hook of an external repository, or of meta, needs no entry.
ValidateHook(h, repo) ==
  Report(When(h.id = "", "id")
         \union When(h.entry = "" /\ repo # "meta" /\ ~IsValidGitUrl(repo), "entry")
         \union When(~Compiles(h.files), "files") \union When(~Compiles(h.exclude), "exclude")
         \union When(h.stages = <<<< >>>>, "no stage")
         \union When(Some(h.stages) /\ ~AllOf(h.stages[1], LAMBDA s : s \in SupportedStages), "stage"),
         When(h.language \notin SupportedLanguages \union {""}, "language")
         \union When(~Some(h.stages), "default stage"))
ValidateRepositoryDetailed(r) ==
  Merge(Report(When(r.repo = "" \/ (r.repo \notin {"local", "meta"} /\ ~IsValidGitUrl(r.repo)), "repo")
               \union When(r.repo \notin {"local", "meta"}
                           /\ (Some(r.rev) => ~IsValidRevisionFormat(r.rev[1])), "rev")
               \union When(r.hooks = << >>, "no hook"), {}),
        MergeAll([i \in DOMAIN r.hooks |-> ValidateHook(r.hooks[i], r.repo)]))
ValidateGlobalSettings(c) ==
  Report(When(~Compiles(c.files), "files") \union When(~Compiles(c.exclude), "exclude")
         \union When(~AllOf(c.types, ValidatorHookType), "hook type")
         \union When(~AllOf(c.stages, LAMBDA s : s \in SupportedStages), "default stage"), {})
ValidateCrossReferences(c) ==
  LET places == UNION {{<<i, k>> : k \in DOMAIN c.repos[i].hooks} : i \in DOMAIN c.repos}
      hook(p) == c.repos[p[1]].hooks[p[2]]
      of(kind) == {hook(p) : p \in {p \in places : c.repos[p[1]].repo = kind}} IN
  Report(When(\E p, s \in places : p # s /\ hook(p).id = hook(s).id, "duplicate")
         \union When(\E h \in of("local") : h.entry = "", "entry"),
         When(\E h \in of("meta") : h.id # "identity", "meta"))
ValidateConfig(c) ==
  Merge(MergeAll([i \in DOMAIN c.repos |-> ValidateRepositoryDetailed(c.repos[i])]),
        Merge(ValidateGlobalSettings(c), ValidateCrossReferences(c)))
\* A text that is not YAML, or a file that cannot be read, is one error.
ValidateYaml(text) ==
  IF text.parses THEN ValidateConfig(text.config) ELSE Report({"format"}, {})
ValidateFile(disk) == IF Some(disk) THEN ValidateYaml(disk[1]) ELSE Report({"unreadable"}, {})
FromYaml(text) == IF text.parses /\ ConfigValidate(text.config) THEN <<text.config>> ELSE << >>
FromFile(disk) == IF Some(disk) THEN FromYaml(disk[1]) ELSE << >>

-----------------------------------------------------------------------------
(* External hooks: what the repository's .pre-commit-hooks.yaml says fills   *)
(* the fields the user has left open; depends_on is not among them.          *)

Definition(d) ==
  [d EXCEPT !.language = IF @ = "" THEN "system" ELSE @]
\* << >> if the file is missing or one definition has no id or no entry; a later
\* definition of an id replaces an earlier one.
LoadRepositoryHookDefinitions(file) ==
  IF ~Some(file) \/ ~AllOf(file[1], LAMBDA d : d.id # "" /\ d.entry # "") THEN << >>
  ELSE <<[id \in {file[1][i].id : i \in DOMAIN file[1]} |->
            LET at == {i \in DOMAIN file[1] : file[1][i].id = id} IN
            Definition(file[1][CHOOSE i \in at : \A j \in at : j <= i])]>>
Or(mine, theirs) == IF Some(mine) THEN mine ELSE theirs
MergeHookDefinition(h, d) ==
  [h EXCEPT !.entry = IF @ = "" THEN d.entry ELSE @,
            !.language = IF @ = "" THEN d.language ELSE @,
            !.files = Or(@, d.files), !.exclude = Or(@, d.exclude),
            !.types = Or(@, d.types), !.types_or = Or(@, d.types_or),
            !.exclude_types = Or(@, d.exclude_types),
            !.always_run = Or(@, d.always_run), !.stages = Or(@, d.stages),
            !.args = Or(@, d.args)]
\* A repository whose manifest defines d; an id it does not define is left as it is.
ResolveRepository(r, d) ==
  [r EXCEPT !.hooks = [k \in DOMAIN @ |-> IF @[k].id \in DOMAIN d THEN MergeHookDefinition(@[k], d[@[k].id]) ELSE @[k]]]
\* The repositories are cloned and read in parallel; one failure is the
\* failure of all.
ResolveExternalHooks(c, files) ==
  LET external == {i \in DOMAIN c.repos : c.repos[i].repo \notin {"local", "meta"}}
      defs(i) == LoadRepositoryHookDefinitions(files[i]) IN
  IF \E i \in external : ~Some(defs(i)) THEN << >>
  ELSE <<[c EXCEPT !.repos = [i \in DOMAIN @ |->
           IF i \in external THEN ResolveRepository(@[i], defs(i)[1]) ELSE @[i]]]>>

-----------------------------------------------------------------------------
(* core.rs: the hook that runs. *)

\* types_or takes the place of types; the default stage is pre-commit.
FromConfig(h) ==
  IF Some(h.stages) /\ ~AllOf(h.stages[1], LAMBDA s : Some(StageFromStr(s))) THEN << >>
  ELSE <<[id |-> h.id, entry |-> h.entry, language |-> h.language,
          stages |-> IF Some(h.stages) THEN {StageFromStr(h.stages[1][i])[1] : i \in DOMAIN h.stages[1]}
                     ELSE {"pre-commit"},
          files |-> h.files, exclude |-> h.exclude,
          types |-> IF Some(h.types_or) THEN h.types_or[1] ELSE Default(h.types, {}),
          exclude_types |-> Default(h.exclude_types, {}),
          always_run |-> Default(h.always_run, FALSE), args |-> Default(h.args, << >>)]>>
CoreHookValidate(h) ==
  h.id # "" /\ h.entry # "" /\ Compiles(h.files) /\ Compiles(h.exclude) /\ h.stages # {}
RunsForStage(h, s) == s \in h.stages

-----------------------------------------------------------------------------
(* Files.  disk[f] is << >> for a missing file, or <<[ext, binary, docker,   *)
(* shebang]>>: its extension, whether a NUL is among its first bytes,        *)
(* whether it is named Dockerfile, and the program its first line names.     *)

IsBinaryFile(f) == IF Some(f) THEN <<f[1].binary>> ELSE << >>
ExtensionTypes(ext) ==
  CASE ext = "py"  -> {"python"} [] ext = "pyi" -> {"python", "pyi"}
    [] ext = "rs"  -> {"rust"}   [] ext = "js"  -> {"javascript"}
    [] ext = "tsx" -> {"typescript", "tsx"} [] ext = "txt" -> {"text"}
    [] ext = "sh"  -> {"shell"}  [] ext = "dockerfile" -> {"dockerfile"}
    [] OTHER -> {}
DetectFileType(f) ==
  IF ~Some(f) THEN << >>
  ELSE <<{"file"} \union ExtensionTypes(f[1].ext)
         \union (IF IsBinaryFile(f)[1] THEN {"binary"} ELSE {"text"})
         \union (IF f[1].docker THEN {"dockerfile"} ELSE {})>>
DetectFileTypeAsync(f) == DetectFileType(f)

\* Hook::file_filter.
Filter(h) ==
  IF ~Compiles(h.files) \/ ~Compiles(h.exclude) THEN << >>
  ELSE <<[include |-> h.files, exclude |-> h.exclude, types |-> h.types,
          exclude_types |-> h.exclude_types]>>
\* <<answer>>, or << >> for a file whose type t has to be known and that is
\* missing.  One of the types is enough.
MatchesTyped(flt, f, t) ==
  IF (Some(flt.exclude) /\ f \in flt.exclude[1]) \/ (Some(flt.include) /\ f \notin flt.include[1]) THEN <<FALSE>>
  ELSE IF flt.types = {} /\ flt.exclude_types = {} THEN <<TRUE>>
  ELSE IF ~Some(t) THEN << >>
  ELSE <<flt.exclude_types \intersect t[1] = {} /\ (flt.types = {} \/ flt.types \intersect t[1] # {})>>
Matches(flt, f, disk) == MatchesTyped(flt, f, DetectFileType(disk[f]))
MatchesAsync(flt, f, disk) == MatchesTyped(flt, f, DetectFileTypeAsync(disk[f]))
\* One file that cannot be judged is the failure of all.
FilterFiles(flt, files, disk) ==
  IF ~AllOf(files, LAMBDA f : Some(Matches(flt, f, disk))) THEN << >>
  ELSE <<Subsequence(files, {i \in DOMAIN files : Matches(flt, files[i], disk)[1]})>>
FilterFilesArena(flt, files, disk) == FilterFiles(flt, files, disk)
\* The asynchronous one yields them in the order they finish: every answer is a
\* permutation of these.
FilterFilesAsync(flt, files, disk) ==
  IF ~AllOf(files, LAMBDA f : Some(MatchesAsync(flt, f, disk))) THEN {<< >>}
  ELSE LET r == Subsequence(files, {i \in DOMAIN files : MatchesAsync(flt, files[i], disk)[1]}) IN
       {<<[i \in DOMAIN r |-> r[g[i]]]>> :
          g \in {h \in [DOMAIN r -> DOMAIN r] : \A i, j \in DOMAIN h : i # j => h[i] # h[j]}}
\* Files the cache believes absent are passed over, and one that does not match
\* is recorded.  cache = [bloom, misses]: what the filter answers for, and what
\* was recorded.
NegativeStep(a, f, flt, disk) ==
  IF a.failed \/ f \in a.bloom \/ f \in a.misses THEN a
  ELSE IF ~Some(Matches(flt, f, disk)) THEN [a EXCEPT !.failed = TRUE]
  ELSE IF Matches(flt, f, disk)[1] THEN [a EXCEPT !.out = Append(@, f)]
  ELSE [a EXCEPT !.misses = @ \union {f}, !.bloom = @ \union {f}]
NegativeRun(flt, files, disk, cache) ==
  LET run[n \in 0..Len(files)] ==
        IF n = 0 THEN [out |-> << >>, failed |-> FALSE, bloom |-> cache.bloom, misses |-> cache.misses]
        ELSE NegativeStep(run[n - 1], files[n], flt, disk)
  IN run
FilterFilesWithNegativeCache(flt, files, disk, cache) == NegativeRun(flt, files, disk, cache)[Len(files)]
\* ExecutionContext::filtered_files: a hook that always runs gets every file.
FilteredFiles(h, files, disk) ==
  IF h.always_run THEN <<files>>
  ELSE IF Some(Filter(h)) THEN FilterFiles(Filter(h)[1], files, disk) ELSE << >>
FilteredFilesAsync(h, files, disk) ==
  IF h.always_run THEN {<<files>>}
  ELSE IF Some(Filter(h)) THEN FilterFilesAsync(Filter(h)[1], files, disk) ELSE {<< >>}
ArenaFilteredFiles(h, files, disk) ==
  IF h.always_run THEN <<files>>
  ELSE IF Some(Filter(h)) THEN FilterFilesArena(Filter(h)[1], files, disk) ELSE << >>

\* classification.rs.
LanguageDefinitions ==
  <<[name |-> "python", ext |-> {"py", "pyi"}, shebang |-> {"python"}, priority |-> 100],
    [name |-> "javascript", ext |-> {"js"}, shebang |-> {"node"}, priority |-> 90],
    [name |-> "typescript", ext |-> {"tsx"}, shebang |-> {"ts-node"}, priority |-> 95],
    [name |-> "rust", ext |-> {"rs"}, shebang |-> {}, priority |-> 85],
    [name |-> "shell", ext |-> {"sh"}, shebang |-> {"sh"}, priority |-> 75]>>
ClassifyByExtension(f) ==
  LET i == SelectInSeq(LanguageDefinitions, LAMBDA l : f.ext \in l.ext) IN
  IF i = 0 THEN << >> ELSE <<LanguageDefinitions[i].name>>
ClassifyByShebang(f) ==
  LET L == LanguageDefinitions
      hits == {i \in DOMAIN L : f.shebang \in L[i].shebang} IN
  IF hits = {} THEN << >>
  ELSE <<L[CHOOSE i \in hits : \A j \in hits : L[j].priority <= L[i].priority].name>>
\* A first line decides before the extension; << >> for a missing file.
ClassifyFileInternal(f) ==
  IF ~Some(f) THEN << >>
  ELSE IF Some(ClassifyByShebang(f[1])) THEN ClassifyByShebang(f[1])
  ELSE IF Some(ClassifyByExtension(f[1])) THEN ClassifyByExtension(f[1])
  ELSE <<"unknown">>
\* A classification that was made once is kept whatever becomes of the file.
ClassifyFile(cache, path, disk) ==
  IF path \in DOMAIN cache THEN [answer |-> <<cache[path]>>, cache |-> cache]
  ELSE LET c == ClassifyFileInternal(disk[path]) IN
       [answer |-> c, cache |-> IF Some(c) THEN [p \in DOMAIN cache \union {path} |->
                                   IF p = path THEN c[1] ELSE cache[p]] ELSE cache]

-----------------------------------------------------------------------------
(* migration.rs.  A file's text is [shape, config, min]: shape "mapping" with  *)
(* repos, "list" of repositories, "other" or "broken"; min is its              *)
(* minimum_pre_commit_version.  A format is <<family, version>>.               *)

SnpV1 == <<"snp", "1.0.0">>
DetectFormat(t) ==
  CASE t.shape = "mapping" -> <<"pre-commit", Default(t.min, "3.0.0")>>
    [] t.shape = "list"    -> <<"pre-commit", "2.0.0">>
    [] OTHER               -> SnpV1
CanMigrate(from, to) ==
  from = to \/ (from[1] = "pre-commit" /\ to[1] \in {"snp", "snp2"})
            \/ (from[1] = "snp" /\ to[1] = "snp2")
NewStageName(s) ==
  CASE s = "commit" -> "pre-commit" [] s = "push" -> "pre-push"
    [] s = "merge-commit" -> "pre-merge-commit" [] OTHER -> s
RenameStages(s) == [i \in DOMAIN s |-> NewStageName(s[i])]
MigrateHook(h) ==
  [h EXCEPT !.language = IF @ = "python_venv" THEN "python" ELSE @,
            !.stages = IF Some(@) THEN <<RenameStages(@[1])>> ELSE @]
\* sha takes the place of a rev that is there too.
MigrateRepo(r) ==
  [r EXCEPT !.rev = IF Some(r.sha) THEN r.sha ELSE @, !.sha = << >>,
            !.hooks = [i \in DOMAIN @ |-> MigrateHook(@[i])]]
ApplyPrecommitToSnp(c) ==
  [c EXCEPT !.repos = [i \in DOMAIN @ |-> MigrateRepo(@[i])], !.stages = RenameStages(@)]
HandleLegacyList(t) == IF t.shape = "list" THEN [t EXCEPT !.shape = "mapping"] ELSE t
\* [text, applied]: a text of the target format is left as it is unless strict.
MigrateValue(t, target, strict) ==
  LET f == DetectFormat(t)
      l == HandleLegacyList(t)
      new == IF f[1] = "pre-commit" /\ target[1] = "snp"
             THEN [l EXCEPT !.config = ApplyPrecommitToSnp(@)] ELSE l IN
  IF f = target /\ ~strict THEN [text |-> t, applied |-> FALSE]
  ELSE [text |-> new, applied |-> new # t]
MigrateContent(t, target, strict) ==
  IF t.shape = "broken" THEN << >> ELSE <<MigrateValue(t, target, strict)>>
\* migrate_directory: the files that are there and can be migrated, in a fixed
\* order; the others are passed over.
ConfigFileNames == <<".pre-commit-config.yaml", ".pre-commit-config.yml", "snp.yaml", "snp.yml">>
MigrateDirectory(files, target, strict) ==
  LET there == Subsequence(ConfigFileNames,
                 {i \in DOMAIN ConfigFileNames : /\ ConfigFileNames[i] \in DOMAIN files
                                                 /\ Some(MigrateContent(files[ConfigFileNames[i]], target, strict))}) IN
  [i \in DOMAIN there |-> MigrateContent(files[there[i]], target, strict)[1]]
\* migrate_repository names the same file for every migration.
MigrateRepository(files, target, strict) ==
  LET all == MigrateDirectory(files, target, strict) IN
  [i \in 1..Cardinality({k \in DOMAIN all : all[k].applied}) |-> ".pre-commit-config.yaml"]
\* auto_detect_format: the surest of the detectors; confidence in tenths.
\* "brace" is the opening one, with which JSON starts.
Detectors == <<[starts |-> "repos:", confidence |-> 9, format |-> <<"pre-commit", "4.0.0">>],
               [starts |-> "snp:",   confidence |-> 8, format |-> SnpV1],
               [starts |-> "brace",  confidence |-> 7, format |-> <<"pre-commit", "4.0.0">>]>>
AutoDetectFormat(marks) ==
  LET hits == {i \in DOMAIN Detectors : Detectors[i].starts \in marks} IN
  IF hits = {} THEN << >>
  ELSE <<Detectors[CHOOSE i \in hits : \A j \in hits : Detectors[j].confidence <= Detectors[i].confidence].format>>
=============================================================================
