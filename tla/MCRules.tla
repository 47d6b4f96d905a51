------------------------------ MODULE MCRules -------------------------------
(***************************************************************************)
(* Every question of a small set is put to the operators of LanguageRules  *)
(* and of ConfigRules, and the answer compared with what it is meant to    *)
(* be.                                                                     *)
(***************************************************************************)
EXTENDS LanguageRules, ConfigRules

CONSTANTS Majors, Minors,   \* bounds: the numbers versions are made of
          Length            \* bound: lines of a manifest, files of a hook

VARIABLE q    \* the question, [kind |-> ...]
Asked(k) == q.kind = k

Versions == Majors \X Minors
Installations == {[v |-> v, source |-> s, default |-> d] :
                    v \in Versions, s \in {"system", "stable"}, d \in BOOLEAN}
Plain == {[v |-> v] : v \in Versions}
Requests ==
  {[form |-> f, v |-> v] : f \in {"major", "minor", "range"}, v \in Versions}
    \union {[form |-> f, v |-> <<1, 0>>] : f \in {"default", "any", "system", "channel", "bad"}}
Lists(S, n) == UNION {[1 .. k -> S] : k \in 0 .. n}
FileNames == {"a", "b", "c"}

Choose ==
  \E req \in Requests :
    \/ \E l \in Lists(Plain, 2), m \in Lists(Plain, 1) :
         q' = [kind |-> "choose", req |-> req, list |-> l, more |-> m]
    \/ \E l \in Lists(Installations, 2) :
         q' = [kind |-> "toolchain", req |-> req, list |-> l]
Manager ==
  \E p \in {"auto", "npm", "yarn", "pnpm"}, l \in SUBSET {"yarn", "pnpm"},
     t \in SUBSET {"npm", "yarn", "pnpm"} :
    q' = [kind |-> "manager", pref |-> p, locks |-> l, tools |-> t]
Shell ==
  \E a, b, c \in BOOLEAN : \E v \in {<< >>, <<[answers |-> a, name |-> "variable"]>>} :
    q' = [kind |-> "shell", var |-> v,
          common |-> <<[answers |-> b, name |-> "bash"], [answers |-> c, name |-> "sh"]>>]
Format ==
  \E k \in {"any", "exact", "range", "compatible"}, lo, hi \in {<< >>, <<"1">>, <<"2">>} :
    /\ k \in {"exact", "compatible"} => lo # << >>
    /\ k # "range" => hi = << >>
    /\ k = "any" => lo = << >>
    /\ k = "range" => lo \o hi # << >>
    /\ q' = [kind |-> "format", d |-> Dep(<<"n">>, k, lo, hi)]
Requirements ==
  \E l \in Lists({<< >>, <<"#", "n">>, <<"-", "n">>, <<"n">>, <<"n", "==", "1">>,
                  <<"n", "semicolon", "==", "1">>}, Length) :
    q' = [kind |-> "requirements", lines |-> l]
Compare ==
  \E a, b \in 0 .. 11, k \in {"range", "exact", "compatible", "exclude"} :
    q' = [kind |-> "compare", spec |-> k, lo |-> a, v |-> b]
Change ==
  \E h \in [reads : BOOLEAN, writes : BOOLEAN, fixarg : BOOLEAN],
     old, new \in {<< >>} \union {<<f>> : f \in [hash : 0 .. 2, size : 1 .. 2, time : {0, 1, 2}]} :
    q' = [kind |-> "change", hook |-> h, old |-> old, new |-> new]
Command ==
  \E e \in {<< >>, <<"python">>, <<"python", "-m", "a">>, <<"tool">>, <<"tool", "x">>,
            <<"go", "run", "a">>, <<"debug-statements", "x">>},
     p \in BOOLEAN, bin \in SUBSET {"tool"} :
    \E f \in Lists(FileNames, 2) :
      q' = [kind |-> "command", hook |-> [entry |-> e, args |-> <<"arg">>, pass |-> p],
            files |-> f, bin |-> bin]
Workspace ==
  \/ \E d \in Lists(SUBSET {"Cargo.toml", "package.json", "workspaces", "broken"}, 2) :
       d # << >> /\ q' = [kind |-> "search", dirs |-> d]
  \/ \E t \in SUBSET {"workspace", "package", "members"},
        ms \in Lists({"package", "missing", "unparsable"}, 2) :
       q' = [kind |-> "cargo", toml |-> t, members |-> ms]
Gemfile ==
  \E l \in Lists({[kind |-> "group", value |-> "test"], [kind |-> "group", value |-> "dev"],
                  [kind |-> "gem", value |-> "g"], [kind |-> "end", value |-> ""],
                  [kind |-> "block", value |-> ""]}, Length) :
    q' = [kind |-> "gemfile", lines |-> l]
GoMod ==
  \/ \E l \in Lists({"require (", "require x", ")", "x v1", "replace x"}, Length) :
       q' = [kind |-> "gomod", lines |-> l]
  \/ \E f \in SUBSET {"go.mod", "go.work"} : q' = [kind |-> "gomode", files |-> f]
Dockerfile ==
  \/ \E l \in Lists({[kind |-> k, value |-> v] : k \in {"FROM", "WORKDIR", "EXPOSE", "RUN"},
                                                 v \in {"1", "2"}}, 3) :
       q' = [kind |-> "dockerfile", lines |-> l]
  \/ \E n \in SUBSET {"Dockerfile", "dockerfile", "Dockerfile.prod"} :
       q' = [kind |-> "dockername", names |-> n]

Init == q = [kind |-> "none"]
LanguageQuestion ==
  /\ Asked("none")
  /\ Choose \/ Manager \/ Shell \/ Format \/ Requirements \/ Compare \/ Change
     \/ Command \/ Workspace \/ Gemfile \/ GoMod \/ Dockerfile

-----------------------------------------------------------------------------
Serves(lang, req, i) ==
  CASE req.form \in {"default", "any"} -> TRUE
    [] req.form = "major" -> i.v[1] = req.v[1]
    [] req.form = "minor" -> IF lang \in {"python", "ruby"} THEN i.v = req.v ELSE InRange(req, i.v)
    [] req.form = "range" -> lang \notin {"python", "ruby"} /\ InRange(req, i.v)
    [] req.form = "system" -> lang \in {"node", "ruby"} \/ (lang = "rust" /\ i.source = "system")
    [] req.form = "channel" -> lang = "rust" /\ i.source = "stable"
    [] OTHER -> FALSE
Newest(i, S) == \A j \in S : ~NewerVersion(j.v, i.v)

\* Which installation a hook runs with: python and node refuse a request that no
\* installation meets, rust falls back to its default toolchain and ruby to the
\* newest, and python, rust and ruby prefer the newest of those that meet it
\* (python.rs:518, rust.rs:807, nodejs.rs:383, ruby.rs:1084).  The package
\* manager and the shell are ones that work.
SelectionServesRequest ==
  /\ Asked("choose") =>
       LET all == q.list \o q.more
           fit(l) == {i \in ToSet(all) : Serves(l, q.req, i)}
           py == FindSuitablePython(all, q.req)
           node == FindSuitableNode(q.list, q.more, q.req)
           ruby == ChooseRuby(q.list, q.more, q.req) IN
       /\ IF fit("python") = {} THEN py = Refused ELSE py[1] \in fit("python") /\ Newest(py[1], fit("python"))
       /\ IF fit("node") = {} THEN node = Refused ELSE node[1] \in fit("node")
       /\ IF all = << >> THEN ruby = Refused
          ELSE IF fit("ruby") = {} THEN Newest(ruby[1], ToSet(all))
          ELSE ruby[1] \in fit("ruby") /\ Newest(ruby[1], fit("ruby"))
  /\ Asked("toolchain") =>
       LET fit == {i \in ToSet(q.list) : Serves("rust", q.req, i)}
           rust == FindSuitableToolchain(q.list, q.req) IN
       IF q.list = << >> \/ q.req.form = "bad" THEN rust = Refused
       ELSE IF fit # {} /\ q.req.form # "default" THEN rust[1] \in fit /\ Newest(rust[1], fit)
       ELSE rust[1].default \/ \A i \in ToSet(q.list) : ~i.default
  /\ Asked("manager") =>
       LET m == DetectPackageManager(q.pref, q.locks, q.tools) IN
       /\ m # Err => m \in q.tools
       /\ m = Err => (IF q.pref = "auto" THEN "npm" ELSE q.pref) \notin q.tools
  /\ Asked("shell") =>
       LET s == DetectUnixShell(q.var, q.common) IN
       IF s = Refused THEN ~\E i \in 1 .. 2 : q.common[i].answers ELSE s[1].answers

Digits(n) == IF n < 10 THEN <<1, Dot, n>> ELSE <<1, Dot, n \div 10, n % 10>>

\* A dependency that is parsed, formatted for pip and parsed again is the same
\* one, unless it has an upper bound or is a compatible release, which the
\* parser takes for part of a version or a name; a requirements file gives one
\* dependency per line that is not a comment or an option.  A bound on a
\* version is right as long as no number has two digits: 1.10 is below 1.9 for
\* VersionSpec::matches, which compares strings (dependency.rs:221).
SpecsMeanTheSame ==
  /\ Asked("format") /\ q.d.max = << >> /\ q.d.kind # "compatible"
       => ParseDependencySpec(FormatDependencySpec(q.d)) = q.d
  /\ Asked("requirements") =>
       LET deps == ParseRequirements(q.lines) IN
       /\ Len(deps) = Cardinality({i \in DOMAIN q.lines : q.lines[i] # << >> /\ q.lines[i][1] = "n"})
       /\ \A i \in DOMAIN deps : deps[i].name = <<"n">>
  /\ Asked("compare") =>
       LET m == SpecMatches(q.spec, Digits(q.lo), << >>, Digits(q.v)) IN
       /\ q.spec = "exact" => (m <=> q.v = q.lo)
       /\ q.spec = "exclude" => (m <=> q.v # q.lo)
       /\ q.spec = "range" /\ (q.v < 10 <=> q.lo < 10) => (m <=> q.v >= q.lo)
       /\ q.spec = "range" /\ q.v >= 10 /\ q.lo \in 2 .. 9 => ~m

\* The files of a hook reach its command exactly once, in order and after the
\* arguments, when pass_filenames says so; ruby and golang pass them anyway, and
\* golang keeps back the program it runs (ruby.rs:1248, golang.rs:957).  A file
\* whose content a hook has changed is reported if the hook's name does not
\* stand for reading (python.rs:163) and the file can be read.
FilesReachHook ==
  /\ Asked("command") =>
       LET h == q.hook
           ends(c, f) == c # Refused => IsSuffix(h.args \o f, c[1].args)
                                        /\ Cardinality({i \in DOMAIN c[1].args : c[1].args[i] = "arg"}) = 1
           named == IF h.pass THEN q.files ELSE << >> IN
       /\ h.entry # << >> => ends(BuildPythonCommand(h, q.files, q.bin, "dir"), named)
       /\ ends(BuildRustCommand(h, q.files, "root"), named)
       /\ ends(BuildNodejsCommand(h, q.files, "root"), named)
       /\ ends(BuildSystemCommand(h, q.files, "dir"), named)
       /\ ends(BuildScriptCommand(h, q.files, "dir"), named)
       /\ ends(BuildDockerCommand(h, q.files, "root"), named)
       /\ ends(BuildRubyCommand(h, q.files, "root"), q.files)
       /\ ends(BuildGoCommand(h, q.files, "root"),
               Subsequence(q.files, {i \in DOMAIN q.files : ~(Len(h.entry) = 3 /\ h.entry[1] = "go" /\ q.files[i] = h.entry[3])}))
  /\ Asked("change") =>
       LET before == CaptureFileStates({"f"}, [f \in {"f"} |-> q.old])
           seen == FilesModified(q.hook, before, {"f"}, [f \in {"f"} |-> q.new]) IN
       /\ seen # {} => q.old # << >> /\ q.new # << >> /\ q.old # q.new
       /\ (q.old # << >> /\ q.new # << >>) =>
            (q.old[1].hash # q.new[1].hash /\ q.hook.writes /\ ~q.hook.reads => seen = {"f"})

Innermost(lines, k) ==
  LET open == {i \in 1 .. k : lines[i].kind = "group" /\
                 \A m \in i .. k :
                     Cardinality({j \in i .. m : lines[j].kind = "group"})
                       > Cardinality({j \in i .. m : lines[j].kind = "end"})} IN
  IF open = {} THEN "default" ELSE lines[CHOOSE i \in open : \A j \in open : j <= i].value

\* What is read from a manifest: the nearest Cargo.toml and workspace root above
\* a directory, the members of a workspace that exist, each gem of a Gemfile in
\* the innermost group around it (if its blocks are groups), the requires of a
\* go.mod whose blocks are closed, and the base image of a Dockerfile.
ManifestsRead ==
  /\ Asked("search") =>
       LET n == Len(q.dirs)
           c == FindCargoToml(q.dirs)
           w == FindWorkspaceRoot(q.dirs) IN
       /\ \A i \in c + 1 .. n : "Cargo.toml" \notin q.dirs[i]
       /\ w = << >> => \A i \in 1 .. n : ~IsWorkspaceRoot(q.dirs[i])
       /\ Len(w) = 2 => /\ IsWorkspaceRoot(q.dirs[w[2]])
                        /\ \A i \in w[2] + 1 .. n : ~IsWorkspaceRoot(q.dirs[i])
                        /\ FindProjectRoot(q.dirs) >= w[2]
  /\ Asked("cargo") =>
       LET r == AnalyzeCargoWorkspace(q.toml, q.members) IN
       r # Refused => \A i \in DOMAIN r[1] : r[1][i] = "package"
  /\ Asked("gemfile") /\ ~(\E i \in DOMAIN q.lines : q.lines[i].kind = "block") =>
       LET at == {k \in DOMAIN q.lines : q.lines[k].kind = "gem"}
           gems == ParseGemfile(q.lines) IN
       /\ Len(gems) = Cardinality(at)
       /\ \A k \in at : gems[Cardinality({j \in at : j <= k})] = Innermost(q.lines, k)
  /\ Asked("gomod") =>
       LET m == ParseGoMod(q.lines) IN
       ("require (" \notin ToSet(q.lines)) =>
         /\ m.deps = Cardinality({i \in DOMAIN q.lines : q.lines[i] = "require x"})
         /\ m.replaced = Cardinality({i \in DOMAIN q.lines : q.lines[i] = "replace x"})
  /\ Asked("gomode") => (ModuleMode(q.files) = "Gopath" <=> q.files = {})
  /\ Asked("dockerfile") =>
       LET d == ParseDockerfile(q.lines)
           from == {i \in DOMAIN q.lines : q.lines[i].kind = "FROM"}
           dir == {i \in DOMAIN q.lines : q.lines[i].kind = "WORKDIR"} IN
       /\ d.base = IF from = {} THEN None ELSE q.lines[Min(from)].value
       /\ d.dir = IF dir = {} THEN None ELSE q.lines[Max(dir)].value
  /\ Asked("dockername") =>
       LET n == FindDockerfile(q.names) IN
       n # Err => n \in q.names /\ ("Dockerfile" \in q.names => n = "Dockerfile")

-----------------------------------------------------------------------------
(* Configurations. *)

StageLists == {<< >>, <<"commit">>, <<"merge-commit">>, <<"push", "manual">>, <<"commit-msg">>, <<"later">>}
AHook == [id |-> "a", entry |-> "e", language |-> "python", files |-> << >>, exclude |-> << >>,
          stages |-> << >>, types |-> << >>, types_or |-> << >>, exclude_types |-> << >>,
          always_run |-> << >>, args |-> << >>]
SomeHooks ==
  {[AHook EXCEPT !.id = i, !.entry = e, !.language = l, !.files = p, !.stages = s] :
     i \in {"", "a"}, e \in {"", "e"}, l \in {"", "python_venv", "cobol"},
     p \in {<< >>, <<{"f"}>>, <<BadRegex>>},
     s \in {<< >>} \union {<<t>> : t \in StageLists}}
Repo(r, v, s, hooks) == [repo |-> r, rev |-> v, sha |-> s, hooks |-> hooks]
AConfig == [repos |-> << >>, files |-> << >>, exclude |-> << >>, stages |-> << >>, types |-> << >>]
Revisions == {<< >>, <<"v1">>, <<"a b">>}

\* One hook of one repository in every form; two repositories and the global
\* settings with few forms of hook.
Configuration ==
  \/ \E h \in SomeHooks, r \in {"", "local", "meta", "url", "path"}, v \in Revisions,
        s \in {<< >>, <<"v0">>} :
       q' = [kind |-> "config", c |-> [AConfig EXCEPT !.repos = <<Repo(r, v, s, <<h>>)>>]]
  \/ \E i, j \in {"a", "b", "identity"}, r, t \in {"local", "meta", "url"}, e \in {"", "e"},
        n \in StageLists, y \in StageLists \union {<<"pre-push">>}, p \in {<< >>, <<BadRegex>>} :
       q' = [kind |-> "config",
             c |-> [AConfig EXCEPT !.files = p, !.stages = n, !.types = y,
                      !.repos = <<Repo(r, <<"v1">>, << >>, <<[AHook EXCEPT !.id = i]>>),
                                  Repo(t, <<"v1">>, << >>, <<[AHook EXCEPT !.id = j, !.entry = e]>>)>>]]
Definitions ==
  {[AHook EXCEPT !.id = i, !.entry = e, !.language = l, !.files = p, !.stages = s] :
     i \in {"", "a", "b"}, e \in {"", "e2"}, l \in {"", "rust"}, p \in {<< >>, <<{"g"}>>},
     s \in {<< >>, <<<<"later">>>>}}
Resolve ==
  \E h \in SomeHooks, f \in {<< >>} \union {<<l>> : l \in Lists(Definitions, 1)},
     extra \in {<< >>} \union {<<[AHook EXCEPT !.entry = "e3"]>>} :
    /\ h.files # <<BadRegex>>
    /\ q' = [kind |-> "resolve",
             c |-> [AConfig EXCEPT !.repos = <<Repo("local", << >>, << >>, <<AHook>>),
                                               Repo("url", <<"v1">>, << >>, <<h, [AHook EXCEPT !.id = "z"]>>)>>],
             files |-> <<<< >>, IF Some(f) THEN <<f[1] \o extra>> ELSE f>>]

Contents == {[ext |-> x, binary |-> b, docker |-> d, shebang |-> s] :
               x \in {"pyi", "tsx", "sh", "go"}, b, d \in BOOLEAN, s \in {"", "python", "sh"}}
FewContents == {c \in Contents : ~c.docker /\ c.ext # "tsx" /\ c.shebang = ""}
FilterQuestion ==
  \E inc, exc \in {<< >>, <<{"f"}>>, <<{"f", "g"}>>, <<BadRegex>>}, ts, no \in {{}, {"python"}, {"shell", "text"}},
     always \in BOOLEAN, bloom \in {{}, {"f"}},
     d \in [{"f", "g"} -> {<< >>} \union {<<c>> : c \in FewContents}] :
    q' = [kind |-> "filter", disk |-> d, bloom |-> bloom,
          hook |-> [AHook EXCEPT !.files = inc, !.exclude = exc, !.types_or = <<ts>>,
                                 !.exclude_types = <<no>>, !.always_run = <<always>>]]
Classify ==
  \E a, b \in {<< >>} \union {<<c>> : c \in Contents} :
    q' = [kind |-> "classify", before |-> a, now |-> b]
Texts == [shape : {"mapping", "list", "other", "broken"}, min : {<< >>, <<"2.1">>}, config :
           {[AConfig EXCEPT !.stages = n, !.repos = <<Repo("url", v, s, <<[AHook EXCEPT !.stages = <<t>>, !.language = l]>>)>>] :
              n, t \in StageLists, v \in Revisions, s \in {<< >>, <<"v0">>}, l \in {"python_venv", "rust"}}]
Migrate ==
  \/ \E t \in Texts, to \in {SnpV1, <<"snp2", "1">>}, strict \in BOOLEAN :
       q' = [kind |-> "migrate", text |-> t, to |-> to, strict |-> strict]
  \/ \E m \in SUBSET {"repos:", "snp:", "brace"} : q' = [kind |-> "detect", marks |-> m]

ConfigurationQuestion ==
  Asked("none") /\ (Configuration \/ Resolve \/ FilterQuestion \/ Classify \/ Migrate)

-----------------------------------------------------------------------------
Hooks(c) == UNION {{c.repos[i].hooks[k] : k \in DOMAIN c.repos[i].hooks} : i \in DOMAIN c.repos}
NamesStage(h, S) == Some(h.stages) /\ \E i \in DOMAIN h.stages[1] : h.stages[1][i] \in S

\* The three places that judge a configuration agree but for known differences.
\* What the loader accepts (config.rs) can be turned into hooks that run
\* (core.rs), and the validator (validation.rs) objects to it only for an old
\* stage name, an empty list of stages, a missing entry, a malformed address or
\* revision, or two hooks of one id.  What the validator accepts loads, unless
\* a hook type to install is manual or merge-commit.
ConfigurationsAgree ==
  Asked("config") =>
    LET c == q.c
        ok == ConfigValidate(c)
        errors == ValidateConfig(c).errors IN
    /\ ok => \A h \in Hooks(c) : Some(FromConfig(h))
    /\ ok => errors \subseteq {"stage", "default stage", "no stage", "entry", "repo", "rev", "duplicate"}
    /\ ok /\ "stage" \in errors => \E h \in Hooks(c) : NamesStage(h, {"commit", "push"})
    /\ ok /\ "default stage" \in errors => ToSet(c.stages) \intersect {"commit", "push"} # {}
    /\ ok /\ errors = {} => \A h \in Hooks(c) : h.entry # "" => CoreHookValidate(FromConfig(h)[1])
    /\ errors = {} /\ ToSet(c.types) \intersect {"manual", "merge-commit"} = {} => ok
    /\ FromFile(<<[parses |-> TRUE, config |-> c]>>) = << >> <=> ~ok
    /\ ValidateFile(<<[parses |-> FALSE, config |-> c]>>).errors # {} /\ ValidateFile(<< >>).errors # {}

\* An external hook that its repository defines has an entry and a language once
\* it is resolved, keeps what the user has set, and only then can fail to become
\* a hook that runs when the stages come from the repository, which nobody has
\* checked (config.rs:461); an id the repository does not define stays as it was.
ResolutionCompletes ==
  Asked("resolve") =>
    LET r == ResolveExternalHooks(q.c, q.files)
        mine == q.c.repos[2].hooks
        defs == LoadRepositoryHookDefinitions(q.files[2]) IN
    /\ Some(r) <=> Some(defs)
    /\ Some(r) =>
         /\ r[1].repos[1] = q.c.repos[1]
         /\ \A k \in DOMAIN mine :
              LET h == r[1].repos[2].hooks[k] IN
              /\ mine[k].id \notin DOMAIN defs[1] => h = mine[k]
              /\ mine[k].id \in DOMAIN defs[1] => h.entry # "" /\ h.language # ""
              /\ mine[k].entry # "" => h.entry = mine[k].entry
              /\ Some(mine[k].files) => h.files = mine[k].files
              /\ HookValidate(mine[k]) /\ ~Some(FromConfig(h)) => ~Some(mine[k].stages)

\* A hook is given the files that its patterns and types select, in their
\* order; the arena's and the asynchronous way select the same files, the
\* latter in any order; with a negative cache a file is missed only when the
\* bloom filter answers for it wrongly.  A hook that always runs gets every
\* file, even with a pattern that does not compile.  A classification that is
\* kept is that of the file as it first was (classification.rs:120).
FilesSelected ==
  /\ Asked("filter") =>
       LET h == FromConfig(q.hook)[1]
           files == <<"g", "f">>
           r == FilteredFiles(h, files, q.disk)
           wanted(f) == /\ Some(h.files) => f \in h.files[1]
                        /\ Some(h.exclude) => f \notin h.exclude[1]
           typed == h.types # {} \/ h.exclude_types # {}
           fits(f) == /\ h.types = {} \/ DetectFileType(q.disk[f])[1] \intersect h.types # {}
                      /\ DetectFileType(q.disk[f])[1] \intersect h.exclude_types = {} IN
       /\ h.always_run => r = <<files>>
       /\ ~h.always_run =>
            /\ Some(r) <=> /\ Compiles(h.files) /\ Compiles(h.exclude)
                           /\ \A f \in ToSet(files) : typed /\ wanted(f) => q.disk[f] # << >>
            /\ Some(r) => r[1] = Subsequence(files, {i \in DOMAIN files : wanted(files[i]) /\ (typed => fits(files[i]))})
       /\ ArenaFilteredFiles(h, files, q.disk) = r
       /\ \A a \in FilteredFilesAsync(h, files, q.disk) :
            Some(a) <=> Some(r) /\ (Some(a) => ToSet(a[1]) = ToSet(r[1]))
       /\ Some(Filter(h)) =>
            LET n == FilterFilesWithNegativeCache(Filter(h)[1], files, q.disk, [bloom |-> q.bloom, misses |-> {}])
                plain == FilterFiles(Filter(h)[1], files, q.disk) IN
            /\ ~n.failed /\ Some(plain) => /\ ToSet(n.out) = ToSet(plain[1]) \ q.bloom
                                           /\ n.misses \intersect ToSet(plain[1]) = {}
            /\ n.failed => ~Some(plain)
  /\ Asked("classify") =>
       LET first == ClassifyFile([p \in {} |-> ""], "f", [f \in {"f"} |-> q.before])
           second == ClassifyFile(first.cache, "f", [f \in {"f"} |-> q.now]) IN
       /\ second.answer = IF Some(q.before) THEN first.answer ELSE ClassifyFileInternal(q.now)
       /\ Some(q.now) /\ q.now[1].shebang = "python" /\ ~Some(q.before) => second.answer = <<"python">>

\* A migration is done once: migrating its result changes nothing.  A file that
\* loads still loads afterwards, a repository keeps the revision it was pinned
\* to, and every hook runs in the stages it ran in, but for merge-commit, which
\* becomes pre-merge-commit (migration.rs:516); the validator then has nothing
\* to say of its stages that it would not have said of new names.
MigrationPreserves ==
  /\ Asked("migrate") /\ Some(MigrateContent(q.text, q.to, q.strict)) =>
       LET r == MigrateContent(q.text, q.to, q.strict)[1]
           old == q.text.config.repos[1]
           new == r.text.config.repos[1] IN
       /\ q.to = SnpV1 => ~MigrateContent(r.text, q.to, q.strict)[1].applied
       /\ ConfigValidate(q.text.config) => ConfigValidate(r.text.config)
       /\ r.applied /\ q.to = SnpV1 => new.rev = (IF Some(old.sha) THEN old.sha ELSE old.rev)
       /\ LET a == FromConfig(old.hooks[1])
              b == FromConfig(new.hooks[1]) IN
          /\ Some(a) <=> Some(b)
          /\ Some(a) /\ "merge-commit" \notin a[1].stages => \A t \in StageNames : RunsForStage(b[1], t) <=> RunsForStage(a[1], t)
       /\ r.applied /\ q.to = SnpV1 /\ ConfigValidate(r.text.config) =>
            ~NamesStage(new.hooks[1], {"commit", "push", "merge-commit"})
            /\ "stage" \notin ValidateConfig(r.text.config).errors
       /\ r.applied => CanMigrate(DetectFormat(q.text), q.to) /\ q.text.shape \in {"mapping", "list"}
       /\ \A n \in ToSet(MigrateRepository([f \in {"snp.yml", "snp.yaml"} |-> q.text], q.to, q.strict)) :
            r.applied
  /\ Asked("detect") => (Some(AutoDetectFormat(q.marks)) <=> q.marks # {})
=============================================================================
