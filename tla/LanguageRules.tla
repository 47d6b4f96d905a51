---------------------------- MODULE LanguageRules ----------------------------
(***************************************************************************)
(* What the language plugins compute without a tool: which installation    *)
(* serves a request, what a dependency specification means, which files a  *)
(* hook has changed, the command line of a hook, and what is read from a   *)
(* project's manifests (src/src/language/*.rs).                            *)
(*                                                                         *)
(* A version is <<major, minor>>.  A line of a manifest or a specification *)
(* is a record or a sequence of tokens; how characters make up tokens is   *)
(* left out.                                                               *)
(***************************************************************************)
EXTENDS Integers, Sequences, FiniteSets, SequencesExt, Subsequences

Err == "error"     \* of a function that returns a name
None == "none"
Refused == << >>   \* of one that returns Ok(x) or Some(x), which is <<x>>

-----------------------------------------------------------------------------
(* Choosing an installation. *)

NewerVersion(a, b) == a[1] > b[1] \/ (a[1] = b[1] /\ a[2] > b[2])
\* sort_by is stable: of equal versions the one that was found first stays first.
SortedByVersion(s) ==
  LET before(i, j) == NewerVersion(s[i].v, s[j].v) \/ (s[i].v = s[j].v /\ i < j)
      place(i) == 1 + Cardinality({j \in 1 .. Len(s) : before(j, i)}) IN
  [k \in 1 .. Len(s) |-> s[CHOOSE i \in 1 .. Len(s) : place(i) = k]]
\* The first of the entries at the positions that fit.
FirstOf(s, at) == IF at = {} THEN Refused ELSE <<s[Min(at)]>>

\* A request: [form, v] with form "default", "any", "major", "minor", "range",
\* "system", "channel" or "bad" (it does not parse).  A range is met by every
\* version of that major number from v on, and so is a bare version where it is
\* read as a semver::VersionReq, for versions from 1.0; "any" is * there.
InRange(req, v) == req.v[1] = v[1] /\ req.v[2] <= v[2]
Meets(req, v) ==
  CASE req.form = "any"   -> TRUE
    [] req.form = "major" -> v[1] = req.v[1]
    [] OTHER              -> InRange(req, v)

\* python: names on the PATH, newest first.
DetectPythonInterpreters(found) == SortedByVersion(found)
\* python: "python", "python3", "python3.9"; a request without that prefix, a
\* bare version or a range, matches nothing.
VersionMatches(req, v) ==
  CASE req.form = "any"   -> TRUE
    [] req.form = "major" -> v[1] = req.v[1]
    [] req.form = "minor" -> v = req.v
    [] OTHER              -> FALSE
FindSuitablePython(found, req) ==
  LET all == DetectPythonInterpreters(found)
      hit == FirstOf(all, {i \in DOMAIN all : VersionMatches(req, all[i].v)}) IN
  IF all = << >> THEN Refused ELSE IF req.form \in {"default", "any"} THEN <<all[1]>> ELSE hit

\* rust: rustup's toolchains and the system's, newest first.
DetectRustToolchains(found) == SortedByVersion(found)
DefaultToolchain(all) ==
  LET d == FirstOf(all, {i \in DOMAIN all : all[i].default}) IN IF d = Refused THEN <<all[1]>> ELSE d
\* rust: a request nobody meets falls back to the default toolchain; only one
\* that does not parse is refused.
FindSuitableToolchain(found, req) ==
  LET all == DetectRustToolchains(found)
      hit == CASE req.form = "system"  -> FirstOf(all, {i \in DOMAIN all : all[i].source = "system"})
               [] req.form = "channel" -> FirstOf(all, {i \in DOMAIN all : all[i].source = "stable"})
               [] req.form \in {"major", "minor", "range", "any"} ->
                    FirstOf(all, {i \in DOMAIN all : Meets(req, all[i].v)})
               [] OTHER -> Refused IN
  IF all = << >> \/ req.form = "bad" THEN Refused ELSE IF hit # Refused THEN hit ELSE DefaultToolchain(all)

\* node: in the order of the PATH, then nvm's; a channel does not parse.
DetectNodeInstallations(path, nvm) == path \o nvm
\* Mutant: a request that nobody meets gets the first installation.
FindSuitableNodeOrFirst(path, nvm, req) ==
  LET all == DetectNodeInstallations(path, nvm)
      hit == FirstOf(all, {i \in DOMAIN all : Meets(req, all[i].v)}) IN
  IF all = << >> \/ req.form \in {"bad", "channel"} THEN Refused
  ELSE IF hit = Refused \/ req.form \in {"default", "system"} THEN <<all[1]>> ELSE hit
FindSuitableNode(path, nvm, req) ==
  LET all == DetectNodeInstallations(path, nvm)
      hit == FirstOf(all, {i \in DOMAIN all : Meets(req, all[i].v)}) IN
  IF all = << >> \/ req.form \in {"bad", "channel"} THEN Refused
  ELSE IF req.form \in {"default", "system"} THEN <<all[1]>> ELSE hit

\* ruby: one on the PATH and those of each version manager, newest first; a
\* request is a prefix of the version, and one nobody meets gets the newest.
DetectRubyInstallations(path, managed) == SortedByVersion(path \o managed)
ChooseRuby(path, managed, req) ==
  LET all == DetectRubyInstallations(path, managed)
      starts(v) == CASE req.form = "system" -> TRUE
                     [] req.form = "major"  -> v[1] = req.v[1]
                     [] req.form = "minor"  -> v = req.v
                     [] OTHER -> FALSE
      hit == FirstOf(all, {i \in DOMAIN all : starts(all[i].v)}) IN
  IF all = << >> THEN Refused ELSE IF req.form = "default" \/ hit = Refused THEN <<all[1]>> ELSE hit

\* node: the package manager of the lock file that is there, npm when that one
\* is not installed.
AutoDetectPackageManager(locks, tools) ==
  LET wanted == IF "pnpm" \in locks THEN "pnpm" ELSE IF "yarn" \in locks THEN "yarn" ELSE "npm" IN
  IF wanted \in tools THEN wanted ELSE IF "npm" \in tools THEN "npm" ELSE Err
DetectPackageManager(preference, locks, tools) ==
  IF preference = "auto" THEN AutoDetectPackageManager(locks, tools)
  ELSE IF preference \in tools THEN preference ELSE Err

\* system: the shell of $SHELL, else the first common one; a shell that does
\* not answer --version is passed over.
DetectUnixShell(variable, common) ==
  LET all == variable \o common IN FirstOf(all, {i \in DOMAIN all : all[i].answers})

-----------------------------------------------------------------------------
(* Dependency specifications: a sequence of tokens, an operator among them. *)

Before(s, i) == SubSeq(s, 1, i - 1)
After(s, i)  == SubSeq(s, i + 1, Len(s))
Dep(n, k, lo, hi) == [name |-> n, kind |-> k, min |-> lo, max |-> hi]

\* python and dependency.rs: the first "==" splits, else the first ">=", else
\* everything is the name.
ParseDependencySpec(s) ==
  LET eq == {i \in DOMAIN s : s[i] = "=="}
      ge == {i \in DOMAIN s : s[i] = ">="} IN
  CASE eq # {} -> Dep(Before(s, Min(eq)), "exact", After(s, Min(eq)), << >>)
    [] eq = {} /\ ge # {} -> Dep(Before(s, Min(ge)), "range", After(s, Min(ge)), << >>)
    [] OTHER -> Dep(s, "any", << >>, << >>)

\* python: what pip is given for a dependency.
FormatDependencySpec(d) ==
  CASE d.kind = "exact" -> d.name \o <<"==">> \o d.min
    [] d.kind = "compatible" -> d.name \o <<"~=">> \o d.min
    [] d.kind = "range" ->
         d.name \o (IF d.min = << >> THEN << >> ELSE <<">=">> \o d.min)
                \o (IF d.max = << >> THEN << >>
                    ELSE (IF d.min = << >> THEN << >> ELSE <<",">>) \o <<"<=">> \o d.max)
    [] OTHER -> d.name

\* python: comment, option and empty lines are passed over, a marker is cut off.
ParseRequirements(lines) ==
  LET kept == Subsequence(lines, {i \in DOMAIN lines : lines[i] # << >> /\ lines[i][1] \notin {"#", "-"}})
      cut(l) == LET at == {i \in DOMAIN l : l[i] = "semicolon"} IN
                IF at = {} THEN l ELSE Before(l, Min(at)) IN
  [i \in 1 .. Len(kept) |-> ParseDependencySpec(cut(kept[i]))]

\* dependency.rs, VersionSpec::matches: versions are compared as strings.  A
\* version is the sequence of its characters here, the dot being less than
\* every digit.
Dot == -1
StringLess(a, b) ==
  \E k \in 0 .. Len(a) : /\ k < Len(b) /\ \A i \in 1 .. k : a[i] = b[i]
                         /\ k = Len(a) \/ a[k + 1] < b[k + 1]
SpecMatches(kind, lo, hi, v) ==
  CASE kind = "any"        -> TRUE
    [] kind = "exact"      -> v = lo
    [] kind = "range"      -> (lo = << >> \/ ~StringLess(v, lo)) /\ (hi = << >> \/ ~StringLess(hi, v))
    [] kind = "compatible" -> IsPrefix(lo, v)
    [] kind = "exclude"    -> v # lo

-----------------------------------------------------------------------------
(* Which files a hook has changed. *)

\* python: content hash (0 for a file that cannot be read), size and time.
IsModified(a, b) ==
  \/ a.hash # b.hash \/ a.size # b.size
  \/ a.time - b.time > 1 \/ b.time - a.time > 1
CaptureFileStates(files, disk) == [f \in {g \in files : disk[g] # << >>} |-> disk[f][1]]
DetectModifiedFiles(before, files, disk) ==
  {f \in files : f \in DOMAIN before /\ disk[f] # << >> /\ IsModified(disk[f][1], before[f])}
\* python: words in the name or the entry; a word that stands for reading, such
\* as "lint", wins over a word for writing and over an argument --fix.
HookLikelyModifiesFiles(h) == ~h.reads /\ (h.writes \/ h.fixarg)
FilesModified(h, before, files, disk) ==
  IF HookLikelyModifiesFiles(h) THEN DetectModifiedFiles(before, files, disk) ELSE {}

-----------------------------------------------------------------------------
(* Command lines: <<[exe, args, cwd]>>, or Refused. *)

Cmd(exe, args, cwd) == <<[exe |-> exe, args |-> args, cwd |-> cwd]>>
PassedNames(h, files) == IF h.pass THEN files ELSE << >>

\* python: the first word of the entry must be in the environment's bin, under
\* its name or an alternative one; two hooks are modules.
FindExecutableInVenv(bin, word) ==
  IF word \in bin \/ <<word, "alternative">> \in bin THEN word
  ELSE IF word = "debug-statements" THEN "module" ELSE Err
BuildPythonCommand(h, files, bin, dir) ==
  LET found == FindExecutableInVenv(bin, h.entry[1]) IN
  IF h.entry = <<"python">> THEN Cmd("python", h.args \o PassedNames(h, files), dir)
  ELSE IF Len(h.entry) >= 2 /\ h.entry[1] = "python" /\ h.entry[2] = "-m"
  THEN Cmd("python", (IF Len(h.entry) >= 3 THEN <<"-m", h.entry[3]>> ELSE << >>)
                     \o h.args \o PassedNames(h, files), dir)
  ELSE IF found = Err THEN Refused
  ELSE IF found = "module" THEN Cmd("python", <<"-m", "module">> \o Tail(h.entry) \o h.args \o PassedNames(h, files), dir)
  ELSE Cmd(found, Tail(h.entry) \o h.args \o PassedNames(h, files), dir)
\* rust and node take the whole entry for the name of the executable.
BuildRustCommand(h, files, root)   == Cmd(h.entry, h.args \o PassedNames(h, files), root)
BuildNodejsCommand(h, files, root) == Cmd(h.entry, h.args \o PassedNames(h, files), "parent of root")
BuildSystemCommand(h, files, dir) ==
  IF h.entry = << >> THEN Refused
  ELSE Cmd(h.entry[1], Tail(h.entry) \o h.args \o PassedNames(h, files), dir)
\* ruby and golang run in the directory of the first file and pass the files
\* whatever pass_filenames says.
FirstFileDir(files, root) == IF files = << >> THEN root ELSE "dir of first file"
BuildRubyCommand(h, files, root) ==
  IF h.entry = << >> THEN Cmd("ruby", h.args \o files, FirstFileDir(files, root))
  ELSE Cmd(h.entry[1], Tail(h.entry) \o h.args \o files, FirstFileDir(files, root))
\* golang: the program of "go run" is not passed to itself.
IsMainProgramFile(h, f) ==
  Len(h.entry) >= 3 /\ h.entry[1] = "go" /\ h.entry[2] = "run" /\ h.entry[3] = f
BuildGoCommand(h, files, root) ==
  LET rest == Subsequence(files, {i \in DOMAIN files : ~IsMainProgramFile(h, files[i])}) IN
  IF h.entry = << >> THEN Cmd("go", h.args \o rest, FirstFileDir(files, root))
  ELSE Cmd(h.entry[1], Tail(h.entry) \o h.args \o rest, FirstFileDir(files, root))
\* docker: the image that is run is a fixed one, not the one that was built; the
\* whole entry is one argument.
BuildDockerCommand(h, files, root) ==
  Cmd("docker", <<"run", "alpine:latest", "entry">> \o h.args \o PassedNames(h, files), root)
\* script: the entry is looked up in the repository and run by the system plugin.
BuildResolvedHook(h) == IF h.entry = << >> THEN h ELSE [h EXCEPT !.entry[1] = "script"]
BuildScriptCommand(h, files, dir) == BuildSystemCommand(BuildResolvedHook(h), files, dir)

-----------------------------------------------------------------------------
(* Manifests.  A path is a sequence of directories, the root first: dirs[i]
   says what directory i holds, the search starts at the last one. *)

Nearest(at) == IF at = {} THEN 0 ELSE Max(at)

\* rust: the nearest Cargo.toml, and what it says of a workspace.
FindCargoToml(dirs) == Nearest({i \in DOMAIN dirs : "Cargo.toml" \in dirs[i]})
WorkspaceType(toml) ==
  IF "workspace" \notin toml THEN "Single"
  ELSE IF "package" \in toml THEN "Mixed" ELSE "Virtual"
\* rust: a member without a Cargo.toml is left out, one that does not parse is
\* an error; a workspace without a list of members too.  The root package of a
\* mixed workspace is not among its members.
ParseCargoPackage(p) == IF p = "package" THEN p ELSE Err
DiscoverWorkspaceMembers(members) ==
  LET there == Subsequence(members, {i \in DOMAIN members : members[i] # "missing"}) IN
  IF \E i \in DOMAIN there : ParseCargoPackage(there[i]) = Err THEN Refused ELSE <<there>>
AnalyzeCargoWorkspace(toml, members) ==
  IF WorkspaceType(toml) = "Single" THEN (IF "package" \in toml THEN <<<<"package">>>> ELSE Refused)
  ELSE IF "members" \notin toml THEN Refused ELSE DiscoverWorkspaceMembers(members)

\* node: the nearest directory with a package.json that has workspaces, or a
\* lerna, nx or rush file beside it; a package.json that does not parse ends
\* the search with an error.
IsWorkspaceRoot(d) == "package.json" \in d /\ d \intersect {"workspaces", "lerna", "nx", "rush"} # {}
FindWorkspaceRoot(dirs) ==
  LET i == Nearest({k \in DOMAIN dirs : "package.json" \in dirs[k] /\ ("broken" \in dirs[k] \/ IsWorkspaceRoot(dirs[k]))}) IN
  IF i = 0 THEN << >> ELSE IF "broken" \in dirs[i] THEN <<Err>> ELSE <<"found", i>>
FindProjectRoot(dirs) ==
  LET i == Nearest({k \in DOMAIN dirs : "package.json" \in dirs[k]}) IN IF i = 0 THEN Len(dirs) ELSE i

\* ruby: gems of a Gemfile with the groups they are in; every "end" closes a
\* group, also the end of another block.
GemfileLine(a, l) ==
  CASE l.kind = "group" -> [a EXCEPT !.stack = Append(@, a.groups), !.groups = l.value]
    [] l.kind = "end" /\ a.stack # << >> -> [a EXCEPT !.groups = Last(a.stack), !.stack = Front(@)]
    [] l.kind = "gem" -> [a EXCEPT !.gems = Append(@, a.groups)]
    [] OTHER -> a
GemfileRun(lines) ==
  LET run[n \in 0 .. Len(lines)] ==
        IF n = 0 THEN [groups |-> "default", stack |-> << >>, gems |-> << >>]
        ELSE GemfileLine(run[n - 1], lines[n])
  IN run
ParseGemfile(lines) == GemfileRun(lines)[Len(lines)].gems

\* golang: single and block requires, and replaces; inside a block every line
\* is a dependency.
GoModLine(a, l) ==
  CASE l = "require (" -> [a EXCEPT !.block = TRUE]
    [] l = "require x" -> [a EXCEPT !.deps = @ + 1]
    [] a.block /\ l = ")" -> [a EXCEPT !.block = FALSE]
    [] a.block /\ l \in {"x v1", "replace x"} -> [a EXCEPT !.deps = @ + 1]
    [] ~a.block /\ l = "replace x" -> [a EXCEPT !.replaced = @ + 1]
    [] OTHER -> a
GoModRun(lines) ==
  LET run[n \in 0 .. Len(lines)] ==
        IF n = 0 THEN [block |-> FALSE, deps |-> 0, replaced |-> 0] ELSE GoModLine(run[n - 1], lines[n])
  IN run
ParseGoMod(lines) == GoModRun(lines)[Len(lines)]
\* golang: go.work before go.mod before neither.
ModuleMode(files) ==
  IF "go.work" \in files THEN "Workspace" ELSE IF "go.mod" \in files THEN "Module" ELSE "Gopath"

\* docker: the first base image, the last working directory, every port.
DockerfileLine(a, l) ==
  CASE l.kind = "FROM" -> [a EXCEPT !.base = IF @ = None THEN l.value ELSE @]
    [] l.kind = "WORKDIR" -> [a EXCEPT !.dir = l.value]
    [] l.kind = "EXPOSE" -> [a EXCEPT !.ports = Append(@, l.value)]
    [] OTHER -> a
DockerfileRun(lines) ==
  LET run[n \in 0 .. Len(lines)] ==
        IF n = 0 THEN [base |-> None, dir |-> None, ports |-> << >>] ELSE DockerfileLine(run[n - 1], lines[n])
  IN run
ParseDockerfile(lines) == DockerfileRun(lines)[Len(lines)]
FindDockerfile(names) ==
  LET order == <<"Dockerfile", "dockerfile", "Dockerfile.dev", "Dockerfile.prod">>
      hit == FirstOf(order, {i \in DOMAIN order : order[i] \in names}) IN
  IF hit = Refused THEN Err ELSE hit[1]
=============================================================================
