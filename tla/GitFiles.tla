------------------------------- MODULE GitFiles -------------------------------
(***************************************************************************)
(* git.rs: which files the program works on.  A repository is, for every   *)
(* path, what HEAD, the index and the working tree hold (a version, 0 for  *)
(* nothing), and, in a merge, what the base and MERGE_HEAD hold.           *)
(* staged_files and all_files keep their answers for a second and for ten; *)
(* meanwhile the user and the hooks go on changing the repository.  What   *)
(* the other queries answer is computed from the repository as it is.      *)
(* run.rs chooses among these queries and filters the files for each hook. *)
(***************************************************************************)
EXTENDS Integers, Sequences, FiniteSets, SequencesExt, Subsequences

CONSTANTS Files,       \* paths
          StagedTTL,   \* ticks staged_files keeps its answer
          AllTTL,      \* ticks all_files keeps its answer
          MaxClock,    \* bound: ticks
          MaxChanges   \* bound: changes of the repository

ASSUME GitAssumption == StagedTTL \in Nat /\ AllTTL \in Nat

Trees == {"head", "index", "work", "base", "theirs"}

VARIABLES repo,     \* per path: what head, index, work, base and theirs hold
          merging,  \* MERGE_MSG and MERGE_HEAD exist: "no", "head", or "both"
          clock,
          cache,    \* file_cache: per key, the answer kept and when
          since,    \* per key, since when the kept answer is wrong
          answer,   \* the last query and for how long its answer had been wrong
          changes   \* of the repository, so far

gitVars == <<repo, merging, clock, cache, since, answer, changes>>

(* What libgit2 says of a path.                                            *)
Status(f) ==
    LET r == repo[f] IN
    (IF r.head = 0 /\ r.index # 0 THEN {"INDEX_NEW"} ELSE {})
    \union (IF r.head # 0 /\ r.index # 0 /\ r.head # r.index THEN {"INDEX_MODIFIED"} ELSE {})
    \union (IF r.head # 0 /\ r.index = 0 THEN {"INDEX_DELETED"} ELSE {})
    \union (IF r.index = 0 /\ r.work # 0 THEN {"WT_NEW"} ELSE {})
    \union (IF r.index # 0 /\ r.work # 0 /\ r.index # r.work THEN {"WT_MODIFIED"} ELSE {})
    \union (IF r.index # 0 /\ r.work = 0 THEN {"WT_DELETED"} ELSE {})
\* A diff's new_file().path() is set for a deletion too.
Diff(a, b) == {f \in Files : repo[f][a] # repo[f][b]}

\* The statuses staged_files and staged_files_detailed look for.
IsStaged(f) == Status(f) \intersect {"INDEX_NEW", "INDEX_MODIFIED"} # {} /\ "INDEX_DELETED" \notin Status(f)
Staged == {f \in Files : IsStaged(f)}
\* index.iter(): also a path whose file is gone from the working tree.
Indexed == {f \in Files : repo[f].index # 0}
Queried(k) == IF k = "staged_files" THEN Staged ELSE Indexed
Queries == {"staged_files", "all_files"}
CacheTTL(k) == IF k = "staged_files" THEN StagedTTL ELSE AllTTL

\* discover and open: a repository with a working tree; nothing is cached.
GitInit ==
    /\ repo \in [Files -> [{"head", "index", "work", "base", "theirs"} -> {0, 1}]]
    /\ \A f \in Files : repo[f].index = repo[f].head /\ repo[f].base \in {0, repo[f].head}
    /\ merging \in {"no", "head", "both"} /\ clock = 0
    /\ merging = "no" => \A f \in Files : repo[f].work = repo[f].head /\ repo[f].theirs = repo[f].base
    /\ cache = [k \in Queries |-> <<>>] /\ since = [k \in Queries |-> 0]
    /\ answer = [of |-> "none", wrong |-> 0] /\ changes = 0

\* After a change, the kept answers that have just become wrong are dated.
Date == since' = [k \in Queries |->
    IF cache[k] = <<>> \/ cache[k][1].files = Queried(k)' THEN 0
    ELSE IF cache[k][1].files = Queried(k) THEN clock ELSE since[k]]
ChangeRepo(f, r) == /\ changes < MaxChanges /\ changes' = changes + 1
                /\ repo' = [repo EXCEPT ![f] = r] /\ r # repo[f] /\ Date
                /\ UNCHANGED <<merging, clock, cache, answer>>
Edit(f, v) == ChangeRepo(f, [repo[f] EXCEPT !.work = v])
Add(f) == ChangeRepo(f, [repo[f] EXCEPT !.index = repo[f].work])
Reset(f) == ChangeRepo(f, [repo[f] EXCEPT !.index = repo[f].head])
Commit(f) == ChangeRepo(f, [repo[f] EXCEPT !.head = repo[f].index])
Tick == clock < MaxClock /\ clock' = clock + 1 /\ UNCHANGED <<repo, merging, cache, since, answer, changes>>

Fresh(k) == cache[k] # <<>> /\ clock - cache[k][1].at < CacheTTL(k)
\* How long a given answer had been wrong when it was given.
Wrong(k, fs) == IF fs = Queried(k) THEN 0 ELSE clock - since[k] + 1
Answer(k, fs) == answer' = [of |-> k, wrong |-> Wrong(k, fs)]

\* Mutant: using an answer keeps it.
KeepOnUse(k) ==
    /\ LET fs == IF Fresh(k) THEN cache[k][1].files ELSE Queried(k)
       IN cache' = [cache EXCEPT ![k] = <<[files |-> fs, at |-> clock]>>] /\ Answer(k, fs)
    /\ UNCHANGED <<repo, merging, clock, since, changes>>

\* staged_files and all_files: the kept answer while it is fresh, else the
\* repository's, which is kept from now.
Query(k) ==
    /\ IF Fresh(k)
       THEN UNCHANGED <<cache, since>> /\ Answer(k, cache[k][1].files)
       ELSE /\ cache' = [cache EXCEPT ![k] = <<[files |-> Queried(k), at |-> clock]>>]
            /\ since' = [since EXCEPT ![k] = 0] /\ Answer(k, Queried(k))
    /\ UNCHANGED <<repo, merging, clock, changes>>
StagedFiles == Query("staged_files")
AllFiles == Query("all_files")

\* The merge and the caches have nothing to do with each other.
GitNext == \/ \E f \in Files : (\E v \in 0..2 : Edit(f, v)) \/ Add(f) \/ Reset(f) \/ Commit(f)
           \/ merging = "no" /\ (Tick \/ StagedFiles \/ AllFiles)
GitSpec == GitInit /\ [][GitNext]_gitVars

-----------------------------------------------------------------------------
(* staged_files_detailed: the change, from the first flag that is set.     *)
ChangeType(f) == IF "INDEX_NEW" \in Status(f) THEN "Added" ELSE "Modified"
StagedFilesDetailed == {[path |-> f, status |-> ChangeType(f), sized |-> repo[f].work # 0] : f \in Staged}

\* repository_status: an untracked file, else a change of the working tree.
Untracked == {f \in Files : "WT_NEW" \in Status(f)}
Unstaged == {[path |-> f, status |-> IF "WT_MODIFIED" \in Status(f) THEN "Modified" ELSE "Deleted"] :
             f \in {g \in Files \ Untracked : Status(g) \intersect {"WT_MODIFIED", "WT_DELETED"} # {}}}

IsMergeConflict == merging = "both"
\* parse_merge_msg_for_conflicts: the paths of the tabbed lines of MERGE_MSG,
\* which git writes for the files it could not merge.
Unmerged == {f \in Files : /\ repo[f].head # repo[f].base /\ repo[f].theirs # repo[f].base
                           /\ repo[f].head # repo[f].theirs}
ParseMergeMsg == Unmerged
\* conflicted_files: what MERGE_MSG names, and every path either side changed.
ConflictedFiles == IF ~IsMergeConflict THEN {}
                   ELSE ParseMergeMsg \union Diff("base", "head") \union Diff("base", "theirs")
RepositoryStatus ==
    [staged |-> StagedFilesDetailed, unstaged |-> Unstaged, untracked |-> Untracked,
     conflicted |-> ConflictedFiles,
     is_dirty |-> StagedFilesDetailed # {} \/ Unstaged # {} \/ Untracked # {}]

\* changed_files: refs name trees; a ref that does not resolve is an error.
ResolveReference(r) == IF r = "HEAD" THEN <<"head">> ELSE IF r = "origin" THEN <<"base">> ELSE <<>>
ChangedFiles(old, new) ==
    IF ResolveReference(old) = <<>> \/ ResolveReference(new) = <<>> THEN <<>>
    ELSE <<Diff(ResolveReference(old)[1], ResolveReference(new)[1])>>

\* diff_staged, diff_working_tree and diff_file; the latter refuses a path
\* outside the repository and answers nothing where nothing differs.
DiffStaged == [files_changed |-> Cardinality(Diff("head", "index"))]
DiffWorkingTree == [files_changed |-> Cardinality(Diff("index", "work") \ Untracked)]
DiffFile(f, staged) ==
    IF f \notin Files THEN <<"error">>
    ELSE IF f \in (IF staged THEN Diff("head", "index") ELSE Diff("index", "work") \ Untracked)
         THEN <<"patch", f>> ELSE <<>>

-----------------------------------------------------------------------------
(* FileFilter.  A pattern is valid or not, and hits paths; an option is    *)
(* empty or holds one pattern.                                             *)
Pattern(valid, hits) == [valid |-> valid, hits |-> hits]
Hits(p, f) == p.valid /\ f \in p.hits
\* from_hook: files and exclude; the types are copied but never looked at.
FromHook(h) == [include |-> h.files, exclude |-> h.exclude, types |-> h.types, max_size |-> 2]
FilterMatches(filter, f) ==
    /\ filter.include # <<>> => \E i \in DOMAIN filter.include : Hits(filter.include[i], f)
    /\ ~\E i \in DOMAIN filter.exclude : Hits(filter.exclude[i], f)
    /\ repo[f].work <= filter.max_size
FilterFiles(fs, filter) == {f \in fs : FilterMatches(filter, f)}
\* matches_async decides as matches does; filter_files_async collects the
\* answers as they come, and fails when one of them timed out.
MatchesAsync(filter, f) == FilterMatches(filter, f)
FilterFilesAsync(fs, filter, slow) ==
    IF slow \intersect fs # {} THEN <<>> ELSE <<{f \in fs : MatchesAsync(filter, f)}>>

\* discover_files by ProcessingMode; without a repository only a file list
\* and all files, from the working directory, can be had.
DiscoverInDirectory == {f \in Files : repo[f].work # 0}
DiscoverFiles(mode, hasRepo, list) ==
    CASE mode = "FileList" -> <<list>>
      [] mode \in {"AllFiles", "ModifiedSinceTime"} -> IF hasRepo THEN <<Indexed>> ELSE <<DiscoverInDirectory>>
      [] mode = "StagedOnly" -> IF hasRepo THEN <<Staged>> ELSE <<>>
      [] mode = "ModifiedSinceCommit" -> IF hasRepo THEN ChangedFiles("origin", "HEAD") ELSE <<>>
GetFilesForHook(h, mode, hasRepo, list) ==
    LET d == DiscoverFiles(mode, hasRepo, list) IN IF d = <<>> THEN <<>> ELSE <<FilterFiles(d[1], FromHook(h))>>
GetFilesForHookAsync(h, mode, hasRepo, list) ==
    LET d == DiscoverFiles(mode, hasRepo, list)
    IN IF d = <<>> THEN <<>> ELSE FilterFilesAsync(d[1], FromHook(h), {})
\* process_for_hooks discovers once and filters for every hook.
ProcessForHooks(hooks, mode, hasRepo, list) ==
    LET d == DiscoverFiles(mode, hasRepo, list)
    IN IF d = <<>> THEN <<>> ELSE <<[i \in DOMAIN hooks |-> FilterFiles(d[1], FromHook(hooks[i]))]>>
ProcessForHooksAsync(hooks, mode, hasRepo, list) ==
    LET d == DiscoverFiles(mode, hasRepo, list)
    IN IF d = <<>> THEN <<>> ELSE <<[i \in DOMAIN hooks |-> FilterFilesAsync(d[1], FromHook(hooks[i]), {})[1]]>>
\* warm_cache fills a cache that no other operation reads.
WarmCache(hooks) == [all |-> Indexed, staged |-> Staged,
                     hook |-> [i \in DOMAIN hooks |-> GetFilesForHook(hooks[i], "AllFiles", TRUE, {})[1]]]

-----------------------------------------------------------------------------
(* run.rs: the files of a run.                                             *)
\* execute_run_command and the run of a single hook: the files given; without
\* any, and without --all-files, all files for a push, else the staged ones.
FilesOfRun(stage, list, all) ==
    IF list # {} \/ all THEN list ELSE IF stage = "pre-push" THEN Indexed ELSE Staged
\* execute_run_command_all_files gives every file of the index.
FilesOfRunAll(stage, all) == FilesOfRun(stage, Indexed, all)
\* execute_run_command_with_refs: an error when a ref does not resolve; when
\* nothing changed between the refs, the run falls back on the staged files.
FilesOfRefs(old, new, stage) ==
    LET c == ChangedFiles(old, new) IN IF c = <<>> THEN <<>> ELSE <<FilesOfRun(stage, c[1], FALSE)>>
\* get_hooks_for_stage, and the hook that a run of a single hook asks for.
HooksForStage(hooks, stage) == Subsequence(hooks, {i \in DOMAIN hooks : stage \in hooks[i].stages})
SingleHook(hooks, stage, id) ==
    LET hs == HooksForStage(hooks, stage)
        of == Subsequence(hs, {i \in DOMAIN hs : hs[i].id = id})
    IN IF of = <<>> THEN <<>> ELSE <<of[1]>>

-----------------------------------------------------------------------------
Hook(id, files, exclude, always, stages) ==
    [id |-> id, files |-> files, exclude |-> exclude, types |-> {"python"}, always_run |-> always, stages |-> stages]
SampleHooks ==
    <<Hook("all", <<>>, <<>>, FALSE, {"pre-commit"}),
      Hook("some", <<Pattern(TRUE, {CHOOSE f \in Files : TRUE})>>, <<>>, FALSE, {"pre-commit", "pre-push"}),
      Hook("not", <<>>, <<Pattern(TRUE, {CHOOSE f \in Files : TRUE})>>, FALSE, {"pre-push"}),
      Hook("broken", <<Pattern(FALSE, Files)>>, <<Pattern(FALSE, Files)>>, TRUE, {"pre-push"})>>

\* An answer is at most as old as its time to live: a hook is never given a
\* set of files that the repository has not had for longer than that.
AnswersFresh == answer.of # "none" => answer.wrong <= CacheTTL(answer.of)

\* The queries agree on what a commit or a merge would touch.  Every path
\* the staged diff has is staged or a staged deletion; when the status is not
\* dirty the trees differ by staged deletions alone; each path both sides of
\* a merge changed differently is among the conflicted files, and outside a
\* merge there are none.
ViewsAgree ==
    /\ Diff("head", "index") = Staged \union {f \in Files : "INDEX_DELETED" \in Status(f)}
    /\ DiffStaged.files_changed = Cardinality({f \in Files : DiffFile(f, TRUE) # <<>>})
    /\ DiffWorkingTree.files_changed = Cardinality({f \in Files : DiffFile(f, FALSE) # <<>>})
    /\ ~RepositoryStatus.is_dirty => \A f \in Files :
          repo[f].head # repo[f].work => Status(f) = {"INDEX_DELETED"}
    /\ IsMergeConflict => Unmerged \subseteq ConflictedFiles
    /\ ConflictedFiles # {} => IsMergeConflict

\* The ways to the files of a hook agree: one hook or several, awaited or
\* not; a hook with a broken pattern gets no file; what a run is about is
\* among what a run over all files is about; a single hook is found exactly
\* when it runs in the stage; a diff between refs that is empty hands over
\* the staged files.
SelectionsAgree ==
    /\ \A mode \in {"StagedOnly", "AllFiles", "ModifiedSinceTime", "ModifiedSinceCommit", "FileList"}, r \in BOOLEAN :
          LET p == ProcessForHooks(SampleHooks, mode, r, Files) IN
          /\ p = ProcessForHooksAsync(SampleHooks, mode, r, Files)
          /\ p = <<>> <=> ~r /\ mode \in {"StagedOnly", "ModifiedSinceCommit"}
          /\ \A i \in DOMAIN SampleHooks :
                /\ GetFilesForHook(SampleHooks[i], mode, r, Files) = GetFilesForHookAsync(SampleHooks[i], mode, r, Files)
                /\ p # <<>> => GetFilesForHook(SampleHooks[i], mode, r, Files) = <<p[1][i]>>
    /\ WarmCache(SampleHooks).hook = ProcessForHooks(SampleHooks, "AllFiles", TRUE, {})[1]
    /\ \A i \in DOMAIN SampleHooks : LET h == SampleHooks[i] IN
          \A stage \in {"pre-commit", "pre-push"}, all \in BOOLEAN :
             /\ FilesOfRun(stage, {}, all) \subseteq FilesOfRunAll(stage, all)
             /\ h.id = "broken" => FilterFiles(Files, FromHook(h)) = {}
             /\ SingleHook(SampleHooks, stage, h.id) = (IF stage \in h.stages THEN <<h>> ELSE <<>>)
    /\ FilesOfRefs("origin", "HEAD", "pre-commit")
          = <<IF Diff("base", "head") = {} THEN Staged ELSE Diff("base", "head")>>
    /\ FilesOfRefs("gone", "HEAD", "pre-push") = <<>>

=============================================================================
