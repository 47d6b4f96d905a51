------------------------------ MODULE Autoupdate ------------------------------
(***************************************************************************)
(* commands/autoupdate.rs: the latest version of every repository is asked *)
(* of GitHub or GitLab, and the configuration file is rewritten for each   *)
(* repository in turn: copied to .yaml.backup, read again, its rev line    *)
(* replaced by a scan of its lines, and written back.  A write truncates   *)
(* first; the process may be killed at any step, and run again.            *)
(* The file is the sequence of its lines, of which only "- repo:" and      *)
(* "rev:" matter to the scan.                                              *)
(***************************************************************************)
EXTENDS Integers, Sequences, FiniteSets, SequencesExt, Subsequences

CONSTANTS Urls,        \* repository URLs
          Within(_),   \* the URLs that a URL's text contains, itself included
          Service(_),  \* "github", "gitlab", "other", "local" or "broken" (no URL, or no owner/repo)
          Originals,   \* the configuration files of the run
          MaxRuns,     \* bound: runs of the command
          MaxDeaths    \* bound: runs killed

(* Versions.  A tag is a semantic version, <<major, minor, prerelease>>    *)
(* behind an optional "v", or some other text; hashes are texts of hex     *)
(* digits.                                                                 *)
Semver == [v1_0 |-> <<1, 0, FALSE>>, v1_1 |-> <<1, 1, FALSE>>, v2_0rc |-> <<2, 0, TRUE>>]
Hashes == {"c0ffee1"}
ParsedVersion(tag) == IF tag \in DOMAIN Semver THEN <<Semver[tag]>> ELSE <<>>
NewVersion(revision, tag) ==
    LET v == IF tag = <<>> THEN <<>> ELSE ParsedVersion(tag[1])
    IN [revision |-> revision, version |-> v, is_prerelease |-> v # <<>> /\ v[1][3]]
FromString(rev) == IF rev \in Hashes THEN NewVersion(rev, <<>>) ELSE NewVersion(rev, <<rev>>)

(* An answer of a service: not had, a status that is not success, no JSON  *)
(* that parses, or the tags and the commits, newest first.                 *)
Fetched(resp, what) == IF resp.kind = "ok" THEN <<resp[what]>> ELSE <<>>
FirstTag(resp) == LET t == Fetched(resp, "tags") IN
    IF t = <<>> \/ t = <<<<>>>> THEN <<>> ELSE <<NewVersion(t[1][1], <<t[1][1]>>)>>
FirstCommit(resp) == LET c == Fetched(resp, "commits") IN
    IF c = <<>> \/ c = <<<<>>>> THEN <<>> ELSE <<NewVersion(c[1][1], <<>>)>>
AllTags(resp) == LET t == Fetched(resp, "tags") IN
    IF t = <<>> THEN <<>> ELSE <<[i \in DOMAIN t[1] |-> NewVersion(t[1][i], <<t[1][i]>>)]>>
FirstOf(versions, P(_)) ==
    LET at == IF versions = <<>> THEN {}
              ELSE {i \in DOMAIN versions[1] : versions[1][i].version # <<>> /\ P(versions[1][i].version[1])}
    IN IF at = {} THEN <<>> ELSE <<versions[1][CHOOSE i \in at : \A j \in at : i <= j]>>

GithubLatestTag(resp) == FirstTag(resp)
GithubLatestCommit(resp) == FirstCommit(resp)
ListGithubVersions(resp) == AllTags(resp)
GithubByMajor(resp, major) == FirstOf(ListGithubVersions(resp), LAMBDA v : v[1] = major)
GithubByMinor(resp, major, minor) == FirstOf(ListGithubVersions(resp), LAMBDA v : v[1] = major /\ v[2] = minor)
ResolveGithub(resp, strategy) ==
    CASE strategy.is \in {"LatestTag", "LatestStable"} -> GithubLatestTag(resp)
      [] strategy.is = "LatestCommit" -> GithubLatestCommit(resp)
      [] strategy.is = "MajorVersion" -> GithubByMajor(resp, strategy.major)
      [] strategy.is = "MinorVersion" -> GithubByMinor(resp, strategy.major, strategy.minor)
GitlabLatestTag(resp) == FirstTag(resp)
GitlabLatestCommit(resp) == FirstCommit(resp)
ListGitlabVersions(resp) == AllTags(resp)
GitlabByMajor(resp, major) == FirstOf(ListGitlabVersions(resp), LAMBDA v : v[1] = major)
GitlabByMinor(resp, major, minor) == FirstOf(ListGitlabVersions(resp), LAMBDA v : v[1] = major /\ v[2] = minor)
ResolveGitlab(resp, strategy) ==
    CASE strategy.is \in {"LatestTag", "LatestStable"} -> GitlabLatestTag(resp)
      [] strategy.is = "LatestCommit" -> GitlabLatestCommit(resp)
      [] strategy.is = "MajorVersion" -> GitlabByMajor(resp, strategy.major)
      [] strategy.is = "MinorVersion" -> GitlabByMinor(resp, strategy.major, strategy.minor)
\* Direct access to another git server is not implemented: an error.
ResolveGit(resp, strategy) == <<>>
ListGitVersions(resp) == <<>>
ParseRepositoryService(url) == IF Service(url) = "broken" THEN <<>> ELSE <<Service(url)>>
ResolveVersion(url, resp, strategy) ==
    CASE Service(url) = "local" \/ ParseRepositoryService(url) = <<>> -> <<>>
      [] Service(url) = "github" -> ResolveGithub(resp, strategy)
      [] Service(url) = "gitlab" -> ResolveGitlab(resp, strategy)
      [] OTHER -> ResolveGit(resp, strategy)
ListVersions(url, resp) ==
    CASE ParseRepositoryService(url) = <<>> -> <<>>
      [] Service(url) = "github" -> ListGithubVersions(resp)
      [] Service(url) = "gitlab" -> ListGitlabVersions(resp)
      [] OTHER -> ListGitVersions(resp)
DetectBreaking(current, latest) ==
    current.version # <<>> /\ latest.version # <<>> /\ current.version[1][1] < latest.version[1][1]
\* check_update_available: any difference of the revisions is an update.
UpdateInfo(rev, latest) == [update_available |-> FromString(rev).revision # latest.revision,
                            breaking_changes |-> DetectBreaking(FromString(rev), latest)]

-----------------------------------------------------------------------------
(* The file.                                                               *)
RepoLine(u) == [key |-> "repo", url |-> u, rev |-> "none"]
RevLine(r) == [key |-> "rev", url |-> "none", rev |-> r]
OtherLine == [key |-> "other", url |-> "none", rev |-> "none"]
Lines == [key : {"repo", "rev", "other"}, url : Urls \union {"none"}, rev : STRING]

ASSUME UpdateAssumption ==
    /\ \A u \in Urls : u \in Within(u)
    /\ \A ls \in Originals : /\ ls \in Seq(Lines)
                              /\ \A j \in DOMAIN ls : ls[j].key = "repo" => ls[j].url \in Urls

\* An entry of the file: its URL, and the revision that follows it.
RepoLines(ls) == Subsequence([i \in DOMAIN ls |-> i], {i \in DOMAIN ls : ls[i].key = "repo"})
RevsOf(ls, i) == {j \in i + 1..Len(ls) : ls[j].key = "rev" /\ \A k \in i + 1..j : ls[k].key # "repo"}
EntryAt(ls, i) == [url |-> ls[i].url,
                   rev |-> IF RevsOf(ls, i) = {} THEN "" ELSE ls[CHOOSE j \in RevsOf(ls, i) : \A k \in RevsOf(ls, i) : j <= k].rev]
ParseEntries(ls) == [n \in DOMAIN RepoLines(ls) |-> EntryAt(ls, RepoLines(ls)[n])]

\* update_yaml_content, keeping the format: after a "- repo:" line that
\* contains the URL, the next "rev:" line before another "- repo:" is rewritten.
InTarget(ls, url, j) ==
    \E i \in 1..j - 1 : /\ ls[i].key = "repo" /\ url \in Within(ls[i].url)
                        /\ \A k \in i + 1..j - 1 : 
                                \/ ls[k].key = "other"
                                \/ (ls[k].key = "repo" /\ url \in Within(ls[k].url))
\* Mutant: the line after a target entry is rewritten, whatever entry it is in.
UpdateYamlOnwards(ls, url, rev) ==
    [j \in DOMAIN ls |-> IF ls[j].key = "rev" /\ \E i \in 1..j - 1 : ls[i].key = "repo" /\ url \in Within(ls[i].url)
                         THEN RevLine(rev) ELSE ls[j]]
UpdateYaml(ls, url, rev) ==
    [j \in DOMAIN ls |-> IF ls[j].key = "rev" /\ InTarget(ls, url, j) THEN RevLine(rev) ELSE ls[j]]
\* update_yaml_content without the format sets the first entry with the URL.
UpdateParsed(es, url, rev) ==
    LET at == {n \in DOMAIN es : es[n].url = url}
    IN [n \in DOMAIN es |-> IF n \in at /\ \A k \in at : n <= k THEN [es[n] EXCEPT !.rev = rev] ELSE es[n]]
\* update_all_repositories: one read, every rewriting, one write.
UpdateAll(ls, us) ==
    LET text[n \in 0..Len(us)] == IF n = 0 THEN ls ELSE UpdateYaml(text[n - 1], us[n].url, us[n].rev)
    IN text[Len(us)]

-----------------------------------------------------------------------------
VARIABLES yaml,      \* the configuration: <<>> when it does not parse
          backup,    \* .yaml.backup
          entries,      \* the entries still to be checked
          resolved,  \* the resolver's cache: URL to version
          stage,     \* where the command is
          update,    \* the update under way
          pending,   \* what will be written
          updates,   \* update_results
          original,  \* the file when the run began
          before,    \* the last complete file
          restarted, \* a run began on a file cut short that still parses
          dry, runs, deaths

updateVars == <<yaml, backup, entries, resolved, stage, update, pending, updates, original, before, restarted, dry, runs, deaths>>

NoUpdate == [url |-> "none", rev |-> "none"]
UpdateInit == /\ yaml \in Originals /\ original = yaml /\ before = yaml
              /\ backup = <<>> /\ entries = <<>> /\ resolved = <<>> /\ stage = "rest" /\ update = NoUpdate
              /\ pending = <<>> /\ updates = <<>> /\ restarted = FALSE /\ dry = FALSE /\ runs = 0 /\ deaths = 0

Reads(vs) == UNCHANGED <<vs, original, before, restarted, dry, runs, deaths>>

\* The command reads and parses the file, and takes the entries asked for
\* that are neither local nor meta.  A file that does not parse is an error.
ExecuteAutoupdate(specific, isDry) ==
    /\ stage = "rest" /\ runs < MaxRuns /\ runs' = runs + 1 /\ dry' = isDry
    /\ resolved' = <<>> /\ updates' = <<>> /\ original' = yaml
    /\ IF yaml = <<>>
       THEN stage' = "rest" /\ entries' = <<>> /\ UNCHANGED <<before, restarted>>
       ELSE /\ stage' = "check"
            /\ restarted' = (restarted \/ yaml # before) /\ before' = yaml
            /\ entries' = SelectSeq(ParseEntries(yaml), LAMBDA e : Service(e.url) # "local" /\ (specific = {} \/ e.url \in specific))
    /\ UNCHANGED <<yaml, backup, update, pending, deaths>>

\* The services' answers in the run: the newest tag, or a failure.
Responses == {[kind |-> k, tags |-> t, commits |-> <<"c0ffee1">>] :
              k \in {"ok"}, t \in {<<"v1_1", "v1_0">>, <<"v2_0rc">>, <<>>}}
             \union {[kind |-> "status", tags |-> <<>>, commits |-> <<>>]}
LatestTag == [is |-> "LatestTag"]

\* get_latest_version: the answer kept for the URL, else the service's, kept
\* for five minutes; only what was resolved is kept.
GetLatestVersion(url, resp) ==
    LET kept == SelectSeq(resolved, LAMBDA p : p.url = url)
    IN IF kept # <<>> THEN <<kept[1].version>> ELSE ResolveVersion(url, resp, LatestTag)
\* Check the next entry; an error is logged and the entry passed over.
Check ==
    /\ stage = "check" /\ entries # <<>>
    /\ \E resp \in Responses :
       LET e == Head(entries)
           latest == GetLatestVersion(e.url, resp)
       IN /\ resolved' = IF latest = <<>> THEN resolved ELSE <<[url |-> e.url, version |-> latest[1]]>> \o resolved
          /\ IF latest # <<>> /\ UpdateInfo(e.rev, latest[1]).update_available
             THEN IF dry
                  THEN /\ updates' = Append(updates, [url |-> e.url, rev |-> latest[1].revision, is |-> "dry"])
                       /\ entries' = Tail(entries) /\ UNCHANGED <<stage, update>>
                  ELSE /\ update' = [url |-> e.url, rev |-> latest[1].revision]
                       /\ stage' = "backup" /\ UNCHANGED <<entries, updates>>
             ELSE entries' = Tail(entries) /\ UNCHANGED <<stage, update, updates>>
    /\ Reads(<<yaml, backup, pending>>)
\* The resolver's five minutes pass.
Expire == stage = "check" /\ resolved # <<>> /\ resolved' = <<>>
          /\ Reads(<<yaml, backup, entries, stage, update, pending, updates>>)

\* create_backup: the copy truncates the backup, then fills it.
CreateBackup ==
    \/ /\ stage = "backup" /\ stage' = "copy" /\ backup' = <<>>
       /\ Reads(<<yaml, entries, resolved, update, pending, updates>>)
    \/ /\ stage = "copy" /\ stage' = "rewrite" /\ backup' = yaml
       /\ Reads(<<yaml, entries, resolved, update, pending, updates>>)
\* The file is read and parsed again; the entry must still be there.
Rewrite ==
    /\ stage = "rewrite" /\ stage' = "truncate"
    /\ pending' = UpdateYaml(yaml, update.url, update.rev)
    /\ Reads(<<yaml, backup, entries, resolved, update, updates>>)
\* tokio::fs::write: what is there in between does not parse, or parses as a
\* shorter file.
Truncate ==
    /\ stage = "truncate" /\ stage' = "fill"
    /\ \E n \in {0, Len(pending) - 1} : yaml' = SubSeq(pending, 1, n)
    /\ Reads(<<backup, entries, resolved, update, pending, updates>>)
Fill ==
    /\ stage = "fill" /\ stage' = "check"
    /\ yaml' = pending /\ before' = pending
    /\ updates' = Append(updates, [url |-> update.url, rev |-> update.rev, is |-> "updated"])
    /\ entries' = Tail(entries)
    /\ UNCHANGED <<backup, resolved, update, pending, original, restarted, dry, runs, deaths>>
ReportUpdates ==
    /\ stage = "check" /\ entries = <<>> /\ stage' = "rest"
    /\ Reads(<<yaml, backup, entries, resolved, update, pending, updates>>)
Die == /\ stage # "rest" /\ deaths < MaxDeaths /\ deaths' = deaths + 1
       /\ stage' = "rest" /\ entries' = <<>> /\ updates' = <<>>
       /\ UNCHANGED <<yaml, backup, resolved, update, pending, original, before, restarted, dry, runs>>

UpdateStep == Check \/ CreateBackup \/ Rewrite \/ Truncate \/ Fill \/ ReportUpdates
UpdateNext == \/ \E sp \in {{}} \union {{u} : u \in Urls}, d \in BOOLEAN : ExecuteAutoupdate(sp, d)
              \/ UpdateStep \/ Expire \/ Die
UpdateSpec == UpdateInit /\ [][UpdateNext]_updateVars

-----------------------------------------------------------------------------
\* The configuration can be had back.  Whatever moment the command is killed
\* at, the last complete configuration is the file or its backup, unless a
\* later run took a file cut short for a complete one and backed that up.
ConfigurationRecoverable == restarted \/ before \in {yaml, backup}

\* An update changes revisions alone, and only where an entry's URL contains
\* the URL of an update the command reports; a dry run writes nothing; an
\* update that is reported is in the file, in every entry with its URL that
\* has a rev line, unless a later update of a URL its own contains overwrote it.
UpdatesReported ==
    stage = "rest" /\ updates # <<>> =>
        /\ dry => yaml = original
        /\ Len(yaml) = Len(original)
        /\ \A j \in DOMAIN yaml : yaml[j] # original[j] =>
              /\ yaml[j].key = "rev" /\ original[j].key = "rev"
              /\ \E i \in 1..j - 1, n \in DOMAIN updates :
                    /\ original[i].key = "repo" /\ j \in RevsOf(original, i)
                    /\ updates[n].url \in Within(original[i].url) /\ updates[n].rev = yaml[j].rev
        /\ ~dry => \A n \in DOMAIN updates : \A i \in {k \in DOMAIN yaml : yaml[k].key = "repo"} :
              LET e == EntryAt(yaml, i) IN
              e.url = updates[n].url /\ e.rev # "" =>
                  \E k \in n..Len(updates) : updates[k].url \in Within(e.url) /\ updates[k].rev = e.rev

\* The rewriting by lines and the rewriting of the parsed file agree on the
\* first entry with the URL, in a file whose entries have revisions; one pass
\* over all updates is the same as one file per update; the services agree,
\* and a version asked for by major or minor is of that major or minor.
RewritingsAgree ==
    /\ \A ls \in Originals, u \in Urls :
          LET es == ParseEntries(ls)
              new == ParseEntries(UpdateYaml(ls, u, "v9"))
              at == {n \in DOMAIN es : es[n].url = u /\ es[n].rev # ""}
          IN /\ Len(new) = Len(es)
             /\ \A n \in at : (\A k \in DOMAIN es : es[k].url = u => n <= k)
                    => new[n] = UpdateParsed(es, u, "v9")[n]
             /\ UpdateAll(ls, <<[url |-> u, rev |-> "v9"], [url |-> u, rev |-> "v8"]>>) = UpdateYaml(ls, u, "v8")
    /\ \A resp \in Responses :
          /\ \A s \in {"LatestTag", "LatestStable", "LatestCommit", "MajorVersion", "MinorVersion"}, ma, mi \in 0..2 :
                LET st == [is |-> s, major |-> ma, minor |-> mi]
                    v == ResolveGithub(resp, st)
                IN /\ v = ResolveGitlab(resp, st)
                   /\ v # <<>> /\ s \in {"MajorVersion", "MinorVersion"} =>
                         v[1].version[1][1] = ma /\ (s = "MinorVersion" => v[1].version[1][2] = mi)
          /\ \A u \in Urls : ListVersions(u, resp) # <<>> /\ ResolveVersion(u, resp, LatestTag) # <<>> =>
                ResolveVersion(u, resp, LatestTag)[1] = ListVersions(u, resp)[1][1]

=============================================================================
