----------------------------- MODULE MCCommands -----------------------------
(***************************************************************************)
(* The commands and the store they work on, checked in one run: the store, *)
(* install and uninstall, the files git answers with, autoupdate, clean    *)
(* and gc, and try-repo share no state, so a behaviour is a behaviour of   *)
(* the one its part names while the others rest.  In the part "rules" it   *)
(* puts the questions of MCRules about configurations instead.             *)
(***************************************************************************)
EXTENDS Store, HookInstall, GitFiles, Autoupdate, Maintenance

VARIABLES part, q

\* None of the questions about language plugins.
R == INSTANCE MCRules WITH Majors <- {}, Minors <- {}, Length <- 0

MCWithin(u) == IF u = "gh/ab" THEN {"gh/ab", "gh/a"} ELSE {u}
MCService(u) == CASE u \in {"gh/ab", "gh/a"} -> "github" [] u = "gl/c" -> "gitlab"
                  [] u = "local" -> "local" [] OTHER -> "other"
MCOriginals ==
    {<<RepoLine("gh/a"), OtherLine, RevLine("v1_0"), RepoLine("gh/ab"), RevLine("v1_0")>>,
     <<RepoLine("gh/ab"), RevLine("v1_1"), RepoLine("gh/a"), RepoLine("gl/c"), RevLine("v1_0")>>,
     <<RepoLine("gh/a"), RevLine("v1_0"), RepoLine("local"), RepoLine("gh/a"), RevLine("v1_1")>>}

commandsVars == <<part, q, vars, installVars, gitVars, updateVars, cleanVars, tryVars>>

MCInit ==
    /\ part \in {"store", "install", "git", "update", "clean", "try", "rules"}
    /\ R!Init /\ Init /\ InstallInit /\ GitInit /\ UpdateInit /\ CleanInit /\ TryInit
    /\ part # "store" => file = {} /\ readonly = [p \in Procs |-> FALSE]
    /\ part # "git" => merging = "no" /\ repo = [f \in Files |-> [t \in Trees |-> 0]]
    /\ part # "update" => yaml = (CHOOSE o \in Originals : TRUE)
    /\ part # "clean" => stamp = [k \in Kinds |-> [i \in Items |-> 0]]

\* The steps of a part, the others at rest.
Stores == part = "store" /\ Next
          /\ UNCHANGED <<part, q, installVars, gitVars, updateVars, cleanVars, tryVars>>
Installs(A) == part = "install" /\ A
               /\ UNCHANGED <<part, q, vars, gitVars, updateVars, cleanVars, tryVars>>
Asks == part = "git" /\ GitNext
        /\ UNCHANGED <<part, q, vars, installVars, updateVars, cleanVars, tryVars>>
Updates(A) == part = "update" /\ A
              /\ UNCHANGED <<part, q, vars, installVars, gitVars, cleanVars, tryVars>>
Cleans(A) == part = "clean" /\ A
             /\ UNCHANGED <<part, q, vars, installVars, gitVars, updateVars, tryVars>>
Tries(A) == part = "try" /\ A
            /\ UNCHANGED <<part, q, vars, installVars, gitVars, updateVars, cleanVars>>
Questions == part = "rules" /\ R!ConfigurationQuestion
             /\ UNCHANGED <<part, vars, installVars, gitVars, updateVars, cleanVars, tryVars>>

MCNext == Stores \/ Installs(InstallNext) \/ Asks \/ Updates(UpdateNext) \/ Cleans(CleanNext)
          \/ Tries(TryNext) \/ Questions

\* The steps a command takes by itself once it is started; a kill, the user
\* and the passing of time are not among them.
OwnStep == Installs(InstallStep) \/ Updates(UpdateStep) \/ Cleans(CleanStep) \/ Tries(TryStep)

MCSpec == MCInit /\ [][MCNext]_commandsVars /\ WF_commandsVars(OwnStep)

\* What the user has is not lost, whenever a command is killed: the user's
\* git hook is the hook or its backup (install.rs), the configuration is the
\* file or its backup (commands/autoupdate.rs).
UserFilesKept == UserHookKept /\ ConfigurationRecoverable

\* What install, uninstall, autoupdate, clean, gc and try-repo report is what
\* they have done.
ReportsTrue == ReportTrue /\ UpdatesReported /\ CleanupExact /\ TryLeavesNothing

\* What git is asked for is answered from the repository as it is, or was a
\* time to live ago; the ways to ask agree.  The latter is said of trees that
\* occur as first states.
GitAnswersAgree == part = "git" => /\ AnswersFresh
                                   /\ answer.of = "none" /\ clock = 0 => ViewsAgree /\ SelectionsAgree

\* The places that judge, complete, migrate and rewrite a configuration agree.
\* What is said of constants alone is looked at once.
ConfigurationRulesHold ==
    /\ R!ConfigurationsAgree /\ R!ResolutionCompletes /\ R!FilesSelected /\ R!MigrationPreserves
    /\ part = "rules" /\ q.kind = "none" => RewritingsAgree /\ MigrationSettles /\ TemplatesComplete

\* Every command that is under way ends, by itself or killed; and a clean
\* never takes away what is in use.
UnderWay == at # "idle" \/ stage # "rest" \/ cleaning.step # "rest" \/ trying \notin {"rest", "over"}
CommandsEnd == (UnderWay ~> ~UnderWay) /\ OnlyOldRemoved

=============================================================================
