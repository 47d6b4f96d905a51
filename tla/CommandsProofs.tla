----------------------------- MODULE CommandsProofs -----------------------------
(***************************************************************************)
(* What the commands and their store promise; each part has a              *)
(* specification of its own.                                               *)
(* What the store promises to one process that may be killed at any step   *)
(* and starts again, with any number of repositories, environments and     *)
(* configuration files, while the user removes directories and edits       *)
(* files.  With two processes that miss the same key the promises fail,    *)
(* as nothing in the code takes the store's lock: OneProcess is what a     *)
(* caller of exclusive_lock would get.                                     *)
(***************************************************************************)
EXTENDS MCCommands, FiniteSetTheorems, SequenceTheorems, FunctionTheorems, WellFoundedInduction, TLAPS

OneProcess == \A p, z \in Procs : p = z

CallPcs == {"lookup", "touch", "remove", "create", "clone", "checkout", "insert"}

\* What a process knows at each point of clone_repository and install_environment: a
\* row that is in the way has lost its directory, and what is recorded is complete.
CloneInv ==
    \A p \in Procs :
        /\ pc[p] \in CallPcs => key[p] \in Keys
        /\ pc[p] = "remove" => ~Trusted(key[p])
        /\ pc[p] \in {"create", "clone", "checkout", "insert"} /\ row[key[p]] # "none" =>
              key[p] \in orphaned
        /\ pc[p] = "insert" => dir[key[p]] \in Complete
        /\ outcome[p] = "Unique" => pc[p] = "idle" /\ key[p] \in Keys

IInv == TypeOK /\ TrustedComplete /\ CloneInv /\ RetrySucceeds

-----------------------------------------------------------------------------
\* An empty store.
LEMMA InitIInv == Init => IInv
BY DEF Init, IInv, TypeOK, TrustedComplete, CloneInv, RetrySucceeds, Trusted, CallPcs

-----------------------------------------------------------------------------
\* All that one process can do.
ProcStep(p) ==
    \/ \E k \in Keys : Call(p, k)
    \/ Refuse(p) \/ Hit(p) \/ Touch(p) \/ NotFound(p) \/ Miss(p) \/ RemoveExisting(p)
    \/ Create(p) \/ CloneFails(p) \/ Cloned(p) \/ (\E c \in Complete : Checkout(p, c))
    \/ CheckoutFails(p) \/ WriteMarker(p) \/ InsertOk(p) \/ InsertConflict(p)
    \/ GcDeleteRows(p) \/ CleanupDone(p) \/ GcFindConfigs(p) \/ GcForgetConfigs(p)
    \/ (\E table \in {Repos, Envs} : GcSelect(p, table))
    \/ (\E k \in Keys : GcRemoveFiles(p, k))
    \/ (\E k \in Keys : \E c \in {"absent", dir[k]} : GcRemoveDir(p, k, c))
    \/ (\E c \in Configs : MarkConfigUsed(p, c))
    \/ Restart(p)

\* All that can happen to the store.
LEMMA StepKinds ==
  Next => \/ \E p \in Procs : ProcStep(p)
          \/ \E k \in Keys : Age(k)
          \/ \E k \in Keys : DeleteDir(k)
          \/ \E c \in Configs : EditConfig(c)
BY DEF Next, ProcStep

-----------------------------------------------------------------------------
\* The variables keep their types, with any number of processes.
LEMMA TypeStep == TypeOK /\ [Next]_vars => TypeOK'
<1> SUFFICES ASSUME TypeOK, [Next]_vars PROVE TypeOK'
  OBVIOUS
<1> USE DEF TypeOK, disk, gcVars, Complete
<1>1. CASE UNCHANGED vars
  BY <1>1 DEF vars
<1>2. ASSUME NEW p \in Procs, ProcStep(p)
      PROVE  TypeOK'
  <2>1. CASE Refuse(p)
    BY <2>1 DEF Refuse, Return, Goto
  <2>2. CASE Hit(p)
    BY <2>2 DEF Hit, Goto
  <2>3. CASE Touch(p)
    BY <2>3 DEF Touch, Return, Goto, Renewed
  <2>4. CASE NotFound(p)
    BY <2>4 DEF NotFound, Return, Goto
  <2>5. CASE Miss(p)
    BY <2>5 DEF Miss, Goto
  <2>6. CASE RemoveExisting(p)
    BY <2>6 DEF RemoveExisting, Goto, Orphans
  <2>7. CASE Create(p)
    BY <2>7 DEF Create, Goto, Orphans
  <2>8. CASE CloneFails(p)
    BY <2>8 DEF CloneFails, Return, Goto, Orphans
  <2>9. CASE Cloned(p)
    BY <2>9 DEF Cloned, Goto, Orphans
  <2>10. CASE \E c \in Complete : Checkout(p, c)
    <3>1. PICK c \in Complete : Checkout(p, c)
      BY <2>10
    <3> QED
      BY <3>1 DEF Checkout, Goto, Orphans
  <2>11. CASE CheckoutFails(p)
    BY <2>11 DEF CheckoutFails, Return, Goto, Orphans
  <2>12. CASE WriteMarker(p)
    BY <2>12 DEF WriteMarker, Goto, Orphans
  <2>13. CASE InsertOk(p)
    BY <2>13 DEF InsertOk, Return, Goto, Orphans, Renewed
  <2>14. CASE InsertConflict(p)
    BY <2>14 DEF InsertConflict, Return, Goto
  <2>15. CASE GcDeleteRows(p)
    BY <2>15 DEF GcDeleteRows, Goto, Orphans
  <2>16. CASE CleanupDone(p)
    BY <2>16 DEF CleanupDone, Return, Goto
  <2>17. CASE GcFindConfigs(p)
    BY <2>17 DEF GcFindConfigs, Goto
  <2>18. CASE GcForgetConfigs(p)
    BY <2>18 DEF GcForgetConfigs, Return, Goto
  <2>19. CASE \E table \in {Repos, Envs} : GcSelect(p, table)
    <3>1. PICK table \in {Repos, Envs} : GcSelect(p, table)
      BY <2>19
    <3>2. PICK K \in SUBSET {k \in table : row[k] # "none"} :
             /\ paths' = [paths EXCEPT ![p] = {k \in K : dir[k] # "absent"}]
             /\ older' = [older EXCEPT ![p] = K]
      BY <3>1 DEF GcSelect
    <3> DEFINE D == {k \in K : dir[k] # "absent"}
    <3>3. K \in SUBSET Keys /\ D \in SUBSET table /\ D \in SUBSET Keys
      BY DEF Keys
    <3> HIDE DEF D
    <3>4. /\ older' \in [Procs -> SUBSET Keys] /\ paths' \in [Procs -> SUBSET (Keys \cup Configs)]
          /\ paths'[p] = D /\ \A z \in Procs \ {p} : paths'[z] = paths[z]
      BY <3>2, <3>3 DEF D
    <3>5. /\ pc' = [pc EXCEPT ![p] = IF table = Repos THEN "gcrepos" ELSE "gcenvs"]
          /\ UNCHANGED <<readonly, row, dir, conf, file, orphaned>>
          /\ key' = [key EXCEPT ![p] = NoKey] /\ outcome' = [outcome EXCEPT ![p] = "none"]
      BY <3>1 DEF GcSelect, Goto
    <3>6. \A z \in Procs : paths'[z] \subseteq (CASE pc'[z] = "gcrepos"  -> Repos
                                              [] pc'[z] = "gcenvs"   -> Envs
                                              [] pc'[z] = "gcforget" -> Configs
                                              [] OTHER              -> {})
      <4> SUFFICES ASSUME NEW z \in Procs
                   PROVE  paths'[z] \subseteq (CASE pc'[z] = "gcrepos"  -> Repos
                                               [] pc'[z] = "gcenvs"   -> Envs
                                               [] pc'[z] = "gcforget" -> Configs
                                               [] OTHER              -> {})
        OBVIOUS
      <4>1. CASE z = p
        BY <3>3, <3>4, <3>5, <4>1
      <4>2. CASE z # p
        BY <3>4, <3>5, <4>2
      <4> QED  BY <4>1, <4>2
    <3> QED  BY <3>4, <3>5, <3>6
  <2>20. CASE \E k \in Keys : GcRemoveFiles(p, k)
    BY <2>20 DEF GcRemoveFiles
  <2>21. CASE \E k \in Keys : \E c \in {"absent", dir[k]} : GcRemoveDir(p, k, c)
    BY <2>21 DEF GcRemoveDir, Orphans
  <2>22. CASE \E c \in Configs : MarkConfigUsed(p, c)
    BY <2>22 DEF MarkConfigUsed
  <2>23. CASE Restart(p)
    BY <2>23 DEF Restart, Goto
  <2>24. CASE \E k \in Keys : Call(p, k)
    BY <2>24 DEF Call, Goto
  <2> QED  BY <1>2, <2>1, <2>2, <2>3, <2>4, <2>5, <2>6, <2>7, <2>8, <2>9, <2>10, <2>11, <2>12, <2>13, <2>14, <2>15, <2>16, <2>17, <2>18, <2>19, <2>20, <2>21, <2>22, <2>23, <2>24 DEF ProcStep
<1>3. CASE \E k \in Keys : Age(k)
  BY <1>3 DEF Age
<1>4. CASE \E k \in Keys : DeleteDir(k)
  BY <1>4 DEF DeleteDir, Stale, Orphans
<1>5. CASE \E c \in Configs : EditConfig(c)
  BY <1>5 DEF EditConfig
<1> QED  BY <1>1, <1>2, <1>3, <1>4, <1>5, StepKinds

\* With one process what is recorded stays complete, or is known to have been taken
\* away.
LEMMA CloneStep ==
  ASSUME OneProcess, IInv, [Next]_vars
  PROVE  TrustedComplete' /\ CloneInv' /\ RetrySucceeds'
<1> USE DEF IInv, TypeOK, disk, gcVars, Complete, TrustedComplete, CloneInv, RetrySucceeds,
        Trusted, CallPcs
<1>1. CASE UNCHANGED vars
  BY <1>1 DEF vars
<1>2. ASSUME NEW p \in Procs, ProcStep(p)
      PROVE  TrustedComplete' /\ CloneInv' /\ RetrySucceeds'
  <2>0. \A z \in Procs : z = p
    BY DEF OneProcess
  <2>1. CASE \E k \in Keys : Call(p, k)
    BY <2>0, <2>1 DEF Call, Goto
  <2>2. CASE Refuse(p)
    BY <2>0, <2>2 DEF Refuse, Return, Goto
  <2>3. CASE Hit(p)
    BY <2>0, <2>3 DEF Hit, Goto
  <2>4. CASE Touch(p)
    BY <2>0, <2>4 DEF Touch, Return, Goto
  <2>5. CASE NotFound(p)
    BY <2>0, <2>5 DEF NotFound, Return, Goto
  <2>6. CASE Miss(p)
    BY <2>0, <2>6 DEF Miss, Goto
  <2>7. CASE RemoveExisting(p)
    BY <2>0, <2>7 DEF RemoveExisting, Goto, Orphans
  <2>8. CASE Create(p)
    BY <2>0, <2>8 DEF Create, Goto, Orphans
  <2>9. CASE CloneFails(p)
    BY <2>0, <2>9 DEF CloneFails, Return, Goto, Orphans
  <2>10. CASE Cloned(p)
    BY <2>0, <2>10 DEF Cloned, Goto, Orphans
  <2>11. CASE \E c \in Complete : Checkout(p, c)
    BY <2>0, <2>11 DEF Checkout, Goto, Orphans
  <2>12. CASE CheckoutFails(p)
    BY <2>0, <2>12 DEF CheckoutFails, Return, Goto, Orphans
  <2>13. CASE WriteMarker(p)
    BY <2>0, <2>13 DEF WriteMarker, Goto, Orphans
  <2>14. CASE InsertOk(p)
    BY <2>0, <2>14 DEF InsertOk, Return, Goto, Orphans
  <2>15. CASE InsertConflict(p)
    BY <2>0, <2>15 DEF InsertConflict, Return, Goto
  <2>16. CASE GcDeleteRows(p)
    BY <2>0, <2>16 DEF GcDeleteRows, Goto, Orphans
  <2>17. CASE CleanupDone(p)
    BY <2>0, <2>17 DEF CleanupDone, Return, Goto
  <2>18. CASE GcFindConfigs(p)
    BY <2>0, <2>18 DEF GcFindConfigs, Goto
  <2>19. CASE GcForgetConfigs(p)
    BY <2>0, <2>19 DEF GcForgetConfigs, Return, Goto
  <2>20. CASE \E table \in {Repos, Envs} : GcSelect(p, table)
    BY <2>0, <2>20 DEF GcSelect, Goto
  <2>21. CASE \E k \in Keys : GcRemoveFiles(p, k)
    BY <2>0, <2>21 DEF GcRemoveFiles
  <2>22. CASE \E k \in Keys : \E c \in {"absent", dir[k]} : GcRemoveDir(p, k, c)
    BY <2>0, <2>22 DEF GcRemoveDir, Orphans
  <2>23. CASE \E c \in Configs : MarkConfigUsed(p, c)
    BY <2>0, <2>23 DEF MarkConfigUsed
  <2>24. CASE Restart(p)
    BY <2>0, <2>24 DEF Restart, Goto
  <2> QED  BY <1>2, <2>1, <2>2, <2>3, <2>4, <2>5, <2>6, <2>7, <2>8, <2>9, <2>10, <2>11, <2>12, <2>13, <2>14, <2>15, <2>16, <2>17, <2>18, <2>19, <2>20, <2>21, <2>22, <2>23, <2>24 DEF ProcStep
<1>3. CASE \E k \in Keys : Age(k)
  BY <1>3 DEF Age
<1>4. CASE \E k \in Keys : DeleteDir(k)
  BY <1>4 DEF DeleteDir, Stale, Orphans
<1>5. CASE \E c \in Configs : EditConfig(c)
  BY <1>5 DEF EditConfig
<1> QED  BY <1>1, <1>2, <1>3, <1>4, <1>5, StepKinds

\* The invariant holds whenever the store has one process.
LEMMA StoreInv == ASSUME OneProcess PROVE Spec => []IInv
<1>1. IInv /\ [Next]_vars => IInv'
  BY TypeStep, CloneStep DEF IInv
<1> QED  BY InitIInv, <1>1, PTL DEF Spec

\* The types need no such assumption.
THEOREM TypeCorrect == Spec => []TypeOK
<1>1. Init => TypeOK
  BY InitIInv DEF IInv
<1> QED  BY <1>1, TypeStep, PTL DEF Spec

\* Wherever clone_repository, install_environment or garbage_collect (storage.rs) is
\* killed, a directory the database vouches for is complete, unless its row had
\* outlived an earlier directory or gc has begun to remove it.
THEOREM StoreIsTrusted == ASSUME OneProcess PROVE Spec => []StoreTrusted
<1>1. IInv => StoreTrusted
  BY DEF IInv, StoreTrusted
<1> QED  BY StoreInv, <1>1, PTL

\* "Repository directory was deleted. Try running the command again." is true: after a
\* call that failed on the UNIQUE constraint the next one finds a complete directory.
THEOREM RetryWorks == ASSUME OneProcess PROVE Spec => []RetrySucceeds
<1>1. IInv => RetrySucceeds
  BY DEF IInv
<1> QED  BY StoreInv, <1>1, PTL

-----------------------------------------------------------------------------
(* HookInstall: the inductive invariant.                                     *)

\* What a hook file can hold, and the lists of types that commands are given.
HookFiles == {NoFile, Script, Torn, TornMarked} \union {User(v) : v \in Nat}
Lists == Types \union {"no-such-hook"}
JobType == [kind : {"none", "install", "uninstall"}, left : Seq(Lists), overwrite : BOOLEAN,
            backup : BOOLEAN, restore : BOOLEAN, clean : BOOLEAN, asked : SUBSET Lists]
ReportType == [installed : SUBSET Lists, backedUp : SUBSET Lists, warned : SUBSET Lists,
               removed : SUBSET Lists, restored : SUBSET Lists,
               ended : {"ok", "running", "refused", "error", "killed", "install", "uninstall"}]
InstallTypes ==
  /\ hook \in [Types -> HookFiles] /\ legacy \in [Types -> HookFiles]
  /\ aged \subseteq Types /\ cut \subseteq Types /\ mine \in [Types -> Nat] /\ edits \in Nat
  /\ job \in JobType /\ report \in ReportType
  /\ at \in {"idle", "next", "backup", "copying", "write", "writing", "restore", "restoring", "forget"}

\* Where a command is tells what it does and that it has a type in hand.
JobInv ==
  /\ at \notin {"idle", "next"} => job.left # << >> /\ Current \in Types
  /\ at # "idle" => job.kind # "none" /\ report.ended = "running"
  /\ at \in {"backup", "copying", "write", "writing"} => job.kind = "install"
  /\ at \in {"restore", "restoring", "forget"} => job.kind = "uninstall"

\* What is known of the files while one is copied, written or put back.
FileInv ==
  /\ \A y \in Types : legacy[y].is # "snp"
  /\ at \in {"backup", "copying"} => hook[Current].is \in {"user", "torn"}
  /\ at = "copying" /\ hook[Current].is = "torn" => Current \in cut
  /\ at = "restore" => hook[Current] = NoFile
  /\ at = "restoring" => hook[Current] = Torn
  /\ at = "forget" => hook[Current] = legacy[Current]

\* The user's latest hook is in one of two places, in the backup before the
\* hook is written over; and a hook that is the user's is the latest.
Ours(y) == mine[y] = 0 \/ y \in cut
KeptInv ==
  \A y \in Types : ~Ours(y) =>
    /\ hook[y] = User(mine[y]) \/ legacy[y] = User(mine[y])
    /\ hook[y].is = "user" => hook[y] = User(mine[y])
    /\ at \in {"write", "writing", "restore", "restoring"} /\ Current = y => legacy[y] = User(mine[y])

\* What was asked for is still to come or done.
ReportInv ==
  /\ at # "idle" /\ job.kind = "install" =>
       /\ \A y \in job.asked : y \in ToSet(job.left) \/ y \in report.warned \/ (y \in Types /\ IsSnpHook(y))
       /\ report.backedUp \subseteq report.installed \union (IF at \in {"write", "writing"} THEN {Current} ELSE {})
       /\ report.restored = {}
  /\ at # "idle" /\ job.kind = "uninstall" =>
       /\ \A y \in job.asked : y \in ToSet(job.left) \/ (y \in Types /\ ~IsSnpHook(y))
       /\ report.restored \subseteq report.removed
       /\ at \in {"restore", "restoring", "forget"} => Current \in report.removed
       /\ \A y \in report.restored : y \in Types /\ ~IsSnpHook(y) /\ (Ours(y) \/ hook[y] = User(mine[y]))
       /\ \A y \in report.restored : at \in {"restore", "restoring"} /\ Current = y => Ours(y)

InstallInv == InstallTypes /\ JobInv /\ FileInv /\ KeptInv /\ ReportInv /\ ReportTrue

\* The kinds of files are told apart by what they are.
LEMMA FilesApart ==
  /\ {NoFile, Script, Torn, TornMarked} \subseteq HookFiles /\ \A v \in Nat : User(v) \in HookFiles
  /\ NoFile.is = "none" /\ Script.is = "snp" /\ Torn.is = "torn" /\ TornMarked.is = "snp"
  /\ \A v \in Nat : User(v).is = "user"
  /\ \A h \in HookFiles : /\ h.is = "none" => h = NoFile
                          /\ h.is = "torn" => h = Torn
                          /\ h.is \in {"none", "snp", "user", "torn"}
<1>1. NoFile.is = "none" /\ Script.is = "snp" /\ Torn.is = "torn" /\ TornMarked.is = "snp"
  BY DEF NoFile, Script, Torn, TornMarked
<1>2. \A v \in Nat : User(v).is = "user"
  BY DEF User
<1>3. {NoFile, Script, Torn, TornMarked} \subseteq HookFiles /\ \A v \in Nat : User(v) \in HookFiles
  BY DEF HookFiles
<1>4. \A h \in HookFiles : h \in {NoFile, Script, Torn, TornMarked} \/ \E v \in Nat : h = User(v)
  BY DEF HookFiles
<1> QED
  BY <1>1, <1>2, <1>3, <1>4

\* The first of a list and the others.
LEMMA HeadOrTail ==
  ASSUME NEW S, NEW s \in Seq(S), s # << >>
  PROVE  /\ Head(s) \in S /\ Tail(s) \in Seq(S)
         /\ ToSet(s) = {Head(s)} \union ToSet(Tail(s))
<1>1. /\ Head(s) \in S /\ Tail(s) \in Seq(S) /\ Len(s) \in Nat \ {0} /\ Len(Tail(s)) = Len(s) - 1
      /\ Head(s) = s[1] /\ \A i \in 1 .. Len(Tail(s)) : Tail(s)[i] = s[i + 1]
  OBVIOUS
<1>2. ToSet(s) = {s[i] : i \in 1 .. Len(s)} /\ ToSet(Tail(s)) = {Tail(s)[i] : i \in 1 .. Len(Tail(s))}
  <2>1. DOMAIN s = 1 .. Len(s) /\ DOMAIN Tail(s) = 1 .. Len(Tail(s))
    BY <1>1
  <2> QED
    BY <2>1, Zenon DEF ToSet
<1>3. ASSUME NEW x \in ToSet(s) PROVE x = Head(s) \/ x \in ToSet(Tail(s))
  <2>1. PICK i \in 1 .. Len(s) : x = s[i]
    BY <1>2
  <2>2. CASE i = 1
    BY <1>1, <2>1, <2>2
  <2>3. CASE i # 1
    <3>1. i - 1 \in 1 .. Len(Tail(s)) /\ Tail(s)[i - 1] = s[i]
      BY <1>1, <2>3
    <3> QED
      BY <1>2, <2>1, <3>1
  <2> QED
    BY <2>2, <2>3
<1>4. Head(s) \in ToSet(s)
  BY <1>1, <1>2
<1>5. ASSUME NEW x \in ToSet(Tail(s)) PROVE x \in ToSet(s)
  <2>1. PICK i \in 1 .. Len(Tail(s)) : x = Tail(s)[i]
    BY <1>2
  <2>2. i + 1 \in 1 .. Len(s) /\ x = s[i + 1]
    BY <1>1, <2>1
  <2> QED
    BY <1>2, <2>2
<1> QED
  BY <1>1, <1>3, <1>4, <1>5

\* A list of the elements of a set of types.
LEMMA ListOfTypes ==
  ASSUME NEW S, S \subseteq Types
  PROVE  SetToSeq(S) \in Seq(S)
<1>1. IsFiniteSet(HookTypes)
  <2>1. \A T, x : IsFiniteSet(T) => IsFiniteSet(T \union {x})
    BY FS_AddElement
  <2>2. HookTypes = {} \union {"pre-commit"} \union {"pre-push"} \union {"commit-msg"} \union {"post-commit"}
          \union {"pre-rebase"} \union {"post-rewrite"} \union {"post-checkout"} \union {"post-merge"}
    BY DEF HookTypes
  <2> QED
    BY <2>1, <2>2, FS_EmptySet
<1>2. IsFiniteSet(S)
  BY <1>1, InstallAssumption, FS_Subset
<1>3. Cardinality(S) \in Nat /\ ExistsBijection(1 .. Cardinality(S), S)
  BY <1>2, FS_CardinalityType
<1>4. \E f \in [1 .. Cardinality(S) -> S] : IsInjective(f)
  BY <1>3 DEF ExistsBijection, Bijection, Injection
<1>5. SetToSeq(S) \in [1 .. Cardinality(S) -> S]
  BY <1>4 DEF SetToSeq
<1> QED
  BY <1>3, <1>5

-----------------------------------------------------------------------------
\* An untouched .git/hooks.
LEMMA InitInstall == InstallInit => InstallInv
<1> SUFFICES ASSUME InstallInit PROVE InstallInv
  OBVIOUS
<1> USE FilesApart DEF InstallInit
<1>1. InstallTypes
  BY DEF InstallTypes, JobType, ReportType, Idle, Nothing
<1>2. JobInv /\ ReportInv /\ ReportTrue
  BY DEF JobInv, ReportInv, ReportTrue, Idle, Nothing
<1>3. FileInv /\ KeptInv
  BY DEF FileInv, KeptInv, Ours
<1> QED
  BY <1>1, <1>2, <1>3 DEF InstallInv

\* Between commands the user edits the hooks and time passes.
LEMMA UserStep ==
  ASSUME InstallInv, NEW y \in Types, UserWrites(y) \/ UserDeletes(y) \/ MonthPasses
  PROVE  InstallInv'
<1> USE FilesApart
<1>1. at = "idle" /\ at' = "idle" /\ job' = job /\ legacy' = legacy /\ (report' = report \/ report' = Nothing)
  BY DEF UserWrites, UserDeletes, MonthPasses, Unchanged
<1>2. InstallTypes'
  BY DEF InstallInv, InstallTypes, UserWrites, UserDeletes, MonthPasses, Unchanged, Nothing, ReportType
<1>3. JobInv' /\ ReportInv'
  BY <1>1 DEF InstallInv, JobInv, ReportInv, Nothing
<1>4. FileInv'
  BY <1>1 DEF InstallInv, FileInv
<1>5. KeptInv'
  <2> SUFFICES ASSUME NEW z \in Types, ~Ours(z)'
               PROVE  /\ hook'[z] = User(mine'[z]) \/ legacy'[z] = User(mine'[z])
                      /\ hook'[z].is = "user" => hook'[z] = User(mine'[z])
    BY <1>1 DEF KeptInv
  <2>1. CASE UserWrites(y)
    BY <2>1, <1>1 DEF UserWrites, InstallInv, InstallTypes, KeptInv, Ours
  <2>2. CASE UserDeletes(y)
    BY <2>2, <1>1 DEF UserDeletes, InstallInv, InstallTypes, KeptInv, Ours
  <2>3. CASE MonthPasses
    BY <2>3, <1>1 DEF MonthPasses, Unchanged, InstallInv, KeptInv, Ours
  <2> QED
    BY <2>1, <2>2, <2>3
<1>6. ReportTrue'
  <2>1. CASE MonthPasses
    BY <2>1, <1>1 DEF MonthPasses, Unchanged, InstallInv, ReportTrue, IsSnpHook
  <2>2. CASE UserWrites(y) \/ UserDeletes(y)
    BY <2>2, <1>1 DEF UserWrites, UserDeletes, ReportTrue, Nothing
  <2> QED
    BY <2>1, <2>2
<1> QED
  BY <1>2, <1>3, <1>4, <1>5, <1>6 DEF InstallInv

\* A command begins, or is refused, or stops at a name that is no type, or is killed.
LEMMA BeginStep ==
  ASSUME InstallInv,
         \/ \E ts \in TypeLists, o, b, r \in BOOLEAN : InstallHooks(ts, o, b, r)
         \/ \E ts \in TypeLists, r, c \in BOOLEAN : UninstallHooks(ts, r, c)
  PROVE  InstallInv'
<1> USE FilesApart
<1>1. at = "idle" /\ at' \in {"idle", "next"} /\ UNCHANGED <<hook, legacy, aged, mine, cut, edits>>
  BY DEF InstallHooks, UninstallHooks
<1>2. ASSUME NEW ts \in TypeLists
      PROVE  ts \in Seq(Lists) /\ ToSet(ts) \subseteq Lists
  <2>1. {"pre-commit", "pre-push", "no-such-hook"} \subseteq Lists
    BY InstallAssumption DEF Lists
  <2>2. ts \in Seq(Lists)
    <3>1. << >> \in Seq(Lists) /\ <<"pre-commit", "pre-push">> \in Seq(Lists)
      BY <2>1
    <3>2. <<"pre-push", "no-such-hook", "pre-commit">> \in Seq(Lists)
      BY <2>1
    <3> QED
      BY <3>1, <3>2 DEF TypeLists
  <2> QED
    BY <2>2 DEF ToSet
<1>3. FindInstalled \in Seq(Lists)
  BY ListOfTypes DEF FindInstalled, Lists
<1>4. ToSet(<<"pre-commit">>) = {"pre-commit"} /\ "pre-commit" \in Lists
  BY InstallAssumption DEF ToSet, Lists
<1>5. ASSUME NEW ts \in TypeLists, NEW o \in BOOLEAN, NEW b \in BOOLEAN, NEW r \in BOOLEAN, InstallHooks(ts, o, b, r)
      PROVE  InstallInv'
  <2> USE <1>5
  <2>1. report' = [Nothing EXCEPT !.ended = IF r THEN "refused" ELSE "running"]
    BY DEF InstallHooks
  <2>2. at' # "idle" => job'.kind = "install" /\ ~r /\ job'.asked = ToSet(job'.left)
    BY <1>4 DEF InstallHooks, Idle
  <2>3. job' \in JobType
    <3> DEFINE L == IF ts = << >> THEN <<"pre-commit">> ELSE ts
               A == IF ts = << >> THEN {"pre-commit"} ELSE ToSet(ts)
    <3>1. L \in Seq(Lists) /\ A \subseteq Lists
      BY <1>2, <1>4
    <3>2. job' = Idle \/ job' = [Idle EXCEPT !.kind = "install", !.overwrite = o, !.backup = b, !.left = L, !.asked = A]
      BY DEF InstallHooks
    <3>3. Idle \in JobType
      BY DEF JobType, Idle
    <3> HIDE DEF L, A
    <3>4. [Idle EXCEPT !.kind = "install", !.overwrite = o, !.backup = b, !.left = L, !.asked = A] \in JobType
      BY <3>1, <3>3 DEF JobType
    <3> QED
      BY <3>2, <3>3, <3>4
  <2>4. InstallTypes'
    BY <1>1, <2>1, <2>3 DEF InstallInv, InstallTypes, ReportType, Nothing
  <2>5. JobInv' /\ ReportInv' /\ ReportTrue'
    BY <1>1, <2>1, <2>2 DEF JobInv, ReportInv, ReportTrue, Nothing
  <2>6. FileInv' /\ KeptInv'
    BY <1>1 DEF InstallInv, FileInv, KeptInv, Ours
  <2> QED
    BY <2>4, <2>5, <2>6 DEF InstallInv
<1>6. ASSUME NEW ts \in TypeLists, NEW r \in BOOLEAN, NEW c \in BOOLEAN, UninstallHooks(ts, r, c)
      PROVE  InstallInv'
  <2> USE <1>6
  <2>1. report' = [Nothing EXCEPT !.ended = "running"] /\ at' = "next"
    BY DEF UninstallHooks
  <2>2. job'.kind = "uninstall" /\ job'.asked = ToSet(job'.left)
    BY DEF UninstallHooks, Idle
  <2>3. job' \in JobType
    <3> DEFINE L == IF ts = << >> THEN FindInstalled ELSE ts
    <3>1. L \in Seq(Lists)
      BY <1>2, <1>3
    <3>2. ToSet(L) \subseteq Lists
      BY <3>1 DEF ToSet
    <3>3. job' = [Idle EXCEPT !.kind = "uninstall", !.restore = r, !.clean = c, !.left = L, !.asked = ToSet(L)]
      BY DEF UninstallHooks
    <3> QED
      BY <3>1, <3>2, <3>3 DEF JobType, Idle
  <2>4. InstallTypes'
    BY <1>1, <2>1, <2>3 DEF InstallInv, InstallTypes, ReportType, Nothing
  <2>5. JobInv' /\ ReportInv' /\ ReportTrue'
    BY <1>1, <2>1, <2>2 DEF JobInv, ReportInv, ReportTrue, Nothing
  <2>6. FileInv' /\ KeptInv'
    BY <1>1 DEF InstallInv, FileInv, KeptInv, Ours
  <2> QED
    BY <2>4, <2>5, <2>6 DEF InstallInv
<1> QED
  BY <1>5, <1>6

LEMMA EndStep ==
  ASSUME InstallInv, BadType \/ Kill
  PROVE  InstallInv'
<1>1. at' = "idle" /\ job' = Idle /\ UNCHANGED <<hook, legacy, aged, mine, cut, edits>>
  BY DEF BadType, Kill, Unchanged
<1>2. report' \in ReportType /\ report'.ended \in {"error", "killed"}
  BY DEF BadType, Kill, Nothing, InstallInv, InstallTypes, ReportType
<1>3. InstallTypes'
  BY <1>1, <1>2 DEF InstallInv, InstallTypes, JobType, Idle
<1>4. JobInv' /\ ReportInv' /\ ReportTrue'
  BY <1>1, <1>2 DEF JobInv, ReportInv, ReportTrue
<1>5. FileInv' /\ KeptInv'
  BY <1>1 DEF InstallInv, FileInv, KeptInv, Ours
<1> QED
  BY <1>3, <1>4, <1>5 DEF InstallInv

\* The next type of a command is done with, and the others are left.
LEMMA NextType ==
  ASSUME InstallInv, job.left # << >>, job' = [job EXCEPT !.left = Tail(@)]
  PROVE  /\ job' \in JobType /\ job'.left = Tail(job.left)
         /\ job'.kind = job.kind /\ job'.asked = job.asked
         /\ ToSet(job.left) = {Current} \union ToSet(job'.left)
         /\ Current \in Lists
<1>1. job \in JobType /\ job.left \in Seq(Lists)
  BY DEF InstallInv, InstallTypes, JobType
<1>2. /\ Current \in Lists /\ Tail(job.left) \in Seq(Lists)
      /\ ToSet(job.left) = {Current} \union ToSet(Tail(job.left))
  BY <1>1, HeadOrTail DEF Current
<1> QED
  BY <1>1, <1>2 DEF JobType

\* A name that parses is a type.
LEMMA CurrentType ==
  ASSUME InstallInv, job.left # << >>, Parses(Current)
  PROVE  Current \in Lists /\ Current \in HookTypes /\ Current # "no-such-hook" /\ Current \in Types
<1>1. job.left \in Seq(Lists)
  BY DEF InstallInv, InstallTypes, JobType
<1>2. Current \in Lists
  BY <1>1, HeadOrTail DEF Current
<1> QED
  BY <1>2 DEF Parses, HookTypes, Lists

\* A type is skipped: its hook is what the command wants, or a warning is given.
LEMMA SkipStep ==
  ASSUME InstallInv, at = "next", at' = "next", job.left # << >>, Parses(Current),
         job' = [job EXCEPT !.left = Tail(@)],
         UNCHANGED <<hook, legacy, aged, mine, cut, edits>>,
         \/ report' = report /\ job.kind = "install" /\ IsSnpHook(Current)
         \/ report' = [report EXCEPT !.warned = @ \union {Current}] /\ job.kind = "install"
         \/ report' = report /\ job.kind = "uninstall" /\ ~IsSnpHook(Current)
  PROVE  InstallInv'
<1> USE NextType, CurrentType, FilesApart
<1>0. report \in ReportType /\ Current \in Lists /\ Current \in Types
  BY DEF InstallInv, InstallTypes
<1>1. /\ report' \in ReportType /\ report'.ended = report.ended
      /\ report'.restored = report.restored /\ report'.removed = report.removed
      /\ report'.installed = report.installed /\ report'.backedUp = report.backedUp
      /\ report.warned \subseteq report'.warned
      /\ job.kind = "install" => IsSnpHook(Current) \/ Current \in report'.warned
  <2>1. CASE report' = report /\ (job.kind = "install" => IsSnpHook(Current))
    BY <1>0, <2>1
  <2>2. CASE report' = [report EXCEPT !.warned = @ \union {Current}]
    BY <1>0, <2>2 DEF ReportType
  <2> QED
    BY <2>1, <2>2
<1>2. report.ended = "running"
  BY DEF InstallInv, JobInv
<1>3. InstallTypes'
  BY <1>1 DEF InstallInv, InstallTypes
<1>4. JobInv'
  BY <1>1 DEF InstallInv, JobInv
<1>5. FileInv' /\ KeptInv'
  BY DEF InstallInv, FileInv, KeptInv, Ours
<1>6. ReportInv'
  <2>1. CASE job.kind = "install"
    <3>1. \A y \in job'.asked : y \in ToSet(job'.left) \/ y \in report'.warned \/ (y \in Types /\ IsSnpHook(y)')
      <4>1. Current \in report'.warned \/ hook'[Current].is = "snp"
        BY <2>1, <1>1 DEF IsSnpHook
      <4>2. \A y \in job.asked : y \in ToSet(job.left) \/ y \in report.warned \/ (y \in Types /\ IsSnpHook(y))
        BY <2>1 DEF InstallInv, ReportInv
      <4>3. \A y : /\ IsSnpHook(y)' <=> IsSnpHook(y)
                   /\ hook'[y].is = "snp" => IsSnpHook(y)
        BY DEF IsSnpHook
      <4>4. job'.asked = job.asked /\ ToSet(job.left) = {Current} \union ToSet(job'.left)
        OBVIOUS
      <4> QED
        BY <4>1, <4>2, <4>3, <4>4, <1>0, <1>1
    <3> QED
      BY <3>1, <2>1, <1>1 DEF InstallInv, ReportInv
  <2>2. CASE job.kind = "uninstall"
    BY <2>2, <1>1 DEF InstallInv, ReportInv, IsSnpHook, Ours
  <2>3. CASE job.kind = "none"
    BY <2>3, <1>1 DEF ReportInv
  <2> QED
    BY <2>1, <2>2, <2>3 DEF InstallInv, InstallTypes, JobType
<1>7. ReportTrue'
  BY DEF ReportTrue
<1> QED
  BY <1>3, <1>4, <1>5, <1>6, <1>7 DEF InstallInv

\* install_single_hook skips a type, or starts to back its hook up or to write it.
LEMMA InstallOneStep == ASSUME InstallInv, InstallOne PROVE InstallInv'
<1> USE FilesApart
<1>1. /\ Current \in Types /\ at = "next" /\ job.left # << >> /\ Parses(Current)
      /\ job.kind = "install" /\ UNCHANGED <<legacy, aged, cut, edits>>
  BY CurrentType DEF InstallOne, Unchanged
<1>2. CASE /\ job' = [job EXCEPT !.left = Tail(@)] /\ UNCHANGED <<hook, at, mine>>
           /\ ((report' = report /\ IsSnpHook(Current)) \/ report' = [report EXCEPT !.warned = @ \union {Current}])
  BY <1>1, <1>2, SkipStep
<1>3. CASE /\ at' \in {"write", "backup"} /\ UNCHANGED <<job, report>>
           /\ at' = "backup" => UNCHANGED <<hook, mine>> /\ hook[Current].is \notin {"none", "snp"}
           /\ at' = "write" => \/ UNCHANGED <<hook, mine>> /\ hook[Current].is = "none"
                               \/ /\ hook' = [hook EXCEPT ![Current] = NoFile]
                                  /\ mine' = [mine EXCEPT ![Current] = IF hook[Current].is = "user" THEN 0 ELSE @]
                                  /\ hook[Current].is \notin {"none", "snp"}
  <2> USE <1>1, <1>3
  <2>1. Current' = Current
    BY DEF Current
  <2>2. InstallTypes'
    <3>1. hook' \in [Types -> HookFiles] /\ mine' \in [Types -> Nat]
      BY DEF InstallInv, InstallTypes
    <3> QED
      BY <3>1 DEF InstallInv, InstallTypes
  <2>3. /\ \A y \in Types \ {Current} : hook'[y] = hook[y] /\ mine'[y] = mine[y]
        /\ at' = "backup" => UNCHANGED <<hook, mine>> /\ hook[Current].is \in {"user", "torn"}
        /\ at' = "write" => /\ hook'[Current].is = "none" /\ (mine'[Current] = mine[Current] \/ mine'[Current] = 0)
                            /\ mine'[Current] # 0 => hook[Current].is # "user"
        /\ ~IsSnpHook(Current)
    BY DEF InstallInv, InstallTypes, IsSnpHook
  <2>4. JobInv'
    BY <2>1 DEF InstallInv, JobInv
  <2>5. FileInv'
    BY <2>1, <2>3 DEF InstallInv, FileInv
  <2>6. KeptInv'
    <3> SUFFICES ASSUME NEW y \in Types, ~Ours(y)'
                 PROVE  /\ hook'[y] = User(mine'[y]) \/ legacy'[y] = User(mine'[y])
                        /\ hook'[y].is = "user" => hook'[y] = User(mine'[y])
                        /\ at' = "write" /\ Current = y => legacy'[y] = User(mine'[y])
      BY <2>1 DEF KeptInv
    <3>1. ~Ours(y) /\ mine'[y] = mine[y]
      BY <2>3 DEF Ours
    <3>2. mine[y] \in Nat
      BY DEF InstallInv, InstallTypes
    <3>3. /\ hook[y] = User(mine[y]) \/ legacy[y] = User(mine[y])
          /\ hook[y].is = "user" => hook[y] = User(mine[y])
      BY <3>1 DEF InstallInv, KeptInv
    <3> QED
      BY <2>3, <3>1, <3>2, <3>3 DEF Ours
  <2>7. ReportInv' /\ ReportTrue'
    <3>1. \A y \in Types : IsSnpHook(y) => hook'[y].is = "snp"
      BY <2>3 DEF IsSnpHook
    <3> QED
      BY <2>1, <3>1 DEF InstallInv, ReportInv, ReportTrue, IsSnpHook
  <2> QED
    BY <2>2, <2>4, <2>5, <2>6, <2>7 DEF InstallInv
<1> QED
  BY <1>1, <1>2, <1>3 DEF InstallOne, Exists, IsSnpHook, Unchanged

\* backup_hook: what is copied over the old backup is the user's latest hook, or is
\* what a kill left of one, or of a script.
LEMMA BackupStep == ASSUME InstallInv, BackupHook PROVE InstallInv'
<1> USE FilesApart
<1>1. /\ at \in {"backup", "copying"} /\ Current \in Types /\ job.left # << >> /\ job.kind = "install"
      /\ report.ended = "running" /\ report \in ReportType
      /\ UNCHANGED <<hook, job, mine, edits>> /\ Current' = Current
  BY DEF BackupHook, Unchanged, InstallInv, InstallTypes, JobInv, Current
<1>2. \A y : IsSnpHook(y)' <=> IsSnpHook(y)
  BY <1>1 DEF IsSnpHook
<1>3. CASE at = "backup"
  <2> USE <1>3
  <2>1. /\ at' = "copying" /\ report' = report /\ aged' = aged \ {Current}
        /\ legacy' = [legacy EXCEPT ![Current] = Torn]
        /\ cut' = IF hook[Current] = Torn THEN cut \union {Current} ELSE cut
    BY DEF BackupHook, Unchanged, Spoil
  <2>2. InstallTypes'
    BY <1>1, <2>1 DEF InstallInv, InstallTypes
  <2>3. JobInv'
    BY <1>1, <2>1 DEF InstallInv, JobInv
  <2>4. FileInv'
    BY <1>1, <2>1 DEF InstallInv, InstallTypes, FileInv
  <2>5. KeptInv'
    <3>1. ASSUME NEW y \in Types, ~Ours(y)', y = Current
          PROVE  hook[y] = User(mine[y])
      <4>1. ~Ours(y) /\ hook[y] # Torn
        BY <1>1, <2>1, <3>1 DEF Ours
      <4>2. hook[y].is = "user"
        BY <1>1, <3>1, <4>1 DEF InstallInv, InstallTypes, FileInv
      <4> QED
        BY <4>1, <4>2 DEF InstallInv, KeptInv
    <3>2. ASSUME NEW y \in Types, ~Ours(y)', y # Current
          PROVE  legacy'[y] = legacy[y] /\ ~Ours(y)
      BY <1>1, <2>1, <3>2 DEF Ours, InstallInv, InstallTypes
    <3> QED
      BY <1>1, <2>1, <3>1, <3>2 DEF InstallInv, KeptInv
  <2>6. ReportInv' /\ ReportTrue'
    BY <1>1, <1>2, <2>1 DEF InstallInv, ReportInv, ReportTrue
  <2> QED
    BY <2>2, <2>3, <2>4, <2>5, <2>6 DEF InstallInv
<1>4. CASE at = "copying"
  <2> USE <1>4
  <2>1. /\ at' = "write" /\ aged' = aged /\ cut' = cut
        /\ legacy' = [legacy EXCEPT ![Current] = hook[Current]]
        /\ report' = [report EXCEPT !.backedUp = @ \union {Current}]
    BY DEF BackupHook, Unchanged
  <2>2. /\ report' \in ReportType /\ report'.ended = report.ended /\ report'.restored = report.restored
        /\ report'.warned = report.warned /\ report'.installed = report.installed
        /\ report'.backedUp = report.backedUp \union {Current}
    BY <1>1, <2>1 DEF ReportType, Lists
  <2>3. InstallTypes'
    BY <1>1, <2>1, <2>2 DEF InstallInv, InstallTypes
  <2>4. JobInv'
    BY <1>1, <2>1, <2>2 DEF InstallInv, JobInv
  <2>5. FileInv'
    BY <1>1, <2>1 DEF InstallInv, InstallTypes, FileInv
  <2>6. KeptInv'
    <3>1. ASSUME NEW y \in Types, ~Ours(y)'
          PROVE  /\ ~Ours(y) /\ (y # Current => legacy'[y] = legacy[y])
                 /\ y = Current => legacy'[y] = User(mine[y])
      <4>1. ~Ours(y) /\ (y # Current => legacy'[y] = legacy[y])
        BY <1>1, <2>1, <3>1 DEF Ours, InstallInv, InstallTypes
      <4>2. y = Current => hook[y].is = "user" /\ legacy'[y] = hook[y]
        BY <1>1, <2>1, <4>1 DEF Ours, InstallInv, InstallTypes, FileInv
      <4> QED
        BY <4>1, <4>2 DEF InstallInv, KeptInv
    <3> QED
      BY <1>1, <2>1, <3>1 DEF InstallInv, KeptInv
  <2>7. ReportInv' /\ ReportTrue'
    BY <1>1, <1>2, <2>1, <2>2 DEF InstallInv, ReportInv, ReportTrue
  <2> QED
    BY <2>3, <2>4, <2>5, <2>6, <2>7 DEF InstallInv
<1> QED
  BY <1>1, <1>3, <1>4

\* fs::write: the hook is truncated, then it is the script and the type is reported.
\* Meanwhile the user's hook is in the backup.
LEMMA WriteStep == ASSUME InstallInv, BeginWrite \/ EndWrite PROVE InstallInv'
<1> USE FilesApart
<1>1. /\ at \in {"write", "writing"} /\ Current \in Types /\ job.left # << >> /\ job.kind = "install"
      /\ report.ended = "running" /\ report \in ReportType /\ hook \in [Types -> HookFiles]
      /\ UNCHANGED <<legacy, aged, mine, cut, edits>>
  BY DEF BeginWrite, EndWrite, Unchanged, InstallInv, InstallTypes, JobInv
<1>2. ASSUME NEW h \in {Script, Torn, TornMarked}, hook' = [hook EXCEPT ![Current] = h],
             at' \in {"next", "writing"}, at' = "writing" => Current' = Current
      PROVE  FileInv' /\ KeptInv'
  <2>1. FileInv'
    BY <1>1, <1>2 DEF InstallInv, FileInv
  <2>2. ASSUME NEW y \in Types, ~Ours(y)'
        PROVE  /\ hook'[y] = User(mine'[y]) \/ legacy'[y] = User(mine'[y])
               /\ hook'[y].is = "user" => hook'[y] = User(mine'[y])
               /\ at' = "writing" /\ Current' = y => legacy'[y] = User(mine'[y])
    <3>1. ~Ours(y)
      BY <1>1, <2>2 DEF Ours
    <3>2. y = Current => legacy[y] = User(mine[y]) /\ hook'[y].is # "user"
      BY <1>1, <1>2, <3>1 DEF InstallInv, KeptInv
    <3>3. y # Current => hook'[y] = hook[y]
      BY <1>1, <1>2
    <3> QED
      BY <1>1, <1>2, <3>1, <3>2, <3>3 DEF InstallInv, KeptInv
  <2>3. KeptInv'
    BY <1>2, <2>2 DEF KeptInv
  <2> QED
    BY <2>1, <2>3
<1>3. CASE BeginWrite
  <2>1. /\ at = "write" /\ at' = "writing" /\ UNCHANGED <<job, report>> /\ Current' = Current
    BY <1>3 DEF BeginWrite, Unchanged, Current
  <2>2. PICK h \in {Torn, TornMarked} : hook' = [hook EXCEPT ![Current] = h]
    BY <1>3 DEF BeginWrite
  <2>3. InstallTypes'
    BY <1>1, <2>1, <2>2 DEF InstallInv, InstallTypes
  <2>4. JobInv'
    BY <1>1, <2>1 DEF InstallInv, JobInv
  <2>5. \A y \in Types : y # Current => (IsSnpHook(y) => hook'[y].is = "snp")
    BY <1>1, <2>2 DEF IsSnpHook
  <2>6. Current \in ToSet(job.left)
    <3>1. job.left \in Seq(Lists)
      BY DEF InstallInv, InstallTypes, JobType
    <3> QED
      BY <1>1, <3>1, HeadOrTail DEF Current
  <2>7. ReportInv' /\ ReportTrue'
    BY <1>1, <2>1, <2>5, <2>6 DEF InstallInv, ReportInv, ReportTrue, IsSnpHook
  <2> QED
    BY <1>2, <2>1, <2>2, <2>3, <2>4, <2>7 DEF InstallInv
<1>4. CASE EndWrite
  <2>1. /\ at = "writing" /\ at' = "next" /\ hook' = [hook EXCEPT ![Current] = Script]
        /\ report' = [report EXCEPT !.installed = @ \union {Current}]
        /\ job' = [job EXCEPT !.left = Tail(@)]
    BY <1>4 DEF EndWrite
  <2>2. /\ job' \in JobType /\ job'.left = Tail(job.left)
        /\ job'.kind = job.kind /\ job'.asked = job.asked
        /\ ToSet(job.left) = {Current} \union ToSet(job'.left)
    BY <1>1, <2>1, NextType
  <2>3. /\ report' \in ReportType /\ report'.ended = report.ended /\ report'.restored = report.restored
        /\ report'.warned = report.warned /\ report'.backedUp = report.backedUp
        /\ report'.installed = report.installed \union {Current}
    BY <1>1, <2>1 DEF ReportType, Lists
  <2>4. InstallTypes'
    BY <1>1, <2>1, <2>2, <2>3 DEF InstallInv, InstallTypes
  <2>5. JobInv'
    BY <1>1, <2>1, <2>2, <2>3 DEF InstallInv, JobInv
  <2>6. \A y \in Types : hook'[y].is = "snp" <=> IsSnpHook(y) \/ y = Current
    BY <1>1, <2>1 DEF IsSnpHook
  <2>7. \A y \in job'.asked : y \in ToSet(job'.left) \/ y \in report'.warned \/ (y \in Types /\ hook'[y].is = "snp")
    BY <1>1, <2>1, <2>2, <2>3, <2>6 DEF InstallInv, ReportInv
  <2>8. report'.backedUp \subseteq report'.installed /\ report'.restored = {}
    BY <1>1, <2>1, <2>3 DEF InstallInv, ReportInv
  <2>9. ReportInv' /\ ReportTrue'
    BY <1>1, <2>1, <2>2, <2>7, <2>8 DEF ReportInv, ReportTrue, IsSnpHook
  <2> QED
    BY <1>2, <2>1, <2>4, <2>5, <2>9 DEF InstallInv
<1> QED
  BY <1>3, <1>4

\* uninstall_single_hook: a script is removed, another hook is left.
LEMMA UninstallOneStep == ASSUME InstallInv, UninstallOne PROVE InstallInv'
<1> USE FilesApart
<1>1. /\ at = "next" /\ Current \in Types /\ job.left # << >> /\ job.kind = "uninstall" /\ Parses(Current)
      /\ report.ended = "running" /\ report \in ReportType /\ hook \in [Types -> HookFiles]
      /\ UNCHANGED <<legacy, aged, mine, cut, edits>>
  BY CurrentType DEF UninstallOne, Unchanged, InstallInv, InstallTypes, JobInv
<1>2. CASE ~IsSnpHook(Current)
  <2>1. job' = [job EXCEPT !.left = Tail(@)] /\ UNCHANGED <<hook, at, report>>
    BY <1>2 DEF UninstallOne
  <2> QED
    BY <1>1, <1>2, <2>1, SkipStep
<1>3. CASE IsSnpHook(Current)
  <2>1. /\ hook' = [hook EXCEPT ![Current] = NoFile] /\ report' = [report EXCEPT !.removed = @ \union {Current}]
        /\ \/ at' = "restore" /\ job' = job
           \/ at' = "next" /\ job' = [job EXCEPT !.left = Tail(@)]
    BY <1>1, <1>3 DEF UninstallOne
  <2>2. /\ job' \in JobType /\ job'.kind = job.kind /\ job'.asked = job.asked
        /\ at' = "next" => ToSet(job.left) = {Current} \union ToSet(job'.left)
        /\ at' = "restore" => Current' = Current /\ job'.left = job.left
    BY <1>1, <2>1, NextType DEF Current, InstallInv, InstallTypes
  <2>3. /\ report' \in ReportType /\ report'.ended = report.ended /\ report'.restored = report.restored
        /\ report'.removed = report.removed \union {Current}
    BY <1>1, <2>1 DEF ReportType, Lists
  <2>4. InstallTypes'
    BY <1>1, <2>1, <2>2, <2>3 DEF InstallInv, InstallTypes
  <2>5. JobInv'
    BY <1>1, <2>1, <2>2, <2>3 DEF InstallInv, JobInv
  <2>6. /\ \A y \in Types : y # Current => hook'[y] = hook[y]
        /\ hook'[Current].is = "none" /\ hook[Current].is = "snp" /\ hook'[Current] = NoFile
    BY <1>1, <1>3, <2>1 DEF IsSnpHook
  <2>7. FileInv'
    BY <1>1, <2>1, <2>2, <2>6 DEF InstallInv, FileInv
  <2>8. ASSUME NEW y \in Types, ~Ours(y)'
        PROVE  /\ hook'[y] = User(mine'[y]) \/ legacy'[y] = User(mine'[y])
               /\ hook'[y].is = "user" => hook'[y] = User(mine'[y])
               /\ y = Current => legacy'[y] = User(mine'[y])
    <3>1. ~Ours(y) /\ mine[y] \in Nat
      BY <1>1, <2>8 DEF Ours, InstallInv, InstallTypes
    <3>2. /\ hook[y] = User(mine[y]) \/ legacy[y] = User(mine[y])
          /\ hook[y].is = "user" => hook[y] = User(mine[y])
      BY <3>1 DEF InstallInv, KeptInv
    <3> QED
      BY <1>1, <2>6, <3>1, <3>2
  <2>9. KeptInv'
    BY <2>1, <2>2, <2>8 DEF KeptInv
  <2>10. Current \notin report.restored
    <3>1. hook[Current] # User(mine[Current]) /\ ~(Current \in report.restored)
      BY <1>1, <1>3 DEF InstallInv, InstallTypes, ReportInv, IsSnpHook
    <3> QED
      BY <3>1
  <2>11. ReportInv' /\ ReportTrue'
    <3>1. \A y \in job.asked : y \in ToSet(job.left) \/ (y \in Types /\ ~IsSnpHook(y))
      BY <1>1 DEF InstallInv, ReportInv
    <3>2. \A y \in report.restored : y \in Types /\ ~IsSnpHook(y) /\ (Ours(y) \/ hook[y] = User(mine[y]))
      BY <1>1 DEF InstallInv, ReportInv
    <3>3. \A y \in Types : y # Current => (IsSnpHook(y)' <=> IsSnpHook(y)) /\ (Ours(y)' <=> Ours(y))
      BY <1>1, <2>6 DEF IsSnpHook, Ours
    <3>4. ~(hook'[Current].is = "snp")
      BY <2>6
    <3>5. \A y \in job'.asked : y \in ToSet(job'.left) \/ (y \in Types /\ hook'[y].is # "snp")
      BY <1>1, <2>1, <2>2, <2>6, <3>1 DEF IsSnpHook
    <3>6. \A y \in report'.restored :
             y # Current /\ y \in Types /\ hook'[y].is # "snp" /\ (Ours(y)' \/ hook'[y] = User(mine'[y]))
      BY <1>1, <2>3, <2>6, <2>10, <3>2, <3>3 DEF IsSnpHook
    <3>7. report'.restored \subseteq report'.removed /\ Current \in report'.removed
      BY <1>1, <2>3 DEF InstallInv, ReportInv
    <3>8. at' = "restore" => Current' = Current
      BY <2>2
    <3> QED
      BY <1>1, <2>1, <2>2, <3>5, <3>6, <3>7, <3>8 DEF ReportInv, ReportTrue, IsSnpHook
  <2> QED
    BY <2>4, <2>5, <2>7, <2>9, <2>11 DEF InstallInv
<1> QED
  BY <1>2, <1>3

\* restore_hook: the backup is copied over the removed script and only then removed.
LEMMA RestoreStep == ASSUME InstallInv, RestoreHook PROVE InstallInv'
<1> USE FilesApart
<1>1. /\ at \in {"restore", "restoring", "forget"} /\ Current \in Types /\ job.left # << >> /\ job.kind = "uninstall"
      /\ report.ended = "running" /\ report \in ReportType
      /\ hook \in [Types -> HookFiles] /\ legacy \in [Types -> HookFiles]
      /\ UNCHANGED <<mine, cut, edits>>
  BY DEF RestoreHook, Unchanged, InstallInv, InstallTypes, JobInv
<1>2. /\ \A y : Ours(y)' <=> Ours(y)
      /\ legacy[Current].is # "snp"
  BY <1>1 DEF Ours, InstallInv, FileInv
<1>3. /\ \A y \in job.asked : y \in ToSet(job.left) \/ (y \in Types /\ hook[y].is # "snp")
      /\ report.restored \subseteq report.removed /\ Current \in report.removed
      /\ \A y \in report.restored : /\ y \in Types /\ hook[y].is # "snp" /\ (Ours(y) \/ hook[y] = User(mine[y]))
                                    /\ at \in {"restore", "restoring"} /\ y = Current => Ours(y)
  BY <1>1 DEF InstallInv, ReportInv, IsSnpHook
<1>4. CASE UNCHANGED <<legacy, aged, job, report>> /\ at' \in {"restoring", "forget"}
  <2>1. /\ Current' = Current
        /\ \/ at = "restore" /\ at' = "restoring" /\ hook' = [hook EXCEPT ![Current] = Torn]
           \/ at = "restoring" /\ at' = "forget" /\ hook' = [hook EXCEPT ![Current] = legacy[Current]]
    BY <1>1, <1>4 DEF RestoreHook, Current
  <2>2. /\ \A y \in Types : y # Current => hook'[y] = hook[y]
        /\ at' = "restoring" => hook'[Current] = Torn
        /\ at' = "forget" => hook'[Current] = legacy[Current]
    BY <1>1, <2>1
  <2>3. InstallTypes'
    BY <1>1, <1>4, <2>1 DEF InstallInv, InstallTypes
  <2>4. JobInv' /\ FileInv'
    BY <1>1, <1>4, <2>1, <2>2 DEF InstallInv, JobInv, FileInv
  <2>5. KeptInv'
    <3>1. ASSUME NEW y \in Types, ~Ours(y)'
          PROVE  /\ hook'[y] = User(mine'[y]) \/ legacy'[y] = User(mine'[y])
                 /\ hook'[y].is = "user" => hook'[y] = User(mine'[y])
                 /\ y = Current => legacy'[y] = User(mine'[y])
      <4>1. ~Ours(y)
        BY <1>2, <3>1
      <4>2. y = Current => legacy[y] = User(mine[y])
        BY <2>1, <4>1 DEF InstallInv, KeptInv
      <4> QED
        BY <1>1, <1>4, <2>1, <2>2, <4>1, <4>2 DEF InstallInv, KeptInv
    <3> QED
      BY <2>1, <3>1 DEF KeptInv
  <2>6. /\ hook'[Current].is # "snp"
        /\ Current \in report.restored => Ours(Current)
    BY <1>1, <1>2, <1>3, <2>1, <2>2
  <2>7. ReportInv' /\ ReportTrue'
    <3>1. \A y \in job.asked : y \in ToSet(job.left) \/ (y \in Types /\ hook'[y].is # "snp")
      BY <1>3, <2>2, <2>6
    <3>2. \A y \in report.restored : /\ y \in Types /\ hook'[y].is # "snp" /\ (Ours(y) \/ hook'[y] = User(mine[y]))
                                     /\ y = Current => Ours(y)
      BY <1>3, <2>2, <2>6
    <3> QED
      BY <1>1, <1>2, <1>3, <1>4, <2>1, <3>1, <3>2 DEF ReportInv, ReportTrue, IsSnpHook
  <2> QED
    BY <2>3, <2>4, <2>5, <2>7 DEF InstallInv
<1>5. CASE /\ job' = [job EXCEPT !.left = Tail(@)] /\ at' = "next" /\ UNCHANGED hook
           /\ \/ at = "restore" /\ UNCHANGED <<legacy, aged, report>> /\ legacy[Current].is = "none"
              \/ /\ at = "forget" /\ legacy' = [legacy EXCEPT ![Current] = NoFile] /\ aged' = aged \ {Current}
                 /\ report' = [report EXCEPT !.restored = @ \union {Current}]
  <2>1. /\ job' \in JobType /\ job'.kind = job.kind /\ job'.asked = job.asked
        /\ ToSet(job.left) = {Current} \union ToSet(job'.left)
    BY <1>1, <1>5, NextType
  <2>2. /\ report' \in ReportType /\ report'.ended = report.ended /\ report'.removed = report.removed
        /\ report'.restored = IF at = "forget" THEN report.restored \union {Current} ELSE report.restored
    <3>1. CASE at = "restore"
      BY <1>1, <1>5, <3>1
    <3>2. CASE at = "forget"
      BY <1>1, <1>5, <3>2 DEF ReportType, Lists
    <3> QED
      BY <1>1, <1>5, <3>1, <3>2
  <2>3. InstallTypes'
    BY <1>1, <1>5, <2>1, <2>2 DEF InstallInv, InstallTypes
  <2>4. JobInv' /\ FileInv'
    BY <1>1, <1>5, <2>1, <2>2 DEF InstallInv, JobInv, FileInv
  <2>5. /\ at = "restore" => hook[Current].is = "none"
        /\ at = "forget" => hook[Current] = legacy[Current]
    BY <1>1 DEF InstallInv, FileInv
  <2>6. at = "forget" /\ ~Ours(Current) => hook[Current] = User(mine[Current])
    BY <1>1, <2>5 DEF InstallInv, KeptInv
  <2>7. KeptInv'
    <3>1. ASSUME NEW y \in Types, ~Ours(y)'
          PROVE  /\ hook'[y] = User(mine'[y]) \/ legacy'[y] = User(mine'[y])
                 /\ hook'[y].is = "user" => hook'[y] = User(mine'[y])
      <4>1. ~Ours(y)
        BY <1>2, <3>1
      <4> QED
        BY <1>1, <1>5, <2>6, <4>1 DEF InstallInv, KeptInv
    <3> QED
      BY <1>5, <3>1 DEF KeptInv
  <2>8. hook[Current].is # "snp"
    BY <1>1, <1>2, <1>5, <2>5
  <2>9. ReportInv' /\ ReportTrue'
    <3>1. \A y \in job'.asked : y \in ToSet(job'.left) \/ (y \in Types /\ hook'[y].is # "snp")
      BY <1>1, <1>3, <1>5, <2>1, <2>8
    <3>2. \A y \in report'.restored : y \in Types /\ hook'[y].is # "snp" /\ (Ours(y)' \/ hook'[y] = User(mine'[y]))
      BY <1>1, <1>2, <1>3, <1>5, <2>2, <2>6, <2>8
    <3>3. report'.restored \subseteq report'.removed
      BY <1>3, <2>2
    <3> QED
      BY <1>1, <1>5, <2>1, <3>1, <3>2, <3>3 DEF ReportInv, ReportTrue, IsSnpHook
  <2> QED
    BY <2>3, <2>4, <2>7, <2>9 DEF InstallInv
<1> QED
  BY <1>4, <1>5 DEF RestoreHook, Unchanged

\* The command returns; old backups are cleaned, with what they held.
LEMMA DoneStep == ASSUME InstallInv, Done PROVE InstallInv'
<1> USE FilesApart
<1>1. /\ at = "next" /\ at' = "idle" /\ job.left = << >> /\ report \in ReportType /\ job \in JobType
      /\ job.kind \in {"install", "uninstall"} /\ UNCHANGED <<hook, cut, edits>>
      /\ report' = [report EXCEPT !.ended = job.kind] /\ job' = [Idle EXCEPT !.asked = job.asked]
  BY DEF Done, Unchanged, InstallInv, InstallTypes, JobInv, JobType
<1>2. /\ report' \in ReportType /\ report'.ended = job.kind /\ report'.removed = report.removed
      /\ report'.restored = report.restored /\ report'.warned = report.warned
      /\ report'.backedUp = report.backedUp /\ report'.installed = report.installed
      /\ job' \in JobType /\ job'.asked = job.asked
  BY <1>1 DEF ReportType, JobType, Idle
<1>3. /\ legacy' \in [Types -> HookFiles] /\ mine' \in [Types -> Nat] /\ aged' \subseteq Types
      /\ \A y \in Types : \/ mine'[y] = 0
                          \/ mine'[y] = mine[y] /\ (legacy'[y] = legacy[y] \/ hook[y] = User(mine[y]))
      /\ \A y \in Types : legacy'[y].is # "snp"
  <2>1. CASE job.clean
    <3>1. CleanupBackups /\ legacy \in [Types -> HookFiles] /\ mine \in [Types -> Nat] /\ \A y \in Types : legacy[y].is # "snp"
      BY <2>1 DEF Done, InstallInv, InstallTypes, FileInv
    <3> QED
      BY <3>1 DEF CleanupBackups
  <2>2. CASE ~job.clean
    BY <2>2 DEF Done, InstallInv, InstallTypes, FileInv
  <2> QED
    BY <2>1, <2>2
<1>4. \A y : y \notin ToSet(job.left)
  BY <1>1 DEF ToSet
<1>5. InstallTypes'
  BY <1>1, <1>2, <1>3 DEF InstallInv, InstallTypes
<1>6. \A y \in job.asked : y \in report.warned \/ y \in Types
  BY <1>1, <1>4 DEF InstallInv, ReportInv
<1>7. KeptInv'
  <2>1. ASSUME NEW y \in Types, ~Ours(y)'
        PROVE  /\ hook'[y] = User(mine'[y]) \/ legacy'[y] = User(mine'[y])
               /\ hook'[y].is = "user" => hook'[y] = User(mine'[y])
    <3>1. ~Ours(y) /\ mine'[y] = mine[y] /\ (legacy'[y] = legacy[y] \/ hook[y] = User(mine[y]))
      BY <1>1, <1>3, <2>1 DEF Ours
    <3> QED
      BY <1>1, <3>1 DEF InstallInv, KeptInv
  <2> QED
    BY <1>1, <2>1 DEF KeptInv
<1>8. JobInv' /\ FileInv' /\ ReportInv'
  BY <1>1, <1>2, <1>3 DEF JobInv, FileInv, ReportInv
<1>9. ReportTrue'
  <2>1. CASE job.kind = "install"
    BY <1>1, <1>2, <1>4, <2>1 DEF InstallInv, ReportInv, ReportTrue, IsSnpHook
  <2>2. CASE job.kind = "uninstall"
    <3>1. \A y \in job.asked : ~IsSnpHook(y)
      BY <1>1, <1>4, <2>2 DEF InstallInv, ReportInv
    <3>2. \A y \in report.restored : y \in Types /\ (Ours(y) \/ hook[y] = User(mine[y]))
      BY <1>1, <2>2 DEF InstallInv, ReportInv
    <3>3. \A y \in report.restored : mine'[y] # 0 /\ y \notin cut' => hook'[y] = User(mine'[y])
      BY <1>1, <1>3, <3>2 DEF Ours
    <3>4. report.restored \subseteq report.removed
      BY <1>1, <2>2 DEF InstallInv, ReportInv
    <3> QED
      BY <1>1, <1>2, <2>2, <3>1, <3>3, <3>4 DEF ReportTrue, IsSnpHook
  <2> QED
    BY <1>1, <2>1, <2>2
<1> QED
  BY <1>5, <1>7, <1>8, <1>9 DEF InstallInv

\* git.rs renames the user's hook instead of copying it.
LEMMA RenameStep ==
  ASSUME InstallInv, NEW y \in Types, GitInstallHook(y)
  PROVE  InstallInv'
<1> USE FilesApart
<1>1. /\ at = "idle" /\ at' = "write" /\ UNCHANGED <<mine, edits>>
      /\ job' = [Idle EXCEPT !.kind = "install", !.left = <<y>>, !.asked = {y}]
      /\ report' = [Nothing EXCEPT !.ended = "running"]
      /\ hook \in [Types -> HookFiles] /\ legacy \in [Types -> HookFiles]
  BY DEF GitInstallHook, InstallInv, InstallTypes
<1>2. /\ job'.kind = "install" /\ job'.left = <<y>> /\ job'.asked = {y} /\ Current' = y /\ job' \in JobType
  <2>1. <<y>> \in Seq(Lists) /\ {y} \subseteq Lists
    BY DEF Lists
  <2> QED
    <3>1. job'.kind = "install" /\ job'.left = <<y>> /\ job'.asked = {y}
      BY <1>1 DEF Idle
    <3>2. job' \in JobType
      BY <1>1, <2>1 DEF JobType, Idle
    <3> QED
      BY <3>1, <3>2 DEF Current
<1>3. /\ report' \in ReportType /\ report'.ended = "running" /\ report'.restored = {} /\ report'.backedUp = {}
  BY <1>1 DEF ReportType, Nothing
<1>4. \/ UNCHANGED <<hook, legacy, aged, cut>> /\ hook[y].is \in {"none", "snp"}
      \/ /\ legacy' = [legacy EXCEPT ![y] = hook[y]] /\ aged' = aged \ {y} /\ hook' = [hook EXCEPT ![y] = NoFile]
         /\ cut' = IF hook[y] = Torn THEN cut \union {y} ELSE cut
         /\ hook[y].is \in {"user", "torn"}
  BY <1>1 DEF GitInstallHook, Exists, IsSnpHook, Spoil
<1>5. InstallTypes'
  <2>1. hook' \in [Types -> HookFiles] /\ legacy' \in [Types -> HookFiles] /\ aged' \subseteq Types /\ cut' \subseteq Types
    BY <1>1, <1>4 DEF InstallInv, InstallTypes
  <2> QED
    BY <1>1, <1>2, <1>3, <2>1 DEF InstallInv, InstallTypes
<1>6. JobInv' /\ ReportInv' /\ ReportTrue'
  <2>1. y \in ToSet(<<y>>)
    BY DEF ToSet
  <2> QED
    BY <1>1, <1>2, <1>3, <2>1 DEF JobInv, ReportInv, ReportTrue
<1>7. FileInv'
  BY <1>1, <1>4 DEF InstallInv, FileInv
<1>8. KeptInv'
  <2>1. ASSUME NEW z \in Types, ~Ours(z)'
        PROVE  /\ hook'[z] = User(mine'[z]) \/ legacy'[z] = User(mine'[z])
               /\ hook'[z].is = "user" => hook'[z] = User(mine'[z])
               /\ z = y => legacy'[z] = User(mine'[z])
    <3>1. ~Ours(z) /\ mine[z] \in Nat
      BY <1>1, <1>4, <2>1 DEF Ours, InstallInv, InstallTypes
    <3>2. /\ hook[z] = User(mine[z]) \/ legacy[z] = User(mine[z])
          /\ hook[z].is = "user" => hook[z] = User(mine[z])
      BY <3>1 DEF InstallInv, KeptInv
    <3>3. z = y /\ hook[z].is = "torn" => legacy'[z] = legacy[z] /\ hook' = hook
      BY <1>1, <1>4, <2>1 DEF Ours
    <3> QED
      BY <1>1, <1>4, <3>1, <3>2, <3>3
  <2> QED
    BY <1>2, <2>1 DEF KeptInv
<1> QED
  BY <1>5, <1>6, <1>7, <1>8 DEF InstallInv

\* Nothing happens to the hooks.
LEMMA InstallStutter == ASSUME InstallInv, UNCHANGED installVars PROVE InstallInv'
BY DEF InstallInv, InstallTypes, JobInv, FileInv, KeptInv, ReportInv, ReportTrue, Ours, Current, IsSnpHook, installVars

\* Every step keeps the invariant.
LEMMA InstallKeeps == InstallInv /\ [InstallNext]_installVars => InstallInv'
<1> SUFFICES ASSUME InstallInv, [InstallNext]_installVars PROVE InstallInv'
  OBVIOUS
<1>1. CASE InstallStep
  BY <1>1, EndStep, InstallOneStep, BackupStep, WriteStep, UninstallOneStep, RestoreStep, DoneStep DEF InstallStep
<1>2. CASE \E y \in Types : UserWrites(y) \/ UserDeletes(y) \/ GitInstallHook(y)
  BY <1>2, UserStep, RenameStep
<1>3. CASE MonthPasses
  <2>1. "pre-commit" \in Types
    BY InstallAssumption
  <2> QED
    BY <1>3, <2>1, UserStep
<1>4. CASE \/ \E ts \in TypeLists, o, b, r \in BOOLEAN : InstallHooks(ts, o, b, r)
           \/ \E ts \in TypeLists, r, c \in BOOLEAN : UninstallHooks(ts, r, c)
  BY <1>4, BeginStep
<1> QED
  BY <1>1, <1>2, <1>3, <1>4, EndStep, InstallStutter DEF InstallNext

\* Whenever install, uninstall or git.rs' install_hook is killed, the user's latest hook
\* is the hook or its backup.
THEOREM HookSurvives == InstallSpec => []UserHookKept
<1>1. InstallInv => UserHookKept
  BY DEF InstallInv, KeptInv, UserHookKept, Ours
<1> QED
  BY InitInstall, InstallKeeps, <1>1, PTL DEF InstallSpec

\* What install and uninstall (install.rs) report is what they have done.
THEOREM InstallReportsTrue == InstallSpec => []ReportTrue
<1>1. InstallInv => ReportTrue
  BY DEF InstallInv
<1> QED
  BY InitInstall, InstallKeeps, <1>1, PTL DEF InstallSpec

-----------------------------------------------------------------------------
(* Autoupdate.                                                               *)

\* Until the file is truncated it is the last complete one, and then its backup is.
UpdateInv ==
  restarted \/ /\ before \in {yaml, backup}
               /\ stage \in {"check", "backup", "copy", "rewrite", "truncate"} => yaml = before
               /\ stage \in {"rewrite", "truncate", "fill"} => backup = before

LEMMA UpdateKeeps == UpdateInv /\ [UpdateNext]_updateVars => UpdateInv'
<1> SUFFICES ASSUME UpdateInv, [UpdateNext]_updateVars PROVE UpdateInv'
  OBVIOUS
<1> USE DEF UpdateInv
<1>1. ASSUME NEW sp, NEW d \in BOOLEAN, ExecuteAutoupdate(sp, d) PROVE UpdateInv'
  BY <1>1 DEF ExecuteAutoupdate
<1>2. CASE Check
  <2>1. stage = "check" /\ stage' \in {"check", "backup"} /\ UNCHANGED <<yaml, backup, before, restarted>>
    BY <1>2 DEF Check, Reads
  <2> QED
    BY <2>1
<1>3. CASE CreateBackup
  BY <1>3 DEF CreateBackup, Reads
<1>4. CASE Rewrite
  BY <1>4 DEF Rewrite, Reads
<1>5. CASE Truncate
  BY <1>5 DEF Truncate, Reads
<1>6. CASE Fill
  BY <1>6 DEF Fill
<1>7. CASE ReportUpdates \/ Expire \/ Die
  BY <1>7 DEF ReportUpdates, Expire, Die, Reads
<1>8. CASE UNCHANGED updateVars
  BY <1>8 DEF updateVars
<1> QED
  BY <1>1, <1>2, <1>3, <1>4, <1>5, <1>6, <1>7, <1>8 DEF UpdateNext, UpdateStep

\* Whenever autoupdate is killed, the last complete configuration is the file or its
\* backup, unless a run began on a file cut short that parses.
THEOREM ConfigurationSurvives == UpdateSpec => []ConfigurationRecoverable
<1>1. UpdateInit => UpdateInv
  BY DEF UpdateInit, UpdateInv
<1>2. UpdateInv => ConfigurationRecoverable
  BY DEF UpdateInv, ConfigurationRecoverable
<1> QED
  BY <1>1, <1>2, UpdateKeeps, PTL DEF UpdateSpec

\* The user's files survive install, uninstall and autoupdate, killed wherever they may
\* be: the git hook is the hook or its backup, the configuration the file or its backup.
THEOREM FilesSurvive == InstallSpec /\ UpdateSpec => []UserFilesKept
BY HookSurvives, ConfigurationSurvives, PTL DEF UserFilesKept

-----------------------------------------------------------------------------
(* Maintenance: clean and gc.                                                *)

CleanTypes ==
  /\ stamp \in [Kinds -> [Items -> Nat]] /\ now \in Nat \ {0} /\ listed \subseteq Items
  /\ gone \in [Kinds -> SUBSET Items] /\ DOMAIN counts = Kinds /\ counts = [k \in Kinds |-> counts[k]]
  /\ cleaning \in [which : SUBSET Kinds, older : {<< >>, <<MaxAge>>}, dry : BOOLEAN,
                   left : SUBSET Kinds, step : {"rest", "list", "remove"}]

\* Only the kinds asked for are left, and what is counted is what is gone.
CleanInv ==
  /\ CleanTypes
  /\ cleaning.step = "remove" => ~cleaning.dry
  /\ cleaning.dry => \A k \in Kinds : gone[k] = {}
  /\ \A k \in cleaning.left : Selected(k, cleaning.which)
  /\ \A k \in Kinds : ~Selected(k, cleaning.which) => gone[k] = {} /\ counts[k] = 0
  /\ ~cleaning.dry => \A k \in Kinds : cleaning.older # << >> \/ k = "temp" => counts[k] = Cardinality(gone[k])

LEMMA InitClean == CleanInit => CleanInv
<1>1. Cardinality({}) = 0
  BY FS_EmptySet
<1> QED
  BY <1>1 DEF CleanInit, CleanInv, CleanTypes, NoClean, NoCounts, Selected

\* The kind that is next is one of those left.
LEMMA KindLeft == ASSUME CleanInv, cleaning.left # {} PROVE Kind \in cleaning.left /\ Kind \in Kinds
<1>1. cleaning.left \subseteq Kinds
  BY DEF CleanInv, CleanTypes
<1> QED
  BY <1>1 DEF Kind, Kinds

\* One kind is cleaned: some of its entries go.
LEMMA KindCleaned ==
  ASSUME CleanInv, NEW out \in SUBSET Items, NEW n, cleaning.left # {}, ~cleaning.dry,
         stamp' = [stamp EXCEPT ![Kind] = [i \in Items |-> IF i \in out THEN 0 ELSE @[i]]],
         gone' = [gone EXCEPT ![Kind] = out],
         counts' = [counts EXCEPT ![Kind] = n],
         cleaning.older # << >> \/ Kind = "temp" => n = Cardinality(out),
         NextKind, UNCHANGED <<now, listed>>
  PROVE  CleanInv'
<1>1. Kind \in cleaning.left /\ Kind \in Kinds /\ cleaning.left \subseteq Kinds
  BY KindLeft DEF CleanInv, CleanTypes
<1>2. /\ cleaning' = [cleaning EXCEPT !.left = @ \ {Kind}, !.step = "list"]
      /\ cleaning'.which = cleaning.which /\ cleaning'.older = cleaning.older /\ cleaning'.dry = cleaning.dry
      /\ cleaning'.left = cleaning.left \ {Kind} /\ cleaning'.step = "list"
  BY DEF CleanInv, CleanTypes, NextKind
<1>3. /\ gone' \in [Kinds -> SUBSET Items] /\ stamp' \in [Kinds -> [Items -> Nat]]
      /\ DOMAIN counts' = Kinds /\ counts' = [k \in Kinds |-> counts'[k]]
      /\ \A k \in Kinds : /\ gone'[k] = IF k = Kind THEN out ELSE gone[k]
                          /\ counts'[k] = IF k = Kind THEN n ELSE counts[k]
  <2>1. gone \in [Kinds -> SUBSET Items] /\ stamp \in [Kinds -> [Items -> Nat]] /\ DOMAIN counts = Kinds
        /\ counts = [k \in Kinds |-> counts[k]]
    BY DEF CleanInv, CleanTypes
  <2>2. [i \in Items |-> IF i \in out THEN 0 ELSE stamp[Kind][i]] \in [Items -> Nat]
    BY <1>1, <2>1
  <2> QED
    BY <1>1, <2>1, <2>2
<1>4. CleanTypes'
  BY <1>1, <1>2, <1>3 DEF CleanInv, CleanTypes
<1>5. \A k : Selected(k, cleaning'.which) <=> Selected(k, cleaning.which)
  BY <1>2
<1> QED
  BY <1>1, <1>2, <1>3, <1>4, <1>5 DEF CleanInv

LEMMA CleanKeeps == CleanInv /\ [CleanNext]_cleanVars => CleanInv'
<1> SUFFICES ASSUME CleanInv, [CleanNext]_cleanVars PROVE CleanInv'
  OBVIOUS
<1>1. ASSUME NEW k \in Kinds, NEW i \in Items, Use(k, i) PROVE CleanInv'
  BY <1>1 DEF Use, CleanInv, CleanTypes, Selected
<1>2. CASE Pass
  BY <1>2 DEF Pass, CleanInv, CleanTypes, Selected
<1>3. ASSUME NEW w \in SUBSET Kinds, NEW o \in {<< >>, <<MaxAge>>}, NEW d \in BOOLEAN, ExecuteCleanup(w, o, d)
      PROVE  CleanInv'
  <2>1. Cardinality({}) = 0
    BY FS_EmptySet
  <2> QED
    BY <1>3, <2>1 DEF ExecuteCleanup, CleanInv, CleanTypes, NoCounts, Selected
<1>4. CASE CleanDry
  <2>1. Kind \in cleaning.left /\ Kind \in Kinds /\ cleaning.left \subseteq Kinds
    BY <1>4, KindLeft DEF CleanDry, CleanInv, CleanTypes
  <2>2. /\ cleaning'.which = cleaning.which /\ cleaning'.older = cleaning.older /\ cleaning'.dry = cleaning.dry
        /\ cleaning'.left = cleaning.left \ {Kind} /\ cleaning'.step = "list" /\ cleaning.dry
        /\ cleaning' \in [which : SUBSET Kinds, older : {<< >>, <<MaxAge>>}, dry : BOOLEAN,
                          left : SUBSET Kinds, step : {"rest", "list", "remove"}]
    BY <1>4, <2>1 DEF CleanDry, CleanInv, CleanTypes, NextKind
  <2>3. /\ DOMAIN counts' = Kinds /\ counts' = [k \in Kinds |-> counts'[k]]
        /\ \A k \in Kinds : k # Kind => counts'[k] = counts[k]
    BY <1>4, <2>1 DEF CleanDry, CleanInv, CleanTypes
  <2>4. CleanTypes'
    BY <1>4, <2>2, <2>3 DEF CleanDry, CleanInv, CleanTypes
  <2>5. \A k : Selected(k, cleaning'.which) <=> Selected(k, cleaning.which)
    BY <2>2
  <2> QED
    BY <1>4, <2>1, <2>2, <2>3, <2>4, <2>5 DEF CleanDry, CleanInv
<1>5. CASE CleanStored
  <2>1. Kind \in cleaning.left /\ Kind \in Kinds /\ cleaning.left \subseteq Kinds /\ Kind # "temp" /\ ~cleaning.dry
    BY <1>5, KindLeft DEF CleanStored, CleanInv, CleanTypes
  <2>2. CASE cleaning.step = "list" /\ cleaning.older = << >>
    <3>1. /\ counts' = [counts EXCEPT ![Kind] = Cardinality(Present(Kind))]
          /\ cleaning' = [cleaning EXCEPT !.step = "remove"] /\ UNCHANGED <<stamp, now, gone>>
          /\ listed' \subseteq Items
      BY <1>5, <2>2 DEF CleanStored, Present
    <3>2. /\ cleaning'.which = cleaning.which /\ cleaning'.older = cleaning.older /\ cleaning'.dry = cleaning.dry
          /\ cleaning'.left = cleaning.left
          /\ cleaning' \in [which : SUBSET Kinds, older : {<< >>, <<MaxAge>>}, dry : BOOLEAN,
                            left : SUBSET Kinds, step : {"rest", "list", "remove"}]
      BY <3>1 DEF CleanInv, CleanTypes
    <3>3. /\ DOMAIN counts' = Kinds /\ counts' = [k \in Kinds |-> counts'[k]]
          /\ \A k \in Kinds : k # Kind => counts'[k] = counts[k]
      BY <3>1 DEF CleanInv, CleanTypes
    <3>4. CleanTypes'
      BY <3>1, <3>2, <3>3 DEF CleanInv, CleanTypes
    <3>5. \A k : Selected(k, cleaning'.which) <=> Selected(k, cleaning.which)
      BY <3>2
    <3> QED
      BY <2>1, <2>2, <3>1, <3>2, <3>3, <3>4, <3>5 DEF CleanInv
  <2>3. CASE cleaning.step = IF cleaning.older = << >> THEN "remove" ELSE "list"
    <3> DEFINE out == Old(Kind, IF cleaning.older = << >> THEN 0 ELSE cleaning.older[1])
    <3>1. /\ stamp' = [stamp EXCEPT ![Kind] = [i \in Items |-> IF i \in out THEN 0 ELSE @[i]]]
          /\ gone' = [gone EXCEPT ![Kind] = out] /\ NextKind /\ UNCHANGED <<now, listed>>
          /\ counts' = IF cleaning.older = << >> THEN counts ELSE [counts EXCEPT ![Kind] = Cardinality(out)]
      BY <1>5, <2>3 DEF CleanStored
    <3>2. out \in SUBSET Items
      BY DEF Old, Present
    <3> HIDE DEF out
    <3>3. counts = [counts EXCEPT ![Kind] = counts[Kind]]
      BY <2>1 DEF CleanInv, CleanTypes
    <3>4. CASE cleaning.older = << >>
      BY <2>1, <3>1, <3>2, <3>3, <3>4, KindCleaned
    <3>5. CASE cleaning.older # << >>
      BY <2>1, <3>1, <3>2, <3>5, KindCleaned
    <3> QED
      BY <3>4, <3>5
  <2> QED
    BY <1>5, <2>2, <2>3 DEF CleanStored
<1>6. ASSUME NEW d \in SUBSET Items, CleanTempFiles(d) PROVE CleanInv'
  <2>1. CASE cleaning.step = "list"
    <3>1. /\ cleaning' = [cleaning EXCEPT !.step = "remove"] /\ UNCHANGED <<stamp, now, gone, counts>> /\ ~cleaning.dry
          /\ listed' \subseteq Items
      BY <1>6, <2>1 DEF CleanTempFiles, Chosen, Present, Old
    <3>2. /\ cleaning'.which = cleaning.which /\ cleaning'.older = cleaning.older /\ cleaning'.dry = cleaning.dry
          /\ cleaning'.left = cleaning.left
          /\ cleaning' \in [which : SUBSET Kinds, older : {<< >>, <<MaxAge>>}, dry : BOOLEAN,
                            left : SUBSET Kinds, step : {"rest", "list", "remove"}]
      BY <3>1 DEF CleanInv, CleanTypes
    <3> QED
      <4>1. CleanTypes'
        BY <3>1, <3>2 DEF CleanInv, CleanTypes
      <4>2. \A k : Selected(k, cleaning'.which) <=> Selected(k, cleaning.which)
        BY <3>2
      <4> QED
        BY <3>1, <3>2, <4>1, <4>2 DEF CleanInv
  <2>2. CASE cleaning.step = "remove"
    <3> DEFINE out == listed \ d
    <3>1. /\ Kind = "temp" /\ cleaning.left # {} /\ NextKind /\ UNCHANGED <<now, listed>>
          /\ stamp' = [stamp EXCEPT ![Kind] = [i \in Items |-> IF i \in out THEN 0 ELSE @[i]]]
          /\ gone' = [gone EXCEPT ![Kind] = out] /\ counts' = [counts EXCEPT ![Kind] = Cardinality(out)]
      BY <1>6, <2>2 DEF CleanTempFiles
    <3>2. out \in SUBSET Items /\ ~cleaning.dry
      BY <2>2 DEF CleanInv, CleanTypes
    <3> QED
      BY <3>1, <3>2, KindCleaned
  <2> QED
    BY <1>6, <2>1, <2>2 DEF CleanTempFiles
<1>7. CASE CleanReturns
  <2>1. /\ cleaning'.which = cleaning.which /\ cleaning'.older = cleaning.older /\ cleaning'.dry = cleaning.dry
        /\ cleaning'.left = cleaning.left /\ cleaning'.step = "rest"
        /\ cleaning' \in [which : SUBSET Kinds, older : {<< >>, <<MaxAge>>}, dry : BOOLEAN,
                          left : SUBSET Kinds, step : {"rest", "list", "remove"}]
    BY <1>7 DEF CleanReturns, CleanInv, CleanTypes
  <2> QED
    <3>1. CleanTypes'
      BY <1>7, <2>1 DEF CleanReturns, CleanInv, CleanTypes
    <3>2. \A k : Selected(k, cleaning'.which) <=> Selected(k, cleaning.which)
      BY <2>1
    <3> QED
      BY <1>7, <2>1, <3>1, <3>2 DEF CleanReturns, CleanInv
<1>8. CASE UNCHANGED cleanVars
  BY <1>8 DEF cleanVars, CleanInv, CleanTypes, Selected
<1>9. {{}, {"repos"}, {"envs", "temp"}, Kinds} \subseteq SUBSET Kinds
  BY DEF Kinds
<1>10. CASE CleanNext
  BY <1>1, <1>2, <1>3, <1>4, <1>5, <1>6, <1>7, <1>9, <1>10 DEF CleanNext, CleanStep, ExecuteGc
<1> QED
  BY <1>8, <1>10

LEMMA CleanAlways == CleanSpec => []CleanInv
BY InitClean, CleanKeeps, PTL DEF CleanSpec

\* clean and gc touch only the kinds asked for, a dry run touches nothing, and what is
\* counted is what was removed.
THEOREM CleanupCounts == CleanSpec => []CleanupExact
<1>1. CleanInv => CleanupExact
  BY DEF CleanInv, CleanupExact
<1> QED
  BY CleanAlways, <1>1, PTL

\* What clean takes away was not used within the age asked for, whatever other
\* processes use meanwhile.
THEOREM CleanupSparesUsed == CleanSpec => OnlyOldRemoved
<1>1. ASSUME CleanInv, CleanNext, NEW k \in {"repos", "envs"}, NEW i \in Items, stamp[k][i] # 0, stamp'[k][i] = 0
      PROVE  stamp[k][i] < now - (IF cleaning.older = << >> THEN 0 ELSE cleaning.older[1])
  <2>1. k \in Kinds /\ k # "temp" /\ stamp \in [Kinds -> [Items -> Nat]]
    BY <1>1 DEF Kinds, CleanInv, CleanTypes
  <2>2. CleanStored
    <3>1. ~(UNCHANGED stamp)
      BY <1>1
    <3>2. ASSUME NEW l \in Kinds, NEW j \in Items, Use(l, j) PROVE FALSE
      <4>1. stamp' = [stamp EXCEPT ![l][j] = now] /\ now # 0
        BY <1>1, <3>2 DEF Use, CleanInv, CleanTypes
      <4> QED
        BY <1>1, <2>1, <4>1
    <3>3. ASSUME NEW d \in SUBSET Items, CleanTempFiles(d) PROVE FALSE
      <4>1. stamp'[k] = stamp[k]
        BY <2>1, <3>3 DEF CleanTempFiles
      <4> QED
        BY <1>1, <4>1
    <3> QED
      BY <1>1, <3>1, <3>2, <3>3 DEF CleanNext, CleanStep, Pass, ExecuteGc, ExecuteCleanup, CleanDry, CleanReturns
  <2>3. stamp' = [stamp EXCEPT ![Kind] = [j \in Items |->
                    IF j \in Old(Kind, IF cleaning.older = << >> THEN 0 ELSE cleaning.older[1]) THEN 0 ELSE @[j]]]
    BY <1>1, <2>2 DEF CleanStored
  <2>4. k = Kind
    BY <1>1, <2>1, <2>3
  <2>5. i \in Old(k, IF cleaning.older = << >> THEN 0 ELSE cleaning.older[1])
    BY <1>1, <2>1, <2>3, <2>4
  <2> QED
    BY <2>5 DEF Old
<1>2. CleanInv /\ [CleanNext]_cleanVars =>
        [\A k \in {"repos", "envs"}, i \in Items : stamp[k][i] # 0 /\ stamp'[k][i] = 0 =>
           stamp[k][i] < now - (IF cleaning.older = << >> THEN 0 ELSE cleaning.older[1])]_cleanVars
  BY <1>1
<1> QED
  BY CleanAlways, <1>2, PTL DEF CleanSpec, OnlyOldRemoved

-----------------------------------------------------------------------------
(* GitFiles: what git answers.                                               *)

\* A kept answer that is no longer right was so when it was kept.
Kept == {<<r>> : r \in [files : SUBSET Files, at : Nat]}
GitInv ==
  /\ clock \in Nat /\ since \in [Queries -> Nat] /\ cache \in [Queries -> {<< >>} \union Kept]
  /\ \A k \in Queries : cache[k] # << >> =>
        /\ cache[k][1].at <= clock
        /\ cache[k][1].files # Queried(k) => cache[k][1].at <= since[k]
  /\ answer.of # "none" => answer.of \in Queries /\ answer.wrong <= CacheTTL(answer.of)

LEMMA KeptAnswer ==
  /\ \A c \in {<< >>} \union Kept : c # << >> => c[1].files \in SUBSET Files /\ c[1].at \in Nat
  /\ \A fs \in SUBSET Files, t \in Nat : <<[files |-> fs, at |-> t]>> \in Kept
<1>1. \A c \in {<< >>} \union Kept : c # << >> => c[1].files \in SUBSET Files /\ c[1].at \in Nat
  BY DEF Kept
<1>2. ASSUME NEW fs \in SUBSET Files, NEW t \in Nat
      PROVE  <<[files |-> fs, at |-> t]>> \in Kept
  <2>1. [files |-> fs, at |-> t] \in [files : SUBSET Files, at : Nat]
    OBVIOUS
  <2> QED
    BY <2>1 DEF Kept
<1> QED
  BY <1>1, <1>2

\* The times to live are numbers.
LEMMA TimesToLive == \A k \in Queries : CacheTTL(k) \in Nat
BY GitAssumption DEF CacheTTL

\* The repository changes: answers that have become wrong are dated.
LEMMA ChangeKeeps ==
  ASSUME GitInv, NEW f, NEW r, ChangeRepo(f, r)
  PROVE  GitInv'
<1>1. UNCHANGED <<clock, cache, answer>> /\ Date
  BY DEF ChangeRepo
<1>2. since' = [k \in Queries |-> since'[k]] /\ \A k \in Queries :
        /\ since'[k] \in Nat
        /\ cache[k] # << >> /\ cache[k][1].files # Queried(k)' =>
              since'[k] = IF cache[k][1].files = Queried(k) THEN clock ELSE since[k]
  BY <1>1 DEF Date, GitInv
<1>3. \A k \in Queries : cache[k] # << >> /\ cache[k][1].files # Queried(k)' => cache[k][1].at <= since'[k]
  BY <1>1, <1>2 DEF GitInv
<1>4. \A k : CacheTTL(k)' = CacheTTL(k)
  BY DEF CacheTTL
<1> QED
  BY <1>1, <1>2, <1>3, <1>4 DEF GitInv

\* A query answers from what is kept or from the repository.
LEMMA QueryKeeps ==
  ASSUME GitInv, NEW k \in Queries, Query(k)
  PROVE  GitInv'
<1>1. UNCHANGED <<repo, clock>> /\ \A l : CacheTTL(l)' = CacheTTL(l) /\ Queried(l)' = Queried(l)
  BY DEF Query, CacheTTL, Queried, Staged, Indexed, IsStaged, Status
<1>2. k # "none" /\ CacheTTL(k) \in Nat
  BY TimesToLive DEF Queries
<1>3. Queried(k) \in SUBSET Files
  BY DEF Queried, Staged, Indexed
<1>4. CASE Fresh(k)
  <2>1. UNCHANGED <<cache, since>> /\ Answer(k, cache[k][1].files)
    BY <1>4 DEF Query
  <2>2. cache[k] # << >> /\ clock - cache[k][1].at < CacheTTL(k) /\ cache[k][1].at \in Nat /\ clock \in Nat /\ since[k] \in Nat
    BY <1>4, KeptAnswer DEF Fresh, GitInv
  <2>3. cache[k][1].files # Queried(k) => cache[k][1].at <= since[k]
    BY <2>2 DEF GitInv
  <2>4. Wrong(k, cache[k][1].files) <= CacheTTL(k)
    BY <1>2, <2>2, <2>3 DEF Wrong
  <2>5. answer'.of = k /\ answer'.wrong = Wrong(k, cache[k][1].files)
    BY <2>1 DEF Answer
  <2> QED
    BY <1>1, <2>1, <2>4, <2>5 DEF GitInv
<1>5. CASE ~Fresh(k)
  <2>1. /\ cache' = [cache EXCEPT ![k] = <<[files |-> Queried(k), at |-> clock]>>]
        /\ since' = [since EXCEPT ![k] = 0] /\ Answer(k, Queried(k))
    BY <1>5 DEF Query
  <2>2. <<[files |-> Queried(k), at |-> clock]>> \in Kept
    <3>1. clock \in Nat
      BY DEF GitInv
    <3> QED
      BY <1>3, <3>1, KeptAnswer
  <2>3. cache' \in [Queries -> {<< >>} \union Kept] /\ since' \in [Queries -> Nat]
    BY <2>1, <2>2 DEF GitInv
  <2>4. \A l \in Queries : cache'[l] # << >> =>
          cache'[l][1].at <= clock /\ (cache'[l][1].files # Queried(l) => cache'[l][1].at <= since'[l])
    <3>1. cache'[k][1].files = Queried(k) /\ cache'[k][1].at = clock
      BY <2>1 DEF GitInv
    <3>2. \A l \in Queries : l # k => cache'[l] = cache[l] /\ since'[l] = since[l]
      BY <2>1 DEF GitInv
    <3> QED
      BY <3>1, <3>2 DEF GitInv
  <2>5. answer'.of = k /\ answer'.wrong = 0
    BY <2>1 DEF Answer, Wrong
  <2> QED
    BY <1>1, <1>2, <2>3, <2>4, <2>5 DEF GitInv
<1> QED
  BY <1>4, <1>5

LEMMA GitKeeps == GitInv /\ [GitNext]_gitVars => GitInv'
<1> SUFFICES ASSUME GitInv, [GitNext]_gitVars PROVE GitInv'
  OBVIOUS
<1>1. CASE \E f \in Files : (\E v \in 0 .. 2 : Edit(f, v)) \/ Add(f) \/ Reset(f) \/ Commit(f)
  BY <1>1, ChangeKeeps DEF Edit, Add, Reset, Commit
<1>2. CASE StagedFiles \/ AllFiles
  <2>1. {"staged_files", "all_files"} \subseteq Queries
    BY DEF Queries
  <2> QED
    BY <1>2, <2>1, QueryKeeps DEF StagedFiles, AllFiles
<1>3. CASE Tick \/ UNCHANGED gitVars
  <2>1. UNCHANGED <<repo, cache, since, answer>> /\ (clock' = clock + 1 \/ clock' = clock)
    BY <1>3 DEF Tick, gitVars
  <2>2. \A l : CacheTTL(l)' = CacheTTL(l) /\ Queried(l)' = Queried(l)
    BY <2>1 DEF CacheTTL, Queried, Staged, Indexed, IsStaged, Status
  <2>3. \A k \in Queries : cache[k] # << >> => cache[k][1].at \in Nat
    BY KeptAnswer DEF GitInv
  <2> QED
    BY <2>1, <2>2, <2>3 DEF GitInv
<1> QED
  BY <1>1, <1>2, <1>3 DEF GitNext

\* staged_files and all_files (git.rs) never give an answer that the repository has
\* not had for longer than the answer's time to live.
THEOREM AnswersAreFresh == GitSpec => []AnswersFresh
<1>1. GitInit => GitInv
  BY DEF GitInit, GitInv
<1>2. GitInv => AnswersFresh
  BY DEF GitInv, AnswersFresh
<1> QED
  BY <1>1, <1>2, GitKeeps, PTL DEF GitSpec

\* Whatever a path is in the trees, the staged files and the staged deletions are what
\* the staged diff has; a clean status leaves only staged deletions; and what a merge
\* could not settle is among the conflicted files.
LEMMA ViewsAlwaysAgree == ViewsAgree
<1>1. Diff("head", "index") = Staged \union {f \in Files : "INDEX_DELETED" \in Status(f)}
  BY DEF Diff, Staged, IsStaged, Status
<1>2. DiffStaged.files_changed = Cardinality({f \in Files : DiffFile(f, TRUE) # << >>})
  <2>1. {f \in Files : DiffFile(f, TRUE) # << >>} = Diff("head", "index")
    BY DEF DiffFile, Diff
  <2> QED
    BY <2>1 DEF DiffStaged
<1>3. DiffWorkingTree.files_changed = Cardinality({f \in Files : DiffFile(f, FALSE) # << >>})
  <2>1. {f \in Files : DiffFile(f, FALSE) # << >>} = Diff("index", "work") \ Untracked
    BY DEF DiffFile, Diff
  <2> QED
    BY <2>1 DEF DiffWorkingTree
<1>4. ASSUME ~RepositoryStatus.is_dirty, NEW f \in Files, repo[f].head # repo[f].work
      PROVE  Status(f) = {"INDEX_DELETED"}
  <2>1. Staged = {} /\ Unstaged = {} /\ Untracked = {}
    BY <1>4 DEF RepositoryStatus, StagedFilesDetailed
  <2>2. /\ "WT_NEW" \notin Status(f) /\ ~IsStaged(f)
        /\ "WT_MODIFIED" \notin Status(f) /\ "WT_DELETED" \notin Status(f)
    BY <2>1 DEF Staged, Unstaged, Untracked
  <2>3. ~(repo[f].index = 0 /\ repo[f].work # 0) /\ (repo[f].index # 0 => repo[f].index = repo[f].work)
    BY <2>2 DEF Status
  <2>4. repo[f].index # 0 => repo[f].head = repo[f].index
    BY <2>2 DEF IsStaged, Status
  <2>5. repo[f].index = 0 /\ repo[f].work = 0 /\ repo[f].head # 0
    BY <1>4, <2>3, <2>4
  <2> QED
    BY <2>5 DEF Status
<1>5. (IsMergeConflict => Unmerged \subseteq ConflictedFiles) /\ (ConflictedFiles # {} => IsMergeConflict)
  BY DEF ConflictedFiles, ParseMergeMsg
<1> QED
  BY <1>1, <1>2, <1>3, <1>4, <1>5 DEF ViewsAgree

\* So it is in every state.
THEOREM ViewsOfGitAgree == GitSpec => []ViewsAgree
BY ViewsAlwaysAgree, PTL

-----------------------------------------------------------------------------
(* Sequences whose elements need no type.                                    *)

Listed(s) == \E S : s \in Seq(S)

\* Every nonempty set of naturals has a least member.
LEMMA LeastNatural ==
  ASSUME NEW S, S \subseteq Nat, S # {}
  PROVE  \E m \in S : \A k \in S : m <= k
<1>1. \E m \in S : \A k \in S : ~ (<<k, m>> \in OpToRel(<, Nat))
  BY NatLessThanWellFounded, WFMin
<1>2. PICK m \in S : \A k \in S : ~ (<<k, m>> \in OpToRel(<, Nat))
  BY <1>1
<1>3. \A k \in S : <<k, m>> \in OpToRel(<, Nat) <=> k < m
  BY DEF OpToRel
<1>4. \A k \in S : k \in Nat /\ m \in Nat /\ ~ (k < m)
  BY <1>2, <1>3
<1>5. \A k \in S : m <= k
  BY <1>4
<1>. QED
  BY <1>2, <1>5
LEMMA ListLen ==
  ASSUME NEW s, Listed(s)
  PROVE  Len(s) \in Nat /\ DOMAIN s = 1..Len(s)
BY DEF Listed

LEMMA ListAppend ==
  ASSUME NEW s, NEW x, Listed(s)
  PROVE  /\ Listed(Append(s, x)) /\ Len(Append(s, x)) = Len(s) + 1
         /\ \A n \in 1..Len(s) : Append(s, x)[n] = s[n]
         /\ Append(s, x)[Len(s) + 1] = x
<1>1. PICK S : s \in Seq(S)
  BY DEF Listed
<1>2. s \in Seq(S \union {x}) /\ x \in S \union {x}
  BY <1>1
<1>3. Append(s, x) \in Seq(S \union {x})
  BY <1>2
<1>4. Listed(Append(s, x))
  BY <1>3 DEF Listed
<1>. QED
  BY <1>2, <1>4

LEMMA ListTable ==
  ASSUME NEW n \in Nat, NEW f, f = [j \in 1..n |-> f[j]]
  PROVE  Listed(f) /\ Len(f) = n
<1> DEFINE S == {f[j] : j \in 1..n}
<1>1. f \in [1..n -> S]
  OBVIOUS
<1>2. f \in Seq(S)
  BY <1>1
<1>3. Len(f) = n
  BY <1>1, <1>2
<1>. QED
  BY <1>2, <1>3 DEF Listed

LEMMA ListTail ==
  ASSUME NEW s, Listed(s), s # <<>>
  PROVE  /\ Listed(Tail(s)) /\ Len(s) # 0 /\ Len(Tail(s)) = Len(s) - 1 /\ Head(s) = s[1]
         /\ \A i \in 1..Len(Tail(s)) : Tail(s)[i] = s[i + 1]
<1>1. PICK S : s \in Seq(S)
  BY DEF Listed
<1>2. Len(s) # 0 /\ Len(Tail(s)) = Len(s) - 1 /\ Head(s) = s[1] /\ Tail(s) \in Seq(S)
  BY <1>1, HeadTailProperties, EmptySeq
<1>3. \A i \in 1..Len(Tail(s)) : Tail(s)[i] = s[i + 1]
  BY <1>1, <1>2
<1>. QED
  BY <1>2, <1>3 DEF Listed

-----------------------------------------------------------------------------
(* Subsequences: the elements at the positions, each of them, and no other.  *)

Ranked(ps, m) ==
  /\ IsFiniteSet(ps) /\ Cardinality(ps) \in Nat
  /\ \A i \in Nat : Rank(ps, i) \in Nat
  /\ Rank(ps, 0) = 0 /\ Rank(ps, m) = Cardinality(ps)
  /\ \A i \in Nat : Rank(ps, i + 1) = IF i + 1 \in ps THEN Rank(ps, i) + 1 ELSE Rank(ps, i)
LEMMA RankSteps ==
  ASSUME NEW m \in Nat, NEW ps, ps \subseteq 1..m
  PROVE  Ranked(ps, m)
<1>0. \A k \in ps : k \in Int /\ 1 <= k /\ k <= m
  <2>1. \A k \in ps : k \in 1..m
    OBVIOUS
  <2>. QED
    BY <2>1
<1>1. IsFiniteSet(1..m)
  BY FS_Interval
<1>2. IsFiniteSet(ps) /\ Cardinality(ps) \in Nat
  BY <1>1, FS_Subset, FS_CardinalityType
<1>3. \A i \in Nat : IsFiniteSet({k \in ps : k <= i})
  BY <1>2, FS_Subset
<1>4. \A i \in Nat : Rank(ps, i) \in Nat
  BY <1>3, FS_CardinalityType DEF Rank
<1>5. Rank(ps, 0) = 0
  <2>0. \A k \in ps : ~ (k <= 0)
    BY <1>0
  <2>1. {k \in ps : k <= 0} = {}
    BY <2>0
  <2>. QED
    BY <2>1, FS_EmptySet DEF Rank
<1>6. Rank(ps, m) = Cardinality(ps)
  <2>0. \A k \in ps : k <= m
    BY <1>0
  <2>1. {k \in ps : k <= m} = ps
    BY <2>0
  <2>. QED
    BY <2>1 DEF Rank
<1>7. ASSUME NEW i \in Nat
      PROVE  Rank(ps, i + 1) = IF i + 1 \in ps THEN Rank(ps, i) + 1 ELSE Rank(ps, i)
  <2> DEFINE S == {k \in ps : k <= i}
  <2>0. \A k \in ps : k <= i + 1 <=> k <= i \/ k = i + 1
    BY <1>0
  <2>1. IsFiniteSet(S) /\ i + 1 \notin S
    BY <1>3
  <2>2. CASE i + 1 \in ps
    <3>1. {k \in ps : k <= i + 1} = S \cup {i + 1}
      BY <2>0, <2>2
    <3>2. Cardinality(S \cup {i + 1}) = Cardinality(S) + 1
      BY <2>1, FS_AddElement
    <3>. QED
      BY <2>2, <3>1, <3>2 DEF Rank
  <2>3. CASE i + 1 \notin ps
    <3>1. {k \in ps : k <= i + 1} = S
      BY <2>0, <2>3
    <3>. QED
      BY <2>3, <3>1 DEF Rank
  <2>. QED
    BY <2>2, <2>3
<1>. QED
  BY <1>2, <1>4, <1>5, <1>6, <1>7 DEF Ranked

\* Every rank up to the number of positions is that of one position alone.
LEMMA RankHit ==
  ASSUME NEW m \in Nat, NEW ps, ps \subseteq 1..m, NEW n \in 1..Cardinality(ps)
  PROVE  \E i \in ps : Rank(ps, i) = n
<1> DEFINE S == {i \in Nat : Rank(ps, i) >= n}
<1>0. /\ Cardinality(ps) \in Nat
      /\ \A i \in Nat : Rank(ps, i) \in Nat
      /\ Rank(ps, 0) = 0 /\ Rank(ps, m) = Cardinality(ps)
      /\ \A i \in Nat : Rank(ps, i + 1) = IF i + 1 \in ps THEN Rank(ps, i) + 1 ELSE Rank(ps, i)
  <2>1. Ranked(ps, m)
    BY RankSteps
  <2>. QED
    BY <2>1 DEF Ranked
<1>1. m \in S
  BY <1>0
<1>2. PICK i \in S : \A k \in S : i <= k
  BY <1>1, LeastNatural
<1>3. i # 0 /\ i - 1 \in Nat /\ Cardinality(ps) \in Nat
  BY <1>0, <1>2
<1>4. Rank(ps, i - 1) < n /\ Rank(ps, i - 1) \in Nat /\ Rank(ps, i) \in Nat
  BY <1>0, <1>2, <1>3
<1>5. Rank(ps, (i - 1) + 1) = IF (i - 1) + 1 \in ps THEN Rank(ps, i - 1) + 1 ELSE Rank(ps, i - 1)
  BY <1>0, <1>3
<1>6. Rank(ps, i) = IF i \in ps THEN Rank(ps, i - 1) + 1 ELSE Rank(ps, i - 1)
  BY <1>5
<1>. QED
  BY <1>2, <1>3, <1>4, <1>6

LEMMA RankOnce ==
  ASSUME NEW m \in Nat, NEW ps, ps \subseteq 1..m, NEW i \in ps
  PROVE  /\ Rank(ps, i) \in 1..Cardinality(ps)
         /\ \A k \in ps : Rank(ps, k) = Rank(ps, i) => k = i
<1>0. Ranked(ps, m)
  BY RankSteps
<1>1. IsFiniteSet(ps) /\ Cardinality(ps) \in Nat
  BY <1>0 DEF Ranked
<1>2. ASSUME NEW k \in ps PROVE Rank(ps, k) \in Nat /\ Rank(ps, k) <= Cardinality(ps)
  <2>1. {j \in ps : j <= k} \in SUBSET ps
    OBVIOUS
  <2>2. IsFiniteSet({j \in ps : j <= k}) /\ Cardinality({j \in ps : j <= k}) <= Cardinality(ps)
    BY <1>1, <2>1, FS_Subset
  <2>. QED
    BY <2>2, FS_CardinalityType DEF Rank
<1>3. ASSUME NEW k \in ps, NEW l \in ps, k < l PROVE Rank(ps, k) < Rank(ps, l)
  <2> DEFINE K == {j \in ps : j <= k}
             L == {j \in ps : j <= l}
  <2>0. /\ k \in Int /\ l \in Int
        /\ \A j \in ps : j \in Int
    <3>1. \A j \in ps : j \in 1..m
      OBVIOUS
    <3>. QED
      BY <3>1
  <2>1. IsFiniteSet(L) /\ K \in SUBSET L /\ l \in L /\ l \notin K
    <3>1. \A j \in ps : j <= k => j <= l
      BY <1>3, <2>0
    <3>2. ~ (l <= k) /\ l <= l
      BY <1>3, <2>0
    <3>. QED
      BY <1>1, <3>1, <3>2, FS_Subset
  <2>2. Cardinality(K) <= Cardinality(L) /\ Cardinality(K) # Cardinality(L)
    BY <2>1, FS_Subset
  <2>3. Rank(ps, k) = Cardinality(K) /\ Rank(ps, l) = Cardinality(L)
    BY DEF Rank
  <2>. QED
    BY <1>2, <2>2, <2>3
<1>4. Rank(ps, i) # 0
  <2>1. i \in {k \in ps : k <= i} /\ IsFiniteSet({k \in ps : k <= i})
    BY <1>1, FS_Subset
  <2>. QED
    BY <2>1, FS_EmptySet DEF Rank
<1>. QED
  BY <1>1, <1>2, <1>3, <1>4

Picked(t, s, ps) ==
  /\ Listed(t) /\ Len(t) = Cardinality(ps) /\ Cardinality(ps) \in Nat
  /\ \A n \in 1..Len(t) : \E i \in ps : t[n] = s[i]
  /\ \A i \in ps : \E n \in 1..Len(t) : t[n] = s[i]
LEMMA SubsequenceOf ==
  ASSUME NEW m \in Nat, NEW s, NEW ps, ps \subseteq 1..m
  PROVE  Picked(Subsequence(s, ps), s, ps)
<1> DEFINE t == Subsequence(s, ps)
<1>1. Cardinality(ps) \in Nat
  BY RankSteps DEF Ranked
<1>2. t = [n \in 1..Cardinality(ps) |-> t[n]]
  BY DEF Subsequence
<1>3. \A n \in 1..Cardinality(ps) : t[n] = s[CHOOSE i \in ps : Rank(ps, i) = n]
  BY DEF Subsequence
<1> HIDE DEF t
<1>4. Listed(t) /\ Len(t) = Cardinality(ps)
  BY <1>1, <1>2, ListTable
<1>5. ASSUME NEW n \in 1..Len(t) PROVE \E i \in ps : t[n] = s[i]
  <2>1. \E i \in ps : Rank(ps, i) = n
    BY <1>4, RankHit
  <2>. QED
    BY <1>3, <1>4, <2>1
<1>6. ASSUME NEW i \in ps PROVE \E n \in 1..Len(t) : t[n] = s[i]
  <2> DEFINE n == Rank(ps, i)
  <2>1. n \in 1..Cardinality(ps) /\ \A k \in ps : Rank(ps, k) = n => k = i
    BY RankOnce
  <2>2. (CHOOSE k \in ps : Rank(ps, k) = n) = i
    BY <2>1
  <2>. QED
    BY <1>3, <1>4, <2>1, <2>2
<1>. QED
  BY <1>1, <1>4, <1>5, <1>6 DEF t, Picked

-----------------------------------------------------------------------------
(* Autoupdate: what is reported of the rewritten file.                       *)

\* The lines of a file, and of what a file cut short leaves.
IsFile(ls) ==
  /\ Listed(ls)
  /\ \A j \in DOMAIN ls : /\ ls[j].key \in {"repo", "rev", "other"}
                          /\ ls[j].key = "repo" => ls[j].url \in Urls

\* The file differs from what the run began with where the updates us say.
Changed(new, old, us) ==
  /\ Len(new) = Len(old)
  /\ \A j \in DOMAIN old : new[j] # old[j] =>
        /\ new[j].key = "rev" /\ old[j].key = "rev"
        /\ \E i \in 1..j - 1, n \in DOMAIN us :
              /\ old[i].key = "repo" /\ j \in RevsOf(old, i)
              /\ us[n].url \in Within(old[i].url) /\ us[n].rev = new[j].rev

\* The revision of an entry is what the last update that reached it says.
FirstRev(ls, i) == CHOOSE j \in RevsOf(ls, i) : \A k \in RevsOf(ls, i) : j <= k
Held(ls, us) ==
  \A n \in DOMAIN us, i \in DOMAIN ls :
     ls[i].key = "repo" /\ ls[i].url = us[n].url /\ RevsOf(ls, i) # {} =>
        \E k \in n..Len(us) : us[k].url \in Within(ls[i].url) /\ us[k].rev = ls[FirstRev(ls, i)].rev

Reported == Append(updates, [url |-> update.url, rev |-> update.rev, is |-> "updated"])
RewriteInv ==
  /\ stage \in {"rest", "check", "backup", "copy", "rewrite", "truncate", "fill"}
  /\ IsFile(yaml) /\ IsFile(original) /\ Listed(updates)
  /\ dry => yaml = original /\ stage \in {"rest", "check"}
  /\ ~dry /\ stage # "fill" /\ (stage = "rest" => updates # <<>>) =>
        Changed(yaml, original, updates) /\ Held(yaml, updates)
  /\ stage \in {"truncate", "fill"} =>
        IsFile(pending) /\ Changed(pending, original, Reported) /\ Held(pending, Reported)

\* The revision lines of an entry come before the next entry: a line belongs to
\* one entry.
LEMMA OneEntry ==
  ASSUME NEW ls, IsFile(ls), NEW i \in DOMAIN ls, NEW h \in DOMAIN ls, NEW j,
         j \in RevsOf(ls, i), j \in RevsOf(ls, h), ls[i].key = "repo", ls[h].key = "repo"
  PROVE  i = h
<1>1. Len(ls) \in Nat /\ DOMAIN ls = 1..Len(ls)
  BY ListLen DEF IsFile
<1>. QED
  BY <1>1 DEF RevsOf

LEMMA FirstRevLine ==
  ASSUME NEW ls, IsFile(ls), NEW i \in DOMAIN ls, RevsOf(ls, i) # {}
  PROVE  /\ FirstRev(ls, i) \in RevsOf(ls, i)
         /\ \A k \in RevsOf(ls, i) : FirstRev(ls, i) <= k
<1>1. Len(ls) \in Nat /\ DOMAIN ls = 1..Len(ls)
  BY ListLen DEF IsFile
<1>2. RevsOf(ls, i) \subseteq Nat
  BY <1>1 DEF RevsOf
<1>3. \E j \in RevsOf(ls, i) : \A k \in RevsOf(ls, i) : j <= k
  BY <1>2, LeastNatural
<1>. QED
  BY <1>3 DEF FirstRev


\* A line that the rewriting reaches belongs to an entry whose URL contains
\* the one looked for; the first revision line of an entry with the URL is reached.
LEMMA ReachedLine ==
  ASSUME NEW ls, IsFile(ls), NEW u, NEW j \in DOMAIN ls, ls[j].key = "rev", InTarget(ls, u, j)
  PROVE  \E i \in 1..j - 1 : ls[i].key = "repo" /\ u \in Within(ls[i].url) /\ j \in RevsOf(ls, i)
<1>1. Len(ls) \in Nat /\ DOMAIN ls = 1..Len(ls)
  BY ListLen DEF IsFile
<1>2. PICK h \in 1..j - 1 : /\ ls[h].key = "repo" /\ u \in Within(ls[h].url)
                           /\ \A k \in h + 1..j - 1 :
                                \/ ls[k].key = "other"
                                \/ (ls[k].key = "repo" /\ u \in Within(ls[k].url))
  BY DEF InTarget
<1> DEFINE S == {d \in Nat : j - d \in h..j - 1 /\ ls[j - d].key = "repo"}
<1>3. j - h \in S
  BY <1>1, <1>2
<1>4. PICK d \in S : \A e \in S : d <= e
  BY <1>3, LeastNatural
<1>5. j - d \in 1..j - 1 /\ ls[j - d].key = "repo" /\ u \in Within(ls[j - d].url)
  BY <1>1, <1>2, <1>4
<1>6. \A k \in j - d + 1..j : ls[k].key # "repo"
  <2>1. ASSUME NEW k \in j - d + 1..j, ls[k].key = "repo" PROVE FALSE
    <3>1. k # j /\ k \in h..j - 1
      BY <1>1, <1>2, <1>4, <2>1
    <3>2. j - k \in S
      BY <1>1, <2>1, <3>1
    <3>. QED
      BY <1>1, <1>4, <2>1, <3>1, <3>2
  <2>. QED
    BY <2>1
<1>7. j \in RevsOf(ls, j - d)
  BY <1>1, <1>5, <1>6 DEF RevsOf
<1>. QED
  BY <1>5, <1>7

LEMMA FirstReached ==
  ASSUME NEW ls, IsFile(ls), NEW i \in DOMAIN ls, ls[i].key = "repo", RevsOf(ls, i) # {}
  PROVE  InTarget(ls, ls[i].url, FirstRev(ls, i))
<1> DEFINE j == FirstRev(ls, i)
<1>1. Len(ls) \in Nat /\ DOMAIN ls = 1..Len(ls)
  BY ListLen DEF IsFile
<1>2. j \in RevsOf(ls, i) /\ \A k \in RevsOf(ls, i) : j <= k
  BY FirstRevLine
<1>3. ls[i].url \in Within(ls[i].url)
  BY UpdateAssumption DEF IsFile
<1>4. ASSUME NEW k \in i + 1..j - 1 PROVE ls[k].key = "other"
  <2>1. k \in DOMAIN ls /\ ls[k].key # "repo" /\ k \notin RevsOf(ls, i)
    BY <1>1, <1>2 DEF RevsOf
  <2>2. ls[k].key # "rev"
    BY <1>1, <1>2, <2>1 DEF RevsOf
  <2>. QED
    BY <2>1, <2>2 DEF IsFile
<1>5. i \in 1..j - 1
  BY <1>1, <1>2 DEF RevsOf
<1>. QED
  BY <1>3, <1>4, <1>5 DEF InTarget

\* A file rewritten is a file with the same entries.
LEMMA Rewritten ==
  ASSUME NEW ls, IsFile(ls), NEW u, NEW r
  PROVE  LET new == UpdateYaml(ls, u, r) IN
         /\ IsFile(new) /\ Len(new) = Len(ls) /\ DOMAIN new = DOMAIN ls
         /\ \A j \in DOMAIN ls :
               /\ new[j].key = ls[j].key
               /\ new[j] = IF ls[j].key = "rev" /\ InTarget(ls, u, j) THEN RevLine(r) ELSE ls[j]
         /\ \A i \in DOMAIN ls : RevsOf(new, i) = RevsOf(ls, i)
<1> DEFINE new == UpdateYaml(ls, u, r)
<1>1. Len(ls) \in Nat /\ DOMAIN ls = 1..Len(ls)
  BY ListLen DEF IsFile
<1>2. new = [j \in 1..Len(ls) |-> new[j]]
  BY <1>1 DEF UpdateYaml
<1>3. Listed(new) /\ Len(new) = Len(ls)
  <2> HIDE DEF new
  <2>. QED
    BY <1>1, <1>2, ListTable
<1>4. DOMAIN new = DOMAIN ls
  BY DEF UpdateYaml
<1>5. \A j \in DOMAIN ls : new[j] = IF ls[j].key = "rev" /\ InTarget(ls, u, j) THEN RevLine(r) ELSE ls[j]
  BY DEF UpdateYaml
<1>6. \A j \in DOMAIN ls : new[j].key = ls[j].key
  BY <1>5 DEF RevLine
<1>7. IsFile(new)
  BY <1>3, <1>4, <1>5, <1>6 DEF IsFile, RevLine
<1>8. \A i \in DOMAIN ls : RevsOf(new, i) = RevsOf(ls, i)
  <2> HIDE DEF new
  <2>. QED
    BY <1>1, <1>3, <1>4, <1>6 DEF RevsOf
<1>. QED
  BY <1>3, <1>4, <1>5, <1>6, <1>7, <1>8

\* A rewriting that is reported as one more update keeps both.
LEMMA RewriteKeeps ==
  ASSUME NEW ls, IsFile(ls), NEW old, IsFile(old), NEW us, Listed(us), Changed(ls, old, us), Held(ls, us),
         NEW up
  PROVE  LET new == UpdateYaml(ls, up.url, up.rev) IN
         /\ IsFile(new) /\ Changed(new, old, Append(us, up)) /\ Held(new, Append(us, up))
<1> DEFINE new == UpdateYaml(ls, up.url, up.rev)
           vs == Append(us, up)
<1>1. /\ IsFile(new) /\ Len(new) = Len(ls) /\ DOMAIN new = DOMAIN ls
      /\ \A j \in DOMAIN ls :
            /\ new[j].key = ls[j].key
            /\ new[j] = IF ls[j].key = "rev" /\ InTarget(ls, up.url, j) THEN RevLine(up.rev) ELSE ls[j]
      /\ \A i \in DOMAIN ls : RevsOf(new, i) = RevsOf(ls, i)
  BY Rewritten
<1>2. /\ Len(us) \in Nat /\ Len(vs) = Len(us) + 1 /\ DOMAIN us = 1..Len(us) /\ DOMAIN vs = 1..Len(us) + 1
      /\ \A n \in 1..Len(us) : vs[n] = us[n]
      /\ vs[Len(us) + 1] = up
  BY ListAppend, ListLen
<1>3. Len(ls) \in Nat /\ DOMAIN ls = 1..Len(ls) /\ DOMAIN old = 1..Len(old) /\ Len(old) = Len(ls)
  BY ListLen DEF IsFile, Changed
<1> HIDE DEF new, vs
<1>4. \A j \in DOMAIN ls : ls[j].key = old[j].key /\ (ls[j].key = "repo" => old[j] = ls[j])
  BY <1>3 DEF Changed
<1>5. \A i \in DOMAIN ls : RevsOf(old, i) = RevsOf(ls, i)
  BY <1>3, <1>4 DEF RevsOf
<1>6. ASSUME NEW j \in DOMAIN old, new[j] # old[j]
      PROVE  /\ new[j].key = "rev" /\ old[j].key = "rev"
             /\ \E i \in 1..j - 1, n \in DOMAIN vs :
                   /\ old[i].key = "repo" /\ j \in RevsOf(old, i)
                   /\ vs[n].url \in Within(old[i].url) /\ vs[n].rev = new[j].rev
  <2>1. CASE ls[j].key = "rev" /\ InTarget(ls, up.url, j)
    <3>1. PICK i \in 1..j - 1 : ls[i].key = "repo" /\ up.url \in Within(ls[i].url) /\ j \in RevsOf(ls, i)
      BY <1>3, <2>1, ReachedLine
    <3>2. i \in DOMAIN ls
      BY <1>3, <3>1
    <3>3. old[i] = ls[i] /\ RevsOf(old, i) = RevsOf(ls, i)
      BY <1>4, <1>5, <3>1, <3>2
    <3>4. new[j] = RevLine(up.rev)
      BY <1>1, <1>3, <2>1
    <3>5. new[j].rev = up.rev /\ new[j].key = "rev" /\ old[j].key = "rev"
      BY <1>3, <1>4, <2>1, <3>4 DEF RevLine
    <3>6. Len(us) + 1 \in DOMAIN vs
      BY <1>2
    <3>. QED
      BY <1>2, <3>1, <3>3, <3>5, <3>6
  <2>2. CASE ~(ls[j].key = "rev" /\ InTarget(ls, up.url, j))
    <3>1. new[j] = ls[j]
      BY <1>1, <1>3, <2>2
    <3>2. /\ ls[j].key = "rev" /\ old[j].key = "rev"
          /\ \E i \in 1..j - 1, n \in DOMAIN us :
                /\ old[i].key = "repo" /\ j \in RevsOf(old, i)
                /\ us[n].url \in Within(old[i].url) /\ us[n].rev = ls[j].rev
      BY <1>6, <3>1 DEF Changed
    <3>. QED
      BY <1>2, <3>1, <3>2
  <2>. QED
    BY <2>1, <2>2
<1>7. Changed(new, old, vs)
  BY <1>1, <1>3, <1>6 DEF Changed
<1>8. ASSUME NEW n \in DOMAIN vs, NEW i \in DOMAIN new,
             new[i].key = "repo", new[i].url = vs[n].url, RevsOf(new, i) # {}
      PROVE  \E k \in n..Len(vs) : vs[k].url \in Within(new[i].url) /\ vs[k].rev = new[FirstRev(new, i)].rev
  <2> DEFINE j == FirstRev(ls, i)
  <2>1. FirstRev(new, i) = j /\ RevsOf(ls, i) # {}
    BY <1>1, <1>8 DEF FirstRev
  <2>2. new[i] = ls[i] /\ ls[i].key = "repo" /\ i \in DOMAIN ls
    BY <1>1, <1>8
  <2>3. j \in RevsOf(ls, i)
    BY <2>1, <2>2, FirstRevLine
  <2>4. j \in DOMAIN ls /\ ls[j].key = "rev"
    BY <1>3, <2>2, <2>3 DEF RevsOf
  <2> HIDE DEF j
  <2>5. CASE InTarget(ls, up.url, j)
    <3>1. new[j].rev = up.rev
      BY <1>1, <2>4, <2>5 DEF RevLine
    <3>2. PICK h \in 1..j - 1 : ls[h].key = "repo" /\ up.url \in Within(ls[h].url) /\ j \in RevsOf(ls, h)
      BY <2>4, <2>5, ReachedLine
    <3>3. h \in DOMAIN ls
      BY <1>3, <2>4, <3>2
    <3>4. h = i
      BY <2>2, <2>3, <3>2, <3>3, OneEntry
    <3>5. Len(us) + 1 \in n..Len(vs)
      BY <1>2
    <3>. QED
      BY <1>2, <2>1, <2>2, <3>1, <3>2, <3>4, <3>5
  <2>6. CASE ~InTarget(ls, up.url, j)
    <3>1. new[j] = ls[j]
      BY <1>1, <2>4, <2>6
    <3>2. InTarget(ls, ls[i].url, j)
      BY <2>1, <2>2, FirstReached DEF j
    <3>3. n # Len(us) + 1
      BY <1>2, <1>8, <2>2, <2>6, <3>2
    <3>4. n \in 1..Len(us) /\ vs[n] = us[n]
      BY <1>2, <3>3
    <3>5. \E k \in n..Len(us) : us[k].url \in Within(ls[i].url) /\ us[k].rev = ls[j].rev
      BY <1>2, <1>8, <2>1, <2>2, <3>4 DEF Held, j
    <3>. QED
      BY <1>2, <2>1, <2>2, <3>1, <3>4, <3>5
  <2>. QED
    BY <2>5, <2>6
<1>9. Held(new, vs)
  BY <1>8 DEF Held
<1>. QED
  BY <1>1, <1>7, <1>9 DEF new, vs


LEMMA InitRewrite == UpdateInit => RewriteInv
<1> SUFFICES ASSUME UpdateInit PROVE RewriteInv
  OBVIOUS
<1>1. IsFile(yaml)
  <2>1. yaml \in Originals
    BY DEF UpdateInit
  <2>2. yaml \in Seq(Lines) /\ \A j \in DOMAIN yaml : yaml[j].key = "repo" => yaml[j].url \in Urls
    BY <2>1, UpdateAssumption
  <2>3. \A j \in DOMAIN yaml : yaml[j] \in Lines
    BY <2>2
  <2>. QED
    BY <2>2, <2>3 DEF IsFile, Listed, Lines
<1>2. Listed(<<>>)
  <2>1. <<>> \in Seq({})
    OBVIOUS
  <2>. QED
    BY <2>1 DEF Listed
<1>. QED
  BY <1>1, <1>2 DEF UpdateInit, RewriteInv

\* A run that begins has changed nothing.
LEMMA NothingChanged ==
  ASSUME NEW ls
  PROVE  Changed(ls, ls, <<>>) /\ Held(ls, <<>>) /\ Listed(<<>>)
<1>1. <<>> \in Seq({}) /\ DOMAIN <<>> = {}
  OBVIOUS
<1>. QED
  BY <1>1 DEF Changed, Held, Listed

LEMMA RewriteInvKeeps == RewriteInv /\ [UpdateNext]_updateVars => RewriteInv'
<1> SUFFICES ASSUME RewriteInv, [UpdateNext]_updateVars PROVE RewriteInv'
  OBVIOUS
<1>1. ASSUME NEW sp, NEW d \in BOOLEAN, ExecuteAutoupdate(sp, d) PROVE RewriteInv'
  <2>1. /\ stage = "rest" /\ updates' = <<>> /\ original' = yaml /\ yaml' = yaml
        /\ stage' \in {"rest", "check"}
    BY <1>1 DEF ExecuteAutoupdate
  <2>2. Changed(yaml, yaml, <<>>) /\ Held(yaml, <<>>) /\ Listed(<<>>)
    BY NothingChanged
  <2>. QED
    BY <2>1, <2>2 DEF RewriteInv
<1>2. CASE Check
  <2>1. stage = "check" /\ UNCHANGED <<yaml, pending, original, dry>>
    BY <1>2 DEF Check, Reads
  <2>2. \/ stage' \in {"check", "backup"} /\ updates' = updates /\ (stage' = "backup" => ~dry)
        \/ stage' = "check" /\ dry /\ \E up : updates' = Append(updates, up)
    BY <1>2, <2>1 DEF Check
  <2>3. Listed(updates')
    BY <2>2, ListAppend DEF RewriteInv
  <2>4. CASE dry
    BY <2>1, <2>2, <2>3, <2>4 DEF RewriteInv
  <2>5. CASE ~dry
    BY <2>1, <2>2, <2>3, <2>5 DEF RewriteInv
  <2>. QED
    BY <2>4, <2>5
<1>3. CASE CreateBackup
  BY <1>3 DEF CreateBackup, Reads, RewriteInv
<1>4. CASE Rewrite
  <2>1. /\ stage = "rewrite" /\ stage' = "truncate" /\ pending' = UpdateYaml(yaml, update.url, update.rev)
        /\ UNCHANGED <<yaml, original, updates, update, dry>>
    BY <1>4 DEF Rewrite, Reads
  <2>2. ~dry /\ IsFile(yaml) /\ IsFile(original) /\ Listed(updates) /\ Changed(yaml, original, updates) /\ Held(yaml, updates)
    BY <2>1 DEF RewriteInv
  <2> DEFINE up == [url |-> update.url, rev |-> update.rev, is |-> "updated"]
  <2>3. up.url = update.url /\ up.rev = update.rev
    OBVIOUS
  <2> HIDE DEF up
  <2>4. LET new == UpdateYaml(yaml, up.url, up.rev) IN
        IsFile(new) /\ Changed(new, original, Append(updates, up)) /\ Held(new, Append(updates, up))
    BY <2>2, RewriteKeeps
  <2>5. IsFile(pending') /\ Changed(pending', original, Append(updates, up)) /\ Held(pending', Append(updates, up))
    BY <2>1, <2>3, <2>4
  <2>6. Reported' = Append(updates, up)
    BY <2>1 DEF Reported, up
  <2>. QED
    BY <2>1, <2>2, <2>5, <2>6 DEF RewriteInv
<1>5. CASE Truncate
  <2>1. /\ stage = "truncate" /\ stage' = "fill" /\ UNCHANGED <<pending, original, updates, update, dry>>
        /\ \E n \in {0, Len(pending) - 1} : yaml' = SubSeq(pending, 1, n)
    BY <1>5 DEF Truncate, Reads
  <2>2. PICK n \in {0, Len(pending) - 1} : yaml' = SubSeq(pending, 1, n)
    BY <2>1
  <2>3. IsFile(pending)
    BY <2>1 DEF RewriteInv
  <2>4. PICK S : pending \in Seq(S)
    BY <2>3 DEF IsFile, Listed
  <2>5. n \in -1..Len(pending) /\ Len(pending) \in Nat
    BY <2>2, <2>4
  <2>6. SubSeq(pending, 1, n) \in Seq(S) /\ \A j \in DOMAIN SubSeq(pending, 1, n) :
           j \in DOMAIN pending /\ SubSeq(pending, 1, n)[j] = pending[j]
    BY <2>4, <2>5
  <2>7. IsFile(yaml')
    BY <2>2, <2>3, <2>6 DEF IsFile, Listed
  <2>8. Reported' = Reported
    BY <2>1 DEF Reported
  <2>9. ~dry
    BY <2>1 DEF RewriteInv
  <2>. QED
    BY <2>1, <2>7, <2>8, <2>9 DEF RewriteInv
<1>6. CASE Fill
  <2>1. /\ stage = "fill" /\ stage' = "check" /\ yaml' = pending /\ updates' = Reported
        /\ UNCHANGED <<original, dry>>
    BY <1>6 DEF Fill, Reported
  <2>2. ~dry /\ IsFile(pending) /\ IsFile(original) /\ Changed(pending, original, Reported) /\ Held(pending, Reported)
    BY <2>1 DEF RewriteInv
  <2>3. Listed(Reported)
    BY ListAppend DEF RewriteInv, Reported
  <2>. QED
    BY <2>1, <2>2, <2>3 DEF RewriteInv
<1>7. CASE ReportUpdates \/ Expire
  <2>1. stage = "check" /\ stage' \in {"check", "rest"} /\ UNCHANGED <<yaml, original, updates, dry>>
    BY <1>7 DEF ReportUpdates, Expire, Reads
  <2>. QED
    BY <2>1 DEF RewriteInv
<1>8. CASE Die
  <2>1. stage' = "rest" /\ updates' = <<>> /\ UNCHANGED <<yaml, original, dry>>
    BY <1>8 DEF Die
  <2>2. Listed(<<>>)
    BY NothingChanged
  <2>. QED
    BY <2>1, <2>2 DEF RewriteInv
<1>9. CASE UNCHANGED updateVars
  BY <1>9 DEF updateVars, RewriteInv, Reported
<1>. QED
  BY <1>1, <1>2, <1>3, <1>4, <1>5, <1>6, <1>7, <1>8, <1>9 DEF UpdateNext, UpdateStep

LEMMA RewriteReports == RewriteInv => UpdatesReported
<1> SUFFICES ASSUME RewriteInv, stage = "rest", updates # <<>>
             PROVE  /\ dry => yaml = original
                    /\ Len(yaml) = Len(original)
                    /\ \A j \in DOMAIN yaml : yaml[j] # original[j] =>
                          /\ yaml[j].key = "rev" /\ original[j].key = "rev"
                          /\ \E i \in 1..j - 1, n \in DOMAIN updates :
                                /\ original[i].key = "repo" /\ j \in RevsOf(original, i)
                                /\ updates[n].url \in Within(original[i].url) /\ updates[n].rev = yaml[j].rev
                    /\ ~dry => \A n \in DOMAIN updates : \A i \in {k \in DOMAIN yaml : yaml[k].key = "repo"} :
                          EntryAt(yaml, i).url = updates[n].url /\ EntryAt(yaml, i).rev # "" =>
                             \E k \in n..Len(updates) : /\ updates[k].url \in Within(EntryAt(yaml, i).url)
                                                        /\ updates[k].rev = EntryAt(yaml, i).rev
  BY DEF UpdatesReported
<1>1. CASE dry
  BY <1>1 DEF RewriteInv
<1>2. CASE ~dry
  <2>1. Changed(yaml, original, updates) /\ Held(yaml, updates) /\ IsFile(yaml) /\ IsFile(original)
    BY <1>2 DEF RewriteInv
  <2>2. DOMAIN yaml = DOMAIN original
    BY <2>1, ListLen DEF IsFile, Changed
  <2>3. ASSUME NEW n \in DOMAIN updates, NEW i \in DOMAIN yaml, yaml[i].key = "repo",
               EntryAt(yaml, i).url = updates[n].url, EntryAt(yaml, i).rev # ""
        PROVE  \E k \in n..Len(updates) : /\ updates[k].url \in Within(EntryAt(yaml, i).url)
                                          /\ updates[k].rev = EntryAt(yaml, i).rev
    <3>1. RevsOf(yaml, i) # {} /\ EntryAt(yaml, i).url = yaml[i].url
          /\ EntryAt(yaml, i).rev = yaml[FirstRev(yaml, i)].rev
      BY <2>3 DEF EntryAt, FirstRev
    <3>. QED
      BY <2>1, <2>3, <3>1 DEF Held
  <2>. QED
    BY <1>2, <2>1, <2>2, <2>3 DEF Changed
<1>. QED
  BY <1>1, <1>2

\* What autoupdate reports is what it did: revisions alone change, where a reported
\* update reaches; each reported update is in the file unless a later one overwrote it.
THEOREM UpdatesAreReported == UpdateSpec => []UpdatesReported
BY InitRewrite, RewriteInvKeeps, RewriteReports, PTL DEF UpdateSpec

-----------------------------------------------------------------------------
(* try-repo.                                                                 *)

LEMMA ManifestHooks ==
  ASSUME NEW m \in Manifests, m # <<>>
  PROVE  \E n \in Nat : DOMAIN m[1] = 1..n
<1>1. CASE m = << <<>> >>
  <2>1. m[1] = <<>> /\ DOMAIN <<>> = 1..0
    BY <1>1
  <2>. QED
    BY <2>1
<1>2. CASE m # << <<>> >>
  <2>1. \E a, b : m = << <<a, b>> >>
    BY <1>2 DEF Manifests
  <2>2. PICK a, b : m = << <<a, b>> >>
    BY <2>1
  <2>3. DOMAIN <<a, b>> = 1..2
    OBVIOUS
  <2>. QED
    BY <2>2, <2>3
<1>. QED
  BY <1>1, <1>2

\* The hooks that a manifest gives: those asked for, each of them.
HooksOf == LoadRepositoryHooks(attempt.remote.manifest, attempt.want)
LEMMA HooksAsked ==
  ASSUME NEW m \in Manifests, NEW want, LoadRepositoryHooks(m, want) # <<>>
  PROVE  LET hs == LoadRepositoryHooks(m, want)[1] IN
         /\ m # <<>> /\ Listed(hs)
         /\ \A n \in 1..Len(hs) : want # <<>> => hs[n].id = want[1]
         /\ \A h \in ToSet(m[1]) : want = <<>> \/ h.id = want => \E n \in 1..Len(hs) : hs[n].id = h.id[1]
<1> DEFINE pos == {i \in DOMAIN m[1] : want = <<>> \/ m[1][i].id = want}
           wanted == Subsequence(m[1], pos)
           hs == [i \in DOMAIN wanted |->
                     [id |-> wanted[i].id[1],
                      stages |-> IF wanted[i].stages = <<>> THEN {"pre-commit"}
                                 ELSE wanted[i].stages[1] \intersect {"pre-commit", "pre-push"}]]
<1>1. m # <<>> /\ LoadRepositoryHooks(m, want) = <<hs>>
  BY DEF LoadRepositoryHooks
<1>2. LoadRepositoryHooks(m, want)[1] = hs
  BY <1>1
<1>3. PICK k \in Nat : DOMAIN m[1] = 1..k
  BY <1>1, ManifestHooks
<1>4. pos \subseteq 1..k
  BY <1>3
<1>5. /\ Listed(wanted) /\ Len(wanted) \in Nat
      /\ \A n \in 1..Len(wanted) : \E i \in pos : wanted[n] = m[1][i]
      /\ \A i \in pos : \E n \in 1..Len(wanted) : wanted[n] = m[1][i]
  <2> HIDE DEF pos
  <2>1. Picked(wanted, m[1], pos)
    BY <1>3, <1>4, SubsequenceOf
  <2> HIDE DEF wanted
  <2>. QED
    BY <2>1 DEF Picked
<1>6. DOMAIN wanted = 1..Len(wanted)
  <2> HIDE DEF wanted
  <2>. QED
    BY <1>5, ListLen
<1> HIDE DEF wanted
<1>7. hs = [n \in 1..Len(wanted) |-> hs[n]] /\ \A n \in 1..Len(wanted) : hs[n].id = wanted[n].id[1]
  BY <1>6
<1> HIDE DEF hs
<1>8. Listed(hs) /\ Len(hs) = Len(wanted)
  BY <1>5, <1>7, ListTable
<1>9. ASSUME NEW n \in 1..Len(hs), want # <<>> PROVE hs[n].id = want[1]
  <2>1. PICK i \in pos : wanted[n] = m[1][i]
    BY <1>5, <1>8
  <2>. QED
    BY <1>7, <1>8, <1>9, <2>1
<1>10. ASSUME NEW h \in ToSet(m[1]), want = <<>> \/ h.id = want
       PROVE  \E n \in 1..Len(hs) : hs[n].id = h.id[1]
  <2>1. PICK i \in DOMAIN m[1] : h = m[1][i]
    BY DEF ToSet
  <2>2. i \in pos
    BY <1>10, <2>1
  <2>3. PICK n \in 1..Len(wanted) : wanted[n] = m[1][i]
    BY <1>5, <2>2
  <2>. QED
    BY <1>7, <1>8, <2>1, <2>3
<1>. QED
  BY <1>1, <1>2, <1>8, <1>9, <1>10, SMTT(30)

\* What has been executed and what is left are the hooks asked for.
Under == trying = "hooks" \/ results # <<>>
TryInv ==
  /\ trying \in {"rest", "clone", "load", "hooks", "over"}
  /\ trying = "over" => ~temp
  /\ trying = "rest" => results = <<>> /\ cwd = "home"
  /\ trying # "rest" => attempt # <<>> /\ attempt.remote.manifest \in Manifests
  /\ trying \in {"clone", "load"} => results = <<>> /\ cwd = "home"
  /\ trying = "load" => attempt.remote.reachable
  /\ Listed(results)
  /\ Under => /\ trying # "rest" /\ attempt.remote.reachable /\ HooksOf # <<>> /\ Listed(loaded)
              /\ Len(results) + Len(loaded) = Len(HooksOf[1])
              /\ \A i \in 1..Len(results) : results[i].id = HooksOf[1][i].id
              /\ \A i \in 1..Len(loaded) : loaded[i] = HooksOf[1][Len(results) + i]

LEMMA InitTry == TryInit => TryInv
<1>1. Listed(<<>>)
  <2>1. <<>> \in Seq({})
    OBVIOUS
  <2>. QED
    BY <2>1 DEF Listed
<1>. QED
  BY <1>1 DEF TryInit, TryInv, Under

LEMMA TryKeeps == TryInv /\ [TryNext]_tryVars => TryInv'
<1> SUFFICES ASSUME TryInv, [TryNext]_tryVars PROVE TryInv'
  OBVIOUS
<1>1. ASSUME NEW u, NEW r, NEW w, NEW m \in Manifests, NEW ok,
             TryRepo(u, r, w, [reachable |-> ok, revs |-> {"v1"}, manifest |-> m])
      PROVE  TryInv'
  <2>1. /\ trying = "rest" /\ trying' = "clone" /\ UNCHANGED <<loaded, results, cwd>>
        /\ attempt' = [url |-> u, rev |-> r, want |-> w, remote |-> [reachable |-> ok, revs |-> {"v1"}, manifest |-> m]]
    BY <1>1 DEF TryRepo
  <2>2. attempt' # <<>>
    <3>1. "url" \in DOMAIN attempt' /\ "url" \notin DOMAIN <<>>
      BY <2>1
    <3>. QED
      BY <3>1
  <2>3. attempt'.remote.manifest = m
    BY <2>1
  <2>. QED
    BY <2>1, <2>2, <2>3 DEF TryInv, Under
<1>2. ASSUME trying # "rest", Fails PROVE TryInv'
  <2>1. trying' = "over" /\ temp' = FALSE /\ UNCHANGED <<attempt, loaded, results, cwd>>
    BY <1>2 DEF Fails
  <2>2. HooksOf' = HooksOf /\ (Under' => Under)
    BY <2>1 DEF HooksOf, Under
  <2>. QED
    BY <1>2, <2>1, <2>2 DEF TryInv
<1>3. CASE TryClone
  <2>1. CASE CloneRepository(attempt.url, attempt.rev, attempt.remote)
    <3>1. trying = "clone" /\ trying' = "load" /\ UNCHANGED <<attempt, loaded, results, temp, cwd>> /\ attempt.remote.reachable
      BY <1>3, <2>1 DEF TryClone, CloneRepository
    <3>. QED
      BY <3>1 DEF TryInv, Under
  <2>2. CASE ~CloneRepository(attempt.url, attempt.rev, attempt.remote)
    BY <1>2, <1>3, <2>2 DEF TryClone
  <2>. QED
    BY <2>1, <2>2
<1>4. CASE TryLoad
  <2>1. CASE HooksOf = <<>>
    BY <1>2, <1>4, <2>1 DEF TryLoad, HooksOf
  <2>2. CASE HooksOf # <<>>
    <3>1. trying = "load" /\ trying' = "hooks" /\ loaded' = HooksOf[1] /\ UNCHANGED <<attempt, results, temp, cwd>>
      BY <1>4, <2>2 DEF TryLoad, HooksOf
    <3>2. results = <<>> /\ attempt.remote.manifest \in Manifests
      BY <3>1 DEF TryInv
    <3>3. Listed(HooksOf[1])
      BY <2>2, <3>2, HooksAsked DEF HooksOf
    <3>4. HooksOf' = HooksOf
      BY <3>1 DEF HooksOf
    <3>5. Len(HooksOf[1]) \in Nat /\ Len(<<>>) = 0
      BY <3>3, ListLen
    <3>6. /\ Len(results') + Len(loaded') = Len(HooksOf[1])
          /\ \A i \in 1..Len(results') : results'[i].id = HooksOf[1][i].id
          /\ \A i \in 1..Len(loaded') : loaded'[i] = HooksOf[1][Len(results') + i]
      BY <3>1, <3>2, <3>5
    <3>. QED
      BY <2>2, <3>1, <3>2, <3>3, <3>4, <3>6 DEF TryInv
  <2>. QED
    BY <2>1, <2>2
<1>5. CASE TryHook
  <2>1. ASSUME NEW s \in BOOLEAN, cwd' = "temp", loaded' = Tail(loaded),
               results' = Append(results, [id |-> Head(loaded).id, success |-> s]), UNCHANGED <<trying, attempt, temp>>
        PROVE  TryInv'
    <3> DEFINE x == [id |-> Head(loaded).id, success |-> s]
    <3>1. trying = "hooks" /\ loaded # <<>> /\ Under
      BY <1>5 DEF TryHook, Under
    <3>2. /\ Listed(results) /\ Listed(loaded) /\ Len(results) + Len(loaded) = Len(HooksOf[1])
          /\ \A i \in 1..Len(results) : results[i].id = HooksOf[1][i].id
          /\ \A i \in 1..Len(loaded) : loaded[i] = HooksOf[1][Len(results) + i]
      BY <3>1 DEF TryInv
    <3>3. /\ Listed(Tail(loaded)) /\ Len(loaded) # 0 /\ Len(Tail(loaded)) = Len(loaded) - 1 /\ Head(loaded) = loaded[1]
          /\ \A i \in 1..Len(Tail(loaded)) : Tail(loaded)[i] = loaded[i + 1]
      BY <3>1, <3>2, ListTail
    <3>4. Len(results) \in Nat /\ Len(loaded) \in Nat
      BY <3>2, ListLen
    <3>5. /\ Listed(results') /\ Len(results') = Len(results) + 1
          /\ \A n \in 1..Len(results) : results'[n] = results[n]
          /\ results'[Len(results) + 1] = x
      BY <2>1, <3>2, ListAppend
    <3>6. x.id = HooksOf[1][Len(results) + 1].id
      BY <3>2, <3>3, <3>4
    <3>7. HooksOf' = HooksOf
      BY <2>1 DEF HooksOf
    <3> HIDE DEF x
    <3>8. \A i \in 1..Len(results') : results'[i].id = HooksOf[1][i].id
      BY <3>2, <3>4, <3>5, <3>6
    <3>9. /\ Len(results') + Len(loaded') = Len(HooksOf[1])
          /\ \A i \in 1..Len(loaded') : loaded'[i] = HooksOf[1][Len(results') + i]
      <4>1. Len(loaded') = Len(loaded) - 1 /\ Len(results') = Len(results) + 1
        BY <2>1, <3>3, <3>5
      <4>2. ASSUME NEW i \in 1..Len(loaded') PROVE loaded'[i] = HooksOf[1][Len(results') + i]
        <5>1. loaded'[i] = loaded[i + 1] /\ i + 1 \in 1..Len(loaded)
          BY <2>1, <3>3, <3>4, <4>1
        <5>2. loaded[i + 1] = HooksOf[1][Len(results) + (i + 1)]
          BY <3>2, <5>1
        <5>. QED
          BY <3>4, <4>1, <5>1, <5>2
      <4>3. Len(results') + Len(loaded') = Len(HooksOf[1])
        <5>1. Len(results) + Len(loaded) = Len(HooksOf[1])
          BY <3>2
        <5>. QED
          BY <3>4, <4>1, <5>1
      <4>. QED
        BY <4>2, <4>3
    <3>10. /\ trying' = "hooks" /\ attempt' = attempt
           /\ attempt.remote.reachable /\ HooksOf # <<>> /\ attempt # <<>> /\ attempt.remote.manifest \in Manifests
      BY <2>1, <3>1 DEF TryInv
    <3>. QED
      BY <2>1, <3>3, <3>5, <3>7, <3>8, <3>9, <3>10 DEF TryInv
  <2>2. CASE Fails
    BY <1>2, <1>5, <2>2 DEF TryHook
  <2>. QED
    BY <1>5, <2>1, <2>2 DEF TryHook
<1>6. CASE TryCleanup
  <2>1. trying = "hooks" /\ trying' = "over" /\ temp' = FALSE /\ UNCHANGED <<attempt, loaded, results, cwd>>
    BY <1>6 DEF TryCleanup
  <2>2. HooksOf' = HooksOf /\ Under
    BY <2>1 DEF HooksOf, Under
  <2>. QED
    BY <2>1, <2>2 DEF TryInv
<1>7. CASE UNCHANGED tryVars
  BY <1>7 DEF tryVars, TryInv, Under, HooksOf
<1>. QED
  BY <1>1, <1>3, <1>4, <1>5, <1>6, <1>7 DEF TryNext, TryStep

LEMMA TryReports == TryInv => TryLeavesNothing
<1> SUFFICES ASSUME TryInv PROVE TryLeavesNothing
  OBVIOUS
<1>1. (trying = "over" => ~temp) /\ (cwd = "temp" => attempt # <<>>)
  BY DEF TryInv
<1>2. ASSUME attempt # <<>>, trying # "clone", NEW i \in DOMAIN results
      PROVE  /\ attempt.want # <<>> => results[i].id = attempt.want[1]
             /\ attempt.remote.manifest # <<>> /\ attempt.remote.reachable
  <2>1. i \in 1..Len(results) /\ Len(results) \in Nat
    BY <1>2, ListLen DEF TryInv
  <2>2. results # <<>>
    BY <1>2
  <2>3. /\ attempt.remote.reachable /\ HooksOf # <<>> /\ Listed(loaded) /\ attempt.remote.manifest \in Manifests
        /\ Len(results) + Len(loaded) = Len(HooksOf[1])
        /\ \A n \in 1..Len(results) : results[n].id = HooksOf[1][n].id
    BY <2>2 DEF TryInv, Under
  <2>4. Len(loaded) \in Nat
    BY <2>3, ListLen
  <2>5. attempt.remote.manifest # <<>> /\ \A n \in 1..Len(HooksOf[1]) : attempt.want # <<>> => HooksOf[1][n].id = attempt.want[1]
    BY <2>3, HooksAsked DEF HooksOf
  <2>6. i \in 1..Len(HooksOf[1])
    BY <2>1, <2>3, <2>4
  <2>. QED
    BY <2>1, <2>3, <2>5, <2>6
<1>3. ASSUME trying = "over", results # <<>>, loaded = <<>>,
             NEW h \in ToSet(attempt.remote.manifest[1]), attempt.want = <<>> \/ h.id = attempt.want
      PROVE  \E i \in DOMAIN results : results[i].id = h.id[1]
  <2>1. /\ HooksOf # <<>> /\ attempt.remote.manifest \in Manifests /\ Listed(results)
        /\ Len(results) + Len(loaded) = Len(HooksOf[1])
        /\ \A n \in 1..Len(results) : results[n].id = HooksOf[1][n].id
    BY <1>3 DEF TryInv, Under
  <2>2. Len(results) \in Nat /\ DOMAIN results = 1..Len(results) /\ Len(loaded) = 0
    BY <1>3, <2>1, ListLen
  <2>3. \E n \in 1..Len(HooksOf[1]) : HooksOf[1][n].id = h.id[1]
    BY <1>3, <2>1, HooksAsked DEF HooksOf
  <2>. QED
    BY <2>1, <2>2, <2>3
<1>4. \A fs, st, ix \in SUBSET {"f", "g"}, all \in BOOLEAN :
          st \subseteq ix /\ ix # {} => DetermineFiles(fs, all, st, ix) # {}
  BY DEF DetermineFiles
<1>. QED
  BY <1>1, <1>2, <1>3, <1>4 DEF TryLeavesNothing

-----------------------------------------------------------------------------
(* GitFiles: the ways to the files of a hook.                                *)

\* The ways to the files of a hook agree in every repository.
LEMMA DiscoveriesAgree ==
  ASSUME NEW hooks, NEW mode, NEW r, NEW fs
  PROVE  /\ ProcessForHooks(hooks, mode, r, fs) = ProcessForHooksAsync(hooks, mode, r, fs)
         /\ \A i \in DOMAIN hooks :
               /\ GetFilesForHook(hooks[i], mode, r, fs) = GetFilesForHookAsync(hooks[i], mode, r, fs)
               /\ ProcessForHooks(hooks, mode, r, fs) # <<>> =>
                     GetFilesForHook(hooks[i], mode, r, fs) = <<ProcessForHooks(hooks, mode, r, fs)[1][i]>>
<1> DEFINE d == DiscoverFiles(mode, r, fs)
<1>1. \A h : FilterFilesAsync(d[1], h, {}) = <<FilterFiles(d[1], h)>>
  BY DEF FilterFilesAsync, FilterFiles, MatchesAsync
<1>2. \A h : FilterFilesAsync(d[1], h, {}) = <<FilterFiles(d[1], h)>> /\ FilterFilesAsync(d[1], h, {})[1] = FilterFiles(d[1], h)
  BY <1>1
<1> HIDE DEF d
<1>3. ProcessForHooks(hooks, mode, r, fs)
        = IF d = <<>> THEN <<>> ELSE <<[i \in DOMAIN hooks |-> FilterFiles(d[1], FromHook(hooks[i]))]>>
  BY DEF ProcessForHooks, d
<1>4. ProcessForHooksAsync(hooks, mode, r, fs)
        = IF d = <<>> THEN <<>> ELSE <<[i \in DOMAIN hooks |-> FilterFilesAsync(d[1], FromHook(hooks[i]), {})[1]]>>
  BY DEF ProcessForHooksAsync, d
<1>5. \A h : /\ GetFilesForHook(h, mode, r, fs) = IF d = <<>> THEN <<>> ELSE <<FilterFiles(d[1], FromHook(h))>>
             /\ GetFilesForHookAsync(h, mode, r, fs) = IF d = <<>> THEN <<>> ELSE FilterFilesAsync(d[1], FromHook(h), {})
  BY DEF GetFilesForHook, GetFilesForHookAsync, d
<1>6. [i \in DOMAIN hooks |-> FilterFiles(d[1], FromHook(hooks[i]))]
        = [i \in DOMAIN hooks |-> FilterFilesAsync(d[1], FromHook(hooks[i]), {})[1]]
  BY <1>2
<1>. QED
  BY <1>2, <1>3, <1>4, <1>5, <1>6

LEMMA WhatDiscovers ==
  ASSUME NEW mode \in {"StagedOnly", "AllFiles", "ModifiedSinceTime", "ModifiedSinceCommit", "FileList"},
         NEW r \in BOOLEAN, NEW hooks
  PROVE  ProcessForHooks(hooks, mode, r, Files) = <<>> <=> ~r /\ mode \in {"StagedOnly", "ModifiedSinceCommit"}
<1>1. ChangedFiles("origin", "HEAD") # <<>>
  BY DEF ChangedFiles, ResolveReference
<1>2. DiscoverFiles(mode, r, Files) = <<>> <=> ~r /\ mode \in {"StagedOnly", "ModifiedSinceCommit"}
  <2>1. CASE mode = "ModifiedSinceCommit"
    BY <1>1, <2>1 DEF DiscoverFiles
  <2>2. CASE mode = "StagedOnly"
    BY <2>2 DEF DiscoverFiles
  <2>3. CASE mode \in {"AllFiles", "ModifiedSinceTime", "FileList"}
    BY <2>3 DEF DiscoverFiles
  <2>. QED
    BY <2>1, <2>2, <2>3
<1>. QED
  BY <1>2 DEF ProcessForHooks

LEMMA OnlyElement == ASSUME NEW x, NEW t, t = <<x>> PROVE t[1] = x
OBVIOUS

LEMMA WarmthAgrees ==
  ASSUME NEW hooks
  PROVE  WarmCache(hooks).hook = ProcessForHooks(hooks, "AllFiles", TRUE, {})[1]
<1> DEFINE d == DiscoverFiles("AllFiles", TRUE, {})
           fs == [i \in DOMAIN hooks |-> FilterFiles(Indexed, FromHook(hooks[i]))]
<1>1. d = <<Indexed>>
  BY DEF DiscoverFiles
<1> HIDE DEF d
<1>2. d # <<>> /\ d[1] = Indexed
  BY <1>1
<1>3. \A h : GetFilesForHook(h, "AllFiles", TRUE, {}) = <<FilterFiles(Indexed, FromHook(h))>>
  BY <1>2 DEF GetFilesForHook, d
<1>4. \A h : GetFilesForHook(h, "AllFiles", TRUE, {})[1] = FilterFiles(Indexed, FromHook(h))
  <2>1. ASSUME NEW h PROVE GetFilesForHook(h, "AllFiles", TRUE, {})[1] = FilterFiles(Indexed, FromHook(h))
    BY <1>3, OnlyElement
  <2>. QED
    BY <2>1
<1>5. ProcessForHooks(hooks, "AllFiles", TRUE, {}) = <<fs>>
  BY <1>2 DEF ProcessForHooks, d
<1>6. ProcessForHooks(hooks, "AllFiles", TRUE, {})[1] = fs
  <2> HIDE DEF fs
  <2>. QED
    BY <1>5, OnlyElement
<1>7. WarmCache(hooks).hook = [i \in DOMAIN hooks |-> GetFilesForHook(hooks[i], "AllFiles", TRUE, {})[1]]
  BY DEF WarmCache
<1>8. [i \in DOMAIN hooks |-> GetFilesForHook(hooks[i], "AllFiles", TRUE, {})[1]] = fs
  BY <1>4
<1>. QED
  BY <1>6, <1>7, <1>8

LEMMA RunsAgree ==
  ASSUME NEW stg, NEW all \in BOOLEAN
  PROVE  FilesOfRun(stg, {}, all) \subseteq FilesOfRunAll(stg, all)
<1>1. Staged \subseteq Indexed
  BY DEF Staged, Indexed, IsStaged, Status
<1>. QED
  BY <1>1 DEF FilesOfRun, FilesOfRunAll

LEMMA RefsAgree ==
  /\ FilesOfRefs("origin", "HEAD", "pre-commit")
       = <<IF Diff("base", "head") = {} THEN Staged ELSE Diff("base", "head")>>
  /\ FilesOfRefs("gone", "HEAD", "pre-push") = <<>>
<1>1. ChangedFiles("origin", "HEAD") = <<Diff("base", "head")>> /\ ChangedFiles("gone", "HEAD") = <<>>
  BY DEF ChangedFiles, ResolveReference
<1>. QED
  BY <1>1 DEF FilesOfRefs, FilesOfRun

LEMMA Samples ==
  /\ DOMAIN SampleHooks = 1..4
  /\ SampleHooks[1].id = "all" /\ SampleHooks[2].id = "some" /\ SampleHooks[3].id = "not" /\ SampleHooks[4].id = "broken"
  /\ FilterFiles(Files, FromHook(SampleHooks[4])) = {}
<1>1. DOMAIN SampleHooks = 1..4
  BY DEF SampleHooks
<1>2. SampleHooks[1].id = "all" /\ SampleHooks[2].id = "some" /\ SampleHooks[3].id = "not" /\ SampleHooks[4].id = "broken"
  BY DEF SampleHooks, Hook
<1> DEFINE p == Pattern(FALSE, Files)
<1>3. FromHook(SampleHooks[4]).include = <<p>>
  BY DEF SampleHooks, Hook, FromHook
<1>4. \A f : ~Hits(p, f)
  BY DEF Hits, Pattern
<1> HIDE DEF p
<1>5. \A f : ~FilterMatches(FromHook(SampleHooks[4]), f)
  <2>1. <<p>> # <<>> /\ DOMAIN <<p>> = {1} /\ <<p>>[1] = p
    OBVIOUS
  <2>. QED
    BY <1>3, <1>4, <2>1 DEF FilterMatches
<1>. QED
  BY <1>1, <1>2, <1>5 DEF FilterFiles


Apart(hooks, n) == DOMAIN hooks = 1..n /\ \A i, j \in 1..n : hooks[i].id = hooks[j].id => i = j

\* A hook alone in its id is found exactly in its stages.
LEMMA SingleFound ==
  ASSUME NEW n \in Nat, NEW hooks, Apart(hooks, n),
         NEW i \in 1..n, NEW stg
  PROVE  SingleHook(hooks, stg, hooks[i].id) = IF stg \in hooks[i].stages THEN <<hooks[i]>> ELSE <<>>
<1> DEFINE P == {k \in DOMAIN hooks : stg \in hooks[k].stages}
           hs == HooksForStage(hooks, stg)
           Q == {k \in DOMAIN hs : hs[k].id = hooks[i].id}
           of == Subsequence(hs, Q)
<1>0. DOMAIN hooks = 1..n /\ \A k, j \in 1..n : hooks[k].id = hooks[j].id => k = j
  BY DEF Apart
<1>1. SingleHook(hooks, stg, hooks[i].id) = IF of = <<>> THEN <<>> ELSE <<of[1]>>
  BY DEF SingleHook
<1>2. Picked(hs, hooks, P)
  <2>1. P \subseteq 1..n
    BY <1>0
  <2>2. hs = Subsequence(hooks, P)
    BY DEF HooksForStage
  <2> HIDE DEF P, hs
  <2>. QED
    BY <2>1, <2>2, SubsequenceOf
<1> HIDE DEF hs
<1>3. Len(hs) \in Nat /\ DOMAIN hs = 1..Len(hs)
  BY <1>2, ListLen DEF Picked
<1>4. Picked(of, hs, Q)
  <2>1. Q \subseteq 1..Len(hs)
    BY <1>3
  <2> HIDE DEF Q
  <2>. QED
    BY <1>3, <2>1, SubsequenceOf
<1> HIDE DEF of
<1>5. Len(of) \in Nat /\ (of = <<>> <=> Len(of) = 0)
  BY <1>4, EmptySeq DEF Picked, Listed
<1>6. CASE stg \in hooks[i].stages
  <2>1. i \in P
    BY <1>0, <1>6
  <2>2. PICK k \in 1..Len(hs) : hs[k] = hooks[i]
    BY <1>2, <2>1 DEF Picked
  <2>3. k \in Q
    BY <1>3, <2>2
  <2>4. \E m \in 1..Len(of) : of[m] = hs[k]
    BY <1>4, <2>3 DEF Picked
  <2>5. of # <<>> /\ 1 \in 1..Len(of)
    BY <1>5, <2>4
  <2>6. PICK l \in Q : of[1] = hs[l]
    BY <1>4, <2>5 DEF Picked
  <2>7. PICK p \in P : hs[l] = hooks[p]
    BY <1>2, <1>3, <2>6 DEF Picked
  <2>8. hooks[p].id = hooks[i].id
    BY <2>6, <2>7
  <2>9. p = i
    BY <1>0, <2>7, <2>8
  <2>. QED
    BY <1>1, <1>6, <2>5, <2>6, <2>7, <2>9
<1>7. CASE stg \notin hooks[i].stages
  <2>1. ASSUME Len(of) # 0 PROVE FALSE
    <3>1. 1 \in 1..Len(of)
      BY <1>5, <2>1
    <3>2. PICK l \in Q : of[1] = hs[l]
      BY <1>4, <3>1 DEF Picked
    <3>3. PICK p \in P : hs[l] = hooks[p]
      BY <1>2, <1>3, <3>2 DEF Picked
    <3>4. hooks[p].id = hooks[i].id
      BY <3>2, <3>3
    <3>5. p = i
      BY <1>0, <3>3, <3>4
    <3>. QED
      BY <1>7, <3>3, <3>5
  <2>. QED
    BY <1>1, <1>5, <1>7, <2>1
<1>. QED
  BY <1>6, <1>7

\* Whatever the repository, the ways to the files of a hook agree.
LEMMA SelectionsAlwaysAgree == SelectionsAgree
<1>1. ASSUME NEW mode \in {"StagedOnly", "AllFiles", "ModifiedSinceTime", "ModifiedSinceCommit", "FileList"},
             NEW r \in BOOLEAN
      PROVE  LET p == ProcessForHooks(SampleHooks, mode, r, Files) IN
             /\ p = ProcessForHooksAsync(SampleHooks, mode, r, Files)
             /\ p = <<>> <=> ~r /\ mode \in {"StagedOnly", "ModifiedSinceCommit"}
             /\ \A i \in DOMAIN SampleHooks :
                   /\ GetFilesForHook(SampleHooks[i], mode, r, Files) = GetFilesForHookAsync(SampleHooks[i], mode, r, Files)
                   /\ p # <<>> => GetFilesForHook(SampleHooks[i], mode, r, Files) = <<p[1][i]>>
  BY DiscoveriesAgree, WhatDiscovers
<1>2. WarmCache(SampleHooks).hook = ProcessForHooks(SampleHooks, "AllFiles", TRUE, {})[1]
  BY WarmthAgrees
<1>3. ASSUME NEW i \in DOMAIN SampleHooks, NEW stg \in {"pre-commit", "pre-push"}, NEW all \in BOOLEAN
      PROVE  /\ FilesOfRun(stg, {}, all) \subseteq FilesOfRunAll(stg, all)
             /\ SampleHooks[i].id = "broken" => FilterFiles(Files, FromHook(SampleHooks[i])) = {}
             /\ SingleHook(SampleHooks, stg, SampleHooks[i].id)
                  = IF stg \in SampleHooks[i].stages THEN <<SampleHooks[i]>> ELSE <<>>
  <2>1. Apart(SampleHooks, 4) /\ i \in 1..4
    BY Samples DEF Apart
  <2>2. SampleHooks[i].id = "broken" => i = 4
    BY Samples
  <2>3. SingleHook(SampleHooks, stg, SampleHooks[i].id)
                  = IF stg \in SampleHooks[i].stages THEN <<SampleHooks[i]>> ELSE <<>>
    BY <2>1, SingleFound
  <2>. QED
    BY <2>2, <2>3, Samples, RunsAgree
<1>. QED
  BY <1>1, <1>2, <1>3, RefsAgree DEF SelectionsAgree

-----------------------------------------------------------------------------
(* All of it, in the part that a behaviour is about.                         *)

CommandsSpec == MCInit /\ [][MCNext]_commandsVars
ReportsInv == InstallInv /\ RewriteInv /\ CleanInv /\ TryInv

LEMMA PartSteps ==
  ASSUME [MCNext]_commandsVars
  PROVE  /\ part' = part
         /\ [InstallNext]_installVars /\ [UpdateNext]_updateVars /\ [CleanNext]_cleanVars
         /\ [TryNext]_tryVars /\ [GitNext]_gitVars
BY DEF MCNext, commandsVars, Stores, Installs, Asks, Updates, Cleans, Tries, Questions

\* What install, uninstall, autoupdate, clean, gc and try-repo report is what they
\* have done, whatever is installed, rewritten, removed or tried, and killed.
THEOREM ReportsAreTrue == CommandsSpec => []ReportsTrue
<1>1. MCInit => ReportsInv
  BY InitInstall, InitRewrite, InitClean, InitTry DEF MCInit, ReportsInv
<1>2. ReportsInv /\ [MCNext]_commandsVars => ReportsInv'
  BY PartSteps, InstallKeeps, RewriteInvKeeps, CleanKeeps, TryKeeps DEF ReportsInv
<1>3. ReportsInv => ReportsTrue
  <2>1. CleanInv => CleanupExact
    BY DEF CleanInv, CleanupExact
  <2>2. InstallInv => ReportTrue
    BY DEF InstallInv
  <2>. QED
    BY <2>1, <2>2, RewriteReports, TryReports DEF ReportsInv, ReportsTrue
<1>. QED
  BY <1>1, <1>2, <1>3, PTL DEF CommandsSpec

\* What git is asked for is answered from the repository as it is or was a time to
\* live ago, and the ways to ask agree in every repository.
THEOREM GitAnswers == CommandsSpec => []GitAnswersAgree
<1>1. MCInit => GitInv
  BY DEF MCInit, GitInit, GitInv
<1>2. GitInv /\ [MCNext]_commandsVars => GitInv'
  BY PartSteps, GitKeeps
<1>3. GitInv => GitAnswersAgree
  BY ViewsAlwaysAgree, SelectionsAlwaysAgree DEF GitInv, AnswersFresh, GitAnswersAgree
<1>. QED
  BY <1>1, <1>2, <1>3, PTL DEF CommandsSpec

-----------------------------------------------------------------------------
(* Configurations: the three places that judge them.                         *)

\* An optional field holds nothing or one value.
\* A list of stages is a sequence.
StagesTyped(c) == \A h \in R!Hooks(c) : h.stages = <<>> \/ \E s : Listed(s) /\ h.stages = <<s>>

\* What one hook contributes to the errors.
HookErrors(h, r) == R!ValidateHook(h, r).errors

LEMMA StageKnown ==
  ASSUME NEW s
  PROVE  /\ R!IsValidStage(s) <=> R!Some(R!StageFromStr(s))
         /\ R!IsValidStage(s) /\ s \notin R!SupportedStages => s \in {"commit", "push"}
         /\ s \in R!SupportedStages => R!IsValidStage(s)
BY DEF R!IsValidStage, R!Some, R!StageFromStr, R!SupportedStages, R!StageNames

\* A hook whose stages are known is one that runs.
LEMMA HookRuns ==
  ASSUME NEW h
  PROVE  R!Some(R!FromConfig(h)) <=> (R!Some(h.stages) => R!AllOf(h.stages[1], R!IsValidStage))
BY StageKnown DEF R!FromConfig, R!AllOf, R!Some

\* Where an error comes from.
LEMMA ErrorSources ==
  ASSUME NEW c
  PROVE  R!ValidateConfig(c).errors =
           (UNION {R!ValidateRepositoryDetailed(c.repos[i]).errors : i \in DOMAIN c.repos})
             \union (R!ValidateGlobalSettings(c).errors \union R!ValidateCrossReferences(c).errors)
<1> DEFINE D == [i \in DOMAIN c.repos |-> R!ValidateRepositoryDetailed(c.repos[i])]
<1>1. R!MergeAll(D).errors = UNION {R!ValidateRepositoryDetailed(c.repos[i]).errors : i \in DOMAIN c.repos}
  BY DEF R!MergeAll, R!Report
<1> HIDE DEF D
<1>2. R!ValidateConfig(c) = R!Merge(R!MergeAll(D), R!Merge(R!ValidateGlobalSettings(c), R!ValidateCrossReferences(c)))
  BY DEF R!ValidateConfig, D
<1>3. \A a, b : R!Merge(a, b).errors = a.errors \union b.errors
  BY DEF R!Merge, R!Report
<1> DEFINE G == R!ValidateGlobalSettings(c)
           X == R!ValidateCrossReferences(c)
           A == R!MergeAll(D)
           B == R!Merge(G, X)
<1>4. R!Merge(A, B).errors = A.errors \union B.errors
  BY <1>3, Zenon
<1>5. B.errors = G.errors \union X.errors
  BY <1>3, Zenon
<1>6. R!ValidateConfig(c) = R!Merge(A, B)
  BY <1>2
<1>7. A.errors = UNION {R!ValidateRepositoryDetailed(c.repos[i]).errors : i \in DOMAIN c.repos}
  BY <1>1
<1> HIDE DEF A, B, G, X
<1>8. R!ValidateConfig(c).errors = A.errors \union (G.errors \union X.errors)
  BY <1>4, <1>5, <1>6
<1>. QED
  BY <1>7, <1>8 DEF G, X

\* The errors of a repository itself.
OwnErrors(r) ==
  R!When(r.repo = "" \/ (r.repo \notin {"local", "meta"} /\ ~R!IsValidGitUrl(r.repo)), "repo")
    \union R!When(r.repo \notin {"local", "meta"} /\ (R!Some(r.rev) => ~R!IsValidRevisionFormat(r.rev[1])), "rev")
    \union R!When(r.hooks = <<>>, "no hook")
LEMMA RepositoryErrors ==
  ASSUME NEW r
  PROVE  R!ValidateRepositoryDetailed(r).errors =
           OwnErrors(r) \union UNION {HookErrors(r.hooks[k], r.repo) : k \in DOMAIN r.hooks}
<1> DEFINE D == [k \in DOMAIN r.hooks |-> R!ValidateHook(r.hooks[k], r.repo)]
<1>1. R!MergeAll(D).errors = UNION {HookErrors(r.hooks[k], r.repo) : k \in DOMAIN r.hooks}
  BY DEF R!MergeAll, R!Report, HookErrors
<1> HIDE DEF D
<1>2. R!ValidateRepositoryDetailed(r) = R!Merge(R!Report(OwnErrors(r), {}), R!MergeAll(D))
  BY DEF R!ValidateRepositoryDetailed, OwnErrors, D
<1>3. R!Merge(R!Report(OwnErrors(r), {}), R!MergeAll(D)).errors = OwnErrors(r) \union R!MergeAll(D).errors
  BY DEF R!Merge, R!Report
<1>. QED
  BY <1>1, <1>2, <1>3

\* What each error of a hook means.
LEMMA HookJudged ==
  ASSUME NEW h, NEW r
  PROVE  LET e == HookErrors(h, r) IN
         /\ e \subseteq {"id", "entry", "files", "exclude", "no stage", "stage"}
         /\ "id" \in e <=> h.id = ""
         /\ "files" \in e <=> ~R!Compiles(h.files)
         /\ "exclude" \in e <=> ~R!Compiles(h.exclude)
         /\ "no stage" \in e <=> h.stages = <<<<>>>>
         /\ "stage" \in e <=> R!Some(h.stages) /\ ~R!AllOf(h.stages[1], LAMBDA s : s \in R!SupportedStages)
BY DEF HookErrors, R!ValidateHook, R!Report, R!When

LEMMA RepositoryJudged ==
  ASSUME NEW r
  PROVE  LET e == OwnErrors(r) IN
         /\ e \subseteq {"repo", "rev", "no hook"}
         /\ "repo" \notin e => r.repo # ""
         /\ "rev" \notin e => r.repo \in {"local", "meta"} \/ R!Some(r.rev)
         /\ "no hook" \in e <=> r.hooks = <<>>
BY DEF OwnErrors, R!When

LEMMA GlobalJudged ==
  ASSUME NEW c
  PROVE  LET e == R!ValidateGlobalSettings(c).errors IN
         /\ e \subseteq {"files", "exclude", "hook type", "default stage"}
         /\ "files" \in e <=> ~R!Compiles(c.files)
         /\ "exclude" \in e <=> ~R!Compiles(c.exclude)
         /\ "hook type" \in e <=> ~R!AllOf(c.types, R!ValidatorHookType)
         /\ "default stage" \in e <=> ~R!AllOf(c.stages, LAMBDA s : s \in R!SupportedStages)
BY DEF R!ValidateGlobalSettings, R!Report, R!When

LEMMA CrossJudged ==
  ASSUME NEW c
  PROVE  \A e \in R!ValidateCrossReferences(c).errors : e \in {"duplicate", "entry"}
BY DEF R!ValidateCrossReferences, R!Report, R!When

\* An error of the configuration is one of a hook, of a repository or of the whole.
LEMMA ErrorOf ==
  ASSUME NEW c, NEW e
  PROVE  e \in R!ValidateConfig(c).errors <=>
           \/ \E i \in DOMAIN c.repos : \/ e \in OwnErrors(c.repos[i])
                                        \/ \E k \in DOMAIN c.repos[i].hooks : e \in HookErrors(c.repos[i].hooks[k], c.repos[i].repo)
           \/ e \in R!ValidateGlobalSettings(c).errors
           \/ e \in R!ValidateCrossReferences(c).errors
<1> DEFINE Of(i) == R!ValidateRepositoryDetailed(c.repos[i]).errors
           G == R!ValidateGlobalSettings(c).errors
           X == R!ValidateCrossReferences(c).errors
<1>1. R!ValidateConfig(c).errors = (UNION {Of(i) : i \in DOMAIN c.repos}) \union (G \union X)
  BY ErrorSources
<1>2. \A i : e \in Of(i) <=> \/ e \in OwnErrors(c.repos[i])
                             \/ \E k \in DOMAIN c.repos[i].hooks : e \in HookErrors(c.repos[i].hooks[k], c.repos[i].repo)
  BY RepositoryErrors
<1> HIDE DEF Of, G, X
<1>3. e \in UNION {Of(i) : i \in DOMAIN c.repos} <=> \E i \in DOMAIN c.repos : e \in Of(i)
  OBVIOUS
<1>4. e \in R!ValidateConfig(c).errors <=> (\E i \in DOMAIN c.repos : e \in Of(i)) \/ e \in G \/ e \in X
  BY <1>1, <1>3
<1>. QED
  BY <1>2, <1>4 DEF G, X

HookAt(c, i, k) == c.repos[i].hooks[k]
LEMMA SomeHook ==
  ASSUME NEW c, NEW h
  PROVE  h \in R!Hooks(c) <=> \E i \in DOMAIN c.repos : \E k \in DOMAIN c.repos[i].hooks : h = HookAt(c, i, k)
BY DEF R!Hooks, HookAt

\* What the loader takes, hook by hook.
LEMMA Loads ==
  ASSUME NEW c
  PROVE  R!ConfigValidate(c) <=>
           /\ \A i \in DOMAIN c.repos :
                 /\ c.repos[i].repo # "" /\ c.repos[i].hooks # <<>>
                 /\ c.repos[i].repo \in {"local", "meta"} \/ R!Some(c.repos[i].rev)
           /\ \A h \in R!Hooks(c) :
                 /\ h.id # "" /\ R!Compiles(h.files) /\ R!Compiles(h.exclude)
                 /\ R!Some(h.stages) => R!AllOf(h.stages[1], R!IsValidStage)
           /\ R!Compiles(c.files) /\ R!Compiles(c.exclude)
           /\ R!AllOf(c.stages, R!IsValidStage) /\ R!AllOf(c.types, R!IsValidHookType)
<1> DEFINE Good(h) == /\ h.id # "" /\ R!Compiles(h.files) /\ R!Compiles(h.exclude)
                      /\ R!Some(h.stages) => R!AllOf(h.stages[1], R!IsValidStage)
           Own(r) == /\ r.repo # "" /\ r.hooks # <<>>
                     /\ r.repo \in {"local", "meta"} \/ R!Some(r.rev)
<1>1. \A h : R!HookValidate(h) <=> Good(h)
  BY DEF R!HookValidate
<1>2. \A r : R!RepositoryValidate(r) <=> Own(r) /\ \A k \in DOMAIN r.hooks : Good(r.hooks[k])
  <2> HIDE DEF Good
  <2>. QED
    BY <1>1 DEF R!RepositoryValidate, R!AllOf
<1>3. R!AllOf(c.repos, R!RepositoryValidate) <=>
         \A i \in DOMAIN c.repos : Own(c.repos[i]) /\ \A k \in DOMAIN c.repos[i].hooks : Good(c.repos[i].hooks[k])
  <2> HIDE DEF Good, Own
  <2>. QED
    BY <1>2 DEF R!AllOf
<1>4. (\A h \in R!Hooks(c) : Good(h)) <=> \A i \in DOMAIN c.repos : \A k \in DOMAIN c.repos[i].hooks : Good(c.repos[i].hooks[k])
  <2> HIDE DEF Good
  <2>. QED
    BY SomeHook DEF HookAt
<1>. QED
  BY <1>3, <1>4 DEF R!ConfigValidate

\* Types of hook, stages.
LEMMA TypesKnown ==
  ASSUME NEW s
  PROVE  /\ R!IsValidHookType(s) => R!ValidatorHookType(s)
         /\ R!ValidatorHookType(s) /\ s \notin {"manual", "merge-commit"} => R!IsValidHookType(s)
BY DEF R!IsValidHookType, R!ValidatorHookType, R!StageNames

\* What the three places say of any configuration.
JudgesOf(c) ==
  LET ok == R!ConfigValidate(c)
      errors == R!ValidateConfig(c).errors IN
  /\ ok => \A h \in R!Hooks(c) : R!Some(R!FromConfig(h))
  /\ ok => errors \subseteq {"stage", "default stage", "no stage", "entry", "repo", "rev", "duplicate"}
  /\ ok /\ "stage" \in errors => \E h \in R!Hooks(c) : R!NamesStage(h, {"commit", "push"})
  /\ ok /\ "default stage" \in errors => ToSet(c.stages) \intersect {"commit", "push"} # {}
  /\ ok /\ errors = {} => \A h \in R!Hooks(c) : h.entry # "" => R!CoreHookValidate(R!FromConfig(h)[1])
  /\ errors = {} /\ ToSet(c.types) \intersect {"manual", "merge-commit"} = {} => ok
  /\ R!FromFile(<<[parses |-> TRUE, config |-> c]>>) = << >> <=> ~ok
  /\ R!ValidateFile(<<[parses |-> FALSE, config |-> c]>>).errors # {} /\ R!ValidateFile(<< >>).errors # {}

LEMMA AnyConfiguration ==
  ASSUME NEW c, StagesTyped(c)
  PROVE  JudgesOf(c)
<1> DEFINE ok == R!ConfigValidate(c)
           errors == R!ValidateConfig(c).errors
<1>1. ASSUME ok, NEW h \in R!Hooks(c) PROVE R!Some(R!FromConfig(h))
  BY <1>1, Loads, HookRuns
<1>2. ASSUME ok PROVE errors \subseteq {"stage", "default stage", "no stage", "entry", "repo", "rev", "duplicate"}
  <2>1. SUFFICES ASSUME NEW e \in errors
                 PROVE  e \in {"stage", "default stage", "no stage", "entry", "repo", "rev", "duplicate"}
    OBVIOUS
  <2>2. ASSUME NEW i \in DOMAIN c.repos, e \in OwnErrors(c.repos[i]) PROVE e \in {"repo", "rev"}
    <3>1. e \in {"repo", "rev", "no hook"} /\ ("no hook" \in OwnErrors(c.repos[i]) <=> c.repos[i].hooks = <<>>)
      BY <2>2, RepositoryJudged
    <3>. QED
      BY <1>2, <2>2, <3>1, Loads
  <2>3. ASSUME NEW i \in DOMAIN c.repos, NEW k \in DOMAIN c.repos[i].hooks, e \in HookErrors(HookAt(c, i, k), c.repos[i].repo)
        PROVE  e \in {"entry", "no stage", "stage"}
    <3>1. HookAt(c, i, k) \in R!Hooks(c)
      BY SomeHook
    <3>2. HookAt(c, i, k).id # "" /\ R!Compiles(HookAt(c, i, k).files) /\ R!Compiles(HookAt(c, i, k).exclude)
      BY <1>2, <3>1, Loads
    <3>. QED
      BY <2>3, <3>2, HookJudged
  <2>4. ASSUME e \in R!ValidateGlobalSettings(c).errors PROVE e = "default stage"
    <3>1. R!AllOf(c.types, R!ValidatorHookType)
      BY <1>2, Loads, TypesKnown DEF R!AllOf
    <3>2. R!Compiles(c.files) /\ R!Compiles(c.exclude)
      BY <1>2, Loads
    <3>. QED
      BY <2>4, <3>1, <3>2, GlobalJudged
  <2>5. ASSUME e \in R!ValidateCrossReferences(c).errors PROVE e \in {"duplicate", "entry"}
    BY <2>5, CrossJudged
  <2>. QED
    BY <2>2, <2>3, <2>4, <2>5, ErrorOf DEF HookAt
<1>3. ASSUME ok, "stage" \in errors PROVE \E h \in R!Hooks(c) : R!NamesStage(h, {"commit", "push"})
  <2>1. \A r : "stage" \notin OwnErrors(r)
    BY RepositoryJudged
  <2>2. "stage" \notin R!ValidateGlobalSettings(c).errors /\ "stage" \notin R!ValidateCrossReferences(c).errors
    BY GlobalJudged, CrossJudged
  <2>3. PICK i \in DOMAIN c.repos : \E k \in DOMAIN c.repos[i].hooks : "stage" \in HookErrors(HookAt(c, i, k), c.repos[i].repo)
    BY <1>3, <2>1, <2>2, ErrorOf DEF HookAt
  <2>4. PICK k \in DOMAIN c.repos[i].hooks : "stage" \in HookErrors(HookAt(c, i, k), c.repos[i].repo)
    BY <2>3
  <2> DEFINE h == HookAt(c, i, k)
  <2>5. h \in R!Hooks(c)
    BY SomeHook
  <2>6. R!Some(h.stages) /\ ~R!AllOf(h.stages[1], LAMBDA s : s \in R!SupportedStages)
    BY <2>4, HookJudged
  <2>7. R!AllOf(h.stages[1], R!IsValidStage)
    BY <1>3, <2>5, <2>6, Loads
  <2> HIDE DEF h
  <2>8. \E j \in DOMAIN h.stages[1] : h.stages[1][j] \in {"commit", "push"}
    BY <2>6, <2>7, StageKnown DEF R!AllOf
  <2>. QED
    BY <2>5, <2>6, <2>8 DEF R!NamesStage
<1>4. ASSUME ok, "default stage" \in errors PROVE ToSet(c.stages) \intersect {"commit", "push"} # {}
  <2>1. \A h, r : "default stage" \notin HookErrors(h, r)
    BY HookJudged
  <2>2. \A r : "default stage" \notin OwnErrors(r)
    BY RepositoryJudged
  <2>3. "default stage" \in R!ValidateGlobalSettings(c).errors
    <3>1. "default stage" \notin R!ValidateCrossReferences(c).errors
      <4>1. \A e \in R!ValidateCrossReferences(c).errors : e \in {"duplicate", "entry"}
        BY CrossJudged
      <4>. QED
        BY <4>1
    <3>. QED
      BY <1>4, <2>1, <2>2, <3>1, ErrorOf
  <2>4. ~R!AllOf(c.stages, LAMBDA s : s \in R!SupportedStages)
    BY <2>3, GlobalJudged
  <2>5. R!AllOf(c.stages, R!IsValidStage)
    BY <1>4, Loads
  <2>6. \E j \in DOMAIN c.stages : c.stages[j] \in {"commit", "push"}
    BY <2>4, <2>5, StageKnown DEF R!AllOf
  <2>. QED
    BY <2>6 DEF ToSet
<1>5. ASSUME ok, errors = {}, NEW h \in R!Hooks(c), h.entry # "" PROVE R!CoreHookValidate(R!FromConfig(h)[1])
  <2>1. PICK i \in DOMAIN c.repos : \E k \in DOMAIN c.repos[i].hooks : h = HookAt(c, i, k)
    BY SomeHook
  <2>2. PICK k \in DOMAIN c.repos[i].hooks : h = HookAt(c, i, k)
    BY <2>1
  <2>3. "no stage" \notin HookErrors(h, c.repos[i].repo)
    BY <1>5, <2>2, ErrorOf DEF HookAt
  <2>4. h.stages # <<<<>>>>
    BY <2>3, HookJudged
  <2>5. h.id # "" /\ R!Compiles(h.files) /\ R!Compiles(h.exclude)
    BY <1>5, Loads
  <2>6. ASSUME R!Some(h.stages) PROVE \E j : j \in DOMAIN h.stages[1]
    <3>1. PICK s : Listed(s) /\ h.stages = <<s>>
      BY <2>6 DEF StagesTyped, R!Some
    <3>2. h.stages[1] = s /\ s # <<>>
      BY <2>4, <3>1
    <3>3. Len(s) \in Nat /\ DOMAIN s = 1..Len(s) /\ Len(s) # 0
      BY <3>1, <3>2 DEF Listed
    <3>4. 1 \in DOMAIN s
      BY <3>3
    <3>. QED
      BY <3>2, <3>4
  <2> DEFINE st == IF R!Some(h.stages) THEN {R!StageFromStr(h.stages[1][j])[1] : j \in DOMAIN h.stages[1]} ELSE {"pre-commit"}
  <2>7. st # {}
    BY <2>6
  <2>8. R!Some(R!FromConfig(h))
    BY <1>1, <1>5
  <2>9. LET f == R!FromConfig(h)[1] IN f.id = h.id /\ f.entry = h.entry /\ f.files = h.files /\ f.exclude = h.exclude /\ f.stages = st
    BY <2>8 DEF R!FromConfig, R!Some
  <2> HIDE DEF st
  <2>. QED
    BY <1>5, <2>5, <2>7, <2>9 DEF R!CoreHookValidate
<1>6. ASSUME errors = {}, ToSet(c.types) \intersect {"manual", "merge-commit"} = {} PROVE ok
  <2>1. /\ \A i \in DOMAIN c.repos : OwnErrors(c.repos[i]) = {}
        /\ \A i \in DOMAIN c.repos : \A k \in DOMAIN c.repos[i].hooks : HookErrors(HookAt(c, i, k), c.repos[i].repo) = {}
        /\ R!ValidateGlobalSettings(c).errors = {}
    BY <1>6, ErrorOf DEF HookAt
  <2>2. ASSUME NEW i \in DOMAIN c.repos
        PROVE  /\ c.repos[i].repo # "" /\ c.repos[i].hooks # <<>>
               /\ c.repos[i].repo \in {"local", "meta"} \/ R!Some(c.repos[i].rev)
    BY <2>1, RepositoryJudged
  <2>3. ASSUME NEW h \in R!Hooks(c)
        PROVE  /\ h.id # "" /\ R!Compiles(h.files) /\ R!Compiles(h.exclude)
               /\ R!Some(h.stages) => R!AllOf(h.stages[1], R!IsValidStage)
    <3>1. PICK r : HookErrors(h, r) = {}
      BY <2>1, SomeHook
    <3>2. R!Some(h.stages) => R!AllOf(h.stages[1], LAMBDA s : s \in R!SupportedStages)
      BY <3>1, HookJudged
    <3>. QED
      BY <3>1, <3>2, HookJudged, StageKnown DEF R!AllOf
  <2>4. R!Compiles(c.files) /\ R!Compiles(c.exclude)
    BY <2>1, GlobalJudged
  <2>5. R!AllOf(c.types, R!ValidatorHookType) /\ R!AllOf(c.stages, LAMBDA s : s \in R!SupportedStages)
    BY <2>1, GlobalJudged
  <2>6. R!AllOf(c.types, R!IsValidHookType)
    BY <1>6, <2>5, TypesKnown DEF R!AllOf, ToSet
  <2>7. R!AllOf(c.stages, R!IsValidStage)
    BY <2>5, StageKnown DEF R!AllOf
  <2>. QED
    BY <2>2, <2>3, <2>4, <2>6, <2>7, Loads
<1>7. R!FromFile(<<[parses |-> TRUE, config |-> c]>>) = << >> <=> ~ok
  BY DEF R!FromFile, R!FromYaml, R!Some
<1>8. R!ValidateFile(<<[parses |-> FALSE, config |-> c]>>).errors # {} /\ R!ValidateFile(<< >>).errors # {}
  BY DEF R!ValidateFile, R!ValidateYaml, R!Report, R!Some
<1>. QED
  BY <1>1, <1>2, <1>3, <1>4, <1>5, <1>6, <1>7, <1>8 DEF JudgesOf

-----------------------------------------------------------------------------
(* Configurations: external hooks.                                           *)

\* A hook as the loader has it.
HookFields == {"id", "entry", "language", "files", "exclude", "stages", "types", "types_or",
               "exclude_types", "always_run", "args"}
IsHook(h) == h = [x \in HookFields |-> h[x]]
\* A local repository before an external one, whose manifest may be missing.
LEMMA MergedHook ==
  ASSUME NEW h, NEW d, IsHook(h)
  PROVE  /\ h.entry = "" => R!MergeHookDefinition(h, d).entry = d.entry
         /\ h.entry # "" => R!MergeHookDefinition(h, d).entry = h.entry
         /\ h.language = "" => R!MergeHookDefinition(h, d).language = d.language
         /\ h.language # "" => R!MergeHookDefinition(h, d).language = h.language
         /\ h.files = <<>> => R!MergeHookDefinition(h, d).files = d.files
         /\ h.files # <<>> => R!MergeHookDefinition(h, d).files = h.files
         /\ h.stages = <<>> => R!MergeHookDefinition(h, d).stages = d.stages
         /\ h.stages # <<>> => R!MergeHookDefinition(h, d).stages = h.stages
BY DEF IsHook, HookFields, R!MergeHookDefinition, R!Or, R!Some

LEMMA LargestNatural ==
  ASSUME NEW n \in Nat, NEW S, S \subseteq 1..n, S # {}
  PROVE  \E m \in S : \A k \in S : k <= m
<1> DEFINE T == {m \in Nat : \A k \in S : k <= m}
<1>1. n \in T
  OBVIOUS
<1>2. PICK b \in T : \A k \in T : b <= k
  <2> HIDE DEF T
  <2>1. T \subseteq Nat
    BY DEF T
  <2>. QED
    BY <1>1, <2>1, LeastNatural
<1>3. PICK k \in S : TRUE
  OBVIOUS
<1>4. b # 0 /\ b - 1 \in Nat
  BY <1>2, <1>3
<1>5. \E x \in S : ~ (x <= b - 1)
  BY <1>2, <1>4
<1>6. b \in S
  BY <1>2, <1>5
<1>. QED
  BY <1>2, <1>6

\* What a repository defines of an id has an entry and a language.
LEMMA Defined ==
  ASSUME NEW text, text = <<>> \/ \E s : Listed(s) /\ (\A i \in DOMAIN s : IsHook(s[i])) /\ text = <<s>>,
         R!Some(R!LoadRepositoryHookDefinitions(text)),
         NEW x \in DOMAIN R!LoadRepositoryHookDefinitions(text)[1]
  PROVE  LET d == R!LoadRepositoryHookDefinitions(text)[1][x] IN d.entry # "" /\ d.language # ""
<1>1. PICK s : Listed(s) /\ (\A i \in DOMAIN s : IsHook(s[i])) /\ text = <<s>>
  BY DEF R!LoadRepositoryHookDefinitions, R!Some
<1>0. text # <<>> /\ text[1] = s
  BY <1>1
<1> DEFINE hit(y) == {i \in DOMAIN text[1] : text[1][i].id = y}
           last(y) == CHOOSE i \in hit(y) : \A j \in hit(y) : j <= i
           D == [y \in {text[1][i].id : i \in DOMAIN text[1]} |-> R!Definition(text[1][last(y)])]
<1>2. R!LoadRepositoryHookDefinitions(text) = <<D>> /\ \A i \in DOMAIN text[1] : text[1][i].id # "" /\ text[1][i].entry # ""
  BY <1>0 DEF R!LoadRepositoryHookDefinitions, R!Some, R!AllOf
<1>3. R!LoadRepositoryHookDefinitions(text)[1] = D
  <2> HIDE DEF D
  <2>1. R!LoadRepositoryHookDefinitions(text) = <<D>>
    BY <1>2, Zenon
  <2>. QED
    BY <2>1, OnlyElement, Zenon
<1>4. x \in {text[1][i].id : i \in DOMAIN text[1]}
  BY <1>3
<1>5. hit(x) # {}
  BY <1>4
<1>6. Len(s) \in Nat /\ DOMAIN s = 1..Len(s)
  BY <1>1, ListLen
<1>7. last(x) \in hit(x)
  <2>1. \E m \in hit(x) : \A k \in hit(x) : k <= m
    <3>1. hit(x) \subseteq 1..Len(s)
      BY <1>0, <1>6
    <3> HIDE DEF hit
    <3>. QED
      BY <1>5, <1>6, <3>1, LargestNatural
  <2> HIDE DEF hit
  <2>. QED
    BY <2>1
<1>8. D[x] = R!Definition(text[1][last(x)])
  BY <1>4
<1>9. last(x) \in DOMAIN text[1]
  BY <1>7
<1> HIDE DEF D, last
<1>10. R!Definition(text[1][last(x)]).entry # "" /\ R!Definition(text[1][last(x)]).language # ""
  <2>1. IsHook(text[1][last(x)]) /\ text[1][last(x)].entry # ""
    BY <1>0, <1>1, <1>2, <1>9
  <2>. QED
    BY <2>1 DEF IsHook, HookFields, R!Definition
<1>. QED
  BY <1>3, <1>8, <1>10

\* A local repository, and an external one beside its manifest.
Resolvable(c, files) ==
  /\ c = [x \in {"repos", "files", "exclude", "stages", "types"} |-> c[x]]
  /\ c.repos = [i \in 1..2 |-> c.repos[i]]
  /\ c.repos[1].repo \in {"local", "meta"} /\ c.repos[2].repo \notin {"local", "meta"}
  /\ c.repos[2] = [x \in {"repo", "rev", "sha", "hooks"} |-> c.repos[2][x]]
  /\ \A k \in DOMAIN c.repos[2].hooks : IsHook(c.repos[2].hooks[k])
  /\ files[2] = <<>> \/ \E s : Listed(s) /\ (\A i \in DOMAIN s : IsHook(s[i])) /\ files[2] = <<s>>

\* What becomes of a hook that its repository defines.
LEMMA ResolvedHook ==
  ASSUME NEW m, NEW d, IsHook(m), d.entry # "", d.language # ""
  PROVE  LET h == R!MergeHookDefinition(m, d) IN
         /\ h.entry # "" /\ h.language # ""
         /\ m.entry # "" => h.entry = m.entry
         /\ R!Some(m.files) => h.files = m.files
         /\ R!HookValidate(m) /\ ~R!Some(R!FromConfig(h)) => ~R!Some(m.stages)
<1>1. R!HookValidate(m) => (R!Some(m.stages) => R!AllOf(m.stages[1], R!IsValidStage))
  BY DEF R!HookValidate
<1>2. /\ m.entry = "" => R!MergeHookDefinition(m, d).entry = d.entry
      /\ m.entry # "" => R!MergeHookDefinition(m, d).entry = m.entry
      /\ m.language = "" => R!MergeHookDefinition(m, d).language = d.language
      /\ m.language # "" => R!MergeHookDefinition(m, d).language = m.language
      /\ m.files = <<>> => R!MergeHookDefinition(m, d).files = d.files
      /\ m.files # <<>> => R!MergeHookDefinition(m, d).files = m.files
      /\ m.stages = <<>> => R!MergeHookDefinition(m, d).stages = d.stages
      /\ m.stages # <<>> => R!MergeHookDefinition(m, d).stages = m.stages
  BY MergedHook
<1>3. R!HookValidate(m) /\ ~R!Some(R!FromConfig(R!MergeHookDefinition(m, d))) => ~R!Some(m.stages)
  BY <1>1, <1>2, HookRuns DEF R!Some
<1>. QED
  BY <1>2, <1>3 DEF R!Some

LEMMA AnyResolution ==
  ASSUME NEW c, NEW files, Resolvable(c, files)
  PROVE  LET r == R!ResolveExternalHooks(c, files)
             own == c.repos[2].hooks
             defs == R!LoadRepositoryHookDefinitions(files[2]) IN
         /\ R!Some(r) <=> R!Some(defs)
         /\ R!Some(r) =>
              /\ r[1].repos[1] = c.repos[1]
              /\ \A k \in DOMAIN own :
                   LET h == r[1].repos[2].hooks[k] IN
                   /\ own[k].id \notin DOMAIN defs[1] => h = own[k]
                   /\ own[k].id \in DOMAIN defs[1] => h.entry # "" /\ h.language # ""
                   /\ own[k].entry # "" => h.entry = own[k].entry
                   /\ R!Some(own[k].files) => h.files = own[k].files
                   /\ R!HookValidate(own[k]) /\ ~R!Some(R!FromConfig(h)) => ~R!Some(own[k].stages)
<1> DEFINE r == R!ResolveExternalHooks(c, files)
           own == c.repos[2].hooks
           defs == R!LoadRepositoryHookDefinitions(files[2])
           external == {i \in DOMAIN c.repos : c.repos[i].repo \notin {"local", "meta"}}
           of(i) == R!LoadRepositoryHookDefinitions(files[i])
           resolve(h, d) == IF h.id \in DOMAIN d THEN R!MergeHookDefinition(h, d[h.id]) ELSE h
           repos == [i \in DOMAIN c.repos |->
                       IF i \in external THEN R!ResolveRepository(c.repos[i], of(i)[1]) ELSE c.repos[i]]
           hooks == [k \in DOMAIN own |-> resolve(own[k], defs[1])]
<1>1. external = {2} /\ DOMAIN c.repos = 1..2
  BY DEF Resolvable
<1>2. r = IF ~R!Some(defs) THEN <<>> ELSE <<[c EXCEPT !.repos = repos]>>
  <2>1. r = IF \E i \in external : ~R!Some(of(i)) THEN <<>> ELSE <<[c EXCEPT !.repos = repos]>>
    BY DEF R!ResolveExternalHooks
  <2>2. (\E i \in external : ~R!Some(of(i))) <=> ~R!Some(defs)
    BY <1>1
  <2> HIDE DEF r, repos, external, of, defs
  <2>. QED
    BY <2>1, <2>2
<1>3. repos[1] = c.repos[1] /\ repos[2].hooks = hooks
  <2>1. 1 \in DOMAIN c.repos /\ 2 \in DOMAIN c.repos /\ 1 \notin external /\ 2 \in external
    BY <1>1
  <2> HIDE DEF external
  <2>2. repos[1] = c.repos[1] /\ repos[2] = R!ResolveRepository(c.repos[2], defs[1])
    BY <2>1
  <2>3. R!ResolveRepository(c.repos[2], defs[1]) = [c.repos[2] EXCEPT !.hooks = hooks]
    BY DEF R!ResolveRepository
  <2> HIDE DEF repos, hooks
  <2>. QED
    BY <2>2, <2>3 DEF Resolvable
<1> HIDE DEF repos, hooks
<1>4. R!Some(r) <=> R!Some(defs)
  <2> HIDE DEF r, defs
  <2>. QED
    BY <1>2 DEF R!Some
<1>5. ASSUME R!Some(r) PROVE r[1].repos[1] = c.repos[1] /\ r[1].repos[2].hooks = hooks
  <2>1. r[1] = [c EXCEPT !.repos = repos]
    <3> HIDE DEF r, defs
    <3>. QED
      BY <1>2, <1>5 DEF R!Some
  <2>2. r[1].repos = repos
    <3> HIDE DEF r
    <3>. QED
      BY <2>1 DEF Resolvable
  <2> HIDE DEF r
  <2>. QED
    BY <1>3, <2>2
<1>6. ASSUME R!Some(r), NEW k \in DOMAIN own
      PROVE  LET h == r[1].repos[2].hooks[k] IN
             /\ own[k].id \notin DOMAIN defs[1] => h = own[k]
             /\ own[k].id \in DOMAIN defs[1] => h.entry # "" /\ h.language # ""
             /\ own[k].entry # "" => h.entry = own[k].entry
             /\ R!Some(own[k].files) => h.files = own[k].files
             /\ R!HookValidate(own[k]) /\ ~R!Some(R!FromConfig(h)) => ~R!Some(own[k].stages)
  <2>1. IsHook(own[k])
    BY DEF Resolvable
  <2>2. own[k].id \in DOMAIN defs[1] => defs[1][own[k].id].entry # "" /\ defs[1][own[k].id].language # ""
    BY <1>4, <1>6, Defined DEF Resolvable
  <2>3. r[1].repos[2].hooks[k] = resolve(own[k], defs[1])
    <3>1. hooks[k] = resolve(own[k], defs[1])
      BY <1>6 DEF hooks
    <3>. QED
      BY <1>5, <1>6, <3>1
  <2>4. CASE own[k].id \notin DOMAIN defs[1]
    <3>1. r[1].repos[2].hooks[k] = own[k]
      BY <2>3, <2>4
    <3>2. R!HookValidate(own[k]) /\ ~R!Some(R!FromConfig(own[k])) => ~R!Some(own[k].stages)
      BY HookRuns DEF R!HookValidate
    <3> HIDE DEF r, own, defs
    <3>. QED
      BY <2>4, <3>1, <3>2
  <2>5. CASE own[k].id \in DOMAIN defs[1]
    <3>1. r[1].repos[2].hooks[k] = R!MergeHookDefinition(own[k], defs[1][own[k].id])
      BY <2>3, <2>5
    <3> HIDE DEF r, own, defs
    <3>. QED
      <4> DEFINE x == own[k]
               d == defs[1][x.id]
    <4>1. IsHook(x) /\ d.entry # "" /\ d.language # ""
      BY <2>1, <2>2, <2>5
    <4> HIDE DEF x, d
    <4>2. LET h == R!MergeHookDefinition(x, d) IN
          /\ h.entry # "" /\ h.language # ""
          /\ x.entry # "" => h.entry = x.entry
          /\ R!Some(x.files) => h.files = x.files
          /\ R!HookValidate(x) /\ ~R!Some(R!FromConfig(h)) => ~R!Some(x.stages)
      BY <4>1, ResolvedHook
    <4>. QED
      BY <2>5, <3>1, <4>2 DEF x, d
  <2>. QED
    BY <2>4, <2>5
<1>. QED
  BY <1>4, <1>5, <1>6

-----------------------------------------------------------------------------
(* Configurations: migrate_config and init_templatedir.                      *)

LEMMA MigrationAlwaysSettles == MigrationSettles
<1> SUFFICES ASSUME NEW c \in OldConfigs, NEW d \in BOOLEAN, NEW b \in BOOLEAN
             PROVE  LET r == ExecuteMigrate(c, d, b) IN
                    /\ r.applied => \/ DetectConfigVersion(r.disk) = "current"
                                    \/ r.disk.stages = "[commit, push]"
                    /\ r.applied => MigrateContent(r.disk) = r.disk
                    /\ r.bak # <<>> => r.bak[1] = c
                    /\ r.disk # c => r.applied /\ (b => r.bak # <<>>)
  BY DEF MigrationSettles
<1> DEFINE m == MigrateContent(c)
           needed == DetectConfigVersion(c) # "current"
           r == ExecuteMigrate(c, d, b)
<1>1. /\ m \in OldConfigs /\ ~m.list /\ ~m.sha /\ ~m.venv
      /\ m.stages = CASE c.stages = "[commit]" -> "[pre-commit]" [] c.stages = "[push]" -> "[pre-push]"
                      [] c.stages = "- commit" -> "- pre-commit" [] c.stages = "- commit-msg" -> "- pre-commit-msg"
                      [] OTHER -> c.stages
  BY DEF MigrateContent, StageNamesMigrated, PythonLanguage, ShaToRev, FromLegacyList, OldConfigs, StageForms
<1>2. m.stages \notin {"[commit]", "[push]", "- commit", "- commit-msg"}
  BY <1>1 DEF OldConfigs, StageForms
<1>3. MigrateContent(m) = m
  <2> HIDE DEF m
  <2>. QED
    BY <1>1, <1>2 DEF MigrateContent, StageNamesMigrated, PythonLanguage, ShaToRev, FromLegacyList, OldConfigs, StageForms
<1>4. DetectConfigVersion(m) = "current" \/ m.stages = "[commit, push]"
  <2> HIDE DEF m
  <2>. QED
    BY <1>1, <1>2 DEF DetectConfigVersion
<1>5. /\ (r.applied <=> (needed /\ ~d)) /\ r.disk = (IF needed /\ ~d THEN m ELSE c)
      /\ r.bak = (IF needed /\ ~d /\ b THEN <<c>> ELSE <<>>)
  BY DEF ExecuteMigrate, NeedsMigration
<1> HIDE DEF r, m, needed
<1>6. r.applied => /\ DetectConfigVersion(r.disk) = "current" \/ r.disk.stages = "[commit, push]"
                   /\ MigrateContent(r.disk) = r.disk
  BY <1>3, <1>4, <1>5
<1>7. r.bak # <<>> => r.bak[1] = c
  <2>1. r.bak # <<>> => r.bak = <<c>>
    BY <1>5, Zenon
  <2>. QED
    BY <2>1, OnlyElement
<1>8. r.disk # c => r.applied /\ (b => r.bak # <<>>)
  <2>1. r.disk # c => needed /\ ~d
    BY <1>5, Zenon
  <2>2. needed /\ ~d /\ b => r.bak = <<c>>
    BY <1>5, Zenon
  <2>. QED
    BY <1>5, <2>1, <2>2
<1>. QED
  BY <1>6, <1>7, <1>8 DEF r

LEMMA TemplatesAlwaysComplete == TemplatesComplete
<1> SUFFICES ASSUME NEW types, NEW cfg, NEW allow \in BOOLEAN,
                    NEW w \in [exists : BOOLEAN, parses : BOOLEAN, dir : BOOLEAN, hooks : {{}, {"pre-commit"}}, executable : {{}}]
             PROVE  LET r == InitTemplatedir(types, cfg, allow, w) IN
                    /\ r.ok => r.valid /\ \A i \in DOMAIN types : TemplateHookScript(types[i]).stage = types[i]
                    /\ ~r.ok => r.disk = w
  BY DEF TemplatesComplete
<1> DEFINE d == SetHookPermissions(InstallGitHooks(CreateTemplateDirectory(w), types), types)
           r == InitTemplatedir(types, cfg, allow, w)
<1>1. d.dir /\ ToSet(types) \subseteq d.hooks /\ ToSet(types) \subseteq d.executable
  BY DEF SetHookPermissions, InstallGitHooks, CreateTemplateDirectory
<1>2. ValidateTemplateDirectory(d, types)
  <2> HIDE DEF d
  <2>. QED
    BY <1>1 DEF ValidateTemplateDirectory
<1>3. r = [ok |-> FALSE, disk |-> w, valid |-> FALSE] \/ r = [ok |-> TRUE, disk |-> d, valid |-> ValidateTemplateDirectory(d, types)]
  BY DEF InitTemplatedir
<1>4. \A i \in DOMAIN types : TemplateHookScript(types[i]).stage = types[i]
  BY DEF TemplateHookScript
<1> HIDE DEF r, d
<1>. QED
  BY <1>2, <1>3, <1>4 DEF r

-----------------------------------------------------------------------------
(* Configurations: the two ways to rewrite a revision.                       *)

LEMMA EntriesOf ==
  ASSUME NEW ls, IsFile(ls), NEW n \in DOMAIN ParseEntries(ls)
  PROVE  LET i == RepoLines(ls)[n] IN
         i \in DOMAIN ls /\ ls[i].key = "repo" /\ ParseEntries(ls)[n] = EntryAt(ls, i)
<1> DEFINE ps == {i \in DOMAIN ls : ls[i].key = "repo"}
           own == [i \in DOMAIN ls |-> i]
<1>1. Len(ls) \in Nat /\ DOMAIN ls = 1..Len(ls)
  BY ListLen DEF IsFile
<1>2. Picked(Subsequence(own, ps), own, ps)
  <2>1. ps \subseteq 1..Len(ls)
    BY <1>1
  <2> HIDE DEF ps, own
  <2>. QED
    BY <1>1, <2>1, SubsequenceOf
<1>3. RepoLines(ls) = Subsequence(own, ps)
  BY DEF RepoLines
<1>4. Listed(RepoLines(ls)) /\ \A k \in 1..Len(RepoLines(ls)) : \E i \in ps : RepoLines(ls)[k] = own[i]
  <2> HIDE DEF ps, own
  <2>. QED
    BY <1>2, <1>3 DEF Picked
<1>5. n \in 1..Len(RepoLines(ls))
  BY <1>4, ListLen DEF ParseEntries
<1>6. \E i \in ps : RepoLines(ls)[n] = i
  BY <1>4, <1>5
<1>. QED
  BY <1>6 DEF ParseEntries

\* The first revision line of an entry with the URL is rewritten.
LEMMA RewrittenAt ==
  ASSUME NEW ls, IsFile(ls), NEW i \in DOMAIN ls, NEW r, ls[i].key = "repo", RevsOf(ls, i) # {}
  PROVE  EntryAt(UpdateYaml(ls, ls[i].url, r), i) = [url |-> ls[i].url, rev |-> r]
<1> DEFINE u == ls[i].url
           new == UpdateYaml(ls, u, r)
           j == FirstRev(ls, i)
<1>1. Len(ls) \in Nat /\ DOMAIN ls = 1..Len(ls)
  BY ListLen DEF IsFile
<1>2. /\ \A k \in DOMAIN ls : new[k] = IF ls[k].key = "rev" /\ InTarget(ls, u, k) THEN RevLine(r) ELSE ls[k]
      /\ \A k \in DOMAIN ls : RevsOf(new, k) = RevsOf(ls, k)
  BY Rewritten
<1> HIDE DEF new
<1>3. j \in RevsOf(ls, i) /\ InTarget(ls, u, j)
  BY FirstRevLine, FirstReached
<1>4. new[CHOOSE k \in RevsOf(new, i) : \A m \in RevsOf(new, i) : k <= m] = new[j]
  BY <1>2 DEF FirstRev
<1> HIDE DEF j, u
<1>5. j \in DOMAIN ls /\ ls[j].key = "rev"
  BY <1>1, <1>3 DEF RevsOf
<1>6. new[j] = RevLine(r)
  BY <1>2, <1>3, <1>5
<1>7. new[j].rev = r
  BY <1>6 DEF RevLine
<1>8. new[i] = ls[i] /\ RevsOf(new, i) # {}
  BY <1>2
<1>9. EntryAt(new, i) = [url |-> u, rev |-> r]
  BY <1>4, <1>7, <1>8 DEF EntryAt, u
<1>. QED
  BY <1>9 DEF new, u

\* The first entry with the URL has the new revision, as in the parsed file.
FirstWith(es, u, n) ==
  /\ n \in DOMAIN es /\ es[n].url = u /\ es[n].rev # ""
  /\ \A k \in DOMAIN es : es[k].url = u => n <= k
LEMMA RewrittenEntry ==
  ASSUME NEW ls, IsFile(ls), NEW u, NEW r, NEW n, FirstWith(ParseEntries(ls), u, n)
  PROVE  ParseEntries(UpdateYaml(ls, u, r))[n] = UpdateParsed(ParseEntries(ls), u, r)[n]
<1> DEFINE new == UpdateYaml(ls, u, r)
           i == RepoLines(ls)[n]
           es == ParseEntries(ls)
           e == es[n]
<1>1. n \in DOMAIN es /\ e.url = u /\ e.rev # ""
  BY DEF FirstWith
<1>2. i \in DOMAIN ls /\ ls[i].key = "repo" /\ e = EntryAt(ls, i)
  BY <1>1, EntriesOf
<1>3. n \in DOMAIN RepoLines(ls)
  BY <1>1 DEF ParseEntries
<1>4. ParseEntries(new) = [k \in DOMAIN RepoLines(new) |-> EntryAt(new, RepoLines(new)[k])]
  BY DEF ParseEntries
<1>5. DOMAIN new = DOMAIN ls /\ \A k \in DOMAIN ls : new[k].key = ls[k].key
  BY Rewritten
<1>6. UpdateParsed(es, u, r)[n] = [e EXCEPT !.rev = r]
  <2> HIDE DEF es
  <2>1. n \in DOMAIN es /\ n \in {k \in DOMAIN es : es[k].url = u} /\ \A k \in {m \in DOMAIN es : es[m].url = u} : n <= k
    BY Zenon DEF FirstWith, es
  <2>. QED
    BY <2>1, Zenon DEF UpdateParsed
<1> HIDE DEF es, i, e, new
<1>7. RepoLines(new) = RepoLines(ls)
  BY <1>5 DEF RepoLines
<1>8. e = [url |-> ls[i].url, rev |-> e.rev] /\ ls[i].url = u /\ RevsOf(ls, i) # {}
  BY <1>1, <1>2 DEF EntryAt
<1>9. EntryAt(new, i) = [url |-> u, rev |-> r]
  BY <1>2, <1>8, RewrittenAt DEF new
<1>10. ParseEntries(new)[n] = EntryAt(new, i)
  BY <1>3, <1>4, <1>7 DEF i
<1>11. [e EXCEPT !.rev = r] = [url |-> u, rev |-> r]
  BY <1>8
<1>. QED
  BY <1>6, <1>9, <1>10, <1>11 DEF new, es

\* A line is the target of a URL whatever was written before.
LEMMA RewrittenTwice ==
  ASSUME NEW ls, IsFile(ls), NEW u, NEW r, NEW t
  PROVE  UpdateYaml(UpdateYaml(ls, u, r), u, t) = UpdateYaml(ls, u, t)
<1> DEFINE new == UpdateYaml(ls, u, r)
<1>1. Len(ls) \in Nat /\ DOMAIN ls = 1..Len(ls)
  BY ListLen DEF IsFile
<1>2. /\ DOMAIN new = DOMAIN ls
      /\ \A j \in DOMAIN ls :
            /\ new[j].key = ls[j].key
            /\ new[j] = IF ls[j].key = "rev" /\ InTarget(ls, u, j) THEN RevLine(r) ELSE ls[j]
  BY Rewritten
<1> HIDE DEF new
<1>3. \A j \in DOMAIN ls : ls[j].key # "rev" => new[j] = ls[j]
  BY <1>2
<1>4. ASSUME NEW j \in DOMAIN ls PROVE InTarget(new, u, j) <=> InTarget(ls, u, j)
  <2>1. \A i \in 1..j - 1 : i \in DOMAIN ls /\ \A k \in i + 1..j - 1 : k \in DOMAIN ls
    BY <1>1
  <2> DEFINE Holds(f, k) == f[k].key = "repo" /\ u \in Within(f[k].url)
             Over(f, k) == f[k].key = "other" \/ Holds(f, k)
  <2>2. \A k \in DOMAIN ls : Holds(new, k) <=> Holds(ls, k)
    <3>1. ASSUME NEW k \in DOMAIN ls PROVE Holds(new, k) <=> Holds(ls, k)
      <4>1. CASE ls[k].key = "rev"
        BY <1>2, <4>1
      <4>2. CASE ls[k].key # "rev"
        BY <1>3, <4>2
      <4>. QED
        BY <4>1, <4>2
    <3>. QED
      BY <3>1
  <2>3. \A k \in DOMAIN ls : Over(new, k) <=> Over(ls, k)
    <3> HIDE DEF Holds
    <3>. QED
      BY <1>2, <2>2
  <2>4. \A f : InTarget(f, u, j) <=> \E i \in 1..j - 1 : Holds(f, i) /\ \A k \in i + 1..j - 1 : Over(f, k)
    BY DEF InTarget
  <2> HIDE DEF Holds, Over
  <2>. QED
    BY <2>1, <2>2, <2>3, <2>4
<1>5. ASSUME NEW j \in DOMAIN ls
      PROVE  (IF new[j].key = "rev" /\ InTarget(new, u, j) THEN RevLine(t) ELSE new[j])
               = (IF ls[j].key = "rev" /\ InTarget(ls, u, j) THEN RevLine(t) ELSE ls[j])
  BY <1>2, <1>4
<1>. QED
  BY <1>2, <1>5 DEF UpdateYaml, new

LEMMA RewrittenByTwo ==
  ASSUME NEW ls, NEW a, NEW b
  PROVE  UpdateAll(ls, <<a, b>>) = UpdateYaml(UpdateYaml(ls, a.url, a.rev), b.url, b.rev)
<1> DEFINE us == <<a, b>>
           one == UpdateYaml(ls, a.url, a.rev)
           two == UpdateYaml(one, b.url, b.rev)
           Text(f) == f = [n \in 0..Len(us) |-> IF n = 0 THEN ls ELSE UpdateYaml(f[n - 1], us[n].url, us[n].rev)]
           w == [n \in 0..2 |-> IF n = 0 THEN ls ELSE IF n = 1 THEN one ELSE two]
           text == CHOOSE f : Text(f)
<1>1. Len(us) = 2 /\ us[1] = a /\ us[2] = b
  OBVIOUS
<1>2. Text(w)
  <2>1. w[0] = ls /\ w[1] = one /\ w[2] = two
    OBVIOUS
  <2>2. ASSUME NEW n \in 0..2
        PROVE  w[n] = IF n = 0 THEN ls ELSE UpdateYaml(w[n - 1], us[n].url, us[n].rev)
    <3>1. CASE n = 0
      BY <2>1, <3>1
    <3>2. CASE n = 1
      BY <1>1, <2>1, <3>2
    <3>3. CASE n = 2
      BY <1>1, <2>1, <3>3
    <3>. QED
      BY <3>1, <3>2, <3>3
  <2>3. w = [n \in 0..2 |-> w[n]]
    OBVIOUS
  <2> HIDE DEF w, us
  <2>. QED
    BY <1>1, <2>2, <2>3
<1>3. Text(text)
  <2> HIDE DEF Text, w
  <2>. QED
    BY <1>2
<1>4. UpdateAll(ls, us) = text[Len(us)]
  BY DEF UpdateAll
<1> HIDE DEF text, w
<1>5. text[0] = ls /\ text[1] = UpdateYaml(text[0], us[1].url, us[1].rev) /\ text[2] = UpdateYaml(text[1], us[2].url, us[2].rev)
  <2>1. \A n \in 0..2 : text[n] = IF n = 0 THEN ls ELSE UpdateYaml(text[n - 1], us[n].url, us[n].rev)
    <3>1. text = [n \in 0..2 |-> IF n = 0 THEN ls ELSE UpdateYaml(text[n - 1], us[n].url, us[n].rev)]
      BY <1>1, <1>3
    <3> HIDE DEF us
    <3>. QED
      BY <3>1
  <2> HIDE DEF us
  <2>2. 0 \in 0..2 /\ 1 \in 0..2 /\ 2 \in 0..2 /\ 1 - 1 = 0 /\ 2 - 1 = 1
    OBVIOUS
  <2>. QED
    BY <2>1, <2>2
<1>. QED
  BY <1>1, <1>4, <1>5

-----------------------------------------------------------------------------
(* Configurations: the services that are asked for versions.                 *)

LEMMA ResponsesListed == \A resp \in Responses : Listed(resp.tags)
<1>1. Listed(<<"v1_1", "v1_0">>) /\ Listed(<<"v2_0rc">>) /\ Listed(<<>>)
  <2>1. <<"v1_1", "v1_0">> \in Seq({"v1_1", "v1_0"})
    OBVIOUS
  <2>2. <<"v2_0rc">> \in Seq({"v2_0rc"})
    OBVIOUS
  <2>3. <<>> \in Seq({})
    OBVIOUS
  <2>. QED
    BY <2>1, <2>2, <2>3, Zenon DEF Listed
<1>2. \A resp \in Responses : resp.tags \in {<<"v1_1", "v1_0">>, <<"v2_0rc">>, <<>>}
  BY DEF Responses
<1>. QED
  BY <1>1, <1>2

\* Both services answer a request alike, with a version of the major or minor asked for.
LEMMA ServicesAgree ==
  ASSUME NEW resp, NEW st
  PROVE  ResolveGithub(resp, st) = ResolveGitlab(resp, st)
BY DEF ResolveGithub, ResolveGitlab, GithubLatestTag, GitlabLatestTag, GithubLatestCommit, GitlabLatestCommit,
       GithubByMajor, GitlabByMajor, GithubByMinor, GitlabByMinor, ListGithubVersions, ListGitlabVersions

\* The versions of a service that is asked for its tags.
LEMMA TagVersions ==
  ASSUME NEW resp, Listed(resp.tags), AllTags(resp) # <<>>
  PROVE  /\ resp.kind = "ok"
         /\ AllTags(resp)[1] = [i \in DOMAIN resp.tags |-> NewVersion(resp.tags[i], <<resp.tags[i]>>)]
         /\ DOMAIN AllTags(resp)[1] \subseteq Nat
<1> DEFINE t == <<resp.tags>>
           V == [i \in DOMAIN resp.tags |-> NewVersion(resp.tags[i], <<resp.tags[i]>>)]
<1>1. resp.kind = "ok" /\ Fetched(resp, "tags") = t
  BY DEF AllTags, Fetched
<1>2. t # <<>> /\ t[1] = resp.tags
  OBVIOUS
<1>3. AllTags(resp) = <<[i \in DOMAIN t[1] |-> NewVersion(t[1][i], <<t[1][i]>>)]>>
  BY <1>1, <1>2 DEF AllTags
<1>4. AllTags(resp) = <<V>>
  BY <1>2, <1>3
<1>5. AllTags(resp)[1] = V
  <2> HIDE DEF V
  <2>. QED
    BY <1>4, OnlyElement
<1>. QED
  BY <1>1, <1>5, ListLen

LEMMA ServesMajor ==
  ASSUME NEW resp, Listed(resp.tags), NEW ma, NEW mi
  PROVE  /\ GithubByMajor(resp, ma) # <<>> => GithubByMajor(resp, ma)[1].version[1][1] = ma
         /\ GithubByMinor(resp, ma, mi) # <<>> =>
              GithubByMinor(resp, ma, mi)[1].version[1][1] = ma /\ GithubByMinor(resp, ma, mi)[1].version[1][2] = mi
<1> DEFINE L == AllTags(resp)
           V == L[1]
           atMajor == {i \in DOMAIN V : V[i].version # <<>> /\ V[i].version[1][1] = ma}
           atMinor == {i \in DOMAIN V : V[i].version # <<>> /\ V[i].version[1][1] = ma /\ V[i].version[1][2] = mi}
           first(S) == CHOOSE i \in S : \A j \in S : i <= j
<1>1. L # <<>> => DOMAIN V \subseteq Nat
  BY TagVersions
<1>2. ASSUME NEW S \in SUBSET Nat, S # {} PROVE first(S) \in S
  <2>1. \E i \in S : \A j \in S : i <= j
    BY <1>2, LeastNatural
  <2>. QED
    BY <2>1
<1>3. GithubByMajor(resp, ma) # <<>> => L # <<>> /\ atMajor # {} /\ GithubByMajor(resp, ma) = <<V[first(atMajor)]>>
  BY DEF GithubByMajor, ListGithubVersions, FirstOf
<1>4. GithubByMinor(resp, ma, mi) # <<>> => L # <<>> /\ atMinor # {} /\ GithubByMinor(resp, ma, mi) = <<V[first(atMinor)]>>
  BY Zenon DEF GithubByMinor, ListGithubVersions, FirstOf
<1> HIDE DEF L, first
<1>5. ASSUME GithubByMajor(resp, ma) # <<>> PROVE GithubByMajor(resp, ma)[1].version[1][1] = ma
  <2>1. first(atMajor) \in atMajor
    <3>1. atMajor \in SUBSET Nat /\ atMajor # {}
      BY <1>1, <1>3, <1>5
    <3> HIDE DEF atMajor
    <3>. QED
      BY <1>2, <3>1
  <2>2. GithubByMajor(resp, ma)[1] = V[first(atMajor)]
    BY <1>3, <1>5, OnlyElement, SMTT(30)
  <2>. QED
    BY <2>1, <2>2, Zenon
<1>6. ASSUME GithubByMinor(resp, ma, mi) # <<>>
      PROVE  GithubByMinor(resp, ma, mi)[1].version[1][1] = ma /\ GithubByMinor(resp, ma, mi)[1].version[1][2] = mi
  <2>1. first(atMinor) \in atMinor
    <3>1. atMinor \in SUBSET Nat /\ atMinor # {}
      BY <1>1, <1>4, <1>6
    <3> HIDE DEF atMinor
    <3>. QED
      BY <1>2, <3>1
  <2>2. GithubByMinor(resp, ma, mi)[1] = V[first(atMinor)]
    BY <1>4, <1>6, OnlyElement
  <2>. QED
    BY <2>1, <2>2, Zenon
<1>. QED
  BY <1>5, <1>6

\* The newest tag is the first of the list.
LEMMA NewestFirst ==
  ASSUME NEW resp, Listed(resp.tags), NEW u,
         ListVersions(u, resp) # <<>>, ResolveVersion(u, resp, LatestTag) # <<>>
  PROVE  ResolveVersion(u, resp, LatestTag)[1] = ListVersions(u, resp)[1][1]
<1>1. ListVersions(u, resp) = AllTags(resp)
  BY DEF ListVersions, ListGithubVersions, ListGitlabVersions, ListGitVersions
<1>2. ResolveVersion(u, resp, LatestTag) = FirstTag(resp)
  BY DEF ResolveVersion, ResolveGithub, ResolveGitlab, ResolveGit, GithubLatestTag, GitlabLatestTag, LatestTag
<1>3. /\ resp.kind = "ok"
      /\ AllTags(resp)[1] = [i \in DOMAIN resp.tags |-> NewVersion(resp.tags[i], <<resp.tags[i]>>)]
  BY <1>1, TagVersions
<1> DEFINE t == <<resp.tags>>
<1>4. Fetched(resp, "tags") = t
  BY <1>3 DEF Fetched
<1>5. t # <<<<>>>> /\ FirstTag(resp) = <<NewVersion(t[1][1], <<t[1][1]>>)>>
  <2> HIDE DEF t
  <2>. QED
    BY <1>2, <1>4 DEF FirstTag
<1>6. t[1] = resp.tags /\ resp.tags # <<>>
  BY <1>5
<1>7. 1 \in DOMAIN resp.tags
  <2>1. Len(resp.tags) \in Nat /\ DOMAIN resp.tags = 1..Len(resp.tags) /\ Len(resp.tags) # 0
    BY <1>6, ListLen DEF Listed
  <2>. QED
    BY <2>1
<1>8. FirstTag(resp)[1] = NewVersion(t[1][1], <<t[1][1]>>)
  BY <1>5, OnlyElement
<1>9. AllTags(resp)[1][1] = NewVersion(resp.tags[1], <<resp.tags[1]>>)
  BY <1>3, <1>7
<1> HIDE DEF t
<1>. QED
  BY <1>1, <1>2, <1>6, <1>8, <1>9

LEMMA RewritingsAlwaysAgree == RewritingsAgree
<1>1. ASSUME NEW ls \in Originals, NEW u \in Urls
      PROVE  LET es == ParseEntries(ls)
                 new == ParseEntries(UpdateYaml(ls, u, "v9"))
                 hits == {n \in DOMAIN es : es[n].url = u /\ es[n].rev # ""}
             IN /\ Len(new) = Len(es)
                /\ \A n \in hits : (\A k \in DOMAIN es : es[k].url = u => n <= k)
                       => new[n] = UpdateParsed(es, u, "v9")[n]
                /\ UpdateAll(ls, <<[url |-> u, rev |-> "v9"], [url |-> u, rev |-> "v8"]>>) = UpdateYaml(ls, u, "v8")
  <2> DEFINE es == ParseEntries(ls)
             new == ParseEntries(UpdateYaml(ls, u, "v9"))
             hits == {n \in DOMAIN es : es[n].url = u /\ es[n].rev # ""}
  <2>1. IsFile(ls)
    <3>1. ls \in Seq(Lines) /\ \A j \in DOMAIN ls : ls[j].key = "repo" => ls[j].url \in Urls
      BY UpdateAssumption
    <3>2. \A j \in DOMAIN ls : ls[j] \in Lines
      BY <3>1
    <3>3. \A j \in DOMAIN ls : ls[j].key \in {"repo", "rev", "other"}
      BY <3>2 DEF Lines
    <3>. QED
      BY <3>1, <3>3 DEF IsFile, Listed
  <2>2. Len(new) = Len(es)
    <3>1. /\ DOMAIN UpdateYaml(ls, u, "v9") = DOMAIN ls
          /\ \A k \in DOMAIN ls : UpdateYaml(ls, u, "v9")[k].key = ls[k].key
      BY <2>1, Rewritten
    <3>2. RepoLines(UpdateYaml(ls, u, "v9")) = RepoLines(ls)
      BY <3>1 DEF RepoLines
    <3>3. \E n \in Nat : DOMAIN RepoLines(ls) = 1..n
      <4>1. Len(ls) \in Nat /\ {i \in DOMAIN ls : ls[i].key = "repo"} \subseteq 1..Len(ls)
        BY <2>1, ListLen DEF IsFile
      <4>2. Cardinality({i \in DOMAIN ls : ls[i].key = "repo"}) \in Nat
        BY <4>1, RankSteps DEF Ranked
      <4>. QED
        BY <4>2 DEF RepoLines, Subsequence
    <3>4. PICK n \in Nat : DOMAIN RepoLines(ls) = 1..n
      BY <3>3
    <3>5. es = [k \in 1..n |-> es[k]] /\ new = [k \in 1..n |-> new[k]]
      BY <3>2, <3>4 DEF ParseEntries
    <3> HIDE DEF es, new
    <3>. QED
      BY <3>5, ListTable
  <2>3. ASSUME NEW n \in hits, \A k \in DOMAIN es : es[k].url = u => n <= k
        PROVE  new[n] = UpdateParsed(es, u, "v9")[n]
    <3>1. FirstWith(es, u, n)
      BY <2>3, Zenon DEF FirstWith
    <3> HIDE DEF hits
    <3>. QED
      BY <2>1, <3>1, RewrittenEntry, Zenon
  <2>4. UpdateAll(ls, <<[url |-> u, rev |-> "v9"], [url |-> u, rev |-> "v8"]>>) = UpdateYaml(ls, u, "v8")
    <3> DEFINE a == [url |-> u, rev |-> "v9"]
               b == [url |-> u, rev |-> "v8"]
    <3>1. a.url = u /\ a.rev = "v9" /\ b.url = u /\ b.rev = "v8"
      OBVIOUS
    <3> HIDE DEF a, b
    <3>2. UpdateAll(ls, <<a, b>>) = UpdateYaml(ls, u, "v8")
      BY <2>1, <3>1, RewrittenByTwo, RewrittenTwice
    <3>. QED
      BY <3>2 DEF a, b
  <2> HIDE DEF es, new
  <2>. QED
    BY <2>2, <2>3, <2>4 DEF es, new
<1>2. ASSUME NEW resp \in Responses
      PROVE  /\ \A s \in {"LatestTag", "LatestStable", "LatestCommit", "MajorVersion", "MinorVersion"}, ma, mi \in 0..2 :
                   LET st == [is |-> s, major |-> ma, minor |-> mi]
                       v == ResolveGithub(resp, st)
                   IN /\ v = ResolveGitlab(resp, st)
                      /\ v # <<>> /\ s \in {"MajorVersion", "MinorVersion"} =>
                            v[1].version[1][1] = ma /\ (s = "MinorVersion" => v[1].version[1][2] = mi)
             /\ \A u \in Urls : ListVersions(u, resp) # <<>> /\ ResolveVersion(u, resp, LatestTag) # <<>> =>
                   ResolveVersion(u, resp, LatestTag)[1] = ListVersions(u, resp)[1][1]
  <2>1. Listed(resp.tags)
    BY ResponsesListed
  <2>2. ASSUME NEW s \in {"LatestTag", "LatestStable", "LatestCommit", "MajorVersion", "MinorVersion"}, NEW ma \in 0..2, NEW mi \in 0..2
        PROVE  LET st == [is |-> s, major |-> ma, minor |-> mi]
                   v == ResolveGithub(resp, st)
               IN /\ v = ResolveGitlab(resp, st)
                  /\ v # <<>> /\ s \in {"MajorVersion", "MinorVersion"} =>
                        v[1].version[1][1] = ma /\ (s = "MinorVersion" => v[1].version[1][2] = mi)
    <3> DEFINE st == [is |-> s, major |-> ma, minor |-> mi]
               v == ResolveGithub(resp, st)
    <3>1. s = "MajorVersion" => v = GithubByMajor(resp, ma)
      BY DEF ResolveGithub
    <3>2. s = "MinorVersion" => v = GithubByMinor(resp, ma, mi)
      BY DEF ResolveGithub
    <3>3. v = ResolveGitlab(resp, st)
      BY ServicesAgree
    <3> HIDE DEF v
    <3>4. CASE s = "MajorVersion"
      <4>1. GithubByMajor(resp, ma) # <<>> => GithubByMajor(resp, ma)[1].version[1][1] = ma
        BY <2>1, ServesMajor, Zenon
      <4>. QED
        BY <3>1, <3>3, <3>4, <4>1 DEF v
    <3>5. CASE s = "MinorVersion"
      <4>1. GithubByMinor(resp, ma, mi) # <<>> =>
              GithubByMinor(resp, ma, mi)[1].version[1][1] = ma /\ GithubByMinor(resp, ma, mi)[1].version[1][2] = mi
        BY <2>1, ServesMajor
      <4>. QED
        BY <3>2, <3>3, <3>5, <4>1 DEF v
    <3>6. CASE s \notin {"MajorVersion", "MinorVersion"}
      BY <3>3, <3>6 DEF v
    <3>. QED
      BY <3>4, <3>5, <3>6
  <2>3. ASSUME NEW u \in Urls, ListVersions(u, resp) # <<>>, ResolveVersion(u, resp, LatestTag) # <<>>
        PROVE  ResolveVersion(u, resp, LatestTag)[1] = ListVersions(u, resp)[1][1]
    BY <2>1, <2>3, NewestFirst, Zenon
  <2>. QED
    BY <2>2, <2>3, Zenon
<1>. QED
  BY <1>1, <1>2, Zenon DEF RewritingsAgree

-----------------------------------------------------------------------------
(* Configurations: the files a hook is given.                                *)

Wanted(flt, f) ==
  /\ R!Some(flt.include) => f \in flt.include[1]
  /\ R!Some(flt.exclude) => f \notin flt.exclude[1]
Typed(flt) == flt.types # {} \/ flt.exclude_types # {}
Fits(flt, t) ==
  /\ flt.types = {} \/ t[1] \intersect flt.types # {}
  /\ t[1] \intersect flt.exclude_types = {}

\* A file can be judged unless its type is asked for and it is missing, and then
\* it fits by its name and by its types.
LEMMA MatchesMean ==
  ASSUME NEW flt, NEW f, NEW t
  PROVE  LET m == R!MatchesTyped(flt, f, t) IN
         /\ R!Some(m) <=> (Typed(flt) /\ Wanted(flt, f) => R!Some(t))
         /\ R!Some(m) => (m[1] <=> Wanted(flt, f) /\ (Typed(flt) => Fits(flt, t)))
<1> DEFINE m == R!MatchesTyped(flt, f, t)
           fit == flt.exclude_types \intersect t[1] = {}
                  /\ (flt.types = {} \/ flt.types \intersect t[1] # {})
<1>1. CASE ~Wanted(flt, f)
  <2>1. m = <<FALSE>>
    BY <1>1 DEF R!MatchesTyped, Wanted
  <2>. QED
    BY <1>1, <2>1 DEF R!Some
<1>2. CASE Wanted(flt, f) /\ ~Typed(flt)
  <2>1. m = <<TRUE>>
    BY <1>2 DEF R!MatchesTyped, Wanted, Typed
  <2>. QED
    BY <1>2, <2>1 DEF R!Some
<1>3. CASE Wanted(flt, f) /\ Typed(flt) /\ ~R!Some(t)
  <2>1. m = <<>>
    BY <1>3 DEF R!MatchesTyped, Wanted, Typed
  <2>. QED
    BY <1>3, <2>1 DEF R!Some
<1>4. CASE Wanted(flt, f) /\ Typed(flt) /\ R!Some(t)
  <2>1. m = <<fit>>
    BY <1>4 DEF R!MatchesTyped, Wanted, Typed
  <2>2. fit <=> Fits(flt, t)
    BY DEF Fits
  <2>3. R!Some(m) /\ m[1] = fit
    <3> HIDE DEF fit
    <3>. QED
      BY <2>1 DEF R!Some
  <2>4. m[1] <=> fit
    BY <2>3
  <2> HIDE DEF fit, m
  <2>. QED
    BY <1>4, <2>2, <2>3, <2>4 DEF m
<1>. QED
  BY <1>1, <1>2, <1>3, <1>4

LEMMA SameSubsequence == ASSUME NEW s, NEW ps PROVE R!Subsequence(s, ps) = Subsequence(s, ps)
BY Zenon DEF R!Subsequence, Subsequence, R!Rank, Rank, R!Cardinality, Cardinality

\* What a filter keeps of a list of files.
Fitting(flt, files, d) ==
  {i \in DOMAIN files : Wanted(flt, files[i]) /\ (Typed(flt) => Fits(flt, R!DetectFileType(d[files[i]])))}
LEMMA FilterMeans ==
  ASSUME NEW flt, NEW files, NEW d
  PROVE  LET r == R!FilterFiles(flt, files, d) IN
         /\ R!Some(r) <=> \A i \in DOMAIN files : Typed(flt) /\ Wanted(flt, files[i]) => d[files[i]] # <<>>
         /\ R!Some(r) => r = <<Subsequence(files, Fitting(flt, files, d))>>
<1> DEFINE m(f) == R!Matches(flt, f, d)
           t(f) == R!DetectFileType(d[f])
           ok == \A i \in DOMAIN files : R!Some(m(files[i]))
           r == R!FilterFiles(flt, files, d)
           ps == {i \in DOMAIN files : m(files[i])[1]}
<1>1. \A f : R!Some(t(f)) <=> d[f] # <<>>
  BY DEF R!DetectFileType, R!Some
<1>2. \A f : /\ R!Some(m(f)) <=> (Typed(flt) /\ Wanted(flt, f) => R!Some(t(f)))
             /\ R!Some(m(f)) => (m(f)[1] <=> Wanted(flt, f) /\ (Typed(flt) => Fits(flt, t(f))))
  BY MatchesMean DEF R!Matches
<1>3. r = IF ~ok THEN <<>> ELSE <<Subsequence(files, ps)>>
  BY SameSubsequence DEF R!FilterFiles, R!AllOf
<1> HIDE DEF m, t, r
<1>4. R!Some(r) <=> ok
  BY <1>3 DEF R!Some
<1>5. ok <=> \A i \in DOMAIN files : Typed(flt) /\ Wanted(flt, files[i]) => d[files[i]] # <<>>
  BY <1>1, <1>2
<1>6. ASSUME ok PROVE ps = Fitting(flt, files, d)
  BY <1>2, <1>6 DEF Fitting, t
<1>7. ok => r = <<Subsequence(files, Fitting(flt, files, d))>>
  <2> HIDE DEF ok, ps
  <2>. QED
    BY <1>3, <1>6
<1> HIDE DEF ok
<1>. QED
  BY <1>4, <1>5, <1>7 DEF r

\* A table that takes every place once leaves out none.
LEMMA Reordered ==
  ASSUME NEW n \in Nat, NEW g \in [1..n -> 1..n], \A i, j \in 1..n : i # j => g[i] # g[j], NEW s, DOMAIN s = 1..n
  PROVE  ToSet([i \in 1..n |-> s[g[i]]]) = ToSet(s)
<1>1. g \in Injection(1..n, 1..n)
  BY Zenon DEF Injection, IsInjective
<1>2. IsFiniteSet(1..n)
  BY FS_Interval
<1>3. g \in Surjection(1..n, 1..n)
  BY <1>1, <1>2, FS_Injection
<1>4. \A k \in 1..n : \E i \in 1..n : g[i] = k
  BY <1>3 DEF Surjection
<1> DEFINE t == [i \in 1..n |-> s[g[i]]]
<1>5. DOMAIN t = 1..n /\ \A i \in 1..n : t[i] = s[g[i]] /\ g[i] \in 1..n
  OBVIOUS
<1> HIDE DEF t
<1>6. {t[i] : i \in 1..n} = {s[i] : i \in 1..n}
  BY <1>4, <1>5
<1>. QED
  BY <1>5, <1>6 DEF ToSet, t

\* The asynchronous filter keeps the same files, in some order.
LEMMA AsyncMeans ==
  ASSUME NEW flt, NEW files, Listed(files), NEW d, NEW a \in R!FilterFilesAsync(flt, files, d)
  PROVE  LET r == R!FilterFiles(flt, files, d) IN
         /\ R!Some(a) <=> R!Some(r)
         /\ R!Some(a) => ToSet(a[1]) = ToSet(r[1])
<1> DEFINE r == R!FilterFiles(flt, files, d)
           m(f) == R!Matches(flt, f, d)
           ok == \A i \in DOMAIN files : R!Some(m(files[i]))
           kept == Subsequence(files, {i \in DOMAIN files : m(files[i])[1]})
           G == {h \in [DOMAIN kept -> DOMAIN kept] : \A i, j \in DOMAIN h : i # j => h[i] # h[j]}
<1>1. r = IF ~ok THEN <<>> ELSE <<kept>>
  BY SameSubsequence DEF R!FilterFiles, R!AllOf
<1>2. R!FilterFilesAsync(flt, files, d) = IF ~ok THEN {<<>>} ELSE {<<[i \in DOMAIN kept |-> kept[g[i]]]>> : g \in G}
  BY Zenon DEF R!FilterFilesAsync, R!AllOf, R!MatchesAsync, R!Matches, R!DetectFileTypeAsync,
     R!Subsequence, Subsequence, R!Rank, Rank, R!Cardinality, Cardinality
<1>3. \E n \in Nat : DOMAIN kept = 1..n
  <2> DEFINE ps == {i \in DOMAIN files : m(files[i])[1]}
  <2>1. Len(files) \in Nat /\ ps \subseteq 1..Len(files)
    BY ListLen
  <2> HIDE DEF ps
  <2>2. Cardinality(ps) \in Nat
    BY <2>1, RankSteps DEF Ranked
  <2>. QED
    BY <2>2 DEF Subsequence, ps
<1>4. PICK n \in Nat : DOMAIN kept = 1..n
  BY <1>3
<1> HIDE DEF kept, r, ok
<1>5. CASE ~ok
  BY <1>1, <1>2, <1>5 DEF R!Some, r
<1>6. CASE ok
  <2>1. r = <<kept>>
    BY <1>1, <1>6
  <2>2. PICK g \in G : a = <<[i \in DOMAIN kept |-> kept[g[i]]]>>
    BY <1>2, <1>6
  <2>3. g \in [1..n -> 1..n] /\ \A i, j \in 1..n : i # j => g[i] # g[j]
    BY <1>4, <2>2
  <2>4. ToSet([i \in 1..n |-> kept[g[i]]]) = ToSet(kept)
    BY <1>4, <2>3, Reordered
  <2> DEFINE b == [i \in 1..n |-> kept[g[i]]]
  <2>5. a = <<b>>
    BY <1>4, <2>2
  <2> HIDE DEF b
  <2>6. a[1] = b /\ r[1] = kept
    BY <2>1, <2>5, OnlyElement
  <2>7. R!Some(a) /\ R!Some(r)
    BY <2>1, <2>5 DEF R!Some
  <2>. QED
    BY <2>4, <2>6, <2>7 DEF b, r
<1>. QED
  BY <1>5, <1>6

\* What the negative cache has made of the files that were done.
Cached(a, done, flt, d, bloom) ==
  LET m(f) == R!Matches(flt, f, d) IN
  /\ a = [out |-> a.out, failed |-> a.failed, bloom |-> a.bloom, misses |-> a.misses]
  /\ a.failed \in BOOLEAN /\ Listed(a.out)
  /\ a.failed => \E f \in done : ~R!Some(m(f))
  /\ a.bloom = bloom \union a.misses
  /\ \A f \in a.misses : R!Some(m(f)) /\ ~m(f)[1]
  /\ \A f \in ToSet(a.out) : f \in done /\ f \notin bloom /\ R!Some(m(f)) /\ m(f)[1]
  /\ ~a.failed => \A f \in done : f \notin bloom /\ m(f)[1] => f \in ToSet(a.out)

LEMMA AppendedSet ==
  ASSUME NEW s, NEW x, Listed(s)
  PROVE  ToSet(Append(s, x)) = ToSet(s) \union {x}
<1> DEFINE t == Append(s, x)
<1>1. /\ Listed(t) /\ Len(t) = Len(s) + 1 /\ Len(s) \in Nat /\ DOMAIN s = 1..Len(s) /\ DOMAIN t = 1..Len(t)
      /\ \A n \in 1..Len(s) : t[n] = s[n]
      /\ t[Len(s) + 1] = x
  BY ListAppend, ListLen
<1> HIDE DEF t
<1>2. \A y : y \in ToSet(t) <=> \E i \in 1..Len(s) + 1 : t[i] = y
  BY <1>1 DEF ToSet
<1>3. \A y : y \in ToSet(s) <=> \E i \in 1..Len(s) : s[i] = y
  BY <1>1 DEF ToSet
<1>4. ASSUME NEW y PROVE y \in ToSet(t) <=> y \in ToSet(s) \/ y = x
  <2>1. \A i : i \in 1..Len(s) + 1 <=> i \in 1..Len(s) \/ i = Len(s) + 1
    BY <1>1
  <2>. QED
    BY <1>1, <1>2, <1>3, <2>1
<1>. QED
  BY <1>4 DEF t

LEMMA CachedStep ==
  ASSUME NEW a, NEW done, NEW flt, NEW d, NEW bloom, NEW f, Cached(a, done, flt, d, bloom)
  PROVE  Cached(R!NegativeStep(a, f, flt, d), done \union {f}, flt, d, bloom)
<1> DEFINE m(x) == R!Matches(flt, x, d)
           b == R!NegativeStep(a, f, flt, d)
<1>1. /\ a = [out |-> a.out, failed |-> a.failed, bloom |-> a.bloom, misses |-> a.misses]
      /\ a.failed \in BOOLEAN /\ Listed(a.out)
      /\ a.failed => \E x \in done : ~R!Some(m(x))
      /\ a.bloom = bloom \union a.misses
      /\ \A x \in a.misses : R!Some(m(x)) /\ ~m(x)[1]
      /\ \A x \in ToSet(a.out) : x \in done /\ x \notin bloom /\ R!Some(m(x)) /\ m(x)[1]
      /\ ~a.failed => \A x \in done : x \notin bloom /\ m(x)[1] => x \in ToSet(a.out)
  BY DEF Cached
<1>2. SUFFICES
      /\ b = [out |-> b.out, failed |-> b.failed, bloom |-> b.bloom, misses |-> b.misses]
      /\ b.failed \in BOOLEAN /\ Listed(b.out)
      /\ b.failed => \E x \in done \union {f} : ~R!Some(m(x))
      /\ b.bloom = bloom \union b.misses
      /\ \A x \in b.misses : R!Some(m(x)) /\ ~m(x)[1]
      /\ \A x \in ToSet(b.out) : x \in done \union {f} /\ x \notin bloom /\ R!Some(m(x)) /\ m(x)[1]
      /\ ~b.failed => \A x \in done \union {f} : x \notin bloom /\ m(x)[1] => x \in ToSet(b.out)
  BY DEF Cached
<1>3. CASE a.failed \/ f \in a.bloom \/ f \in a.misses
  <2>1. b = a
    BY <1>3 DEF R!NegativeStep
  <2> HIDE DEF b, m
  <2>. QED
    BY <1>1, <1>3, <2>1
<1>4. CASE ~(a.failed \/ f \in a.bloom \/ f \in a.misses) /\ ~R!Some(m(f))
  <2>1. b = [a EXCEPT !.failed = TRUE]
    BY <1>4 DEF R!NegativeStep
  <2>2. b = [out |-> a.out, failed |-> TRUE, bloom |-> a.bloom, misses |-> a.misses]
    BY <1>1, <2>1
  <2> HIDE DEF b, m
  <2>. QED
    BY <1>1, <1>4, <2>2
<1>5. CASE ~(a.failed \/ f \in a.bloom \/ f \in a.misses) /\ R!Some(m(f)) /\ m(f)[1]
  <2>1. b = [a EXCEPT !.out = Append(@, f)]
    BY <1>5 DEF R!NegativeStep
  <2>2. b = [out |-> Append(a.out, f), failed |-> a.failed, bloom |-> a.bloom, misses |-> a.misses]
    BY <1>1, <2>1
  <2>3. Listed(Append(a.out, f)) /\ ToSet(Append(a.out, f)) = ToSet(a.out) \union {f}
    BY <1>1, ListAppend, AppendedSet
  <2> DEFINE o == Append(a.out, f)
  <2> HIDE DEF b, m, o
  <2>4. b.out = o /\ b.failed = a.failed /\ b.bloom = a.bloom /\ b.misses = a.misses
    BY <2>2 DEF o
  <2>5. Listed(o) /\ ToSet(o) = ToSet(a.out) \union {f}
    BY <2>3 DEF o
  <2>6. b = [out |-> b.out, failed |-> b.failed, bloom |-> b.bloom, misses |-> b.misses]
    BY <2>2
  <2>. QED
    BY <1>1, <1>5, <2>4, <2>5, <2>6
<1>6. CASE ~(a.failed \/ f \in a.bloom \/ f \in a.misses) /\ R!Some(m(f)) /\ ~m(f)[1]
  <2>1. b = [a EXCEPT !.misses = @ \union {f}, !.bloom = @ \union {f}]
    BY <1>6 DEF R!NegativeStep
  <2>2. b = [out |-> a.out, failed |-> a.failed, bloom |-> a.bloom \union {f}, misses |-> a.misses \union {f}]
    BY <1>1, <2>1
  <2> HIDE DEF b, m
  <2>3. b.out = a.out /\ b.failed = a.failed /\ b.bloom = a.bloom \union {f} /\ b.misses = a.misses \union {f}
    BY <2>2
  <2>4. b = [out |-> b.out, failed |-> b.failed, bloom |-> b.bloom, misses |-> b.misses]
    BY <2>2
  <2>. QED
    BY <1>1, <1>6, <2>3, <2>4
<1>. QED
  BY <1>1, <1>3, <1>4, <1>5, <1>6

\* Two files, one after the other.
LEMMA NegativeRunOfTwo ==
  ASSUME NEW flt, NEW x, NEW y, NEW d, NEW c
  PROVE  R!FilterFilesWithNegativeCache(flt, <<x, y>>, d, c) =
           R!NegativeStep(R!NegativeStep([out |-> <<>>, failed |-> FALSE, bloom |-> c.bloom, misses |-> c.misses],
                                         x, flt, d), y, flt, d)
<1> DEFINE fs == <<x, y>>
           zero == [out |-> <<>>, failed |-> FALSE, bloom |-> c.bloom, misses |-> c.misses]
           one == R!NegativeStep(zero, x, flt, d)
           two == R!NegativeStep(one, y, flt, d)
           Run(f) == f = [n \in 0..Len(fs) |-> IF n = 0 THEN zero ELSE R!NegativeStep(f[n - 1], fs[n], flt, d)]
           w == [n \in 0..2 |-> IF n = 0 THEN zero ELSE IF n = 1 THEN one ELSE two]
           run == CHOOSE f : Run(f)
<1>1. Len(fs) = 2 /\ fs[1] = x /\ fs[2] = y
  OBVIOUS
<1>4. R!FilterFilesWithNegativeCache(flt, fs, d, c) = run[Len(fs)]
  BY DEF R!FilterFilesWithNegativeCache, R!NegativeRun
<1> HIDE DEF zero
<1>2. Run(w)
  <2>1. w[0] = zero /\ w[1] = one /\ w[2] = two
    OBVIOUS
  <2>2. ASSUME NEW n \in 0..2
        PROVE  w[n] = IF n = 0 THEN zero ELSE R!NegativeStep(w[n - 1], fs[n], flt, d)
    <3>1. CASE n = 0
      BY <2>1, <3>1
    <3>2. CASE n = 1
      BY <1>1, <2>1, <3>2
    <3>3. CASE n = 2
      BY <1>1, <2>1, <3>3
    <3>. QED
      BY <3>1, <3>2, <3>3
  <2>3. w = [n \in 0..2 |-> w[n]]
    OBVIOUS
  <2> HIDE DEF w, fs
  <2>. QED
    BY <1>1, <2>2, <2>3
<1>3. Run(run)
  <2> HIDE DEF Run, w
  <2>. QED
    BY <1>2
<1> HIDE DEF run, w
<1>5. run[0] = zero /\ run[1] = R!NegativeStep(run[0], fs[1], flt, d) /\ run[2] = R!NegativeStep(run[1], fs[2], flt, d)
  <2>1. \A n \in 0..2 : run[n] = IF n = 0 THEN zero ELSE R!NegativeStep(run[n - 1], fs[n], flt, d)
    <3>1. run = [n \in 0..2 |-> IF n = 0 THEN zero ELSE R!NegativeStep(run[n - 1], fs[n], flt, d)]
      BY <1>1, <1>3
    <3> HIDE DEF fs
    <3>. QED
      BY <3>1
  <2> HIDE DEF fs
  <2>2. 0 \in 0..2 /\ 1 \in 0..2 /\ 2 \in 0..2 /\ 1 - 1 = 0 /\ 2 - 1 = 1
    OBVIOUS
  <2>. QED
    BY <2>1, <2>2
<1>. QED
  BY <1>1, <1>4, <1>5 DEF zero


\* What the negative cache leaves of two files.
LEMMA NegativeCacheMisses ==
  ASSUME NEW flt, NEW x, NEW y, NEW d, NEW bloom
  PROVE  LET n == R!FilterFilesWithNegativeCache(flt, <<x, y>>, d, [bloom |-> bloom, misses |-> {}])
             plain == R!FilterFiles(flt, <<x, y>>, d) IN
         /\ ~n.failed /\ R!Some(plain) => /\ ToSet(n.out) = ToSet(plain[1]) \ bloom
                                          /\ n.misses \intersect ToSet(plain[1]) = {}
         /\ n.failed => ~R!Some(plain)
<1> DEFINE m(f) == R!Matches(flt, f, d)
           fs == <<x, y>>
           zero == [out |-> <<>>, failed |-> FALSE, bloom |-> bloom, misses |-> {}]
           one == R!NegativeStep(zero, x, flt, d)
           n == R!FilterFilesWithNegativeCache(flt, fs, d, [bloom |-> bloom, misses |-> {}])
           plain == R!FilterFiles(flt, fs, d)
           ps == {i \in DOMAIN fs : m(fs[i])[1]}
<1>1. n = R!NegativeStep(one, y, flt, d)
  <2> DEFINE c == [bloom |-> bloom, misses |-> {}]
  <2>1. c.bloom = bloom /\ c.misses = {}
    OBVIOUS
  <2> HIDE DEF c
  <2>2. R!FilterFilesWithNegativeCache(flt, <<x, y>>, d, c) =
           R!NegativeStep(R!NegativeStep([out |-> <<>>, failed |-> FALSE, bloom |-> c.bloom, misses |-> c.misses],
                                         x, flt, d), y, flt, d)
    BY NegativeRunOfTwo
  <2>. QED
    BY <2>1, <2>2, Zenon DEF c
<1>2. Cached(zero, {}, flt, d, bloom)
  <2>1. Listed(<<>>) /\ ToSet(<<>>) = {}
    BY DEF Listed, ToSet
  <2> DEFINE e == <<>>
  <2>2. Listed(e) /\ ToSet(e) = {}
    BY <2>1
  <2> HIDE DEF e
  <2>3. Cached([out |-> e, failed |-> FALSE, bloom |-> bloom, misses |-> {}], {}, flt, d, bloom)
    BY <2>2 DEF Cached
  <2>. QED
    BY <2>3 DEF e
<1> HIDE DEF zero
<1>3. Cached(one, {} \union {x}, flt, d, bloom)
  BY <1>2, CachedStep
<1> HIDE DEF one
<1>4. Cached(n, ({} \union {x}) \union {y}, flt, d, bloom)
  BY <1>1, <1>3, CachedStep
<1> HIDE DEF n
<1>5. /\ n.failed => \E f \in {x, y} : ~R!Some(m(f))
      /\ \A f \in n.misses : R!Some(m(f)) /\ ~m(f)[1]
      /\ \A f \in ToSet(n.out) : f \in {x, y} /\ f \notin bloom /\ R!Some(m(f)) /\ m(f)[1]
      /\ ~n.failed => \A f \in {x, y} : f \notin bloom /\ m(f)[1] => f \in ToSet(n.out)
  <2>1. ({} \union {x}) \union {y} = {x, y}
    OBVIOUS
  <2>2. Cached(n, {x, y}, flt, d, bloom)
    BY <1>4, <2>1
  <2>. QED
    BY <2>2 DEF Cached
<1>6. plain = IF \A i \in DOMAIN fs : R!Some(m(fs[i])) THEN <<Subsequence(fs, ps)>> ELSE <<>>
  BY SameSubsequence DEF R!FilterFiles, R!AllOf
<1>7. DOMAIN fs = 1..2 /\ fs[1] = x /\ fs[2] = y
  OBVIOUS
<1>8. Picked(Subsequence(fs, ps), fs, ps)
  <2>1. 2 \in Nat /\ ps \subseteq 1..2
    BY <1>7
  <2> HIDE DEF ps, fs
  <2>. QED
    BY <2>1, SubsequenceOf
<1> DEFINE kept == Subsequence(fs, ps)
<1>9. \A f : f \in ToSet(kept) <=> \E i \in ps : fs[i] = f
  <2> HIDE DEF ps, fs
  <2>. QED
    BY <1>8 DEF Picked, ToSet
<1> HIDE DEF kept
<1>10. \A f : f \in ToSet(kept) <=> f \in {x, y} /\ m(f)[1]
  <2>1. \A f : (\E i \in DOMAIN fs : m(fs[i])[1] /\ fs[i] = f) <=> f \in {x, y} /\ m(f)[1]
    <3> HIDE DEF m, fs
    <3>. QED
      BY <1>7
  <2>. QED
    BY <1>9, <2>1
<1>11. /\ R!Some(plain) <=> R!Some(m(x)) /\ R!Some(m(y))
       /\ R!Some(plain) => plain[1] = kept
  <2>1. (\A i \in DOMAIN fs : R!Some(m(fs[i]))) <=> R!Some(m(x)) /\ R!Some(m(y))
    <3> HIDE DEF m, fs
    <3>. QED
      BY <1>7
  <2> HIDE DEF m, ps, fs, plain
  <2>2. (R!Some(m(x)) /\ R!Some(m(y)) => plain = <<kept>>) /\ (~(R!Some(m(x)) /\ R!Some(m(y))) => plain = <<>>)
    BY <1>6, <2>1 DEF kept
  <2>3. plain = <<kept>> => plain[1] = kept
    BY OnlyElement
  <2>. QED
    BY <2>2, <2>3 DEF R!Some
<1> HIDE DEF m, plain
<1>12. n.failed => ~R!Some(plain)
  BY <1>5, <1>11
<1>13. ASSUME ~n.failed, R!Some(plain)
       PROVE  ToSet(n.out) = ToSet(plain[1]) \ bloom /\ n.misses \intersect ToSet(plain[1]) = {}
  BY <1>5, <1>10, <1>11, <1>13
<1>. QED
  BY <1>12, <1>13 DEF n, plain


\* The files that any hook is given out of two.
FilesOf(h, x, y, d, bloom) ==
  LET files == <<x, y>>
      r == R!FilteredFiles(h, files, d)
      wanted(f) == /\ R!Some(h.files) => f \in h.files[1]
                   /\ R!Some(h.exclude) => f \notin h.exclude[1]
      typed == h.types # {} \/ h.exclude_types # {}
      fits(f) == /\ h.types = {} \/ R!DetectFileType(d[f])[1] \intersect h.types # {}
                 /\ R!DetectFileType(d[f])[1] \intersect h.exclude_types = {} IN
  /\ h.always_run => r = <<files>>
  /\ ~h.always_run =>
       /\ R!Some(r) <=> /\ R!Compiles(h.files) /\ R!Compiles(h.exclude)
                        /\ \A f \in R!ToSet(files) : typed /\ wanted(f) => d[f] # << >>
       /\ R!Some(r) => r[1] = R!Subsequence(files, {i \in DOMAIN files : wanted(files[i]) /\ (typed => fits(files[i]))})
  /\ R!ArenaFilteredFiles(h, files, d) = r
  /\ \A a \in R!FilteredFilesAsync(h, files, d) :
       R!Some(a) <=> R!Some(r) /\ (R!Some(a) => R!ToSet(a[1]) = R!ToSet(r[1]))
  /\ R!Some(R!Filter(h)) =>
       LET n == R!FilterFilesWithNegativeCache(R!Filter(h)[1], files, d, [bloom |-> bloom, misses |-> {}])
           plain == R!FilterFiles(R!Filter(h)[1], files, d) IN
       /\ ~n.failed /\ R!Some(plain) => /\ R!ToSet(n.out) = R!ToSet(plain[1]) \ bloom
                                        /\ n.misses \intersect R!ToSet(plain[1]) = {}
       /\ n.failed => ~R!Some(plain)

LEMMA FilterOf ==
  ASSUME NEW h
  PROVE  LET flt == R!Filter(h) IN
         /\ R!Some(flt) <=> R!Compiles(h.files) /\ R!Compiles(h.exclude)
         /\ R!Some(flt) => /\ flt[1].include = h.files /\ flt[1].exclude = h.exclude
                           /\ flt[1].types = h.types /\ flt[1].exclude_types = h.exclude_types
<1> DEFINE rec == [include |-> h.files, exclude |-> h.exclude, types |-> h.types, exclude_types |-> h.exclude_types]
<1>1. rec.include = h.files /\ rec.exclude = h.exclude /\ rec.types = h.types /\ rec.exclude_types = h.exclude_types
  OBVIOUS
<1>2. R!Filter(h) = IF ~R!Compiles(h.files) \/ ~R!Compiles(h.exclude) THEN <<>> ELSE <<rec>>
  BY DEF R!Filter
<1> HIDE DEF rec
<1>. QED
  BY <1>1, <1>2 DEF R!Some

LEMMA SameSet == ASSUME NEW s PROVE R!ToSet(s) = ToSet(s)
BY DEF R!ToSet, ToSet

LEMMA AnyFiltering ==
  ASSUME NEW h, NEW x, NEW y, NEW d, NEW bloom
  PROVE  FilesOf(h, x, y, d, bloom)
<1> DEFINE files == <<x, y>>
           r == R!FilteredFiles(h, files, d)
           flt == R!Filter(h)[1]
           plain == R!FilterFiles(flt, files, d)
           wanted(f) == /\ R!Some(h.files) => f \in h.files[1]
                        /\ R!Some(h.exclude) => f \notin h.exclude[1]
           typed == h.types # {} \/ h.exclude_types # {}
           fits(f) == /\ h.types = {} \/ R!DetectFileType(d[f])[1] \intersect h.types # {}
                      /\ R!DetectFileType(d[f])[1] \intersect h.exclude_types = {}
<1>1. ASSUME h.always_run PROVE r = <<files>>
  BY <1>1 DEF R!FilteredFiles
<1>2. ASSUME ~h.always_run PROVE r = IF R!Some(R!Filter(h)) THEN plain ELSE <<>>
  BY <1>2 DEF R!FilteredFiles
<1>3. R!ArenaFilteredFiles(h, files, d) = r
  BY DEF R!ArenaFilteredFiles, R!FilteredFiles, R!FilterFilesArena
<1>4. /\ DOMAIN files = 1..2 /\ files[1] = x /\ files[2] = y
      /\ R!ToSet(files) = {x, y} /\ Listed(files)
  <2>1. files \in Seq({x, y})
    OBVIOUS
  <2>2. DOMAIN files = 1..2 /\ files[1] = x /\ files[2] = y
    OBVIOUS
  <2> HIDE DEF files
  <2>. QED
    BY <2>1, <2>2 DEF R!ToSet, Listed
<1>5. R!Some(R!Filter(h)) <=> R!Compiles(h.files) /\ R!Compiles(h.exclude)
  BY FilterOf
<1>6. ASSUME R!Some(R!Filter(h))
      PROVE  /\ Typed(flt) <=> typed
             /\ \A f : Wanted(flt, f) <=> wanted(f)
             /\ \A f : Fits(flt, R!DetectFileType(d[f])) <=> fits(f)
  BY <1>6, FilterOf DEF Typed, Wanted, Fits
<1>7. ASSUME R!Some(R!Filter(h))
      PROVE  /\ R!Some(plain) <=> \A f \in R!ToSet(files) : typed /\ wanted(f) => d[f] # <<>>
             /\ R!Some(plain) => plain[1] = R!Subsequence(files, {i \in DOMAIN files : wanted(files[i]) /\ (typed => fits(files[i]))})
  <2> DEFINE sel == {i \in DOMAIN files : wanted(files[i]) /\ (typed => fits(files[i]))}
  <2>1. /\ R!Some(plain) <=> \A i \in DOMAIN files : Typed(flt) /\ Wanted(flt, files[i]) => d[files[i]] # <<>>
        /\ R!Some(plain) => plain = <<Subsequence(files, Fitting(flt, files, d))>>
    BY FilterMeans
  <2>2. Fitting(flt, files, d) = sel
    <3> HIDE DEF flt, wanted, typed, fits, files
    <3>. QED
      BY <1>6, <1>7 DEF Fitting
  <2>3. R!Subsequence(files, sel) = Subsequence(files, sel)
    BY SameSubsequence
  <2>4. (\A i \in DOMAIN files : Typed(flt) /\ Wanted(flt, files[i]) => d[files[i]] # <<>>)
           <=> \A f \in R!ToSet(files) : typed /\ wanted(f) => d[f] # <<>>
    <3> HIDE DEF flt, wanted, typed, fits, files
    <3>. QED
      BY <1>4, <1>6, <1>7
  <2> DEFINE kept == Subsequence(files, sel)
  <2>5. plain = <<kept>> => plain[1] = kept
    <3> HIDE DEF kept, plain
    <3>. QED
      BY OnlyElement
  <2>6. R!Some(plain) => plain[1] = R!Subsequence(files, sel)
    <3> HIDE DEF plain, sel, flt, files
    <3>. QED
      BY <2>1, <2>2, <2>3, <2>5
  <2>7. R!Some(plain) <=> \A f \in R!ToSet(files) : typed /\ wanted(f) => d[f] # <<>>
    BY <2>1, <2>4, Zenon
  <2>. QED
    BY <2>6, <2>7, Zenon DEF sel
<1>8. ASSUME NEW a \in R!FilteredFilesAsync(h, files, d)
      PROVE  R!Some(a) <=> R!Some(r) /\ (R!Some(a) => R!ToSet(a[1]) = R!ToSet(r[1]))
  <2>1. CASE h.always_run
    <3>1. a = <<files>> /\ r = <<files>>
      BY <1>1, <2>1 DEF R!FilteredFilesAsync
    <3> HIDE DEF r, files
    <3>. QED
      BY <3>1 DEF R!Some
  <2>2. CASE ~h.always_run /\ ~R!Some(R!Filter(h))
    <3>1. a = <<>>
      BY <2>2 DEF R!FilteredFilesAsync
    <3>2. r = <<>>
      BY <1>2, <2>2
    <3> HIDE DEF r
    <3>. QED
      BY <3>1, <3>2 DEF R!Some
  <2>3. CASE ~h.always_run /\ R!Some(R!Filter(h))
    <3>1. a \in R!FilterFilesAsync(flt, files, d)
      BY <2>3 DEF R!FilteredFilesAsync
    <3>2. r = plain
      BY <1>2, <2>3
    <3>3. (R!Some(a) <=> R!Some(plain)) /\ (R!Some(a) => ToSet(a[1]) = ToSet(plain[1]))
      BY <1>4, <3>1, AsyncMeans
    <3> HIDE DEF r, plain
    <3>. QED
      BY <3>2, <3>3, SameSet
  <2>. QED
    BY <2>1, <2>2, <2>3
<1>9. LET n == R!FilterFilesWithNegativeCache(flt, files, d, [bloom |-> bloom, misses |-> {}]) IN
      /\ ~n.failed /\ R!Some(plain) => /\ R!ToSet(n.out) = R!ToSet(plain[1]) \ bloom
                                       /\ n.misses \intersect R!ToSet(plain[1]) = {}
      /\ n.failed => ~R!Some(plain)
  <2> DEFINE n == R!FilterFilesWithNegativeCache(flt, files, d, [bloom |-> bloom, misses |-> {}])
  <2>1. /\ ~n.failed /\ R!Some(plain) => /\ ToSet(n.out) = ToSet(plain[1]) \ bloom
                                         /\ n.misses \intersect ToSet(plain[1]) = {}
        /\ n.failed => ~R!Some(plain)
    BY NegativeCacheMisses
  <2>2. R!ToSet(n.out) = ToSet(n.out) /\ R!ToSet(plain[1]) = ToSet(plain[1])
    BY SameSet
  <2> HIDE DEF n, plain
  <2>. QED
    BY <2>1, <2>2 DEF n
<1>10. ASSUME ~h.always_run
       PROVE  /\ R!Some(r) <=> /\ R!Compiles(h.files) /\ R!Compiles(h.exclude)
                               /\ \A f \in R!ToSet(files) : typed /\ wanted(f) => d[f] # << >>
              /\ R!Some(r) => r[1] = R!Subsequence(files, {i \in DOMAIN files : wanted(files[i]) /\ (typed => fits(files[i]))})
  <2>1. CASE R!Some(R!Filter(h))
    <3>1. r = plain
      BY <1>2, <1>10, <2>1
    <3> HIDE DEF r, plain, wanted, typed, fits, files
    <3>. QED
      BY <1>5, <1>7, <2>1, <3>1
  <2>2. CASE ~R!Some(R!Filter(h))
    <3>1. r = <<>>
      BY <1>2, <1>10, <2>2
    <3> HIDE DEF r, wanted, typed, fits, files
    <3>. QED
      BY <1>5, <2>2, <3>1 DEF R!Some
  <2>. QED
    BY <2>1, <2>2
<1>. QED
  BY <1>1, <1>3, <1>8, <1>9, <1>10 DEF FilesOf


-----------------------------------------------------------------------------
(* Configurations: classifications that are kept.                            *)

\* Two questions about a file that changes between them.
KeptOf(was, new) ==
  LET first == R!ClassifyFile([p \in {} |-> ""], "f", [f \in {"f"} |-> was])
      second == R!ClassifyFile(first.cache, "f", [f \in {"f"} |-> new]) IN
  /\ second.answer = IF R!Some(was) THEN first.answer ELSE R!ClassifyFileInternal(new)
  /\ R!Some(new) /\ new[1].shebang = "python" /\ ~R!Some(was) => second.answer = <<"python">>

LEMMA Classified ==
  ASSUME NEW f
  PROVE  /\ R!Some(f) => \E v : R!ClassifyFileInternal(f) = <<v>>
         /\ ~R!Some(f) => R!ClassifyFileInternal(f) = <<>>
<1>1. \A g : R!Some(R!ClassifyByShebang(g)) => \E v : R!ClassifyByShebang(g) = <<v>>
  BY Zenon DEF R!ClassifyByShebang, R!Some
<1>2. \A g : R!Some(R!ClassifyByExtension(g)) => \E v : R!ClassifyByExtension(g) = <<v>>
  BY Zenon DEF R!ClassifyByExtension, R!Some
<1>. QED
  BY <1>1, <1>2 DEF R!ClassifyFileInternal

LEMMA PythonFile ==
  ASSUME NEW f, R!Some(f), f[1].shebang = "python"
  PROVE  R!ClassifyFileInternal(f) = <<"python">>
<1> DEFINE L == R!LanguageDefinitions
           hits == {i \in DOMAIN L : f[1].shebang \in L[i].shebang}
           best == CHOOSE i \in hits : \A j \in hits : L[j].priority <= L[i].priority
<1>1. /\ DOMAIN L = 1..5 /\ L[1].shebang = {"python"} /\ L[2].shebang = {"node"} /\ L[3].shebang = {"ts-node"}
      /\ L[4].shebang = {} /\ L[5].shebang = {"sh"} /\ L[1].name = "python" /\ L[1].priority = 100
  BY DEF R!LanguageDefinitions
<1>2. R!ClassifyByShebang(f[1]) = IF hits = {} THEN <<>> ELSE <<L[best].name>>
  BY DEF R!ClassifyByShebang
<1> HIDE DEF L
<1>3. hits = {1}
  BY <1>1
<1>4. best = 1
  <2> HIDE DEF hits
  <2>. QED
    BY <1>1, <1>3
<1>5. R!ClassifyByShebang(f[1]) = <<"python">>
  <2> HIDE DEF hits, best
  <2>. QED
    BY <1>1, <1>2, <1>3, <1>4
<1>. QED
  BY <1>5 DEF R!ClassifyFileInternal, R!Some

LEMMA AnyClassification == ASSUME NEW was, NEW new PROVE KeptOf(was, new)
<1> DEFINE none == [p \in {} |-> ""]
           c == R!ClassifyFileInternal(was)
           one == [p \in {"f"} |-> c[1]]
           first == R!ClassifyFile(none, "f", [f \in {"f"} |-> was])
           second == R!ClassifyFile(first.cache, "f", [f \in {"f"} |-> new])
<1>1. "f" \notin DOMAIN none /\ \A b : [f \in {"f"} |-> b]["f"] = b
  OBVIOUS
<1>2. first.answer = c /\ first.cache = IF R!Some(c) THEN [p \in DOMAIN none \union {"f"} |-> IF p = "f" THEN c[1] ELSE none[p]] ELSE none
  <2> HIDE DEF none
  <2>. QED
    BY <1>1 DEF R!ClassifyFile
<1>3. CASE R!Some(was)
  <2>1. PICK v : c = <<v>>
    BY <1>3, Classified
  <2>2. c[1] = v /\ R!Some(c)
    <3> HIDE DEF c
    <3>. QED
      BY <2>1 DEF R!Some
  <2>3. "f" \in DOMAIN first.cache /\ first.cache["f"] = v
    BY <1>2, <2>2
  <2>4. second.answer = <<v>>
    <3> HIDE DEF first
    <3>. QED
      BY <2>3 DEF R!ClassifyFile
  <2> HIDE DEF c, first, second
  <2>. QED
    BY <1>2, <1>3, <2>1, <2>4, Zenon DEF KeptOf, first, second
<1>4. CASE ~R!Some(was)
  <2>1. c = <<>>
    BY <1>4, Classified
  <2>2. first.cache = none
    BY <1>2, <2>1 DEF R!Some
  <2>3. second.answer = R!ClassifyFileInternal(new)
    <3> HIDE DEF first, none
    <3>. QED
      BY <1>1, <2>2 DEF R!ClassifyFile
  <2>4. R!Some(new) /\ new[1].shebang = "python" => R!ClassifyFileInternal(new) = <<"python">>
    BY PythonFile
  <2> HIDE DEF c, first, second
  <2>. QED
    BY <1>4, <2>3, <2>4, Zenon DEF KeptOf, first, second
<1>. QED
  BY <1>3, <1>4


-----------------------------------------------------------------------------
(* Configurations: migration.                                                *)

LEMMA AnyDetection ==
  ASSUME NEW marks, marks \subseteq {"repos:", "snp:", "brace"}
  PROVE  R!Some(R!AutoDetectFormat(marks)) <=> marks # {}
<1> DEFINE a == [starts |-> "repos:", confidence |-> 9, format |-> <<"pre-commit", "4.0.0">>]
           b == [starts |-> "snp:", confidence |-> 8, format |-> R!SnpV1]
           e == [starts |-> "brace", confidence |-> 7, format |-> <<"pre-commit", "4.0.0">>]
           D == <<a, b, e>>
           hits == {i \in DOMAIN D : D[i].starts \in marks}
<1>1. a.starts = "repos:" /\ b.starts = "snp:" /\ e.starts = "brace"
  OBVIOUS
<1>2. R!Some(R!AutoDetectFormat(marks)) <=> hits # {}
  <2>1. R!Detectors = D
    BY DEF R!Detectors
  <2> HIDE DEF D
  <2>. QED
    BY <2>1, Zenon DEF R!AutoDetectFormat, R!Some
<1> HIDE DEF a, b, e
<1>3. DOMAIN D = 1..3 /\ D[1] = a /\ D[2] = b /\ D[3] = e
  OBVIOUS
<1> HIDE DEF D
<1>4. hits # {} <=> marks # {}
  <2>1. ASSUME hits # {} PROVE marks # {}
    BY <2>1
  <2>2. ASSUME NEW m \in marks PROVE hits # {}
    <3>1. m = "repos:" \/ m = "snp:" \/ m = "brace"
      OBVIOUS
    <3>2. 1 \in DOMAIN D /\ 2 \in DOMAIN D /\ 3 \in DOMAIN D
      BY <1>3
    <3>3. D[1].starts = "repos:" /\ D[2].starts = "snp:" /\ D[3].starts = "brace"
      BY <1>1, <1>3
    <3>. QED
      BY <3>1, <3>2, <3>3
  <2>. QED
    BY <2>1, <2>2
<1>. QED
  BY <1>2, <1>4

IsRepo(r) == r = [x \in {"repo", "rev", "sha", "hooks"} |-> r[x]]
IsConfig(c) == c = [x \in {"repos", "files", "exclude", "stages", "types"} |-> c[x]]
\* Every part of a configuration is there.
WholeConfig(c) ==
  /\ IsConfig(c) /\ Listed(c.repos) /\ Listed(c.stages)
  /\ \A i \in DOMAIN c.repos :
       /\ IsRepo(c.repos[i]) /\ Listed(c.repos[i].hooks)
       /\ \A k \in DOMAIN c.repos[i].hooks : IsHook(c.repos[i].hooks[k])

\* New names of stages: known if the old ones are, and for the same stage but
\* for one.
LEMMA NewNames ==
  ASSUME NEW s
  PROVE  LET n == R!NewStageName(s) IN
         /\ R!NewStageName(n) = n
         /\ n \notin {"commit", "push", "merge-commit"}
         /\ R!IsValidStage(n) <=> R!IsValidStage(s)
         /\ R!IsValidStage(n) => n \in R!SupportedStages
         /\ s # "merge-commit" => R!StageFromStr(n) = R!StageFromStr(s)
<1>1. CASE s \in {"commit", "push", "merge-commit"}
  BY <1>1 DEF R!NewStageName, R!IsValidStage, R!StageNames, R!SupportedStages, R!StageFromStr
<1>2. CASE s \notin {"commit", "push", "merge-commit"}
  <2>1. R!NewStageName(s) = s
    BY <1>2 DEF R!NewStageName
  <2>. QED
    BY <1>2, <2>1 DEF R!IsValidStage, R!StageNames, R!SupportedStages
<1>. QED
  BY <1>1, <1>2

LEMMA RenamedStages ==
  ASSUME NEW s
  PROVE  LET n == R!RenameStages(s) IN
         /\ DOMAIN n = DOMAIN s /\ \A i \in DOMAIN s : n[i] = R!NewStageName(s[i])
         /\ R!RenameStages(n) = n
         /\ R!AllOf(n, R!IsValidStage) <=> R!AllOf(s, R!IsValidStage)
<1> DEFINE n == R!RenameStages(s)
<1>1. n = [i \in DOMAIN s |-> R!NewStageName(s[i])]
  BY DEF R!RenameStages
<1>2. DOMAIN n = DOMAIN s /\ \A i \in DOMAIN s : n[i] = R!NewStageName(s[i])
  BY <1>1
<1> HIDE DEF n
<1>3. R!RenameStages(n) = [i \in DOMAIN s |-> R!NewStageName(n[i])]
  BY <1>2 DEF R!RenameStages
<1>4. \A i \in DOMAIN s : R!NewStageName(n[i]) = R!NewStageName(s[i])
  BY <1>2, NewNames
<1>5. R!RenameStages(n) = n
  BY <1>1, <1>3, <1>4
<1>6. R!AllOf(n, R!IsValidStage) <=> R!AllOf(s, R!IsValidStage)
  BY <1>2, NewNames DEF R!AllOf
<1>. QED
  BY <1>2, <1>5, <1>6 DEF n

LEMMA MigratedHook ==
  ASSUME NEW h, IsHook(h)
  PROVE  LET m == R!MigrateHook(h) IN
         /\ IsHook(m) /\ m.id = h.id /\ m.files = h.files /\ m.exclude = h.exclude
         /\ h.stages = <<>> => m.stages = <<>>
         /\ h.stages # <<>> => m.stages = <<R!RenameStages(h.stages[1])>>
         /\ R!MigrateHook(m) = m
<1> DEFINE m == R!MigrateHook(h)
           lang(l) == IF l = "python_venv" THEN "python" ELSE l
           st(s) == IF R!Some(s) THEN <<R!RenameStages(s[1])>> ELSE s
<1>1. \A g : IsHook(g) => /\ IsHook(R!MigrateHook(g))
                          /\ R!MigrateHook(g).language = lang(g.language)
                          /\ R!MigrateHook(g).stages = st(g.stages)
                          /\ \A x \in HookFields \ {"language", "stages"} : R!MigrateHook(g)[x] = g[x]
  <2>1. SUFFICES ASSUME NEW g, IsHook(g)
                 PROVE  /\ IsHook(R!MigrateHook(g))
                        /\ R!MigrateHook(g).language = lang(g.language)
                        /\ R!MigrateHook(g).stages = st(g.stages)
                        /\ \A x \in HookFields \ {"language", "stages"} : R!MigrateHook(g)[x] = g[x]
    OBVIOUS
  <2>2. R!MigrateHook(g) = [g EXCEPT !.language = lang(g.language), !.stages = st(g.stages)]
    BY DEF R!MigrateHook
  <2> HIDE DEF lang, st
  <2>. QED
    BY <2>1, <2>2 DEF IsHook, HookFields
<1>2. \A l : lang(lang(l)) = lang(l)
  OBVIOUS
<1>3. \A s : st(st(s)) = st(s)
  <2>1. SUFFICES ASSUME NEW s PROVE st(st(s)) = st(s)
    OBVIOUS
  <2>2. CASE s = <<>>
    BY <2>2 DEF R!Some
  <2>3. CASE s # <<>>
    <3> DEFINE n == R!RenameStages(s[1])
    <3>1. st(s) = <<n>>
      BY <2>3 DEF R!Some
    <3>2. R!RenameStages(n) = n
      BY RenamedStages
    <3> HIDE DEF n
    <3>3. st(<<n>>) = <<R!RenameStages(n)>>
      BY DEF R!Some
    <3>. QED
      BY <3>1, <3>2, <3>3
  <2>. QED
    BY <2>2, <2>3
<1>4. /\ h.stages = <<>> => st(h.stages) = <<>>
      /\ h.stages # <<>> => st(h.stages) = <<R!RenameStages(h.stages[1])>>
  BY DEF R!Some
<1> HIDE DEF lang, st, m
<1>5. /\ IsHook(m) /\ m.language = lang(h.language) /\ m.stages = st(h.stages)
      /\ \A x \in HookFields \ {"language", "stages"} : m[x] = h[x]
  BY <1>1 DEF m
<1>6. /\ IsHook(R!MigrateHook(m)) /\ R!MigrateHook(m).language = lang(m.language) /\ R!MigrateHook(m).stages = st(m.stages)
      /\ \A x \in HookFields \ {"language", "stages"} : R!MigrateHook(m)[x] = m[x]
  BY <1>1, <1>5
<1>7. R!MigrateHook(m) = m
  <2>1. \A x \in HookFields : R!MigrateHook(m)[x] = m[x]
    BY <1>2, <1>3, <1>5, <1>6
  <2> DEFINE mm == R!MigrateHook(m)
  <2>2. IsHook(mm) /\ IsHook(m) /\ \A x \in HookFields : mm[x] = m[x]
    BY <1>5, <1>6, <2>1
  <2> HIDE DEF mm
  <2>3. mm = [x \in HookFields |-> mm[x]] /\ m = [x \in HookFields |-> m[x]]
    BY <2>2 DEF IsHook
  <2>4. [x \in HookFields |-> mm[x]] = [x \in HookFields |-> m[x]]
    BY <2>2
  <2>. QED
    BY <2>3, <2>4 DEF mm
<1>8. m.id = h.id /\ m.files = h.files /\ m.exclude = h.exclude
  BY <1>5 DEF HookFields
<1>. QED
  BY <1>4, <1>5, <1>7, <1>8 DEF m


LEMMA MigratedRepo ==
  ASSUME NEW r, IsRepo(r), Listed(r.hooks), \A k \in DOMAIN r.hooks : IsHook(r.hooks[k])
  PROVE  LET m == R!MigrateRepo(r) IN
         /\ IsRepo(m) /\ m.repo = r.repo /\ m.sha = <<>> /\ Listed(m.hooks)
         /\ R!Some(r.sha) => m.rev = r.sha
         /\ ~R!Some(r.sha) => m.rev = r.rev
         /\ DOMAIN m.hooks = DOMAIN r.hooks /\ \A k \in DOMAIN r.hooks : m.hooks[k] = R!MigrateHook(r.hooks[k])
         /\ m.hooks = <<>> => r.hooks = <<>>
         /\ R!MigrateRepo(m) = m
<1> DEFINE m == R!MigrateRepo(r)
           rv(x) == IF R!Some(x.sha) THEN x.sha ELSE x.rev
           hk(s) == [k \in DOMAIN s |-> R!MigrateHook(s[k])]
<1>1. ASSUME NEW x, IsRepo(x)
      PROVE  R!MigrateRepo(x) = [repo |-> x.repo, rev |-> rv(x), sha |-> <<>>, hooks |-> hk(x.hooks)]
  <2>1. R!MigrateRepo(x) = [x EXCEPT !.rev = rv(x), !.sha = <<>>, !.hooks = hk(x.hooks)]
    BY DEF R!MigrateRepo
  <2> HIDE DEF rv, hk
  <2>. QED
    BY <1>1, <2>1 DEF IsRepo
<1> DEFINE n == hk(r.hooks)
<1>2. /\ DOMAIN n = DOMAIN r.hooks
      /\ \A k \in DOMAIN r.hooks : n[k] = R!MigrateHook(r.hooks[k])
  OBVIOUS
<1>3. hk(n) = n
  <2>1. \A k \in DOMAIN r.hooks : R!MigrateHook(n[k]) = n[k]
    BY <1>2, MigratedHook
  <2>2. n = [k \in DOMAIN r.hooks |-> n[k]]
    OBVIOUS
  <2>3. hk(n) = [k \in DOMAIN r.hooks |-> R!MigrateHook(n[k])]
    BY <1>2
  <2> HIDE DEF n
  <2>. QED
    BY <2>1, <2>2, <2>3
<1>4. Listed(n) /\ (n = <<>> => r.hooks = <<>>)
  <2>1. Len(r.hooks) \in Nat /\ DOMAIN r.hooks = 1..Len(r.hooks)
    BY ListLen
  <2>2. n = [k \in 1..Len(r.hooks) |-> n[k]]
    BY <2>1
  <2> HIDE DEF n
  <2>3. Listed(n) /\ Len(n) = Len(r.hooks)
    BY <2>1, <2>2, ListTable
  <2>4. PICK S : r.hooks \in Seq(S)
    BY DEF Listed
  <2>. QED
    BY <2>3, <2>4
<1> HIDE DEF n
<1>5. m = [repo |-> r.repo, rev |-> rv(r), sha |-> <<>>, hooks |-> n]
  BY <1>1 DEF n
<1> HIDE DEF m
<1>6. IsRepo(m) /\ m.repo = r.repo /\ m.sha = <<>> /\ m.hooks = n /\ m.rev = rv(r)
  <2> HIDE DEF rv
  <2>. QED
    BY <1>5 DEF IsRepo
<1>7. R!MigrateRepo(m) = m
  <2>1. rv(m) = rv(r)
    <3>1. ~R!Some(m.sha)
      BY <1>6 DEF R!Some
    <3> HIDE DEF R!Some
    <3>. QED
      BY <1>6, <3>1
  <2>2. R!MigrateRepo(m) = [repo |-> m.repo, rev |-> rv(m), sha |-> <<>>, hooks |-> hk(m.hooks)]
    BY <1>1, <1>6
  <2> HIDE DEF rv, hk
  <2>. QED
    BY <1>3, <1>5, <1>6, <2>1, <2>2
<1>8. (R!Some(r.sha) => m.rev = r.sha) /\ (~R!Some(r.sha) => m.rev = r.rev)
  BY <1>6
<1>. QED
  BY <1>2, <1>4, <1>6, <1>7, <1>8 DEF m

LEMMA MigratedConfig ==
  ASSUME NEW c, WholeConfig(c)
  PROVE  LET m == R!ApplyPrecommitToSnp(c) IN
         /\ WholeConfig(m) /\ m.files = c.files /\ m.exclude = c.exclude /\ m.types = c.types
         /\ m.stages = R!RenameStages(c.stages)
         /\ DOMAIN m.repos = DOMAIN c.repos /\ \A i \in DOMAIN c.repos : m.repos[i] = R!MigrateRepo(c.repos[i])
         /\ R!ApplyPrecommitToSnp(m) = m
<1> DEFINE m == R!ApplyPrecommitToSnp(c)
           rp(s) == [i \in DOMAIN s |-> R!MigrateRepo(s[i])]
           n == rp(c.repos)
           st == R!RenameStages(c.stages)
<1>1. ASSUME NEW x, IsConfig(x)
      PROVE  R!ApplyPrecommitToSnp(x) = [repos |-> rp(x.repos), files |-> x.files, exclude |-> x.exclude,
                                         stages |-> R!RenameStages(x.stages), types |-> x.types]
  <2>1. R!ApplyPrecommitToSnp(x) = [x EXCEPT !.repos = rp(x.repos), !.stages = R!RenameStages(x.stages)]
    BY DEF R!ApplyPrecommitToSnp
  <2> HIDE DEF rp
  <2>. QED
    BY <1>1, <2>1 DEF IsConfig
<1>2. DOMAIN n = DOMAIN c.repos /\ \A i \in DOMAIN c.repos : n[i] = R!MigrateRepo(c.repos[i])
  OBVIOUS
<1>3. \A i \in DOMAIN c.repos : IsRepo(c.repos[i]) /\ Listed(c.repos[i].hooks)
                                 /\ \A k \in DOMAIN c.repos[i].hooks : IsHook(c.repos[i].hooks[k])
  BY DEF WholeConfig
<1>4. rp(n) = n
  <2>1. \A i \in DOMAIN c.repos : R!MigrateRepo(n[i]) = n[i]
    BY <1>2, <1>3, MigratedRepo
  <2>2. n = [i \in DOMAIN c.repos |-> n[i]]
    OBVIOUS
  <2>3. rp(n) = [i \in DOMAIN c.repos |-> R!MigrateRepo(n[i])]
    BY <1>2
  <2> HIDE DEF n
  <2>. QED
    BY <2>1, <2>2, <2>3
<1>5. Listed(n)
  <2>1. Len(c.repos) \in Nat /\ DOMAIN c.repos = 1..Len(c.repos)
    BY ListLen DEF WholeConfig
  <2>2. n = [i \in 1..Len(c.repos) |-> n[i]]
    BY <2>1
  <2> HIDE DEF n
  <2>. QED
    BY <2>1, <2>2, ListTable
<1>6. Listed(st)
  <2>1. Len(c.stages) \in Nat /\ DOMAIN c.stages = 1..Len(c.stages)
    BY ListLen DEF WholeConfig
  <2>2. st = [i \in 1..Len(c.stages) |-> st[i]]
    <3>1. st = [i \in DOMAIN c.stages |-> R!NewStageName(c.stages[i])]
      BY DEF R!RenameStages
    <3> HIDE DEF st
    <3>. QED
      BY <2>1, <3>1
  <2> HIDE DEF st
  <2>. QED
    BY <2>1, <2>2, ListTable
<1>7. R!RenameStages(st) = st
  BY RenamedStages
<1> HIDE DEF n, st
<1>8. IsConfig(c)
  BY DEF WholeConfig
<1>9. m = [repos |-> n, files |-> c.files, exclude |-> c.exclude, stages |-> st, types |-> c.types]
  BY <1>1, <1>8 DEF n, st
<1> HIDE DEF m, rp
<1>10. IsConfig(m) /\ m.repos = n /\ m.files = c.files /\ m.exclude = c.exclude /\ m.stages = st /\ m.types = c.types
  BY <1>9 DEF IsConfig
<1>11. R!ApplyPrecommitToSnp(m) = m
  BY <1>1, <1>4, <1>7, <1>9, <1>10
<1>12. WholeConfig(m)
  <2>1. ASSUME NEW i \in DOMAIN n
        PROVE  IsRepo(n[i]) /\ Listed(n[i].hooks) /\ \A k \in DOMAIN n[i].hooks : IsHook(n[i].hooks[k])
    <3>1. i \in DOMAIN c.repos /\ n[i] = R!MigrateRepo(c.repos[i])
      BY <1>2
    <3>2. /\ IsRepo(n[i]) /\ Listed(n[i].hooks) /\ DOMAIN n[i].hooks = DOMAIN c.repos[i].hooks
          /\ \A k \in DOMAIN c.repos[i].hooks : n[i].hooks[k] = R!MigrateHook(c.repos[i].hooks[k])
      BY <1>3, <3>1, MigratedRepo
    <3>3. \A k \in DOMAIN c.repos[i].hooks : IsHook(R!MigrateHook(c.repos[i].hooks[k]))
      BY <1>3, <3>1, MigratedHook
    <3>. QED
      BY <3>2, <3>3
  <2>. QED
    BY <1>5, <1>6, <1>10, <2>1 DEF WholeConfig
<1>. QED
  BY <1>2, <1>10, <1>11, <1>12 DEF m, st


\* The stages that a hook runs in.
LEMMA StagesOf ==
  ASSUME NEW h, R!Some(R!FromConfig(h))
  PROVE  /\ R!Some(h.stages) =>
              R!FromConfig(h)[1].stages = {R!StageFromStr(h.stages[1][i])[1] : i \in DOMAIN h.stages[1]}
         /\ ~R!Some(h.stages) => R!FromConfig(h)[1].stages = {"pre-commit"}
<1> DEFINE own == {R!StageFromStr(h.stages[1][i])[1] : i \in DOMAIN h.stages[1]}
           st == IF R!Some(h.stages) THEN own ELSE {"pre-commit"}
           ty == IF R!Some(h.types_or) THEN h.types_or[1] ELSE R!Default(h.types, {})
           rec == [id |-> h.id, entry |-> h.entry, language |-> h.language, stages |-> st,
                   files |-> h.files, exclude |-> h.exclude, types |-> ty,
                   exclude_types |-> R!Default(h.exclude_types, {}),
                   always_run |-> R!Default(h.always_run, FALSE), args |-> R!Default(h.args, <<>>)]
<1>1. R!FromConfig(h) = <<rec>>
  <2>1. ~(R!Some(h.stages) /\ ~R!AllOf(h.stages[1], LAMBDA s : R!Some(R!StageFromStr(s))))
    BY Zenon DEF R!FromConfig, R!Some
  <2>. QED
    BY <2>1, Zenon DEF R!FromConfig
<1>2. rec.stages = st
  OBVIOUS
<1>3. (R!Some(h.stages) => st = own) /\ (~R!Some(h.stages) => st = {"pre-commit"})
  OBVIOUS
<1> HIDE DEF rec, st
<1>4. R!FromConfig(h)[1] = rec
  BY <1>1, OnlyElement, Zenon
<1>. QED
  BY <1>2, <1>3, <1>4

\* A migrated hook runs if the old one does, in the stages it ran in.
LEMMA MigratedStages ==
  ASSUME NEW h, IsHook(h)
  PROVE  LET a == R!FromConfig(h)
             b == R!FromConfig(R!MigrateHook(h)) IN
         /\ R!Some(a) <=> R!Some(b)
         /\ R!Some(a) /\ "merge-commit" \notin a[1].stages => b[1].stages = a[1].stages
<1> DEFINE m == R!MigrateHook(h)
           l == h.stages[1]
           n == R!RenameStages(l)
<1>1. /\ h.stages = <<>> => m.stages = <<>>
      /\ h.stages # <<>> => m.stages = <<n>>
  BY MigratedHook
<1>2. /\ DOMAIN n = DOMAIN l /\ \A i \in DOMAIN l : n[i] = R!NewStageName(l[i])
      /\ R!AllOf(n, R!IsValidStage) <=> R!AllOf(l, R!IsValidStage)
  BY RenamedStages
<1> HIDE DEF m, n
<1>3. /\ R!Some(R!FromConfig(h)) <=> (R!Some(h.stages) => R!AllOf(h.stages[1], R!IsValidStage))
      /\ R!Some(R!FromConfig(m)) <=> (R!Some(m.stages) => R!AllOf(m.stages[1], R!IsValidStage))
  BY HookRuns
<1>4. CASE h.stages = <<>>
  <2>1. ~R!Some(h.stages) /\ ~R!Some(m.stages)
    BY <1>1, <1>4 DEF R!Some
  <2>. QED
    BY <1>3, <2>1, StagesOf DEF m
<1>5. CASE h.stages # <<>>
  <2>1. R!Some(h.stages) /\ R!Some(m.stages) /\ m.stages[1] = n
    BY <1>1, <1>5 DEF R!Some
  <2>2. R!Some(R!FromConfig(h)) <=> R!Some(R!FromConfig(m))
    BY <1>2, <1>3, <2>1
  <2>3. ASSUME R!Some(R!FromConfig(h)), "merge-commit" \notin R!FromConfig(h)[1].stages
        PROVE  R!FromConfig(m)[1].stages = R!FromConfig(h)[1].stages
    <3> DEFINE S == {R!StageFromStr(l[i])[1] : i \in DOMAIN l}
               T == {R!StageFromStr(n[i])[1] : i \in DOMAIN n}
    <3>1. R!FromConfig(h)[1].stages = S
      BY <2>1, <2>3, StagesOf
    <3>2. R!FromConfig(m)[1].stages = T
      BY <2>1, <2>2, <2>3, StagesOf
    <3>3. \A i \in DOMAIN l : l[i] # "merge-commit"
      <4>1. R!StageFromStr("merge-commit")[1] = "merge-commit"
        BY DEF R!StageFromStr, R!StageNames
      <4>. QED
        BY <2>3, <3>1, <4>1
    <3>4. \A i \in DOMAIN l : R!StageFromStr(n[i]) = R!StageFromStr(l[i])
      BY <1>2, <3>3, NewNames
    <3>5. T = S
      BY <1>2, <3>4
    <3>. QED
      BY <3>1, <3>2, <3>5
  <2>. QED
    BY <2>2, <2>3 DEF m
<1>. QED
  BY <1>4, <1>5

\* A hook, a repository of what the migration leaves.
LEMMA MigratedHooks ==
  ASSUME NEW c, WholeConfig(c), NEW h \in R!Hooks(R!ApplyPrecommitToSnp(c))
  PROVE  \E g \in R!Hooks(c) : IsHook(g) /\ h = R!MigrateHook(g)
<1> DEFINE m == R!ApplyPrecommitToSnp(c)
<1>1. /\ DOMAIN m.repos = DOMAIN c.repos /\ \A i \in DOMAIN c.repos : m.repos[i] = R!MigrateRepo(c.repos[i])
  BY MigratedConfig
<1>2. PICK i \in DOMAIN m.repos : \E k \in DOMAIN m.repos[i].hooks : h = HookAt(m, i, k)
  BY SomeHook
<1>3. PICK k \in DOMAIN m.repos[i].hooks : h = m.repos[i].hooks[k]
  BY <1>2 DEF HookAt
<1> HIDE DEF m
<1>4. i \in DOMAIN c.repos /\ m.repos[i] = R!MigrateRepo(c.repos[i])
  BY <1>1, <1>2
<1>5. IsRepo(c.repos[i]) /\ Listed(c.repos[i].hooks) /\ \A x \in DOMAIN c.repos[i].hooks : IsHook(c.repos[i].hooks[x])
  BY <1>4 DEF WholeConfig
<1>6. /\ DOMAIN m.repos[i].hooks = DOMAIN c.repos[i].hooks
      /\ \A x \in DOMAIN c.repos[i].hooks : m.repos[i].hooks[x] = R!MigrateHook(c.repos[i].hooks[x])
  BY <1>4, <1>5, MigratedRepo
<1>7. HookAt(c, i, k) \in R!Hooks(c) /\ IsHook(HookAt(c, i, k)) /\ h = R!MigrateHook(HookAt(c, i, k))
  <2>1. k \in DOMAIN c.repos[i].hooks
    BY <1>3, <1>6
  <2>. QED
    BY <1>3, <1>4, <1>5, <1>6, <2>1, SomeHook DEF HookAt
<1>. QED
  BY <1>7

\* It loads if the old one did, and its stages have new names.
LEMMA MigratedLoads ==
  ASSUME NEW c, WholeConfig(c)
  PROVE  LET m == R!ApplyPrecommitToSnp(c) IN
         /\ R!ConfigValidate(c) => R!ConfigValidate(m)
         /\ R!ConfigValidate(m) => "stage" \notin R!ValidateConfig(m).errors
         /\ \A h \in R!Hooks(m) : ~R!NamesStage(h, {"commit", "push", "merge-commit"})
<1> DEFINE m == R!ApplyPrecommitToSnp(c)
<1>1. /\ m.files = c.files /\ m.exclude = c.exclude /\ m.types = c.types
      /\ m.stages = R!RenameStages(c.stages)
      /\ DOMAIN m.repos = DOMAIN c.repos /\ \A i \in DOMAIN c.repos : m.repos[i] = R!MigrateRepo(c.repos[i])
  BY MigratedConfig
<1>2. \A h \in R!Hooks(m) : \E g \in R!Hooks(c) : IsHook(g) /\ h = R!MigrateHook(g)
  BY MigratedHooks
<1> HIDE DEF m
<1>3. ASSUME R!ConfigValidate(c) PROVE R!ConfigValidate(m)
  <2>1. ASSUME NEW i \in DOMAIN m.repos
        PROVE  /\ m.repos[i].repo # "" /\ m.repos[i].hooks # <<>>
               /\ m.repos[i].repo \in {"local", "meta"} \/ R!Some(m.repos[i].rev)
    <3>1. i \in DOMAIN c.repos /\ m.repos[i] = R!MigrateRepo(c.repos[i])
      BY <1>1
    <3>2. IsRepo(c.repos[i]) /\ Listed(c.repos[i].hooks) /\ \A x \in DOMAIN c.repos[i].hooks : IsHook(c.repos[i].hooks[x])
      BY <3>1 DEF WholeConfig
    <3>3. /\ m.repos[i].repo = c.repos[i].repo
          /\ R!Some(c.repos[i].sha) => m.repos[i].rev = c.repos[i].sha
          /\ ~R!Some(c.repos[i].sha) => m.repos[i].rev = c.repos[i].rev
          /\ m.repos[i].hooks = <<>> => c.repos[i].hooks = <<>>
      BY <3>1, <3>2, MigratedRepo
    <3>4. /\ c.repos[i].repo # "" /\ c.repos[i].hooks # <<>>
          /\ c.repos[i].repo \in {"local", "meta"} \/ R!Some(c.repos[i].rev)
      BY <1>3, <3>1, Loads
    <3>. QED
      BY <3>3, <3>4
  <2>2. ASSUME NEW h \in R!Hooks(m)
        PROVE  /\ h.id # "" /\ R!Compiles(h.files) /\ R!Compiles(h.exclude)
               /\ R!Some(h.stages) => R!AllOf(h.stages[1], R!IsValidStage)
    <3>1. PICK g \in R!Hooks(c) : IsHook(g) /\ h = R!MigrateHook(g)
      BY <1>2
    <3>2. /\ h.id = g.id /\ h.files = g.files /\ h.exclude = g.exclude
          /\ g.stages = <<>> => h.stages = <<>>
          /\ g.stages # <<>> => h.stages = <<R!RenameStages(g.stages[1])>>
      BY <3>1, MigratedHook
    <3>3. /\ g.id # "" /\ R!Compiles(g.files) /\ R!Compiles(g.exclude)
          /\ R!Some(g.stages) => R!AllOf(g.stages[1], R!IsValidStage)
      BY <1>3, <3>1, Loads
    <3>4. R!Some(h.stages) => R!AllOf(h.stages[1], R!IsValidStage)
      <4> DEFINE n == R!RenameStages(g.stages[1])
      <4>1. R!AllOf(n, R!IsValidStage) <=> R!AllOf(g.stages[1], R!IsValidStage)
        BY RenamedStages
      <4> HIDE DEF n
      <4>2. h.stages # <<>> => h.stages[1] = n /\ g.stages # <<>>
        BY <3>2 DEF n
      <4>. QED
        BY <3>3, <4>1, <4>2 DEF R!Some
    <3>. QED
      BY <3>2, <3>3, <3>4
  <2>3. /\ R!Compiles(m.files) /\ R!Compiles(m.exclude)
        /\ R!AllOf(m.stages, R!IsValidStage) /\ R!AllOf(m.types, R!IsValidHookType)
    <3>1. /\ R!Compiles(c.files) /\ R!Compiles(c.exclude)
          /\ R!AllOf(c.stages, R!IsValidStage) /\ R!AllOf(c.types, R!IsValidHookType)
      BY <1>3, Loads
    <3>2. R!AllOf(R!RenameStages(c.stages), R!IsValidStage)
      BY <3>1, RenamedStages
    <3>. QED
      BY <1>1, <3>1, <3>2
  <2>. QED
    BY <2>1, <2>2, <2>3, Loads
<1>4. ASSUME NEW h \in R!Hooks(m)
      PROVE  /\ ~R!NamesStage(h, {"commit", "push", "merge-commit"})
             /\ R!Some(h.stages) /\ R!AllOf(h.stages[1], R!IsValidStage)
                  => R!AllOf(h.stages[1], LAMBDA s : s \in R!SupportedStages)
  <2>1. PICK g \in R!Hooks(c) : IsHook(g) /\ h = R!MigrateHook(g)
    BY <1>2
  <2>2. /\ g.stages = <<>> => h.stages = <<>>
        /\ g.stages # <<>> => h.stages = <<R!RenameStages(g.stages[1])>>
    BY <2>1, MigratedHook
  <2> DEFINE l == g.stages[1]
             n == R!RenameStages(l)
  <2>3. DOMAIN n = DOMAIN l /\ \A i \in DOMAIN l : n[i] = R!NewStageName(l[i])
    BY RenamedStages
  <2> HIDE DEF l, n
  <2>4. h.stages # <<>> => h.stages[1] = n
    BY <2>2 DEF l, n
  <2>5. \A i \in DOMAIN n : n[i] \notin {"commit", "push", "merge-commit"} /\ (R!IsValidStage(n[i]) => n[i] \in R!SupportedStages)
    BY <2>3, NewNames
  <2>6. ~R!NamesStage(h, {"commit", "push", "merge-commit"})
    BY <2>4, <2>5 DEF R!NamesStage, R!Some
  <2>7. R!Some(h.stages) /\ R!AllOf(h.stages[1], R!IsValidStage) => R!AllOf(h.stages[1], LAMBDA s : s \in R!SupportedStages)
    BY <2>4, <2>5 DEF R!AllOf, R!Some
  <2>. QED
    BY <2>6, <2>7
<1>5. ASSUME R!ConfigValidate(m), "stage" \in R!ValidateConfig(m).errors PROVE FALSE
  <2>1. \A r : "stage" \notin OwnErrors(r)
    BY RepositoryJudged
  <2>2. "stage" \notin R!ValidateGlobalSettings(m).errors /\ "stage" \notin R!ValidateCrossReferences(m).errors
    BY GlobalJudged, CrossJudged
  <2>3. PICK i \in DOMAIN m.repos : \E k \in DOMAIN m.repos[i].hooks : "stage" \in HookErrors(HookAt(m, i, k), m.repos[i].repo)
    BY <1>5, <2>1, <2>2, ErrorOf DEF HookAt
  <2>4. PICK k \in DOMAIN m.repos[i].hooks : "stage" \in HookErrors(HookAt(m, i, k), m.repos[i].repo)
    BY <2>3
  <2> DEFINE h == HookAt(m, i, k)
  <2>5. h \in R!Hooks(m)
    BY <2>3, <2>4, SomeHook
  <2>6. R!Some(h.stages) /\ ~R!AllOf(h.stages[1], LAMBDA s : s \in R!SupportedStages)
    BY <2>4, HookJudged
  <2>7. R!Some(h.stages) => R!AllOf(h.stages[1], R!IsValidStage)
    BY <1>5, <2>5, Loads
  <2> HIDE DEF h
  <2>. QED
    BY <1>4, <2>5, <2>6, <2>7
<1>. QED
  BY <1>3, <1>4, <1>5 DEF m


\* A file that may be migrated: of a known shape, with a hook.
IsText(t) ==
  /\ t = [shape |-> t.shape, min |-> t.min, config |-> t.config]
  /\ t.shape \in {"mapping", "list", "other", "broken"}
  /\ WholeConfig(t.config)
Snp2 == <<"snp2", "1">>

\* What a migration makes of a file.
LEMMA MigratedTo ==
  ASSUME NEW t, IsText(t), t.shape # "broken", NEW to \in {R!SnpV1, Snp2}, NEW strict \in BOOLEAN
  PROVE  LET r == R!MigrateValue(t, to, strict)
             old == t.shape \in {"mapping", "list"} IN
         /\ R!MigrateContent(t, to, strict) = <<r>>
         /\ old /\ to = R!SnpV1 =>
              /\ r.text = [shape |-> "mapping", min |-> t.min, config |-> R!ApplyPrecommitToSnp(t.config)]
              /\ r.applied <=> r.text # t
         /\ old /\ to # R!SnpV1 => r.text.config = t.config
         /\ ~old => r.text = t /\ ~r.applied
         /\ old => R!CanMigrate(R!DetectFormat(t), to)
<1> DEFINE r == R!MigrateValue(t, to, strict)
           f == R!DetectFormat(t)
           l == R!HandleLegacyList(t)
           conv == [l EXCEPT !.config = R!ApplyPrecommitToSnp(@)]
           new == IF f[1] = "pre-commit" /\ to[1] = "snp" THEN conv ELSE l
<1>1. R!MigrateContent(t, to, strict) = <<r>>
  BY DEF R!MigrateContent
<1>2. r = IF f = to /\ ~strict THEN [text |-> t, applied |-> FALSE] ELSE [text |-> new, applied |-> new # t]
  BY DEF R!MigrateValue
<1>3. /\ R!SnpV1[1] = "snp" /\ Snp2[1] = "snp2"
  BY DEF R!SnpV1, Snp2
<1>4. t.shape \in {"mapping", "list"} => f[1] = "pre-commit"
  BY DEF R!DetectFormat
<1>5. t.shape = "other" => f = R!SnpV1
  BY DEF R!DetectFormat
<1>6. t.shape = "list" => l = [shape |-> "mapping", min |-> t.min, config |-> t.config]
  BY DEF R!HandleLegacyList, IsText
<1>7. t.shape # "list" => l = t
  BY DEF R!HandleLegacyList
<1>8. t.shape \in {"mapping", "list"} => conv = [shape |-> "mapping", min |-> t.min, config |-> R!ApplyPrecommitToSnp(t.config)]
  <2> DEFINE ap(c) == R!ApplyPrecommitToSnp(c)
  <2>1. conv = [l EXCEPT !.config = ap(@)]
    OBVIOUS
  <2> HIDE DEF ap
  <2>2. t.shape \in {"mapping", "list"} => l = [shape |-> "mapping", min |-> t.min, config |-> t.config]
    BY <1>6, <1>7 DEF IsText
  <2> HIDE DEF l, conv
  <2>3. t.shape \in {"mapping", "list"} => conv = [shape |-> "mapping", min |-> t.min, config |-> ap(t.config)]
    BY <2>1, <2>2
  <2>. QED
    BY <2>3 DEF ap
<1> HIDE DEF f, l, conv, r
<1>9. CASE t.shape \in {"mapping", "list"}
  <2>1. f # to
    BY <1>3, <1>4, <1>9
  <2>2. r.text = new /\ (r.applied <=> new # t)
    <3>1. r = [text |-> new, applied |-> new # t]
      BY <1>2, <2>1
    <3> HIDE DEF new
    <3>. QED
      BY <3>1
  <2>3. R!CanMigrate(f, to)
    BY <1>3, <1>4, <1>9 DEF R!CanMigrate
  <2>4. CASE to = R!SnpV1
    <3>1. new = conv
      BY <1>3, <1>4, <1>9, <2>4
    <3> HIDE DEF new
    <3>. QED
      BY <1>1, <1>8, <1>9, <2>2, <2>3, <2>4, <3>1 DEF r, f
  <2>5. CASE to # R!SnpV1
    <3>1. to[1] = "snp2"
      BY <1>3, <2>5
    <3>2. new = l
      BY <3>1
    <3>3. l.config = t.config
      BY <1>6, <1>7, <1>9
    <3> HIDE DEF new
    <3>. QED
      BY <1>1, <1>9, <2>2, <2>3, <2>5, <3>2, <3>3 DEF r, f
  <2>. QED
    BY <2>4, <2>5
<1>10. CASE t.shape = "other"
  <2>1. new = t
    <3>1. f[1] # "pre-commit"
      BY <1>3, <1>5, <1>10
    <3>. QED
      BY <1>7, <1>10, <3>1
  <2>2. r.text = t /\ ~r.applied
    <3>1. r = [text |-> t, applied |-> FALSE] \/ r = [text |-> new, applied |-> new # t]
      BY <1>2
    <3> HIDE DEF new
    <3>2. ASSUME r = [text |-> new, applied |-> new # t] PROVE r.text = new /\ (r.applied <=> new # t)
      BY <3>2
    <3>3. ASSUME r = [text |-> t, applied |-> FALSE] PROVE r.text = t /\ ~r.applied
      BY <3>3
    <3>. QED
      BY <2>1, <3>1, <3>2, <3>3
  <2>. QED
    BY <1>1, <1>10, <2>2 DEF r
<1>. QED
  BY <1>9, <1>10 DEF IsText


\* Of two files that say the same, the migrations that were made are counted.
LEMMA DirectoryMigrations ==
  ASSUME NEW t, NEW to, NEW strict, R!Some(R!MigrateContent(t, to, strict)),
         ~R!MigrateContent(t, to, strict)[1].applied
  PROVE  R!ToSet(R!MigrateRepository([f \in {"snp.yml", "snp.yaml"} |-> t], to, strict)) = {}
<1> DEFINE files == [f \in {"snp.yml", "snp.yaml"} |-> t]
           names == R!ConfigFileNames
           ps == {i \in DOMAIN names : names[i] \in DOMAIN files /\ R!Some(R!MigrateContent(files[names[i]], to, strict))}
           there == Subsequence(names, ps)
           all == [i \in DOMAIN there |-> R!MigrateContent(files[there[i]], to, strict)[1]]
<1>1. R!MigrateDirectory(files, to, strict) = all
  <2>1. R!Subsequence(names, ps) = there
    BY SameSubsequence
  <2> HIDE DEF files, names
  <2>2. R!MigrateDirectory(files, to, strict) =
          [i \in DOMAIN R!Subsequence(names, ps) |-> R!MigrateContent(files[R!Subsequence(names, ps)[i]], to, strict)[1]]
    BY Zenon DEF R!MigrateDirectory, names
  <2> HIDE DEF ps, there
  <2>. QED
    BY <2>1, <2>2 DEF there
<1>2. ps \subseteq 1..4
  BY DEF R!ConfigFileNames
<1>3. \A f \in DOMAIN files : files[f] = t
  OBVIOUS
<1>4. \A i \in ps : names[i] \in DOMAIN files
  OBVIOUS
<1> HIDE DEF files, names, ps
<1>5. Picked(there, names, ps)
  BY <1>2, SubsequenceOf
<1> HIDE DEF there
<1>6. \A i \in DOMAIN there : files[there[i]] = t
  <2>1. DOMAIN there = 1..Len(there) /\ \A n \in 1..Len(there) : \E i \in ps : there[n] = names[i]
    BY <1>5, ListLen DEF Picked
  <2>. QED
    BY <1>3, <1>4, <2>1
<1>7. {k \in DOMAIN all : all[k].applied} = {}
  <2> DEFINE r == R!MigrateContent(t, to, strict)[1]
  <2>1. \A k \in DOMAIN all : all[k] = r
    BY <1>6
  <2>2. ~r.applied
    OBVIOUS
  <2> HIDE DEF r, all
  <2>. QED
    BY <2>1, <2>2
<1>8. R!Cardinality({}) = 0
  <2>1. \A s : R!Cardinality(s) = Cardinality(s)
    BY Zenon DEF R!Cardinality, Cardinality
  <2>. QED
    BY <2>1, FS_EmptySet
<1>9. R!MigrateRepository(files, to, strict) =
         [i \in 1..R!Cardinality({k \in DOMAIN all : all[k].applied}) |-> ".pre-commit-config.yaml"]
  <2> HIDE DEF all
  <2>. QED
    BY <1>1, Zenon DEF R!MigrateRepository
<1>10. R!MigrateRepository(files, to, strict) = [i \in 1..0 |-> ".pre-commit-config.yaml"]
  BY <1>7, <1>8, <1>9
<1> DEFINE last == R!MigrateRepository(files, to, strict)
<1>11. DOMAIN last = {}
  BY <1>10
<1> HIDE DEF last
<1>12. R!ToSet(last) = {}
  BY <1>11 DEF R!ToSet
<1>. QED
  BY <1>12 DEF last, files


\* What is promised of the migration of a file with a hook.
MigrationOf(t, to, strict) ==
  R!Some(R!MigrateContent(t, to, strict)) =>
    LET r == R!MigrateContent(t, to, strict)[1]
        old == t.config.repos[1]
        fresh == r.text.config.repos[1] IN
    /\ to = R!SnpV1 => ~R!MigrateContent(r.text, to, strict)[1].applied
    /\ R!ConfigValidate(t.config) => R!ConfigValidate(r.text.config)
    /\ r.applied /\ to = R!SnpV1 => fresh.rev = (IF R!Some(old.sha) THEN old.sha ELSE old.rev)
    /\ LET a == R!FromConfig(old.hooks[1])
           b == R!FromConfig(fresh.hooks[1]) IN
       /\ R!Some(a) <=> R!Some(b)
       /\ R!Some(a) /\ "merge-commit" \notin a[1].stages => \A x \in R!StageNames : R!RunsForStage(b[1], x) <=> R!RunsForStage(a[1], x)
    /\ r.applied /\ to = R!SnpV1 /\ R!ConfigValidate(r.text.config) =>
         ~R!NamesStage(fresh.hooks[1], {"commit", "push", "merge-commit"})
         /\ "stage" \notin R!ValidateConfig(r.text.config).errors
    /\ r.applied => R!CanMigrate(R!DetectFormat(t), to) /\ t.shape \in {"mapping", "list"}
    /\ \A n \in R!ToSet(R!MigrateRepository([f \in {"snp.yml", "snp.yaml"} |-> t], to, strict)) : r.applied

LEMMA AnyMigration ==
  ASSUME NEW t, IsText(t), NEW to \in {R!SnpV1, Snp2}, NEW strict \in BOOLEAN,
         1 \in DOMAIN t.config.repos, 1 \in DOMAIN t.config.repos[1].hooks
  PROVE  MigrationOf(t, to, strict)
<1> DEFINE r == R!MigrateContent(t, to, strict)[1]
           v == R!MigrateValue(t, to, strict)
           c == t.config
           m == R!ApplyPrecommitToSnp(c)
           old == c.repos[1]
           fresh == r.text.config.repos[1]
           mapped == t.shape \in {"mapping", "list"}
<1>1. SUFFICES ASSUME R!Some(R!MigrateContent(t, to, strict)) PROVE MigrationOf(t, to, strict)
  BY DEF MigrationOf
<1>2. t.shape # "broken"
  BY <1>1 DEF R!MigrateContent, R!Some
<1>3. /\ R!MigrateContent(t, to, strict) = <<v>>
      /\ mapped /\ to = R!SnpV1 =>
           /\ v.text = [shape |-> "mapping", min |-> t.min, config |-> m]
           /\ v.applied <=> v.text # t
      /\ mapped /\ to # R!SnpV1 => v.text.config = c
      /\ ~mapped => v.text = t /\ ~v.applied
      /\ mapped => R!CanMigrate(R!DetectFormat(t), to)
  BY <1>2, MigratedTo
<1>4. r = v
  <2> HIDE DEF v
  <2>. QED
    BY <1>3, OnlyElement
<1> HIDE DEF r, v
<1>5. WholeConfig(c)
  BY DEF IsText
<1>6. IsRepo(old) /\ Listed(old.hooks) /\ \A k \in DOMAIN old.hooks : IsHook(old.hooks[k])
  BY <1>5 DEF WholeConfig
<1>7. \/ r.text.config = c /\ (to = R!SnpV1 => ~r.applied)
      \/ r.text.config = m /\ mapped /\ to = R!SnpV1
  <2>1. CASE mapped /\ to = R!SnpV1
    BY <1>3, <1>4, <2>1
  <2>2. CASE mapped /\ to # R!SnpV1
    BY <1>3, <1>4, <2>2
  <2>3. CASE ~mapped
    BY <1>3, <1>4, <2>3
  <2>. QED
    BY <2>1, <2>2, <2>3
<1>8. ASSUME to = R!SnpV1 PROVE ~R!MigrateContent(r.text, to, strict)[1].applied
  <2>1. CASE ~mapped
    BY <1>3, <1>4, <2>1
  <2>2. CASE mapped
    <3> DEFINE n == [shape |-> "mapping", min |-> t.min, config |-> m]
               w == R!MigrateValue(n, to, strict)
    <3>1. WholeConfig(m) /\ R!ApplyPrecommitToSnp(m) = m
      BY <1>5, MigratedConfig
    <3>2. IsText(n) /\ n.shape = "mapping" /\ n.min = t.min /\ n.config = m
      <4> HIDE DEF m
      <4>. QED
        BY <3>1 DEF IsText
    <3> HIDE DEF n, m
    <3>3. /\ R!MigrateContent(n, to, strict) = <<w>>
          /\ w.text = [shape |-> "mapping", min |-> n.min, config |-> R!ApplyPrecommitToSnp(n.config)]
          /\ w.applied <=> w.text # n
      BY <1>8, <3>2, MigratedTo
    <3>4. w.text = n
      BY <3>1, <3>2, <3>3 DEF n
    <3>5. R!MigrateContent(n, to, strict)[1] = w
      <4> HIDE DEF w
      <4>. QED
        BY <3>3, OnlyElement
    <3>6. r.text = n
      BY <1>3, <1>4, <1>8, <2>2 DEF n
    <3> HIDE DEF w
    <3>. QED
      BY <3>3, <3>4, <3>5, <3>6
  <2>. QED
    BY <2>1, <2>2
<1>9. /\ R!ConfigValidate(c) => R!ConfigValidate(m)
      /\ R!ConfigValidate(m) => "stage" \notin R!ValidateConfig(m).errors
      /\ \A h \in R!Hooks(m) : ~R!NamesStage(h, {"commit", "push", "merge-commit"})
  BY <1>5, MigratedLoads
<1>10. m.repos[1] = R!MigrateRepo(old) /\ 1 \in DOMAIN m.repos
  BY <1>5, MigratedConfig
<1>11. LET o == R!MigrateRepo(old) IN
       /\ o.hooks[1] = R!MigrateHook(old.hooks[1]) /\ 1 \in DOMAIN o.hooks
       /\ R!Some(old.sha) => o.rev = old.sha
       /\ ~R!Some(old.sha) => o.rev = old.rev
  BY <1>6, MigratedRepo
<1> HIDE DEF m
<1>12. R!ConfigValidate(c) => R!ConfigValidate(r.text.config)
  BY <1>7, <1>9
<1>13. ASSUME r.applied, to = R!SnpV1 PROVE fresh.rev = (IF R!Some(old.sha) THEN old.sha ELSE old.rev)
  <2>1. r.text.config = m
    BY <1>7, <1>13
  <2>2. fresh = R!MigrateRepo(old)
    BY <1>10, <2>1
  <2>. QED
    BY <1>11, <2>2
<1>14. fresh.hooks[1] = old.hooks[1] \/ fresh.hooks[1] = R!MigrateHook(old.hooks[1])
  BY <1>7, <1>10, <1>11
<1>15. LET a == R!FromConfig(old.hooks[1])
           b == R!FromConfig(fresh.hooks[1]) IN
       /\ R!Some(a) <=> R!Some(b)
       /\ R!Some(a) /\ "merge-commit" \notin a[1].stages => \A x \in R!StageNames : R!RunsForStage(b[1], x) <=> R!RunsForStage(a[1], x)
  <2> DEFINE h == old.hooks[1]
             g == fresh.hooks[1]
  <2>1. IsHook(h)
    BY <1>6
  <2>2. g = h \/ g = R!MigrateHook(h)
    BY <1>14
  <2> HIDE DEF h, g
  <2>3. /\ R!Some(R!FromConfig(h)) <=> R!Some(R!FromConfig(g))
        /\ R!Some(R!FromConfig(h)) /\ "merge-commit" \notin R!FromConfig(h)[1].stages
             => R!FromConfig(g)[1].stages = R!FromConfig(h)[1].stages
    BY <2>1, <2>2, MigratedStages
  <2>. QED
    BY <2>3 DEF R!RunsForStage, h, g
<1>16. ASSUME r.applied, to = R!SnpV1, R!ConfigValidate(r.text.config)
       PROVE  ~R!NamesStage(fresh.hooks[1], {"commit", "push", "merge-commit"})
              /\ "stage" \notin R!ValidateConfig(r.text.config).errors
  <2>1. r.text.config = m
    BY <1>7, <1>16
  <2>2. fresh.hooks[1] = HookAt(m, 1, 1) /\ HookAt(m, 1, 1) \in R!Hooks(m)
    BY <1>10, <1>11, <2>1, SomeHook DEF HookAt
  <2>. QED
    BY <1>9, <1>16, <2>1, <2>2
<1>17. ASSUME r.applied PROVE R!CanMigrate(R!DetectFormat(t), to) /\ mapped
  BY <1>3, <1>4, <1>17
<1>18. ASSUME NEW n \in R!ToSet(R!MigrateRepository([f \in {"snp.yml", "snp.yaml"} |-> t], to, strict)) PROVE r.applied
  BY <1>1, DirectoryMigrations DEF r
<1> HIDE DEF mapped, fresh, old
<1>. QED
  BY <1>8, <1>12, <1>13, <1>15, <1>16, <1>17, <1>18, Zenon DEF MigrationOf, r, mapped, fresh, old


-----------------------------------------------------------------------------
(* Configurations: the questions that are asked.                             *)

OptionalStages(o) == o = <<>> \/ \E s : Listed(s) /\ o = <<s>>
LEMMA StagesListed == \A s \in R!StageLists : Listed(s)
<1> DEFINE W == {"commit", "merge-commit", "push", "manual", "commit-msg", "later"}
<1>1. /\ <<>> \in Seq(W) /\ <<"commit">> \in Seq(W) /\ <<"merge-commit">> \in Seq(W)
      /\ <<"push", "manual">> \in Seq(W) /\ <<"commit-msg">> \in Seq(W) /\ <<"later">> \in Seq(W)
  OBVIOUS
<1> HIDE DEF W
<1>2. \A s \in R!StageLists : s \in Seq(W)
  BY <1>1, Zenon DEF R!StageLists
<1>. QED
  BY <1>2 DEF Listed

LEMMA AHookIs ==
  /\ IsHook(R!AHook) /\ R!AHook.stages = <<>> /\ R!AHook.id = "a" /\ R!AHook.entry = "e"
BY DEF IsHook, HookFields, R!AHook

\* A hook of which some fields are changed is one.
LEMMA ChangedHook ==
  ASSUME NEW h, IsHook(h), NEW i, NEW e, NEW l, NEW p, NEW s
  PROVE  LET a == [h EXCEPT !.id = i, !.entry = e, !.language = l, !.files = p, !.stages = s]
             b == [h EXCEPT !.id = i]
             f == [h EXCEPT !.id = i, !.entry = e]
             g == [h EXCEPT !.entry = e]
             m == [h EXCEPT !.stages = s, !.language = l] IN
         /\ IsHook(a) /\ a.stages = s
         /\ IsHook(b) /\ b.stages = h.stages
         /\ IsHook(f) /\ f.stages = h.stages
         /\ IsHook(g) /\ g.stages = h.stages
         /\ IsHook(m) /\ m.stages = s
BY DEF IsHook, HookFields

LEMMA SomeHooksAre == \A h \in R!SomeHooks : IsHook(h) /\ OptionalStages(h.stages)
<1> DEFINE f(i, e, l, p, s) == [R!AHook EXCEPT !.id = i, !.entry = e, !.language = l, !.files = p, !.stages = s]
           S == {<<>>} \union {<<t>> : t \in R!StageLists}
           I == {"", "a"}
           E == {"", "e"}
           L == {"", "python_venv", "cobol"}
           P == {<<>>, <<{"f"}>>, <<R!BadRegex>>}
<1>1. R!SomeHooks = {f(i, e, l, p, s) : i \in I, e \in E, l \in L, p \in P, s \in S}
  BY DEF R!SomeHooks
<1>2. SUFFICES ASSUME NEW h \in R!SomeHooks PROVE IsHook(h) /\ OptionalStages(h.stages)
  OBVIOUS
<1>3. \A s \in S : OptionalStages(s)
  BY StagesListed DEF OptionalStages
<1>4. \A i, e, l, p, s : IsHook(f(i, e, l, p, s)) /\ f(i, e, l, p, s).stages = s
  <2>1. SUFFICES ASSUME NEW i, NEW e, NEW l, NEW p, NEW s
                 PROVE  IsHook(f(i, e, l, p, s)) /\ f(i, e, l, p, s).stages = s
    OBVIOUS
  <2> HIDE DEF S, I, E, L, P
  <2>. QED
    BY DEF IsHook, HookFields, R!AHook
<1> HIDE DEF f, I, E, L, P, S
<1>5. PICK i, e, l, p, s : s \in S /\ h = f(i, e, l, p, s)
  BY <1>1, <1>2
<1>. QED
  BY <1>3, <1>4, <1>5

LEMMA DefinitionsAre == \A h \in R!Definitions : IsHook(h)
<1> DEFINE f(i, e, l, p, s) == [R!AHook EXCEPT !.id = i, !.entry = e, !.language = l, !.files = p, !.stages = s]
           I == {"", "a", "b"}
           E == {"", "e2"}
           L == {"", "rust"}
           P == {<<>>, <<{"g"}>>}
           S == {<<>>, <<<<"later">>>>}
<1>1. SUFFICES ASSUME NEW h \in R!Definitions PROVE IsHook(h)
  OBVIOUS
<1>2. R!Definitions = {f(i, e, l, p, s) : i \in I, e \in E, l \in L, p \in P, s \in S}
  BY SMTT(30) DEF R!Definitions
<1>3. \A i, e, l, p, s : IsHook(f(i, e, l, p, s))
  BY AHookIs, ChangedHook
<1> HIDE DEF f, I, E, L, P, S
<1>4. PICK i, e, l, p, s : h = f(i, e, l, p, s)
  BY <1>2
<1>. QED
  BY <1>3, <1>4

LEMMA RepoIs ==
  ASSUME NEW r, NEW v, NEW s, NEW hooks
  PROVE  LET x == R!Repo(r, v, s, hooks) IN IsRepo(x) /\ x.repo = r /\ x.rev = v /\ x.sha = s /\ x.hooks = hooks
BY DEF IsRepo, R!Repo

LEMMA AConfigIs ==
  ASSUME NEW rs, NEW n, NEW y, NEW p
  PROVE  LET a == [R!AConfig EXCEPT !.repos = rs]
             b == [R!AConfig EXCEPT !.files = p, !.stages = n, !.types = y, !.repos = rs]
             e == [R!AConfig EXCEPT !.stages = n, !.repos = rs] IN
         /\ IsConfig(a) /\ a.repos = rs
         /\ b.repos = rs
         /\ IsConfig(e) /\ e.repos = rs /\ e.stages = n
BY DEF IsConfig, R!AConfig

LEMMA ConfigurationAsked == R!Configuration => q'.kind = "config" /\ StagesTyped(q'.c)
<1>1. ASSUME NEW h \in R!SomeHooks, NEW r, NEW v, NEW s,
             q' = [kind |-> "config", c |-> [R!AConfig EXCEPT !.repos = <<R!Repo(r, v, s, <<h>>)>>]]
      PROVE  q'.kind = "config" /\ StagesTyped(q'.c)
  <2> DEFINE rp == R!Repo(r, v, s, <<h>>)
             c == [R!AConfig EXCEPT !.repos = <<rp>>]
  <2>1. rp.hooks = <<h>>
    <3> DEFINE hs == <<h>>
    <3> HIDE DEF hs
    <3>1. R!Repo(r, v, s, hs).hooks = hs
      BY RepoIs
    <3>. QED
      BY <3>1, Zenon DEF hs
  <2>0. c.repos = <<rp>>
    <3> DEFINE rs == <<rp>>
    <3> HIDE DEF rs
    <3>1. [R!AConfig EXCEPT !.repos = rs].repos = rs
      BY AConfigIs
    <3>. QED
      BY <3>1, Zenon DEF rs
  <2>2. q'.kind = "config" /\ q'.c = c
    BY <1>1
  <2> HIDE DEF c, rp
  <2>3. ASSUME NEW x \in R!Hooks(c) PROVE x = h
    <3>1. PICK i \in DOMAIN c.repos : \E k \in DOMAIN c.repos[i].hooks : x = HookAt(c, i, k)
      BY <2>3, SomeHook
    <3>2. c.repos[i] = rp
      BY <2>0, <3>1
    <3>. QED
      BY <2>1, <3>1, <3>2 DEF HookAt
  <2>. QED
    BY <2>2, <2>3, SomeHooksAre DEF StagesTyped, OptionalStages
<1>2. ASSUME NEW i, NEW j, NEW r, NEW t, NEW e, NEW n, NEW y, NEW p, NEW v,
             q' = [kind |-> "config",
                   c |-> [R!AConfig EXCEPT !.files = p, !.stages = n, !.types = y,
                            !.repos = <<R!Repo(r, v, <<>>, <<[R!AHook EXCEPT !.id = i]>>),
                                        R!Repo(t, v, <<>>, <<[R!AHook EXCEPT !.id = j, !.entry = e]>>)>>]]
      PROVE  q'.kind = "config" /\ StagesTyped(q'.c)
  <2> DEFINE a == [R!AHook EXCEPT !.id = i]
             b == [R!AHook EXCEPT !.id = j, !.entry = e]
             ra == R!Repo(r, v, <<>>, <<a>>)
             rb == R!Repo(t, v, <<>>, <<b>>)
             c == [R!AConfig EXCEPT !.files = p, !.stages = n, !.types = y, !.repos = <<ra, rb>>]
  <2>1. ra.hooks = <<a>> /\ rb.hooks = <<b>>
    <3> DEFINE ha == <<a>>
               hb == <<b>>
    <3> HIDE DEF ha, hb
    <3>1. R!Repo(r, v, <<>>, ha).hooks = ha /\ R!Repo(t, v, <<>>, hb).hooks = hb
      BY RepoIs
    <3>. QED
      BY <3>1, Zenon DEF ha, hb
  <2>0. c.repos = <<ra, rb>>
    <3> DEFINE rs == <<ra, rb>>
    <3> HIDE DEF rs
    <3>1. [R!AConfig EXCEPT !.files = p, !.stages = n, !.types = y, !.repos = rs].repos = rs
      BY DEF R!AConfig
    <3>. QED
      BY <3>1, Zenon DEF rs
  <2>2. q'.kind = "config" /\ q'.c = c
    BY <1>2
  <2>3. a.stages = <<>> /\ b.stages = <<>>
    <3>1. a.stages = R!AHook.stages /\ b.stages = R!AHook.stages
      BY DEF R!AHook
    <3>. QED
      BY <3>1, AHookIs
  <2> HIDE DEF c, ra, rb, a, b
  <2>4. ASSUME NEW x \in R!Hooks(c) PROVE x.stages = <<>>
    <3>1. PICK k \in DOMAIN c.repos : \E m \in DOMAIN c.repos[k].hooks : x = HookAt(c, k, m)
      BY <2>4, SomeHook
    <3>2. c.repos[k] = ra \/ c.repos[k] = rb
      BY <2>0, <3>1
    <3>3. x = a \/ x = b
      BY <2>1, <3>1, <3>2 DEF HookAt
    <3>. QED
      BY <2>3, <3>3
  <2>. QED
    BY <2>2, <2>4 DEF StagesTyped
<1> DEFINE one(h, r, v, s) == [kind |-> "config", c |-> [R!AConfig EXCEPT !.repos = <<R!Repo(r, v, s, <<h>>)>>]]
           two(i, j, r, t, e, n, y, p, v) ==
             [kind |-> "config",
              c |-> [R!AConfig EXCEPT !.files = p, !.stages = n, !.types = y,
                       !.repos = <<R!Repo(r, v, <<>>, <<[R!AHook EXCEPT !.id = i]>>),
                                   R!Repo(t, v, <<>>, <<[R!AHook EXCEPT !.id = j, !.entry = e]>>)>>]]
           V == <<"v1">>
           good == q'.kind = "config" /\ StagesTyped(q'.c)
<1>3. \A h \in R!SomeHooks : \A r, v, s : q' = one(h, r, v, s) => good
  BY <1>1
<1>4. \A i, j, r, t, e, n, y, p, v : q' = two(i, j, r, t, e, n, y, p, v) => good
  BY <1>2
<1>5. R!Configuration <=>
        \/ \E h \in R!SomeHooks, r \in {"", "local", "meta", "url", "path"}, v \in R!Revisions,
              s \in {<<>>, <<"v0">>} : q' = one(h, r, v, s)
        \/ \E i, j \in {"a", "b", "identity"}, r, t \in {"local", "meta", "url"}, e \in {"", "e"},
              n \in R!StageLists, y \in R!StageLists \union {<<"pre-push">>}, p \in {<<>>, <<R!BadRegex>>} :
             q' = two(i, j, r, t, e, n, y, p, V)
  BY DEF R!Configuration
<1> HIDE DEF one, two, V, good
<1>6. R!Configuration => good
  <2>1. SUFFICES ASSUME R!Configuration PROVE good
    OBVIOUS
  <2>2. CASE \E h \in R!SomeHooks, r \in {"", "local", "meta", "url", "path"}, v \in R!Revisions,
               s \in {<<>>, <<"v0">>} : q' = one(h, r, v, s)
    BY <1>3, <2>2, Zenon
  <2>3. CASE \E i, j \in {"a", "b", "identity"}, r, t \in {"local", "meta", "url"}, e \in {"", "e"},
              n \in R!StageLists, y \in R!StageLists \union {<<"pre-push">>}, p \in {<<>>, <<R!BadRegex>>} :
             q' = two(i, j, r, t, e, n, y, p, V)
    <3> DEFINE A == {"a", "b", "identity"}
               B == {"local", "meta", "url"}
               E == {"", "e"}
               T == R!StageLists \union {<<"pre-push">>}
               P == {<<>>, <<R!BadRegex>>}
    <3>1. \E i, j \in A : \E r, t \in B : \E e \in E, n \in R!StageLists, y \in T, p \in P : q' = two(i, j, r, t, e, n, y, p, V)
      BY <2>3
    <3> HIDE DEF A, B, E, T, P
    <3>2. PICK i, j, r, t, e, n, y, p : q' = two(i, j, r, t, e, n, y, p, V)
      BY <3>1
    <3>. QED
      BY <1>4, <3>2, Zenon
  <2>. QED
    BY <1>5, <2>1, <2>2, <2>3, Zenon
<1>. QED
  BY <1>6 DEF good


\* A list of a set of lists of hooks holds hooks.
HookList(l) == Listed(l) /\ \A i \in DOMAIN l : IsHook(l[i])
LEMMA FewDefinitions == \A l \in R!Lists(R!Definitions, 1) : HookList(l)
<1>1. SUFFICES ASSUME NEW l \in R!Lists(R!Definitions, 1) PROVE HookList(l)
  OBVIOUS
<1> DEFINE D == R!Definitions
<1> HIDE DEF D
<1>2. PICK k \in 0..1 : l \in [1..k -> D]
  <2>1. l \in R!Lists(D, 1)
    BY <1>1 DEF D
  <2>. QED
    BY <2>1 DEF R!Lists
<1>3. k \in Nat /\ l = [i \in 1..k |-> l[i]] /\ \A i \in 1..k : l[i] \in D
  BY <1>2
<1>4. Listed(l) /\ DOMAIN l = 1..k
  BY <1>3, ListTable
<1>. QED
  BY <1>3, <1>4, DefinitionsAre DEF HookList, D

LEMMA OneMore ==
  ASSUME NEW l, HookList(l), NEW h, IsHook(h)
  PROVE  HookList(l \o <<>>) /\ HookList(l \o <<h>>)
<1>1. PICK S : l \in Seq(S)
  BY DEF HookList, Listed
<1>2. l \o <<>> = l
  BY <1>1
<1> DEFINE T == S \union {h}
           m == l \o <<h>>
<1>3. l \in Seq(T) /\ <<h>> \in Seq(T)
  BY <1>1
<1>4. m \in Seq(T)
  BY <1>3
<1>5. \A i \in DOMAIN m : (i \in DOMAIN l /\ m[i] = l[i]) \/ m[i] = h
  BY <1>1
<1> HIDE DEF m, T
<1>6. HookList(m)
  BY <1>4, <1>5 DEF HookList, Listed
<1>. QED
  BY <1>2, <1>6 DEF m

LEMMA ResolveAsked == R!Resolve => q'.kind = "resolve" /\ Resolvable(q'.c, q'.files)
<1>1. ASSUME NEW h, IsHook(h), NEW l, l = <<>> \/ \E s : HookList(s) /\ l = <<s>>,
             q' = [kind |-> "resolve",
                   c |-> [R!AConfig EXCEPT !.repos = <<R!Repo("local", <<>>, <<>>, <<R!AHook>>),
                                                       R!Repo("url", <<"v1">>, <<>>, <<h, [R!AHook EXCEPT !.id = "z"]>>)>>],
                   files |-> <<<<>>, l>>]
      PROVE  q'.kind = "resolve" /\ Resolvable(q'.c, q'.files)
  <2> DEFINE z == [R!AHook EXCEPT !.id = "z"]
             hs == <<h, z>>
             ra == R!Repo("local", <<>>, <<>>, <<R!AHook>>)
             rb == R!Repo("url", <<"v1">>, <<>>, hs)
             rs == <<ra, rb>>
             c == [R!AConfig EXCEPT !.repos = rs]
             fs == <<<<>>, l>>
  <2>1. q'.kind = "resolve" /\ q'.c = c /\ q'.files = fs
    BY <1>1, SMTT(30)
  <2>2. IsHook(z)
    BY AHookIs, ChangedHook
  <2> HIDE DEF z
  <2>3. \A k \in DOMAIN hs : IsHook(hs[k])
    BY <1>1, <2>2
  <2> HIDE DEF hs
  <2>4. ra.repo = "local" /\ rb.repo = "url" /\ IsRepo(rb) /\ rb.hooks = hs
    BY DEF R!Repo, IsRepo
  <2> HIDE DEF ra, rb
  <2>5. rs[1] = ra /\ rs[2] = rb /\ rs = [i \in 1..2 |-> rs[i]]
    OBVIOUS
  <2> HIDE DEF rs
  <2>6. IsConfig(c) /\ c.repos = rs
    BY DEF IsConfig, R!AConfig
  <2>7. fs[2] = l
    OBVIOUS
  <2> HIDE DEF c, fs
  <2>8. Resolvable(c, fs)
    BY <1>1, <2>3, <2>4, <2>5, <2>6, <2>7 DEF Resolvable, IsConfig, IsRepo, HookList
  <2>. QED
    BY <2>1, <2>8
<1> DEFINE F == {<<>>} \union {<<l>> : l \in R!Lists(R!Definitions, 1)}
           x == [R!AHook EXCEPT !.entry = "e3"]
           X == {<<>>} \union {<<x>>}
           both(f, e) == IF R!Some(f) THEN <<f[1] \o e>> ELSE f
           asked(h, l) == [kind |-> "resolve",
                           c |-> [R!AConfig EXCEPT !.repos = <<R!Repo("local", <<>>, <<>>, <<R!AHook>>),
                                                               R!Repo("url", <<"v1">>, <<>>, <<h, [R!AHook EXCEPT !.id = "z"]>>)>>],
                           files |-> <<<<>>, l>>]
           good == q'.kind = "resolve" /\ Resolvable(q'.c, q'.files)
<1>2. \A h, l : IsHook(h) /\ (l = <<>> \/ \E s : HookList(s) /\ l = <<s>>) /\ q' = asked(h, l) => good
  BY <1>1
<1>3. R!Resolve <=> \E h \in R!SomeHooks, f \in F, e \in X : h.files # <<R!BadRegex>> /\ q' = asked(h, both(f, e))
  BY DEF R!Resolve
<1>4. IsHook(x)
  BY AHookIs, ChangedHook
<1> HIDE DEF x, asked, good
<1>5. ASSUME NEW f \in F, NEW e \in X PROVE both(f, e) = <<>> \/ \E s : HookList(s) /\ both(f, e) = <<s>>
  <2>1. CASE f = <<>>
    BY <2>1 DEF R!Some
  <2>2. CASE f # <<>>
    <3>1. PICK l \in R!Lists(R!Definitions, 1) : f = <<l>>
      BY <2>2
    <3>2. HookList(l)
      BY <3>1, FewDefinitions
    <3>3. f[1] = l
      BY <3>1, OnlyElement
    <3>4. both(f, e) = <<l \o e>>
      BY <2>2, <3>3 DEF R!Some
    <3>5. HookList(l \o e)
      BY <1>4, <3>2, OneMore
    <3>. QED
      BY <3>4, <3>5
  <2>. QED
    BY <2>1, <2>2
<1> HIDE DEF F, X, both
<1>. QED
  BY <1>2, <1>3, <1>5, SomeHooksAre DEF good

LEMMA FilterAsked == R!FilterQuestion => q'.kind = "filter"
<1> DEFINE P == {<<>>, <<{"f"}>>, <<{"f", "g"}>>, <<R!BadRegex>>}
           T == {{}, {"python"}, {"shell", "text"}}
           D == [{"f", "g"} -> {<<>>} \union {<<c>> : c \in R!FewContents}]
           asked(i, o, s, n, a, b, d) ==
             [kind |-> "filter", disk |-> d, bloom |-> b,
              hook |-> [R!AHook EXCEPT !.files = i, !.exclude = o, !.types_or = <<s>>,
                                       !.exclude_types = <<n>>, !.always_run = <<a>>]]
<1>1. R!FilterQuestion <=>
        \E i, o \in P, s, n \in T, a \in BOOLEAN, b \in {{}, {"f"}}, d \in D : q' = asked(i, o, s, n, a, b, d)
  BY DEF R!FilterQuestion
<1>2. \A i, o, s, n, a, b, d : asked(i, o, s, n, a, b, d).kind = "filter"
  OBVIOUS
<1> HIDE DEF P, T, D, asked
<1>. QED
  BY <1>1, <1>2

LEMMA ClassifyAsked == R!Classify => q'.kind = "classify"
BY DEF R!Classify


\* The files whose migration is asked for have a hook.
HookThere(t) == IsText(t) /\ 1 \in DOMAIN t.config.repos /\ 1 \in DOMAIN t.config.repos[1].hooks
LEMMA TextsAre == \A t \in R!Texts : HookThere(t)
<1> DEFINE text(n, t, v, s, l) ==
             [R!AConfig EXCEPT !.stages = n, !.repos = <<R!Repo("url", v, s, <<[R!AHook EXCEPT !.stages = <<t>>, !.language = l]>>)>>]
           C == {text(n, t, v, s, l) : n, t \in R!StageLists, v \in R!Revisions, s \in {<<>>, <<"v0">>}, l \in {"python_venv", "rust"}}
           H == {"mapping", "list", "other", "broken"}
           M == {<<>>, <<"2.1">>}
           Whole(c) == WholeConfig(c) /\ 1 \in DOMAIN c.repos /\ 1 \in DOMAIN c.repos[1].hooks
<1>1. R!Texts = [shape : H, min : M, config : C]
  BY DEF R!Texts
<1>2. ASSUME NEW n \in R!StageLists, NEW t, NEW v, NEW s, NEW l
      PROVE  Whole(text(n, t, v, s, l))
  <2> DEFINE h == [R!AHook EXCEPT !.stages = <<t>>, !.language = l]
             hs == <<h>>
             r == R!Repo("url", v, s, hs)
             rs == <<r>>
             c == [R!AConfig EXCEPT !.stages = n, !.repos = rs]
  <2>1. IsHook(h)
    BY AHookIs, ChangedHook
  <2> HIDE DEF h
  <2>2. Listed(hs) /\ 1 \in DOMAIN hs /\ \A k \in DOMAIN hs : IsHook(hs[k])
    <3>1. hs \in Seq({h}) /\ 1 \in DOMAIN hs /\ \A k \in DOMAIN hs : hs[k] = h
      OBVIOUS
    <3> HIDE DEF hs
    <3>. QED
      BY <2>1, <3>1 DEF Listed
  <2> HIDE DEF hs
  <2>3. IsRepo(r) /\ r.hooks = hs
    BY DEF R!Repo, IsRepo
  <2> HIDE DEF r
  <2>4. Listed(rs) /\ 1 \in DOMAIN rs /\ \A i \in DOMAIN rs : rs[i] = r
    <3>1. rs \in Seq({r}) /\ 1 \in DOMAIN rs /\ \A k \in DOMAIN rs : rs[k] = r
      OBVIOUS
    <3> HIDE DEF rs
    <3>. QED
      BY <3>1 DEF Listed
  <2> HIDE DEF rs
  <2>5. IsConfig(c) /\ c.repos = rs /\ c.stages = n
    BY DEF IsConfig, R!AConfig
  <2>6. Listed(n)
    BY StagesListed
  <2> HIDE DEF c
  <2>7. Whole(c)
    BY <2>2, <2>3, <2>4, <2>5, <2>6 DEF WholeConfig
  <2> HIDE DEF Whole
  <2>. QED
    BY <2>7, SMTT(30) DEF c, rs, r, hs, h
<1> HIDE DEF text, H, M
<1>3. \A c \in C : Whole(c)
  <2> HIDE DEF Whole
  <2>. QED
    BY <1>2
<1> HIDE DEF C
<1>4. ASSUME NEW t \in R!Texts PROVE HookThere(t)
  <2>1. /\ t = [shape |-> t.shape, min |-> t.min, config |-> t.config]
        /\ t.shape \in H /\ t.config \in C
    BY <1>1
  <2>. QED
    BY <1>3, <2>1 DEF HookThere, IsText, H
<1>. QED
  BY <1>4

LEMMA MigrateAsked ==
  ASSUME R!Migrate
  PROVE  \/ q'.kind = "migrate" /\ HookThere(q'.text) /\ q'.to \in {R!SnpV1, Snp2} /\ q'.strict \in BOOLEAN
         \/ q'.kind = "detect" /\ q'.marks \subseteq {"repos:", "snp:", "brace"}
<1> DEFINE V == {R!SnpV1, Snp2}
           M == {"repos:", "snp:", "brace"}
           one(t, v, s) == [kind |-> "migrate", text |-> t, to |-> v, strict |-> s]
           two(m) == [kind |-> "detect", marks |-> m]
<1>1. R!Migrate <=> \/ \E t \in R!Texts, v \in V, s \in BOOLEAN : q' = one(t, v, s)
                    \/ \E m \in SUBSET M : q' = two(m)
  BY DEF R!Migrate, Snp2
<1>2. \A t, v, s : one(t, v, s).kind = "migrate" /\ one(t, v, s).text = t /\ one(t, v, s).to = v /\ one(t, v, s).strict = s
  OBVIOUS
<1>3. \A m : two(m).kind = "detect" /\ two(m).marks = m
  OBVIOUS
<1> HIDE DEF one, two, V, M
<1>4. CASE \E t \in R!Texts, v \in V, s \in BOOLEAN : q' = one(t, v, s)
  <2>1. PICK t \in R!Texts, v \in V, s \in BOOLEAN : q' = one(t, v, s)
    BY <1>4
  <2>. QED
    BY <1>2, <2>1, TextsAre DEF V
<1>5. CASE \E m \in SUBSET M : q' = two(m)
  BY <1>3, <1>5 DEF M
<1>. QED
  BY <1>1, <1>4, <1>5


-----------------------------------------------------------------------------
(* Configurations: whatever is asked.                                        *)

\* What a question holds of what its rule needs.
RulesInv ==
  /\ q.kind = "config" => StagesTyped(q.c)
  /\ q.kind = "resolve" => Resolvable(q.c, q.files)
  /\ q.kind = "migrate" => HookThere(q.text) /\ q.to \in {R!SnpV1, Snp2} /\ q.strict \in BOOLEAN
  /\ q.kind = "detect" => q.marks \subseteq {"repos:", "snp:", "brace"}

LEMMA RulesKept == RulesInv /\ [MCNext]_commandsVars => RulesInv'
<1>1. SUFFICES ASSUME RulesInv, [MCNext]_commandsVars PROVE RulesInv'
  OBVIOUS
<1>2. q' = q \/ R!ConfigurationQuestion
  BY <1>1 DEF MCNext, commandsVars, Stores, Installs, Asks, Updates, Cleans, Tries, Questions
<1>3. CASE q' = q
  BY <1>1, <1>3 DEF RulesInv
<1>4. CASE R!Configuration
  BY <1>4, ConfigurationAsked DEF RulesInv
<1>5. CASE R!Resolve
  BY <1>5, ResolveAsked DEF RulesInv
<1>6. CASE R!FilterQuestion
  BY <1>6, FilterAsked DEF RulesInv
<1>7. CASE R!Classify
  BY <1>7, ClassifyAsked DEF RulesInv
<1>8. CASE R!Migrate
  BY <1>8, MigrateAsked DEF RulesInv
<1>. QED
  BY <1>2, <1>3, <1>4, <1>5, <1>6, <1>7, <1>8 DEF R!ConfigurationQuestion

LEMMA RulesFollow == RulesInv => ConfigurationRulesHold
<1>1. SUFFICES ASSUME RulesInv PROVE ConfigurationRulesHold
  OBVIOUS
<1>2. R!ConfigurationsAgree
  <2>1. SUFFICES ASSUME q.kind = "config" PROVE JudgesOf(q.c)
    BY SameSet, Zenon DEF R!ConfigurationsAgree, R!Asked, JudgesOf, R!ToSet, ToSet
  <2>. QED
    BY <1>1, <2>1, AnyConfiguration DEF RulesInv
<1>3. R!ResolutionCompletes
  <2>1. SUFFICES ASSUME q.kind = "resolve" PROVE R!ResolutionCompletes
    BY DEF R!ResolutionCompletes, R!Asked
  <2>2. Resolvable(q.c, q.files)
    BY <1>1, <2>1 DEF RulesInv
  <2>. QED
    BY <2>2, AnyResolution, Zenon DEF R!ResolutionCompletes
<1>4. R!FilesSelected
  <2>1. q.kind = "filter" => FilesOf(R!FromConfig(q.hook)[1], "g", "f", q.disk, q.bloom)
    BY AnyFiltering
  <2>2. q.kind = "classify" => KeptOf(q.before, q.now)
    BY AnyClassification
  <2>. QED
    BY <2>1, <2>2, Zenon DEF R!FilesSelected, R!Asked, FilesOf, KeptOf
<1>5. R!MigrationPreserves
  <2>1. q.kind = "migrate" => MigrationOf(q.text, q.to, q.strict)
    BY <1>1, AnyMigration DEF RulesInv, HookThere
  <2>2. q.kind = "detect" => (R!Some(R!AutoDetectFormat(q.marks)) <=> q.marks # {})
    BY <1>1, AnyDetection DEF RulesInv
  <2>. QED
    BY <2>1, <2>2, Zenon DEF R!MigrationPreserves, R!Asked, MigrationOf
<1>. QED
  BY <1>2, <1>3, <1>4, <1>5, RewritingsAlwaysAgree, MigrationAlwaysSettles, TemplatesAlwaysComplete DEF ConfigurationRulesHold

\* The places that judge, complete, filter, classify, migrate and rewrite a
\* configuration agree, whatever is asked.
THEOREM ConfigurationRules == CommandsSpec => []ConfigurationRulesHold
<1>1. MCInit => RulesInv
  BY DEF MCInit, R!Init, RulesInv
<1>2. RulesInv /\ [MCNext]_commandsVars => RulesInv'
  BY RulesKept
<1>3. RulesInv => ConfigurationRulesHold
  BY RulesFollow
<1>. QED
  BY <1>1, <1>2, <1>3, PTL DEF CommandsSpec

=============================================================================
