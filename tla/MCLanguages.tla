---------------------------- MODULE MCLanguages -----------------------------
(***************************************************************************)
(* The setup of environments, the registry with its manager of             *)
(* environments, and the questions of MCRules about the rules of the       *)
(* language plugins: they share no state, so a behaviour is a behaviour of *)
(* one of the three while the others rest.                                 *)
(***************************************************************************)
EXTENDS LanguageSetup, LanguageRegistry

CONSTANTS t1, t2
CONSTANTS Majors, Minors, Length   \* bounds of the questions
\* Versions from 1.0 on: a requirement ^0.n is met by 0.n.x only.
ASSUME BoundsAssumption == Majors \subseteq Nat \ {0} /\ Minors \subseteq Nat /\ Length \in Nat
VARIABLE q

R == INSTANCE MCRules

MCTasks == {t1, t2}
MCLanguages == DOMAIN Setup
allVars == <<q, vars, registryVars>>

\* The states the two that rest are left in.
Unasked == q.kind = "none"
RegistryUnused == ops = 0 /\ recorded = {} /\ environments = {} /\ dirs = {} /\ deleted = {}
SetupUnused == /\ lang = "python" /\ (\A t \in Tasks : state[t] = "idle") /\ host = {"tool", "manifest"}
               /\ faults + crashes + edits + cleans = 0 /\ disk = {}

MCInit == Init /\ RegistryInit /\ R!Init
MCNext ==
  \/ Unasked /\ RegistryUnused /\ Next /\ UNCHANGED <<q, registryVars>>
  \/ Unasked /\ SetupUnused /\ RegistryNext /\ UNCHANGED <<q, vars>>
  \/ SetupUnused /\ RegistryUnused /\ R!LanguageQuestion /\ UNCHANGED <<vars, registryVars>>
MCSpec ==
  /\ MCInit /\ [][MCNext]_allVars
  /\ \A t \in Tasks : WF_vars(SetupStep(t)) /\ WF_vars(HookStep(t))

\* The language plugins choose versions that serve the request, keep the
\* meaning of specifications and manifests and hand every file to the hook.
LanguageRulesHold == R!SelectionServesRequest /\ R!SpecsMeanTheSame /\ R!FilesReachHook /\ R!ManifestsRead

=============================================================================
