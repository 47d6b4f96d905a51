--------------------------- MODULE LanguagesProofs ---------------------------
(***************************************************************************)
(* What setup_environment of every language plugin promises, and that the  *)
(* registry's maps agree, for any number of tasks, threads, names and      *)
(* files, and for any number of faults, crashes, edits and removals; then  *)
(* that the rules of the plugins hold for every question.                  *)
(***************************************************************************)
EXTENDS MCLanguages, Subsequences, FiniteSetTheorems, SequenceTheorems, FunctionTheorems,
        WellFoundedInduction, TLAPS

States == Ended \union {"idle", "setup", "ok", "run", "toolfailed", "missing"}

SetupTypes ==
  /\ lang \in DOMAIN Setup
  /\ host \in {{"tool", "manifest"}, {"tool"}, {}}
  /\ disk \subseteq Artifacts \ {"tool"}
  /\ source \in Nat /\ installed \in Nat /\ stamped \in Nat
  /\ source > 0 /\ stamped <= source
  /\ at \in [Tasks -> Nat] /\ made \in [Tasks -> Nat] /\ left \in [Tasks -> Nat]
  /\ state \in [Tasks -> States]
  /\ child \in [Tasks -> {"none", "alive", "zero", "one"}]
  /\ faults \in Nat /\ crashes \in Nat /\ edits \in Nat /\ cleans \in Nat
  /\ overlap \in BOOLEAN /\ shared \in BOOLEAN /\ lost \subseteq Tasks

InSetup(t) == state[t] = "setup"

\* A task in a setup is in a step of the plan, and outside of one in none.
PlaceInv(t) ==
  IF InSetup(t)
  THEN at[t] \in 1 .. Len(Plan) /\ made[t] \in 0 .. Len(Cur(t).make) /\ left[t] \in 1 .. Cur(t).tries
  ELSE at[t] = 0 /\ made[t] = 0

\* What the steps before step k of the plan leave in the directory.
Secured(k) ==
  CASE lang = "python" -> IF k = 1 THEN {} ELSE IF k <= 3 THEN {"python"} ELSE Promise
    [] lang = "rust"   -> IF k >= 3 THEN Promise ELSE {}
    [] OTHER           -> IF k > Len(Plan) THEN Promise ELSE {}

\* Unless its directory was removed, a task has what its steps have made.
DiskInv(t) ==
  t \notin lost =>
    /\ InSetup(t) /\ ~overlap => Secured(at[t]) \subseteq disk
    /\ InSetup(t) /\ made[t] > 0 => /\ Cur(t).need \subseteq Present
                                    /\ \A i \in 1 .. made[t] : Cur(t).make[i] \in disk
    /\ state[t] \in {"ok", "run"} /\ ~overlap => Promise \subseteq disk

\* While a task is between pip and the marker the sources are installed.
MarkInv ==
  /\ "marker" \in disk => lang = "python"
  /\ MarkerTruthful
  /\ \A t \in Tasks : lang = "python" /\ InSetup(t) /\ at[t] = 3 /\ made[t] > 0 /\ ~overlap
                      => installed = source /\ "repo" \in disk

\* A single setup at a time, in which nothing goes wrong, leaves no half of a
\* virtual environment but the one it is making.
Undisturbed == lang = "python" /\ ~shared /\ faults = 0 /\ crashes = 0 /\ cleans = 0
BlameInv ==
  /\ ~shared => \A t, u \in Tasks : InSetup(t) /\ InSetup(u) => t = u
  /\ cleans = 0 /\ lang # "tempvenv" => lost = {}
  /\ FailureExplained
  /\ Undisturbed =>
       /\ \A t \in Tasks : InSetup(t) /\ at[t] > 1 => {"python", "pip"} \subseteq disk
       /\ "python" \in disk /\ "pip" \notin disk
          => \E t \in Tasks : InSetup(t) /\ at[t] = 1 /\ made[t] > 0

SetupInv ==
  /\ SetupTypes
  /\ \A t \in Tasks : PlaceInv(t) /\ DiskInv(t)
  /\ MarkInv /\ BlameInv


-----------------------------------------------------------------------------
(* What the tables say. *)

StepShape == [need : SUBSET (Artifacts \union {"manifest"}), done : SUBSET (Artifacts \ {"tool"}),
              make : Seq(Artifacts \ {"tool"}), fail : {"error", "ignore", "fallback"},
              tries : {1, 3}, wipe : BOOLEAN]

\* Step k of plugin l: only a virtual environment is wiped, only python waits
\* for what it has made itself, and only its third step writes a marker.
StepFacts(l, k) ==
  LET s == Setup[l][k] IN
  /\ s \in StepShape
  /\ s.wipe => l = "tempvenv" /\ s.need = {"tool"}
  /\ l # "python" => s.need \subseteq {"tool", "manifest"} /\ "marker" \notin s.done
  /\ \A i \in 1 .. Len(s.make) :
       /\ s.make[i] = "marker" => l = "python" /\ k = 3 /\ i = 3
       /\ s.make[i] = "repo" => l = "python" /\ k = 3 /\ i = 1
       /\ s.make[i] = "python" /\ l = "python" => k = 1
  /\ s.fail = "fallback" <=> l = "tempvenv" /\ k = 1
  /\ l = "python" => s.need \subseteq IF k = 1 THEN {"tool"} ELSE {"python", "pip"}
  /\ l = "python" /\ k = 1 => s.done = {"python"} /\ s.make = <<"dir", "python", "pip">>
  /\ l = "python" /\ k = 3 => s.make = <<"repo", "dir", "marker">>

\* The plans, one by one.
LEMMA Plans ==
  /\ DOMAIN Setup = {"python", "tempvenv", "rust", "node", "golang", "ruby", "docker",
                     "system", "script"}
  /\ Setup["python"] = PythonSetup /\ Setup["tempvenv"] = TempVenvSetup
  /\ Setup["rust"] = RustSetup /\ Setup["node"] = NodeSetup /\ Setup["golang"] = GoSetup
  /\ Setup["ruby"] = RubySetup /\ Setup["docker"] = DockerSetup
  /\ Setup["system"] = SystemSetup /\ Setup["script"] = ScriptSetup
BY DEF Setup

\* A step made of parts of the right kind has the right shape.
LEMMA StepIsShaped ==
  ASSUME NEW need \in SUBSET (Artifacts \union {"manifest"}), NEW done \in SUBSET (Artifacts \ {"tool"}),
         NEW make \in Seq(Artifacts \ {"tool"}), NEW fail \in {"error", "ignore", "fallback"},
         NEW tries \in {1, 3}, NEW wipe \in BOOLEAN
  PROVE  Step(need, done, make, fail, tries, wipe) \in StepShape
BY DEF Step, StepShape

\* Every step of every table has it.
LEMMA StepsAreShaped ==
  /\ PythonVenv \in StepShape /\ PythonExecutable \in StepShape
  /\ PythonRepository \in StepShape /\ PythonDependencies \in StepShape
  /\ CreateVenv \in StepShape /\ CreateVenvLegacy \in StepShape
  /\ RustDependencies \in StepShape /\ RustComponents \in StepShape
  /\ NodeDependencies \in StepShape /\ GoDependencies \in StepShape /\ DockerImage \in StepShape
  /\ Check({"tool"}) \in StepShape /\ Check({"manifest"}) \in StepShape
  /\ Check({"tool", "manifest"}) \in StepShape /\ Tool({"tool"}, <<"gemhome">>) \in StepShape
<1>1. /\ << >> \in Seq(Artifacts \ {"tool"})
      /\ <<"dir", "python", "pip">> \in Seq(Artifacts \ {"tool"})
      /\ <<"repo", "dir", "marker">> \in Seq(Artifacts \ {"tool"})
      /\ <<"deps">> \in Seq(Artifacts \ {"tool"})
      /\ <<"components">> \in Seq(Artifacts \ {"tool"})
      /\ <<"image">> \in Seq(Artifacts \ {"tool"})
      /\ <<"gemhome">> \in Seq(Artifacts \ {"tool"})
  BY DEF Artifacts
<1>2. {{}, {"tool"}, {"python"}, {"pip"}, {"manifest"}, {"tool", "manifest"}}
        \subseteq SUBSET (Artifacts \union {"manifest"})
  BY DEF Artifacts
<1>3. {{}, {"python"}, {"marker"}, {"python", "pip"}, {"components"}, {"image"}}
        \subseteq SUBSET (Artifacts \ {"tool"})
  BY DEF Artifacts
<1>4. /\ PythonVenv \in StepShape /\ PythonExecutable \in StepShape
      /\ PythonRepository \in StepShape /\ PythonDependencies \in StepShape
  BY <1>1, <1>2, <1>3, StepIsShaped
  DEF PythonVenv, PythonExecutable, PythonRepository, PythonDependencies, Check
<1>5. CreateVenv \in StepShape /\ CreateVenvLegacy \in StepShape
  BY <1>1, <1>2, <1>3, StepIsShaped DEF CreateVenv, CreateVenvLegacy, ValidVenv
<1>6. /\ RustDependencies \in StepShape /\ RustComponents \in StepShape
      /\ NodeDependencies \in StepShape /\ GoDependencies \in StepShape /\ DockerImage \in StepShape
  BY <1>1, <1>2, <1>3, StepIsShaped
  DEF RustDependencies, RustComponents, NodeDependencies, GoDependencies, DockerImage, Tool
<1>7. /\ Check({"tool"}) \in StepShape /\ Check({"manifest"}) \in StepShape
      /\ Check({"tool", "manifest"}) \in StepShape /\ Tool({"tool"}, <<"gemhome">>) \in StepShape
  BY <1>1, <1>2, <1>3, StepIsShaped DEF Check, Tool
<1> QED
  BY <1>4, <1>5, <1>6, <1>7

\* The lengths of the plans.
LEMMA PlansAreShaped ==
  /\ PythonSetup \in Seq(StepShape) /\ Len(PythonSetup) = 4
  /\ TempVenvSetup \in Seq(StepShape) /\ Len(TempVenvSetup) = 2
  /\ RustSetup \in Seq(StepShape) /\ Len(RustSetup) = 3
  /\ NodeSetup \in Seq(StepShape) /\ Len(NodeSetup) = 2
  /\ GoSetup \in Seq(StepShape) /\ Len(GoSetup) = 2
  /\ RubySetup \in Seq(StepShape) /\ Len(RubySetup) = 2
  /\ DockerSetup \in Seq(StepShape) /\ Len(DockerSetup) = 2
  /\ SystemSetup \in Seq(StepShape) /\ Len(SystemSetup) = 0
  /\ ScriptSetup \in Seq(StepShape) /\ Len(ScriptSetup) = 1
<1>1. PythonSetup \in Seq(StepShape) /\ Len(PythonSetup) = 4
  BY StepsAreShaped DEF PythonSetup
<1>2. TempVenvSetup \in Seq(StepShape) /\ Len(TempVenvSetup) = 2
  BY StepsAreShaped DEF TempVenvSetup
<1>3. RustSetup \in Seq(StepShape) /\ Len(RustSetup) = 3
  BY StepsAreShaped DEF RustSetup
<1>4. NodeSetup \in Seq(StepShape) /\ Len(NodeSetup) = 2
  BY StepsAreShaped DEF NodeSetup
<1>5. GoSetup \in Seq(StepShape) /\ Len(GoSetup) = 2
  BY StepsAreShaped DEF GoSetup
<1>6. RubySetup \in Seq(StepShape) /\ Len(RubySetup) = 2
  BY StepsAreShaped DEF RubySetup
<1>7. DockerSetup \in Seq(StepShape) /\ Len(DockerSetup) = 2
  BY StepsAreShaped DEF DockerSetup
<1>8. SystemSetup \in Seq(StepShape) /\ Len(SystemSetup) = 0
  BY DEF SystemSetup
<1>9. ScriptSetup \in Seq(StepShape) /\ Len(ScriptSetup) = 1
  BY StepsAreShaped DEF ScriptSetup
<1> QED
  BY <1>1, <1>2, <1>3, <1>4, <1>5, <1>6, <1>7, <1>8, <1>9


\* Every plan is a sequence of steps.
LEMMA Shaped ==
  ASSUME NEW l \in DOMAIN Setup
  PROVE  Setup[l] \in Seq(StepShape)
BY Plans, PlansAreShaped

\* What a table is, step by step.
LEMMA Tables ==
  /\ PythonSetup[1] = PythonVenv /\ PythonSetup[2] = PythonExecutable
  /\ PythonSetup[3] = PythonRepository /\ PythonSetup[4] = PythonDependencies
  /\ TempVenvSetup[1] = CreateVenv /\ TempVenvSetup[2] = CreateVenvLegacy
  /\ RustSetup[1] = Check({"tool", "manifest"}) /\ RustSetup[2] = RustDependencies
  /\ RustSetup[3] = RustComponents
  /\ NodeSetup[1] = Check({"tool"}) /\ NodeSetup[2] = NodeDependencies
  /\ GoSetup[1] = Check({"tool"}) /\ GoSetup[2] = GoDependencies
  /\ RubySetup[1] = Check({"tool"}) /\ RubySetup[2] = Tool({"tool"}, <<"gemhome">>)
  /\ DockerSetup[1] = Check({"tool", "manifest"}) /\ DockerSetup[2] = DockerImage
  /\ ScriptSetup[1] = Check({"manifest"})
BY DEF PythonSetup, TempVenvSetup, RustSetup, NodeSetup, GoSetup, RubySetup, DockerSetup, ScriptSetup

\* The facts hold of every step.
LEMMA FactsHold ==
  ASSUME NEW l \in DOMAIN Setup, NEW k \in 1 .. Len(Setup[l])
  PROVE  StepFacts(l, k)
<1>1. Setup[l][k] \in StepShape
  BY Shaped
<1>2. CASE l = "python"
  <2>1. k \in 1 .. 4
    BY <1>2, Plans, PlansAreShaped
  <2>2. k = 1 => StepFacts(l, k)
    BY <1>1, <1>2, Plans, Tables DEF StepFacts, PythonVenv, Step
  <2>3. k = 2 => StepFacts(l, k)
    BY <1>1, <1>2, Plans, Tables DEF StepFacts, PythonExecutable, Check, Step
  <2>4. k = 3 => StepFacts(l, k)
    BY <1>1, <1>2, Plans, Tables DEF StepFacts, PythonRepository, Step
  <2>5. k = 4 => StepFacts(l, k)
    BY <1>1, <1>2, Plans, Tables DEF StepFacts, PythonDependencies, Step
  <2> QED
    BY <2>1, <2>2, <2>3, <2>4, <2>5
<1>3. CASE l = "tempvenv"
  <2>1. k \in 1 .. 2
    BY <1>3, Plans, PlansAreShaped
  <2>2. k = 1 => StepFacts(l, k)
    BY <1>1, <1>3, Plans, Tables DEF StepFacts, CreateVenv, ValidVenv, Step
  <2>3. k = 2 => StepFacts(l, k)
    BY <1>1, <1>3, Plans, Tables DEF StepFacts, CreateVenvLegacy, Step
  <2> QED
    BY <2>1, <2>2, <2>3
<1>4. CASE l = "rust"
  <2>1. k \in 1 .. 3
    BY <1>4, Plans, PlansAreShaped
  <2>2. k = 1 => StepFacts(l, k)
    BY <1>1, <1>4, Plans, Tables DEF StepFacts, Check, Step
  <2>3. k = 2 => StepFacts(l, k)
    BY <1>1, <1>4, Plans, Tables DEF StepFacts, RustDependencies, Tool, Step
  <2>4. k = 3 => StepFacts(l, k)
    BY <1>1, <1>4, Plans, Tables DEF StepFacts, RustComponents, Step
  <2> QED
    BY <2>1, <2>2, <2>3, <2>4
<1>5. CASE l \in {"node", "golang", "ruby", "docker"}
  <2>1. k \in 1 .. 2
    BY <1>5, Plans, PlansAreShaped
  <2>2. k = 1 => StepFacts(l, k)
    BY <1>1, <1>5, Plans, Tables DEF StepFacts, Check, Step
  <2>3. l = "node" /\ k = 2 => StepFacts(l, k)
    BY <1>1, Plans, Tables DEF StepFacts, NodeDependencies, Tool, Step
  <2>4. l = "golang" /\ k = 2 => StepFacts(l, k)
    BY <1>1, Plans, Tables DEF StepFacts, GoDependencies, Tool, Step
  <2>5. l = "ruby" /\ k = 2 => StepFacts(l, k)
    BY <1>1, Plans, Tables DEF StepFacts, Tool, Step
  <2>6. l = "docker" /\ k = 2 => StepFacts(l, k)
    BY <1>1, Plans, Tables DEF StepFacts, DockerImage, Step
  <2> QED
    BY <1>5, <2>1, <2>2, <2>3, <2>4, <2>5, <2>6
<1>6. CASE l = "script"
  BY <1>1, <1>6, Plans, PlansAreShaped, Tables DEF StepFacts, Check, Step
<1>7. CASE l = "system"
  BY <1>7, Plans, PlansAreShaped
<1> QED
  BY Plans, <1>2, <1>3, <1>4, <1>5, <1>6, <1>7


\* Before the first step nothing is secured, after the last the promise is.
LEMMA SecuredAtEnds ==
  ASSUME lang \in DOMAIN Setup
  PROVE  Secured(1) = {} /\ Secured(Len(Plan) + 1) = Promise
<1>1. CASE lang = "python"
  BY <1>1, Plans, PlansAreShaped DEF Secured, Plan
<1>2. CASE lang = "rust"
  BY <1>2, Plans, PlansAreShaped DEF Secured, Plan
<1>3. CASE lang \notin {"python", "rust"}
  <2>0. Len(Plan) \in Nat
    BY Shaped DEF Plan
  <2>1. Len(Plan) > 0 \/ lang = "system"
    <3>1. lang \in {"tempvenv", "node", "golang", "ruby", "docker", "script", "system"}
      BY <1>3, Plans
    <3>2. lang = "tempvenv" => Len(Plan) = 2
      BY Plans, PlansAreShaped DEF Plan
    <3>3. lang = "node" => Len(Plan) = 2
      BY Plans, PlansAreShaped DEF Plan
    <3>4. lang = "golang" => Len(Plan) = 2
      BY Plans, PlansAreShaped DEF Plan
    <3>5. lang = "ruby" => Len(Plan) = 2
      BY Plans, PlansAreShaped DEF Plan
    <3>6. lang = "docker" => Len(Plan) = 2
      BY Plans, PlansAreShaped DEF Plan
    <3>7. lang = "script" => Len(Plan) = 1
      BY Plans, PlansAreShaped DEF Plan
    <3> QED
      BY <2>0, <3>1, <3>2, <3>3, <3>4, <3>5, <3>6, <3>7, SMTT(40)
  <2>2. lang = "system" => Promise = {}
    BY DEF Promise
  <2> QED
    BY <1>3, <2>0, <2>1, <2>2 DEF Secured
<1> QED
  BY <1>1, <1>2, <1>3

\* The step a task is in.
LEMMA Current ==
  ASSUME lang \in DOMAIN Setup, NEW t \in Tasks, at[t] \in 1 .. Len(Plan)
  PROVE  /\ StepFacts(lang, at[t]) /\ Cur(t) = Setup[lang][at[t]]
         /\ Cur(t) \in StepShape /\ Len(Plan) \in Nat /\ Len(Cur(t).make) \in Nat
<1>1. StepFacts(lang, at[t]) /\ Cur(t) = Setup[lang][at[t]]
  BY FactsHold DEF Cur, Plan
<1>2. Cur(t) \in StepShape
  BY <1>1 DEF StepFacts
<1>3. Len(Plan) \in Nat
  BY Shaped DEF Plan
<1>4. Len(Cur(t).make) \in Nat
  BY <1>2 DEF StepShape
<1> QED
  BY <1>1, <1>2, <1>3, <1>4

\* What the plan of each plugin secures on its way.
LEMMA SecuredSteps ==
  ASSUME lang \in DOMAIN Setup, NEW k \in 1 .. Len(Plan)
  PROVE  LET s == Plan[k] IN
         /\ s.fail # "fallback" =>
              Secured(k + 1) \subseteq Secured(k) \union {s.make[i] : i \in 1 .. Len(s.make)}
                                       \union (s.need \ {"tool", "manifest"})
         /\ s.fail = "fallback" =>
              Promise \subseteq {s.make[i] : i \in 1 .. Len(s.make)} /\ Promise \subseteq s.done
         /\ s.fail # "error" => Secured(k + 1) \subseteq Secured(k)
         /\ s.done # {} /\ "marker" \notin s.done /\ s.fail # "fallback" =>
              Secured(k + 1) \subseteq Secured(k) \union s.done
         /\ "marker" \in s.done =>
              Secured(k + 1) \subseteq Secured(k) \union s.need \union {"marker", "repo"}
<1> DEFINE s == Plan[k]
<1>1. CASE lang = "python"
  <2>1. k \in 1 .. 4 /\ Plan = PythonSetup
    BY <1>1, Plans, PlansAreShaped DEF Plan
  <2>2. CASE k = 1
    BY <1>1, <2>1, <2>2, Tables DEF Secured, PythonVenv, Step
  <2>3. CASE k = 2
    BY <1>1, <2>1, <2>3, Tables DEF Secured, PythonExecutable, Check, Step
  <2>4. CASE k = 3
    BY <1>1, <2>1, <2>4, Tables DEF Secured, Promise, PythonRepository, Step
  <2>5. CASE k = 4
    BY <1>1, <2>1, <2>5, Tables DEF Secured, PythonDependencies, Step
  <2> QED
    BY <2>1, <2>2, <2>3, <2>4, <2>5
<1>2. CASE lang = "tempvenv"
  <2>1. k \in 1 .. 2 /\ Plan = TempVenvSetup /\ Len(Plan) = 2
    BY <1>2, Plans, PlansAreShaped DEF Plan
  <2>2. CASE k = 1
    BY <1>2, <2>1, <2>2, Tables DEF Secured, Promise, CreateVenv, ValidVenv, Step
  <2>3. CASE k = 2
    BY <1>2, <2>1, <2>3, Tables DEF Secured, Promise, CreateVenvLegacy, Step
  <2> QED
    BY <2>1, <2>2, <2>3
<1>3. CASE lang = "rust"
  <2>1. k \in 1 .. 3 /\ Plan = RustSetup
    BY <1>3, Plans, PlansAreShaped DEF Plan
  <2>2. CASE k = 1
    BY <1>3, <2>1, <2>2, Tables DEF Secured, Check, Step
  <2>3. CASE k = 2
    BY <1>3, <2>1, <2>3, Tables DEF Secured, Promise, RustDependencies, Tool, Step
  <2>4. CASE k = 3
    BY <1>3, <2>1, <2>4, Tables DEF Secured, RustComponents, Step
  <2> QED
    BY <2>1, <2>2, <2>3, <2>4
<1>4. CASE lang \in {"node", "golang", "ruby", "docker"}
  <2>1. k \in 1 .. 2 /\ Len(Plan) = 2
    BY <1>4, Plans, PlansAreShaped DEF Plan
  <2>2. CASE k = 1
    BY <1>4, <2>1, <2>2, Plans, Tables DEF Secured, Plan, Check, Step
  <2>3. CASE lang = "node" /\ k = 2
    BY <2>1, <2>3, Plans, Tables DEF Secured, Promise, Plan, NodeDependencies, Tool, Step
  <2>4. CASE lang = "golang" /\ k = 2
    BY <2>1, <2>4, Plans, Tables DEF Secured, Promise, Plan, GoDependencies, Tool, Step
  <2>5. CASE lang = "ruby" /\ k = 2
    BY <2>1, <2>5, Plans, Tables DEF Secured, Promise, Plan, Tool, Step
  <2>6. CASE lang = "docker" /\ k = 2
    BY <2>1, <2>6, Plans, Tables DEF Secured, Promise, Plan, DockerImage, Step
  <2> QED
    BY <1>4, <2>1, <2>2, <2>3, <2>4, <2>5, <2>6
<1>5. CASE lang = "script"
  BY <1>5, Plans, PlansAreShaped, Tables DEF Secured, Promise, Plan, Check, Step
<1>6. CASE lang = "system"
  BY <1>6, Plans, PlansAreShaped DEF Plan
<1> QED
  BY Plans, <1>1, <1>2, <1>3, <1>4, <1>5, <1>6


-----------------------------------------------------------------------------
(* What a step does to the task that takes it. *)

\* Task t is in state v now, in step k with n tries left and nothing made.
Moves(t, v, k, n) ==
  /\ state' = [state EXCEPT ![t] = v]
  /\ at' = [at EXCEPT ![t] = k]
  /\ made' = [made EXCEPT ![t] = 0]
  /\ left' = [left EXCEPT ![t] = n]

\* It has reached step k, or the end of its plan.
Arrives(t, k) ==
  \/ k \in 1 .. Len(Plan) /\ Moves(t, "setup", k, Plan[k].tries)
  \/ k = Len(Plan) + 1 /\ Moves(t, "ok", 0, 0)

\* What a setup finds on the way is not changed by a step that only moves.
Directory == <<env, disk, source, installed, stamped>>

\* Advance reaches the step it is given.
LEMMA AdvanceArrives ==
  ASSUME lang \in DOMAIN Setup, NEW t \in Tasks, NEW k \in 1 .. Len(Plan) + 1, Advance(t, k)
  PROVE  Arrives(t, k)
<1>1. Len(Plan) \in Nat
  BY Shaped DEF Plan
<1>2. CASE k > Len(Plan)
  <2>1. k = Len(Plan) + 1
    BY <1>1, <1>2
  <2> QED
    BY <1>2, <2>1 DEF Advance, InStep, Arrives, Moves
<1>3. CASE ~(k > Len(Plan))
  <2>1. k \in 1 .. Len(Plan)
    BY <1>1, <1>3
  <2> QED
    BY <1>3, <2>1 DEF Advance, InStep, Arrives, Moves
<1> QED
  BY <1>2, <1>3

\* A step that only moves its task: it arrives somewhere, tries again, or
\* stops with an error.
Turn(t) == Start(t) \/ Skip(t) \/ Missing(t) \/ Finish(t) \/ Fail(t)
TurnEffect(t) ==
  /\ UNCHANGED <<Directory, child, crashes, edits, cleans, overlap>>
  /\ lost \ {t} \subseteq lost' /\ lost' \subseteq lost /\ faults' \in Nat /\ faults' >= faults /\ shared' \in BOOLEAN
  /\ \/ ~InSetup(t) /\ Arrives(t, 1)
     \/ InSetup(t) /\ Arrives(t, Following(t)) /\ UNCHANGED lost
     \/ InSetup(t) /\ Arrives(t, at[t] + 1) /\ UNCHANGED lost
     \/ InSetup(t) /\ left[t] > 1 /\ Moves(t, "setup", at[t], left[t] - 1) /\ UNCHANGED lost
     \/ InSetup(t) /\ \E v \in {"toolfailed", "missing"} : Moves(t, v, 0, 0) /\ UNCHANGED lost

\* Every such step has that effect.
LEMMA Turns ==
  ASSUME SetupTypes, NEW t \in Tasks, PlaceInv(t), Turn(t)
  PROVE  TurnEffect(t)
<1>1. lang \in DOMAIN Setup /\ Len(Plan) \in Nat
  BY Shaped DEF Plan, SetupTypes
<1>2. InSetup(t) => at[t] \in 1 .. Len(Plan) /\ at[t] + 1 \in 1 .. Len(Plan) + 1
                    /\ Following(t) \in 1 .. Len(Plan) + 1
  BY <1>1 DEF PlaceInv, Following
<1>3. CASE Start(t)
  <2>1. Arrives(t, 1)
    BY <1>1, <1>3, AdvanceArrives DEF Start
  <2> QED
    BY <1>3, <2>1 DEF Start, TurnEffect, InSetup, SetupTypes, Directory, env, counts
<1>4. CASE Skip(t) \/ Finish(t)
  <2>1. Arrives(t, Following(t)) /\ InSetup(t)
    BY <1>1, <1>2, <1>4, AdvanceArrives DEF Skip, Finish, InSetup
  <2> QED
    BY <1>4, <2>1 DEF Skip, Finish, TurnEffect, SetupTypes, Directory, env, counts
<1>5. CASE Missing(t)
  <2>1. InSetup(t) /\ Moves(t, "missing", 0, 0)
    BY <1>5 DEF Missing, Stop, InStep, Moves, InSetup
  <2> QED
    BY <1>5, <2>1 DEF Missing, TurnEffect, SetupTypes, Directory, env, counts
<1>6. CASE Fail(t)
  <2>1. InSetup(t) /\ faults' = faults + 1
        /\ UNCHANGED <<Directory, child, crashes, edits, cleans, overlap, shared, lost>>
    BY <1>6 DEF Fail, InSetup, Directory, env
  <2>2. \/ left[t] > 1 /\ Moves(t, "setup", at[t], left[t] - 1)
        \/ Moves(t, "toolfailed", 0, 0)
        \/ Arrives(t, at[t] + 1)
    <3>1. CASE left[t] > 1 /\ InStep(t, at[t], left[t] - 1) /\ UNCHANGED state
      <4>1. state' = [state EXCEPT ![t] = "setup"]
        BY <2>1, <3>1 DEF InSetup, SetupTypes
      <4> QED
        BY <3>1, <4>1 DEF InStep, Moves
    <3>2. CASE Stop(t, "toolfailed")
      BY <3>2 DEF Stop, InStep, Moves
    <3>3. CASE Advance(t, at[t] + 1)
      BY <1>1, <1>2, <2>1, <3>3, AdvanceArrives
    <3> QED
      BY <1>6, <3>1, <3>2, <3>3 DEF Fail
  <2> QED
    BY <2>1, <2>2 DEF TurnEffect, SetupTypes
<1> QED
  BY <1>3, <1>4, <1>5, <1>6 DEF Turn

\* The hook runs: only its task's state and process change.
Running(t) == HookStep(t) \/ Exit(t)
RunningEffect(t) ==
  /\ UNCHANGED <<Directory, at, made, left, counts, overlap, shared, lost>>
  /\ child' \in [Tasks -> {"none", "alive", "zero", "one"}]
  /\ \/ UNCHANGED state
     \/ /\ state[t] \in {"ok", "run"}
        /\ \E v \in Ended \union {"run"} : state' = [state EXCEPT ![t] = v]

\* Every such step has that effect.
LEMMA HooksRun ==
  ASSUME SetupTypes, NEW t \in Tasks, Running(t)
  PROVE  RunningEffect(t)
<1>1. Run[lang].missing \in Ended /\ Run[lang].late \in Ended
  BY DEF Run, SetupTypes, Ended, PythonRun, RustRun, NodeRun, RubyRun, GoRun, DockerRun, SystemRun, ScriptRun
<1>2. CASE NoExecutable(t)
  BY <1>1, <1>2 DEF NoExecutable, RunningEffect, SetupTypes, Directory
<1>3. CASE Spawn(t)
  BY <1>3 DEF Spawn, RunningEffect, SetupTypes, Directory
<1>4. CASE Report(t)
  BY <1>4 DEF Report, RunningEffect, SetupTypes, Directory, Ended
<1>5. CASE GiveUp(t)
  BY <1>1, <1>5 DEF GiveUp, RunningEffect, SetupTypes, Directory
<1>6. CASE Exit(t)
  BY <1>6 DEF Exit, RunningEffect, SetupTypes, Directory
<1> QED
  BY <1>2, <1>3, <1>4, <1>5, <1>6 DEF Running, HookStep


\* The tool makes the next artifact a.  What was there is only removed by the
\* first of the environments under a temporary name.
Artifact(t) == Cur(t).make[made[t] + 1]
ToolEffect(t) ==
  /\ InSetup(t) /\ made[t] < Len(Cur(t).make)
  /\ UNCHANGED <<env, source, at, left, state, child, counts, shared>>
  /\ made' = [made EXCEPT ![t] = made[t] + 1]
  /\ Artifact(t) \in Artifacts \ {"tool"}
  /\ installed' = IF Artifact(t) = "repo" THEN source ELSE installed
  /\ stamped' = IF Artifact(t) = "marker" THEN source ELSE stamped
  /\ made[t] = 0 => Cur(t).need \subseteq Present
  /\ \/ disk' = disk \union {Artifact(t)} /\ UNCHANGED <<lost, overlap>>
     \/ /\ lang = "tempvenv" /\ Cur(t).need = {"tool"} /\ made[t] = 0
        /\ disk' = {Artifact(t)}
        /\ (disk = {} /\ lost' = lost) \/ lost' = Tasks \ {t}
        /\ overlap' \in BOOLEAN /\ (overlap => overlap')

\* Begin and Make have that effect.
LEMMA ToolsMake ==
  ASSUME SetupTypes, NEW t \in Tasks, PlaceInv(t), Begin(t) \/ Make(t)
  PROVE  ToolEffect(t)
<1>1. lang \in DOMAIN Setup /\ InSetup(t) /\ at[t] \in 1 .. Len(Plan) /\ made[t] \in Nat
  BY DEF SetupTypes, PlaceInv, Begin, Make, InSetup
<1>2. /\ StepFacts(lang, at[t]) /\ Cur(t) = Setup[lang][at[t]]
      /\ Cur(t).make \in Seq(Artifacts \ {"tool"}) /\ Len(Cur(t).make) \in Nat
      /\ Cur(t).wipe \in BOOLEAN
  BY <1>1, Current DEF StepShape
<1>3. CASE Begin(t)
  <2>1. made[t] = 0 /\ made' = [made EXCEPT ![t] = 1] /\ Len(Cur(t).make) > 0
    BY <1>2, <1>3, EmptySeq DEF Begin
  <2>2. /\ 1 \in 1 .. Len(Cur(t).make) /\ Artifact(t) = Cur(t).make[1]
        /\ Artifact(t) \in Artifacts \ {"tool"} /\ Artifact(t) # "marker"
    BY <1>2, <2>1 DEF StepFacts, Artifact
  <2>3. /\ UNCHANGED <<env, source, stamped, at, left, state, child, counts, shared>>
        /\ installed' = (IF Artifact(t) = "repo" THEN source ELSE installed)
        /\ Cur(t).need \subseteq Present
    BY <1>3, <2>2 DEF Begin
  <2>4. CASE Cur(t).wipe /\ left[t] = Cur(t).tries
    <3>1. lang = "tempvenv" /\ Cur(t).need = {"tool"}
      BY <1>2, <2>4 DEF StepFacts
    <3>2. /\ disk' = {Artifact(t)}
          /\ (disk = {} /\ lost' = lost) \/ lost' = Tasks \ {t}
          /\ overlap' \in BOOLEAN /\ (overlap => overlap')
      BY <1>3, <2>2, <2>4 DEF Begin, SetupTypes, Installing
    <3> QED
      BY <1>1, <2>1, <2>2, <2>3, <3>1, <3>2 DEF ToolEffect
  <2>5. CASE ~(Cur(t).wipe /\ left[t] = Cur(t).tries)
    <3>1. disk' = disk \union {Artifact(t)} /\ UNCHANGED <<lost, overlap>>
      BY <1>3, <2>2, <2>5 DEF Begin, SetupTypes
    <3> QED
      BY <1>1, <2>1, <2>2, <2>3, <3>1 DEF ToolEffect
  <2> QED
    BY <2>4, <2>5
<1>4. CASE Make(t)
  <2>1. made[t] # 0 /\ made[t] < Len(Cur(t).make) /\ made[t] + 1 \in 1 .. Len(Cur(t).make)
    BY <1>1, <1>2, <1>4 DEF Make
  <2>2. Artifact(t) \in Artifacts \ {"tool"}
    BY <1>2, <2>1 DEF Artifact
  <2>3. /\ UNCHANGED <<env, source, at, left, state, child, counts, overlap, shared, lost>>
        /\ made' = [made EXCEPT ![t] = made[t] + 1] /\ disk' = disk \union {Artifact(t)}
        /\ installed' = (IF Artifact(t) = "repo" THEN source ELSE installed)
        /\ stamped' = (IF Artifact(t) = "marker" THEN source ELSE stamped)
    BY <1>4 DEF Make, Artifact
  <2> QED
    BY <1>1, <2>1, <2>2, <2>3 DEF ToolEffect
<1> QED
  BY <1>3, <1>4

-----------------------------------------------------------------------------
(* Types and places. *)

\* A task that arrives somewhere is in its place.
LEMMA ArrivalInPlace ==
  ASSUME SetupTypes, NEW t \in Tasks, NEW k \in 1 .. Len(Plan) + 1, Arrives(t, k),
         \A u \in Tasks : PlaceInv(u), lang' = lang
  PROVE  /\ at' \in [Tasks -> Nat] /\ made' \in [Tasks -> Nat] /\ left' \in [Tasks -> Nat]
         /\ state' \in [Tasks -> States] /\ \A u \in Tasks : PlaceInv(u)'
<1>1. lang \in DOMAIN Setup /\ Len(Plan) \in Nat /\ Plan \in Seq(StepShape) /\ Plan' = Plan
  BY Shaped DEF Plan, SetupTypes
<1>2. CASE k \in 1 .. Len(Plan) /\ Moves(t, "setup", k, Plan[k].tries)
  <2>1. Plan[k] \in StepShape /\ Plan[k].tries \in {1, 3} /\ Len(Plan[k].make) \in Nat
    <3>1. Plan[k] \in StepShape
      BY <1>1, <1>2
    <3> QED
      BY <3>1 DEF StepShape
  <2>2. /\ at' \in [Tasks -> Nat] /\ made' \in [Tasks -> Nat] /\ left' \in [Tasks -> Nat]
        /\ state' \in [Tasks -> States]
    BY <1>2, <2>1 DEF Moves, SetupTypes, States
  <2>3. PlaceInv(t)'
    BY <1>1, <1>2, <2>1 DEF Moves, SetupTypes, PlaceInv, InSetup, Cur
  <2>4. \A u \in Tasks \ {t} : PlaceInv(u)'
    BY <1>1, <1>2 DEF Moves, SetupTypes, PlaceInv, InSetup, Cur
  <2> QED
    BY <2>2, <2>3, <2>4
<1>3. CASE Moves(t, "ok", 0, 0)
  <2>1. /\ at' \in [Tasks -> Nat] /\ made' \in [Tasks -> Nat] /\ left' \in [Tasks -> Nat]
        /\ state' \in [Tasks -> States]
    BY <1>3 DEF Moves, SetupTypes, States
  <2>2. \A u \in Tasks : PlaceInv(u)'
    BY <1>1, <1>3 DEF Moves, SetupTypes, PlaceInv, InSetup, Cur
  <2> QED
    BY <2>1, <2>2
<1> QED
  BY <1>2, <1>3 DEF Arrives

\* Types and places are kept by every step.
LEMMA TypesKept ==
  ASSUME SetupTypes, \A t \in Tasks : PlaceInv(t), Next
  PROVE  SetupTypes' /\ \A t \in Tasks : PlaceInv(t)'
<1>1. lang \in DOMAIN Setup /\ Len(Plan) \in Nat /\ (lang' = lang => Plan' = Plan)
  BY Shaped DEF Plan, SetupTypes
<1>2. ASSUME NEW t \in Tasks, Turn(t) PROVE SetupTypes' /\ \A u \in Tasks : PlaceInv(u)'
  <2>1. TurnEffect(t)
    BY <1>2, Turns
  <2>2. lang' = lang
    BY <2>1 DEF TurnEffect, Directory, env
  <2>3. /\ 1 \in 1 .. Len(Plan) + 1
        /\ InSetup(t) => Following(t) \in 1 .. Len(Plan) + 1 /\ at[t] + 1 \in 1 .. Len(Plan) + 1
    BY <1>1 DEF PlaceInv, Following
  <2>4. /\ at' \in [Tasks -> Nat] /\ made' \in [Tasks -> Nat] /\ left' \in [Tasks -> Nat]
        /\ state' \in [Tasks -> States] /\ \A u \in Tasks : PlaceInv(u)'
    <3>1. ASSUME NEW k \in 1 .. Len(Plan) + 1, Arrives(t, k)
          PROVE  /\ at' \in [Tasks -> Nat] /\ made' \in [Tasks -> Nat] /\ left' \in [Tasks -> Nat]
                 /\ state' \in [Tasks -> States] /\ \A u \in Tasks : PlaceInv(u)'
      BY <2>2, <3>1, ArrivalInPlace
    <3>2. CASE InSetup(t) /\ left[t] > 1 /\ Moves(t, "setup", at[t], left[t] - 1)
      <4>1. left[t] \in 1 .. Cur(t).tries /\ Cur(t).tries \in {1, 3} /\ Len(Cur(t).make) \in Nat
        BY <1>1, <3>2, Current DEF PlaceInv, StepShape
      <4>2. /\ at' \in [Tasks -> Nat] /\ made' \in [Tasks -> Nat] /\ left' \in [Tasks -> Nat]
            /\ state' \in [Tasks -> States]
        BY <3>2, <4>1 DEF Moves, SetupTypes, States
      <4>3. PlaceInv(t)'
        BY <1>1, <2>2, <3>2, <4>1 DEF Moves, SetupTypes, PlaceInv, InSetup, Cur
      <4>4. \A u \in Tasks \ {t} : PlaceInv(u)'
        BY <1>1, <2>2, <3>2 DEF Moves, SetupTypes, PlaceInv, InSetup, Cur
      <4> QED
        BY <4>2, <4>3, <4>4
    <3>3. CASE \E v \in {"toolfailed", "missing"} : Moves(t, v, 0, 0)
      <4>1. /\ at' \in [Tasks -> Nat] /\ made' \in [Tasks -> Nat] /\ left' \in [Tasks -> Nat]
            /\ state' \in [Tasks -> States]
        BY <3>3 DEF Moves, SetupTypes, States
      <4>2. \A u \in Tasks : PlaceInv(u)'
        BY <1>1, <2>2, <3>3 DEF Moves, SetupTypes, PlaceInv, InSetup, Cur
      <4> QED
        BY <4>1, <4>2
    <3> QED
      BY <2>1, <2>3, <3>1, <3>2, <3>3 DEF TurnEffect
  <2> QED
    BY <2>1, <2>4 DEF TurnEffect, SetupTypes, Directory, env
<1>3. ASSUME NEW t \in Tasks, Running(t) PROVE SetupTypes' /\ \A u \in Tasks : PlaceInv(u)'
  <2>1. RunningEffect(t)
    BY <1>3, HooksRun
  <2>2. SetupTypes'
    BY <2>1 DEF RunningEffect, SetupTypes, Directory, env, counts, States
  <2>3. \A u \in Tasks : PlaceInv(u)'
    BY <1>1, <2>1 DEF RunningEffect, SetupTypes, Directory, env, PlaceInv, InSetup, Cur, Ended
  <2> QED
    BY <2>2, <2>3
<1>4. ASSUME NEW t \in Tasks, Begin(t) \/ Make(t) PROVE SetupTypes' /\ \A u \in Tasks : PlaceInv(u)'
  <2>1. ToolEffect(t)
    BY <1>4, ToolsMake
  <2>2. SetupTypes'
    <3>1. /\ disk' \subseteq Artifacts \ {"tool"} /\ lost' \subseteq Tasks /\ overlap' \in BOOLEAN
      BY <2>1 DEF ToolEffect, SetupTypes
    <3>2. installed' \in Nat /\ stamped' \in Nat /\ stamped' <= source'
      BY <2>1 DEF ToolEffect, SetupTypes
    <3>3. made' \in [Tasks -> Nat]
      BY <2>1 DEF ToolEffect, SetupTypes
    <3> QED
      BY <2>1, <3>1, <3>2, <3>3 DEF ToolEffect, SetupTypes, env, counts
  <2>3. Len(Cur(t).make) \in Nat
    BY <1>1, <2>1, Current DEF ToolEffect, PlaceInv
  <2>4. PlaceInv(t)'
    BY <1>1, <2>1, <2>3 DEF ToolEffect, SetupTypes, env, PlaceInv, InSetup, Cur
  <2>5. \A u \in Tasks \ {t} : PlaceInv(u)'
    BY <1>1, <2>1 DEF ToolEffect, SetupTypes, env, PlaceInv, InSetup, Cur
  <2> QED
    BY <2>2, <2>4, <2>5
<1>5. CASE Crash
  BY <1>5 DEF Crash, SetupTypes, env, PlaceInv, InSetup, States
<1>6. CASE EditSource
  <2>1. SetupTypes'
    BY <1>6 DEF EditSource, SetupTypes, env, Installing
  <2>2. \A u \in Tasks : PlaceInv(u)'
    BY <1>1, <1>6 DEF EditSource, env, PlaceInv, InSetup, Cur
  <2> QED
    BY <2>1, <2>2
<1>7. CASE Clean
  <2>1. SetupTypes'
    BY <1>7 DEF Clean, SetupTypes, env, Installing
  <2>2. \A u \in Tasks : PlaceInv(u)'
    BY <1>1, <1>7 DEF Clean, env, PlaceInv, InSetup, Cur
  <2> QED
    BY <2>1, <2>2
<1> QED
  BY <1>2, <1>3, <1>4, <1>5, <1>6, <1>7 DEF Next, SetupStep, Turn, Running


-----------------------------------------------------------------------------
(* What is in the directory. *)

\* A step that does nothing to a task leaves it what it has, or takes the
\* directory from it.
LEMMA DiskStays ==
  ASSUME SetupTypes, NEW u \in Tasks, DiskInv(u), UNCHANGED env,
         state'[u] = state[u], at'[u] = at[u], made'[u] = made[u],
         overlap => overlap', u \notin lost' => u \notin lost /\ disk \subseteq disk'
  PROVE  DiskInv(u)'
<1>1. /\ Plan' = Plan /\ Cur(u)' = Cur(u) /\ InSetup(u)' = InSetup(u)
      /\ Promise' = Promise /\ lang' = lang
  BY DEF env, Plan, Cur, InSetup, Promise
<1>3. u \notin lost' => Present \subseteq Present'
  BY DEF Present, env
<1>2. Secured(at[u])' = Secured(at[u])
  BY <1>1 DEF Secured
<1> QED
  BY <1>1, <1>2, <1>3 DEF DiskInv, SetupTypes

\* A task that arrives at a step has what the steps before it secure.
LEMMA ArrivalSecured ==
  ASSUME SetupTypes, NEW t \in Tasks, NEW k \in 1 .. Len(Plan) + 1, Arrives(t, k),
         UNCHANGED <<Directory, overlap>>,
         t \notin lost' /\ ~overlap => Secured(k) \subseteq disk
  PROVE  DiskInv(t)'
<1>1. lang \in DOMAIN Setup /\ Plan' = Plan /\ Promise' = Promise /\ Secured(k)' = Secured(k)
  BY DEF SetupTypes, Directory, env, Plan, Promise, Secured
<1>2. Secured(Len(Plan) + 1) = Promise
  BY <1>1, SecuredAtEnds
<1>3. CASE Moves(t, "setup", k, Plan[k].tries)
  BY <1>1, <1>3 DEF Moves, SetupTypes, DiskInv, InSetup, Directory
<1>4. CASE k = Len(Plan) + 1 /\ Moves(t, "ok", 0, 0)
  BY <1>1, <1>2, <1>4 DEF Moves, SetupTypes, DiskInv, InSetup, Directory
<1> QED
  BY <1>3, <1>4 DEF Arrives

\* The host offers a tool and a manifest at most.
LEMMA OnDisk ==
  ASSUME SetupTypes, NEW S, S \subseteq Present
  PROVE  S \ {"tool", "manifest"} \subseteq disk
BY DEF SetupTypes, Present

\* A step that is passed over secures what it would have made.
LEMMA SkipSecures ==
  ASSUME SetupInv, NEW t \in Tasks, Skip(t), t \notin lost, ~overlap
  PROVE  Secured(Following(t)) \subseteq disk
<1>1. lang \in DOMAIN Setup /\ InSetup(t) /\ at[t] \in 1 .. Len(Plan) /\ Cur(t) = Plan[at[t]]
  BY DEF SetupInv, SetupTypes, PlaceInv, Skip, InSetup, Cur
<1>2. Secured(at[t]) \subseteq disk
  BY <1>1 DEF SetupInv, DiskInv
<1>3. Cur(t).need \ {"tool", "manifest"} \subseteq disk
  BY OnDisk DEF Skip, SetupInv
<1>4. /\ Secured(Len(Plan) + 1) = Promise
      /\ Cur(t) \in StepShape /\ StepFacts(lang, at[t]) /\ Cur(t) = Setup[lang][at[t]]
  BY <1>1, SecuredAtEnds, Current
<1>5. CASE Cur(t).make = << >>
  <2>1. {Cur(t).make[i] : i \in 1 .. Len(Cur(t).make)} = {}
    BY <1>5
  <2>2. CASE Cur(t).fail = "fallback"
    <3>1. Promise \subseteq {Cur(t).make[i] : i \in 1 .. Len(Cur(t).make)}
      BY <1>1, <2>2, SecuredSteps
    <3> QED
      BY <1>4, <2>1, <2>2, <3>1 DEF Following
  <2>3. CASE Cur(t).fail # "fallback"
    <3>1. Secured(at[t] + 1) \subseteq Secured(at[t])
            \union {Cur(t).make[i] : i \in 1 .. Len(Cur(t).make)} \union (Cur(t).need \ {"tool", "manifest"})
      BY <1>1, <2>3, SecuredSteps, ZenonT(40)
    <3> QED
      BY <1>2, <1>3, <2>1, <2>3, <3>1 DEF Following
  <2> QED
    BY <2>2, <2>3
<1>6. CASE Passed(t)
  <2>1. Cur(t).done # {} /\ Cur(t).done \subseteq disk
    <3>1. Cur(t).done # {} /\ Cur(t).done \ {"tool", "manifest"} \subseteq disk
      BY <1>6, OnDisk DEF Passed, SetupInv
    <3>2. Cur(t).done \subseteq Artifacts \ {"tool"}
      BY <1>4 DEF StepShape
    <3> QED
      BY <3>1, <3>2 DEF Artifacts
  <2>2. CASE Cur(t).fail = "fallback"
    BY <1>1, <1>4, <2>1, <2>2, SecuredSteps DEF Following
  <2>3. CASE Cur(t).fail # "fallback" /\ "marker" \notin Cur(t).done
    BY <1>1, <1>2, <2>1, <2>3, SecuredSteps DEF Following
  <2>4. CASE Cur(t).fail # "fallback" /\ "marker" \in Cur(t).done
    <3>1. {"marker", "repo"} \subseteq disk
      BY <1>6, <2>4 DEF Passed, SetupInv, MarkInv, MarkerTruthful, FreshMarker
    <3>2. Secured(at[t] + 1) \subseteq Secured(at[t]) \union Cur(t).need \union {"marker", "repo"}
      BY <1>1, <2>4, SecuredSteps
    <3>3. Secured(at[t] + 1) \subseteq Artifacts \ {"tool"}
      BY <1>1, <1>4, <2>4, Plans DEF StepFacts, Secured, Promise, Artifacts
    <3> QED
      BY <1>2, <1>3, <2>4, <3>1, <3>2, <3>3 DEF Following, Artifacts
  <2> QED
    BY <2>2, <2>3, <2>4
<1> QED
  BY <1>5, <1>6 DEF Skip

\* A tool that has succeeded secures what it has made.
LEMMA FinishSecures ==
  ASSUME SetupInv, NEW t \in Tasks, Finish(t), t \notin lost, ~overlap
  PROVE  Secured(Following(t)) \subseteq disk
<1>1. lang \in DOMAIN Setup /\ InSetup(t) /\ at[t] \in 1 .. Len(Plan) /\ Cur(t) = Plan[at[t]]
  BY DEF SetupInv, SetupTypes, PlaceInv, Finish, InSetup, Cur
<1>2. Secured(at[t]) \subseteq disk
  BY <1>1 DEF SetupInv, DiskInv
<1>3. Cur(t).need \ {"tool", "manifest"} \subseteq disk
      /\ {Cur(t).make[i] : i \in 1 .. Len(Cur(t).make)} \subseteq disk
  BY <1>1, OnDisk DEF Finish, SetupInv, DiskInv
<1>4. Secured(Len(Plan) + 1) = Promise
  BY <1>1, SecuredAtEnds
<1> QED
  BY <1>1, <1>2, <1>3, <1>4, SecuredSteps DEF Following

\* A failure the code passes over costs nothing that is promised.
LEMMA FailSecures ==
  ASSUME SetupInv, NEW t \in Tasks, InSetup(t), Cur(t).fail # "error", t \notin lost, ~overlap
  PROVE  Secured(at[t] + 1) \subseteq disk
<1>1. lang \in DOMAIN Setup /\ InSetup(t) /\ at[t] \in 1 .. Len(Plan) /\ Cur(t) = Plan[at[t]]
  BY DEF SetupInv, SetupTypes, PlaceInv, InSetup, Cur
<1>2. Secured(at[t]) \subseteq disk
  BY <1>1 DEF SetupInv, DiskInv
<1> QED
  BY <1>1, <1>2, SecuredSteps


\* Every step keeps what every task has.
LEMMA DiskKept ==
  ASSUME SetupInv, Next
  PROVE  \A u \in Tasks : DiskInv(u)'
<1>1. /\ SetupTypes /\ (\A t \in Tasks : PlaceInv(t)) /\ (\A t \in Tasks : DiskInv(t))
      /\ lang \in DOMAIN Setup /\ Len(Plan) \in Nat
  BY Shaped DEF SetupInv, SetupTypes, Plan
<1>2. ASSUME NEW t \in Tasks, Turn(t) PROVE \A u \in Tasks : DiskInv(u)'
  <2>1. TurnEffect(t)
    BY <1>1, <1>2, Turns
  <2>2. ASSUME NEW u \in Tasks \ {t} PROVE DiskInv(u)'
    <3>1. /\ UNCHANGED <<env, disk, overlap>> /\ (u \notin lost' => u \notin lost)
      BY <2>1 DEF TurnEffect, Directory
    <3>2. state'[u] = state[u] /\ at'[u] = at[u] /\ made'[u] = made[u]
      BY <1>1, <2>1 DEF TurnEffect, Arrives, Moves, SetupTypes
    <3> QED
      BY <1>1, <3>1, <3>2, DiskStays
  <2>3. UNCHANGED <<Directory, overlap>>
    BY <2>1 DEF TurnEffect
  <2>4. /\ 1 \in 1 .. Len(Plan) + 1
        /\ InSetup(t) => Following(t) \in 1 .. Len(Plan) + 1 /\ at[t] + 1 \in 1 .. Len(Plan) + 1
    BY <1>1 DEF PlaceInv, Following
  <2>5. CASE Start(t)
    <3>1. Arrives(t, 1)
      BY <1>1, <2>4, <2>5, AdvanceArrives DEF Start
    <3>2. Secured(1) = {}
      BY <1>1, SecuredAtEnds
    <3> QED
      BY <1>1, <2>2, <2>3, <2>4, <3>1, <3>2, ArrivalSecured
  <2>6. CASE Skip(t) \/ Finish(t)
    <3>1. Arrives(t, Following(t)) /\ Following(t) \in 1 .. Len(Plan) + 1 /\ lost' = lost
      BY <1>1, <2>4, <2>6, AdvanceArrives DEF Skip, Finish, InSetup
    <3>2. t \notin lost /\ ~overlap => Secured(Following(t)) \subseteq disk
      BY <2>6, SkipSecures, FinishSecures
    <3> QED
      BY <1>1, <2>2, <2>3, <3>1, <3>2, ArrivalSecured
  <2>7. CASE Missing(t)
    <3>1. state'[t] = "missing"
      BY <1>1, <2>7 DEF Missing, Stop, SetupTypes
    <3>2. DiskInv(t)'
      BY <3>1 DEF DiskInv, InSetup
    <3> QED
      BY <2>2, <3>2
  <2>8. CASE Fail(t)
    <3>1. InSetup(t) /\ lost' = lost
      BY <2>8 DEF Fail, InSetup
    <3>2. CASE left[t] > 1 /\ InStep(t, at[t], left[t] - 1) /\ UNCHANGED state
      <4>1. /\ state' = state /\ at'[t] = at[t] /\ made'[t] = 0
            /\ UNCHANGED <<lang, Plan, disk, lost, overlap>>
        BY <1>1, <2>3, <3>1, <3>2 DEF InStep, SetupTypes, Directory, env, Plan
      <4>2. Secured(at[t])' = Secured(at[t])
        BY <4>1 DEF Secured, Promise
      <4>3. DiskInv(t)
        BY <1>1
      <4> QED
        BY <2>2, <3>1, <4>1, <4>2, <4>3 DEF DiskInv, InSetup
    <3>3. CASE Stop(t, "toolfailed")
      <4>1. state'[t] = "toolfailed"
        BY <1>1, <3>3 DEF Stop, SetupTypes
      <4>2. DiskInv(t)'
        BY <4>1 DEF DiskInv, InSetup
      <4> QED
        BY <2>2, <4>2
    <3>4. CASE Cur(t).fail # "error" /\ Advance(t, at[t] + 1)
      <4>1. Arrives(t, at[t] + 1) /\ at[t] + 1 \in 1 .. Len(Plan) + 1
        BY <1>1, <2>4, <3>1, <3>4, AdvanceArrives
      <4>2. t \notin lost /\ ~overlap => Secured(at[t] + 1) \subseteq disk
        BY <3>1, <3>4, FailSecures
      <4> QED
        BY <1>1, <2>2, <2>3, <3>1, <4>1, <4>2, ArrivalSecured
    <3> QED
      BY <2>8, <3>2, <3>3, <3>4 DEF Fail
  <2> QED
    BY <1>2, <2>5, <2>6, <2>7, <2>8 DEF Turn
<1>3. ASSUME NEW t \in Tasks, Running(t) PROVE \A u \in Tasks : DiskInv(u)'
  <2>1. RunningEffect(t)
    BY <1>1, <1>3, HooksRun
  <2>2. ASSUME NEW u \in Tasks, state'[u] = state[u] PROVE DiskInv(u)'
    BY <1>1, <2>1, <2>2, DiskStays DEF RunningEffect, Directory
  <2>3. ASSUME state[t] \in {"ok", "run"}, state'[t] \in Ended \union {"run"} PROVE DiskInv(t)'
    <3>1. Promise' = Promise /\ UNCHANGED <<disk, lost, overlap>>
      BY <2>1 DEF RunningEffect, Directory, env, Promise
    <3> QED
      BY <1>1, <2>3, <3>1 DEF DiskInv, InSetup, Ended
  <2> QED
    BY <1>1, <2>1, <2>2, <2>3 DEF RunningEffect, SetupTypes
<1>4. ASSUME NEW t \in Tasks, Begin(t) \/ Make(t) PROVE \A u \in Tasks : DiskInv(u)'
  <2>1. ToolEffect(t)
    BY <1>1, <1>4, ToolsMake
  <2>2. ASSUME NEW u \in Tasks \ {t} PROVE DiskInv(u)'
    <3>1. (overlap => overlap') /\ (u \notin lost' => u \notin lost /\ disk \subseteq disk')
      BY <2>1 DEF ToolEffect
    <3>2. state'[u] = state[u] /\ at'[u] = at[u] /\ made'[u] = made[u] /\ UNCHANGED env
      BY <1>1, <2>1 DEF ToolEffect, SetupTypes
    <3> QED
      BY <1>1, <3>1, <3>2, DiskStays
  <2>3. DiskInv(t)'
    <3>1. /\ InSetup(t) /\ InSetup(t)' /\ UNCHANGED <<state, at, lang, host, Plan, Cur(t)>>
          /\ made[t] \in Nat /\ made'[t] = made[t] + 1
      BY <1>1, <2>1 DEF ToolEffect, SetupTypes, env, Plan, Cur, InSetup
    <3>2. Secured(at[t])' = Secured(at[t])
      BY <3>1 DEF Secured, Promise
    <3>3. CASE disk' = disk \union {Artifact(t)} /\ UNCHANGED <<lost, overlap>>
      <4>1. made[t] = 0 => Cur(t).need \subseteq Present
        BY <2>1 DEF ToolEffect
      <4>2. Present \subseteq Present'
        BY <3>1, <3>3 DEF Present
      <4>3. t \notin lost => \A i \in 1 .. made[t] + 1 : Cur(t).make[i] \in disk'
        BY <1>1, <3>1, <3>3 DEF DiskInv, Artifact
      <4>4. t \notin lost => Cur(t).need \subseteq Present'
        BY <1>1, <3>1, <4>1, <4>2 DEF DiskInv
      <4> QED
        BY <1>1, <3>1, <3>2, <3>3, <4>3, <4>4 DEF DiskInv, InSetup
    <3>4. CASE lang = "tempvenv" /\ Cur(t).need = {"tool"} /\ made[t] = 0 /\ disk' = {Artifact(t)}
      <4>1. "tool" \in host
        BY <1>1, <2>1, <3>4 DEF ToolEffect, Present, SetupTypes
      <4>2. Secured(at[t]) = {}
        BY <1>1, <3>1, <3>4 DEF Secured, PlaceInv
      <4>3. \A i \in 1 .. made[t] + 1 : Cur(t).make[i] \in disk'
        BY <3>4 DEF Artifact
      <4> QED
        BY <3>1, <3>2, <3>4, <4>1, <4>2, <4>3 DEF DiskInv, InSetup, Present
    <3> QED
      BY <2>1, <3>3, <3>4 DEF ToolEffect
  <2> QED
    BY <2>2, <2>3
<1>5. CASE Crash
  BY <1>5 DEF Crash, DiskInv, InSetup
<1>6. CASE EditSource
  BY <1>1, <1>6, DiskStays DEF EditSource
<1>7. CASE Clean
  BY <1>7 DEF Clean, DiskInv
<1> QED
  BY <1>2, <1>3, <1>4, <1>5, <1>6, <1>7 DEF Next, SetupStep, Turn, Running


-----------------------------------------------------------------------------
(* What the marker says. *)

\* Every step keeps the marker true.
LEMMA MarkKept ==
  ASSUME SetupInv, Next
  PROVE  MarkInv'
<1>1. /\ SetupTypes /\ (\A t \in Tasks : PlaceInv(t)) /\ MarkInv /\ lang \in DOMAIN Setup
      /\ Len(Plan) \in Nat
  BY Shaped DEF SetupInv, SetupTypes, Plan
<1>2. ASSUME NEW t \in Tasks, Turn(t) PROVE MarkInv'
  <2>1. TurnEffect(t)
    BY <1>1, <1>2, Turns
  <2>2. UNCHANGED <<lang, disk, source, installed, stamped, overlap>>
    BY <2>1 DEF TurnEffect, Directory, env
  <2>3. \A u \in Tasks : made'[u] > 0 => made'[u] = made[u] /\ at'[u] = at[u] /\ state'[u] = state[u]
    BY <1>1, <2>1 DEF TurnEffect, Arrives, Moves, SetupTypes
  <2> QED
    BY <1>1, <2>2, <2>3 DEF MarkInv, MarkerTruthful, FreshMarker, InSetup
<1>3. ASSUME NEW t \in Tasks, Running(t) PROVE MarkInv'
  <2>1. RunningEffect(t)
    BY <1>1, <1>3, HooksRun
  <2>2. UNCHANGED <<lang, disk, source, installed, stamped, overlap, at, made>>
    BY <2>1 DEF RunningEffect, Directory, env
  <2>3. \A u \in Tasks : state'[u] = "setup" => state[u] = "setup"
    BY <1>1, <2>1 DEF RunningEffect, SetupTypes, Ended
  <2> QED
    BY <1>1, <2>2, <2>3 DEF MarkInv, MarkerTruthful, FreshMarker, InSetup
<1>4. ASSUME NEW t \in Tasks, Begin(t) \/ Make(t) PROVE MarkInv'
  <2>1. ToolEffect(t)
    BY <1>1, <1>4, ToolsMake
  <2>2. /\ at[t] \in 1 .. Len(Plan) /\ made[t] \in Nat /\ made[t] + 1 \in 1 .. Len(Cur(t).make)
        /\ StepFacts(lang, at[t]) /\ Cur(t) = Setup[lang][at[t]]
    <3>1. at[t] \in 1 .. Len(Plan) /\ made[t] \in Nat /\ InSetup(t)
      BY <1>1, <2>1 DEF ToolEffect, PlaceInv, SetupTypes
    <3>2. StepFacts(lang, at[t]) /\ Cur(t) = Setup[lang][at[t]] /\ Len(Cur(t).make) \in Nat
      BY <1>1, <3>1, Current
    <3> QED
      BY <2>1, <3>1, <3>2 DEF ToolEffect
  <2>3. /\ Artifact(t) = "marker" => lang = "python" /\ at[t] = 3 /\ made[t] = 2
        /\ lang = "python" /\ at[t] = 3 /\ made[t] = 0 => Artifact(t) = "repo"
    <3>1. Artifact(t) = "marker" => lang = "python" /\ at[t] = 3 /\ made[t] + 1 = 3
      BY <2>2 DEF StepFacts, Artifact
    <3>2. lang = "python" /\ at[t] = 3 => Cur(t).make = <<"repo", "dir", "marker">>
      BY <2>2 DEF StepFacts
    <3> QED
      BY <2>2, <3>1, <3>2 DEF Artifact
  <2>4. /\ UNCHANGED <<lang, source, at, state>>
        /\ made' = [made EXCEPT ![t] = made[t] + 1]
        /\ installed' = IF Artifact(t) = "repo" THEN source ELSE installed
        /\ stamped' = IF Artifact(t) = "marker" THEN source ELSE stamped
    BY <2>1 DEF ToolEffect, env
  <2>5. CASE disk' = disk \union {Artifact(t)} /\ UNCHANGED overlap
    <3>1. "marker" \in disk' => lang' = "python"
      BY <1>1, <2>3, <2>4, <2>5 DEF MarkInv
    <3>2. Artifact(t) = "marker" /\ ~overlap => installed = source /\ "repo" \in disk
      BY <1>1, <2>1, <2>3 DEF MarkInv, ToolEffect
    <3>3. MarkerTruthful'
      BY <1>1, <2>4, <2>5, <3>2 DEF MarkInv, MarkerTruthful, FreshMarker
    <3>4. ASSUME NEW u \in Tasks, lang = "python", InSetup(u), at[u] = 3, made'[u] > 0, ~overlap
          PROVE  installed' = source /\ "repo" \in disk'
      <4>1. CASE made[u] > 0
        BY <1>1, <2>4, <2>5, <3>4, <4>1 DEF MarkInv
      <4>2. CASE ~(made[u] > 0)
        <5>1. u = t /\ made[t] = 0
          BY <1>1, <2>2, <2>4, <3>4, <4>2 DEF SetupTypes
        <5> QED
          BY <2>3, <2>4, <2>5, <3>4, <5>1
      <4> QED
        BY <4>1, <4>2
    <3> QED
      BY <2>4, <2>5, <3>1, <3>3, <3>4 DEF MarkInv, InSetup
  <2>6. CASE lang = "tempvenv" /\ disk' = {Artifact(t)}
    BY <2>3, <2>4, <2>6 DEF MarkInv, MarkerTruthful, FreshMarker
  <2> QED
    BY <2>1, <2>5, <2>6 DEF ToolEffect
<1>5. CASE Crash
  BY <1>1, <1>5 DEF Crash, env, MarkInv, MarkerTruthful, FreshMarker, InSetup
<1>6. CASE EditSource
  <2>1. CASE overlap'
    BY <1>1, <1>6, <2>1 DEF EditSource, env, MarkInv, MarkerTruthful
  <2>2. CASE ~overlap'
    <3>1. \A t \in Tasks : ~(state[t] = "setup" /\ made[t] > 0)
      BY <1>6, <2>2 DEF EditSource, Installing
    <3>2. source' # stamped'
      BY <1>1, <1>6 DEF EditSource, SetupTypes
    <3> QED
      BY <1>1, <1>6, <3>1, <3>2 DEF EditSource, env, MarkInv, MarkerTruthful, FreshMarker, InSetup
  <2> QED
    BY <2>1, <2>2
<1>7. CASE Clean
  <2>1. CASE overlap'
    BY <1>1, <1>7, <2>1 DEF Clean, MarkInv, MarkerTruthful
  <2>2. CASE ~overlap'
    <3>1. \A t \in Tasks : ~(state[t] = "setup" /\ made[t] > 0)
      BY <1>7, <2>2 DEF Clean, Installing
    <3> QED
      BY <1>7, <3>1 DEF Clean, MarkInv, MarkerTruthful, FreshMarker, InSetup
  <2> QED
    BY <2>1, <2>2
<1> QED
  BY <1>2, <1>3, <1>4, <1>5, <1>6, <1>7 DEF Next, SetupStep, Turn, Running


-----------------------------------------------------------------------------
(* Who is to blame. *)

\* What a plan of python needs, and what its first step makes.
LEMMA PythonFacts ==
  ASSUME SetupInv, lang = "python", NEW t \in Tasks, InSetup(t)
  PROVE  /\ at[t] \in 1 .. Len(Plan) /\ Len(Plan) \in Nat /\ made[t] \in Nat
         /\ Cur(t).need \subseteq IF at[t] = 1 THEN {"tool"} ELSE {"python", "pip"}
         /\ Following(t) = at[t] + 1
         /\ at[t] = 1 => Cur(t).done = {"python"} /\ Cur(t).make = <<"dir", "python", "pip">>
         /\ \A i \in 1 .. Len(Cur(t).make) : Cur(t).make[i] = "python" => at[t] = 1
<1>1. lang \in DOMAIN Setup /\ at[t] \in 1 .. Len(Plan) /\ made[t] \in Nat
  BY DEF SetupInv, SetupTypes, PlaceInv
<1>2. StepFacts(lang, at[t]) /\ Cur(t) = Setup[lang][at[t]] /\ Len(Plan) \in Nat
  BY <1>1, Current
<1> QED
  BY <1>1, <1>2 DEF StepFacts, Following

\* What is kept when nothing goes wrong.
PythonWhole ==
  /\ \A t \in Tasks : InSetup(t) /\ at[t] > 1 => {"python", "pip"} \subseteq disk
  /\ "python" \in disk /\ "pip" \notin disk
     => \E t \in Tasks : InSetup(t) /\ at[t] = 1 /\ made[t] > 0

\* A step of an undisturbed setup keeps it whole.
LEMMA WholeKept ==
  ASSUME SetupInv, Undisturbed, Undisturbed', Next
  PROVE  PythonWhole'
<1>1. /\ SetupTypes /\ (\A t \in Tasks : PlaceInv(t)) /\ (\A t \in Tasks : DiskInv(t))
      /\ PythonWhole /\ lang = "python" /\ lost = {}
      /\ \A t, u \in Tasks : InSetup(t) /\ InSetup(u) => t = u
      /\ lang \in DOMAIN Setup /\ Len(Plan) \in Nat
  BY Shaped DEF SetupInv, BlameInv, Undisturbed, PythonWhole, SetupTypes, Plan
<1>2. ASSUME NEW t \in Tasks, Start(t) PROVE PythonWhole'
  <2>1. Arrives(t, 1) /\ disk' = disk /\ ~InSetup(t)
    BY <1>1, <1>2, AdvanceArrives DEF Start, InSetup
  <2>2. \A u \in Tasks \ {t} : state'[u] = state[u] /\ at'[u] = at[u] /\ made'[u] = made[u]
    BY <1>1, <2>1 DEF Arrives, Moves, SetupTypes
  <2>3. state'[t] = "setup" => at'[t] = 1
    BY <1>1, <2>1 DEF Arrives, Moves, SetupTypes
  <2> QED
    BY <1>1, <2>1, <2>2, <2>3 DEF PythonWhole, InSetup
<1>3. ASSUME NEW t \in Tasks, Skip(t) \/ Finish(t) PROVE PythonWhole'
  <2>1. InSetup(t) /\ disk' = disk
    BY <1>3 DEF Skip, Finish, InSetup
  <2>2. Following(t) = at[t] + 1 /\ at[t] + 1 \in 1 .. Len(Plan) + 1 /\ at[t] >= 1
    BY <1>1, <2>1, PythonFacts
  <2>3. Arrives(t, at[t] + 1)
    BY <1>1, <1>3, <2>2, AdvanceArrives DEF Skip, Finish
  <2>4. \A u \in Tasks \ {t} : state'[u] = state[u] /\ at'[u] = at[u] /\ made'[u] = made[u]
    BY <1>1, <2>3 DEF Arrives, Moves, SetupTypes
  <2>5. {"python", "pip"} \subseteq disk
    <3>1. CASE at[t] > 1
      BY <1>1, <2>1, <3>1 DEF PythonWhole
    <3>2. CASE at[t] = 1 /\ Skip(t)
      <4>1. "python" \in disk
        <5>1. Cur(t).done = {"python"} /\ Cur(t).make = <<"dir", "python", "pip">>
          BY <1>1, <2>1, <3>2, PythonFacts
        <5>2. <<"dir", "python", "pip">> # << >>
          OBVIOUS
        <5>3. {"python"} \subseteq Present
          BY <3>2, <5>1, <5>2 DEF Skip, Passed
        <5> QED
          BY <1>1, <5>3, OnDisk
      <4>2. \A u \in Tasks : InSetup(u) => made[u] = 0
        BY <1>1, <2>1, <3>2 DEF Skip
      <4> QED
        BY <1>1, <4>1, <4>2 DEF PythonWhole
    <3>3. CASE at[t] = 1 /\ Finish(t)
      <4>1. Cur(t).make = <<"dir", "python", "pip">> /\ made[t] = 3
        <5>1. Cur(t).make = <<"dir", "python", "pip">> /\ made[t] = Len(Cur(t).make)
          BY <1>1, <2>1, <3>3, PythonFacts DEF Finish
        <5>2. Len(<<"dir", "python", "pip">>) = 3
          OBVIOUS
        <5> QED
          BY <5>1, <5>2
      <4> QED
        BY <1>1, <2>1, <4>1 DEF DiskInv
    <3>4. at[t] \in Nat
      BY <1>1 DEF SetupTypes
    <3> QED
      BY <1>3, <2>2, <3>1, <3>2, <3>3, <3>4
  <2> QED
    BY <2>1, <2>5 DEF PythonWhole
<1>4. ASSUME NEW t \in Tasks, Missing(t) PROVE PythonWhole'
  <2>1. InSetup(t) /\ disk' = disk /\ made[t] = 0 /\ Moves(t, "missing", 0, 0)
    BY <1>4 DEF Missing, Stop, InStep, Moves, InSetup
  <2>2. \A u \in Tasks \ {t} : state'[u] = state[u] /\ at'[u] = at[u] /\ made'[u] = made[u]
    BY <1>1, <2>1 DEF Moves, SetupTypes
  <2>3. state'[t] # "setup"
    BY <1>1, <2>1 DEF Moves, SetupTypes
  <2> QED
    BY <1>1, <2>1, <2>2, <2>3 DEF PythonWhole, InSetup
<1>5. ASSUME NEW t \in Tasks, Fail(t) PROVE FALSE
  BY <1>1, <1>5 DEF Fail, Undisturbed, SetupTypes
<1>6. ASSUME NEW t \in Tasks, Running(t) PROVE PythonWhole'
  <2>1. RunningEffect(t)
    BY <1>1, <1>6, HooksRun
  <2>2. UNCHANGED <<disk, at, made>> /\ \A u \in Tasks : state'[u] = "setup" <=> state[u] = "setup"
    BY <1>1, <2>1 DEF RunningEffect, Directory, SetupTypes, Ended
  <2> QED
    BY <1>1, <2>2 DEF PythonWhole, InSetup
<1>7. ASSUME NEW t \in Tasks, Begin(t) \/ Make(t) PROVE PythonWhole'
  <2>1. ToolEffect(t)
    BY <1>1, <1>7, ToolsMake
  <2>2. /\ InSetup(t) /\ UNCHANGED <<at, state>> /\ disk' = disk \union {Artifact(t)}
        /\ made' = [made EXCEPT ![t] = made[t] + 1] /\ made[t] < Len(Cur(t).make)
    BY <1>1, <2>1 DEF ToolEffect
  <2>3. Artifact(t) = "python" => at[t] = 1
    <3>1. Len(Cur(t).make) \in Nat
      BY <1>1, <2>2, Current, PythonFacts
    <3>2. made[t] + 1 \in 1 .. Len(Cur(t).make)
      BY <1>1, <2>2, <3>1, PythonFacts
    <3> QED
      BY <1>1, <2>2, <3>2, PythonFacts DEF Artifact
  <2>4. \A u \in Tasks : made[u] > 0 => made'[u] > 0
    BY <1>1, <2>2 DEF SetupTypes
  <2>5. made'[t] > 0
    BY <1>1, <2>2 DEF SetupTypes
  <2>6. \A u \in Tasks : InSetup(u)' /\ at'[u] > 1 => {"python", "pip"} \subseteq disk'
    BY <1>1, <2>2 DEF PythonWhole, InSetup
  <2>7. ASSUME "python" \in disk', "pip" \notin disk'
        PROVE  \E u \in Tasks : InSetup(u)' /\ at'[u] = 1 /\ made'[u] > 0
    <3>1. CASE "python" \in disk
      <4>1. PICK u \in Tasks : InSetup(u) /\ at[u] = 1 /\ made[u] > 0
        BY <1>1, <2>2, <2>7, <3>1 DEF PythonWhole
      <4> QED
        BY <2>2, <2>4, <4>1 DEF InSetup
    <3>2. CASE "python" \notin disk
      <4>1. at[t] = 1
        BY <2>2, <2>3, <2>7, <3>2
      <4> QED
        BY <2>2, <2>5, <4>1 DEF InSetup
    <3> QED
      BY <3>1, <3>2
  <2> QED
    BY <2>6, <2>7 DEF PythonWhole
<1>8. ~Crash /\ ~Clean
  BY <1>1 DEF Crash, Clean, Undisturbed, SetupTypes
<1>9. CASE EditSource
  BY <1>1, <1>9 DEF EditSource, PythonWhole, InSetup
<1> QED
  BY <1>2, <1>3, <1>4, <1>5, <1>6, <1>7, <1>8, <1>9 DEF Next, SetupStep, Running

\* Every step keeps the account of what has gone wrong.
LEMMA BlameKept ==
  ASSUME SetupInv, Next
  PROVE  BlameInv'
<1>1. /\ SetupTypes /\ (\A t \in Tasks : PlaceInv(t)) /\ BlameInv /\ lang \in DOMAIN Setup
      /\ Len(Plan) \in Nat
  BY Shaped DEF SetupInv, SetupTypes, Plan
<1>2. /\ UNCHANGED <<lang, host>> /\ (shared => shared') /\ shared' \in BOOLEAN
      /\ faults' >= faults /\ crashes' >= crashes /\ cleans' >= cleans
      /\ faults' \in Nat /\ crashes' \in Nat /\ cleans' \in Nat
  <2>1. ASSUME NEW t \in Tasks, Begin(t) \/ Make(t) \/ Skip(t) \/ Missing(t) \/ Finish(t) \/ HookStep(t) \/ Exit(t)
        PROVE  UNCHANGED <<lang, host, shared, faults, crashes, cleans>>
    <3>1. CASE Begin(t) \/ Make(t)
      BY <3>1 DEF Begin, Make, env, counts
    <3>2. CASE Skip(t) \/ Missing(t) \/ Finish(t)
      BY <3>2 DEF Skip, Missing, Finish, env, counts
    <3>3. CASE HookStep(t) \/ Exit(t)
      BY <3>3 DEF HookStep, Exit, NoExecutable, Spawn, Report, GiveUp, env, counts
    <3> QED
      BY <2>1, <3>1, <3>2, <3>3
  <2>2. ASSUME NEW t \in Tasks, Start(t)
        PROVE  UNCHANGED <<lang, host, faults, crashes, cleans>> /\ (shared => shared') /\ shared' \in BOOLEAN
    BY <1>1, <2>2 DEF Start, env, counts, SetupTypes
  <2>3. ASSUME NEW t \in Tasks, Fail(t)
        PROVE  UNCHANGED <<lang, host, shared, crashes, cleans>> /\ faults' = faults + 1
    BY <2>3 DEF Fail, env
  <2>4. CASE Crash \/ EditSource \/ Clean
    BY <1>1, <2>4 DEF Crash, EditSource, Clean, env, SetupTypes
  <2> QED
    BY <1>1, <2>1, <2>2, <2>3, <2>4 DEF Next, SetupStep, SetupTypes
<1>3. ~shared' => \A t, u \in Tasks : InSetup(t)' /\ InSetup(u)' => t = u
  <2>1. ASSUME NEW t \in Tasks, Start(t)
        PROVE  ~shared' => /\ \A u \in Tasks \ {t} : ~InSetup(u)
                           /\ \A u \in Tasks \ {t} : InSetup(u)' = InSetup(u)
    <3>1. Arrives(t, 1)
      BY <1>1, <2>1, AdvanceArrives DEF Start
    <3> QED
      BY <1>1, <2>1, <3>1 DEF Start, Arrives, Moves, InSetup, SetupTypes
  <2>2. ASSUME NEW t \in Tasks, SetupStep(t) \/ Running(t), ~Start(t)
        PROVE  \A u \in Tasks : InSetup(u)' => InSetup(u)
    <3>1. CASE Running(t)
      <4>1. RunningEffect(t)
        BY <1>1, <3>1, HooksRun
      <4> QED
        BY <1>1, <4>1 DEF RunningEffect, InSetup, SetupTypes, Ended
    <3>2. CASE Begin(t) \/ Make(t)
      BY <3>2 DEF Begin, Make, InSetup
    <3>3. CASE Skip(t) \/ Missing(t) \/ Finish(t) \/ Fail(t)
      <4>1. TurnEffect(t) /\ InSetup(t)
        BY <1>1, <3>3, Turns DEF Turn, Skip, Missing, Finish, Fail, InSetup
      <4> QED
        BY <1>1, <4>1 DEF TurnEffect, Arrives, Moves, InSetup, SetupTypes
    <3> QED
      BY <2>2, <3>1, <3>2, <3>3 DEF SetupStep
  <2>3. CASE Crash \/ EditSource \/ Clean
    BY <1>1, <2>3 DEF Crash, EditSource, Clean, InSetup, BlameInv
  <2> QED
    BY <1>1, <1>2, <2>1, <2>2, <2>3 DEF Next, Running, BlameInv
<1>4. cleans' = 0 /\ lang' # "tempvenv" => lost' = {}
  <2>1. ASSUME NEW t \in Tasks, Begin(t) \/ Make(t), lang # "tempvenv" PROVE lost' = lost
    BY <1>1, <2>1, ToolsMake DEF ToolEffect
  <2>2. ASSUME NEW t \in Tasks, Turn(t) PROVE lost' \subseteq lost
    BY <1>1, <2>2, Turns DEF TurnEffect
  <2>3. ASSUME NEW t \in Tasks, Running(t) PROVE lost' = lost
    BY <1>1, <2>3, HooksRun DEF RunningEffect
  <2>4. CASE Crash \/ EditSource
    BY <2>4, <1>1, <1>2 DEF Crash, EditSource, BlameInv, SetupTypes
  <2>5. CASE Clean
    BY <1>1, <2>5 DEF Clean, SetupTypes
  <2>6. cleans' = 0 => cleans = 0
    BY <1>1, <1>2 DEF SetupTypes
  <2> QED
    BY <1>1, <1>2, <2>1, <2>2, <2>3, <2>4, <2>5, <2>6 DEF Next, SetupStep, Running, Turn, BlameInv
<1>5. Undisturbed' => Undisturbed
  BY <1>1, <1>2 DEF Undisturbed, SetupTypes
<1>6. FailureExplained'
  <2>1. ASSUME NEW u \in Tasks, state[u] # "missing", state'[u] = "missing" PROVE Missing(u)
    <3>1. ASSUME NEW t \in Tasks, Missing(t) PROVE u = t
      BY <1>1, <2>1, <3>1 DEF Missing, Stop, SetupTypes
    <3>2. ASSUME NEW t \in Tasks, Running(t) PROVE FALSE
      <4>1. RunningEffect(t)
        BY <1>1, <3>2, HooksRun
      <4> QED
        BY <1>1, <2>1, <4>1 DEF RunningEffect, SetupTypes, Ended
    <3>3. ASSUME NEW t \in Tasks, Begin(t) \/ Make(t) PROVE FALSE
      BY <2>1, <3>3 DEF Begin, Make
    <3>4. ASSUME NEW t \in Tasks, Start(t) \/ Skip(t) \/ Finish(t) \/ Fail(t) PROVE FALSE
      BY <1>1, <2>1, <3>4 DEF Start, Skip, Finish, Fail, Advance, Stop, SetupTypes
    <3>5. CASE Crash \/ EditSource \/ Clean
      BY <2>1, <3>5 DEF Crash, EditSource, Clean
    <3> QED
      BY <3>1, <3>2, <3>3, <3>4, <3>5 DEF Next, SetupStep, Running
  <2>2. ASSUME NEW u \in Tasks, Missing(u), {"tool", "manifest"} \subseteq host
        PROVE  lang = "python" /\ ~Undisturbed
    <3>1. /\ InSetup(u) /\ at[u] \in 1 .. Len(Plan)
          /\ ~(Cur(u).need \subseteq Present)
      BY <1>1, <2>2 DEF Missing, InSetup, PlaceInv
    <3>2. StepFacts(lang, at[u]) /\ Cur(u) = Setup[lang][at[u]]
      BY <1>1, <3>1, Current
    <3>3. lang = "python"
      BY <2>2, <3>1, <3>2 DEF StepFacts, Present
    <3>4. at[u] # 1 /\ ~({"python", "pip"} \subseteq disk)
      BY <2>2, <3>1, <3>3, PythonFacts DEF Present
    <3> QED
      BY <1>1, <3>1, <3>3, <3>4 DEF BlameInv
  <2>3. \A u \in Tasks : Missing(u) => UNCHANGED <<shared, faults, crashes, cleans>>
    BY DEF Missing, counts
  <2>4. ASSUME NEW u \in Tasks, state'[u] = "missing", {"tool", "manifest"} \subseteq host'
        PROVE  lang' = "python" /\ (shared' \/ faults' > 0 \/ crashes' > 0 \/ cleans' > 0)
    <3>1. CASE state[u] = "missing"
      BY <1>1, <1>2, <2>4, <3>1 DEF BlameInv, FailureExplained, SetupTypes
    <3>2. CASE state[u] # "missing"
      BY <1>1, <1>2, <2>1, <2>2, <2>3, <2>4, <3>2 DEF Undisturbed, SetupTypes
    <3> QED
      BY <3>1, <3>2
  <2> QED
    BY <2>4 DEF FailureExplained
<1>7. Undisturbed' => PythonWhole'
  BY <1>5, WholeKept
<1> QED
  BY <1>3, <1>4, <1>6, <1>7 DEF BlameInv, PythonWhole


-----------------------------------------------------------------------------
(* The setups are truthful. *)

\* At first nothing is under way and nothing is on disk.
LEMMA SetupInit == Init => SetupInv
<1> SUFFICES ASSUME Init PROVE SetupInv
  OBVIOUS
<1>1. SetupTypes
  <2>1. lang \in DOMAIN Setup /\ host \in {{"tool", "manifest"}, {"tool"}, {}}
    BY SetupAssumption DEF Init
  <2>2. /\ at \in [Tasks -> Nat] /\ made \in [Tasks -> Nat] /\ left \in [Tasks -> Nat]
        /\ state \in [Tasks -> States] /\ child \in [Tasks -> {"none", "alive", "zero", "one"}]
    BY DEF Init, States
  <2>3. /\ source \in Nat /\ installed \in Nat /\ stamped \in Nat
        /\ source > 0 /\ stamped <= source
        /\ faults \in Nat /\ crashes \in Nat /\ edits \in Nat /\ cleans \in Nat
    BY DEF Init
  <2> QED
    BY <2>1, <2>2, <2>3 DEF Init, SetupTypes
<1>2. \A t \in Tasks : PlaceInv(t) /\ DiskInv(t)
  BY DEF Init, PlaceInv, DiskInv, InSetup
<1>3. MarkInv
  BY DEF Init, MarkInv, MarkerTruthful, FreshMarker, InSetup
<1>4. BlameInv
  BY DEF Init, BlameInv, FailureExplained, InSetup
<1> QED
  BY <1>1, <1>2, <1>3, <1>4 DEF SetupInv

\* The invariant is inductive.
LEMMA SetupStepKeeps == SetupInv /\ [Next]_vars => SetupInv'
<1> SUFFICES ASSUME SetupInv, [Next]_vars PROVE SetupInv'
  OBVIOUS
<1>1. CASE Next
  <2>1. SetupTypes' /\ \A t \in Tasks : PlaceInv(t)'
    BY <1>1, TypesKept DEF SetupInv
  <2>2. \A t \in Tasks : DiskInv(t)'
    BY <1>1, DiskKept
  <2>3. MarkInv' /\ BlameInv'
    BY <1>1, MarkKept, BlameKept
  <2> QED
    BY <2>1, <2>2, <2>3 DEF SetupInv
<1>2. CASE UNCHANGED vars
  <2>1. SetupTypes'
    BY <1>2 DEF SetupInv, SetupTypes, vars, env, counts
  <2>2. \A t \in Tasks : PlaceInv(t)' = PlaceInv(t) /\ DiskInv(t)' = DiskInv(t)
    BY <1>2 DEF vars, env, counts, PlaceInv, DiskInv, InSetup, Cur, Plan, Secured, Promise, Present
  <2>3. MarkInv'
    BY <1>2 DEF SetupInv, MarkInv, MarkerTruthful, FreshMarker, InSetup, vars, env
  <2>4. BlameInv'
    BY <1>2 DEF SetupInv, BlameInv, FailureExplained, Undisturbed, InSetup, vars, env, counts
  <2> QED
    BY <2>1, <2>2, <2>3, <2>4 DEF SetupInv
<1> QED
  BY <1>1, <1>2

\* The invariant says what the runs check.
LEMMA SetupInvSays == SetupInv => ReadyEnvironment /\ SetupsTruthful
<1> SUFFICES ASSUME SetupInv PROVE ReadyEnvironment /\ SetupsTruthful
  OBVIOUS
<1>1. ReadyEnvironment
  BY DEF SetupInv, DiskInv, ReadyEnvironment
<1>2. TypeOK
  <2>1. disk \subseteq Artifacts
    BY DEF SetupInv, SetupTypes
  <2>2. ASSUME NEW t \in Tasks
        PROVE  /\ state[t] \in States /\ child[t] \in {"none", "alive", "zero", "one"}
               /\ state[t] = "setup" <=> at[t] \in 1 .. Len(Plan)
               /\ state[t] = "setup" => made[t] <= Len(Cur(t).make) /\ left[t] \in 1 .. Cur(t).tries
    <3>1. state[t] \in States /\ child[t] \in {"none", "alive", "zero", "one"} /\ made[t] \in Nat
      BY DEF SetupInv, SetupTypes
    <3>2. PlaceInv(t) /\ Len(Plan) \in Nat
      BY Shaped DEF SetupInv, SetupTypes, Plan
    <3>3. state[t] = "setup" => Len(Cur(t).make) \in Nat
      BY <3>2, Current DEF SetupInv, SetupTypes, PlaceInv, InSetup
    <3> QED
      BY <3>1, <3>2, <3>3 DEF PlaceInv, InSetup
  <2> QED
    BY <2>1, <2>2 DEF TypeOK, States
<1> QED
  BY <1>1, <1>2 DEF SetupInv, MarkInv, BlameInv, SetupsTruthful

\* setup_environment of every plugin, for any number of tasks that share the
\* directory: after Ok what it promises is there, whatever failed tools,
\* crashes and other tasks have left, unless the directory was removed or an
\* edit or a removal came in the middle of an installation.
THEOREM EnvironmentsAreReady == Spec => []ReadyEnvironment
<1>1. Init => SetupInv
  BY SetupInit
<1>2. SetupInv /\ [Next]_vars => SetupInv'
  BY SetupStepKeeps
<1>3. SetupInv => ReadyEnvironment
  BY SetupInvSays
<1> QED
  BY <1>1, <1>2, <1>3, PTL DEF Spec

\* A marker that is believed stands for an installation of these sources, and
\* a setup fails for want of something only when the host lacks it, or when
\* something has gone wrong with a virtual environment.
THEOREM SetupsAreTruthful == Spec => []SetupsTruthful
<1>1. Init => SetupInv
  BY SetupInit
<1>2. SetupInv /\ [Next]_vars => SetupInv'
  BY SetupStepKeeps
<1>3. SetupInv => SetupsTruthful
  BY SetupInvSays
<1> QED
  BY <1>1, <1>2, <1>3, PTL DEF Spec


-----------------------------------------------------------------------------
(* The registry, the manager of environments and the executor. *)

Adding == {"reg_config", "reg_config_old"}
Pcs == Unregistering \union Writing \union Adding \union {"idle", "prepare", "execute"}

RegistryTypes ==
  /\ plugins \subseteq Names /\ configs \subseteq Names
  /\ active \in Int /\ ops \in Nat /\ raced \in BOOLEAN
  /\ detection \in [Files -> Names \union {NoLanguage, NotCached}]
  /\ pc \in [Threads -> Pcs]
  /\ name \in [Threads -> Names \union {NoLanguage}]
  /\ found \in [Threads -> {<< >>} \union (Files \X (Names \union {NoLanguage}))]
  /\ \A th \in Threads : pc[th] \notin {"idle", "detect_store"} => name[th] \in Names
  /\ \A th \in Threads : pc[th] = "detect_store" =>
        found[th] \in Files \X (Names \union {NoLanguage}) /\ found[th][2] = name[th]

\* The counter is out by the calls that have changed the map and not yet it.
Joining == {th \in Threads : pc[th] \in {"reg_config", "reg_count"}}
Leaving == {th \in Threads : pc[th] \in {"unreg_config", "unreg_count"}}
CounterInv == active + Cardinality(Joining) = Cardinality(plugins) + Cardinality(Leaving)

\* As long as no unregister has met a write of the same name, a call that
\* writes has its plugin, one that unregisters has not, and where the maps
\* differ somebody is about to put them right.
UnracedInv ==
  ~raced =>
    /\ \A th \in Threads : pc[th] \in Unregistering => name[th] \notin plugins
    /\ \A th \in Threads : pc[th] \in Adding \union {"conf_insert"} => name[th] \in plugins
    /\ \A th \in Threads : pc[th] = "detect_store" => name[th] \in plugins \union {NoLanguage}
    /\ \A n \in configs \ plugins : \E th \in Threads : pc[th] = "unreg_config" /\ name[th] = n
    /\ \A n \in plugins \ configs : \E th \in Threads : pc[th] \in Adding /\ name[th] = n
    /\ \A f \in Files : \/ detection[f] \in plugins \union {NoLanguage, NotCached}
                        \/ \E th \in Threads : pc[th] \in Unregistering /\ name[th] = detection[f]

\* The least recently used entry made room, and no language is there twice.
ResultsInv == results \in Seq(Names) /\ Len(results) <= Capacity /\ IsInjective(results)

ManagerInv ==
  /\ environments \subseteq Names /\ dirs \subseteq Names /\ deleted \subseteq Names
  /\ environments \subseteq dirs \union deleted

RegistryInv == RegistryTypes /\ CounterInv /\ UnracedInv /\ ResultsInv /\ ManagerInv


\* A call goes on: where it is counted changes by one at most.
LEMMA Counting ==
  ASSUME NEW A \in SUBSET Threads, NEW B \in SUBSET Threads, NEW th \in Threads,
         \A u \in Threads \ {th} : u \in A <=> u \in B
  PROVE  /\ Cardinality(A) \in Nat /\ Cardinality(B) \in Nat
         /\ (th \in A <=> th \in B) => Cardinality(B) = Cardinality(A)
         /\ th \notin A /\ th \in B => Cardinality(B) = Cardinality(A) + 1
         /\ th \in A /\ th \notin B => Cardinality(B) = Cardinality(A) - 1
<1>1. /\ IsFiniteSet(A) /\ IsFiniteSet(B)
      /\ Cardinality(A) \in Nat /\ Cardinality(B) \in Nat
  BY RegistryAssumption, FS_Subset, FS_CardinalityType
<1>2. (th \in A <=> th \in B) => B = A
  OBVIOUS
<1>3. th \notin A /\ th \in B => B = A \union {th}
  OBVIOUS
<1>4. th \in A /\ th \notin B => B = A \ {th}
  OBVIOUS
<1> QED
  BY <1>1, <1>2, <1>3, <1>4, FS_AddElement, FS_RemoveElement

\* The calls, and what else may happen.
Begins(th) ==
  \/ \E n \in Names : Register(th, n) \/ Unregister(th, n) \/ Configure(th, n) \/ Execute(th, n)
  \/ \E f \in Files : Detect(th, f)
GoesOn(th) ==
  DetectStore(th) \/ RegisterConfig(th) \/ RegisterCount(th) \/ UnregisterConfig(th)
  \/ UnregisterCount(th) \/ UnregisterCache(th) \/ ConfigureInsert(th) \/ Prepare(th) \/ CacheResult(th)
Around == ClearCache \/ \E n \in Names : Destroy(n) \/ Warm(n) \/ DeleteDir(n)

\* Every step of the registry is one of these.
LEMMA RegistryCases ==
  ASSUME RegistryNext
  PROVE  (\E th \in Threads : Begins(th) \/ GoesOn(th)) \/ Around
BY DEF RegistryNext, Begins, GoesOn, Around, LoadBuiltin

\* Types are kept.
LEMMA RegistryTypesKept ==
  ASSUME RegistryTypes, RegistryNext
  PROVE  RegistryTypes'
<1> USE DEF RegistryTypes, Pcs, Unregistering, Writing, Adding, Goto, Enter
<1>1. ASSUME NEW th \in Threads, NEW n \in Names, Register(th, n) PROVE RegistryTypes'
  BY <1>1 DEF Register
<1>2. ASSUME NEW th \in Threads, NEW n \in Names, Unregister(th, n) PROVE RegistryTypes'
  BY <1>2 DEF Unregister
<1>3. ASSUME NEW th \in Threads, NEW n \in Names, Configure(th, n) PROVE RegistryTypes'
  BY <1>3 DEF Configure
<1>4. ASSUME NEW th \in Threads, NEW n \in Names, Execute(th, n) PROVE RegistryTypes'
  BY <1>4 DEF Execute
<1>5. ASSUME NEW th \in Threads, NEW f \in Files, Detect(th, f) PROVE RegistryTypes'
  BY <1>5 DEF Detect, DetectUncached
<1>6. ASSUME NEW th \in Threads, DetectStore(th) PROVE RegistryTypes'
  <2>1. found[th] \in Files \X (Names \union {NoLanguage})
    BY <1>6 DEF DetectStore
  <2>2. detection' \in [Files -> Names \union {NoLanguage, NotCached}]
    BY <1>6, <2>1 DEF DetectStore
  <2> QED
    BY <1>6, <2>2 DEF DetectStore, registry, manager
<1>7. ASSUME NEW th \in Threads, RegisterConfig(th) PROVE RegistryTypes'
  BY <1>7 DEF RegisterConfig
<1>8. ASSUME NEW th \in Threads, RegisterCount(th) PROVE RegistryTypes'
  BY <1>8 DEF RegisterCount
<1>9. ASSUME NEW th \in Threads, UnregisterConfig(th) PROVE RegistryTypes'
  BY <1>9 DEF UnregisterConfig
<1>10. ASSUME NEW th \in Threads, UnregisterCount(th) PROVE RegistryTypes'
  BY <1>10 DEF UnregisterCount
<1>11. ASSUME NEW th \in Threads, UnregisterCache(th) PROVE RegistryTypes'
  BY <1>11 DEF UnregisterCache
<1>12. ASSUME NEW th \in Threads, ConfigureInsert(th) PROVE RegistryTypes'
  BY <1>12 DEF ConfigureInsert
<1>13. ASSUME NEW th \in Threads, Prepare(th) PROVE RegistryTypes'
  BY <1>13 DEF Prepare, registry
<1>14. ASSUME NEW th \in Threads, CacheResult(th) PROVE RegistryTypes'
  BY <1>14 DEF CacheResult, registry
<1>15. CASE Around
  BY <1>15 DEF Around, ClearCache, Destroy, Warm, DeleteDir, registry
<1> QED
  BY <1>1, <1>2, <1>3, <1>4, <1>5, <1>6, <1>7, <1>8, <1>9, <1>10, <1>11, <1>12, <1>13, <1>14, <1>15,
     RegistryCases DEF Begins, GoesOn

\* A call goes on: where it is counted follows from where it was and where it gets.
LEMMA Recount ==
  ASSUME NEW th \in Threads, \A u \in Threads \ {th} : pc'[u] = pc[u]
  PROVE  /\ Cardinality(Joining) \in Nat /\ Cardinality(Leaving) \in Nat
         /\ (pc[th] \in {"reg_config", "reg_count"} <=> pc'[th] \in {"reg_config", "reg_count"})
              => Cardinality(Joining') = Cardinality(Joining)
         /\ pc[th] \notin {"reg_config", "reg_count"} /\ pc'[th] \in {"reg_config", "reg_count"}
              => Cardinality(Joining') = Cardinality(Joining) + 1
         /\ pc[th] \in {"reg_config", "reg_count"} /\ pc'[th] \notin {"reg_config", "reg_count"}
              => Cardinality(Joining') = Cardinality(Joining) - 1
         /\ (pc[th] \in {"unreg_config", "unreg_count"} <=> pc'[th] \in {"unreg_config", "unreg_count"})
              => Cardinality(Leaving') = Cardinality(Leaving)
         /\ pc[th] \notin {"unreg_config", "unreg_count"} /\ pc'[th] \in {"unreg_config", "unreg_count"}
              => Cardinality(Leaving') = Cardinality(Leaving) + 1
         /\ pc[th] \in {"unreg_config", "unreg_count"} /\ pc'[th] \notin {"unreg_config", "unreg_count"}
              => Cardinality(Leaving') = Cardinality(Leaving) - 1
<1>1. /\ Joining \in SUBSET Threads /\ Joining' \in SUBSET Threads
      /\ Leaving \in SUBSET Threads /\ Leaving' \in SUBSET Threads
  BY DEF Joining, Leaving
<1>2. /\ \A u \in Threads \ {th} : u \in Joining <=> u \in Joining'
      /\ th \in Joining <=> pc[th] \in {"reg_config", "reg_count"}
      /\ th \in Joining' <=> pc'[th] \in {"reg_config", "reg_count"}
  BY DEF Joining
<1>3. /\ \A u \in Threads \ {th} : u \in Leaving <=> u \in Leaving'
      /\ th \in Leaving <=> pc[th] \in {"unreg_config", "unreg_count"}
      /\ th \in Leaving' <=> pc'[th] \in {"unreg_config", "unreg_count"}
  BY DEF Leaving
<1> HIDE DEF Joining, Leaving
<1>4. /\ Cardinality(Joining) \in Nat
      /\ (th \in Joining <=> th \in Joining') => Cardinality(Joining') = Cardinality(Joining)
      /\ th \notin Joining /\ th \in Joining' => Cardinality(Joining') = Cardinality(Joining) + 1
      /\ th \in Joining /\ th \notin Joining' => Cardinality(Joining') = Cardinality(Joining) - 1
  BY <1>1, <1>2, Counting
<1>5. /\ Cardinality(Leaving) \in Nat
      /\ (th \in Leaving <=> th \in Leaving') => Cardinality(Leaving') = Cardinality(Leaving)
      /\ th \notin Leaving /\ th \in Leaving' => Cardinality(Leaving') = Cardinality(Leaving) + 1
      /\ th \in Leaving /\ th \notin Leaving' => Cardinality(Leaving') = Cardinality(Leaving) - 1
  BY <1>1, <1>3, Counting
<1> QED
  BY <1>2, <1>3, <1>4, <1>5

\* The counter is kept.
LEMMA CounterKept ==
  ASSUME RegistryTypes, CounterInv, RegistryNext
  PROVE  CounterInv'
<1>1. /\ IsFiniteSet(plugins) /\ Cardinality(plugins) \in Nat /\ active \in Int
      /\ pc \in [Threads -> Pcs]
      /\ active + Cardinality(Joining) = Cardinality(plugins) + Cardinality(Leaving)
  BY RegistryAssumption, FS_Subset, FS_CardinalityType DEF RegistryTypes, CounterInv
<1> USE DEF Goto, Enter, CounterInv
<1>3. ASSUME NEW th \in Threads, NEW n \in Names, Register(th, n) PROVE CounterInv'
  <2>1. CASE n \in plugins
    <3>1. plugins' = plugins /\ active' = active /\ pc' = [pc EXCEPT ![th] = "reg_config_old"] /\ pc[th] = "idle"
      BY <1>3, <2>1 DEF Register
    <3>9. Cardinality(Joining') = Cardinality(Joining) /\ Cardinality(Leaving') = Cardinality(Leaving)
         /\ Cardinality(Joining) \in Nat /\ Cardinality(Leaving) \in Nat
      BY <1>1, <3>1, Recount
    <3> QED
      BY <1>1, <3>1, <3>9
  <2>2. CASE n \notin plugins
    <3>1. /\ plugins' = plugins \union {n} /\ active' = active
          /\ pc' = [pc EXCEPT ![th] = "reg_config"] /\ pc[th] = "idle"
      BY <1>3, <2>2 DEF Register
    <3>2. Cardinality(plugins') = Cardinality(plugins) + 1
      BY <1>1, <2>2, <3>1, FS_AddElement
    <3>9. Cardinality(Joining') = Cardinality(Joining) + 1 /\ Cardinality(Leaving') = Cardinality(Leaving)
         /\ Cardinality(Joining) \in Nat /\ Cardinality(Leaving) \in Nat
      BY <1>1, <3>1, Recount
    <3> QED
      BY <1>1, <3>1, <3>2, <3>9
  <2> QED
    BY <2>1, <2>2
<1>4. ASSUME NEW th \in Threads, NEW n \in Names, Unregister(th, n) PROVE CounterInv'
  <2>1. /\ plugins' = plugins \ {n} /\ n \in plugins /\ active' = active
        /\ pc' = [pc EXCEPT ![th] = "unreg_config"] /\ pc[th] = "idle"
    BY <1>4 DEF Unregister
  <2>2. Cardinality(plugins') = Cardinality(plugins) - 1
    BY <1>1, <2>1, FS_RemoveElement
  <2>9. Cardinality(Joining') = Cardinality(Joining) /\ Cardinality(Leaving') = Cardinality(Leaving) + 1
       /\ Cardinality(Joining) \in Nat /\ Cardinality(Leaving) \in Nat
    BY <1>1, <2>1, Recount
  <2> QED
    BY <1>1, <2>1, <2>2, <2>9
<1>5. ASSUME NEW th \in Threads, NEW n \in Names, Configure(th, n) \/ Execute(th, n) PROVE CounterInv'
  <2>1. /\ UNCHANGED <<plugins, active>> /\ pc[th] = "idle"
        /\ (pc' = [pc EXCEPT ![th] = "conf_insert"] \/ pc' = [pc EXCEPT ![th] = "prepare"])
    BY <1>5 DEF Configure, Execute
  <2>9. Cardinality(Joining') = Cardinality(Joining) /\ Cardinality(Leaving') = Cardinality(Leaving)
       /\ Cardinality(Joining) \in Nat /\ Cardinality(Leaving) \in Nat
    BY <1>1, <2>1, Recount
  <2> QED
    BY <1>1, <2>1, <2>9
<1>6. ASSUME NEW th \in Threads, NEW f \in Files, Detect(th, f) PROVE CounterInv'
  <2>1. UNCHANGED <<plugins, active>> /\ pc[th] = "idle" /\ pc' = [pc EXCEPT ![th] = "detect_store"]
    BY <1>6 DEF Detect
  <2>9. Cardinality(Joining') = Cardinality(Joining) /\ Cardinality(Leaving') = Cardinality(Leaving)
       /\ Cardinality(Joining) \in Nat /\ Cardinality(Leaving) \in Nat
    BY <1>1, <2>1, Recount
  <2> QED
    BY <1>1, <2>1, <2>9
<1>7. ASSUME NEW th \in Threads, RegisterConfig(th) PROVE CounterInv'
  <2>1. UNCHANGED <<plugins, active>>
    BY <1>7 DEF RegisterConfig
  <2>2. CASE pc[th] = "reg_config"
    <3>1. pc' = [pc EXCEPT ![th] = "reg_count"]
      BY <1>7, <2>2 DEF RegisterConfig
    <3>9. Cardinality(Joining') = Cardinality(Joining) /\ Cardinality(Leaving') = Cardinality(Leaving)
      BY <1>1, <2>2, <3>1, Recount
    <3> QED
      BY <1>1, <2>1, <3>9
  <2>3. CASE pc[th] = "reg_config_old"
    <3>1. pc' = [pc EXCEPT ![th] = "idle"]
      BY <1>7, <2>3 DEF RegisterConfig
    <3>9. Cardinality(Joining') = Cardinality(Joining) /\ Cardinality(Leaving') = Cardinality(Leaving)
      BY <1>1, <2>3, <3>1, Recount
    <3> QED
      BY <1>1, <2>1, <3>9
  <2> QED
    BY <1>7, <2>2, <2>3 DEF RegisterConfig
<1>8. ASSUME NEW th \in Threads, RegisterCount(th) PROVE CounterInv'
  <2>1. plugins' = plugins /\ active' = active + 1 /\ pc[th] = "reg_count" /\ pc' = [pc EXCEPT ![th] = "idle"]
    BY <1>8 DEF RegisterCount
  <2>9. Cardinality(Joining') = Cardinality(Joining) - 1 /\ Cardinality(Leaving') = Cardinality(Leaving)
       /\ Cardinality(Joining) \in Nat /\ Cardinality(Leaving) \in Nat
    BY <1>1, <2>1, Recount
  <2> QED
    BY <1>1, <2>1, <2>9
<1>9. ASSUME NEW th \in Threads, UnregisterConfig(th) PROVE CounterInv'
  <2>1. UNCHANGED <<plugins, active>> /\ pc[th] = "unreg_config" /\ pc' = [pc EXCEPT ![th] = "unreg_count"]
    BY <1>9 DEF UnregisterConfig
  <2>9. Cardinality(Joining') = Cardinality(Joining) /\ Cardinality(Leaving') = Cardinality(Leaving)
       /\ Cardinality(Joining) \in Nat /\ Cardinality(Leaving) \in Nat
    BY <1>1, <2>1, Recount
  <2> QED
    BY <1>1, <2>1, <2>9
<1>10. ASSUME NEW th \in Threads, UnregisterCount(th) PROVE CounterInv'
  <2>1. /\ plugins' = plugins /\ active' = active - 1
        /\ pc[th] = "unreg_count" /\ pc' = [pc EXCEPT ![th] = "unreg_cache"]
    BY <1>10 DEF UnregisterCount
  <2>9. Cardinality(Joining') = Cardinality(Joining) /\ Cardinality(Leaving') = Cardinality(Leaving) - 1
       /\ Cardinality(Joining) \in Nat /\ Cardinality(Leaving) \in Nat
    BY <1>1, <2>1, Recount
  <2> QED
    BY <1>1, <2>1, <2>9
<1>11. ASSUME NEW th \in Threads, UnregisterCache(th) \/ ConfigureInsert(th) \/ DetectStore(th)
                                   \/ Prepare(th) \/ CacheResult(th)
       PROVE  CounterInv'
  <2>1. /\ UNCHANGED <<plugins, active>>
        /\ pc[th] \in {"unreg_cache", "conf_insert", "detect_store", "prepare", "execute"}
        /\ pc' = [pc EXCEPT ![th] = "idle"] \/ pc' = [pc EXCEPT ![th] = "execute"]
    BY <1>11 DEF UnregisterCache, ConfigureInsert, DetectStore, Prepare, CacheResult, registry
  <2>9. Cardinality(Joining') = Cardinality(Joining) /\ Cardinality(Leaving') = Cardinality(Leaving)
       /\ Cardinality(Joining) \in Nat /\ Cardinality(Leaving) \in Nat
    BY <1>1, <2>1, Recount
  <2> QED
    BY <1>1, <2>1, <2>9
<1>12. CASE Around
  BY <1>1, <1>12 DEF Around, ClearCache, Destroy, Warm, DeleteDir, registry, Joining, Leaving
<1> QED
  BY <1>3, <1>4, <1>5, <1>6, <1>7, <1>8, <1>9, <1>10, <1>11, <1>12, RegistryCases DEF Begins, GoesOn


\* What is known while no unregister has met a write of the same name.
Calm ==
  /\ \A th \in Threads : pc[th] \in Unregistering => name[th] \notin plugins
  /\ \A th \in Threads : pc[th] \in Adding \union {"conf_insert"} => name[th] \in plugins
  /\ \A th \in Threads : pc[th] = "detect_store" => name[th] \in plugins \union {NoLanguage}
ConfigsCalm ==
  /\ \A n \in configs \ plugins : \E th \in Threads : pc[th] = "unreg_config" /\ name[th] = n
  /\ \A n \in plugins \ configs : \E th \in Threads : pc[th] \in Adding /\ name[th] = n
DetectionCalm ==
  \A f \in Files : \/ detection[f] \in plugins \union {NoLanguage, NotCached}
                   \/ \E th \in Threads : pc[th] \in Unregistering /\ name[th] = detection[f]

\* A call that begins calmly has met no call about its name that it may not meet.
LEMMA EntersCalmly ==
  ASSUME RegistryTypes, NEW th \in Threads, NEW n \in Names \union {NoLanguage}, NEW l \in Pcs, NEW mine,
         Enter(th, n, l, mine), ~raced'
  PROVE  /\ ~raced /\ pc[th] = "idle" /\ pc'[th] = l /\ name'[th] = n
         /\ \A u \in Threads \ {th} : pc'[u] = pc[u] /\ name'[u] = name[u]
         /\ \A u \in Threads \ {th} : name[u] = n => pc[u] \notin mine
BY DEF RegistryTypes, Enter, Goto

\* A call goes on without touching anything but its place.
LEMMA GoesCalmly ==
  ASSUME RegistryTypes, NEW th \in Threads, NEW l, Goto(th, l), UNCHANGED <<name, raced>>
  PROVE  /\ pc'[th] = l /\ name' = name /\ raced' = raced
         /\ \A u \in Threads \ {th} : pc'[u] = pc[u]
BY DEF RegistryTypes, Goto

\* Register, calmly.
LEMMA RegisterCalm ==
  ASSUME RegistryTypes, UnracedInv, NEW th \in Threads, NEW n \in Names, Register(th, n), ~raced'
  PROVE  Calm' /\ ConfigsCalm' /\ DetectionCalm'
<1> DEFINE l == IF n \in plugins THEN "reg_config_old" ELSE "reg_config"
<1>1. /\ l \in Adding /\ l \in Pcs
      /\ Enter(th, n, l, Unregistering)
      /\ plugins' = plugins \union {n} /\ UNCHANGED <<configs, detection>>
  BY DEF Register, Adding, Pcs
<1> HIDE DEF l
<1>2. /\ ~raced /\ pc[th] = "idle" /\ pc'[th] = l /\ name'[th] = n
      /\ \A u \in Threads \ {th} : pc'[u] = pc[u] /\ name'[u] = name[u]
      /\ \A u \in Threads \ {th} : name[u] = n => pc[u] \notin Unregistering
  BY <1>1, EntersCalmly
<1>3. l \notin Unregistering /\ l # "detect_store"
  BY <1>1 DEF Adding, Unregistering
<1>4. Calm /\ ConfigsCalm /\ DetectionCalm
  BY <1>2 DEF UnracedInv, Calm, ConfigsCalm, DetectionCalm
<1>5. Calm'
  BY <1>1, <1>2, <1>3, <1>4 DEF Calm
<1>6. ConfigsCalm'
  BY <1>1, <1>2, <1>4 DEF ConfigsCalm, Adding
<1>7. DetectionCalm'
  BY <1>1, <1>2, <1>4 DEF DetectionCalm, Unregistering
<1> QED
  BY <1>5, <1>6, <1>7

\* Unregister, calmly.
LEMMA UnregisterCalm ==
  ASSUME RegistryTypes, UnracedInv, NEW th \in Threads, NEW n \in Names, Unregister(th, n), ~raced'
  PROVE  Calm' /\ ConfigsCalm' /\ DetectionCalm'
<1>1. /\ Enter(th, n, "unreg_config", Writing \union {"reg_config_old"}) /\ "unreg_config" \in Pcs
      /\ plugins' = plugins \ {n} /\ UNCHANGED <<configs, detection>>
  BY DEF Unregister, Pcs, Unregistering
<1>2. /\ ~raced /\ pc[th] = "idle" /\ pc'[th] = "unreg_config" /\ name'[th] = n
      /\ \A u \in Threads \ {th} : pc'[u] = pc[u] /\ name'[u] = name[u]
      /\ \A u \in Threads \ {th} : name[u] = n => pc[u] \notin Writing \union {"reg_config_old"}
  BY <1>1, EntersCalmly
<1>4. Calm /\ ConfigsCalm /\ DetectionCalm
  BY <1>2 DEF UnracedInv, Calm, ConfigsCalm, DetectionCalm
<1>5. Calm'
  BY <1>1, <1>2, <1>4 DEF Calm, Unregistering, Adding, Writing
<1>6. ConfigsCalm'
  BY <1>1, <1>2, <1>4 DEF ConfigsCalm, Adding, Writing
<1>7. DetectionCalm'
  BY <1>1, <1>2, <1>4 DEF DetectionCalm, Unregistering
<1> QED
  BY <1>5, <1>6, <1>7

\* The other calls that begin, calmly.
LEMMA BeginsCalm ==
  ASSUME RegistryTypes, UnracedInv, NEW th \in Threads, ~raced',
         NEW n \in Names \union {NoLanguage}, NEW l \in {"conf_insert", "prepare", "detect_store"}, NEW mine,
         Enter(th, n, l, mine), UNCHANGED <<plugins, configs, detection>>,
         l # "prepare" => n \in plugins \/ (l = "detect_store" /\ n = NoLanguage)
  PROVE  Calm' /\ ConfigsCalm' /\ DetectionCalm'
<1>1. l \in Pcs
  BY DEF Pcs, Writing
<1>2. /\ ~raced /\ pc[th] = "idle" /\ pc'[th] = l /\ name'[th] = n
      /\ \A u \in Threads \ {th} : pc'[u] = pc[u] /\ name'[u] = name[u]
  BY <1>1, EntersCalmly
<1>4. Calm /\ ConfigsCalm /\ DetectionCalm
  BY <1>2 DEF UnracedInv, Calm, ConfigsCalm, DetectionCalm
<1>5. Calm'
  BY <1>1, <1>2, <1>4 DEF Calm, Unregistering, Adding
<1>6. ConfigsCalm'
  BY <1>1, <1>2, <1>4 DEF ConfigsCalm, Adding
<1>7. DetectionCalm'
  BY <1>1, <1>2, <1>4 DEF DetectionCalm, Unregistering
<1> QED
  BY <1>5, <1>6, <1>7

\* The maps stay explained.
LEMMA UnracedKept ==
  ASSUME RegistryTypes, UnracedInv, RegistryNext
  PROVE  UnracedInv'
<1> SUFFICES ASSUME ~raced' PROVE Calm' /\ ConfigsCalm' /\ DetectionCalm'
  BY DEF UnracedInv, Calm, ConfigsCalm, DetectionCalm
<1>1. ASSUME NEW th \in Threads, Begins(th) PROVE Calm' /\ ConfigsCalm' /\ DetectionCalm'
  <2>1. ASSUME NEW n \in Names, Register(th, n) \/ Unregister(th, n)
        PROVE  Calm' /\ ConfigsCalm' /\ DetectionCalm'
    BY <2>1, RegisterCalm, UnregisterCalm
  <2>2. ASSUME NEW n \in Names, Configure(th, n) PROVE Calm' /\ ConfigsCalm' /\ DetectionCalm'
    <3>1. Enter(th, n, "conf_insert", Unregistering) /\ UNCHANGED <<plugins, configs, detection>> /\ n \in plugins
      BY <2>2 DEF Configure
    <3> QED
      BY <3>1, BeginsCalm
  <2>3. ASSUME NEW n \in Names, Execute(th, n) PROVE Calm' /\ ConfigsCalm' /\ DetectionCalm'
    <3>1. Enter(th, n, "prepare", {}) /\ UNCHANGED <<plugins, configs, detection>> /\ n \in plugins
      BY <2>3 DEF Execute
    <3> QED
      BY <3>1, BeginsCalm
  <2>4. ASSUME NEW f \in Files, Detect(th, f) PROVE Calm' /\ ConfigsCalm' /\ DetectionCalm'
    <3>1. PICK n \in DetectUncached : Enter(th, n, "detect_store", Unregistering)
      BY <2>4 DEF Detect
    <3>2. n \in plugins \/ n = NoLanguage
      BY <3>1 DEF DetectUncached
    <3>3. UNCHANGED <<plugins, configs, detection>> /\ n \in Names \union {NoLanguage}
      BY <2>4, <3>2 DEF Detect, RegistryTypes
    <3> QED
      BY <3>1, <3>2, <3>3, BeginsCalm
  <2> QED
    BY <1>1, <2>1, <2>2, <2>3, <2>4 DEF Begins
<1>2. ASSUME NEW th \in Threads, GoesOn(th) PROVE Calm' /\ ConfigsCalm' /\ DetectionCalm'
  <2>1. UNCHANGED <<name, raced, plugins>>
    BY <1>2 DEF GoesOn, DetectStore, RegisterConfig, RegisterCount, UnregisterConfig, UnregisterCount,
            UnregisterCache, ConfigureInsert, Prepare, CacheResult, registry
  <2>2. Calm /\ ConfigsCalm /\ DetectionCalm
    BY <2>1 DEF UnracedInv, Calm, ConfigsCalm, DetectionCalm
  <2>3. CASE DetectStore(th)
    <3>1. /\ pc[th] = "detect_store" /\ pc'[th] = "idle" /\ configs' = configs
          /\ \A u \in Threads \ {th} : pc'[u] = pc[u]
      BY <2>3 DEF DetectStore, Goto, RegistryTypes
    <3>2. found[th][2] = name[th] /\ name[th] \in plugins \union {NoLanguage}
      BY <2>2, <3>1 DEF Calm, RegistryTypes
    <3>3. \A f \in Files : detection'[f] = detection[f] \/ detection'[f] = name[th]
      BY <2>3, <3>2 DEF DetectStore, RegistryTypes
    <3>4. Calm' /\ ConfigsCalm'
      BY <2>1, <2>2, <3>1 DEF Calm, ConfigsCalm, Unregistering, Adding
    <3>5. DetectionCalm'
      BY <2>1, <2>2, <3>1, <3>2, <3>3 DEF DetectionCalm, Unregistering
    <3> QED
      BY <3>4, <3>5
  <2>4. CASE RegisterConfig(th) \/ ConfigureInsert(th)
    <3>1. /\ pc[th] \in Adding \union {"conf_insert"} /\ pc'[th] \in {"reg_count", "idle"}
          /\ configs' = configs \union {name[th]} /\ detection' = detection
          /\ \A u \in Threads \ {th} : pc'[u] = pc[u]
      BY <2>4 DEF RegisterConfig, ConfigureInsert, Goto, RegistryTypes, Adding
    <3>2. name[th] \in plugins
      BY <2>2, <3>1 DEF Calm
    <3>3. Calm'
      BY <2>1, <2>2, <3>1 DEF Calm, Unregistering, Adding
    <3>4. ConfigsCalm'
      BY <2>1, <2>2, <3>1, <3>2 DEF ConfigsCalm, Adding
    <3>5. DetectionCalm'
      BY <2>1, <2>2, <3>1 DEF DetectionCalm, Unregistering, Adding
    <3> QED
      BY <3>3, <3>4, <3>5
  <2>5. CASE UnregisterConfig(th)
    <3>1. /\ pc[th] = "unreg_config" /\ pc'[th] = "unreg_count"
          /\ configs' = configs \ {name[th]} /\ detection' = detection
          /\ \A u \in Threads \ {th} : pc'[u] = pc[u]
      BY <2>5 DEF UnregisterConfig, Goto, RegistryTypes
    <3>2. name[th] \notin plugins
      BY <2>2, <3>1 DEF Calm, Unregistering
    <3>3. Calm'
      BY <2>1, <2>2, <3>1 DEF Calm, Unregistering, Adding
    <3>4. ConfigsCalm'
      BY <2>1, <2>2, <3>1, <3>2 DEF ConfigsCalm, Adding
    <3>5. DetectionCalm'
      BY <2>1, <2>2, <3>1 DEF DetectionCalm, Unregistering
    <3> QED
      BY <3>3, <3>4, <3>5
  <2>6. CASE UnregisterCache(th)
    <3>1. /\ pc[th] = "unreg_cache" /\ pc'[th] = "idle" /\ configs' = configs
          /\ \A u \in Threads \ {th} : pc'[u] = pc[u]
          /\ detection' = [f \in Files |-> IF detection[f] = name[th] THEN NotCached ELSE detection[f]]
      BY <2>6 DEF UnregisterCache, Goto, RegistryTypes
    <3>2. Calm' /\ ConfigsCalm'
      BY <2>1, <2>2, <3>1 DEF Calm, ConfigsCalm, Unregistering, Adding
    <3>3. \A f \in Files : detection'[f] = NotCached \/ (detection'[f] = detection[f] /\ detection[f] # name[th])
      BY <3>1
    <3>4. DetectionCalm'
      BY <2>1, <2>2, <3>1, <3>3 DEF DetectionCalm, Unregistering
    <3> QED
      BY <3>2, <3>4
  <2>7. CASE RegisterCount(th) \/ UnregisterCount(th) \/ Prepare(th) \/ CacheResult(th)
    <3>1. /\ pc[th] \in {"reg_count", "unreg_count", "prepare", "execute"}
          /\ \/ pc[th] # "unreg_count" /\ pc'[th] \in {"idle", "execute"}
             \/ pc[th] = "unreg_count" /\ pc'[th] = "unreg_cache"
          /\ UNCHANGED <<configs, detection>>
          /\ \A u \in Threads \ {th} : pc'[u] = pc[u]
      BY <2>7 DEF RegisterCount, UnregisterCount, Prepare, CacheResult, registry, Goto, RegistryTypes
    <3>2. Calm' /\ ConfigsCalm'
      BY <2>1, <2>2, <3>1 DEF Calm, ConfigsCalm, Unregistering, Adding
    <3>3. DetectionCalm'
      BY <2>1, <2>2, <3>1 DEF DetectionCalm, Unregistering
    <3> QED
      BY <3>2, <3>3
  <2> QED
    BY <1>2, <2>3, <2>4, <2>5, <2>6, <2>7 DEF GoesOn
<1>3. CASE Around
  <2>1. /\ UNCHANGED <<plugins, configs, pc, name, raced>>
        /\ \A f \in Files : detection'[f] = detection[f] \/ detection'[f] = NotCached
    BY <1>3 DEF Around, ClearCache, Destroy, Warm, DeleteDir, registry
  <2>2. Calm /\ ConfigsCalm /\ DetectionCalm
    BY <2>1 DEF UnracedInv, Calm, ConfigsCalm, DetectionCalm
  <2> QED
    BY <2>1, <2>2 DEF Calm, ConfigsCalm, DetectionCalm
<1> QED
  BY <1>1, <1>2, <1>3, RegistryCases


\* The execution cache keeps one entry per name, within its capacity.
LEMMA ResultsKept ==
  ASSUME RegistryTypes, ResultsInv, RegistryNext
  PROVE  ResultsInv'
<1>1. ASSUME NEW th \in Threads, CacheResult(th) PROVE ResultsInv'
  <2> DEFINE n == name[th]
             Hit == \E i \in DOMAIN results : results[i] = n
             i0 == CHOOSE i \in DOMAIN results : results[i] = n
             rest == IF Hit THEN RemoveAt(results, i0) ELSE results
             kept == IF Len(rest) = Capacity THEN Tail(rest) ELSE rest
  <2>1. n \in Names /\ results' = Append(kept, n) /\ Capacity \in Nat \ {0}
    BY <1>1, RegistryAssumption DEF CacheResult, RegistryTypes
  <2>2. /\ results \in Seq(Names) /\ Len(results) <= Capacity
        /\ \A i, j \in 1 .. Len(results) : results[i] = results[j] => i = j
    BY DEF ResultsInv, IsInjective
  <2>3. /\ rest \in Seq(Names) /\ Len(rest) <= Capacity
        /\ \A i, j \in 1 .. Len(rest) : rest[i] = rest[j] => i = j
        /\ \A i \in 1 .. Len(rest) : rest[i] # n
    <3>1. CASE Hit
      <4>1. i0 \in 1 .. Len(results) /\ results[i0] = n
        BY <2>2, <3>1
      <4> HIDE DEF i0
      <4>2. rest = SubSeq(results, 1, i0 - 1) \o SubSeq(results, i0 + 1, Len(results))
        BY <3>1 DEF RemoveAt
      <4>3. /\ rest \in Seq(Names) /\ Len(rest) = Len(results) - 1
            /\ \A j \in 1 .. Len(rest) : rest[j] = IF j < i0 THEN results[j] ELSE results[j + 1]
        <5> DEFINE a == SubSeq(results, 1, i0 - 1)
                   b == SubSeq(results, i0 + 1, Len(results))
        <5>1. /\ a \in Seq(Names) /\ Len(a) = i0 - 1
              /\ \A j \in 1 .. i0 - 1 : a[j] = results[j]
          BY <2>2, <4>1
        <5>2. /\ b \in Seq(Names) /\ Len(b) = Len(results) - i0
              /\ \A j \in 1 .. Len(results) - i0 : b[j] = results[i0 + j]
          BY <2>2, <4>1
        <5> HIDE DEF a, b
        <5>3. rest = a \o b
          BY <4>2 DEF a, b
        <5>4. Len(results) \in Nat /\ i0 \in Nat /\ i0 >= 1 /\ i0 <= Len(results)
          BY <2>2, <4>1
        <5>5. /\ rest \in Seq(Names) /\ Len(rest) = Len(results) - 1
              /\ \A j \in 1 .. Len(a) + Len(b) : rest[j] = IF j <= Len(a) THEN a[j] ELSE b[j - Len(a)]
          <6>1. /\ a \o b \in Seq(Names) /\ Len(a \o b) = Len(a) + Len(b)
                /\ \A j \in 1 .. Len(a) + Len(b) : (a \o b)[j] = IF j <= Len(a) THEN a[j] ELSE b[j - Len(a)]
            BY <5>1, <5>2, ConcatProperties
          <6>2. Len(a) + Len(b) = Len(results) - 1
            BY <5>1, <5>2, <5>4
          <6> HIDE DEF rest
          <6> QED
            BY <5>3, <6>1, <6>2
        <5>6. ASSUME NEW j \in 1 .. Len(rest) PROVE rest[j] = IF j < i0 THEN results[j] ELSE results[j + 1]
          <6>1. CASE j < i0
            BY <5>1, <5>2, <5>4, <5>5, <6>1, SMTT(40)
          <6>2. CASE j >= i0
            <7>0. /\ j \in 1 .. Len(a) + Len(b) /\ ~(j <= Len(a))
                  /\ j - (i0 - 1) \in 1 .. Len(results) - i0
              BY <5>1, <5>2, <5>4, <5>5, <6>2
            <7>1. rest[j] = b[j - (i0 - 1)] /\ j - (i0 - 1) \in 1 .. Len(results) - i0
              BY <5>1, <5>5, <7>0
            <7>2. i0 + (j - (i0 - 1)) = j + 1
              BY <5>4
            <7> QED
              BY <5>2, <6>2, <5>4, <7>1, <7>2
          <6> QED
            BY <5>4, <6>1, <6>2
        <5> QED
          BY <5>5, <5>6
      <4>4. ASSUME NEW j \in 1 .. Len(rest)
            PROVE  \E k \in 1 .. Len(results) :
                     /\ k # i0 /\ rest[j] = results[k]
                     /\ k = IF j < i0 THEN j ELSE j + 1
        BY <2>2, <4>1, <4>3
      <4>5. \A i, j \in 1 .. Len(rest) : rest[i] = rest[j] => i = j
        <5> SUFFICES ASSUME NEW i \in 1 .. Len(rest), NEW j \in 1 .. Len(rest), rest[i] = rest[j]
                     PROVE  i = j
          OBVIOUS
        <5>1. PICK k \in 1 .. Len(results) : rest[i] = results[k] /\ k # i0 /\ k = IF i < i0 THEN i ELSE i + 1
          BY <4>4
        <5>2. PICK m \in 1 .. Len(results) : rest[j] = results[m] /\ m # i0 /\ m = IF j < i0 THEN j ELSE j + 1
          BY <4>4
        <5>3. k = m
          BY <2>2, <5>1, <5>2
        <5> QED
          BY <2>2, <4>1, <4>3, <5>1, <5>2, <5>3
      <4>6. \A j \in 1 .. Len(rest) : rest[j] # n
        BY <2>2, <4>1, <4>4, SMTT(40)
      <4>7. Len(rest) <= Capacity
        BY <2>1, <2>2, <4>1, <4>3
      <4> QED
        BY <4>3, <4>5, <4>6, <4>7
    <3>2. CASE ~Hit
      BY <2>2, <3>2
    <3> QED
      BY <3>1, <3>2
  <2> HIDE DEF rest
  <2>4. /\ kept \in Seq(Names) /\ Len(kept) < Capacity
        /\ \A i, j \in 1 .. Len(kept) : kept[i] = kept[j] => i = j
        /\ \A i \in 1 .. Len(kept) : kept[i] # n
    <3>1. CASE Len(rest) = Capacity
      <4>1. /\ Tail(rest) \in Seq(Names) /\ Len(Tail(rest)) = Len(rest) - 1
            /\ \A i \in 1 .. Len(rest) - 1 : Tail(rest)[i] = rest[i + 1]
        BY <2>1, <2>3, <3>1
      <4> QED
        BY <2>1, <2>3, <3>1, <4>1
    <3>2. CASE Len(rest) # Capacity
      BY <2>1, <2>3, <3>2
    <3> QED
      BY <3>1, <3>2
  <2> HIDE DEF kept, n
  <2>5. /\ results' \in Seq(Names) /\ Len(results') = Len(kept) + 1
        /\ \A i \in 1 .. Len(kept) : results'[i] = kept[i]
        /\ results'[Len(kept) + 1] = n
    BY <2>1, <2>4
  <2>6. \A i, j \in 1 .. Len(results') : results'[i] = results'[j] => i = j
    BY <2>4, <2>5
  <2> QED
    BY <2>1, <2>4, <2>5, <2>6 DEF ResultsInv, IsInjective
<1>2. ASSUME NEW th \in Threads, Begins(th) \/ GoesOn(th), ~CacheResult(th) PROVE results' = results
  BY <1>2 DEF Begins, GoesOn, Register, Unregister, Configure, Execute, Detect, DetectStore, RegisterConfig,
          RegisterCount, UnregisterConfig, UnregisterCount, UnregisterCache, ConfigureInsert, Prepare
<1>3. Around => results' = results
  BY DEF Around, ClearCache, Destroy, Warm, DeleteDir
<1> QED
  BY <1>1, <1>2, <1>3, RegistryCases DEF GoesOn, ResultsInv

\* An environment in memory has its directory or has lost it to somebody else.
LEMMA ManagerKept ==
  ASSUME RegistryTypes, ManagerInv, RegistryNext
  PROVE  ManagerInv'
<1>1. ASSUME NEW k \in Names, GetOrCreate(k) PROVE ManagerInv'
  BY <1>1 DEF ManagerInv, GetOrCreate, CreateEnvironment, manager
<1>2. ASSUME NEW th \in Threads, Prepare(th) PROVE ManagerInv'
  BY <1>1, <1>2 DEF Prepare, RegistryTypes, EnvironmentKey
<1>3. ASSUME NEW th \in Threads, Begins(th) \/ GoesOn(th), ~Prepare(th) PROVE UNCHANGED manager
  BY <1>3 DEF Begins, GoesOn, Register, Unregister, Configure, Execute, Detect, DetectStore, RegisterConfig,
          RegisterCount, UnregisterConfig, UnregisterCount, UnregisterCache, ConfigureInsert, CacheResult, manager
<1>4. CASE Around
  BY <1>1, <1>4 DEF Around, ClearCache, Destroy, Warm, DeleteDir, ManagerInv, EnvironmentKey, manager
<1> QED
  BY <1>2, <1>3, <1>4, RegistryCases DEF GoesOn, ManagerInv, manager

\* An empty registry, and whatever rows the store has.
LEMMA RegistryStarts == RegistryInit => RegistryInv
<1> SUFFICES ASSUME RegistryInit PROVE RegistryInv
  OBVIOUS
<1>1. RegistryTypes
  <2>1. plugins \subseteq Names /\ configs \subseteq Names /\ active \in Int /\ ops \in Nat
    BY DEF RegistryInit
  <2>6. raced \in BOOLEAN
    BY Zenon DEF RegistryInit
  <2>2. detection \in [Files -> Names \union {NoLanguage, NotCached}]
    BY DEF RegistryInit
  <2>3. pc \in [Threads -> Pcs] /\ \A th \in Threads : pc[th] = "idle"
    BY DEF RegistryInit, Pcs
  <2>4. name \in [Threads -> Names \union {NoLanguage}]
    BY DEF RegistryInit
  <2>5. found \in [Threads -> {<< >>} \union (Files \X (Names \union {NoLanguage}))]
    <3>1. << >> \in {<< >>} \union (Files \X (Names \union {NoLanguage}))
      OBVIOUS
    <3> QED
      BY <3>1, Zenon DEF RegistryInit
  <2> QED
    BY <2>1, <2>2, <2>3, <2>4, <2>5, <2>6 DEF RegistryTypes
<1>2. Joining = {} /\ Leaving = {} /\ plugins = {}
  BY DEF RegistryInit, Joining, Leaving
<1>3. CounterInv
  BY <1>2, FS_EmptySet DEF RegistryInit, CounterInv
<1>4. UnracedInv
  BY DEF RegistryInit, UnracedInv, Unregistering, Adding
<1>5. ResultsInv /\ ManagerInv
  BY RegistryAssumption DEF RegistryInit, ResultsInv, ManagerInv, IsInjective
<1> QED
  BY <1>1, <1>3, <1>4, <1>5 DEF RegistryInv

\* The invariant is inductive.
LEMMA RegistryStepKeeps == RegistryInv /\ [RegistryNext]_registryVars => RegistryInv'
<1> SUFFICES ASSUME RegistryInv, [RegistryNext]_registryVars PROVE RegistryInv'
  OBVIOUS
<1>1. CASE RegistryNext
  BY <1>1, RegistryTypesKept, CounterKept, UnracedKept, ResultsKept, ManagerKept DEF RegistryInv
<1>2. CASE UNCHANGED registryVars
  <2>1. UNCHANGED <<plugins, configs, active, detection, found, raced, environments, dirs, deleted,
                    recorded, results, pc, name, ops>>
    BY <1>2 DEF registryVars, registry, manager
  <2>2. RegistryTypes' /\ UnracedInv' /\ ResultsInv' /\ ManagerInv'
    BY <2>1 DEF RegistryInv, RegistryTypes, UnracedInv, ResultsInv, ManagerInv
  <2>3. CounterInv'
    BY <2>1 DEF RegistryInv, CounterInv, Joining, Leaving
  <2> QED
    BY <2>2, <2>3 DEF RegistryInv
<1> QED
  BY <1>1, <1>2

\* The invariant says what the runs check.
LEMMA RegistryInvSays == RegistryInv => RegistryAgrees
<1> SUFFICES ASSUME RegistryInv PROVE RegistryAgrees
  OBVIOUS
<1>1. RegistryTypeOK
  <2>1. /\ Cardinality(Threads) \in Nat /\ Cardinality(Names) \in Nat
        /\ Cardinality(Joining) \in 0 .. Cardinality(Threads)
        /\ Cardinality(Leaving) \in 0 .. Cardinality(Threads)
        /\ Cardinality(plugins) \in 0 .. Cardinality(Names)
    <3>1. Joining \subseteq Threads /\ Leaving \subseteq Threads /\ plugins \subseteq Names
      BY DEF RegistryInv, RegistryTypes, Joining, Leaving
    <3> HIDE DEF Joining, Leaving
    <3> QED
      BY <3>1, RegistryAssumption, FS_Subset, FS_CardinalityType
  <2>2. active \in -Cardinality(Threads) .. Cardinality(Names) + Cardinality(Threads)
    BY <2>1 DEF RegistryInv, RegistryTypes, CounterInv
  <2> QED
    BY <2>2 DEF RegistryInv, RegistryTypes, ResultsInv, RegistryTypeOK
<1>2. MapsAgree
  <2> SUFFICES ASSUME \A th \in Threads : pc[th] = "idle"
               PROVE  /\ active = Cardinality(plugins)
                      /\ ~raced => /\ configs = plugins
                                   /\ \A f \in Files : detection[f] \in plugins \union {NoLanguage, NotCached}
    BY DEF MapsAgree
  <2>1. Joining = {} /\ Leaving = {}
    BY DEF Joining, Leaving
  <2>2. active = Cardinality(plugins)
    <3>1. Cardinality(plugins) \in Nat
      BY RegistryAssumption, FS_Subset, FS_CardinalityType DEF RegistryInv, RegistryTypes
    <3> QED
      BY <2>1, <3>1, FS_EmptySet DEF RegistryInv, RegistryTypes, CounterInv
  <2> QED
    BY <2>2 DEF RegistryInv, UnracedInv, Adding, Unregistering
<1>3. EnvironmentOnDisk
  BY DEF RegistryInv, ManagerInv, EnvironmentOnDisk
<1> QED
  BY <1>1, <1>2, <1>3 DEF RegistryAgrees

\* Any number of threads in register_plugin, unregister_plugin, configure_plugin
\* and detect_language: when they are done the counter is the number of plugins
\* and, unless an unregister has met another call about the same language, so
\* are the configurations and the cached detections; the environments in memory
\* have their directories unless somebody else has deleted them.
THEOREM RegistryIsSound == RegistryInit /\ [][RegistryNext]_registryVars => []RegistryAgrees
<1>1. RegistryInit => RegistryInv
  BY RegistryStarts
<1>2. RegistryInv /\ [RegistryNext]_registryVars => RegistryInv'
  BY RegistryStepKeeps
<1>3. RegistryInv => RegistryAgrees
  BY RegistryInvSays
<1> QED
  BY <1>1, <1>2, <1>3, PTL

-----------------------------------------------------------------------------
(* Sequences whose elements need no type.                                    *)

Listed(s) == \E S : s \in Seq(S)

\* Every nonempty set of naturals has a least member.
LEMMA LeastNatural ==
  ASSUME NEW S, S \subseteq Nat, S # {}
  PROVE  \E m \in S : \A k \in S : m <= k
<1>1. \E m \in S : \A k \in S : ~ (<<k, m>> \in OpToRel(<, Nat))
  BY NatLessThanWellFounded, WFMin
<1>2. PICK m \in S : \A k \in S : ~ (<<k, m>> \in OpToRel(<, Nat))
  BY <1>1
<1>3. \A k \in S : <<k, m>> \in OpToRel(<, Nat) <=> k < m
  BY DEF OpToRel
<1>4. \A k \in S : k \in Nat /\ m \in Nat /\ ~ (k < m)
  BY <1>2, <1>3
<1>5. \A k \in S : m <= k
  BY <1>4
<1>. QED
  BY <1>2, <1>5
LEMMA ListLen ==
  ASSUME NEW s, Listed(s)
  PROVE  Len(s) \in Nat /\ DOMAIN s = 1..Len(s)
BY DEF Listed

LEMMA ListAppend ==
  ASSUME NEW s, NEW x, Listed(s)
  PROVE  /\ Listed(Append(s, x)) /\ Len(Append(s, x)) = Len(s) + 1
         /\ \A n \in 1..Len(s) : Append(s, x)[n] = s[n]
         /\ Append(s, x)[Len(s) + 1] = x
<1>1. PICK S : s \in Seq(S)
  BY DEF Listed
<1>2. s \in Seq(S \union {x}) /\ x \in S \union {x}
  BY <1>1
<1>3. Append(s, x) \in Seq(S \union {x})
  BY <1>2
<1>4. Listed(Append(s, x))
  BY <1>3 DEF Listed
<1>. QED
  BY <1>2, <1>4

LEMMA ListTable ==
  ASSUME NEW n \in Nat, NEW f, f = [j \in 1..n |-> f[j]]
  PROVE  Listed(f) /\ Len(f) = n
<1> DEFINE S == {f[j] : j \in 1..n}
<1>1. f \in [1..n -> S]
  OBVIOUS
<1>2. f \in Seq(S)
  BY <1>1
<1>3. Len(f) = n
  BY <1>1, <1>2
<1>. QED
  BY <1>2, <1>3 DEF Listed

LEMMA ListTail ==
  ASSUME NEW s, Listed(s), s # <<>>
  PROVE  /\ Listed(Tail(s)) /\ Len(s) # 0 /\ Len(Tail(s)) = Len(s) - 1 /\ Head(s) = s[1]
         /\ \A i \in 1..Len(Tail(s)) : Tail(s)[i] = s[i + 1]
<1>1. PICK S : s \in Seq(S)
  BY DEF Listed
<1>2. Len(s) # 0 /\ Len(Tail(s)) = Len(s) - 1 /\ Head(s) = s[1] /\ Tail(s) \in Seq(S)
  BY <1>1, HeadTailProperties, EmptySeq
<1>3. \A i \in 1..Len(Tail(s)) : Tail(s)[i] = s[i + 1]
  BY <1>1, <1>2
<1>. QED
  BY <1>2, <1>3 DEF Listed

-----------------------------------------------------------------------------
(* Subsequences: the elements at the positions, each of them, and no other.  *)

Ranked(ps, m) ==
  /\ IsFiniteSet(ps) /\ Cardinality(ps) \in Nat
  /\ \A i \in Nat : Rank(ps, i) \in Nat
  /\ Rank(ps, 0) = 0 /\ Rank(ps, m) = Cardinality(ps)
  /\ \A i \in Nat : Rank(ps, i + 1) = IF i + 1 \in ps THEN Rank(ps, i) + 1 ELSE Rank(ps, i)
LEMMA RankSteps ==
  ASSUME NEW m \in Nat, NEW ps, ps \subseteq 1..m
  PROVE  Ranked(ps, m)
<1>0. \A k \in ps : k \in Int /\ 1 <= k /\ k <= m
  <2>1. \A k \in ps : k \in 1..m
    OBVIOUS
  <2>. QED
    BY <2>1
<1>1. IsFiniteSet(1..m)
  BY FS_Interval
<1>2. IsFiniteSet(ps) /\ Cardinality(ps) \in Nat
  BY <1>1, FS_Subset, FS_CardinalityType
<1>3. \A i \in Nat : IsFiniteSet({k \in ps : k <= i})
  BY <1>2, FS_Subset
<1>4. \A i \in Nat : Rank(ps, i) \in Nat
  BY <1>3, FS_CardinalityType DEF Rank
<1>5. Rank(ps, 0) = 0
  <2>0. \A k \in ps : ~ (k <= 0)
    BY <1>0
  <2>1. {k \in ps : k <= 0} = {}
    BY <2>0
  <2>. QED
    BY <2>1, FS_EmptySet DEF Rank
<1>6. Rank(ps, m) = Cardinality(ps)
  <2>0. \A k \in ps : k <= m
    BY <1>0
  <2>1. {k \in ps : k <= m} = ps
    BY <2>0
  <2>. QED
    BY <2>1 DEF Rank
<1>7. ASSUME NEW i \in Nat
      PROVE  Rank(ps, i + 1) = IF i + 1 \in ps THEN Rank(ps, i) + 1 ELSE Rank(ps, i)
  <2> DEFINE S == {k \in ps : k <= i}
  <2>0. \A k \in ps : k <= i + 1 <=> k <= i \/ k = i + 1
    BY <1>0
  <2>1. IsFiniteSet(S) /\ i + 1 \notin S
    BY <1>3
  <2>2. CASE i + 1 \in ps
    <3>1. {k \in ps : k <= i + 1} = S \cup {i + 1}
      BY <2>0, <2>2
    <3>2. Cardinality(S \cup {i + 1}) = Cardinality(S) + 1
      BY <2>1, FS_AddElement
    <3>. QED
      BY <2>2, <3>1, <3>2 DEF Rank
  <2>3. CASE i + 1 \notin ps
    <3>1. {k \in ps : k <= i + 1} = S
      BY <2>0, <2>3
    <3>. QED
      BY <2>3, <3>1 DEF Rank
  <2>. QED
    BY <2>2, <2>3
<1>. QED
  BY <1>2, <1>4, <1>5, <1>6, <1>7 DEF Ranked

\* Every rank up to the number of positions is that of one position alone.
LEMMA RankHit ==
  ASSUME NEW m \in Nat, NEW ps, ps \subseteq 1..m, NEW n \in 1..Cardinality(ps)
  PROVE  \E i \in ps : Rank(ps, i) = n
<1> DEFINE S == {i \in Nat : Rank(ps, i) >= n}
<1>0. /\ Cardinality(ps) \in Nat
      /\ \A i \in Nat : Rank(ps, i) \in Nat
      /\ Rank(ps, 0) = 0 /\ Rank(ps, m) = Cardinality(ps)
      /\ \A i \in Nat : Rank(ps, i + 1) = IF i + 1 \in ps THEN Rank(ps, i) + 1 ELSE Rank(ps, i)
  <2>1. Ranked(ps, m)
    BY RankSteps
  <2>. QED
    BY <2>1 DEF Ranked
<1>1. m \in S
  BY <1>0
<1>2. PICK i \in S : \A k \in S : i <= k
  BY <1>1, LeastNatural
<1>3. i # 0 /\ i - 1 \in Nat /\ Cardinality(ps) \in Nat
  BY <1>0, <1>2
<1>4. Rank(ps, i - 1) < n /\ Rank(ps, i - 1) \in Nat /\ Rank(ps, i) \in Nat
  BY <1>0, <1>2, <1>3
<1>5. Rank(ps, (i - 1) + 1) = IF (i - 1) + 1 \in ps THEN Rank(ps, i - 1) + 1 ELSE Rank(ps, i - 1)
  BY <1>0, <1>3
<1>6. Rank(ps, i) = IF i \in ps THEN Rank(ps, i - 1) + 1 ELSE Rank(ps, i - 1)
  BY <1>5
<1>. QED
  BY <1>2, <1>3, <1>4, <1>6

LEMMA RankOnce ==
  ASSUME NEW m \in Nat, NEW ps, ps \subseteq 1..m, NEW i \in ps
  PROVE  /\ Rank(ps, i) \in 1..Cardinality(ps)
         /\ \A k \in ps : Rank(ps, k) = Rank(ps, i) => k = i
<1>0. Ranked(ps, m)
  BY RankSteps
<1>1. IsFiniteSet(ps) /\ Cardinality(ps) \in Nat
  BY <1>0 DEF Ranked
<1>2. ASSUME NEW k \in ps PROVE Rank(ps, k) \in Nat /\ Rank(ps, k) <= Cardinality(ps)
  <2>1. {j \in ps : j <= k} \in SUBSET ps
    OBVIOUS
  <2>2. IsFiniteSet({j \in ps : j <= k}) /\ Cardinality({j \in ps : j <= k}) <= Cardinality(ps)
    BY <1>1, <2>1, FS_Subset
  <2>. QED
    BY <2>2, FS_CardinalityType DEF Rank
<1>3. ASSUME NEW k \in ps, NEW l \in ps, k < l PROVE Rank(ps, k) < Rank(ps, l)
  <2> DEFINE K == {j \in ps : j <= k}
             L == {j \in ps : j <= l}
  <2>0. /\ k \in Int /\ l \in Int
        /\ \A j \in ps : j \in Int
    <3>1. \A j \in ps : j \in 1..m
      OBVIOUS
    <3>. QED
      BY <3>1
  <2>1. IsFiniteSet(L) /\ K \in SUBSET L /\ l \in L /\ l \notin K
    <3>1. \A j \in ps : j <= k => j <= l
      BY <1>3, <2>0
    <3>2. ~ (l <= k) /\ l <= l
      BY <1>3, <2>0
    <3>. QED
      BY <1>1, <3>1, <3>2, FS_Subset
  <2>2. Cardinality(K) <= Cardinality(L) /\ Cardinality(K) # Cardinality(L)
    BY <2>1, FS_Subset
  <2>3. Rank(ps, k) = Cardinality(K) /\ Rank(ps, l) = Cardinality(L)
    BY DEF Rank
  <2>. QED
    BY <1>2, <2>2, <2>3
<1>4. Rank(ps, i) # 0
  <2>1. i \in {k \in ps : k <= i} /\ IsFiniteSet({k \in ps : k <= i})
    BY <1>1, FS_Subset
  <2>. QED
    BY <2>1, FS_EmptySet DEF Rank
<1>. QED
  BY <1>1, <1>2, <1>3, <1>4

Picked(t, s, ps) ==
  /\ Listed(t) /\ Len(t) = Cardinality(ps) /\ Cardinality(ps) \in Nat
  /\ \A n \in 1..Len(t) : \E i \in ps : t[n] = s[i]
  /\ \A i \in ps : \E n \in 1..Len(t) : t[n] = s[i]
LEMMA SubsequenceOf ==
  ASSUME NEW m \in Nat, NEW s, NEW ps, ps \subseteq 1..m
  PROVE  Picked(Subsequence(s, ps), s, ps)
<1> DEFINE t == Subsequence(s, ps)
<1>1. Cardinality(ps) \in Nat
  BY RankSteps DEF Ranked
<1>2. t = [n \in 1..Cardinality(ps) |-> t[n]]
  BY DEF Subsequence
<1>3. \A n \in 1..Cardinality(ps) : t[n] = s[CHOOSE i \in ps : Rank(ps, i) = n]
  BY DEF Subsequence
<1> HIDE DEF t
<1>4. Listed(t) /\ Len(t) = Cardinality(ps)
  BY <1>1, <1>2, ListTable
<1>5. ASSUME NEW n \in 1..Len(t) PROVE \E i \in ps : t[n] = s[i]
  <2>1. \E i \in ps : Rank(ps, i) = n
    BY <1>4, RankHit
  <2>. QED
    BY <1>3, <1>4, <2>1
<1>6. ASSUME NEW i \in ps PROVE \E n \in 1..Len(t) : t[n] = s[i]
  <2> DEFINE n == Rank(ps, i)
  <2>1. n \in 1..Cardinality(ps) /\ \A k \in ps : Rank(ps, k) = n => k = i
    BY RankOnce
  <2>2. (CHOOSE k \in ps : Rank(ps, k) = n) = i
    BY <2>1
  <2>. QED
    BY <1>3, <1>4, <2>1, <2>2
<1>. QED
  BY <1>1, <1>4, <1>5, <1>6 DEF t, Picked

LEMMA LargestNatural ==
  ASSUME NEW n \in Nat, NEW S, S \subseteq 1..n, S # {}
  PROVE  \E m \in S : \A k \in S : k <= m
<1> DEFINE T == {m \in Nat : \A k \in S : k <= m}
<1>1. n \in T
  OBVIOUS
<1>2. PICK b \in T : \A k \in T : b <= k
  <2> HIDE DEF T
  <2>1. T \subseteq Nat
    BY DEF T
  <2>. QED
    BY <1>1, <2>1, LeastNatural
<1>3. PICK k \in S : TRUE
  OBVIOUS
<1>4. b # 0 /\ b - 1 \in Nat
  BY <1>2, <1>3
<1>5. \E x \in S : ~ (x <= b - 1)
  BY <1>2, <1>4
<1>6. b \in S
  BY <1>2, <1>5
<1>. QED
  BY <1>2, <1>6

LEMMA SameSubsequence == ASSUME NEW s, NEW ps PROVE R!Subsequence(s, ps) = Subsequence(s, ps)
BY Zenon DEF R!Subsequence, Subsequence, R!Rank, Rank, R!Cardinality, Cardinality

-----------------------------------------------------------------------------
(* Language plugins: lists, the first that fits, sorting by version.         *)

LEMMA ListConcat ==
  ASSUME NEW s, NEW t, Listed(s), Listed(t)
  PROVE  /\ Listed(s \o t) /\ Len(s \o t) = Len(s) + Len(t)
         /\ \A i \in 1..Len(s) : (s \o t)[i] = s[i]
         /\ \A i \in 1..Len(t) : (s \o t)[Len(s) + i] = t[i]
         /\ \A i \in 1..Len(s \o t) : i \in 1..Len(s) \/ (i - Len(s) \in 1..Len(t) /\ (s \o t)[i] = t[i - Len(s)])
<1>1. PICK S, T : s \in Seq(S) /\ t \in Seq(T)
  BY DEF Listed
<1> DEFINE U == S \union T
<1>2. s \in Seq(U) /\ t \in Seq(U)
  BY <1>1
<1> HIDE DEF U
<1>3. s \o t \in Seq(U) /\ Len(s) \in Nat /\ Len(t) \in Nat
  BY <1>2
<1>4. Len(s \o t) = Len(s) + Len(t)
  BY <1>2
<1>5. \A i \in 1..Len(s) + Len(t) : (s \o t)[i] = IF i <= Len(s) THEN s[i] ELSE t[i - Len(s)]
  BY <1>2
<1>6. Listed(s \o t)
  BY <1>3 DEF Listed
<1>. QED
  BY <1>3, <1>4, <1>5, <1>6

LEMMA LeastOf ==
  ASSUME NEW S, S \subseteq Nat, S # {}
  PROVE  R!Min(S) \in S /\ \A k \in S : R!Min(S) <= k
<1>1. \E m \in S : \A k \in S : m =< k
  BY LeastNatural
<1>. QED
  BY <1>1 DEF R!Min

LEMMA LargestOf ==
  ASSUME NEW n \in Nat, NEW S, S \subseteq 1..n, S # {}
  PROVE  R!Max(S) \in S /\ \A k \in S : k <= R!Max(S)
<1>1. \E m \in S : \A k \in S : m >= k
  BY LargestNatural
<1>2. R!Max(S) \in S /\ \A k \in S : R!Max(S) >= k
  BY <1>1 DEF R!Max
<1>3. \A k \in S : k \in Int
  OBVIOUS
<1>. QED
  BY <1>2, <1>3

\* What FirstOf finds.
LEMMA FirstFound ==
  ASSUME NEW s, NEW n \in Nat, NEW hits, hits \subseteq 1..n
  PROVE  /\ hits = {} => R!FirstOf(s, hits) = <<>>
         /\ hits # {} => \E i \in hits : R!FirstOf(s, hits) = <<s[i]>> /\ \A j \in hits : i <= j
<1>1. hits = {} => R!FirstOf(s, hits) = <<>>
  BY DEF R!FirstOf, R!Refused
<1>2. ASSUME hits # {} PROVE \E i \in hits : R!FirstOf(s, hits) = <<s[i]>> /\ \A j \in hits : i <= j
  <2>1. R!Min(hits) \in hits /\ \A j \in hits : R!Min(hits) <= j
    <3>1. hits \subseteq Nat
      OBVIOUS
    <3>. QED
      BY <1>2, <3>1, LeastOf
  <2>2. R!FirstOf(s, hits) = <<s[R!Min(hits)]>>
    BY <1>2 DEF R!FirstOf
  <2>. QED
    BY <2>1, <2>2
<1>. QED
  BY <1>1, <1>2

\* A list of installations with versions of two numbers.
IsVersion(v) == v[1] \in Int /\ v[2] \in Int /\ v = <<v[1], v[2]>>
Versioned(s) == Listed(s) /\ \A i \in 1..Len(s) : IsVersion(s[i].v)

\* The order of two places in a list that is sorted by version.
NewerAt(s, i, j) == R!NewerVersion(s[i].v, s[j].v) \/ (s[i].v = s[j].v /\ i < j)
PlaceOf(s, i) == 1 + R!Cardinality({j \in 1..Len(s) : NewerAt(s, j, i)})

LEMMA VersionPlaces ==
  ASSUME NEW s, Versioned(s)
  PROVE  /\ \A i \in 1..Len(s) : PlaceOf(s, i) \in 1..Len(s)
         /\ \A i, j \in 1..Len(s) : NewerAt(s, i, j) => PlaceOf(s, i) < PlaceOf(s, j)
         /\ \A k \in 1..Len(s) : \E i \in 1..Len(s) : PlaceOf(s, i) = k
<1> DEFINE n == Len(s)
           earlier(i) == {j \in 1..n : NewerAt(s, j, i)}
           place == [i \in 1..n |-> PlaceOf(s, i)]
<1>1. n \in Nat /\ \A i \in 1..n : IsVersion(s[i].v)
  BY ListLen DEF Versioned
<1>2. /\ \A i \in 1..n : ~NewerAt(s, i, i)
      /\ \A i, j, k \in 1..n : NewerAt(s, i, j) /\ NewerAt(s, j, k) => NewerAt(s, i, k)
      /\ \A i, j \in 1..n : i = j \/ NewerAt(s, i, j) \/ NewerAt(s, j, i)
  <2>1. \A i \in 1..n : ~NewerAt(s, i, i)
    BY <1>1 DEF NewerAt, R!NewerVersion, IsVersion
  <2>2. ASSUME NEW i \in 1..n, NEW j \in 1..n, NEW k \in 1..n, NewerAt(s, i, j), NewerAt(s, j, k)
        PROVE  NewerAt(s, i, k)
    <3>1. /\ s[i].v[1] \in Int /\ s[j].v[1] \in Int /\ s[k].v[1] \in Int
          /\ s[i].v[2] \in Int /\ s[j].v[2] \in Int /\ s[k].v[2] \in Int
      BY <1>1 DEF IsVersion
    <3>2. i \in Int /\ j \in Int /\ k \in Int
      BY <1>1
    <3>. QED
      BY <2>2, <3>1, <3>2, SMTT(30) DEF NewerAt, R!NewerVersion
  <2>3. ASSUME NEW i \in 1..n, NEW j \in 1..n PROVE i = j \/ NewerAt(s, i, j) \/ NewerAt(s, j, i)
    <3>1. /\ IsVersion(s[i].v) /\ IsVersion(s[j].v)
          /\ i \in Int /\ j \in Int
      BY <1>1
    <3>2. CASE s[i].v[1] = s[j].v[1] /\ s[i].v[2] = s[j].v[2]
      <4>1. s[i].v = s[j].v
        BY <3>1, <3>2, Zenon DEF IsVersion
      <4>. QED
        BY <3>1, <4>1 DEF NewerAt
    <3>3. CASE ~(s[i].v[1] = s[j].v[1] /\ s[i].v[2] = s[j].v[2])
      BY <3>1, <3>3 DEF NewerAt, R!NewerVersion, IsVersion
    <3>. QED
      BY <3>2, <3>3
  <2>. QED
    BY <2>1, <2>2, <2>3
<1>3. \A i : PlaceOf(s, i) = 1 + Cardinality(earlier(i))
  BY Zenon DEF PlaceOf, R!Cardinality, Cardinality
<1> HIDE DEF n
<1>4. IsFiniteSet(1..n) /\ Cardinality(1..n) = n
  <2>1. 1 \in Int /\ n \in Int
    BY <1>1
  <2>2. IsFiniteSet(1..n) /\ Cardinality(1..n) = IF 1 > n THEN 0 ELSE n - 1 + 1
    BY <2>1, FS_Interval
  <2>. QED
    BY <1>1, <2>2
<1>5. ASSUME NEW i \in 1..n
      PROVE  /\ IsFiniteSet(earlier(i)) /\ Cardinality(earlier(i)) \in Nat
             /\ Cardinality(earlier(i)) < n
  <2>1. earlier(i) \in SUBSET ((1..n) \ {i})
    BY <1>2
  <2>2. IsFiniteSet((1..n) \ {i}) /\ Cardinality((1..n) \ {i}) = n - 1
    BY <1>4, FS_RemoveElement
  <2>3. IsFiniteSet(earlier(i)) /\ Cardinality(earlier(i)) <= n - 1
    BY <2>1, <2>2, FS_Subset
  <2>4. Cardinality(earlier(i)) \in Nat
    BY <2>3, FS_CardinalityType
  <2>. QED
    BY <1>1, <2>3, <2>4
<1>6. ASSUME NEW i \in 1..n PROVE PlaceOf(s, i) \in 1..n
  <2>1. PlaceOf(s, i) = 1 + Cardinality(earlier(i))
    BY <1>3
  <2> HIDE DEF earlier
  <2>. QED
    BY <1>1, <1>5, <2>1
<1>7. ASSUME NEW i \in 1..n, NEW j \in 1..n, NewerAt(s, i, j)
      PROVE  PlaceOf(s, i) < PlaceOf(s, j)
  <2>1. earlier(i) \in SUBSET earlier(j) /\ i \in earlier(j) /\ i \notin earlier(i)
    BY <1>2, <1>7
  <2>2. /\ Cardinality(earlier(i)) <= Cardinality(earlier(j))
        /\ Cardinality(earlier(i)) # Cardinality(earlier(j))
    BY <1>5, <2>1, FS_Subset
  <2>3. PlaceOf(s, i) = 1 + Cardinality(earlier(i)) /\ PlaceOf(s, j) = 1 + Cardinality(earlier(j))
    BY <1>3
  <2> HIDE DEF earlier
  <2>. QED
    BY <1>5, <2>2, <2>3
<1>8. ASSUME NEW i \in 1..n, NEW j \in 1..n, PlaceOf(s, i) = PlaceOf(s, j)
      PROVE  i = j
  <2>1. PlaceOf(s, i) \in 1..n /\ PlaceOf(s, j) \in 1..n
    BY <1>6
  <2>2. ~(PlaceOf(s, i) < PlaceOf(s, j)) /\ ~(PlaceOf(s, j) < PlaceOf(s, i))
    BY <1>1, <1>8, <2>1
  <2>. QED
    BY <1>2, <1>7, <2>2
<1>9. place \in Injection(1..n, 1..n)
  <2>1. \A i \in 1..n : place[i] = PlaceOf(s, i) /\ place[i] \in 1..n
    BY <1>6
  <2>2. place \in [1..n -> 1..n]
    BY <2>1
  <2> HIDE DEF place
  <2>. QED
    BY <1>8, <2>1, <2>2 DEF Injection, IsInjective
<1>10. place \in Surjection(1..n, 1..n)
  BY <1>4, <1>9, FS_Injection
<1>11. ASSUME NEW k \in 1..n PROVE \E i \in 1..n : PlaceOf(s, i) = k
  BY <1>10 DEF Surjection
<1>. QED
  BY <1>6, <1>7, <1>11 DEF n

\* Sorting keeps the installations, and no later one is newer.
LEMMA SortedNewestFirst ==
  ASSUME NEW s, Versioned(s)
  PROVE  LET t == R!SortedByVersion(s) IN
         /\ Listed(t) /\ Len(t) = Len(s) /\ DOMAIN t = 1..Len(s)
         /\ \A k \in 1..Len(t) : \E i \in 1..Len(s) : t[k] = s[i]
         /\ \A i \in 1..Len(s) : \E k \in 1..Len(t) : t[k] = s[i]
         /\ \A i, j \in 1..Len(t) : i <= j => ~R!NewerVersion(t[j].v, t[i].v)
<1> DEFINE t == R!SortedByVersion(s)
           from(k) == CHOOSE i \in 1..Len(s) : PlaceOf(s, i) = k
<1>1. Len(s) \in Nat /\ \A i \in 1..Len(s) : IsVersion(s[i].v)
  BY ListLen DEF Versioned
<1>2. t = [k \in 1..Len(s) |-> s[from(k)]]
  BY Zenon DEF R!SortedByVersion, PlaceOf, NewerAt
<1>3. ASSUME NEW k \in 1..Len(s) PROVE from(k) \in 1..Len(s) /\ PlaceOf(s, from(k)) = k
  <2>1. \E i \in 1..Len(s) : PlaceOf(s, i) = k
    BY VersionPlaces
  <2>. QED
    BY <2>1
<1> HIDE DEF t, from
<1>4. \A k \in 1..Len(s) : t[k] = s[from(k)]
  BY <1>2
<1>5. Listed(t) /\ Len(t) = Len(s) /\ DOMAIN t = 1..Len(s)
  <2>1. t = [k \in 1..Len(s) |-> t[k]]
    BY <1>2
  <2>. QED
    BY <1>1, <1>2, <2>1, ListTable
<1>6. ASSUME NEW i \in 1..Len(t), NEW j \in 1..Len(t), i <= j
      PROVE  ~R!NewerVersion(t[j].v, t[i].v)
  <2>1. SUFFICES ASSUME R!NewerVersion(t[j].v, t[i].v) PROVE FALSE
    OBVIOUS
  <2>2. NewerAt(s, from(j), from(i))
    BY <1>4, <1>5, <2>1 DEF NewerAt
  <2>3. PlaceOf(s, from(j)) < PlaceOf(s, from(i))
    BY <1>3, <1>5, <2>2, VersionPlaces
  <2>4. j < i
    BY <1>3, <1>5, <2>3
  <2>. QED
    BY <1>1, <1>5, <1>6, <2>4
<1>7. ASSUME NEW i \in 1..Len(s) PROVE \E k \in 1..Len(t) : t[k] = s[i]
  <2> DEFINE v == s[i].v
  <2>1. PlaceOf(s, i) \in 1..Len(s)
    BY VersionPlaces
  <2>2. /\ from(PlaceOf(s, i)) \in 1..Len(s)
        /\ PlaceOf(s, from(PlaceOf(s, i))) = PlaceOf(s, i)
    BY <1>3, <2>1
  <2>3. from(PlaceOf(s, i)) = i
    <3> DEFINE j == from(PlaceOf(s, i))
    <3>1. ~NewerAt(s, i, j) /\ ~NewerAt(s, j, i)
      <4>1. PlaceOf(s, i) \in Int /\ PlaceOf(s, j) = PlaceOf(s, i) /\ j \in 1..Len(s)
        BY <1>1, <2>1, <2>2
      <4> HIDE DEF j
      <4>2. /\ NewerAt(s, i, j) => PlaceOf(s, i) < PlaceOf(s, j)
            /\ NewerAt(s, j, i) => PlaceOf(s, j) < PlaceOf(s, i)
        BY <4>1, VersionPlaces
      <4>. QED
        BY <4>1, <4>2
    <3>2. IsVersion(s[i].v) /\ IsVersion(s[j].v) /\ i \in Int /\ j \in Int
      BY <1>1, <2>2
    <3> HIDE DEF j
    <3>3. s[i].v[1] = s[j].v[1] /\ s[i].v[2] = s[j].v[2]
      BY <3>1, <3>2 DEF NewerAt, R!NewerVersion, IsVersion
    <3>4. s[i].v = s[j].v
      BY <3>2, <3>3, Zenon DEF IsVersion
    <3>5. i = j
      BY <3>1, <3>2, <3>4 DEF NewerAt
    <3>. QED
      BY <3>5 DEF j
  <2>. QED
    BY <1>4, <1>5, <2>1, <2>3
<1>. QED
  BY <1>3, <1>4, <1>5, <1>6, <1>7 DEF t

\* The first of those that fit, in a sorted list, is the newest of them.
NewestOf(x, F) == x \in F /\ \A y \in F : ~R!NewerVersion(y.v, x.v)
LEMMA NewestFits ==
  ASSUME NEW s, Versioned(s), NEW F, F \subseteq R!ToSet(s)
  PROVE  LET t == R!SortedByVersion(s)
             hit == R!FirstOf(t, {i \in DOMAIN t : t[i] \in F}) IN
         /\ F = {} => hit = <<>>
         /\ F # {} => \E x : hit = <<x>> /\ NewestOf(x, F)
<1> DEFINE t == R!SortedByVersion(s)
           hits == {i \in DOMAIN t : t[i] \in F}
<1>1. /\ Listed(t) /\ Len(t) = Len(s) /\ DOMAIN t = 1..Len(s)
      /\ \A i \in 1..Len(s) : \E k \in 1..Len(t) : t[k] = s[i]
      /\ \A i, j \in 1..Len(t) : i <= j => ~R!NewerVersion(t[j].v, t[i].v)
  BY SortedNewestFirst
<1> HIDE DEF t
<1>2. DOMAIN s = 1..Len(s) /\ Len(s) \in Nat
  BY ListLen DEF Versioned
<1>3. ASSUME NEW x \in F PROVE \E k \in hits : t[k] = x
  <2>1. \E i \in 1..Len(s) : s[i] = x
    BY <1>2 DEF R!ToSet
  <2>. QED
    BY <1>1, <2>1
<1>4. hits \subseteq 1..Len(s)
  BY <1>1
<1>5. CASE F = {}
  BY <1>2, <1>4, <1>5, FirstFound DEF t
<1>6. CASE F # {}
  <2>1. hits # {}
    BY <1>3, <1>6
  <2>2. PICK i \in hits : R!FirstOf(t, hits) = <<t[i]>> /\ \A j \in hits : i <= j
    BY <1>2, <1>4, <2>1, FirstFound
  <2>3. ASSUME NEW y \in F PROVE ~R!NewerVersion(y.v, t[i].v)
    <3>1. PICK k \in hits : t[k] = y
      BY <1>3
    <3>2. i <= k /\ i \in 1..Len(t) /\ k \in 1..Len(t)
      BY <1>1, <1>4, <2>2
    <3>. QED
      BY <1>1, <3>1, <3>2
  <2>. QED
    BY <1>6, <2>2, <2>3 DEF NewestOf, t
<1>. QED
  BY <1>5, <1>6

\* The first of a sorted list is the newest of it.
LEMMA FirstIsNewest ==
  ASSUME NEW s, Versioned(s), s # <<>>
  PROVE  NewestOf(R!SortedByVersion(s)[1], R!ToSet(s))
<1> DEFINE t == R!SortedByVersion(s)
<1>1. /\ Listed(t) /\ Len(t) = Len(s) /\ DOMAIN t = 1..Len(s)
      /\ \A k \in 1..Len(t) : \E i \in 1..Len(s) : t[k] = s[i]
      /\ \A i \in 1..Len(s) : \E k \in 1..Len(t) : t[k] = s[i]
      /\ \A i, j \in 1..Len(t) : i <= j => ~R!NewerVersion(t[j].v, t[i].v)
  BY SortedNewestFirst
<1>2. DOMAIN s = 1..Len(s) /\ Len(s) \in Nat /\ Len(s) # 0
  BY ListLen, ListTail DEF Versioned
<1> HIDE DEF t
<1>3. 1 \in 1..Len(s) /\ 1 \in 1..Len(t) /\ \A k \in 1..Len(t) : 1 <= k
  BY <1>1, <1>2
<1>4. t[1] \in R!ToSet(s)
  BY <1>1, <1>2, <1>3 DEF R!ToSet
<1>5. ASSUME NEW y \in R!ToSet(s) PROVE ~R!NewerVersion(y.v, t[1].v)
  <2>1. \E i \in 1..Len(s) : s[i] = y
    BY <1>2 DEF R!ToSet
  <2>2. PICK k \in 1..Len(t) : t[k] = y
    BY <1>1, <2>1
  <2>. QED
    BY <1>1, <1>3, <2>2
<1>. QED
  BY <1>4, <1>5 DEF NewestOf, t

-----------------------------------------------------------------------------
(* Language plugins: the choice of an installation.                          *)

Serving(plugin, req, S) == {i \in S : R!Serves(plugin, req, i)}

LEMMA PythonChosen ==
  ASSUME NEW s, Versioned(s), NEW req
  PROVE  LET F == Serving("python", req, R!ToSet(s))
             r == R!FindSuitablePython(s, req) IN
         IF F = {} THEN r = <<>> ELSE NewestOf(r[1], F)
<1> DEFINE F == Serving("python", req, R!ToSet(s))
           t == R!SortedByVersion(s)
           r == R!FindSuitablePython(s, req)
           hits == {i \in DOMAIN t : R!VersionMatches(req, t[i].v)}
<1>1. r = IF t = <<>> THEN <<>> ELSE IF req.form \in {"default", "any"} THEN <<t[1]>> ELSE R!FirstOf(t, hits)
  BY Zenon DEF R!FindSuitablePython, R!DetectPythonInterpreters, R!Refused
<1>2. Len(t) = Len(s) /\ Listed(t) /\ Listed(s) /\ DOMAIN t = 1..Len(s) /\ DOMAIN s = 1..Len(s)
      /\ \A k \in 1..Len(t) : \E i \in 1..Len(s) : t[k] = s[i]
  BY SortedNewestFirst, ListLen DEF Versioned
<1> HIDE DEF t, r
<1>3. t = <<>> <=> s = <<>>
  <2>1. \A z : Listed(z) => (z = <<>> <=> Len(z) = 0)
    BY ListTail
  <2>. QED
    BY <1>2, <2>1
<1>4. CASE s = <<>>
  <2>1. R!ToSet(s) = {}
    BY <1>4 DEF R!ToSet
  <2>2. F = {}
    BY <2>1 DEF Serving
  <2>. QED
    BY <1>1, <1>3, <1>4, <2>2 DEF r
<1>5. CASE s # <<>> /\ req.form \in {"default", "any"}
  <2>1. F = R!ToSet(s)
    BY <1>5 DEF Serving, R!Serves
  <2>2. NewestOf(t[1], R!ToSet(s))
    BY <1>5, FirstIsNewest DEF t
  <2>3. r[1] = t[1]
    BY <1>1, <1>3, <1>5
  <2>. QED
    BY <2>1, <2>2, <2>3 DEF NewestOf, r
<1>6. CASE s # <<>> /\ req.form \notin {"default", "any"}
  <2>1. hits = {i \in DOMAIN t : t[i] \in F}
    <3>1. \A i \in DOMAIN t : t[i] \in R!ToSet(s)
      BY <1>2 DEF R!ToSet
    <3>2. \A x : R!VersionMatches(req, x.v) <=> R!Serves("python", req, x)
      BY <1>6 DEF R!VersionMatches, R!Serves
    <3>. QED
      BY <3>1, <3>2 DEF Serving
  <2>2. r = R!FirstOf(t, hits)
    BY <1>1, <1>3, <1>6
  <2>3. F \subseteq R!ToSet(s)
    BY DEF Serving
  <2>4. /\ F = {} => R!FirstOf(t, hits) = <<>>
        /\ F # {} => \E x : R!FirstOf(t, hits) = <<x>> /\ NewestOf(x, F)
    <3> HIDE DEF F, hits
    <3>1. R!FirstOf(t, hits) = R!FirstOf(t, {i \in DOMAIN t : t[i] \in F})
      BY <2>1
    <3>. QED
      BY <2>3, <3>1, NewestFits DEF t
  <2> HIDE DEF F, hits
  <2>. QED
    BY <2>2, <2>4 DEF F, r
<1>. QED
  BY <1>4, <1>5, <1>6

\* A sorted list has what the list has.
LEMMA SortedList ==
  ASSUME NEW s, Versioned(s)
  PROVE  LET t == R!SortedByVersion(s) IN
         /\ t = <<>> <=> s = <<>>
         /\ \A i \in DOMAIN t : t[i] \in R!ToSet(s)
         /\ s # <<>> => t[1] \in R!ToSet(s)
         /\ s = <<>> => R!ToSet(s) = {}
<1> DEFINE t == R!SortedByVersion(s)
<1>2. Len(t) = Len(s) /\ Listed(t) /\ Listed(s) /\ DOMAIN t = 1..Len(s) /\ DOMAIN s = 1..Len(s)
      /\ \A k \in 1..Len(t) : \E i \in 1..Len(s) : t[k] = s[i]
  BY SortedNewestFirst, ListLen DEF Versioned
<1> HIDE DEF t
<1>3. \A z : Listed(z) => Len(z) \in Nat /\ (z = <<>> <=> Len(z) = 0)
  BY ListTail, ListLen
<1>4. t = <<>> <=> s = <<>>
  BY <1>2, <1>3
<1>5. \A i \in DOMAIN t : t[i] \in R!ToSet(s)
  BY <1>2 DEF R!ToSet
<1>6. s # <<>> => 1 \in DOMAIN t
  BY <1>2, <1>3
<1>7. s = <<>> => R!ToSet(s) = {}
  BY DEF R!ToSet
<1>. QED
  BY <1>4, <1>5, <1>6, <1>7 DEF t

\* The hits of a test that is met by just those of F.
LEMMA RubyChosen ==
  ASSUME NEW a, NEW b, Versioned(a \o b), NEW req
  PROVE  LET s == a \o b
             F == Serving("ruby", req, R!ToSet(s))
             r == R!ChooseRuby(a, b, req) IN
         IF s = <<>> THEN r = <<>>
         ELSE IF F = {} THEN NewestOf(r[1], R!ToSet(s)) ELSE NewestOf(r[1], F)
<1> DEFINE s == a \o b
           F == Serving("ruby", req, R!ToSet(s))
           t == R!SortedByVersion(s)
           r == R!ChooseRuby(a, b, req)
           starts(v) == CASE req.form = "system" -> TRUE
                          [] req.form = "major"  -> v[1] = req.v[1]
                          [] req.form = "minor"  -> v = req.v
                          [] OTHER -> FALSE
           hits == {i \in DOMAIN t : starts(t[i].v)}
           hit == R!FirstOf(t, hits)
<1>1. r = IF t = <<>> THEN <<>> ELSE IF req.form = "default" \/ hit = <<>> THEN <<t[1]>> ELSE hit
  BY Zenon DEF R!ChooseRuby, R!DetectRubyInstallations, R!Refused
<1> HIDE DEF s, starts, r
<1>2. Versioned(s)
  BY DEF s
<1>3. /\ t = <<>> <=> s = <<>>
      /\ \A i \in DOMAIN t : t[i] \in R!ToSet(s)
  BY <1>2, SortedList
<1>4. s # <<>> => NewestOf(t[1], R!ToSet(s))
  BY <1>2, FirstIsNewest
<1>5. F \subseteq R!ToSet(s)
  BY DEF Serving
<1>6. CASE req.form \in {"default", "any"}
  <2>1. F = R!ToSet(s)
    BY <1>6 DEF Serving, R!Serves
  <2>2. hits = {}  \/ req.form = "default"
    BY <1>6 DEF starts
  <2>3. hits = {} => hit = <<>>
    BY DEF R!FirstOf, R!Refused
  <2>4. r = IF t = <<>> THEN <<>> ELSE <<t[1]>>
    <3> HIDE DEF hit, hits, t
    <3>. QED
      BY <1>1, <2>2, <2>3
  <2>5. s # <<>> => r[1] = t[1]
    <3> HIDE DEF hit, hits, t
    <3>. QED
      BY <1>3, <2>4
  <2> HIDE DEF hit, hits, t, F
  <2>. QED
    BY <1>3, <1>4, <2>1, <2>4, <2>5 DEF F, s, r
<1>7. CASE req.form \notin {"default", "any"}
  <2>1. hits = {i \in DOMAIN t : t[i] \in F}
    <3>1. \A x : starts(x.v) <=> R!Serves("ruby", req, x)
      BY <1>7 DEF starts, R!Serves
    <3>2. \A i \in DOMAIN t : i \in hits <=> t[i] \in F
      BY <1>3, <3>1 DEF Serving
    <3> HIDE DEF F
    <3>. QED
      BY <3>2
  <2> HIDE DEF F
  <2>2. /\ F = {} => hit = <<>>
        /\ F # {} => \E x : hit = <<x>> /\ NewestOf(x, F)
    <3>1. hit = R!FirstOf(t, {i \in DOMAIN t : t[i] \in F})
      BY <2>1
    <3> HIDE DEF hit
    <3>. QED
      BY <1>2, <1>5, <3>1, NewestFits
  <2>3. \A x : hit = <<x>> => hit # <<>> /\ hit[1] = x
    OBVIOUS
  <2> HIDE DEF hit, t, hits
  <2>4. CASE s = <<>>
    BY <1>1, <1>3, <2>4 DEF s, r
  <2>5. CASE s # <<>> /\ F = {}
    <3>1. r = <<t[1]>>
      BY <1>1, <1>3, <2>2, <2>5
    <3>2. r[1] = t[1]
      BY <3>1
    <3>. QED
      BY <1>4, <2>5, <3>2 DEF s, F, r
  <2>6. CASE s # <<>> /\ F # {}
    <3>1. PICK x : hit = <<x>> /\ NewestOf(x, F)
      BY <2>2, <2>6
    <3>2. r[1] = x
      BY <1>1, <1>3, <1>7, <2>3, <2>6, <3>1
    <3>. QED
      BY <2>6, <3>1, <3>2 DEF s, F, r
  <2>. QED
    BY <2>4, <2>5, <2>6
<1>. QED
  BY <1>6, <1>7

Forms == {"default", "any", "major", "minor", "range", "system", "channel", "bad"}
LEMMA NodeChosen ==
  ASSUME NEW a, NEW b, Listed(a \o b), NEW req, req.form \in Forms
  PROVE  LET F == Serving("node", req, R!ToSet(a \o b))
             r == R!FindSuitableNode(a, b, req) IN
         IF F = {} THEN r = <<>> ELSE r[1] \in F
<1> DEFINE s == a \o b
           F == Serving("node", req, R!ToSet(s))
           r == R!FindSuitableNode(a, b, req)
           hits == {i \in DOMAIN s : R!Meets(req, s[i].v)}
           hit == R!FirstOf(s, hits)
<1>1. r = IF s = <<>> \/ req.form \in {"bad", "channel"} THEN <<>>
          ELSE IF req.form \in {"default", "system"} THEN <<s[1]>> ELSE hit
  BY Zenon DEF R!FindSuitableNode, R!DetectNodeInstallations, R!Refused
<1> HIDE DEF s, r
<1>2. Listed(s) /\ DOMAIN s = 1..Len(s) /\ Len(s) \in Nat
  BY ListLen DEF s
<1>3. s # <<>> => 1 \in DOMAIN s
  BY <1>2, ListTail
<1>4. \A i \in DOMAIN s : s[i] \in R!ToSet(s)
  BY DEF R!ToSet
<1>5. \A x \in R!ToSet(s) : \E i \in DOMAIN s : s[i] = x
  BY DEF R!ToSet
<1>6. CASE s = <<>>
  <2>1. F = {}
    BY <1>6 DEF R!ToSet, Serving
  <2>. QED
    BY <1>1, <1>6, <2>1 DEF s, r
<1>7. CASE s # <<>> /\ req.form \in {"bad", "channel"}
  <2>1. F = {}
    BY <1>7 DEF Serving, R!Serves
  <2>. QED
    BY <1>1, <1>7, <2>1 DEF s, r
<1>8. CASE s # <<>> /\ req.form \in {"default", "system"}
  <2>1. F = R!ToSet(s)
    BY <1>8 DEF Serving, R!Serves
  <2>2. r[1] = s[1]
    BY <1>1, <1>8
  <2>. QED
    BY <1>3, <1>4, <1>8, <2>1, <2>2 DEF s, r
<1>9. CASE s # <<>> /\ req.form \notin {"bad", "channel", "default", "system"}
  <2>1. r = hit
    BY <1>1, <1>9
  <2>2. \A i \in DOMAIN s : i \in hits <=> s[i] \in F
    <3>1. \A x : R!Meets(req, x.v) <=> R!Serves("node", req, x)
      <4>1. req.form \in {"any", "major", "minor", "range"}
        BY <1>9 DEF Forms
      <4>. QED
        BY <4>1 DEF R!Meets, R!Serves
    <3>. QED
      BY <1>4, <1>9, <3>1 DEF Serving
  <2>3. hits \subseteq 1..Len(s)
    BY <1>2
  <2> HIDE DEF hits
  <2>4. /\ hits = {} => hit = <<>>
        /\ hits # {} => \E i \in hits : hit = <<s[i]>>
    BY <1>2, <2>3, FirstFound
  <2>5. F = {} <=> hits = {}
    <3>1. F \subseteq R!ToSet(s)
      BY DEF Serving
    <3> HIDE DEF F
    <3>. QED
      BY <1>2, <1>5, <2>2, <2>3, <3>1
  <2> HIDE DEF hit, F
  <2>6. F # {} => r[1] \in F
    BY <1>2, <2>1, <2>2, <2>3, <2>4, <2>5
  <2>. QED
    BY <2>1, <2>4, <2>5, <2>6 DEF F, s, r
<1>. QED
  BY <1>6, <1>7, <1>8, <1>9

LEMMA RustChosen ==
  ASSUME NEW s, Versioned(s), NEW req, req.form \in Forms
  PROVE  LET F == Serving("rust", req, R!ToSet(s))
             r == R!FindSuitableToolchain(s, req) IN
         IF s = <<>> \/ req.form = "bad" THEN r = <<>>
         ELSE IF F # {} /\ req.form # "default" THEN NewestOf(r[1], F)
         ELSE r[1].default \/ \A i \in R!ToSet(s) : ~i.default
<1> DEFINE F == Serving("rust", req, R!ToSet(s))
           t == R!SortedByVersion(s)
           r == R!FindSuitableToolchain(s, req)
           sys == {i \in DOMAIN t : t[i].source = "system"}
           ch == {i \in DOMAIN t : t[i].source = "stable"}
           met == {i \in DOMAIN t : R!Meets(req, t[i].v)}
           hit == CASE req.form = "system"  -> R!FirstOf(t, sys)
                    [] req.form = "channel" -> R!FirstOf(t, ch)
                    [] req.form \in {"major", "minor", "range", "any"} -> R!FirstOf(t, met)
                    [] OTHER -> <<>>
           def == {i \in DOMAIN t : t[i].default}
           D == {x \in R!ToSet(s) : x.default}
           fall == IF R!FirstOf(t, def) = <<>> THEN <<t[1]>> ELSE R!FirstOf(t, def)
<1>1. r = IF t = <<>> \/ req.form = "bad" THEN <<>> ELSE IF hit # <<>> THEN hit ELSE fall
  BY Zenon DEF R!FindSuitableToolchain, R!DetectRustToolchains, R!DefaultToolchain, R!Refused
<1> HIDE DEF r
<1>2. /\ t = <<>> <=> s = <<>>
      /\ \A i \in DOMAIN t : t[i] \in R!ToSet(s)
      /\ s # <<>> => t[1] \in R!ToSet(s)
  BY SortedList
<1>3. /\ D = {} => R!FirstOf(t, def) = <<>>
      /\ D # {} => \E x : R!FirstOf(t, def) = <<x>> /\ NewestOf(x, D)
  <2>1. def = {i \in DOMAIN t : t[i] \in D}
    BY <1>2
  <2>2. D \subseteq R!ToSet(s)
    OBVIOUS
  <2> HIDE DEF D
  <2>3. R!FirstOf(t, def) = R!FirstOf(t, {i \in DOMAIN t : t[i] \in D})
    BY <2>1
  <2>. QED
    BY <2>2, <2>3, NewestFits
<1>4. ASSUME s # <<>> PROVE fall[1].default \/ \A i \in R!ToSet(s) : ~i.default
  <2>1. CASE D = {}
    BY <2>1
  <2>2. CASE D # {}
    <3>1. PICK x : R!FirstOf(t, def) = <<x>> /\ NewestOf(x, D)
      BY <1>3, <2>2
    <3>2. fall[1] = x /\ x \in D
      <4> HIDE DEF D, t, def
      <4>. QED
        BY <3>1 DEF NewestOf
    <3>. QED
      BY <3>2
  <2>. QED
    BY <2>1, <2>2
<1>5. CASE req.form \notin {"default", "bad"}
  <2> DEFINE hits == IF req.form = "system" THEN sys ELSE IF req.form = "channel" THEN ch ELSE met
  <2>1. hit = R!FirstOf(t, hits)
    <3>1. req.form \in {"major", "minor", "range", "any", "system", "channel"}
      BY <1>5 DEF Forms
    <3> HIDE DEF sys, ch, met, t
    <3>. QED
      BY <3>1
  <2>2. hits = {i \in DOMAIN t : t[i] \in F}
    <3>1. req.form \in {"major", "minor", "range", "any", "system", "channel"}
      BY <1>5 DEF Forms
    <3>2. /\ req.form = "system" => \A x : x.source = "system" <=> R!Serves("rust", req, x)
          /\ req.form = "channel" => \A x : x.source = "stable" <=> R!Serves("rust", req, x)
          /\ req.form \in {"major", "minor", "range", "any"} => \A x : R!Meets(req, x.v) <=> R!Serves("rust", req, x)
      BY DEF R!Serves, R!Meets
    <3>3. \A i \in DOMAIN t : i \in hits <=> t[i] \in F
      BY <1>2, <3>1, <3>2 DEF Serving
    <3>4. hits \subseteq DOMAIN t
      OBVIOUS
    <3> HIDE DEF F, hits, t
    <3>. QED
      BY <3>3, <3>4
  <2>3. F \subseteq R!ToSet(s)
    BY DEF Serving
  <2> HIDE DEF F, hits, hit, fall
  <2>4. /\ F = {} => hit = <<>>
        /\ F # {} => \E x : hit = <<x>> /\ NewestOf(x, F)
    <3>1. hit = R!FirstOf(t, {i \in DOMAIN t : t[i] \in F})
      BY <2>1, <2>2
    <3>. QED
      BY <2>3, <3>1, NewestFits
  <2> HIDE DEF t
  <2>5. CASE s = <<>>
    BY <1>1, <1>2, <2>5 DEF r
  <2>6. CASE s # <<>> /\ F = {}
    BY <1>1, <1>2, <1>4, <1>5, <2>4, <2>6 DEF r, F
  <2>7. CASE s # <<>> /\ F # {}
    <3>1. PICK x : hit = <<x>> /\ NewestOf(x, F)
      BY <2>4, <2>7
    <3>2. hit # <<>> /\ hit[1] = x
      BY <3>1
    <3>. QED
      BY <1>1, <1>2, <1>5, <2>7, <3>1, <3>2 DEF r, F
  <2>. QED
    BY <2>5, <2>6, <2>7
<1>6. CASE req.form = "default"
  <2>1. hit = <<>>
    BY <1>6
  <2> HIDE DEF hit, fall, t, F
  <2>. QED
    BY <1>1, <1>2, <1>4, <1>6, <2>1 DEF r
<1>7. CASE req.form = "bad"
  BY <1>1, <1>7 DEF r
<1>. QED
  BY <1>5, <1>6, <1>7

LEMMA ManagerChosen ==
  ASSUME NEW pref, NEW locks, NEW tools, pref # R!Err
  PROVE  LET m == R!DetectPackageManager(pref, locks, tools) IN
         /\ m # R!Err => m \in tools
         /\ m = R!Err => (IF pref = "auto" THEN "npm" ELSE pref) \notin tools
BY DEF R!DetectPackageManager, R!AutoDetectPackageManager, R!Err

LEMMA ConcatTwo ==
  ASSUME NEW v, NEW c, Listed(v), Listed(c)
  PROVE  Listed(v \o c) /\ Len(v \o c) = Len(v) + Len(c) /\ \A i \in 1..Len(c) : (v \o c)[Len(v) + i] = c[i]
<1>1. Listed(v) /\ Listed(c)
  OBVIOUS
<1>2. Listed(v \o c) /\ Len(v \o c) = Len(v) + Len(c)
  BY <1>1, ListConcat
<1>3. \A i \in 1..Len(c) : (v \o c)[Len(v) + i] = c[i]
  BY <1>1, ListConcat
<1>. QED
  BY <1>2, <1>3

LEMMA ShellChosen ==
  ASSUME NEW v, NEW c, Listed(v), Listed(c)
  PROVE  Len(c) = 2 =>
           LET s == R!DetectUnixShell(v, c) IN
           IF s = <<>> THEN ~\E i \in 1..2 : c[i].answers ELSE s[1].answers
<1>0. Listed(v \o c) /\ Len(v \o c) = Len(v) + Len(c) /\ \A i \in 1..Len(c) : (v \o c)[Len(v) + i] = c[i]
  BY ConcatTwo
<1>. HAVE Len(c) = 2
<1> DEFINE all == v \o c
           hits == {i \in DOMAIN all : all[i].answers}
           got == R!FirstOf(all, hits)
<1>1. R!DetectUnixShell(v, c) = got
  BY Zenon DEF R!DetectUnixShell
<1>2. /\ Listed(all) /\ Len(v) \in Nat /\ Len(all) = Len(v) + 2
      /\ \A i \in 1..2 : all[Len(v) + i] = c[i]
  <2>1. Len(v) \in Nat
    BY ListLen
  <2>. QED
    BY <1>0, <2>1
<1> HIDE DEF all
<1>3. DOMAIN all = 1..Len(all) /\ Len(all) \in Nat
  BY <1>2, ListLen
<1>4. hits \subseteq 1..Len(all)
  BY <1>3
<1>5. /\ hits = {} => got = <<>>
      /\ hits # {} => \E i \in hits : got = <<all[i]>>
  <2> HIDE DEF hits
  <2>. QED
    BY <1>3, <1>4, FirstFound
<1>6. CASE hits = {}
  <2>1. \A i \in 1..2 : Len(v) + i \in DOMAIN all
    BY <1>2, <1>3
  <2>2. \A i \in 1..2 : ~c[i].answers
    BY <1>2, <1>6, <2>1
  <2>. QED
    BY <1>1, <1>5, <1>6, <2>2
<1>7. CASE hits # {}
  <2>1. PICK i \in hits : got = <<all[i]>>
    BY <1>5, <1>7
  <2>2. got # <<>> /\ got[1] = all[i]
    <3> HIDE DEF got
    <3>. QED
      BY <2>1
  <2> HIDE DEF got
  <2>. QED
    BY <1>1, <2>1, <2>2
<1>. QED
  BY <1>6, <1>7

\* What a question holds of what its rule needs.
SelectionParts ==
  /\ q.kind = "choose" => Versioned(q.list) /\ Versioned(q.more) /\ q.req.form \in Forms
  /\ q.kind = "toolchain" => Versioned(q.list) /\ q.req.form \in Forms
  /\ q.kind = "manager" => q.pref # R!Err
  /\ q.kind = "shell" => Listed(q.var) /\ Listed(q.common) /\ Len(q.common) = 2

LEMMA VersionedConcat ==
  ASSUME NEW s, NEW t, Versioned(s), Versioned(t)
  PROVE  Versioned(s \o t)
<1>1. /\ Listed(s \o t) /\ Len(s) \in Nat /\ Len(t) \in Nat
      /\ \A i \in 1..Len(s) : (s \o t)[i] = s[i]
      /\ \A i \in 1..Len(s \o t) : i \in 1..Len(s) \/ (i - Len(s) \in 1..Len(t) /\ (s \o t)[i] = t[i - Len(s)])
  <2>1. Listed(s) /\ Listed(t)
    BY DEF Versioned
  <2>. QED
    BY <2>1, ListConcat, ListLen
<1>. QED
  BY <1>1 DEF Versioned

LEMMA AnySelection == SelectionParts => R!SelectionServesRequest
<1>1. SUFFICES ASSUME SelectionParts PROVE R!SelectionServesRequest
  OBVIOUS
<1>2. ASSUME q.kind = "choose"
      PROVE  LET all == q.list \o q.more
                 fit(l) == {i \in R!ToSet(all) : R!Serves(l, q.req, i)}
                 py == R!FindSuitablePython(all, q.req)
                 node == R!FindSuitableNode(q.list, q.more, q.req)
                 ruby == R!ChooseRuby(q.list, q.more, q.req) IN
             /\ IF fit("python") = {} THEN py = <<>> ELSE py[1] \in fit("python") /\ R!Newest(py[1], fit("python"))
             /\ IF fit("node") = {} THEN node = <<>> ELSE node[1] \in fit("node")
             /\ IF all = <<>> THEN ruby = <<>>
                ELSE IF fit("ruby") = {} THEN R!Newest(ruby[1], R!ToSet(all))
                ELSE ruby[1] \in fit("ruby") /\ R!Newest(ruby[1], fit("ruby"))
  <2> DEFINE all == q.list \o q.more
  <2>1. Versioned(all) /\ Listed(all) /\ q.req.form \in Forms
    BY <1>1, <1>2, VersionedConcat DEF SelectionParts, Versioned
  <2>2. LET F == Serving("python", q.req, R!ToSet(all))
            r == R!FindSuitablePython(all, q.req) IN
        IF F = {} THEN r = <<>> ELSE NewestOf(r[1], F)
    BY <2>1, PythonChosen
  <2>3. LET F == Serving("node", q.req, R!ToSet(all))
            r == R!FindSuitableNode(q.list, q.more, q.req) IN
        IF F = {} THEN r = <<>> ELSE r[1] \in F
    BY <2>1, NodeChosen
  <2>4. LET F == Serving("ruby", q.req, R!ToSet(all))
            r == R!ChooseRuby(q.list, q.more, q.req) IN
        IF all = <<>> THEN r = <<>>
        ELSE IF F = {} THEN NewestOf(r[1], R!ToSet(all)) ELSE NewestOf(r[1], F)
    BY <2>1, RubyChosen
  <2>. QED
    BY <2>2, <2>3, <2>4, Zenon DEF NewestOf, R!Newest, Serving
<1>3. ASSUME q.kind = "toolchain"
      PROVE  LET fit == {i \in R!ToSet(q.list) : R!Serves("rust", q.req, i)}
                 rust == R!FindSuitableToolchain(q.list, q.req) IN
             IF q.list = <<>> \/ q.req.form = "bad" THEN rust = <<>>
             ELSE IF fit # {} /\ q.req.form # "default" THEN rust[1] \in fit /\ R!Newest(rust[1], fit)
             ELSE rust[1].default \/ \A i \in R!ToSet(q.list) : ~i.default
  <2>1. Versioned(q.list) /\ q.req.form \in Forms
    BY <1>1, <1>3 DEF SelectionParts
  <2>2. LET F == Serving("rust", q.req, R!ToSet(q.list))
            r == R!FindSuitableToolchain(q.list, q.req) IN
        IF q.list = <<>> \/ q.req.form = "bad" THEN r = <<>>
        ELSE IF F # {} /\ q.req.form # "default" THEN NewestOf(r[1], F)
        ELSE r[1].default \/ \A i \in R!ToSet(q.list) : ~i.default
    BY <2>1, RustChosen
  <2>. QED
    BY <2>2, Zenon DEF NewestOf, R!Newest, Serving
<1>4. ASSUME q.kind = "manager"
      PROVE  LET m == R!DetectPackageManager(q.pref, q.locks, q.tools) IN
             /\ m # R!Err => m \in q.tools
             /\ m = R!Err => (IF q.pref = "auto" THEN "npm" ELSE q.pref) \notin q.tools
  <2>1. q.pref # R!Err
    BY <1>1, <1>4 DEF SelectionParts
  <2>. QED
    BY <2>1, ManagerChosen
<1>5. ASSUME q.kind = "shell"
      PROVE  LET s == R!DetectUnixShell(q.var, q.common) IN
             IF s = <<>> THEN ~\E i \in 1..2 : q.common[i].answers ELSE s[1].answers
  <2>1. Listed(q.var) /\ Listed(q.common) /\ Len(q.common) = 2
    BY <1>1, <1>5 DEF SelectionParts
  <2>. QED
    BY <2>1, ShellChosen
<1>. QED
  BY <1>2, <1>3, <1>4, <1>5, Zenon DEF R!SelectionServesRequest, R!Asked, R!Refused

-----------------------------------------------------------------------------
(* Language plugins: what specifications mean.                               *)

Operators == {"==", ">="}
LEMMA LeastIs ==
  ASSUME NEW k \in Nat
  PROVE  R!Min({k}) = k
<1>1. R!Min({k}) \in {k}
  BY LeastOf
<1>. QED
  BY <1>1

\* Sequences with the same elements are the same.
LEMMA ListSame ==
  ASSUME NEW s, NEW t, Listed(s), Listed(t), Len(s) = Len(t), \A i \in 1..Len(s) : s[i] = t[i]
  PROVE  s = t
<1>1. PICK S, T : s \in Seq(S) /\ t \in Seq(T)
  BY DEF Listed
<1>2. s \in [1..Len(s) -> S] /\ t \in [1..Len(t) -> T]
  BY <1>1
<1>3. s = [i \in 1..Len(s) |-> s[i]] /\ t = [i \in 1..Len(t) |-> t[i]]
  BY <1>2
<1>. QED
  BY <1>3

LEMMA OneWord ==
  ASSUME NEW S, NEW s \in Seq(S), NEW i \in 1..Len(s)
  PROVE  SubSeq(s, i, i) = <<s[i]>>
<1>1. SubSeq(s, i, i) \in Seq(S) /\ Len(SubSeq(s, i, i)) = 1 /\ SubSeq(s, i, i)[1] = s[i]
  BY SubSeqProperties
<1>2. <<s[i]>> \in Seq(S) /\ Len(<<s[i]>>) = 1 /\ <<s[i]>>[1] = s[i]
  OBVIOUS
<1>3. Listed(SubSeq(s, i, i)) /\ Listed(<<s[i]>>)
  BY <1>1, <1>2 DEF Listed
<1>4. \A j \in 1..1 : j = 1
  OBVIOUS
<1>5. \A j \in 1..1 : SubSeq(s, i, i)[j] = <<s[i]>>[j]
  BY <1>1, <1>2, <1>4
<1>. QED
  BY <1>1, <1>2, <1>3, <1>5, ListSame

\* Words put together.
LEMMA WordsAre ==
  ASSUME NEW n, NEW o, NEW x
  PROVE  /\ <<n>> \o <<o>> \o <<x>> = <<n, o, x>>
         /\ <<n>> \o (<<o>> \o <<x>>) \o <<>> = <<n, o, x>>
<1> DEFINE U == {n, o, x}
           t == <<n, o, x>>
<1>1. /\ <<n>> \in Seq(U) /\ <<o>> \in Seq(U) /\ <<x>> \in Seq(U) /\ t \in Seq(U)
      /\ Len(<<n>>) = 1 /\ Len(<<o>>) = 1 /\ Len(<<x>>) = 1 /\ Len(t) = 3
      /\ <<n>>[1] = n /\ <<o>>[1] = o /\ <<x>>[1] = x /\ t[1] = n /\ t[2] = o /\ t[3] = x
  OBVIOUS
<1> DEFINE a == <<n>>
           b == <<o>>
           c == <<x>>
<1> HIDE DEF t, U, a, b, c
<1>2. /\ Listed(a) /\ Listed(b) /\ Listed(c) /\ Listed(t)
      /\ Len(a) = 1 /\ Len(b) = 1 /\ Len(c) = 1 /\ Len(t) = 3
      /\ a[1] = n /\ b[1] = o /\ c[1] = x /\ t[1] = n /\ t[2] = o /\ t[3] = x
  BY <1>1 DEF a, b, c, Listed
<1>a. Listed(a) /\ Listed(b) /\ Listed(c)
  BY <1>2
<1>3. \A f, g : Listed(f) /\ Listed(g) =>
        /\ Listed(f \o g) /\ Len(f \o g) = Len(f) + Len(g)
        /\ \A i \in 1..Len(f) : (f \o g)[i] = f[i]
        /\ \A i \in 1..Len(g) : (f \o g)[Len(f) + i] = g[i]
  BY ListConcat
<1> DEFINE ab == a \o b
           bc == b \o c
<1>4. Listed(ab) /\ Len(ab) = Len(a) + Len(b) /\ \A i \in 1..Len(a) : ab[i] = a[i]
  BY <1>a, <1>3
<1>5. \A i \in 1..Len(b) : ab[Len(a) + i] = b[i]
  BY <1>a, <1>3
<1>6. Listed(bc) /\ Len(bc) = Len(b) + Len(c) /\ \A i \in 1..Len(b) : bc[i] = b[i]
  BY <1>a, <1>3
<1>7. \A i \in 1..Len(c) : bc[Len(b) + i] = c[i]
  BY <1>a, <1>3
<1> HIDE DEF ab, bc
<1>8. /\ Len(ab) = 2 /\ ab[1] = n /\ ab[2] = o
      /\ Len(bc) = 2 /\ bc[1] = o /\ bc[2] = x
  BY <1>2, <1>4, <1>5, <1>6, <1>7
<1>9. Listed(ab \o c) /\ Len(ab \o c) = 3 /\ (ab \o c)[1] = n /\ (ab \o c)[2] = o /\ (ab \o c)[3] = x
  <2> DEFINE w == ab \o c
  <2>1. Listed(w) /\ Len(w) = Len(ab) + Len(c) /\ \A i \in 1..Len(ab) : w[i] = ab[i]
    BY <1>a, <1>3, <1>4
  <2>2. \A i \in 1..Len(c) : w[Len(ab) + i] = c[i]
    BY <1>a, <1>3, <1>4
  <2> HIDE DEF w
  <2>3. Listed(w) /\ Len(w) = 3 /\ w[1] = n /\ w[2] = o /\ w[3] = x
    BY <1>2, <1>8, <2>1, <2>2
  <2>. QED
    BY <2>3 DEF w
<1>10. Listed(a \o bc) /\ Len(a \o bc) = 3 /\ (a \o bc)[1] = n /\ (a \o bc)[2] = o /\ (a \o bc)[3] = x
  <2> DEFINE w == a \o bc
  <2>1. Listed(w) /\ Len(w) = Len(a) + Len(bc) /\ \A i \in 1..Len(a) : w[i] = a[i]
    BY <1>a, <1>3, <1>6
  <2>2. \A i \in 1..Len(bc) : w[Len(a) + i] = bc[i]
    BY <1>a, <1>3, <1>6
  <2> HIDE DEF w
  <2>3. Listed(w) /\ Len(w) = 3 /\ w[1] = n /\ w[2] = o /\ w[3] = x
    BY <1>2, <1>8, <2>1, <2>2
  <2>. QED
    BY <2>3 DEF w
<1>11. \A w : Listed(w) /\ Len(w) = 3 /\ w[1] = n /\ w[2] = o /\ w[3] = x => w = t
  <2>1. SUFFICES ASSUME NEW w, Listed(w), Len(w) = 3, w[1] = n, w[2] = o, w[3] = x PROVE w = t
    OBVIOUS
  <2>2. \A i \in 1..Len(w) : w[i] = t[i]
    BY <1>2, <2>1
  <2>. QED
    BY <1>2, <2>1, <2>2, ListSame
<1>12. ab \o c = t /\ a \o bc = t
  BY <1>9, <1>10, <1>11
<1>13. t \o <<>> = t
  BY <1>1, ConcatEmptySeq
<1>. QED
  BY <1>12, <1>13, Zenon DEF a, b, c, t, ab, bc

LEMMA DependencyParsed ==
  ASSUME NEW n, NEW x, n \notin Operators, x \notin Operators
  PROVE  /\ R!ParseDependencySpec(<<n>>) = R!Dep(<<n>>, "any", <<>>, <<>>)
         /\ R!ParseDependencySpec(<<n, "==", x>>) = R!Dep(<<n>>, "exact", <<x>>, <<>>)
         /\ R!ParseDependencySpec(<<n, ">=", x>>) = R!Dep(<<n>>, "range", <<x>>, <<>>)
<1> DEFINE eq(s) == {i \in DOMAIN s : s[i] = "=="}
           ge(s) == {i \in DOMAIN s : s[i] = ">="}
<1>1. \A s : R!ParseDependencySpec(s) =
        CASE eq(s) # {} -> R!Dep(R!Before(s, R!Min(eq(s))), "exact", R!After(s, R!Min(eq(s))), <<>>)
          [] eq(s) = {} /\ ge(s) # {} -> R!Dep(R!Before(s, R!Min(ge(s))), "range", R!After(s, R!Min(ge(s))), <<>>)
          [] OTHER -> R!Dep(s, "any", <<>>, <<>>)
  BY Zenon DEF R!ParseDependencySpec
<1>2. eq(<<n>>) = {} /\ ge(<<n>>) = {}
  BY DEF Operators
<1>3. eq(<<n, "==", x>>) = {2}
  BY DEF Operators
<1>4. eq(<<n, ">=", x>>) = {} /\ ge(<<n, ">=", x>>) = {2}
  BY DEF Operators
<1>5. R!Min({2}) = 2
  BY LeastIs
<1>6. \A o : R!Before(<<n, o, x>>, 2) = <<n>> /\ R!After(<<n, o, x>>, 2) = <<x>>
  <2>1. SUFFICES ASSUME NEW o PROVE R!Before(<<n, o, x>>, 2) = <<n>> /\ R!After(<<n, o, x>>, 2) = <<x>>
    OBVIOUS
  <2> DEFINE s == <<n, o, x>>
  <2>2. s \in Seq({n, o, x}) /\ Len(s) = 3 /\ s[1] = n /\ s[3] = x
    OBVIOUS
  <2> HIDE DEF s
  <2>3. SubSeq(s, 1, 1) = <<n>>
    BY <2>2, OneWord
  <2>4. SubSeq(s, 3, 3) = <<x>>
    BY <2>2, OneWord
  <2>. QED
    BY <2>2, <2>3, <2>4 DEF R!Before, R!After, s
<1> HIDE DEF eq, ge
<1>. QED
  BY <1>1, <1>2, <1>3, <1>4, <1>5, <1>6

\* A dependency with at most a lower bound.
Bounded(d) ==
  \/ \E n : n \notin Operators /\ d = R!Dep(<<n>>, "any", <<>>, <<>>)
  \/ \E n, x : n \notin Operators /\ x \notin Operators /\ \E k \in {"exact", "range"} : d = R!Dep(<<n>>, k, <<x>>, <<>>)

LEMMA FormattedParsed ==
  ASSUME NEW d, Bounded(d)
  PROVE  R!ParseDependencySpec(R!FormatDependencySpec(d)) = d
<1>1. ASSUME NEW n, n \notin Operators
      PROVE  LET e == R!Dep(<<n>>, "any", <<>>, <<>>) IN R!ParseDependencySpec(R!FormatDependencySpec(e)) = e
  <2>1. R!FormatDependencySpec(R!Dep(<<n>>, "any", <<>>, <<>>)) = <<n>>
    BY DEF R!FormatDependencySpec, R!Dep
  <2>2. "1" \notin Operators
    BY DEF Operators
  <2>. QED
    BY <1>1, <2>1, <2>2, DependencyParsed
<1>2. ASSUME NEW n, NEW x, n \notin Operators, x \notin Operators
      PROVE  LET e == R!Dep(<<n>>, "exact", <<x>>, <<>>) IN R!ParseDependencySpec(R!FormatDependencySpec(e)) = e
  <2>1. R!FormatDependencySpec(R!Dep(<<n>>, "exact", <<x>>, <<>>)) = <<n>> \o <<"==">> \o <<x>>
    BY DEF R!FormatDependencySpec, R!Dep
  <2>2. <<n>> \o <<"==">> \o <<x>> = <<n, "==", x>>
    BY WordsAre
  <2>. QED
    BY <1>2, <2>1, <2>2, DependencyParsed
<1>3. ASSUME NEW n, NEW x, n \notin Operators, x \notin Operators
      PROVE  LET e == R!Dep(<<n>>, "range", <<x>>, <<>>) IN R!ParseDependencySpec(R!FormatDependencySpec(e)) = e
  <2>1. R!FormatDependencySpec(R!Dep(<<n>>, "range", <<x>>, <<>>)) = <<n>> \o (<<">=">> \o <<x>>) \o <<>>
    BY DEF R!FormatDependencySpec, R!Dep
  <2>2. <<n>> \o (<<">=">> \o <<x>>) \o <<>> = <<n, ">=", x>>
    BY WordsAre
  <2>. QED
    BY <1>3, <2>1, <2>2, DependencyParsed
<1>. QED
  BY <1>1, <1>2, <1>3 DEF Bounded

\* The lines of a requirements file.
RequirementLines ==
  {<<>>, <<"#", "n">>, <<"-", "n">>, <<"n">>, <<"n", "==", "1">>, <<"n", "semicolon", "==", "1">>}
RequirementsOf(lines) ==
  LET deps == R!ParseRequirements(lines) IN
  /\ Len(deps) = R!Cardinality({i \in DOMAIN lines : lines[i] # <<>> /\ lines[i][1] = "n"})
  /\ \A i \in DOMAIN deps : deps[i].name = <<"n">>

LEMMA Markers ==
  LET semi(l) == {i \in DOMAIN l : l[i] = "semicolon"} IN
  semi(<<"n">>) = {} /\ semi(<<"n", "==", "1">>) = {} /\ semi(<<"n", "semicolon", "==", "1">>) = {2}
<1> DEFINE semi(l) == {i \in DOMAIN l : l[i] = "semicolon"}
<1>1. semi(<<"n">>) = {}
  OBVIOUS
<1>2. semi(<<"n", "==", "1">>) = {}
  OBVIOUS
<1>3. semi(<<"n", "semicolon", "==", "1">>) = {2}
  OBVIOUS
<1>. QED
  BY <1>1, <1>2, <1>3

LEMMA RequirementsMean ==
  ASSUME NEW lines, Listed(lines), \A i \in 1..Len(lines) : lines[i] \in RequirementLines
  PROVE  RequirementsOf(lines)
<1> DEFINE ps == {i \in DOMAIN lines : lines[i] # <<>> /\ lines[i][1] \notin {"#", "-"}}
           pn == {i \in DOMAIN lines : lines[i] # <<>> /\ lines[i][1] = "n"}
           kept == R!Subsequence(lines, ps)
           semi(l) == {i \in DOMAIN l : l[i] = "semicolon"}
           cut(l) == IF semi(l) = {} THEN l ELSE R!Before(l, R!Min(semi(l)))
           deps == [i \in 1..Len(kept) |-> R!ParseDependencySpec(cut(kept[i]))]
<1>1. R!ParseRequirements(lines) = deps
  BY Zenon DEF R!ParseRequirements
<1>2. DOMAIN lines = 1..Len(lines) /\ Len(lines) \in Nat
  BY ListLen
<1>3. \A l \in RequirementLines : l # <<>> => (l[1] \notin {"#", "-"} <=> l[1] = "n")
  <2>1. /\ <<"#", "n">>[1] = "#" /\ <<"-", "n">>[1] = "-" /\ <<"n">>[1] = "n"
        /\ <<"n", "==", "1">>[1] = "n" /\ <<"n", "semicolon", "==", "1">>[1] = "n"
    OBVIOUS
  <2>2. SUFFICES ASSUME NEW l \in RequirementLines, l # <<>> PROVE l[1] \notin {"#", "-"} <=> l[1] = "n"
    OBVIOUS
  <2>3. l[1] \in {"#", "-", "n"}
    BY <2>1, <2>2, Zenon DEF RequirementLines
  <2>. QED
    BY <2>3
<1>4. ps = pn
  BY <1>2, <1>3
<1>5. \A l \in RequirementLines : l # <<>> /\ l[1] = "n" => R!ParseDependencySpec(cut(l)).name = <<"n">>
  <2>1. semi(<<"n">>) = {} /\ semi(<<"n", "==", "1">>) = {} /\ semi(<<"n", "semicolon", "==", "1">>) = {2}
    BY Markers, Zenon
  <2>2. R!Min({2}) = 2 /\ R!Before(<<"n", "semicolon", "==", "1">>, 2) = <<"n">>
    <3> DEFINE s == <<"n", "semicolon", "==", "1">>
    <3>1. s \in Seq({"n", "semicolon", "==", "1"}) /\ Len(s) = 4 /\ s[1] = "n"
      OBVIOUS
    <3> HIDE DEF s
    <3>2. SubSeq(s, 1, 1) = <<"n">>
      <4>1. 1 \in 1..Len(s)
        BY <3>1
      <4>. QED
        BY <3>1, <4>1, OneWord
    <3>3. R!Before(s, 2) = SubSeq(s, 1, 1)
      BY DEF R!Before
    <3>. QED
      BY <3>2, <3>3, LeastIs DEF s
  <2>3. cut(<<"n">>) = <<"n">> /\ cut(<<"n", "==", "1">>) = <<"n", "==", "1">> /\ cut(<<"n", "semicolon", "==", "1">>) = <<"n">>
    <3> HIDE DEF semi
    <3>. QED
      BY <2>1, <2>2
  <2>4. /\ R!ParseDependencySpec(<<"n">>).name = <<"n">>
        /\ R!ParseDependencySpec(<<"n", "==", "1">>).name = <<"n">>
    <3>1. "n" \notin Operators /\ "1" \notin Operators
      BY DEF Operators
    <3>2. /\ R!ParseDependencySpec(<<"n">>) = R!Dep(<<"n">>, "any", <<>>, <<>>)
          /\ R!ParseDependencySpec(<<"n", "==", "1">>) = R!Dep(<<"n">>, "exact", <<"1">>, <<>>)
      BY <3>1, DependencyParsed
    <3>3. \A a, b, c, e : R!Dep(a, b, c, e).name = a
      BY DEF R!Dep
    <3>. QED
      BY <3>2, <3>3
  <2> HIDE DEF cut
  <2>. QED
    <3>1. <<"#", "n">>[1] = "#" /\ <<"-", "n">>[1] = "-"
      OBVIOUS
    <3>2. SUFFICES ASSUME NEW l \in RequirementLines, l # <<>>, l[1] = "n"
                   PROVE  R!ParseDependencySpec(cut(l)).name = <<"n">>
      OBVIOUS
    <3>3. l # <<"#", "n">> /\ l # <<"-", "n">>
      BY <3>1, <3>2
    <3>4. l = <<"n">> \/ l = <<"n", "==", "1">> \/ l = <<"n", "semicolon", "==", "1">>
      BY <3>2, <3>3, Zenon DEF RequirementLines
    <3>. QED
      BY <2>3, <2>4, <3>4
<1> HIDE DEF cut
<1>6. Picked(kept, lines, ps)
  <2>1. ps \subseteq 1..Len(lines)
    BY <1>2
  <2> HIDE DEF ps
  <2>2. Picked(Subsequence(lines, ps), lines, ps)
    BY <1>2, <2>1, SubsequenceOf
  <2>. QED
    BY <2>2, SameSubsequence
<1>7. Len(deps) = Len(kept) /\ DOMAIN deps = 1..Len(kept) /\ Len(kept) = R!Cardinality(pn)
  <2>1. Cardinality(ps) = R!Cardinality(ps)
    BY Zenon DEF Cardinality, R!Cardinality
  <2> HIDE DEF ps, pn, kept
  <2>2. Len(kept) \in Nat /\ Len(kept) = Cardinality(ps)
    BY <1>6 DEF Picked
  <2>3. Len(deps) = Len(kept)
    <3>1. deps = [j \in 1..Len(kept) |-> deps[j]]
      OBVIOUS
    <3> HIDE DEF deps
    <3>. QED
      BY <2>2, <3>1, ListTable
  <2>. QED
    BY <1>4, <2>1, <2>2, <2>3
<1>8. ASSUME NEW i \in 1..Len(kept) PROVE deps[i].name = <<"n">>
  <2> HIDE DEF kept
  <2>1. PICK j \in ps : kept[i] = lines[j]
    BY <1>6 DEF Picked
  <2>2. lines[j] \in RequirementLines /\ lines[j] # <<>> /\ lines[j][1] = "n"
    BY <1>2, <1>4, <2>1
  <2>. QED
    BY <1>5, <2>1, <2>2
<1> HIDE DEF deps, pn
<1>. QED
  BY <1>1, <1>7, <1>8, Zenon DEF RequirementsOf, pn

\* What comparing versions as strings says of 1.0 to 1.11.
ComparedOf(kind, lo, v) ==
  LET m == R!SpecMatches(kind, R!Digits(lo), <<>>, R!Digits(v)) IN
  /\ kind = "exact" => (m <=> v = lo)
  /\ kind = "exclude" => (m <=> v # lo)
  /\ kind = "range" /\ (v < 10 <=> lo < 10) => (m <=> v >= lo)
  /\ kind = "range" /\ v >= 10 /\ lo \in 2..9 => ~m

LEMMA VersionsCompared ==
  ASSUME NEW kind \in {"range", "exact", "compatible", "exclude"}, NEW lo \in 0..11, NEW v \in 0..11
  PROVE  ComparedOf(kind, lo, v)
<1> DEFINE one(n) == <<1, -1, n>>
           two(n) == <<1, -1, 1, n>>
<1>1. \A n \in 0..11 : R!Digits(n) = IF n < 10 THEN one(n) ELSE two(n - 10)
  <2>1. SUFFICES ASSUME NEW n \in 0..11 PROVE R!Digits(n) = IF n < 10 THEN one(n) ELSE two(n - 10)
    OBVIOUS
  <2>2. CASE n < 10
    BY <2>2 DEF R!Digits, R!Dot
  <2>3. CASE n = 10
    BY <2>3 DEF R!Digits, R!Dot
  <2>4. CASE n = 11
    BY <2>4 DEF R!Digits, R!Dot
  <2>. QED
    BY <2>2, <2>3, <2>4
<1>2. \A a, b \in Int : one(a) = one(b) <=> a = b
  OBVIOUS
<1>3. \A a, b \in Int : two(a) = two(b) <=> a = b
  OBVIOUS
<1>4. \A a, b \in Int : one(a) # two(b) /\ two(b) # one(a)
  OBVIOUS
<1>5. \A a, b \in Int : R!StringLess(one(a), one(b)) <=> a < b
  <2>1. SUFFICES ASSUME NEW a \in Int, NEW b \in Int PROVE R!StringLess(one(a), one(b)) <=> a < b
    OBVIOUS
  <2>2. /\ Len(one(a)) = 3 /\ Len(one(b)) = 3
        /\ one(a)[1] = 1 /\ one(a)[2] = -1 /\ one(a)[3] = a
        /\ one(b)[1] = 1 /\ one(b)[2] = -1 /\ one(b)[3] = b
    OBVIOUS
  <2> HIDE DEF one
  <2>3. ASSUME R!StringLess(one(a), one(b)) PROVE a < b
    <3> DEFINE P(k) == (\A i \in 1..k : one(a)[i] = one(b)[i]) /\ (k = 3 \/ one(a)[k + 1] < one(b)[k + 1])
    <3>0. \E k \in 0..3 : k < 3 /\ P(k)
      BY <2>2, <2>3 DEF R!StringLess
    <3> HIDE DEF P
    <3>1. PICK k \in 0..3 : k < 3 /\ P(k)
      BY <3>0
    <3>2. k = 0 \/ k = 1 \/ k = 2
      BY <3>1
    <3>3. CASE k = 0
      BY <2>2, <3>1, <3>3 DEF P
    <3>4. CASE k = 1
      BY <2>2, <3>1, <3>4 DEF P
    <3>5. CASE k = 2
      BY <2>2, <3>1, <3>5 DEF P
    <3>. QED
      BY <3>2, <3>3, <3>4, <3>5
  <2>4. ASSUME a < b PROVE R!StringLess(one(a), one(b))
    <3>1. 2 \in 0..3 /\ 2 < 3 /\ (\A i \in 1..2 : one(a)[i] = one(b)[i]) /\ one(a)[2 + 1] < one(b)[2 + 1]
      BY <2>2, <2>4
    <3>. QED
      BY <2>2, <3>1 DEF R!StringLess
  <2>. QED
    BY <2>3, <2>4
<1>6. \A a, b \in Int : R!StringLess(two(a), two(b)) <=> a < b
  <2>1. SUFFICES ASSUME NEW a \in Int, NEW b \in Int PROVE R!StringLess(two(a), two(b)) <=> a < b
    OBVIOUS
  <2>2. /\ Len(two(a)) = 4 /\ Len(two(b)) = 4
        /\ two(a)[1] = 1 /\ two(a)[2] = -1 /\ two(a)[3] = 1 /\ two(a)[4] = a
        /\ two(b)[1] = 1 /\ two(b)[2] = -1 /\ two(b)[3] = 1 /\ two(b)[4] = b
    OBVIOUS
  <2> HIDE DEF two
  <2>3. ASSUME R!StringLess(two(a), two(b)) PROVE a < b
    <3> DEFINE P(k) == (\A i \in 1..k : two(a)[i] = two(b)[i]) /\ (k = 4 \/ two(a)[k + 1] < two(b)[k + 1])
    <3>0. \E k \in 0..4 : k < 4 /\ P(k)
      BY <2>2, <2>3 DEF R!StringLess
    <3> HIDE DEF P
    <3>1. PICK k \in 0..4 : k < 4 /\ P(k)
      BY <3>0
    <3>2. k = 0 \/ k = 1 \/ k = 2 \/ k = 3
      BY <3>1
    <3>3. CASE k = 0
      BY <2>2, <3>1, <3>3 DEF P
    <3>4. CASE k = 1
      BY <2>2, <3>1, <3>4 DEF P
    <3>5. CASE k = 2
      BY <2>2, <3>1, <3>5 DEF P
    <3>6. CASE k = 3
      BY <2>2, <3>1, <3>6 DEF P
    <3>. QED
      BY <3>2, <3>3, <3>4, <3>5, <3>6
  <2>4. ASSUME a < b PROVE R!StringLess(two(a), two(b))
    <3>1. 3 \in 0..4 /\ 3 < 4 /\ (\A i \in 1..3 : two(a)[i] = two(b)[i]) /\ two(a)[3 + 1] < two(b)[3 + 1]
      BY <2>2, <2>4
    <3>. QED
      BY <2>2, <3>1 DEF R!StringLess
  <2>. QED
    BY <2>3, <2>4
<1>7. \A a, b \in Int : b > 1 => R!StringLess(two(a), one(b))
  <2>1. SUFFICES ASSUME NEW a \in Int, NEW b \in Int, b > 1 PROVE R!StringLess(two(a), one(b))
    OBVIOUS
  <2>2. /\ Len(two(a)) = 4 /\ Len(one(b)) = 3
        /\ two(a)[1] = 1 /\ two(a)[2] = -1 /\ two(a)[3] = 1
        /\ one(b)[1] = 1 /\ one(b)[2] = -1 /\ one(b)[3] = b
    OBVIOUS
  <2> HIDE DEF one, two
  <2>3. 2 \in 0..4 /\ 2 < 3 /\ (\A i \in 1..2 : two(a)[i] = one(b)[i]) /\ two(a)[2 + 1] < one(b)[2 + 1]
    BY <2>1, <2>2
  <2>. QED
    BY <2>2, <2>3 DEF R!StringLess
<1>8. \A n \in Int : one(n) # <<>> /\ two(n) # <<>>
  OBVIOUS
<1> DEFINE L == R!Digits(lo)
           V == R!Digits(v)
           m == R!SpecMatches(kind, L, <<>>, V)
<1> HIDE DEF one, two
<1>9. /\ lo \in Int /\ v \in Int /\ lo - 10 \in Int /\ v - 10 \in Int
      /\ L = IF lo < 10 THEN one(lo) ELSE two(lo - 10)
      /\ V = IF v < 10 THEN one(v) ELSE two(v - 10)
  BY <1>1
<1>10. /\ V = L <=> v = lo
       /\ (v < 10 <=> lo < 10) => (R!StringLess(V, L) <=> v < lo)
       /\ v >= 10 /\ lo \in 2..9 => R!StringLess(V, L)
       /\ L # <<>>
  <2> HIDE DEF L, V
  <2>1. CASE v < 10 /\ lo < 10
    BY <1>2, <1>5, <1>8, <1>9, <2>1
  <2>2. CASE ~ (v < 10) /\ ~ (lo < 10)
    BY <1>3, <1>6, <1>8, <1>9, <2>2
  <2>3. CASE v < 10 /\ ~ (lo < 10)
    BY <1>4, <1>8, <1>9, <2>3
  <2>4. CASE ~ (v < 10) /\ lo < 10
    BY <1>4, <1>7, <1>8, <1>9, <2>4
  <2>. QED
    BY <2>1, <2>2, <2>3, <2>4
<1> HIDE DEF L, V
<1>11. /\ kind = "exact" => (m <=> V = L)
       /\ kind = "exclude" => (m <=> V # L)
       /\ kind = "range" => (m <=> L = <<>> \/ ~R!StringLess(V, L))
  BY DEF R!SpecMatches
<1> HIDE DEF m
<1>. QED
  BY <1>9, <1>10, <1>11 DEF ComparedOf, m, L, V

\* What a question holds of what its rule needs.
SpecParts ==
  /\ q.kind = "format" => (q.d.max = <<>> /\ q.d.kind # "compatible" => Bounded(q.d))
  /\ q.kind = "requirements" => Listed(q.lines) /\ \A i \in 1..Len(q.lines) : q.lines[i] \in RequirementLines
  /\ q.kind = "compare" => q.spec \in {"range", "exact", "compatible", "exclude"} /\ q.lo \in 0..11 /\ q.v \in 0..11

LEMMA AnySpec == SpecParts => R!SpecsMeanTheSame
<1>1. SUFFICES ASSUME SpecParts PROVE R!SpecsMeanTheSame
  OBVIOUS
<1>2. q.kind = "format" /\ q.d.max = <<>> /\ q.d.kind # "compatible"
        => R!ParseDependencySpec(R!FormatDependencySpec(q.d)) = q.d
  BY <1>1, FormattedParsed DEF SpecParts
<1>3. q.kind = "requirements" => RequirementsOf(q.lines)
  BY <1>1, RequirementsMean DEF SpecParts
<1>4. q.kind = "compare" => ComparedOf(q.spec, q.lo, q.v)
  BY <1>1, VersionsCompared DEF SpecParts
<1>. QED
  BY <1>2, <1>3, <1>4, Zenon DEF R!SpecsMeanTheSame, R!Asked, RequirementsOf, ComparedOf

-----------------------------------------------------------------------------
(* Language plugins: the files at the end of a command.                      *)

LEMMA EndOf ==
  ASSUME NEW s, NEW t, Listed(s), Listed(t), NEW k \in Nat, Len(t) = k + Len(s),
         \A i \in 1..Len(s) : t[k + i] = s[i]
  PROVE  R!IsSuffix(s, t)
<1> DEFINE n == Len(s)
           m == Len(t)
           rs == [i \in 1..n |-> s[(n - i) + 1]]
           rt == [i \in 1..m |-> t[(m - i) + 1]]
<1>1. R!Reverse(s) = rs /\ R!Reverse(t) = rt
  BY Zenon DEF R!Reverse
<1>2. n \in Nat /\ m \in Nat /\ m = k + n
  BY ListLen
<1>3. Listed(rs) /\ Len(rs) = n
  <2>1. rs = [i \in 1..n |-> rs[i]]
    OBVIOUS
  <2> HIDE DEF rs, n
  <2>. QED
    BY <1>2, <2>1, ListTable
<1>4. Listed(rt) /\ Len(rt) = m
  <2>1. rt = [i \in 1..m |-> rt[i]]
    OBVIOUS
  <2> HIDE DEF rt, m
  <2>. QED
    BY <1>2, <2>1, ListTable
<1>5. \A i \in 1..n : rs[i] = rt[i]
  <2>1. SUFFICES ASSUME NEW i \in 1..n PROVE rs[i] = rt[i]
    OBVIOUS
  <2>2. rs[i] = s[(n - i) + 1]
    OBVIOUS
  <2>3. rt[i] = t[(m - i) + 1]
    <3>1. i \in 1..m
      BY <1>2
    <3>. QED
      BY <3>1
  <2> HIDE DEF rs, rt, n, m
  <2>4. (n - i) + 1 \in 1..n /\ (m - i) + 1 = k + ((n - i) + 1)
    BY <1>2
  <2>5. t[k + ((n - i) + 1)] = s[(n - i) + 1]
    BY <2>4 DEF n
  <2>. QED
    BY <2>2, <2>3, <2>4, <2>5
<1> HIDE DEF rs, rt, n, m
<1> DEFINE a == SubSeq(rs, 1, n)
           b == SubSeq(rt, 1, n)
<1>6. Listed(a) /\ Len(a) = n /\ \A i \in 1..n : a[i] = rs[i]
  <2>1. PICK S : rs \in Seq(S)
    BY <1>3 DEF Listed
  <2>2. \A i \in 1..n : rs[i] \in S
    BY <1>2, <1>3, <2>1
  <2>3. a \in Seq(S) /\ Len(a) = (IF 1 <= n THEN n - 1 + 1 ELSE 0) /\ \A i \in 1..n - 1 + 1 : a[i] = rs[1 + i - 1]
    BY <1>2, <2>2, SubSeqProperties
  <2> HIDE DEF a
  <2>4. Len(a) = n /\ n - 1 + 1 = n /\ \A i \in 1..n : 1 + i - 1 = i
    BY <1>2, <2>3
  <2>. QED
    BY <2>3, <2>4 DEF Listed
<1>7. Listed(b) /\ Len(b) = n /\ \A i \in 1..n : b[i] = rt[i]
  <2>1. PICK S : rt \in Seq(S)
    BY <1>4 DEF Listed
  <2>2. \A i \in 1..n : rt[i] \in S
    BY <1>2, <1>4, <2>1
  <2>3. b \in Seq(S) /\ Len(b) = (IF 1 <= n THEN n - 1 + 1 ELSE 0) /\ \A i \in 1..n - 1 + 1 : b[i] = rt[1 + i - 1]
    BY <1>2, <2>2, SubSeqProperties
  <2> HIDE DEF b
  <2>4. Len(b) = n /\ n - 1 + 1 = n /\ \A i \in 1..n : 1 + i - 1 = i
    BY <1>2, <2>3
  <2>. QED
    BY <2>3, <2>4 DEF Listed
<1> HIDE DEF a, b
<1>8. a = b
  BY <1>5, <1>6, <1>7, ListSame
<1>9. R!IsPrefix(rs, rt)
  BY <1>2, <1>3, <1>4, <1>8 DEF R!IsPrefix, a, b
<1>. QED
  BY <1>1, <1>9 DEF R!IsSuffix

\* Words among which the argument of a hook does not occur.
Other(s) == Listed(s) /\ \A i \in 1..Len(s) : s[i] # "arg"

LEMMA OtherConcat ==
  ASSUME NEW s, NEW t, Other(s), Other(t)
  PROVE  Other(s \o t)
<1>1. Listed(s) /\ Listed(t)
  BY DEF Other
<1>2. /\ Listed(s \o t)
      /\ \A i \in 1..Len(s) : (s \o t)[i] = s[i]
      /\ \A i \in 1..Len(s \o t) : i \in 1..Len(s) \/ (i - Len(s) \in 1..Len(t) /\ (s \o t)[i] = t[i - Len(s)])
  BY <1>1, ListConcat
<1>. QED
  BY <1>2 DEF Other

\* The command c ends with the argument and the files f, which occur once.
EndsWith(c, f) ==
  c # <<>> => /\ R!IsSuffix(<<"arg">> \o f, c[1].args)
              /\ R!Cardinality({i \in DOMAIN c[1].args : c[1].args[i] = "arg"}) = 1

LEMMA CommandEnds ==
  ASSUME NEW x, NEW d, NEW p, NEW f, Other(p), Other(f)
  PROVE  EndsWith(R!Cmd(x, p \o <<"arg">> \o f, d), f)
<1> DEFINE g == <<"arg">>
           pg == p \o g
           a == pg \o f
           gf == g \o f
<1>1. Listed(g) /\ Len(g) = 1 /\ g[1] = "arg"
  <2>1. <<"arg">> \in Seq({"arg"})
    OBVIOUS
  <2>. QED
    BY <2>1 DEF Listed
<1> HIDE DEF g
<1>2. Listed(p) /\ Listed(f) /\ Len(p) \in Nat /\ Len(f) \in Nat
  BY ListLen DEF Other
<1>g. Listed(g)
  BY <1>1
<1>l. Listed(p) /\ Listed(f)
  BY <1>2
<1>3. /\ Listed(pg) /\ Len(pg) = Len(p) + Len(g)
      /\ \A i \in 1..Len(p) : pg[i] = p[i]
      /\ \A i \in 1..Len(g) : pg[Len(p) + i] = g[i]
  BY <1>g, <1>l, ListConcat
<1>4. /\ Listed(gf) /\ Len(gf) = Len(g) + Len(f)
      /\ \A i \in 1..Len(g) : gf[i] = g[i]
      /\ \A i \in 1..Len(f) : gf[Len(g) + i] = f[i]
  BY <1>g, <1>l, ListConcat
<1> HIDE DEF pg, gf
<1>p. Listed(pg)
  BY <1>3
<1>5. /\ Listed(a) /\ Len(a) = Len(pg) + Len(f)
      /\ \A i \in 1..Len(pg) : a[i] = pg[i]
      /\ \A i \in 1..Len(f) : a[Len(pg) + i] = f[i]
  BY <1>p, <1>l, ListConcat
<1> HIDE DEF a
<1>6. /\ Len(pg) = Len(p) + 1 /\ Len(gf) = 1 + Len(f) /\ Len(a) = Len(p) + Len(gf)
      /\ \A i \in 1..Len(p) : a[i] = p[i]
      /\ a[Len(p) + 1] = "arg" /\ gf[1] = "arg"
  BY <1>1, <1>2, <1>3, <1>4, <1>5
<1>7. \A i \in 1..Len(f) : gf[1 + i] = f[i] /\ a[Len(p) + (1 + i)] = f[i]
  <2>1. SUFFICES ASSUME NEW i \in 1..Len(f) PROVE gf[1 + i] = f[i] /\ a[Len(p) + (1 + i)] = f[i]
    OBVIOUS
  <2>2. Len(p) + (1 + i) = Len(pg) + i
    BY <1>2, <1>6
  <2>. QED
    BY <1>1, <1>4, <1>5, <2>2
<1>8. \A i \in 1..Len(gf) : a[Len(p) + i] = gf[i]
  <2>1. SUFFICES ASSUME NEW i \in 1..Len(gf) PROVE a[Len(p) + i] = gf[i]
    OBVIOUS
  <2>2. CASE i = 1
    BY <1>6, <2>2
  <2>3. CASE i # 1
    <3>1. i - 1 \in 1..Len(f) /\ 1 + (i - 1) = i
      BY <1>2, <1>6, <2>3
    <3>2. gf[1 + (i - 1)] = f[i - 1] /\ a[Len(p) + (1 + (i - 1))] = f[i - 1]
      BY <1>7, <3>1
    <3>. QED
      BY <3>1, <3>2
  <2>. QED
    BY <2>2, <2>3
<1>9. R!IsSuffix(gf, a)
  <2>1. Listed(gf) /\ Listed(a) /\ Len(p) \in Nat /\ Len(a) = Len(p) + Len(gf)
    BY <1>2, <1>4, <1>5, <1>6
  <2>. QED
    BY <1>8, <2>1, EndOf
<1>10. {i \in DOMAIN a : a[i] = "arg"} = {Len(p) + 1}
  <2>1. DOMAIN a = 1..Len(a)
    BY <1>5, ListLen
  <2>2. \A i \in 1..Len(a) : i \in 1..Len(p) \/ i = Len(p) + 1 \/ (i - Len(p) - 1 \in 1..Len(f) /\ i = Len(p) + (1 + (i - Len(p) - 1)))
    BY <1>2, <1>6
  <2>3. \A i \in 1..Len(p) : a[i] # "arg"
    BY <1>6 DEF Other
  <2>4. \A j \in 1..Len(f) : a[Len(p) + (1 + j)] # "arg"
    BY <1>7 DEF Other
  <2>5. \A i \in 1..Len(a) : a[i] = "arg" => i = Len(p) + 1
    BY <2>2, <2>3, <2>4
  <2>6. Len(p) + 1 \in 1..Len(a)
    BY <1>2, <1>6
  <2>. QED
    BY <1>6, <2>1, <2>5, <2>6
<1>11. R!Cardinality({i \in DOMAIN a : a[i] = "arg"}) = 1
  <2>1. Cardinality({Len(p) + 1}) = 1
    BY FS_Singleton
  <2>2. R!Cardinality({Len(p) + 1}) = Cardinality({Len(p) + 1})
    BY Zenon DEF R!Cardinality, Cardinality
  <2>. QED
    BY <1>10, <2>1, <2>2
<1>12. R!Cmd(x, a, d) # <<>> /\ R!Cmd(x, a, d)[1].args = a
  BY DEF R!Cmd
<1>. QED
  BY <1>9, <1>11, <1>12, Zenon DEF EndsWith, a, pg, gf, g

\* The entry of a hook, and the files it is given.
IsEntry(e) == Other(e) /\ (Len(e) = 3 /\ e[1] = "go" <=> Len(e) >= 3 /\ e[1] = "go" /\ e[2] = "run")
IsCall(h) == /\ h = [entry |-> h.entry, args |-> <<"arg">>, pass |-> h.pass]
             /\ IsEntry(h.entry) /\ h.pass \in BOOLEAN
Given(h, files) == IF h.pass THEN files ELSE <<>>

LEMMA NothingOther == Other(<<>>)
<1>1. <<>> \in Seq({}) /\ Len(<<>>) = 0
  OBVIOUS
<1>. QED
  BY <1>1 DEF Other, Listed

LEMMA TailOther ==
  ASSUME NEW e, Other(e), e # <<>>
  PROVE  Other(Tail(e))
<1>1. Listed(e)
  BY DEF Other
<1>2. Listed(Tail(e)) /\ Len(Tail(e)) = Len(e) - 1 /\ Len(e) \in Nat /\ \A i \in 1..Len(Tail(e)) : Tail(e)[i] = e[i + 1]
  BY <1>1, ListTail, ListLen
<1>3. \A i \in 1..Len(Tail(e)) : i + 1 \in 1..Len(e)
  BY <1>2
<1>. QED
  BY <1>2, <1>3 DEF Other

LEMMA GivenOther ==
  ASSUME NEW h, NEW files, Other(files)
  PROVE  R!PassedNames(h, files) = Given(h, files) /\ Other(Given(h, files))
BY NothingOther DEF R!PassedNames, Given

LEMMA PythonEnds ==
  ASSUME NEW h, IsCall(h), h.entry # <<>>, NEW files, Other(files), NEW bin, NEW dir
  PROVE  EndsWith(R!BuildPythonCommand(h, files, bin, dir), Given(h, files))
<1> DEFINE c == R!BuildPythonCommand(h, files, bin, dir)
           f == Given(h, files)
           e == h.entry
           got == R!FindExecutableInVenv(bin, e[1])
           three == IF Len(e) >= 3 THEN <<"-m", e[3]>> ELSE <<>>
           two == <<"-m", "module">>
           g == <<"arg">>
<1>1. h.args = g /\ R!PassedNames(h, files) = f /\ Other(f) /\ Other(e)
  BY GivenOther DEF IsCall, IsEntry
<1>2. \/ c = R!Cmd("python", g \o f, dir)
      \/ Len(e) >= 2 /\ c = R!Cmd("python", three \o g \o f, dir)
      \/ c = <<>>
      \/ c = R!Cmd("python", two \o Tail(e) \o g \o f, dir)
      \/ c = R!Cmd(got, Tail(e) \o g \o f, dir)
  <2> DEFINE exe(b, w) == R!FindExecutableInVenv(b, w)
  <2>1. c = IF e = <<"python">> THEN R!Cmd("python", h.args \o R!PassedNames(h, files), dir)
            ELSE IF Len(e) >= 2 /\ e[1] = "python" /\ e[2] = "-m"
            THEN R!Cmd("python", three \o h.args \o R!PassedNames(h, files), dir)
            ELSE IF got = R!Err THEN R!Refused
            ELSE IF got = "module" THEN R!Cmd("python", two \o Tail(e) \o h.args \o R!PassedNames(h, files), dir)
            ELSE R!Cmd(got, Tail(e) \o h.args \o R!PassedNames(h, files), dir)
    BY Zenon DEF R!BuildPythonCommand
  <2> HIDE DEF c, f, e, got, three, two, g
  <2>. QED
    BY <1>1, <2>1 DEF R!Refused
<1>3. Other(Tail(e))
  <2> HIDE DEF e
  <2>1. e # <<>>
    BY DEF e
  <2>. QED
    BY <1>1, <2>1, TailOther
<1>4. Other(two)
  <2>1. two \in Seq({"-m", "module"}) /\ Len(two) = 2 /\ two[1] = "-m" /\ two[2] = "module"
    OBVIOUS
  <2> HIDE DEF two
  <2>. QED
    BY <2>1 DEF Other, Listed
<1>5. Other(three)
  <2>1. CASE Len(e) >= 3
    <3> DEFINE t == <<"-m", e[3]>>
    <3>1. t \in Seq({"-m", e[3]}) /\ Len(t) = 2 /\ t[1] = "-m" /\ t[2] = e[3]
      OBVIOUS
    <3>2. e[3] # "arg"
      <4> HIDE DEF e
      <4>. QED
        BY <1>1, <2>1, ListLen DEF Other
    <3>3. three = t
      BY <2>1
    <3> HIDE DEF t, three
    <3>. QED
      BY <3>1, <3>2, <3>3 DEF Other, Listed
  <2>2. CASE ~ (Len(e) >= 3)
    BY <2>2, NothingOther
  <2>. QED
    BY <2>1, <2>2
<1>6. Other(two \o Tail(e))
  BY <1>3, <1>4, OtherConcat
<1>7. g \o f = <<>> \o g \o f
  <2>1. g \in Seq({"arg"})
    OBVIOUS
  <2>2. <<>> \o g = g
    BY <2>1, ConcatEmptySeq
  <2> HIDE DEF g
  <2>. QED
    BY <2>2
<1> HIDE DEF c, f, e, got, three, two
<1>8. \A x, p : Other(p) => EndsWith(R!Cmd(x, p \o g \o f, dir), f)
  BY <1>1, CommandEnds
<1>9. \A x : EndsWith(R!Cmd(x, g \o f, dir), f)
  BY <1>7, <1>8, NothingOther
<1>10. c = <<>> => EndsWith(c, f)
  BY DEF EndsWith
<1> HIDE DEF g
<1>. QED
  BY <1>2, <1>3, <1>5, <1>6, <1>8, <1>9, <1>10 DEF c, f

\* The commands that are an executable, what stands before the argument, the
\* argument and the files.
LEMMA PlainEnds ==
  ASSUME NEW h, IsCall(h), NEW files, Other(files), NEW dir, NEW f, Other(f)
  PROVE  /\ \A x : EndsWith(R!Cmd(x, h.args \o f, dir), f)
         /\ \A x, p : Other(p) => EndsWith(R!Cmd(x, p \o h.args \o f, dir), f)
         /\ h.entry # <<>> => \A x : EndsWith(R!Cmd(x, Tail(h.entry) \o h.args \o f, dir), f)
<1> DEFINE g == <<"arg">>
<1>1. h.args = g /\ Other(h.entry)
  BY DEF IsCall, IsEntry
<1>2. \A x, p : Other(p) => EndsWith(R!Cmd(x, p \o g \o f, dir), f)
  BY CommandEnds
<1>3. g \o f = <<>> \o g \o f
  <2>1. g \in Seq({"arg"})
    OBVIOUS
  <2>2. <<>> \o g = g
    BY <2>1, ConcatEmptySeq
  <2> HIDE DEF g
  <2>. QED
    BY <2>2
<1> HIDE DEF g
<1>4. \A x : EndsWith(R!Cmd(x, g \o f, dir), f)
  BY <1>2, <1>3, NothingOther
<1>5. h.entry # <<>> => Other(Tail(h.entry))
  BY <1>1, TailOther
<1>. QED
  BY <1>1, <1>2, <1>4, <1>5

LEMMA SystemEnds ==
  ASSUME NEW h, IsCall(h), NEW files, Other(files), NEW dir
  PROVE  EndsWith(R!BuildSystemCommand(h, files, dir), Given(h, files))
<1> DEFINE f == Given(h, files)
<1>1. R!PassedNames(h, files) = f /\ Other(f)
  BY GivenOther
<1> HIDE DEF f
<1>2. h.entry # <<>> => \A x : EndsWith(R!Cmd(x, Tail(h.entry) \o h.args \o f, dir), f)
  BY <1>1, PlainEnds
<1>3. EndsWith(<<>>, f)
  BY DEF EndsWith
<1>. QED
  BY <1>1, <1>2, <1>3, Zenon DEF R!BuildSystemCommand, R!Refused, f

LEMMA ScriptEnds ==
  ASSUME NEW h, IsCall(h), NEW files, Other(files), NEW dir
  PROVE  EndsWith(R!BuildScriptCommand(h, files, dir), Given(h, files))
<1> DEFINE e == h.entry
           w == [e EXCEPT ![1] = "script"]
           k == R!BuildResolvedHook(h)
<1>1. R!BuildScriptCommand(h, files, dir) = R!BuildSystemCommand(k, files, dir)
  BY Zenon DEF R!BuildScriptCommand
<1>2. CASE h.entry = <<>>
  BY <1>1, <1>2, SystemEnds DEF R!BuildResolvedHook
<1>3. CASE h.entry # <<>>
  <2>1. k = [entry |-> w, args |-> h.args, pass |-> h.pass]
    <3>1. k = [h EXCEPT !.entry[1] = "script"]
      BY <1>3 DEF R!BuildResolvedHook
    <3>2. h = [entry |-> h.entry, args |-> <<"arg">>, pass |-> h.pass]
      BY DEF IsCall
    <3>. QED
      BY <3>1, <3>2
  <2>2. Other(e) /\ Len(e) \in Nat /\ DOMAIN e = 1..Len(e)
    BY ListLen DEF IsCall, IsEntry, Other
  <2> HIDE DEF e, k
  <2>3. /\ w = [i \in 1..Len(e) |-> w[i]]
        /\ \A i \in 1..Len(e) : w[i] = IF i = 1 THEN "script" ELSE e[i]
    BY <2>2
  <2> HIDE DEF w
  <2>4. Listed(w) /\ Len(w) = Len(e)
    BY <2>2, <2>3, ListTable
  <2>5. Other(w)
    BY <2>3, <2>4, <2>2 DEF Other
  <2>6. EndsWith(R!BuildSystemCommand(k, files, dir), Given(k, files))
    <3> DEFINE f == Given(k, files)
    <3>1. R!PassedNames(k, files) = f /\ Other(f)
      BY GivenOther
    <3>2. k.args = <<"arg">> /\ k.entry = w
      BY <2>1 DEF IsCall
    <3> HIDE DEF f
    <3>3. w # <<>> => Other(Tail(w))
      BY <2>5, TailOther
    <3>4. w # <<>> => \A x : EndsWith(R!Cmd(x, Tail(w) \o <<"arg">> \o f, dir), f)
      BY <3>1, <3>3, CommandEnds
    <3>5. EndsWith(<<>>, f)
      BY DEF EndsWith
    <3>. QED
      BY <3>1, <3>2, <3>4, <3>5, Zenon DEF R!BuildSystemCommand, R!Refused, f
  <2>7. Given(k, files) = Given(h, files)
    BY <2>1 DEF Given
  <2>. QED
    BY <1>1, <2>6, <2>7 DEF k
<1>. QED
  BY <1>2, <1>3

LEMMA DockerEnds ==
  ASSUME NEW h, IsCall(h), NEW files, Other(files), NEW root
  PROVE  EndsWith(R!BuildDockerCommand(h, files, root), Given(h, files))
<1> DEFINE f == Given(h, files)
           p == <<"run", "alpine:latest", "entry">>
<1>1. R!PassedNames(h, files) = f /\ Other(f)
  BY GivenOther
<1>2. Other(p)
  <2>1. p \in Seq({"run", "alpine:latest", "entry"}) /\ Len(p) = 3 /\ p[1] = "run" /\ p[2] = "alpine:latest" /\ p[3] = "entry"
    OBVIOUS
  <2> HIDE DEF p
  <2>2. \A i \in 1..3 : i = 1 \/ i = 2 \/ i = 3
    OBVIOUS
  <2>. QED
    BY <2>1, <2>2 DEF Other, Listed
<1>3. R!BuildDockerCommand(h, files, root) = R!Cmd("docker", p \o h.args \o R!PassedNames(h, files), root)
  BY Zenon DEF R!BuildDockerCommand
<1> HIDE DEF f, p
<1>4. EndsWith(R!Cmd("docker", p \o h.args \o f, root), f)
  BY <1>1, <1>2, PlainEnds
<1>. QED
  BY <1>1, <1>3, <1>4 DEF f

\* The files golang passes on.
Rest(h, files) ==
  R!Subsequence(files, {i \in DOMAIN files : ~(Len(h.entry) = 3 /\ h.entry[1] = "go" /\ files[i] = h.entry[3])})

LEMMA GoEnds ==
  ASSUME NEW h, IsCall(h), NEW files, Other(files), NEW root
  PROVE  EndsWith(R!BuildGoCommand(h, files, root), Rest(h, files))
<1> DEFINE ps == {i \in DOMAIN files : ~R!IsMainProgramFile(h, files[i])}
           pq == {i \in DOMAIN files : ~(Len(h.entry) = 3 /\ h.entry[1] = "go" /\ files[i] = h.entry[3])}
           rest == R!Subsequence(files, ps)
<1>1. ps = pq
  BY DEF R!IsMainProgramFile, IsCall, IsEntry
<1>2. rest = Rest(h, files)
  BY <1>1, Zenon DEF Rest
<1>3. R!BuildGoCommand(h, files, root) =
        IF h.entry = <<>> THEN R!Cmd("go", h.args \o rest, R!FirstFileDir(files, root))
        ELSE R!Cmd(h.entry[1], Tail(h.entry) \o h.args \o rest, R!FirstFileDir(files, root))
  BY Zenon DEF R!BuildGoCommand
<1>4. Other(rest)
  <2>1. ps \subseteq 1..Len(files) /\ Len(files) \in Nat
    BY ListLen DEF Other
  <2> HIDE DEF ps
  <2>2. rest = Subsequence(files, ps) /\ Picked(Subsequence(files, ps), files, ps)
    BY <2>1, SameSubsequence, SubsequenceOf
  <2> HIDE DEF rest
  <2>3. Picked(rest, files, ps)
    BY <2>2
  <2>. QED
    BY <2>1, <2>3 DEF Picked, Other
<1> HIDE DEF ps, pq, rest
<1>5. /\ \A d, x : EndsWith(R!Cmd(x, h.args \o rest, d), rest)
      /\ h.entry # <<>> => \A d, x : EndsWith(R!Cmd(x, Tail(h.entry) \o h.args \o rest, d), rest)
  BY <1>4, PlainEnds
<1>. QED
  BY <1>2, <1>3, <1>5

\* What every command ends with.
CommandOf(h, files, bin) ==
  LET ends(c, f) == c # R!Refused => R!IsSuffix(h.args \o f, c[1].args)
                                     /\ R!Cardinality({i \in DOMAIN c[1].args : c[1].args[i] = "arg"}) = 1
      named == IF h.pass THEN files ELSE <<>> IN
  /\ h.entry # <<>> => ends(R!BuildPythonCommand(h, files, bin, "dir"), named)
  /\ ends(R!BuildRustCommand(h, files, "root"), named)
  /\ ends(R!BuildNodejsCommand(h, files, "root"), named)
  /\ ends(R!BuildSystemCommand(h, files, "dir"), named)
  /\ ends(R!BuildScriptCommand(h, files, "dir"), named)
  /\ ends(R!BuildDockerCommand(h, files, "root"), named)
  /\ ends(R!BuildRubyCommand(h, files, "root"), files)
  /\ ends(R!BuildGoCommand(h, files, "root"),
          R!Subsequence(files, {i \in DOMAIN files : ~(Len(h.entry) = 3 /\ h.entry[1] = "go" /\ files[i] = h.entry[3])}))

LEMMA CommandsEnd1 ==
  ASSUME NEW h, IsCall(h), NEW files, Other(files), NEW bin
  PROVE  CommandOf(h, files, bin)
<1>1. R!PassedNames(h, files) = Given(h, files) /\ Other(Given(h, files))
  BY GivenOther
<1>2. h.entry # <<>> => EndsWith(R!BuildPythonCommand(h, files, bin, "dir"), Given(h, files))
  BY PythonEnds
<1>3. \A f : Other(f) => \A d, x : EndsWith(R!Cmd(x, h.args \o f, d), f)
  BY PlainEnds
<1>4. EndsWith(R!BuildRustCommand(h, files, "root"), Given(h, files))
  BY <1>1, <1>3 DEF R!BuildRustCommand
<1>5. EndsWith(R!BuildNodejsCommand(h, files, "root"), Given(h, files))
  BY <1>1, <1>3 DEF R!BuildNodejsCommand
<1>6. EndsWith(R!BuildSystemCommand(h, files, "dir"), Given(h, files))
  BY SystemEnds
<1>7. EndsWith(R!BuildScriptCommand(h, files, "dir"), Given(h, files))
  BY ScriptEnds
<1>8. EndsWith(R!BuildDockerCommand(h, files, "root"), Given(h, files))
  BY DockerEnds
<1>9. EndsWith(R!BuildRubyCommand(h, files, "root"), files)
  <2>1. h.entry # <<>> => \A d, x : EndsWith(R!Cmd(x, Tail(h.entry) \o h.args \o files, d), files)
    BY PlainEnds
  <2>. QED
    BY <1>3, <2>1, Zenon DEF R!BuildRubyCommand
<1>10. EndsWith(R!BuildGoCommand(h, files, "root"), Rest(h, files))
  BY GoEnds
<1>11. h.args = <<"arg">> /\ R!Refused = <<>>
  BY DEF IsCall, R!Refused
<1>. QED
  BY <1>2, <1>4, <1>5, <1>6, <1>7, <1>8, <1>9, <1>10, <1>11, Zenon DEF CommandOf, EndsWith, Given, Rest

-----------------------------------------------------------------------------
(* Language plugins: the files a hook has changed.                           *)

State(o) == o = <<>> \/ (o = <<o[1]>> /\ o[1].time \in Int)
ChangeOf(hook, old, new) ==
  LET before == R!CaptureFileStates({"f"}, [f \in {"f"} |-> old])
      seen == R!FilesModified(hook, before, {"f"}, [f \in {"f"} |-> new]) IN
  /\ seen # {} => old # <<>> /\ new # <<>> /\ old # new
  /\ (old # <<>> /\ new # <<>>) =>
       (old[1].hash # new[1].hash /\ hook.writes /\ ~hook.reads => seen = {"f"})

LEMMA ChangesSeen ==
  ASSUME NEW hook, NEW old, NEW new, State(old), State(new)
  PROVE  ChangeOf(hook, old, new)
<1> DEFINE was == [f \in {"f"} |-> old]
           now == [f \in {"f"} |-> new]
           before == R!CaptureFileStates({"f"}, was)
           hit == {f \in {"f"} : f \in DOMAIN before /\ now[f] # <<>> /\ R!IsModified(now[f][1], before[f])}
           seen == R!FilesModified(hook, before, {"f"}, now)
           likely == ~hook.reads /\ (hook.writes \/ hook.fixarg)
<1>1. seen = IF likely THEN hit ELSE {}
  BY Zenon DEF R!FilesModified, R!HookLikelyModifiesFiles, R!DetectModifiedFiles
<1>2. /\ "f" \in DOMAIN before <=> old # <<>>
      /\ old # <<>> => before["f"] = old[1]
      /\ was["f"] = old /\ now["f"] = new
  <2>1. before = [f \in {g \in {"f"} : was[g] # <<>>} |-> was[f][1]]
    BY Zenon DEF R!CaptureFileStates
  <2>2. was["f"] = old /\ now["f"] = new
    OBVIOUS
  <2> HIDE DEF before, was, now
  <2>. QED
    BY <2>1, <2>2
<1> HIDE DEF before, was, now
<1>3. /\ hit # {} => hit = {"f"}
      /\ "f" \in hit <=> old # <<>> /\ new # <<>> /\ R!IsModified(new[1], old[1])
  BY <1>2
<1> HIDE DEF hit, seen, likely
<1>4. old # <<>> /\ old = new => ~R!IsModified(new[1], old[1])
  <2>1. SUFFICES ASSUME old # <<>>, old = new PROVE ~R!IsModified(old[1], old[1])
    OBVIOUS
  <2>2. old[1].time \in Int
    BY <2>1 DEF State
  <2>. QED
    BY <2>2 DEF R!IsModified
<1>5. old[1].hash # new[1].hash => R!IsModified(new[1], old[1])
  BY DEF R!IsModified
<1>6. hook.writes /\ ~hook.reads => likely
  BY Zenon DEF likely
<1>7. /\ seen # {} => old # <<>> /\ new # <<>> /\ old # new
      /\ (old # <<>> /\ new # <<>>) => (old[1].hash # new[1].hash /\ hook.writes /\ ~hook.reads => seen = {"f"})
  <2>1. seen # {} => "f" \in hit
    BY <1>1, <1>3
  <2>2. ASSUME old # <<>>, new # <<>>, old[1].hash # new[1].hash, hook.writes, ~hook.reads PROVE seen = {"f"}
    BY <1>1, <1>3, <1>5, <1>6, <2>2, Zenon
  <2>. QED
    BY <1>3, <1>4, <2>1, <2>2, Zenon
<1>. QED
  BY <1>7, Zenon DEF ChangeOf, seen, before, was, now

\* What a question holds of what its rule needs.
FileParts ==
  /\ q.kind = "command" => IsCall(q.hook) /\ Other(q.files)
  /\ q.kind = "change" => State(q.old) /\ State(q.new)

LEMMA AnyFile == FileParts => R!FilesReachHook
<1>1. SUFFICES ASSUME FileParts PROVE R!FilesReachHook
  OBVIOUS
<1>2. q.kind = "command" => CommandOf(q.hook, q.files, q.bin)
  BY <1>1, CommandsEnd1 DEF FileParts
<1>3. q.kind = "change" => ChangeOf(q.hook, q.old, q.new)
  BY <1>1, ChangesSeen DEF FileParts
<1>. QED
  BY <1>2, <1>3, Zenon DEF R!FilesReachHook, R!Asked, CommandOf, ChangeOf

-----------------------------------------------------------------------------
(* Language plugins: what is found above a directory.                        *)

LEMMA NearestOf ==
  ASSUME NEW n \in Nat, NEW hits, hits \subseteq 1..n
  PROVE  /\ R!Nearest(hits) \in 0..n
         /\ R!Nearest(hits) = 0 <=> hits = {}
         /\ R!Nearest(hits) # 0 => R!Nearest(hits) \in hits
         /\ \A i \in hits : i <= R!Nearest(hits)
<1>1. CASE hits = {}
  BY <1>1 DEF R!Nearest
<1>2. CASE hits # {}
  <2>1. R!Max(hits) \in hits /\ \A i \in hits : i <= R!Max(hits)
    BY <1>2, LargestOf
  <2>2. R!Nearest(hits) = R!Max(hits)
    BY <1>2 DEF R!Nearest
  <2>3. R!Max(hits) # 0 /\ R!Max(hits) \in 0..n
    <3>1. R!Max(hits) \in 1..n
      BY <2>1, Zenon
    <3>2. \A x \in 1..n : x # 0 /\ x \in 0..n
      OBVIOUS
    <3>. QED
      BY <3>1, <3>2, Zenon
  <2>. QED
    BY <1>2, <2>1, <2>2, <2>3
<1>. QED
  BY <1>1, <1>2

SearchOf(ds) ==
  LET n == Len(ds)
      c == R!FindCargoToml(ds)
      w == R!FindWorkspaceRoot(ds) IN
  /\ \A i \in c + 1..n : "Cargo.toml" \notin ds[i]
  /\ w = <<>> => \A i \in 1..n : ~R!IsWorkspaceRoot(ds[i])
  /\ Len(w) = 2 => /\ R!IsWorkspaceRoot(ds[w[2]])
                   /\ \A i \in w[2] + 1..n : ~R!IsWorkspaceRoot(ds[i])
                   /\ R!FindProjectRoot(ds) >= w[2]

LEMMA RootsFound ==
  ASSUME NEW ds, Listed(ds)
  PROVE  SearchOf(ds)
<1> DEFINE n == Len(ds)
           c == R!FindCargoToml(ds)
           w == R!FindWorkspaceRoot(ds)
           toml == {i \in DOMAIN ds : "Cargo.toml" \in ds[i]}
           root == {k \in DOMAIN ds : "package.json" \in ds[k] /\ ("broken" \in ds[k] \/ R!IsWorkspaceRoot(ds[k]))}
           json == {k \in DOMAIN ds : "package.json" \in ds[k]}
           i0 == R!Nearest(root)
           j0 == R!Nearest(json)
<1>1. n \in Nat /\ DOMAIN ds = 1..n
  BY ListLen
<1>2. /\ c = R!Nearest(toml)
      /\ w = IF i0 = 0 THEN <<>> ELSE IF "broken" \in ds[i0] THEN <<R!Err>> ELSE <<"found", i0>>
      /\ R!FindProjectRoot(ds) = IF j0 = 0 THEN Len(ds) ELSE j0
  BY Zenon DEF R!FindCargoToml, R!FindWorkspaceRoot, R!FindProjectRoot
<1>3. toml \subseteq 1..n /\ root \subseteq 1..n /\ json \subseteq 1..n /\ root \subseteq json
  BY <1>1
<1>4. \A i \in DOMAIN ds : R!IsWorkspaceRoot(ds[i]) => i \in root
  BY DEF R!IsWorkspaceRoot
<1>5. \A i \in root : R!IsWorkspaceRoot(ds[i]) \/ "broken" \in ds[i]
  OBVIOUS
<1>6. \A i \in DOMAIN ds : "Cargo.toml" \in ds[i] => i \in toml
  OBVIOUS
<1> HIDE DEF toml, root, json, n
<1>7. /\ c \in 0..n /\ \A i \in toml : i <= c
      /\ i0 \in 0..n /\ (i0 = 0 <=> root = {}) /\ (i0 # 0 => i0 \in root) /\ \A i \in root : i <= i0
      /\ j0 \in 0..n /\ (j0 = 0 <=> json = {}) /\ \A i \in json : i <= j0
  <2>0. c = R!Nearest(toml)
    BY <1>2
  <2>1. c \in 0..n /\ \A i \in toml : i <= c
    <3>1. R!Nearest(toml) \in 0..n /\ \A i \in toml : i <= R!Nearest(toml)
      BY <1>1, <1>3, NearestOf
    <3>. QED
      BY <2>0, <3>1
  <2>2. i0 \in 0..n /\ (i0 = 0 <=> root = {}) /\ (i0 # 0 => i0 \in root) /\ \A i \in root : i <= i0
    BY <1>1, <1>3, NearestOf
  <2>3. j0 \in 0..n /\ (j0 = 0 <=> json = {}) /\ \A i \in json : i <= j0
    BY <1>1, <1>3, NearestOf
  <2>. QED
    BY <2>1, <2>2, <2>3, Zenon
<1> HIDE DEF c, i0, j0
<1>8. \A i \in c + 1..n : "Cargo.toml" \notin ds[i]
  BY <1>1, <1>6, <1>7
<1>9. w = <<>> => \A i \in 1..n : ~R!IsWorkspaceRoot(ds[i])
  <2>1. w = <<>> => i0 = 0
    BY <1>2
  <2>. QED
    BY <1>1, <1>4, <1>7, <2>1
<1>10. Len(w) = 2 => i0 # 0 /\ "broken" \notin ds[i0] /\ w[2] = i0
  <2> DEFINE none == <<>>
             err == <<R!Err>>
             got == <<"found", i0>>
  <2>1. Len(none) = 0 /\ Len(err) = 1 /\ got[2] = i0
    OBVIOUS
  <2>2. w = IF i0 = 0 THEN none ELSE IF "broken" \in ds[i0] THEN err ELSE got
    BY <1>2
  <2> HIDE DEF none, err, got, w
  <2>. QED
    BY <2>1, <2>2
<1> HIDE DEF w
<1>11. ASSUME Len(w) = 2
       PROVE  /\ R!IsWorkspaceRoot(ds[w[2]])
              /\ \A i \in w[2] + 1..n : ~R!IsWorkspaceRoot(ds[i])
              /\ R!FindProjectRoot(ds) >= w[2]
  <2>1. i0 \in root /\ i0 # 0 /\ w[2] = i0 /\ "broken" \notin ds[i0]
    BY <1>7, <1>10, <1>11
  <2>2. R!IsWorkspaceRoot(ds[i0])
    BY <1>5, <2>1
  <2>3. \A i \in i0 + 1..n : ~R!IsWorkspaceRoot(ds[i])
    BY <1>1, <1>4, <1>7, <2>1
  <2>4. i0 \in json /\ j0 # 0 /\ i0 <= j0
    BY <1>3, <1>7, <2>1
  <2>. QED
    BY <1>2, <1>7, <2>1, <2>2, <2>3, <2>4
<1>. QED
  BY <1>8, <1>9, <1>11, Zenon DEF SearchOf, c, w, n

CargoOf(toml, members) ==
  LET r == R!AnalyzeCargoWorkspace(toml, members) IN
  r # R!Refused => \A i \in DOMAIN r[1] : r[1][i] = "package"

LEMMA WorkspaceRead ==
  ASSUME NEW toml, NEW members
  PROVE  CargoOf(toml, members)
<1> DEFINE ps == {i \in DOMAIN members : members[i] # "missing"}
           there == R!Subsequence(members, ps)
           r == R!AnalyzeCargoWorkspace(toml, members)
           got == R!DiscoverWorkspaceMembers(members)
<1>1. /\ r = <<<<"package">>>> \/ r = <<>> \/ r = got
      /\ got = IF \E i \in DOMAIN there : R!ParseCargoPackage(there[i]) = R!Err THEN <<>> ELSE <<there>>
  <2>1. r = <<<<"package">>>> \/ r = R!Refused \/ r = got
    BY Zenon DEF R!AnalyzeCargoWorkspace
  <2>2. got = IF \E i \in DOMAIN there : R!ParseCargoPackage(there[i]) = R!Err THEN R!Refused ELSE <<there>>
    BY Zenon DEF R!DiscoverWorkspaceMembers
  <2>. QED
    BY <2>1, <2>2 DEF R!Refused
<1> DEFINE one == <<"package">>
<1>2. \A i \in DOMAIN one : one[i] = "package"
  OBVIOUS
<1>3. ASSUME ~ \E i \in DOMAIN there : R!ParseCargoPackage(there[i]) = R!Err
      PROVE  \A i \in DOMAIN there : there[i] = "package"
  BY <1>3 DEF R!ParseCargoPackage
<1> HIDE DEF there, one, got, r
<1>4. \A x : <<x>> # <<>> /\ <<x>>[1] = x
  OBVIOUS
<1>5. r # <<>> => \A i \in DOMAIN r[1] : r[1][i] = "package"
  <2>1. r = <<one>> \/ r = <<>> \/ (r = <<there>> /\ ~ \E i \in DOMAIN there : R!ParseCargoPackage(there[i]) = R!Err)
    BY <1>1, Zenon DEF one
  <2>. QED
    BY <1>2, <1>3, <1>4, <2>1
<1>. QED
  BY <1>5, Zenon DEF CargoOf, R!Refused, r

-----------------------------------------------------------------------------
(* Language plugins: files that are read line by line.                       *)

LEMMA GemfileSteps ==
  ASSUME NEW lines, Listed(lines)
  PROVE  LET run == R!GemfileRun(lines) IN
         /\ run[0] = [groups |-> "default", stack |-> <<>>, gems |-> <<>>]
         /\ \A n \in 1..Len(lines) : run[n] = R!GemfileLine(run[n - 1], lines[n])
<1> DEFINE L == Len(lines)
           zero == [groups |-> "default", stack |-> <<>>, gems |-> <<>>]
           next(a, n) == R!GemfileLine(a, lines[n])
           Steps(f) == f = [n \in 0..L |-> IF n = 0 THEN zero ELSE next(f[n - 1], n)]
           Upto(f, n) == f = [i \in 0..n |-> f[i]] /\ f[0] = zero /\ \A i \in 1..n : f[i] = next(f[i - 1], i)
           Bad == {n \in 0..L : ~ \E f : Upto(f, n)}
           run == CHOOSE f : Steps(f)
<1>1. R!GemfileRun(lines) = run
  BY DEF R!GemfileRun
<1>2. L \in Nat
  BY ListLen
<1> HIDE DEF L, zero, next
<1>3. Bad = {}
  <2>1. SUFFICES ASSUME Bad # {} PROVE FALSE
    OBVIOUS
  <2>2. PICK m \in Bad : \A k \in Bad : m <= k
    <3>1. Bad \subseteq Nat
      BY <1>2
    <3> HIDE DEF Bad
    <3>. QED
      BY <2>1, <3>1, LeastNatural
  <2>3. m \in 0..L /\ ~ \E f : Upto(f, m)
    BY <2>2
  <2>4. m # 0
    <3> DEFINE f == [i \in 0..0 |-> zero]
    <3>1. Upto(f, 0)
      OBVIOUS
    <3>. QED
      BY <2>3, <3>1
  <2>5. m - 1 \in 0..L /\ m - 1 \notin Bad /\ m \in Nat
    <3> HIDE DEF Bad
    <3>1. m - 1 \in 0..L /\ ~ (m <= m - 1) /\ m \in Nat
      BY <1>2, <2>3, <2>4
    <3>. QED
      BY <2>2, <3>1
  <2>6. PICK f : Upto(f, m - 1)
    <3> HIDE DEF Upto
    <3>. QED
      BY <2>5
  <2> DEFINE x == next(f[m - 1], m)
             h == [i \in 0..m |-> IF i = m THEN x ELSE f[i]]
  <2>7. /\ \A i \in 0..m : i # m => h[i] = f[i]
        /\ h[m] = x
        /\ h = [i \in 0..m |-> h[i]]
    BY <2>3
  <2> HIDE DEF h
  <2>8. h[0] = zero
    BY <2>3, <2>4, <2>6, <2>7
  <2>9. ASSUME NEW i \in 1..m PROVE h[i] = next(h[i - 1], i)
    <3>1. CASE i = m
      <4>1. m - 1 \in 0..m /\ m - 1 # m
        BY <2>4, <2>5
      <4>2. h[m - 1] = f[m - 1]
        BY <2>7, <4>1
      <4>. QED
        BY <2>7, <3>1, <4>2
    <3>2. CASE i # m
      <4>1. i \in 1..m - 1 /\ i \in 0..m /\ i - 1 \in 0..m /\ i - 1 # m
        BY <2>5, <3>2
      <4>2. h[i] = f[i] /\ h[i - 1] = f[i - 1] /\ f[i] = next(f[i - 1], i)
        BY <2>6, <2>7, <3>2, <4>1
      <4>. QED
        BY <4>2
    <3>. QED
      BY <3>1, <3>2
  <2>10. Upto(h, m)
    BY <2>7, <2>8, <2>9
  <2>. QED
    BY <2>3, <2>10
<1>4. PICK f : Upto(f, L)
  <2> HIDE DEF Upto
  <2>1. L \in 0..L
    BY <1>2
  <2>. QED
    BY <1>3, <2>1
<1>5. Steps(f)
  <2>1. \A n \in 0..L : f[n] = IF n = 0 THEN zero ELSE next(f[n - 1], n)
    <3>1. \A n \in 0..L : n = 0 \/ n \in 1..L
      BY <1>2
    <3>. QED
      BY <1>4, <3>1
  <2>2. f = [n \in 0..L |-> f[n]]
    BY <1>4
  <2>. QED
    BY <2>1, <2>2
<1>6. Steps(run)
  <2> HIDE DEF Steps
  <2>. QED
    BY <1>5
<1> HIDE DEF run
<1>7. \A n \in 0..L : run[n] = IF n = 0 THEN zero ELSE next(run[n - 1], n)
  BY <1>6
<1>8. 0 \in 0..L /\ \A n \in 1..L : n \in 0..L /\ n # 0
  BY <1>2
<1>9. run[0] = zero /\ \A n \in 1..L : run[n] = next(run[n - 1], n)
  BY <1>7, <1>8
<1>. QED
  BY <1>1, <1>9 DEF L, zero, next

LEMMA GoModSteps ==
  ASSUME NEW lines, Listed(lines)
  PROVE  LET run == R!GoModRun(lines) IN
         /\ run[0] = [block |-> FALSE, deps |-> 0, replaced |-> 0]
         /\ \A n \in 1..Len(lines) : run[n] = R!GoModLine(run[n - 1], lines[n])
<1> DEFINE L == Len(lines)
           zero == [block |-> FALSE, deps |-> 0, replaced |-> 0]
           next(a, n) == R!GoModLine(a, lines[n])
           Steps(f) == f = [n \in 0..L |-> IF n = 0 THEN zero ELSE next(f[n - 1], n)]
           Upto(f, n) == f = [i \in 0..n |-> f[i]] /\ f[0] = zero /\ \A i \in 1..n : f[i] = next(f[i - 1], i)
           Bad == {n \in 0..L : ~ \E f : Upto(f, n)}
           run == CHOOSE f : Steps(f)
<1>1. R!GoModRun(lines) = run
  BY DEF R!GoModRun
<1>2. L \in Nat
  BY ListLen
<1> HIDE DEF L, zero, next
<1>3. Bad = {}
  <2>1. SUFFICES ASSUME Bad # {} PROVE FALSE
    OBVIOUS
  <2>2. PICK m \in Bad : \A k \in Bad : m <= k
    <3>1. Bad \subseteq Nat
      BY <1>2
    <3> HIDE DEF Bad
    <3>. QED
      BY <2>1, <3>1, LeastNatural
  <2>3. m \in 0..L /\ ~ \E f : Upto(f, m)
    BY <2>2
  <2>4. m # 0
    <3> DEFINE f == [i \in 0..0 |-> zero]
    <3>1. Upto(f, 0)
      OBVIOUS
    <3>. QED
      BY <2>3, <3>1
  <2>5. m - 1 \in 0..L /\ m - 1 \notin Bad /\ m \in Nat
    <3> HIDE DEF Bad
    <3>1. m - 1 \in 0..L /\ ~ (m <= m - 1) /\ m \in Nat
      BY <1>2, <2>3, <2>4
    <3>. QED
      BY <2>2, <3>1
  <2>6. PICK f : Upto(f, m - 1)
    <3> HIDE DEF Upto
    <3>. QED
      BY <2>5
  <2> DEFINE x == next(f[m - 1], m)
             h == [i \in 0..m |-> IF i = m THEN x ELSE f[i]]
  <2>7. /\ \A i \in 0..m : i # m => h[i] = f[i]
        /\ h[m] = x
        /\ h = [i \in 0..m |-> h[i]]
    BY <2>3
  <2> HIDE DEF h
  <2>8. h[0] = zero
    BY <2>3, <2>4, <2>6, <2>7
  <2>9. ASSUME NEW i \in 1..m PROVE h[i] = next(h[i - 1], i)
    <3>1. CASE i = m
      <4>1. m - 1 \in 0..m /\ m - 1 # m
        BY <2>4, <2>5
      <4>2. h[m - 1] = f[m - 1]
        BY <2>7, <4>1
      <4>. QED
        BY <2>7, <3>1, <4>2
    <3>2. CASE i # m
      <4>1. i \in 1..m - 1 /\ i \in 0..m /\ i - 1 \in 0..m /\ i - 1 # m
        BY <2>5, <3>2
      <4>2. h[i] = f[i] /\ h[i - 1] = f[i - 1] /\ f[i] = next(f[i - 1], i)
        BY <2>6, <2>7, <3>2, <4>1
      <4>. QED
        BY <4>2
    <3>. QED
      BY <3>1, <3>2
  <2>10. Upto(h, m)
    BY <2>7, <2>8, <2>9
  <2>. QED
    BY <2>3, <2>10
<1>4. PICK f : Upto(f, L)
  <2> HIDE DEF Upto
  <2>1. L \in 0..L
    BY <1>2
  <2>. QED
    BY <1>3, <2>1
<1>5. Steps(f)
  <2>1. \A n \in 0..L : f[n] = IF n = 0 THEN zero ELSE next(f[n - 1], n)
    <3>1. \A n \in 0..L : n = 0 \/ n \in 1..L
      BY <1>2
    <3>. QED
      BY <1>4, <3>1
  <2>2. f = [n \in 0..L |-> f[n]]
    BY <1>4
  <2>. QED
    BY <2>1, <2>2
<1>6. Steps(run)
  <2> HIDE DEF Steps
  <2>. QED
    BY <1>5
<1> HIDE DEF run
<1>7. \A n \in 0..L : run[n] = IF n = 0 THEN zero ELSE next(run[n - 1], n)
  BY <1>6
<1>8. 0 \in 0..L /\ \A n \in 1..L : n \in 0..L /\ n # 0
  BY <1>2
<1>9. run[0] = zero /\ \A n \in 1..L : run[n] = next(run[n - 1], n)
  BY <1>7, <1>8
<1>. QED
  BY <1>1, <1>9 DEF L, zero, next

LEMMA DockerfileSteps ==
  ASSUME NEW lines, Listed(lines)
  PROVE  LET run == R!DockerfileRun(lines) IN
         /\ run[0] = [base |-> R!None, dir |-> R!None, ports |-> <<>>]
         /\ \A n \in 1..Len(lines) : run[n] = R!DockerfileLine(run[n - 1], lines[n])
<1> DEFINE L == Len(lines)
           zero == [base |-> R!None, dir |-> R!None, ports |-> <<>>]
           next(a, n) == R!DockerfileLine(a, lines[n])
           Steps(f) == f = [n \in 0..L |-> IF n = 0 THEN zero ELSE next(f[n - 1], n)]
           Upto(f, n) == f = [i \in 0..n |-> f[i]] /\ f[0] = zero /\ \A i \in 1..n : f[i] = next(f[i - 1], i)
           Bad == {n \in 0..L : ~ \E f : Upto(f, n)}
           run == CHOOSE f : Steps(f)
<1>1. R!DockerfileRun(lines) = run
  BY DEF R!DockerfileRun
<1>2. L \in Nat
  BY ListLen
<1> HIDE DEF L, zero, next
<1>3. Bad = {}
  <2>1. SUFFICES ASSUME Bad # {} PROVE FALSE
    OBVIOUS
  <2>2. PICK m \in Bad : \A k \in Bad : m <= k
    <3>1. Bad \subseteq Nat
      BY <1>2
    <3> HIDE DEF Bad
    <3>. QED
      BY <2>1, <3>1, LeastNatural
  <2>3. m \in 0..L /\ ~ \E f : Upto(f, m)
    BY <2>2
  <2>4. m # 0
    <3> DEFINE f == [i \in 0..0 |-> zero]
    <3>1. Upto(f, 0)
      OBVIOUS
    <3>. QED
      BY <2>3, <3>1
  <2>5. m - 1 \in 0..L /\ m - 1 \notin Bad /\ m \in Nat
    <3> HIDE DEF Bad
    <3>1. m - 1 \in 0..L /\ ~ (m <= m - 1) /\ m \in Nat
      BY <1>2, <2>3, <2>4
    <3>. QED
      BY <2>2, <3>1
  <2>6. PICK f : Upto(f, m - 1)
    <3> HIDE DEF Upto
    <3>. QED
      BY <2>5
  <2> DEFINE x == next(f[m - 1], m)
             h == [i \in 0..m |-> IF i = m THEN x ELSE f[i]]
  <2>7. /\ \A i \in 0..m : i # m => h[i] = f[i]
        /\ h[m] = x
        /\ h = [i \in 0..m |-> h[i]]
    BY <2>3
  <2> HIDE DEF h
  <2>8. h[0] = zero
    BY <2>3, <2>4, <2>6, <2>7
  <2>9. ASSUME NEW i \in 1..m PROVE h[i] = next(h[i - 1], i)
    <3>1. CASE i = m
      <4>1. m - 1 \in 0..m /\ m - 1 # m
        BY <2>4, <2>5
      <4>2. h[m - 1] = f[m - 1]
        BY <2>7, <4>1
      <4>. QED
        BY <2>7, <3>1, <4>2
    <3>2. CASE i # m
      <4>1. i \in 1..m - 1 /\ i \in 0..m /\ i - 1 \in 0..m /\ i - 1 # m
        BY <2>5, <3>2
      <4>2. h[i] = f[i] /\ h[i - 1] = f[i - 1] /\ f[i] = next(f[i - 1], i)
        BY <2>6, <2>7, <3>2, <4>1
      <4>. QED
        BY <4>2
    <3>. QED
      BY <3>1, <3>2
  <2>10. Upto(h, m)
    BY <2>7, <2>8, <2>9
  <2>. QED
    BY <2>3, <2>10
<1>4. PICK f : Upto(f, L)
  <2> HIDE DEF Upto
  <2>1. L \in 0..L
    BY <1>2
  <2>. QED
    BY <1>3, <2>1
<1>5. Steps(f)
  <2>1. \A n \in 0..L : f[n] = IF n = 0 THEN zero ELSE next(f[n - 1], n)
    <3>1. \A n \in 0..L : n = 0 \/ n \in 1..L
      BY <1>2
    <3>. QED
      BY <1>4, <3>1
  <2>2. f = [n \in 0..L |-> f[n]]
    BY <1>4
  <2>. QED
    BY <2>1, <2>2
<1>6. Steps(run)
  <2> HIDE DEF Steps
  <2>. QED
    BY <1>5
<1> HIDE DEF run
<1>7. \A n \in 0..L : run[n] = IF n = 0 THEN zero ELSE next(run[n - 1], n)
  BY <1>6
<1>8. 0 \in 0..L /\ \A n \in 1..L : n \in 0..L /\ n # 0
  BY <1>2
<1>9. run[0] = zero /\ \A n \in 1..L : run[n] = next(run[n - 1], n)
  BY <1>7, <1>8
<1>. QED
  BY <1>1, <1>9 DEF L, zero, next

LEMMA Upward ==
  ASSUME NEW L \in Nat, NEW S, 0 \in S, \A n \in 0..L - 1 : n \in S => n + 1 \in S
  PROVE  \A n \in 0..L : n \in S
<1> DEFINE Bad == {n \in 0..L : n \notin S}
<1>1. SUFFICES ASSUME Bad # {} PROVE FALSE
  OBVIOUS
<1>2. PICK m \in Bad : \A k \in Bad : m <= k
  <2>1. Bad \subseteq Nat
    OBVIOUS
  <2> HIDE DEF Bad
  <2>. QED
    BY <1>1, <2>1, LeastNatural
<1>3. m # 0 /\ m \in 0..L /\ m \notin S
  BY <1>2
<1>4. m - 1 \in 0..L - 1 /\ m - 1 \in 0..L /\ ~ (m <= m - 1) /\ (m - 1) + 1 = m
  BY <1>3
<1>5. m - 1 \notin Bad
  <2> HIDE DEF Bad
  <2>. QED
    BY <1>2, <1>4
<1>6. m - 1 \in S
  BY <1>4, <1>5
<1>. QED
  BY <1>3, <1>4, <1>6

GoModOf(lines) ==
  LET m == R!ParseGoMod(lines) IN
  ("require (" \notin R!ToSet(lines)) =>
    /\ m.deps = R!Cardinality({i \in DOMAIN lines : lines[i] = "require x"})
    /\ m.replaced = R!Cardinality({i \in DOMAIN lines : lines[i] = "replace x"})

\* A counter of a go.mod goes up.
LEMMA GoModCounts ==
  ASSUME NEW b, NEW d, NEW r, NEW a, a = [block |-> b, deps |-> d, replaced |-> r], NEW x
  PROVE  /\ a.block = b /\ a.deps = d /\ a.replaced = r
         /\ [a EXCEPT !.deps = x] = [block |-> b, deps |-> x, replaced |-> r]
         /\ [a EXCEPT !.replaced = x] = [block |-> b, deps |-> d, replaced |-> x]
OBVIOUS

LEMMA GoModStep ==
  ASSUME NEW d, NEW r
  PROVE  \A b, a : a = [block |-> b, deps |-> d, replaced |-> r] =>
           /\ [a EXCEPT !.deps = a.deps + 1] = [block |-> b, deps |-> d + 1, replaced |-> r]
           /\ [a EXCEPT !.replaced = a.replaced + 1] = [block |-> b, deps |-> d, replaced |-> r + 1]
           /\ a.block = b
<1>1. SUFFICES ASSUME NEW b, NEW a, a = [block |-> b, deps |-> d, replaced |-> r]
               PROVE  /\ [a EXCEPT !.deps = a.deps + 1] = [block |-> b, deps |-> d + 1, replaced |-> r]
                      /\ [a EXCEPT !.replaced = a.replaced + 1] = [block |-> b, deps |-> d, replaced |-> r + 1]
                      /\ a.block = b
  OBVIOUS
<1>2. a.deps = d /\ a.replaced = r /\ a.block = b
  BY <1>1, GoModCounts
<1>3. \A x : /\ [a EXCEPT !.deps = x] = [block |-> b, deps |-> x, replaced |-> r]
             /\ [a EXCEPT !.replaced = x] = [block |-> b, deps |-> d, replaced |-> x]
  BY <1>1, GoModCounts
<1>. QED
  BY <1>2, <1>3, Zenon

LEMMA GoModRead ==
  ASSUME NEW lines, Listed(lines)
  PROVE  GoModOf(lines)
<1> DEFINE L == Len(lines)
           run == R!GoModRun(lines)
           ps == {i \in DOMAIN lines : lines[i] = "require x"}
           pr == {i \in DOMAIN lines : lines[i] = "replace x"}
           st(d, r) == [block |-> FALSE, deps |-> d, replaced |-> r]
           S == {n \in 0..L : run[n] = st(Rank(ps, n), Rank(pr, n))}
<1>1. L \in Nat /\ DOMAIN lines = 1..L
  BY ListLen
<1>2. SUFFICES ASSUME "require (" \notin R!ToSet(lines)
               PROVE  /\ R!ParseGoMod(lines).deps = R!Cardinality(ps)
                      /\ R!ParseGoMod(lines).replaced = R!Cardinality(pr)
  BY Zenon DEF GoModOf
<1>3. \A i \in 1..L : lines[i] # "require ("
  BY <1>1, <1>2 DEF R!ToSet
<1>4. ps \subseteq 1..L /\ pr \subseteq 1..L /\ ps \cap pr = {}
  BY <1>1
<1>5. run[0] = st(0, 0) /\ \A n \in 1..L : run[n] = R!GoModLine(run[n - 1], lines[n])
  BY GoModSteps
<1>6. /\ \A i \in 1..L : i \in ps <=> lines[i] = "require x"
      /\ \A i \in 1..L : i \in pr <=> lines[i] = "replace x"
  BY <1>1
<1>7. /\ \A d, r, l : l = "require x" => R!GoModLine(st(d, r), l) = st(d + 1, r)
      /\ \A d, r, l : l = "replace x" => R!GoModLine(st(d, r), l) = st(d, r + 1)
      /\ \A d, r, l : l \notin {"require (", "require x", "replace x"} => R!GoModLine(st(d, r), l) = st(d, r)
  <2>1. ASSUME NEW d, NEW r PROVE
          /\ [st(d, r) EXCEPT !.deps = @ + 1] = st(d + 1, r)
          /\ [st(d, r) EXCEPT !.replaced = @ + 1] = st(d, r + 1)
          /\ st(d, r).block = FALSE
    <3> DEFINE goal(b, a) == /\ [a EXCEPT !.deps = a.deps + 1] = [block |-> b, deps |-> d + 1, replaced |-> r]
                             /\ [a EXCEPT !.replaced = a.replaced + 1] = [block |-> b, deps |-> d, replaced |-> r + 1]
                             /\ a.block = b
    <3>1. \A b, a : a = [block |-> b, deps |-> d, replaced |-> r] => goal(b, a)
      BY GoModStep
    <3> HIDE DEF goal
    <3>2. goal(FALSE, st(d, r))
      BY <3>1, Zenon
    <3>. QED
      BY <3>2, Zenon DEF goal
  <2> HIDE DEF st
  <2>2. ASSUME NEW d, NEW r, NEW l, l = "require x" PROVE R!GoModLine(st(d, r), l) = st(d + 1, r)
    BY <2>1, <2>2, Zenon DEF R!GoModLine
  <2>3. ASSUME NEW d, NEW r, NEW l, l = "replace x" PROVE R!GoModLine(st(d, r), l) = st(d, r + 1)
    BY <2>1, <2>3, Zenon DEF R!GoModLine
  <2>4. ASSUME NEW d, NEW r, NEW l, l \notin {"require (", "require x", "replace x"}
        PROVE  R!GoModLine(st(d, r), l) = st(d, r)
    BY <2>1, <2>4, Zenon DEF R!GoModLine
  <2>. QED
    BY <2>2, <2>3, <2>4
<1> HIDE DEF L, run, ps, pr, st
<1>8. Ranked(ps, L) /\ Ranked(pr, L)
  BY <1>1, <1>4, RankSteps
<1>9. 0 \in S
  <2>1. Rank(ps, 0) = 0 /\ Rank(pr, 0) = 0
    BY <1>8 DEF Ranked
  <2>2. 0 \in 0..L
    BY <1>1
  <2>3. run[0] = st(Rank(ps, 0), Rank(pr, 0))
    BY <1>5, <2>1, Zenon
  <2>. QED
    BY <2>2, <2>3
<1>10. ASSUME NEW n \in 0..L - 1, n \in S PROVE n + 1 \in S
  <2>1. n \in Nat /\ n + 1 \in 1..L /\ (n + 1) - 1 = n /\ n + 1 \in 0..L
    BY <1>1
  <2> DEFINE d == Rank(ps, n)
             r == Rank(pr, n)
             l == lines[n + 1]
  <2>2. run[n + 1] = R!GoModLine(run[n], l) /\ run[n] = st(d, r)
    BY <1>5, <1>10, <2>1
  <2>3. l # "require ("
    BY <1>3, <2>1
  <2>4. /\ Rank(ps, n + 1) = IF l = "require x" THEN d + 1 ELSE d
        /\ Rank(pr, n + 1) = IF l = "replace x" THEN r + 1 ELSE r
    BY <1>6, <1>8, <2>1 DEF Ranked
  <2>6. run[n + 1] = st(Rank(ps, n + 1), Rank(pr, n + 1))
    <3>1. run[n + 1] = R!GoModLine(st(d, r), l)
      BY <2>2
    <3> HIDE DEF d, r, l
    <3>2. /\ l = "require x" => R!GoModLine(st(d, r), l) = st(d + 1, r)
          /\ l = "replace x" => R!GoModLine(st(d, r), l) = st(d, r + 1)
          /\ l \notin {"require (", "require x", "replace x"} => R!GoModLine(st(d, r), l) = st(d, r)
      BY <1>7
    <3>3. CASE l = "require x"
      BY <2>4, <3>1, <3>2, <3>3
    <3>4. CASE l = "replace x"
      BY <2>4, <3>1, <3>2, <3>4
    <3>5. CASE l # "require x" /\ l # "replace x"
      BY <2>3, <2>4, <3>1, <3>2, <3>5
    <3>. QED
      BY <3>3, <3>4, <3>5
  <2>. QED
    BY <2>1, <2>6
<1>11. L \in S
  <2> HIDE DEF S
  <2>1. \A n \in 0..L : n \in S
    BY <1>1, <1>9, <1>10, Upward
  <2>. QED
    BY <1>1, <2>1
<1>12. run[L] = st(Cardinality(ps), Cardinality(pr))
  BY <1>8, <1>11 DEF Ranked
<1>13. R!ParseGoMod(lines) = run[L]
  BY Zenon DEF R!ParseGoMod, run, L
<1>14. R!Cardinality(ps) = Cardinality(ps) /\ R!Cardinality(pr) = Cardinality(pr)
  BY Zenon DEF R!Cardinality, Cardinality
<1>15. \A d, r : st(d, r).deps = d /\ st(d, r).replaced = r
  BY DEF st
<1>. QED
  BY <1>12, <1>13, <1>14, <1>15

\* The lines of a Dockerfile.
DockerfileOf(lines) ==
  LET d == R!ParseDockerfile(lines)
      from == {i \in DOMAIN lines : lines[i].kind = "FROM"}
      dir == {i \in DOMAIN lines : lines[i].kind = "WORKDIR"} IN
  /\ d.base = IF from = {} THEN R!None ELSE lines[R!Min(from)].value
  /\ d.dir = IF dir = {} THEN R!None ELSE lines[R!Max(dir)].value

LEMMA DockerfileRead ==
  ASSUME NEW lines, Listed(lines), \A i \in 1..Len(lines) : lines[i].value # R!None
  PROVE  DockerfileOf(lines)
<1> DEFINE L == Len(lines)
           run == R!DockerfileRun(lines)
           from == {i \in DOMAIN lines : lines[i].kind = "FROM"}
           dir == {i \in DOMAIN lines : lines[i].kind = "WORKDIR"}
           st(b, d, p) == [base |-> b, dir |-> d, ports |-> p]
           based(n, b) == \/ b = R!None /\ \A i \in from : n < i
                          \/ \E i \in from : i <= n /\ b = lines[i].value /\ \A j \in from : i <= j
           directed(n, d) == \/ d = R!None /\ \A i \in dir : n < i
                             \/ \E i \in dir : i <= n /\ d = lines[i].value /\ \A j \in dir : j <= n => j <= i
           S == {n \in 0..L : \E b, d, p : run[n] = st(b, d, p) /\ based(n, b) /\ directed(n, d)}
<1>1. L \in Nat /\ DOMAIN lines = 1..L
  BY ListLen
<1>2. from \subseteq 1..L /\ dir \subseteq 1..L /\ \A i \in from \union dir : i \in Int
  BY <1>1
<1>3. run[0] = st(R!None, R!None, <<>>) /\ \A n \in 1..L : run[n] = R!DockerfileLine(run[n - 1], lines[n])
  BY DockerfileSteps
<1>4. /\ \A i \in 1..L : i \in from <=> lines[i].kind = "FROM"
      /\ \A i \in 1..L : i \in dir <=> lines[i].kind = "WORKDIR"
      /\ \A i \in 1..L : lines[i].value # R!None
  BY <1>1
<1>5. \A b, d, p, l :
        /\ l.kind = "FROM" => R!DockerfileLine(st(b, d, p), l) = st(IF b = R!None THEN l.value ELSE b, d, p)
        /\ l.kind = "WORKDIR" => R!DockerfileLine(st(b, d, p), l) = st(b, l.value, p)
        /\ l.kind \notin {"FROM", "WORKDIR"} => \E x : R!DockerfileLine(st(b, d, p), l) = st(b, d, x)
  <2>1. SUFFICES ASSUME NEW b, NEW d, NEW p, NEW l
                 PROVE  /\ l.kind = "FROM" => R!DockerfileLine(st(b, d, p), l) = st(IF b = R!None THEN l.value ELSE b, d, p)
                        /\ l.kind = "WORKDIR" => R!DockerfileLine(st(b, d, p), l) = st(b, l.value, p)
                        /\ l.kind \notin {"FROM", "WORKDIR"} => \E x : R!DockerfileLine(st(b, d, p), l) = st(b, d, x)
    OBVIOUS
  <2>2. CASE l.kind = "FROM"
    BY <2>2 DEF R!DockerfileLine
  <2>3. CASE l.kind = "WORKDIR"
    BY <2>3 DEF R!DockerfileLine
  <2>4. CASE l.kind = "EXPOSE"
    BY <2>4 DEF R!DockerfileLine
  <2>5. CASE l.kind \notin {"FROM", "WORKDIR", "EXPOSE"}
    BY <2>5 DEF R!DockerfileLine
  <2>. QED
    BY <2>2, <2>3, <2>4, <2>5
<1> HIDE DEF L, run, from, dir, st
<1>6. 0 \in S
  <2>1. based(0, R!None) /\ directed(0, R!None)
    BY <1>2
  <2> HIDE DEF based, directed
  <2>. QED
    BY <1>1, <1>3, <2>1
<1>7. ASSUME NEW n \in 0..L - 1, n \in S PROVE n + 1 \in S
  <2> DEFINE l == lines[n + 1]
  <2>1. n \in Nat /\ n + 1 \in 1..L /\ (n + 1) - 1 = n /\ n + 1 \in 0..L
    BY <1>1
  <2>2. PICK b, d, p : run[n] = st(b, d, p) /\ based(n, b) /\ directed(n, d)
    <3> HIDE DEF based, directed
    <3>. QED
      BY <1>7
  <2>3. run[n + 1] = R!DockerfileLine(st(b, d, p), l)
    BY <1>3, <2>1, <2>2
  <2>4. CASE l.kind = "FROM"
    <3> DEFINE c == IF b = R!None THEN l.value ELSE b
    <3>1. run[n + 1] = st(c, d, p)
      BY <1>5, <2>3, <2>4
    <3>2. n + 1 \in from /\ n + 1 \notin dir /\ l.value # R!None
      BY <1>4, <2>1, <2>4
    <3>3. based(n + 1, c)
      <4>1. CASE b = R!None
        <5>1. \A i \in from : n < i
          BY <1>2, <1>4, <2>2, <4>1
        <5>2. \A i \in from : n + 1 <= i
          BY <1>2, <2>1, <5>1
        <5>. QED
          BY <2>1, <3>2, <4>1, <5>2
      <4>2. CASE b # R!None
        <5>1. PICK i \in from : i <= n /\ b = lines[i].value /\ \A j \in from : i <= j
          BY <2>2, <4>2
        <5>2. i <= n + 1
          BY <1>2, <2>1, <5>1
        <5>. QED
          BY <4>2, <5>1, <5>2
      <4>. QED
        BY <4>1, <4>2
    <3>4. directed(n + 1, d)
      <4>1. \A i \in dir : (i <= n + 1 <=> i <= n) /\ (n < i => n + 1 < i)
        BY <1>2, <2>1, <3>2
      <4>. QED
        BY <2>2, <4>1
    <3> HIDE DEF based, directed, c
    <3>. QED
      BY <2>1, <3>1, <3>3, <3>4
  <2>5. CASE l.kind = "WORKDIR"
    <3>1. run[n + 1] = st(b, l.value, p)
      BY <1>5, <2>3, <2>5
    <3>2. n + 1 \in dir /\ n + 1 \notin from
      BY <1>4, <2>1, <2>5
    <3>3. based(n + 1, b)
      <4>1. \A i \in from : (i <= n + 1 <=> i <= n) /\ (n < i => n + 1 < i)
        BY <1>2, <2>1, <3>2
      <4>. QED
        BY <2>2, <4>1
    <3>4. directed(n + 1, l.value)
      <4>1. n + 1 <= n + 1
        BY <2>1
      <4>. QED
        BY <3>2, <4>1
    <3> HIDE DEF based, directed
    <3>. QED
      BY <2>1, <3>1, <3>3, <3>4
  <2>6. CASE l.kind \notin {"FROM", "WORKDIR"}
    <3>1. PICK x : run[n + 1] = st(b, d, x)
      BY <1>5, <2>3, <2>6
    <3>2. n + 1 \notin dir /\ n + 1 \notin from
      BY <1>4, <2>1, <2>6
    <3>3. based(n + 1, b)
      <4>1. \A i \in from : (i <= n + 1 <=> i <= n) /\ (n < i => n + 1 < i)
        BY <1>2, <2>1, <3>2
      <4>. QED
        BY <2>2, <4>1
    <3>4. directed(n + 1, d)
      <4>1. \A i \in dir : (i <= n + 1 <=> i <= n) /\ (n < i => n + 1 < i)
        BY <1>2, <2>1, <3>2
      <4>. QED
        BY <2>2, <4>1
    <3> HIDE DEF based, directed
    <3>. QED
      BY <2>1, <3>1, <3>3, <3>4
  <2>. QED
    BY <2>4, <2>5, <2>6
<1>8. L \in S
  <2> HIDE DEF S
  <2>1. \A n \in 0..L : n \in S
    BY <1>1, <1>6, <1>7, Upward
  <2>. QED
    BY <1>1, <2>1
<1>9. PICK b, d, p : run[L] = st(b, d, p) /\ based(L, b) /\ directed(L, d)
  <2> HIDE DEF based, directed
  <2>. QED
    BY <1>8
<1>10. /\ \A i \in from : i \in Int /\ i <= L
       /\ \A i \in dir : i \in Int /\ i <= L
       /\ from \subseteq Nat /\ dir \subseteq Nat
  BY <1>1, <1>2
<1>11. b = IF from = {} THEN R!None ELSE lines[R!Min(from)].value
  <2>1. CASE from = {}
    BY <1>9, <2>1
  <2>2. CASE from # {}
    <3>1. R!Min(from) \in from /\ \A i \in from : R!Min(from) <= i
      BY <1>10, <2>2, LeastOf
    <3>2. \E i \in from : b = lines[i].value /\ \A j \in from : i <= j
      <4>1. ~ (b = R!None /\ \A i \in from : L < i)
        <5>1. PICK i \in from : TRUE
          BY <2>2
        <5>2. i \in Int /\ i <= L
          BY <1>10
        <5>. QED
          BY <1>1, <5>2
      <4>. QED
        BY <1>9, <4>1
    <3>3. \A i \in from : (\A j \in from : i <= j) => i = R!Min(from)
      <4>1. SUFFICES ASSUME NEW i \in from, \A j \in from : i <= j PROVE i = R!Min(from)
        OBVIOUS
      <4>2. i <= R!Min(from) /\ R!Min(from) <= i /\ i \in Int /\ R!Min(from) \in Int
        BY <1>10, <3>1, <4>1
      <4>. QED
        BY <4>2
    <3>. QED
      BY <2>2, <3>2, <3>3
  <2>. QED
    BY <2>1, <2>2
<1>12. d = IF dir = {} THEN R!None ELSE lines[R!Max(dir)].value
  <2>1. CASE dir = {}
    BY <1>9, <2>1
  <2>2. CASE dir # {}
    <3>1. R!Max(dir) \in dir /\ \A i \in dir : i <= R!Max(dir)
      BY <1>1, <1>2, <2>2, LargestOf
    <3>2. \E i \in dir : d = lines[i].value /\ \A j \in dir : j <= i
      <4>1. ~ (d = R!None /\ \A i \in dir : L < i)
        <5>1. PICK i \in dir : TRUE
          BY <2>2
        <5>2. i \in Int /\ i <= L
          BY <1>10
        <5>. QED
          BY <1>1, <5>2
      <4>2. PICK i \in dir : i <= L /\ d = lines[i].value /\ \A j \in dir : j <= L => j <= i
        BY <1>9, <4>1
      <4>. QED
        BY <1>10, <4>2
    <3>3. \A i \in dir : (\A j \in dir : j <= i) => i = R!Max(dir)
      <4>1. SUFFICES ASSUME NEW i \in dir, \A j \in dir : j <= i PROVE i = R!Max(dir)
        OBVIOUS
      <4>2. i <= R!Max(dir) /\ R!Max(dir) <= i /\ i \in Int /\ R!Max(dir) \in Int
        BY <1>10, <3>1, <4>1
      <4>. QED
        BY <4>2
    <3>. QED
      BY <2>2, <3>2, <3>3
  <2>. QED
    BY <2>1, <2>2
<1>13. R!ParseDockerfile(lines) = run[L]
  BY Zenon DEF R!ParseDockerfile, run, L
<1>14. st(b, d, p).base = b /\ st(b, d, p).dir = d
  BY DEF st
<1>15. R!ParseDockerfile(lines).base = b /\ R!ParseDockerfile(lines).dir = d
  BY <1>9, <1>13, <1>14
<1>. QED
  BY <1>11, <1>12, <1>15, Zenon DEF DockerfileOf, from, dir

\* The gems of a Gemfile.  With B(n) the groups that begin less the ends up to
\* line n, a group of line i is open at line n when B(m) >= B(i) on every line
\* between.
Span(ps, i, n) == {j \in ps : i <= j /\ j <= n}
LEMMA SpanCount ==
  ASSUME NEW L \in Nat, NEW ps, ps \subseteq 1..L, NEW i \in 1..L, NEW n \in i..L
  PROVE  Cardinality(Span(ps, i, n)) = Rank(ps, n) - Rank(ps, i - 1)
<1>1. IsFiniteSet(ps)
  BY RankSteps DEF Ranked
<1> DEFINE below == {j \in ps : j <= i - 1}
           span == Span(ps, i, n)
<1>2. IsFiniteSet(below) /\ IsFiniteSet(span)
  BY <1>1, FS_Subset DEF Span
<1>3. Cardinality(below) \in Nat /\ Cardinality(span) \in Nat
  BY <1>2, FS_CardinalityType
<1>4. i \in Int /\ n \in Int /\ i <= n /\ \A j \in ps : j \in Int
  OBVIOUS
<1>5. below \cap span = {} /\ below \union span = {j \in ps : j <= n}
  <2>1. \A j \in ps : ~ (j <= i - 1 /\ i <= j) /\ ((j <= i - 1 \/ (i <= j /\ j <= n)) <=> j <= n)
    BY <1>4
  <2>. QED
    BY <2>1 DEF Span
<1> HIDE DEF below, span
<1>6. Cardinality(below \union span) = Cardinality(below) + Cardinality(span) - Cardinality(below \cap span)
  BY <1>2, FS_Union
<1>7. Cardinality({}) = 0
  BY FS_EmptySet
<1>8. Cardinality(below \union span) = Cardinality(below) + Cardinality(span)
  <2>1. Cardinality(below \cap span) = 0
    BY <1>5, <1>7, Zenon
  <2>. QED
    BY <1>3, <1>6, <2>1
<1>9. Rank(ps, n) = Cardinality(below \union span) /\ Rank(ps, i - 1) = Cardinality(below)
  BY <1>5 DEF Rank, below
<1>. QED
  BY <1>3, <1>8, <1>9 DEF span

Groups(lines) == {i \in DOMAIN lines : lines[i].kind = "group"}
Ends(lines) == {i \in DOMAIN lines : lines[i].kind = "end"}
Gems(lines) == {i \in DOMAIN lines : lines[i].kind = "gem"}
Balance(lines, n) == Rank(Groups(lines), n) - Rank(Ends(lines), n)
OpenAt(lines, n) == {i \in 1..n : i \in Groups(lines) /\ \A m \in i..n : Balance(lines, m) >= Balance(lines, i)}

\* A Gemfile whose blocks are groups.
GroupsOnly(lines) == Listed(lines) /\ \A i \in 1..Len(lines) : lines[i].kind \in {"group", "gem", "end"}

LEMMA BalanceSteps ==
  ASSUME NEW lines, GroupsOnly(lines)
  PROVE  /\ \A n \in 0..Len(lines) : Balance(lines, n) \in Int
         /\ \A n \in 0..Len(lines) - 1 :
              /\ lines[n + 1].kind = "group" => Balance(lines, n + 1) = Balance(lines, n) + 1
              /\ lines[n + 1].kind = "end" => Balance(lines, n + 1) = Balance(lines, n) - 1
              /\ lines[n + 1].kind = "gem" => Balance(lines, n + 1) = Balance(lines, n)
<1> DEFINE L == Len(lines)
           gs == Groups(lines)
           es == Ends(lines)
<1>1. L \in Nat /\ DOMAIN lines = 1..L
  BY ListLen DEF GroupsOnly
<1>2. gs \subseteq 1..L /\ es \subseteq 1..L
  BY <1>1 DEF Groups, Ends
<1>3. \A i \in 1..L : (i \in gs <=> lines[i].kind = "group") /\ (i \in es <=> lines[i].kind = "end")
  BY <1>1 DEF Groups, Ends
<1> HIDE DEF L, gs, es
<1>4. Ranked(gs, L) /\ Ranked(es, L)
  BY <1>1, <1>2, RankSteps
<1>5. \A n \in Nat : Rank(gs, n) \in Nat /\ Rank(es, n) \in Nat
  BY <1>4 DEF Ranked
<1>6. \A n \in 0..L : Balance(lines, n) \in Int
  <2>1. \A n \in 0..L : n \in Nat
    BY <1>1
  <2>. QED
    BY <1>5, <2>1 DEF Balance, gs, es
<1>7. ASSUME NEW n \in 0..L - 1
      PROVE  /\ lines[n + 1].kind = "group" => Balance(lines, n + 1) = Balance(lines, n) + 1
             /\ lines[n + 1].kind = "end" => Balance(lines, n + 1) = Balance(lines, n) - 1
             /\ lines[n + 1].kind = "gem" => Balance(lines, n + 1) = Balance(lines, n)
  <2>1. n \in Nat /\ n + 1 \in 1..L
    BY <1>1
  <2>2. /\ Rank(gs, n + 1) = IF n + 1 \in gs THEN Rank(gs, n) + 1 ELSE Rank(gs, n)
        /\ Rank(es, n + 1) = IF n + 1 \in es THEN Rank(es, n) + 1 ELSE Rank(es, n)
    BY <1>4, <2>1 DEF Ranked
  <2>3. (n + 1 \in gs <=> lines[n + 1].kind = "group") /\ (n + 1 \in es <=> lines[n + 1].kind = "end")
    BY <1>3, <2>1
  <2>4. Rank(gs, n) \in Nat /\ Rank(es, n) \in Nat
    BY <1>5, <2>1
  <2>5. /\ Balance(lines, n + 1) = Rank(gs, n + 1) - Rank(es, n + 1)
        /\ Balance(lines, n) = Rank(gs, n) - Rank(es, n)
    BY DEF Balance, gs, es
  <2>6. CASE lines[n + 1].kind = "group"
    <3>1. Rank(gs, n + 1) = Rank(gs, n) + 1 /\ Rank(es, n + 1) = Rank(es, n)
      BY <2>2, <2>3, <2>6
    <3>. QED
      BY <2>4, <2>5, <2>6, <3>1
  <2>7. CASE lines[n + 1].kind = "end"
    <3>1. Rank(gs, n + 1) = Rank(gs, n) /\ Rank(es, n + 1) = Rank(es, n) + 1
      BY <2>2, <2>3, <2>7
    <3>. QED
      BY <2>4, <2>5, <2>7, <3>1
  <2>8. CASE lines[n + 1].kind = "gem"
    <3>1. Rank(gs, n + 1) = Rank(gs, n) /\ Rank(es, n + 1) = Rank(es, n)
      BY <2>2, <2>3, <2>8
    <3>. QED
      BY <2>4, <2>5, <2>8, <3>1
  <2>. QED
    BY <2>6, <2>7, <2>8
<1>. QED
  BY <1>6, <1>7 DEF L

\* What MCRules calls the innermost group around line k.
LEMMA InnermostIs ==
  ASSUME NEW lines, GroupsOnly(lines), NEW k \in 1..Len(lines)
  PROVE  R!Innermost(lines, k) =
           IF OpenAt(lines, k) = {} THEN "default"
           ELSE lines[CHOOSE i \in OpenAt(lines, k) : \A j \in OpenAt(lines, k) : j <= i].value
<1> DEFINE L == Len(lines)
           gs == Groups(lines)
           es == Ends(lines)
           more(i, m) == R!Cardinality({j \in i..m : lines[j].kind = "group"})
                           > R!Cardinality({j \in i..m : lines[j].kind = "end"})
           open == {i \in 1..k : lines[i].kind = "group" /\ \A m \in i..k : more(i, m)}
<1>1. L \in Nat /\ DOMAIN lines = 1..L /\ k \in 1..L
  BY ListLen DEF GroupsOnly
<1>2. gs \subseteq 1..L /\ es \subseteq 1..L
  BY <1>1 DEF Groups, Ends
<1>3. \A i \in 1..L : (i \in gs <=> lines[i].kind = "group") /\ (i \in es <=> lines[i].kind = "end")
  BY <1>1 DEF Groups, Ends
<1>4. R!Innermost(lines, k) = IF open = {} THEN "default" ELSE lines[CHOOSE i \in open : \A j \in open : j <= i].value
  BY Zenon DEF R!Innermost
<1>5. \A S : R!Cardinality(S) = Cardinality(S)
  BY Zenon DEF R!Cardinality, Cardinality
<1> HIDE DEF L, gs, es, more
<1>6. ASSUME NEW i \in 1..k, lines[i].kind = "group", NEW m \in i..k
      PROVE  more(i, m) <=> Balance(lines, m) >= Balance(lines, i)
  <2>1. i \in 1..L /\ m \in i..L /\ i - 1 \in 0..L - 1 /\ (i - 1) + 1 = i /\ i \in 0..L /\ m \in 0..L /\ i - 1 \in 0..L
    BY <1>1
  <2>2. {j \in i..m : lines[j].kind = "group"} = Span(gs, i, m) /\ {j \in i..m : lines[j].kind = "end"} = Span(es, i, m)
    <3>1. \A j \in i..m : j \in 1..L
      BY <1>1, <2>1
    <3>2. \A j \in gs : j \in 1..L
      BY <1>2
    <3>3. \A j \in es : j \in 1..L
      BY <1>2
    <3>. QED
      BY <1>3, <2>1, <3>1, <3>2, <3>3 DEF Span
  <2>3. /\ Cardinality(Span(gs, i, m)) = Rank(gs, m) - Rank(gs, i - 1)
        /\ Cardinality(Span(es, i, m)) = Rank(es, m) - Rank(es, i - 1)
    BY <1>1, <1>2, <2>1, SpanCount
  <2>4. Balance(lines, i) = Balance(lines, i - 1) + 1
    BY <1>6, <2>1, BalanceSteps DEF L
  <2>5. Balance(lines, i) \in Int /\ Balance(lines, m) \in Int /\ Balance(lines, i - 1) \in Int
    BY <2>1, BalanceSteps DEF L
  <2>6. /\ Balance(lines, m) = Rank(gs, m) - Rank(es, m)
        /\ Balance(lines, i - 1) = Rank(gs, i - 1) - Rank(es, i - 1)
    BY DEF Balance, gs, es
  <2>7. Ranked(gs, L) /\ Ranked(es, L)
    BY <1>1, <1>2, RankSteps
  <2>8. Rank(gs, m) \in Nat /\ Rank(es, m) \in Nat /\ Rank(gs, i - 1) \in Nat /\ Rank(es, i - 1) \in Nat
    <3>1. m \in Nat /\ i - 1 \in Nat
      BY <1>1, <2>1
    <3>. QED
      BY <2>7, <3>1 DEF Ranked
  <2>9. more(i, m) <=> Rank(gs, m) - Rank(gs, i - 1) > Rank(es, m) - Rank(es, i - 1)
    BY <1>5, <2>2, <2>3 DEF more
  <2>. QED
    BY <2>4, <2>5, <2>6, <2>8, <2>9, SMTT(30)
<1>7. open = OpenAt(lines, k)
  <2>1. \A i \in 1..k : i \in gs <=> lines[i].kind = "group"
    BY <1>1, <1>3
  <2>2. \A i \in 1..k : i \in open <=> i \in OpenAt(lines, k)
    BY <1>6, <2>1 DEF OpenAt, gs
  <2>. QED
    BY <2>2 DEF OpenAt
<1>. QED
  BY <1>4, <1>7

LEMMA OpenSteps ==
  ASSUME NEW lines, GroupsOnly(lines), NEW n \in 0..Len(lines) - 1
  PROVE  /\ lines[n + 1].kind = "group" => OpenAt(lines, n + 1) = OpenAt(lines, n) \union {n + 1}
         /\ lines[n + 1].kind = "gem" => OpenAt(lines, n + 1) = OpenAt(lines, n)
         /\ lines[n + 1].kind = "end" =>
              OpenAt(lines, n + 1) = {i \in OpenAt(lines, n) : Balance(lines, n + 1) >= Balance(lines, i)}
<1> DEFINE L == Len(lines)
           B(m) == Balance(lines, m)
           gs == Groups(lines)
<1>1. L \in Nat /\ DOMAIN lines = 1..L /\ n \in Nat /\ n + 1 \in 1..L /\ n \in 0..L /\ n + 1 \in 0..L
  BY ListLen DEF GroupsOnly
<1>2. \A i \in 1..L : i \in gs <=> lines[i].kind = "group"
  BY <1>1 DEF Groups
<1>3. /\ \A m \in 0..L : B(m) \in Int
      /\ lines[n + 1].kind = "group" => B(n + 1) = B(n) + 1
      /\ lines[n + 1].kind = "gem" => B(n + 1) = B(n)
  BY BalanceSteps
<1>4. \A i, m : i \in OpenAt(lines, m) <=> i \in 1..m /\ i \in gs /\ \A k \in i..m : B(k) >= B(i)
  BY DEF OpenAt
<1> HIDE DEF L, B, gs
<1>5. \A i \in 1..n : (\A k \in i..n + 1 : B(k) >= B(i)) <=> (\A k \in i..n : B(k) >= B(i)) /\ B(n + 1) >= B(i)
  <2>1. \A i \in 1..n : i..n + 1 = (i..n) \union {n + 1}
    BY <1>1
  <2>. QED
    BY <2>1
<1>6. \A i \in 1..n : i \in OpenAt(lines, n) => B(n) >= B(i) /\ i \in 0..L
  <2>1. \A i \in 1..n : n \in i..n /\ i \in 0..L
    BY <1>1
  <2>. QED
    BY <1>4, <2>1
<1>7. \A i \in 1..n : i \in OpenAt(lines, n + 1) <=> i \in OpenAt(lines, n) /\ B(n + 1) >= B(i)
  <2>1. \A i \in 1..n : i \in 1..n + 1
    BY <1>1
  <2>. QED
    BY <1>4, <1>5, <2>1
<1>8. n + 1 \in OpenAt(lines, n + 1) <=> lines[n + 1].kind = "group"
  <2>1. n + 1 \in 1..n + 1 /\ (n + 1)..(n + 1) = {n + 1} /\ B(n + 1) >= B(n + 1)
    BY <1>1, <1>3
  <2>2. \A k \in (n + 1)..(n + 1) : B(k) >= B(n + 1)
    BY <2>1
  <2>. QED
    BY <1>1, <1>2, <1>4, <2>1, <2>2
<1>9. /\ OpenAt(lines, n) \subseteq 1..n
      /\ OpenAt(lines, n + 1) \subseteq (1..n) \union {n + 1}
      /\ n + 1 \notin 1..n
  <2>1. 1..n + 1 = (1..n) \union {n + 1} /\ n + 1 \notin 1..n
    BY <1>1
  <2>. QED
    BY <1>4, <2>1
<1>10. ASSUME lines[n + 1].kind \in {"group", "gem"}
       PROVE  \A i \in 1..n : i \in OpenAt(lines, n + 1) <=> i \in OpenAt(lines, n)
  <2>1. B(n + 1) >= B(n) /\ B(n) \in Int /\ B(n + 1) \in Int
    BY <1>1, <1>3, <1>10
  <2>2. \A i \in 1..n : i \in OpenAt(lines, n) => B(n + 1) >= B(i)
    <3>1. SUFFICES ASSUME NEW i \in 1..n, i \in OpenAt(lines, n) PROVE B(n + 1) >= B(i)
      OBVIOUS
    <3>2. B(i) \in Int /\ B(n) >= B(i)
      BY <1>3, <1>6, <3>1
    <3>. QED
      BY <2>1, <3>2
  <2>. QED
    BY <1>7, <2>2
<1>11. CASE lines[n + 1].kind = "group"
  BY <1>8, <1>9, <1>10, <1>11
<1>12. CASE lines[n + 1].kind = "gem"
  BY <1>8, <1>9, <1>10, <1>12
<1>13. CASE lines[n + 1].kind = "end"
  BY <1>7, <1>8, <1>9, <1>13 DEF B
<1>14. lines[n + 1].kind \in {"group", "gem", "end"}
  BY <1>1 DEF GroupsOnly, L
<1>. QED
  BY <1>11, <1>12, <1>13, <1>14

\* The groups that are open at line n, from the outermost: p[1], ..., p[d].
Nesting(lines, n, d, p) ==
  /\ d \in Nat /\ p \in [0..d -> 0..n] /\ p[0] = 0
  /\ \A i, j \in 0..d : i < j => p[i] < p[j]
  /\ OpenAt(lines, n) = {p[j] : j \in 1..d}
  /\ \A j \in 1..d : Balance(lines, p[j]) = Balance(lines, n) - d + j

LEMMA GroupNests ==
  ASSUME NEW lines, GroupsOnly(lines), NEW n \in 0..Len(lines) - 1, NEW d, NEW p, Nesting(lines, n, d, p),
         lines[n + 1].kind = "group"
  PROVE  Nesting(lines, n + 1, d + 1, [j \in 0..d + 1 |-> IF j = d + 1 THEN n + 1 ELSE p[j]])
<1> DEFINE r == [j \in 0..d + 1 |-> IF j = d + 1 THEN n + 1 ELSE p[j]]
           B(m) == Balance(lines, m)
<1>1. d \in Nat /\ p \in [0..d -> 0..n] /\ p[0] = 0 /\ n \in Nat
  BY ListLen DEF Nesting, GroupsOnly
<1>2. 0..d + 1 = (0..d) \union {d + 1} /\ 1..d + 1 = (1..d) \union {d + 1} /\ d + 1 \notin 0..d /\ (1..d) \subseteq 0..d
  BY <1>1
<1>3. /\ \A j \in 0..d : r[j] = p[j] /\ p[j] \in 0..n
      /\ r[d + 1] = n + 1
  BY <1>1, <1>2
<1>4. r \in [0..d + 1 -> 0..n + 1]
  BY <1>1
<1> HIDE DEF r
<1>5. r[0] = 0
  BY <1>1, <1>3
<1>6. \A i, j \in 0..d + 1 : i < j => r[i] < r[j]
  <2>1. SUFFICES ASSUME NEW i \in 0..d + 1, NEW j \in 0..d + 1, i < j PROVE r[i] < r[j]
    OBVIOUS
  <2>2. i \in 0..d
    BY <1>1, <2>1
  <2>3. CASE j = d + 1
    <3>1. r[i] \in 0..n
      BY <1>3, <2>2
    <3>. QED
      BY <1>1, <1>3, <2>3, <3>1
  <2>4. CASE j # d + 1
    <3>1. j \in 0..d
      BY <1>2, <2>4
    <3>. QED
      BY <1>3, <2>1, <2>2, <3>1 DEF Nesting
  <2>. QED
    BY <2>3, <2>4
<1>7. OpenAt(lines, n + 1) = {r[j] : j \in 1..d + 1}
  <2>1. OpenAt(lines, n + 1) = OpenAt(lines, n) \union {n + 1}
    BY OpenSteps
  <2>2. OpenAt(lines, n) = {p[j] : j \in 1..d}
    BY DEF Nesting
  <2>. QED
    BY <1>2, <1>3, <2>1, <2>2
<1>8. \A j \in 1..d + 1 : B(r[j]) = B(n + 1) - (d + 1) + j
  <2>1. B(n + 1) = B(n) + 1 /\ B(n) \in Int
    <3>1. n \in 0..Len(lines)
      BY ListLen DEF GroupsOnly
    <3>. QED
      BY <3>1, BalanceSteps
  <2>2. \A j \in 1..d : B(p[j]) = B(n) - d + j
    BY DEF Nesting
  <2> HIDE DEF B
  <2>3. ASSUME NEW j \in 1..d PROVE B(r[j]) = B(n + 1) - (d + 1) + j
    <3>1. B(r[j]) = B(n) - d + j
      BY <1>2, <1>3, <2>2
    <3>. QED
      BY <1>1, <2>1, <3>1
  <2>4. B(r[d + 1]) = B(n + 1) - (d + 1) + (d + 1)
    BY <1>1, <1>3, <2>1
  <2>. QED
    BY <1>2, <2>3, <2>4
<1>9. Nesting(lines, n + 1, d + 1, r)
  <2>1. d + 1 \in Nat
    BY <1>1
  <2>. QED
    BY <1>4, <1>5, <1>6, <1>7, <1>8, <2>1, Zenon DEF Nesting
<1>. QED
  BY <1>9 DEF r

LEMMA GemNests ==
  ASSUME NEW lines, GroupsOnly(lines), NEW n \in 0..Len(lines) - 1, NEW d, NEW p, Nesting(lines, n, d, p),
         lines[n + 1].kind = "gem"
  PROVE  Nesting(lines, n + 1, d, p)
<1>1. d \in Nat /\ p \in [0..d -> 0..n] /\ n \in Nat
  BY ListLen DEF Nesting, GroupsOnly
<1>2. p \in [0..d -> 0..n + 1]
  <2>1. (0..n) \subseteq 0..n + 1
    BY <1>1
  <2>. QED
    BY <1>1, <2>1
<1>3. OpenAt(lines, n + 1) = OpenAt(lines, n)
  BY OpenSteps
<1>4. Balance(lines, n + 1) = Balance(lines, n)
  BY BalanceSteps
<1>. QED
  BY <1>2, <1>3, <1>4, Zenon DEF Nesting

LEMMA EndNests ==
  ASSUME NEW lines, GroupsOnly(lines), NEW n \in 0..Len(lines) - 1, NEW d, NEW p, Nesting(lines, n, d, p),
         lines[n + 1].kind = "end"
  PROVE  /\ d = 0 => Nesting(lines, n + 1, 0, [j \in 0..0 |-> 0])
         /\ d > 0 => Nesting(lines, n + 1, d - 1, [j \in 0..d - 1 |-> p[j]])
<1> DEFINE B(m) == Balance(lines, m)
           r == [j \in 0..d - 1 |-> p[j]]
           z == [j \in 0..0 |-> 0]
<1>1. d \in Nat /\ p \in [0..d -> 0..n] /\ p[0] = 0 /\ n \in Nat /\ n \in 0..Len(lines)
  BY ListLen DEF Nesting, GroupsOnly
<1>2. OpenAt(lines, n + 1) = {i \in OpenAt(lines, n) : B(n + 1) >= B(i)}
  BY OpenSteps
<1>3. B(n + 1) = B(n) - 1 /\ B(n) \in Int
  BY <1>1, BalanceSteps
<1>4. /\ \A i, j \in 0..d : i < j => p[i] < p[j]
      /\ OpenAt(lines, n) = {p[j] : j \in 1..d}
      /\ \A j \in 1..d : B(p[j]) = B(n) - d + j
  BY DEF Nesting
<1> HIDE DEF B
<1>5. ASSUME d = 0 PROVE Nesting(lines, n + 1, 0, z)
  <2>1. OpenAt(lines, n + 1) = {}
    BY <1>2, <1>4, <1>5
  <2>2. z \in [0..0 -> 0..n + 1] /\ z[0] = 0 /\ 1..0 = {}
    BY <1>1
  <2> HIDE DEF z
  <2>3. \A i, j \in 0..0 : ~ (i < j)
    OBVIOUS
  <2>4. OpenAt(lines, n + 1) = {z[j] : j \in 1..0} /\ \A j \in 1..0 : FALSE
    BY <2>1, <2>2
  <2>. QED
    BY <2>2, <2>3, <2>4 DEF Nesting
<1>6. ASSUME d > 0 PROVE Nesting(lines, n + 1, d - 1, r)
  <2>1. d - 1 \in Nat /\ (0..d - 1) \subseteq 0..d /\ 1..d = (1..d - 1) \union {d} /\ (1..d - 1) \subseteq 0..d - 1
    BY <1>1, <1>6
  <2>2. \A j \in 0..d - 1 : r[j] = p[j] /\ r[j] \in 0..n + 1
    <3>1. \A j \in 0..d : p[j] \in 0..n + 1
      BY <1>1
    <3>. QED
      BY <2>1, <3>1
  <2>3. r \in [0..d - 1 -> 0..n + 1]
    BY <2>2
  <2>4. r[0] = 0
    BY <1>1, <2>1, <2>2
  <2> HIDE DEF r
  <2>5. \A i, j \in 0..d - 1 : i < j => r[i] < r[j]
    BY <1>4, <2>1, <2>2
  <2>6. /\ \A j \in 1..d - 1 : B(n + 1) >= B(p[j])
        /\ ~ (B(n + 1) >= B(p[d]))
        /\ \A j \in 1..d - 1 : B(p[j]) = B(n + 1) - (d - 1) + j
    <3>1. ASSUME NEW j \in 1..d - 1 PROVE B(n + 1) >= B(p[j]) /\ B(p[j]) = B(n + 1) - (d - 1) + j
      <4>1. B(p[j]) = B(n) - d + j
        BY <1>4, <2>1
      <4>2. j \in Int /\ j <= d - 1 /\ d \in Int
        BY <1>1
      <4>3. \A b, c, x : b \in Int /\ c = b - 1 /\ x = b - d + j => c >= x /\ x = c - (d - 1) + j
        BY <4>2
      <4>. QED
        BY <1>3, <4>1, <4>3, Zenon
    <3>2. B(p[d]) = B(n) - d + d
      BY <1>4, <2>1
    <3>3. ~ (B(n + 1) >= B(p[d]))
      BY <1>1, <1>3, <3>2
    <3>. QED
      BY <3>1, <3>3
  <2>7. OpenAt(lines, n + 1) = {r[j] : j \in 1..d - 1}
    <3>1. OpenAt(lines, n + 1) = {p[j] : j \in 1..d - 1}
      BY <1>2, <1>4, <2>1, <2>6
    <3>. QED
      BY <2>1, <2>2, <3>1
  <2>8. \A j \in 1..d - 1 : B(r[j]) = B(n + 1) - (d - 1) + j
    BY <2>1, <2>2, <2>6
  <2>. QED
    BY <2>1, <2>3, <2>4, <2>5, <2>7, <2>8, Zenon DEF Nesting, B
<1>. QED
  BY <1>5, <1>6

ValueAt(lines, i) == IF i = 0 THEN "default" ELSE lines[i].value

LEMMA NestingTop ==
  ASSUME NEW lines, GroupsOnly(lines), NEW n \in 1..Len(lines), NEW d, NEW p, Nesting(lines, n, d, p)
  PROVE  R!Innermost(lines, n) = ValueAt(lines, p[d])
<1>1. d \in Nat /\ p \in [0..d -> 0..n] /\ p[0] = 0
  BY DEF Nesting
<1>2. /\ \A i, j \in 0..d : i < j => p[i] < p[j]
      /\ OpenAt(lines, n) = {p[j] : j \in 1..d}
  BY DEF Nesting
<1>3. CASE d = 0
  <2>1. OpenAt(lines, n) = {} /\ p[d] = 0
    BY <1>1, <1>2, <1>3
  <2>. QED
    BY <2>1, InnermostIs DEF ValueAt
<1>4. CASE d # 0
  <2>1. d \in 1..d /\ d \in 0..d /\ 0 \in 0..d /\ 0 < d /\ (1..d) \subseteq 0..d
    BY <1>1, <1>4
  <2>2. p[d] \in OpenAt(lines, n)
    BY <1>2, <2>1
  <2>3. p[d] # 0
    BY <1>1, <1>2, <2>1
  <2>4. \A i \in OpenAt(lines, n) : i \in Int /\ i <= p[d]
    <3>1. \A j \in 1..d : p[j] \in Int /\ p[j] <= p[d]
      <4>1. SUFFICES ASSUME NEW j \in 1..d PROVE p[j] \in Int /\ p[j] <= p[d]
        OBVIOUS
      <4>2. p[j] \in 0..n /\ p[d] \in 0..n
        BY <1>1, <2>1
      <4>3. j < d => p[j] < p[d]
        BY <1>2, <2>1
      <4>4. j = d \/ j < d
        BY <1>1
      <4>. QED
        BY <4>2, <4>3, <4>4
    <3>. QED
      BY <1>2, <3>1
  <2>5. (CHOOSE i \in OpenAt(lines, n) : \A j \in OpenAt(lines, n) : j <= i) = p[d]
    <3> DEFINE c == CHOOSE i \in OpenAt(lines, n) : \A j \in OpenAt(lines, n) : j <= i
    <3>1. c \in OpenAt(lines, n) /\ \A j \in OpenAt(lines, n) : j <= c
      BY <2>2, <2>4, Zenon
    <3> HIDE DEF c
    <3>2. c <= p[d] /\ p[d] <= c /\ c \in Int /\ p[d] \in Int
      BY <2>2, <2>4, <3>1
    <3>3. c = p[d]
      BY <3>2
    <3>. QED
      BY <3>3 DEF c
  <2>6. OpenAt(lines, n) # {}
    BY <2>2
  <2>. QED
    BY <2>3, <2>5, <2>6, InnermostIs DEF ValueAt
<1>. QED
  BY <1>3, <1>4

GemState(g, s, x) == [groups |-> g, stack |-> s, gems |-> x]
LEMMA GemfileLines ==
  ASSUME NEW g, NEW s, NEW x, NEW l
  PROVE  /\ l.kind = "gem" => R!GemfileLine(GemState(g, s, x), l) = GemState(g, s, Append(x, g))
         /\ l.kind = "group" => R!GemfileLine(GemState(g, s, x), l) = GemState(l.value, Append(s, g), x)
         /\ l.kind = "end" /\ s # <<>> =>
              R!GemfileLine(GemState(g, s, x), l) = GemState(s[Len(s)], SubSeq(s, 1, Len(s) - 1), x)
         /\ l.kind = "end" /\ s = <<>> => R!GemfileLine(GemState(g, s, x), l) = GemState(g, s, x)
<1> DEFINE a == GemState(g, s, x)
<1>1. a.groups = g /\ a.stack = s /\ a.gems = x
  BY DEF GemState
<1>2. /\ \A y : [a EXCEPT !.gems = y] = GemState(g, s, y)
      /\ \A y, z : [a EXCEPT !.stack = z, !.groups = y] = GemState(y, z, x)
      /\ \A y, z : [a EXCEPT !.groups = y, !.stack = z] = GemState(y, z, x)
  <2>1. ASSUME NEW y, NEW z
        PROVE  /\ [a EXCEPT !.gems = y] = [groups |-> g, stack |-> s, gems |-> y]
               /\ [a EXCEPT !.stack = z, !.groups = y] = [groups |-> y, stack |-> z, gems |-> x]
               /\ [a EXCEPT !.groups = y, !.stack = z] = [groups |-> y, stack |-> z, gems |-> x]
    <3> DEFINE goal(c) == /\ [c EXCEPT !.gems = y] = [groups |-> g, stack |-> s, gems |-> y]
                          /\ [c EXCEPT !.stack = z, !.groups = y] = [groups |-> y, stack |-> z, gems |-> x]
                          /\ [c EXCEPT !.groups = y, !.stack = z] = [groups |-> y, stack |-> z, gems |-> x]
    <3>1. \A c : c = [groups |-> g, stack |-> s, gems |-> x] => goal(c)
      <4>0. SUFFICES ASSUME NEW c, c = [groups |-> g, stack |-> s, gems |-> x] PROVE goal(c)
        OBVIOUS
      <4>1. c.groups = g /\ c.stack = s /\ c.gems = x
        BY <4>0
      <4>2. [c EXCEPT !.gems = y] = [groups |-> g, stack |-> s, gems |-> y]
        BY <4>0
      <4>3. [c EXCEPT !.stack = z, !.groups = y] = [groups |-> y, stack |-> z, gems |-> x]
        <5> DEFINE b == [c EXCEPT !.stack = z]
        <5>1. b = [groups |-> g, stack |-> z, gems |-> x]
          BY <4>0
        <5> HIDE DEF b
        <5>2. [b EXCEPT !.groups = y] = [groups |-> y, stack |-> z, gems |-> x]
          BY <5>1
        <5>3. [c EXCEPT !.stack = z, !.groups = y] = [b EXCEPT !.groups = y]
          BY <4>1 DEF b
        <5>. QED
          BY <5>2, <5>3, Zenon
      <4>4. [c EXCEPT !.groups = y, !.stack = z] = [groups |-> y, stack |-> z, gems |-> x]
        <5> DEFINE b == [c EXCEPT !.groups = y]
        <5>1. b = [groups |-> y, stack |-> s, gems |-> x]
          BY <4>0
        <5> HIDE DEF b
        <5>2. [b EXCEPT !.stack = z] = [groups |-> y, stack |-> z, gems |-> x]
          BY <5>1
        <5>3. [c EXCEPT !.groups = y, !.stack = z] = [b EXCEPT !.stack = z]
          BY <4>1 DEF b
        <5>. QED
          BY <5>2, <5>3, Zenon
      <4>. QED
        BY <4>1, <4>2, <4>3, <4>4, Zenon
    <3>2. a = [groups |-> g, stack |-> s, gems |-> x]
      BY Zenon DEF GemState
    <3> HIDE DEF a, goal
    <3>3. goal(a)
      BY <3>1, <3>2
    <3>. QED
      BY <3>3, Zenon DEF goal
  <2> HIDE DEF a
  <2>2. \A y : [a EXCEPT !.gems = y] = [groups |-> g, stack |-> s, gems |-> y]
    BY <2>1, Zenon
  <2>3. \A y, z : [a EXCEPT !.stack = z, !.groups = y] = [groups |-> y, stack |-> z, gems |-> x]
    BY <2>1, Zenon
  <2>4. \A y, z : [a EXCEPT !.groups = y, !.stack = z] = [groups |-> y, stack |-> z, gems |-> x]
    BY <2>1, Zenon
  <2>. QED
    BY <2>2, <2>3, <2>4, Zenon DEF GemState
<1> HIDE DEF a
<1>3. l.kind = "gem" => R!GemfileLine(a, l) = GemState(g, s, Append(x, g))
  <2>1. [a EXCEPT !.gems = Append(a.gems, a.groups)] = GemState(g, s, Append(x, g))
    BY <1>1, <1>2, Zenon
  <2>. QED
    BY <2>1, Zenon DEF R!GemfileLine
<1>4. l.kind = "group" => R!GemfileLine(a, l) = GemState(l.value, Append(s, g), x)
  <2>1. [a EXCEPT !.stack = Append(a.stack, a.groups), !.groups = l.value] = GemState(l.value, Append(s, g), x)
    BY <1>1, <1>2, Zenon
  <2>. QED
    BY <2>1, Zenon DEF R!GemfileLine
<1>5. l.kind = "end" /\ s # <<>> => R!GemfileLine(a, l) = GemState(s[Len(s)], SubSeq(s, 1, Len(s) - 1), x)
  <2>1. R!Last(a.stack) = s[Len(s)] /\ R!Front(a.stack) = SubSeq(s, 1, Len(s) - 1)
    BY <1>1, Zenon DEF R!Last, R!Front
  <2>2. [a EXCEPT !.groups = R!Last(a.stack), !.stack = R!Front(a.stack)] = GemState(s[Len(s)], SubSeq(s, 1, Len(s) - 1), x)
    BY <1>2, <2>1, Zenon
  <2>. QED
    BY <1>1, <2>2, Zenon DEF R!GemfileLine
<1>6. l.kind = "end" /\ s = <<>> => R!GemfileLine(a, l) = a
  BY <1>1, Zenon DEF R!GemfileLine
<1>. QED
  BY <1>3, <1>4, <1>5, <1>6, Zenon DEF a

LEMMA ListFront ==
  ASSUME NEW s, Listed(s), s # <<>>
  PROVE  /\ Listed(SubSeq(s, 1, Len(s) - 1)) /\ Len(SubSeq(s, 1, Len(s) - 1)) = Len(s) - 1
         /\ \A i \in 1..Len(s) - 1 : SubSeq(s, 1, Len(s) - 1)[i] = s[i]
<1>1. PICK S : s \in Seq(S)
  BY DEF Listed
<1>2. Len(s) \in Nat /\ Len(s) # 0
  BY <1>1, EmptySeq
<1>3. SubSeq(s, 1, Len(s) - 1) \in Seq(S) /\ Len(SubSeq(s, 1, Len(s) - 1)) = Len(s) - 1
  <2> DEFINE n == Len(s) - 1
  <2>0. /\ n \in Nat /\ (1 <= n => n - 1 + 1 = n) /\ (~ (1 <= n) => n = 0)
        /\ \A i \in 1..n : i \in 1..Len(s)
    <3> DEFINE m == Len(s)
    <3>1. m \in Nat /\ m # 0 /\ n = m - 1
      BY <1>2
    <3> HIDE DEF m, n
    <3>2. /\ n \in Nat /\ (1 <= n => n - 1 + 1 = n) /\ (~ (1 <= n) => n = 0)
          /\ \A i \in 1..n : i \in 1..m
      BY <3>1
    <3>. QED
      BY <3>2 DEF m
  <2>1. \A i \in 1..n : s[i] \in S
    BY <1>1, <2>0
  <2>2. SubSeq(s, 1, n) \in Seq(S) /\ Len(SubSeq(s, 1, n)) = IF 1 <= n THEN n - 1 + 1 ELSE 0
    BY <2>0, <2>1, SubSeqProperties
  <2>. QED
    BY <2>0, <2>2
<1>4. \A i \in 1..Len(s) - 1 : SubSeq(s, 1, Len(s) - 1)[i] = s[i]
  BY <1>1, <1>2
<1>. QED
  BY <1>3, <1>4 DEF Listed

AsStack(lines, s, d, p) == Listed(s) /\ Len(s) = d /\ \A j \in 1..d : s[j] = ValueAt(lines, p[j - 1])
GemsSoFar(lines, n, x) ==
  /\ Listed(x) /\ Len(x) = Rank(Gems(lines), n)
  /\ \A k \in Gems(lines) : k <= n => x[Rank(Gems(lines), k)] = R!Innermost(lines, k)
GemsAt(lines, n, a) ==
  \E d, p, s, x : /\ a = GemState(ValueAt(lines, p[d]), s, x)
                  /\ Nesting(lines, n, d, p) /\ AsStack(lines, s, d, p) /\ GemsSoFar(lines, n, x)

\* The ranks of the gems.
LEMMA GemRanks ==
  ASSUME NEW lines, GroupsOnly(lines), NEW n \in 0..Len(lines) - 1
  PROVE  LET g == Gems(lines) IN
         /\ Rank(g, n) \in Nat
         /\ lines[n + 1].kind = "gem" => Rank(g, n + 1) = Rank(g, n) + 1 /\ n + 1 \in g
         /\ lines[n + 1].kind # "gem" => Rank(g, n + 1) = Rank(g, n) /\ n + 1 \notin g
         /\ \A k \in g : k \in Nat /\ (k <= n + 1 <=> k <= n \/ k = n + 1)
         /\ \A k \in g : k <= n => Rank(g, k) \in 1..Rank(g, n)
<1> DEFINE L == Len(lines)
           g == Gems(lines)
<1>1. L \in Nat /\ DOMAIN lines = 1..L /\ n \in Nat /\ n + 1 \in 1..L
  BY ListLen DEF GroupsOnly
<1>2. g \subseteq 1..L /\ \A i \in 1..L : i \in g <=> lines[i].kind = "gem"
  BY <1>1 DEF Gems
<1> HIDE DEF L, g
<1>3. Ranked(g, L)
  BY <1>1, <1>2, RankSteps
<1>4. Rank(g, n) \in Nat /\ Rank(g, n + 1) = IF n + 1 \in g THEN Rank(g, n) + 1 ELSE Rank(g, n)
  BY <1>1, <1>3 DEF Ranked
<1>5. \A k \in g : k \in Nat /\ (k <= n + 1 <=> k <= n \/ k = n + 1)
  <2>1. \A k \in g : k \in 1..L
    BY <1>2
  <2>. QED
    BY <1>1, <2>1
<1>6. ASSUME NEW k \in g, k <= n PROVE Rank(g, k) \in 1..Rank(g, n)
  <2> DEFINE S == {m \in 0..n - k : Rank(g, k + m) \in Nat /\ Rank(g, k + m) >= Rank(g, k)}
  <2>1. k \in Nat /\ k \in 1..L /\ n - k \in Nat /\ k - 1 \in Nat /\ (k - 1) + 1 = k /\ k + 0 = k /\ k + (n - k) = n
    BY <1>1, <1>2, <1>6
  <2>2. Rank(g, k) = Rank(g, k - 1) + 1 /\ Rank(g, k - 1) \in Nat
    <3>1. /\ Rank(g, (k - 1) + 1) = IF (k - 1) + 1 \in g THEN Rank(g, k - 1) + 1 ELSE Rank(g, k - 1)
          /\ Rank(g, k - 1) \in Nat
      BY <1>3, <2>1 DEF Ranked
    <3>. QED
      BY <2>1, <3>1
  <2>3. 0 \in S
    BY <2>1, <2>2
  <2>4. ASSUME NEW m \in 0..(n - k) - 1, m \in S PROVE m + 1 \in S
    <3>1. k + m \in Nat /\ k + (m + 1) = (k + m) + 1 /\ m + 1 \in 0..n - k
      BY <2>1
    <3>2. Rank(g, (k + m) + 1) = IF (k + m) + 1 \in g THEN Rank(g, k + m) + 1 ELSE Rank(g, k + m)
      BY <1>3, <3>1 DEF Ranked
    <3>3. Rank(g, k + m) \in Nat /\ Rank(g, k + m) >= Rank(g, k)
      BY <2>4
    <3>4. Rank(g, k) \in Nat
      BY <2>2
    <3>5. Rank(g, k + (m + 1)) \in Nat /\ Rank(g, k + (m + 1)) >= Rank(g, k)
      BY <3>1, <3>2, <3>3, <3>4
    <3>. QED
      BY <3>1, <3>5
  <2>5. n - k \in S
    <3> HIDE DEF S
    <3>1. \A m \in 0..n - k : m \in S
      BY <2>1, <2>3, <2>4, Upward
    <3>. QED
      BY <2>1, <3>1
  <2>6. Rank(g, n) \in Nat /\ Rank(g, n) >= Rank(g, k)
    BY <2>1, <2>5
  <2>. QED
    BY <2>2, <2>6
<1>. QED
  BY <1>1, <1>2, <1>4, <1>5, <1>6 DEF g

LEMMA GemsStep ==
  ASSUME NEW lines, GroupsOnly(lines), NEW n \in 0..Len(lines) - 1, NEW a, GemsAt(lines, n, a)
  PROVE  GemsAt(lines, n + 1, R!GemfileLine(a, lines[n + 1]))
<1> DEFINE l == lines[n + 1]
<1>1. PICK d, p, s, x : /\ a = GemState(ValueAt(lines, p[d]), s, x)
                        /\ Nesting(lines, n, d, p) /\ AsStack(lines, s, d, p) /\ GemsSoFar(lines, n, x)
  BY Zenon DEF GemsAt
<1>2. n \in Nat /\ n + 1 \in 1..Len(lines) /\ l.kind \in {"group", "gem", "end"}
  BY ListLen DEF GroupsOnly
<1>3. d \in Nat /\ p \in [0..d -> 0..n] /\ p[0] = 0
  BY <1>1 DEF Nesting
<1>4. Listed(s) /\ Len(s) = d /\ \A j \in 1..d : s[j] = ValueAt(lines, p[j - 1])
  BY <1>1 DEF AsStack
<1>5. Listed(x) /\ Len(x) = Rank(Gems(lines), n)
      /\ \A k \in Gems(lines) : k <= n => x[Rank(Gems(lines), k)] = R!Innermost(lines, k)
  BY <1>1 DEF GemsSoFar
<1> DEFINE b == R!GemfileLine(a, l)
           v == ValueAt(lines, p[d])
<1>6. l.kind # "gem" => GemsSoFar(lines, n + 1, x)
  BY <1>5, GemRanks DEF GemsSoFar
<1>7. CASE l.kind = "gem"
  <2>1. b = GemState(v, s, Append(x, v))
    <3>1. R!GemfileLine(GemState(v, s, x), l) = GemState(v, s, Append(x, v))
      BY <1>7, GemfileLines
    <3>. QED
      BY <1>1, <3>1, Zenon
  <2>2. Nesting(lines, n + 1, d, p)
    BY <1>1, <1>7, GemNests
  <2>3. R!Innermost(lines, n + 1) = v
    BY <1>2, <2>2, NestingTop
  <2>4. GemsSoFar(lines, n + 1, Append(x, v))
    <3> DEFINE g == Gems(lines)
    <3>1. /\ Rank(g, n) \in Nat /\ Rank(g, n + 1) = Rank(g, n) + 1
          /\ \A k \in g : k <= n + 1 <=> k <= n \/ k = n + 1
          /\ \A k \in g : k <= n => Rank(g, k) \in 1..Rank(g, n)
      BY <1>7, GemRanks
    <3>2. /\ Listed(Append(x, v)) /\ Len(Append(x, v)) = Len(x) + 1
          /\ \A i \in 1..Len(x) : Append(x, v)[i] = x[i]
          /\ Append(x, v)[Len(x) + 1] = v
      BY <1>5, ListAppend
    <3> HIDE DEF v, g
    <3>3. \A k \in g : k <= n + 1 => Append(x, v)[Rank(g, k)] = R!Innermost(lines, k)
      <4>1. SUFFICES ASSUME NEW k \in g, k <= n + 1 PROVE Append(x, v)[Rank(g, k)] = R!Innermost(lines, k)
        OBVIOUS
      <4>2. CASE k <= n
        <5>1. Rank(g, k) \in 1..Len(x) /\ x[Rank(g, k)] = R!Innermost(lines, k)
          BY <1>5, <3>1, <4>2 DEF g
        <5>. QED
          BY <3>2, <5>1
      <4>3. CASE k = n + 1
        BY <1>5, <2>3, <3>1, <3>2, <4>3 DEF g
      <4>. QED
        BY <3>1, <4>1, <4>2, <4>3
    <3>. QED
      BY <1>5, <3>1, <3>2, <3>3 DEF GemsSoFar, g
  <2>. QED
    BY <1>1, <2>1, <2>2, <2>4, Zenon DEF GemsAt
<1>8. CASE l.kind = "group"
  <2> DEFINE r == [j \in 0..d + 1 |-> IF j = d + 1 THEN n + 1 ELSE p[j]]
             t == Append(s, v)
  <2>1. b = GemState(l.value, t, x)
    <3>1. R!GemfileLine(GemState(v, s, x), l) = GemState(l.value, t, x)
      BY <1>8, GemfileLines
    <3>. QED
      BY <1>1, <3>1, Zenon
  <2>2. Nesting(lines, n + 1, d + 1, r)
    BY <1>1, <1>8, GroupNests
  <2>3. r[d + 1] = n + 1 /\ \A j \in 0..d : r[j] = p[j]
    BY <1>3
  <2>4. ValueAt(lines, r[d + 1]) = l.value
    BY <1>2, <2>3 DEF ValueAt
  <2>5. Listed(t) /\ Len(t) = d + 1 /\ (\A i \in 1..d : t[i] = s[i]) /\ t[d + 1] = v
    BY <1>4, ListAppend
  <2> HIDE DEF r, t
  <2>6. \A j \in 1..d + 1 : t[j] = ValueAt(lines, r[j - 1])
    <3>1. SUFFICES ASSUME NEW j \in 1..d + 1 PROVE t[j] = ValueAt(lines, r[j - 1])
      OBVIOUS
    <3>2. j - 1 \in 0..d
      BY <1>3
    <3>3. CASE j = d + 1
      <4>1. j - 1 = d /\ r[d] = p[d]
        BY <1>3, <2>3, <3>2, <3>3
      <4>. QED
        BY <2>5, <3>3, <4>1
    <3>4. CASE j # d + 1
      <4>1. j \in 1..d
        BY <1>3, <3>4
      <4>. QED
        BY <1>4, <2>3, <2>5, <3>2, <4>1
    <3>. QED
      BY <3>3, <3>4
  <2>7. AsStack(lines, t, d + 1, r)
    BY <2>5, <2>6 DEF AsStack
  <2>. QED
    BY <1>6, <1>8, <2>1, <2>2, <2>4, <2>7, Zenon DEF GemsAt
<1>9. CASE l.kind = "end" /\ d = 0
  <2> DEFINE z == [j \in 0..0 |-> 0]
  <2>1. s = <<>>
    BY <1>4, <1>9, EmptySeq DEF Listed
  <2>2. b = a
    <3>1. R!GemfileLine(GemState(v, s, x), l) = GemState(v, s, x)
      BY <1>9, <2>1, GemfileLines
    <3>. QED
      BY <1>1, <3>1, Zenon
  <2>3. Nesting(lines, n + 1, 0, z)
    BY <1>1, <1>9, EndNests
  <2>4. z[0] = p[d]
    BY <1>3, <1>9
  <2>5. AsStack(lines, s, 0, z)
    <3>1. \A j \in 1..0 : FALSE
      OBVIOUS
    <3>. QED
      BY <1>4, <1>9, <3>1 DEF AsStack
  <2> HIDE DEF z
  <2>. QED
    BY <1>1, <1>6, <1>9, <2>2, <2>3, <2>4, <2>5, Zenon DEF GemsAt
<1>10. CASE l.kind = "end" /\ d # 0
  <2> DEFINE r == [j \in 0..d - 1 |-> p[j]]
             t == SubSeq(s, 1, Len(s) - 1)
  <2>1. s # <<>>
    BY <1>4, <1>10, EmptySeq
  <2>2. b = GemState(s[Len(s)], t, x)
    <3>1. R!GemfileLine(GemState(v, s, x), l) = GemState(s[Len(s)], t, x)
      BY <1>10, <2>1, GemfileLines
    <3>. QED
      BY <1>1, <3>1, Zenon
  <2>3. d > 0 /\ d - 1 \in Nat /\ d - 1 \in 0..d - 1 /\ d \in 1..d
    BY <1>3, <1>10
  <2>4. Nesting(lines, n + 1, d - 1, r)
    BY <1>1, <1>10, <2>3, EndNests
  <2>5. \A j \in 0..d - 1 : r[j] = p[j]
    OBVIOUS
  <2>6. Listed(t) /\ Len(t) = d - 1 /\ \A i \in 1..d - 1 : t[i] = s[i]
    BY <1>4, <2>1, ListFront
  <2> HIDE DEF r, t
  <2>7. s[Len(s)] = ValueAt(lines, r[d - 1])
    BY <1>4, <2>3, <2>5
  <2>8. \A j \in 1..d - 1 : t[j] = ValueAt(lines, r[j - 1])
    <3>1. SUFFICES ASSUME NEW j \in 1..d - 1 PROVE t[j] = ValueAt(lines, r[j - 1])
      OBVIOUS
    <3>2. j - 1 \in 0..d - 1 /\ j \in 1..d
      BY <1>3
    <3>. QED
      BY <1>4, <2>5, <2>6, <3>2
  <2>9. AsStack(lines, t, d - 1, r)
    BY <2>6, <2>8 DEF AsStack
  <2>. QED
    BY <1>6, <1>10, <2>2, <2>4, <2>7, <2>9, Zenon DEF GemsAt
<1>. QED
  BY <1>2, <1>7, <1>8, <1>9, <1>10

LEMMA GemfileRead ==
  ASSUME NEW lines, GroupsOnly(lines)
  PROVE  /\ Len(R!ParseGemfile(lines)) = R!Cardinality(Gems(lines))
         /\ \A k \in Gems(lines) :
              R!ParseGemfile(lines)[R!Cardinality({j \in Gems(lines) : j <= k})] = R!Innermost(lines, k)
<1> DEFINE L == Len(lines)
           run == R!GemfileRun(lines)
           zero == GemState("default", <<>>, <<>>)
           S == {n \in 0..L : GemsAt(lines, n, run[n])}
           g == Gems(lines)
<1>1. L \in Nat /\ DOMAIN lines = 1..L /\ Listed(lines)
  BY ListLen DEF GroupsOnly
<1>2. run[0] = zero /\ \A n \in 1..L : run[n] = R!GemfileLine(run[n - 1], lines[n])
  BY <1>1, GemfileSteps DEF GemState
<1>3. g \subseteq 1..L /\ \A k \in g : ~ (k <= 0)
  BY <1>1 DEF Gems
<1> HIDE DEF L, run, zero, g
<1>4. Ranked(g, L)
  BY <1>1, <1>3, RankSteps
<1>5. 0 \in S
  <2> DEFINE z == [j \in 0..0 |-> 0]
  <2>1. z \in [0..0 -> 0..0] /\ z[0] = 0 /\ (\A i, j \in 0..0 : ~ (i < j)) /\ (\A j \in 1..0 : FALSE) /\ 1..0 = {}
    OBVIOUS
  <2>2. OpenAt(lines, 0) = {}
    BY DEF OpenAt
  <2> HIDE DEF z
  <2>3. Nesting(lines, 0, 0, z)
    BY <2>1, <2>2 DEF Nesting
  <2>4. Listed(<<>>) /\ Len(<<>>) = 0
    <3>1. <<>> \in Seq({})
      BY EmptySeq
    <3>. QED
      BY <3>1 DEF Listed
  <2>5. AsStack(lines, <<>>, 0, z)
    BY <2>1, <2>4 DEF AsStack
  <2>6. Rank(g, 0) = 0
    BY <1>4 DEF Ranked
  <2>7. GemsSoFar(lines, 0, <<>>)
    BY <1>3, <2>4, <2>6 DEF GemsSoFar, g
  <2>8. zero = GemState(ValueAt(lines, z[0]), <<>>, <<>>)
    BY <2>1 DEF ValueAt, zero
  <2>9. GemsAt(lines, 0, run[0])
    BY <1>2, <2>3, <2>5, <2>7, <2>8, Zenon DEF GemsAt
  <2>. QED
    BY <1>1, <2>9
<1>6. ASSUME NEW n \in 0..L - 1, n \in S PROVE n + 1 \in S
  <2>1. n + 1 \in 1..L /\ (n + 1) - 1 = n /\ n + 1 \in 0..L
    BY <1>1
  <2>2. run[n + 1] = R!GemfileLine(run[n], lines[n + 1])
    BY <1>2, <2>1
  <2>3. GemsAt(lines, n, run[n])
    BY <1>6
  <2>4. GemsAt(lines, n + 1, R!GemfileLine(run[n], lines[n + 1]))
    BY <2>3, GemsStep DEF L
  <2>. QED
    BY <2>1, <2>2, <2>4
<1>7. GemsAt(lines, L, run[L])
  <2>1. \A n \in 0..L : n \in S
    <3> HIDE DEF S
    <3>. QED
      BY <1>1, <1>5, <1>6, Upward
  <2>2. L \in S
    BY <1>1, <2>1
  <2>. QED
    BY <2>2
<1>8. PICK d, p, s, x : run[L] = GemState(ValueAt(lines, p[d]), s, x) /\ GemsSoFar(lines, L, x)
  BY <1>7, Zenon DEF GemsAt
<1>9. R!ParseGemfile(lines) = x
  <2>1. R!ParseGemfile(lines) = run[L].gems
    BY Zenon DEF R!ParseGemfile, run, L
  <2>2. \A v : GemState(v, s, x).gems = x
    BY DEF GemState
  <2>. QED
    BY <1>8, <2>1, <2>2, Zenon
<1>10. \A T : R!Cardinality(T) = Cardinality(T)
  BY Zenon DEF R!Cardinality, Cardinality
<1>11. /\ Len(x) = Rank(g, L)
       /\ \A k \in g : k <= L => x[Rank(g, k)] = R!Innermost(lines, k)
  BY <1>8 DEF GemsSoFar, g
<1>12. Len(x) = Cardinality(g)
  BY <1>4, <1>11 DEF Ranked
<1>13. \A k \in g : x[Cardinality({j \in g : j <= k})] = R!Innermost(lines, k)
  <2>1. \A k \in g : k <= L
    <3>1. \A k \in g : k \in 1..L
      BY <1>3
    <3>. QED
      BY <1>1, <3>1
  <2>. QED
    BY <1>11, <2>1 DEF Rank
<1>. QED
  BY <1>9, <1>10, <1>12, <1>13, Zenon DEF g

\* The other manifests.
LEMMA ModesTold == \A files : files \subseteq {"go.mod", "go.work"} => (R!ModuleMode(files) = "Gopath" <=> files = {})
BY DEF R!ModuleMode

LEMMA DockerNamed ==
  ASSUME NEW names
  PROVE  LET n == R!FindDockerfile(names) IN
         n # R!Err => n \in names /\ ("Dockerfile" \in names => n = "Dockerfile")
<1> DEFINE order == <<"Dockerfile", "dockerfile", "Dockerfile.dev", "Dockerfile.prod">>
           hits == {i \in DOMAIN order : order[i] \in names}
           hit == R!FirstOf(order, hits)
<1>1. DOMAIN order = 1..4 /\ order[1] = "Dockerfile"
  OBVIOUS
<1>2. hits \subseteq 1..4
  BY <1>1
<1>3. R!FindDockerfile(names) = IF hit = R!Refused THEN R!Err ELSE hit[1]
  BY Zenon DEF R!FindDockerfile
<1>4. CASE hits = {}
  <2>1. hit = R!Refused
    BY <1>4, Zenon DEF R!FirstOf
  <2>. QED
    BY <1>3, <2>1, Zenon
<1>5. CASE hits # {}
  <2>1. hit = <<order[R!Min(hits)]>>
    BY <1>5, Zenon DEF R!FirstOf
  <2>2. hit # R!Refused /\ hit[1] = order[R!Min(hits)]
    <3> HIDE DEF order, hits, hit
    <3>. QED
      BY <2>1 DEF R!Refused
  <2>3. R!Min(hits) \in hits /\ \A k \in hits : R!Min(hits) <= k
    <3>1. hits \subseteq Nat
      BY <1>2
    <3> HIDE DEF order, hits
    <3>. QED
      BY <1>5, <3>1, LeastOf
  <2>4. order[R!Min(hits)] \in names
    <3> HIDE DEF order
    <3>. QED
      BY <2>3
  <2>5. ASSUME "Dockerfile" \in names PROVE R!Min(hits) = 1
    <3>1. 1 \in hits
      <4> HIDE DEF order
      <4>. QED
        BY <1>1, <2>5
    <3>2. R!Min(hits) \in 1..4 /\ R!Min(hits) <= 1
      <4> HIDE DEF hits
      <4>. QED
        BY <1>2, <2>3, <3>1
    <3>. QED
      BY <3>2
  <2> HIDE DEF order, hits, hit
  <2>. QED
    BY <1>1, <1>3, <2>2, <2>4, <2>5, Zenon
<1>. QED
  BY <1>4, <1>5

ManifestParts ==
  /\ q.kind = "search" => Listed(q.dirs)
  /\ q.kind = "gemfile" => Listed(q.lines) /\ \A i \in 1..Len(q.lines) : q.lines[i].kind \in {"group", "gem", "end", "block"}
  /\ q.kind = "gomod" => Listed(q.lines)
  /\ q.kind = "gomode" => q.files \subseteq {"go.mod", "go.work"}
  /\ q.kind = "dockerfile" => Listed(q.lines) /\ \A i \in 1..Len(q.lines) : q.lines[i].value # R!None

LEMMA AnyManifest == ManifestParts => R!ManifestsRead
<1>1. SUFFICES ASSUME ManifestParts PROVE R!ManifestsRead
  OBVIOUS
<1>2. q.kind = "search" => SearchOf(q.dirs)
  BY <1>1, RootsFound DEF ManifestParts
<1>3. CargoOf(q.toml, q.members)
  BY WorkspaceRead
<1>4. q.kind = "gemfile" /\ ~ (\E i \in DOMAIN q.lines : q.lines[i].kind = "block") => GroupsOnly(q.lines)
  <2>1. SUFFICES ASSUME q.kind = "gemfile", ~ (\E i \in DOMAIN q.lines : q.lines[i].kind = "block")
                 PROVE  GroupsOnly(q.lines)
    OBVIOUS
  <2>2. Listed(q.lines) /\ \A i \in 1..Len(q.lines) : q.lines[i].kind \in {"group", "gem", "end", "block"}
    BY <1>1, <2>1 DEF ManifestParts
  <2>3. DOMAIN q.lines = 1..Len(q.lines)
    BY <2>2, ListLen
  <2>. QED
    BY <2>1, <2>2, <2>3 DEF GroupsOnly
<1>5. q.kind = "gemfile" /\ ~ (\E i \in DOMAIN q.lines : q.lines[i].kind = "block") =>
        /\ Len(R!ParseGemfile(q.lines)) = R!Cardinality(Gems(q.lines))
        /\ \A k \in Gems(q.lines) :
             R!ParseGemfile(q.lines)[R!Cardinality({j \in Gems(q.lines) : j <= k})] = R!Innermost(q.lines, k)
  BY <1>4, GemfileRead
<1>6. q.kind = "gomod" => GoModOf(q.lines)
  BY <1>1, GoModRead DEF ManifestParts
<1>7. q.kind = "gomode" => (R!ModuleMode(q.files) = "Gopath" <=> q.files = {})
  BY <1>1, ModesTold DEF ManifestParts
<1>8. q.kind = "dockerfile" => DockerfileOf(q.lines)
  BY <1>1, DockerfileRead DEF ManifestParts
<1>9. LET n == R!FindDockerfile(q.names) IN
      n # R!Err => n \in q.names /\ ("Dockerfile" \in q.names => n = "Dockerfile")
  BY DockerNamed
<1>. QED
  BY <1>2, <1>3, <1>5, <1>6, <1>7, <1>8, <1>9, Zenon DEF R!ManifestsRead, R!Asked, SearchOf, CargoOf, Gems, GoModOf, DockerfileOf

-----------------------------------------------------------------------------
(* Language plugins: what a question holds.                                  *)

LEMMA ListedQuestion ==
  ASSUME NEW S, NEW n \in Nat, NEW l \in R!Lists(S, n)
  PROVE  Listed(l) /\ DOMAIN l = 1..Len(l) /\ \A i \in 1..Len(l) : l[i] \in S
<1>1. PICK k \in 0..n : l \in [1..k -> S]
  BY DEF R!Lists
<1>2. k \in Nat /\ l = [i \in 1..k |-> l[i]] /\ \A i \in 1..k : l[i] \in S
  BY <1>1
<1>3. Listed(l) /\ Len(l) = k
  BY <1>2, ListTable
<1>. QED
  BY <1>2, <1>3, ListLen

LEMMA RequestForms == \A r \in R!Requests : r.form \in Forms
BY DEF R!Requests, Forms

LEMMA PlainVersions == \A i \in R!Plain \union R!Installations : IsVersion(i.v)
<1>1. \A v \in R!Versions : IsVersion(v)
  <2>1. SUFFICES ASSUME NEW v \in R!Versions PROVE IsVersion(v)
    OBVIOUS
  <2>2. v \in Majors \X Minors
    BY <2>1, Zenon DEF R!Versions
  <2>3. v[1] \in Majors /\ v[2] \in Minors /\ v = <<v[1], v[2]>>
    BY <2>2
  <2>. QED
    BY <2>3, BoundsAssumption DEF IsVersion
<1>2. \A i \in R!Plain \union R!Installations : i.v \in R!Versions
  BY DEF R!Plain, R!Installations
<1>. QED
  BY <1>1, <1>2

LEMMA ChooseAsked ==
  R!Choose => \/ /\ q'.kind = "choose" /\ Versioned(q'.list) /\ Versioned(q'.more) /\ q'.req.form \in Forms
              \/ q'.kind = "toolchain" /\ Versioned(q'.list) /\ q'.req.form \in Forms
<1>1. \A n \in Nat : \A l : l \in R!Lists(R!Plain, n) \/ l \in R!Lists(R!Installations, n) => Versioned(l)
  BY ListedQuestion, PlainVersions DEF Versioned
<1> DEFINE A == R!Lists(R!Plain, 2)
           B == R!Lists(R!Plain, 1)
           C == R!Lists(R!Installations, 2)
<1>2. \A l : l \in A \/ l \in B \/ l \in C => Versioned(l)
  BY <1>1
<1>3. R!Choose => \E req \in R!Requests :
        \/ \E l \in A, m \in B : q' = [kind |-> "choose", req |-> req, list |-> l, more |-> m]
        \/ \E l \in C : q' = [kind |-> "toolchain", req |-> req, list |-> l]
  BY Zenon DEF R!Choose
<1> HIDE DEF A, B, C
<1>. QED
  BY <1>2, <1>3, RequestForms

LEMMA ManagerAsked == R!Manager => q'.kind = "manager" /\ q'.pref # R!Err
BY DEF R!Manager, R!Err

LEMMA ShellAsked == R!Shell => q'.kind = "shell" /\ Listed(q'.var) /\ Listed(q'.common) /\ Len(q'.common) = 2
<1>1. SUFFICES ASSUME R!Shell PROVE q'.kind = "shell" /\ Listed(q'.var) /\ Listed(q'.common) /\ Len(q'.common) = 2
  OBVIOUS
<1>2. PICK v, a, b : q' = [kind |-> "shell", var |-> v, common |-> <<a, b>>] /\ (v = <<>> \/ \E c : v = <<c>>)
  BY <1>1 DEF R!Shell
<1>3. Listed(<<>>)
  <2>1. <<>> \in Seq({})
    BY EmptySeq
  <2>. QED
    BY <2>1 DEF Listed
<1>4. \A c : Listed(<<c>>)
  <2>1. \A c : <<c>> \in Seq({c})
    OBVIOUS
  <2>. QED
    BY <2>1 DEF Listed
<1>5. Listed(<<a, b>>) /\ Len(<<a, b>>) = 2
  <2>1. <<a, b>> \in Seq({a, b})
    OBVIOUS
  <2>. QED
    BY <2>1 DEF Listed
<1>6. q'.kind = "shell" /\ q'.var = v /\ q'.common = <<a, b>>
  BY <1>2
<1>. QED
  BY <1>2, <1>3, <1>4, <1>5, <1>6

LEMMA FormatAsked == R!Format => q'.kind = "format" /\ (q'.d.max = <<>> /\ q'.d.kind # "compatible" => Bounded(q'.d))
<1>1. SUFFICES ASSUME R!Format PROVE q'.kind = "format" /\ (q'.d.max = <<>> /\ q'.d.kind # "compatible" => Bounded(q'.d))
  OBVIOUS
<1>2. PICK k \in {"any", "exact", "range", "compatible"}, lo \in {<<>>, <<"1">>, <<"2">>}, hi \in {<<>>, <<"1">>, <<"2">>} :
        /\ k \in {"exact", "compatible"} => lo # <<>>
        /\ k # "range" => hi = <<>>
        /\ k = "any" => lo = <<>>
        /\ k = "range" => lo \o hi # <<>>
        /\ q' = [kind |-> "format", d |-> R!Dep(<<"n">>, k, lo, hi)]
  BY <1>1, Zenon DEF R!Format
<1>3. q'.kind = "format" /\ q'.d = R!Dep(<<"n">>, k, lo, hi)
  BY <1>2
<1>4. q'.d.max = hi /\ q'.d.kind = k
  BY <1>3 DEF R!Dep
<1>5. ASSUME hi = <<>>, k # "compatible" PROVE Bounded(q'.d)
  <2>1. k = "range" => lo # <<>>
    <3>1. <<>> \o <<>> = <<>>
      OBVIOUS
    <3>. QED
      BY <1>2, <1>5, <3>1
  <2>2. "n" \notin Operators /\ "1" \notin Operators /\ "2" \notin Operators
    BY DEF Operators
  <2>3. CASE k = "any"
    BY <1>2, <1>3, <1>5, <2>2, <2>3, Zenon DEF Bounded
  <2>4. CASE k \in {"exact", "range"}
    <3>1. lo = <<"1">> \/ lo = <<"2">>
      BY <1>2, <2>1, <2>4
    <3>. QED
      BY <1>3, <1>5, <2>2, <2>4, <3>1, Zenon DEF Bounded
  <2>. QED
    BY <1>2, <1>5, <2>3, <2>4
<1>. QED
  BY <1>3, <1>4, <1>5

LEMMA RequirementsAsked ==
  R!Requirements => /\ q'.kind = "requirements" /\ Listed(q'.lines)
                    /\ \A i \in 1..Len(q'.lines) : q'.lines[i] \in RequirementLines
<1> DEFINE T == R!Lists(RequirementLines, Length)
<1>1. R!Requirements <=> \E l \in T : q' = [kind |-> "requirements", lines |-> l]
  BY Zenon DEF R!Requirements, RequirementLines
<1>2. \A l \in T : Listed(l) /\ \A i \in 1..Len(l) : l[i] \in RequirementLines
  <2>1. Length \in Nat
    BY BoundsAssumption
  <2>. QED
    BY <2>1, ListedQuestion
<1> HIDE DEF T
<1>3. SUFFICES ASSUME R!Requirements
               PROVE  /\ q'.kind = "requirements" /\ Listed(q'.lines)
                      /\ \A i \in 1..Len(q'.lines) : q'.lines[i] \in RequirementLines
  OBVIOUS
<1>4. PICK l \in T : q' = [kind |-> "requirements", lines |-> l]
  BY <1>1, <1>3
<1>5. q'.kind = "requirements" /\ q'.lines = l
  BY <1>4
<1>. QED
  BY <1>2, <1>5

LEMMA CompareAsked ==
  R!Compare => q'.kind = "compare" /\ q'.spec \in {"range", "exact", "compatible", "exclude"} /\ q'.lo \in 0..11 /\ q'.v \in 0..11
BY DEF R!Compare

LEMMA ChangeAsked == R!Change => q'.kind = "change" /\ State(q'.old) /\ State(q'.new)
<1> DEFINE F == [hash : 0..2, size : 1..2, time : {0, 1, 2}]
           O == {<<>>} \union {<<f>> : f \in F}
<1>1. \A o \in O : State(o)
  <2>1. \A f \in F : f.time \in Int
    OBVIOUS
  <2> HIDE DEF F
  <2>2. \A f \in F : State(<<f>>)
    BY <2>1 DEF State
  <2>. QED
    BY <2>2 DEF State
<1>2. R!Change => \E h : \E old, new \in O : q' = [kind |-> "change", hook |-> h, old |-> old, new |-> new]
  BY Zenon DEF R!Change
<1> HIDE DEF O
<1>. QED
  BY <1>1, <1>2

LEMMA CommandAsked == R!Command => q'.kind = "command" /\ IsCall(q'.hook) /\ Other(q'.files)
<1> DEFINE E == {<<>>, <<"python">>, <<"python", "-m", "a">>, <<"tool">>, <<"tool", "x">>,
                 <<"go", "run", "a">>, <<"debug-statements", "x">>}
           F == R!Lists(R!FileNames, 2)
           call(e, p) == [entry |-> e, args |-> <<"arg">>, pass |-> p]
<1>1. \A e \in E : IsEntry(e)
  <2>1. IsEntry(<<>>)
    BY NothingOther DEF IsEntry
  <2>2. ASSUME NEW x, x # "arg" PROVE IsEntry(<<x>>)
    <3> DEFINE e == <<x>>
    <3>1. e \in Seq({x}) /\ Len(e) = 1 /\ e[1] = x
      OBVIOUS
    <3>2. Other(e)
      <4> HIDE DEF e
      <4>. QED
        BY <2>2, <3>1 DEF Other, Listed
    <3> HIDE DEF e
    <3>3. IsEntry(e)
      BY <3>1, <3>2 DEF IsEntry
    <3>. QED
      BY <3>3 DEF e
  <2>3. ASSUME NEW x, NEW y, x # "arg", y # "arg" PROVE IsEntry(<<x, y>>)
    <3> DEFINE e == <<x, y>>
    <3>1. e \in Seq({x, y}) /\ Len(e) = 2 /\ e[1] = x /\ e[2] = y
      OBVIOUS
    <3>2. Other(e)
      <4> HIDE DEF e
      <4>. QED
        BY <2>3, <3>1 DEF Other, Listed
    <3> HIDE DEF e
    <3>3. IsEntry(e)
      BY <3>1, <3>2 DEF IsEntry
    <3>. QED
      BY <3>3 DEF e
  <2>4. ASSUME NEW x, NEW y, NEW z, x # "arg", y # "arg", z # "arg", x = "go" => y = "run" PROVE IsEntry(<<x, y, z>>)
    <3> DEFINE e == <<x, y, z>>
    <3>1. e \in Seq({x, y, z}) /\ Len(e) = 3 /\ e[1] = x /\ e[2] = y /\ e[3] = z
      OBVIOUS
    <3>2. Other(e)
      <4> HIDE DEF e
      <4>. QED
        BY <2>4, <3>1 DEF Other, Listed
    <3> HIDE DEF e
    <3>3. IsEntry(e)
      BY <2>4, <3>1, <3>2 DEF IsEntry
    <3>. QED
      BY <3>3 DEF e
  <2>. QED
    BY <2>1, <2>2, <2>3, <2>4
<1>2. \A f \in F : Other(f)
  <2>1. \A f \in F : Listed(f) /\ \A i \in 1..Len(f) : f[i] \in R!FileNames
    BY ListedQuestion
  <2>2. \A x \in R!FileNames : x # "arg"
    BY DEF R!FileNames
  <2> HIDE DEF F
  <2>. QED
    BY <2>1, <2>2 DEF Other
<1>3. R!Command => \E e \in E, p \in BOOLEAN : \E bin : \E f \in F :
        q' = [kind |-> "command", hook |-> call(e, p), files |-> f, bin |-> bin]
  BY Zenon DEF R!Command
<1>4. \A e \in E, p \in BOOLEAN : IsCall(call(e, p))
  <2> HIDE DEF E
  <2>. QED
    BY <1>1 DEF IsCall
<1> HIDE DEF E, F, call
<1>. QED
  BY <1>2, <1>3, <1>4

LEMMA WorkspaceAsked == R!Workspace => q'.kind = "cargo" \/ (q'.kind = "search" /\ Listed(q'.dirs))
<1> DEFINE D == R!Lists(SUBSET {"Cargo.toml", "package.json", "workspaces", "broken"}, 2)
<1>1. \A d \in D : Listed(d)
  BY ListedQuestion
<1>2. R!Workspace => \/ \E d \in D : q' = [kind |-> "search", dirs |-> d]
                     \/ \E t, ms : q' = [kind |-> "cargo", toml |-> t, members |-> ms]
  BY Zenon DEF R!Workspace
<1> HIDE DEF D
<1>. QED
  BY <1>1, <1>2

LEMMA GemfileAsked ==
  R!Gemfile => /\ q'.kind = "gemfile" /\ Listed(q'.lines)
               /\ \A i \in 1..Len(q'.lines) : q'.lines[i].kind \in {"group", "gem", "end", "block"}
<1> DEFINE K == {[kind |-> "group", value |-> "test"], [kind |-> "group", value |-> "dev"],
                 [kind |-> "gem", value |-> "g"], [kind |-> "end", value |-> ""],
                 [kind |-> "block", value |-> ""]}
           T == R!Lists(K, Length)
<1>1. \A x \in K : x.kind \in {"group", "gem", "end", "block"}
  <2>1. \A v : [kind |-> "group", value |-> v].kind = "group"
    OBVIOUS
  <2>2. \A v : [kind |-> "gem", value |-> v].kind = "gem"
    OBVIOUS
  <2>3. \A v : [kind |-> "end", value |-> v].kind = "end"
    OBVIOUS
  <2>4. \A v : [kind |-> "block", value |-> v].kind = "block"
    OBVIOUS
  <2>. QED
    BY <2>1, <2>2, <2>3, <2>4, Zenon
<1>2. R!Gemfile <=> \E l \in T : q' = [kind |-> "gemfile", lines |-> l]
  BY Zenon DEF R!Gemfile
<1> HIDE DEF K
<1>3. \A l \in T : Listed(l) /\ \A i \in 1..Len(l) : l[i] \in K
  <2>1. Length \in Nat
    BY BoundsAssumption
  <2>. QED
    BY <2>1, ListedQuestion
<1> HIDE DEF T
<1>4. SUFFICES ASSUME R!Gemfile
               PROVE  /\ q'.kind = "gemfile" /\ Listed(q'.lines)
                      /\ \A i \in 1..Len(q'.lines) : q'.lines[i].kind \in {"group", "gem", "end", "block"}
  OBVIOUS
<1>5. PICK l \in T : q' = [kind |-> "gemfile", lines |-> l]
  BY <1>2, <1>4
<1>6. q'.kind = "gemfile" /\ q'.lines = l
  BY <1>5
<1>. QED
  BY <1>1, <1>3, <1>6

LEMMA GoModAsked ==
  R!GoMod => (q'.kind = "gomod" /\ Listed(q'.lines)) \/ (q'.kind = "gomode" /\ q'.files \subseteq {"go.mod", "go.work"})
<1> DEFINE T == R!Lists({"require (", "require x", ")", "x v1", "replace x"}, Length)
           U == SUBSET {"go.mod", "go.work"}
<1>1. \A l \in T : Listed(l)
  <2>1. Length \in Nat
    BY BoundsAssumption
  <2>. QED
    BY <2>1, ListedQuestion
<1>2. R!GoMod => (\E l \in T : q' = [kind |-> "gomod", lines |-> l]) \/ \E f \in U : q' = [kind |-> "gomode", files |-> f]
  BY Zenon DEF R!GoMod
<1> HIDE DEF T
<1>3. \A l : q' = [kind |-> "gomod", lines |-> l] => q'.kind = "gomod" /\ q'.lines = l
  OBVIOUS
<1>4. \A f : q' = [kind |-> "gomode", files |-> f] => q'.kind = "gomode" /\ q'.files = f
  OBVIOUS
<1> HIDE DEF U
<1>5. \A f \in U : f \subseteq {"go.mod", "go.work"}
  BY DEF U
<1>. QED
  BY <1>1, <1>2, <1>3, <1>4, <1>5, Zenon

LEMMA DockerfileAsked ==
  R!Dockerfile => \/ q'.kind = "dockername"
                  \/ /\ q'.kind = "dockerfile" /\ Listed(q'.lines)
                     /\ \A i \in 1..Len(q'.lines) : q'.lines[i].value # R!None
<1> DEFINE K == {[kind |-> k, value |-> v] : k \in {"FROM", "WORKDIR", "EXPOSE", "RUN"}, v \in {"1", "2"}}
           T == R!Lists(K, 3)
<1>1. \A x \in K : x.value # R!None
  BY DEF R!None
<1>2. R!Dockerfile => (\E l \in T : q' = [kind |-> "dockerfile", lines |-> l]) \/ \E n : q' = [kind |-> "dockername", names |-> n]
  BY DEF R!Dockerfile
<1> HIDE DEF K
<1>3. \A l \in T : Listed(l) /\ \A i \in 1..Len(l) : l[i] \in K
  BY ListedQuestion
<1> HIDE DEF T
<1>4. SUFFICES ASSUME NEW l \in T, q' = [kind |-> "dockerfile", lines |-> l]
               PROVE  /\ q'.kind = "dockerfile" /\ Listed(q'.lines)
                      /\ \A i \in 1..Len(q'.lines) : q'.lines[i].value # R!None
  BY <1>2
<1>5. q'.kind = "dockerfile" /\ q'.lines = l
  BY <1>4
<1>. QED
  BY <1>1, <1>3, <1>5

\* What a question holds of what its rule needs.
LanguageInv == SelectionParts /\ SpecParts /\ FileParts /\ ManifestParts
LanguageKinds == {"choose", "toolchain", "manager", "shell", "format", "requirements", "compare", "command", "change",
                  "search", "cargo", "gemfile", "gomod", "gomode", "dockerfile", "dockername"}

LEMMA UnaskedLanguage == q.kind \notin LanguageKinds => LanguageInv
BY DEF LanguageKinds, LanguageInv, SelectionParts, SpecParts, FileParts, ManifestParts

LEMMA LanguageKept == LanguageInv /\ [MCNext]_allVars => LanguageInv'
<1>1. SUFFICES ASSUME LanguageInv, [MCNext]_allVars PROVE LanguageInv'
  OBVIOUS
<1>2. q' = q \/ R!LanguageQuestion
  BY <1>1 DEF MCNext, allVars
<1>3. CASE q' = q
  BY <1>1, <1>3 DEF LanguageInv, SelectionParts, SpecParts, FileParts, ManifestParts
<1>4. CASE R!Choose
  BY <1>4, ChooseAsked DEF LanguageInv, SelectionParts, SpecParts, FileParts, ManifestParts
<1>5. CASE R!Manager
  BY <1>5, ManagerAsked DEF LanguageInv, SelectionParts, SpecParts, FileParts, ManifestParts
<1>6. CASE R!Shell
  BY <1>6, ShellAsked DEF LanguageInv, SelectionParts, SpecParts, FileParts, ManifestParts
<1>7. CASE R!Format
  BY <1>7, FormatAsked DEF LanguageInv, SelectionParts, SpecParts, FileParts, ManifestParts
<1>8. CASE R!Requirements
  BY <1>8, RequirementsAsked DEF LanguageInv, SelectionParts, SpecParts, FileParts, ManifestParts
<1>9. CASE R!Compare
  BY <1>9, CompareAsked DEF LanguageInv, SelectionParts, SpecParts, FileParts, ManifestParts
<1>10. CASE R!Change
  BY <1>10, ChangeAsked DEF LanguageInv, SelectionParts, SpecParts, FileParts, ManifestParts
<1>11. CASE R!Command
  BY <1>11, CommandAsked DEF LanguageInv, SelectionParts, SpecParts, FileParts, ManifestParts
<1>12. CASE R!Workspace
  BY <1>12, WorkspaceAsked DEF LanguageInv, SelectionParts, SpecParts, FileParts, ManifestParts
<1>13. CASE R!Gemfile
  BY <1>13, GemfileAsked DEF LanguageInv, SelectionParts, SpecParts, FileParts, ManifestParts
<1>14. CASE R!GoMod
  BY <1>14, GoModAsked DEF LanguageInv, SelectionParts, SpecParts, FileParts, ManifestParts
<1>15. CASE R!Dockerfile
  BY <1>15, DockerfileAsked DEF LanguageInv, SelectionParts, SpecParts, FileParts, ManifestParts
<1>. QED
  BY <1>2, <1>3, <1>4, <1>5, <1>6, <1>7, <1>8, <1>9, <1>10, <1>11, <1>12, <1>13, <1>14, <1>15 DEF R!LanguageQuestion

-----------------------------------------------------------------------------
(* The three of them beside each other, as the model checker runs them.      *)

\* A behaviour of the composition is one of the setups, of the registry or of
\* the questions, so all three properties of the first two hold of it.
THEOREM LanguagesAreSound ==
  MCSpec => []ReadyEnvironment /\ []SetupsTruthful /\ []RegistryAgrees
<1>1. MCInit => SetupInv /\ RegistryInv
  BY SetupInit, RegistryStarts DEF MCInit
<1>2. ASSUME SetupInv, RegistryInv, [MCNext]_allVars PROVE SetupInv' /\ RegistryInv'
  <2>1. [Next]_vars /\ [RegistryNext]_registryVars
    BY <1>2 DEF MCNext, allVars
  <2> QED
    BY <1>2, <2>1, SetupStepKeeps, RegistryStepKeeps
<1>3. SetupInv /\ RegistryInv => ReadyEnvironment /\ SetupsTruthful /\ RegistryAgrees
  BY SetupInvSays, RegistryInvSays
<1> QED
  BY <1>1, <1>2, <1>3, PTL DEF MCSpec

\* The plugins choose versions that serve the request, keep the meaning of
\* specifications and manifests and hand every file to the hook, whatever the
\* versions and however long the files are.
THEOREM LanguageRules == MCSpec => []LanguageRulesHold
<1>1. MCInit => LanguageInv
  <2>1. MCInit => q.kind = "none"
    BY DEF MCInit, R!Init
  <2>. QED
    BY <2>1, UnaskedLanguage DEF LanguageKinds
<1>2. LanguageInv /\ [MCNext]_allVars => LanguageInv'
  BY LanguageKept
<1>3. LanguageInv => LanguageRulesHold
  BY AnySelection, AnySpec, AnyFile, AnyManifest DEF LanguageInv, LanguageRulesHold
<1>. QED
  BY <1>1, <1>2, <1>3, PTL DEF MCSpec

=============================================================================
