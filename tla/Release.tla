------------------------------ MODULE Release ------------------------------
(***************************************************************************)
(* Releasing the package: publishing/deploy.ts in several working copies,  *)
(* the build of scripts/build.ts and proto/build.ts it runs, and the tools *)
(* that take versions back (unpublish.ts, deprecate.ts, delete-package.ts) *)
(* on one registry.                                                        *)
(*                                                                         *)
(* A deployment writes its version into three files before anything is     *)
(* tested, and takes them back when something fails.  Any write and any    *)
(* command may fail, the process may be killed, and an answer of the       *)
(* registry may be lost.  The registry and the developer are external: a   *)
(* version, once published, is never accepted again; the developer changes *)
(* branches, also while a deployment runs, and copies the files of another *)
(* working copy.                                                           *)
(***************************************************************************)
EXTENDS Integers, FiniteSetsExt, SequencesExt

CONSTANTS
  Deployers,        \* working copies, each with one deploy.ts at a time
  Branches,         \* names of git branches, each the sequence of its parts between dots
  MainBranches,     \* those of them that are main or master
  SlashedBranches,  \* those of them no version may contain, such as "fix/x"
  LeadingNumber,    \* what parseInt reads of a part, for those that begin with a number
  Types,            \* of "patch", "minor" and "major", those that are asked for
  None,             \* no version type, and the branch of a version without suffix
  Seconds           \* bound: of the countdown

ASSUME BranchAssumption ==
  /\ MainBranches \subseteq Branches /\ SlashedBranches \subseteq Branches
  /\ MainBranches \cap SlashedBranches = {} /\ None \notin Branches
  /\ LeadingNumber \in [DOMAIN LeadingNumber -> Nat]

VARIABLES
  copies,    \* working copy: its branch and the version in each file
  runs,      \* deployment: where it is and what it remembers
  live,      \* registry: versions that can be installed
  packages,  \* registry: every package it ever accepted, and the tag it got
  withdrawn, \* registry: deprecated versions
  tool,      \* the maintainer's tool
  calls      \* bound: how many deployments and checkouts, and which tools, are to come

vars == <<copies, runs, live, packages, withdrawn, tool, calls>>

-----------------------------------------------------------------------------
(* Versions *)

\* base-branch.n, or base alone.
Version(base, branch, n) == [base |-> base, branch |-> branch, n |-> n]

Increment(base, type) ==
  CASE type = "patch" -> <<base[1], base[2], base[3] + 1>>
    [] type = "minor" -> <<base[1], base[2] + 1, 0>>
    [] type = "major" -> <<base[1] + 1, 0, 0>>

\* The version of another branch begins with the name of this one and a dot: "alpha.7.1",
\* the first of the branch "alpha.7", with that of "alpha".
Extends(v, branch) ==
  v.branch \notin {None, branch} /\ IsPrefix(branch, v.branch)

PartAfter(v, branch) == v.branch[Len(branch) + 1]

\* The numbers read after "base-branch." in versions that begin so: those of the branch,
\* and those found in the names of branches that go on with a number.
NumbersAfter(versions, base, branch) ==
  {v.n : v \in {w \in versions : w.base = base /\ w.branch = branch}} \cup
  {LeadingNumber[PartAfter(v, branch)] :
     v \in {w \in versions : /\ w.base = base /\ Extends(w, branch)
                             /\ PartAfter(w, branch) \in DOMAIN LeadingNumber}}

\* Mutant: the numbers of the branch, whatever the base.
AnyBaseHighest(seen, base, branch) ==
  Max({0} \cup {v.n : v \in {w \in seen : w.branch = branch}})

\* The number the versions the registry listed are counted on from.
HighestPreRelease(seen, base, branch) ==
  Max({0} \cup NumbersAfter(seen, base, branch))

NewVersion(current, branch, type, seen) ==
  LET base == IF type = None THEN current.base ELSE Increment(current.base, type)
  IN IF branch \in MainBranches THEN Version(base, None, 0)
     ELSE IF type # None THEN Version(base, branch, 1)
     ELSE Version(base, branch, HighestPreRelease(seen, base, branch) + 1)

\* The version in index.ts is found again only when it has the form of one.
MarkersFound(v) == v.branch \notin SlashedBranches

TagOf(branch) ==
  IF branch \in MainBranches THEN "latest"
  ELSE IF branch = <<"development">> THEN "dev" ELSE branch

Published == {p.version : p \in packages}

-----------------------------------------------------------------------------
(* The build *)

\* What can fail: each command, a command of the deployment, or nothing.
Failures ==
  {{}, {"deps"}, {"buf"}, {"lint"}, {"tsc"}, {"esbuild"}, {"load"}}
    \cup {{"output", o} : o \in {"guardian", "kal_api"}}

Outputs == {"txn", "kal_api", "validator", "guardian"}

\* proto/build.ts deletes what was generated before it generates anew.
Generated(fails) ==
  IF "buf" \in fails THEN {} ELSE IF "output" \in fails THEN Outputs \ fails ELSE Outputs

\* A failed generation goes unnoticed when kal_api_pb.js is there; otherwise it is
\* tried once more, and fails again.
BuildProtobuf(fails) == Generated(fails) = Outputs \/ "kal_api" \in Generated(fails)

\* tsc, for checking and for compiling, needs every module the sources import.
TypeCheck(fails) == Generated(fails) = Outputs /\ "tsc" \notin fails

CompileTypeScript == {"index.js", "index.d.ts", "wallet.js", "wallet.d.ts"}

CopyProtoFiles(fails) == IF Generated(fails) = {} THEN {} ELSE {"proto"}

GenerateESM(files) == IF "index.js" \in files THEN files \cup {"index.mjs"} ELSE files

GenerateCJS(files) == files \cup {"index.cjs"}

Required == {"index.js", "index.d.ts", "index.mjs", "index.cjs", "wallet.js", "wallet.d.ts"}

ValidateBundles(files, fails) ==
  {"index.js", "index.mjs", "index.cjs", "index.d.ts"} \subseteq files /\ "load" \notin fails

CheckDependencies(fails) == "deps" \notin fails

\* What dist holds afterwards; the build stops at the first command that fails.
DistFiles(fails) ==
  IF ~CheckDependencies(fails) \/ ~BuildProtobuf(fails) \/ "lint" \in fails \/ ~TypeCheck(fails) THEN {}
  ELSE LET esm == GenerateESM(CompileTypeScript \cup CopyProtoFiles(fails))
       IN IF "esbuild" \in fails THEN esm ELSE GenerateCJS(esm)

BuildSucceeds(fails) ==
  /\ Required \subseteq DistFiles(fails)
  /\ ValidateBundles(DistFiles(fails), fails)

\* What npm packs after a build.
Package(copy, fails) ==
  [version |-> copy.package, export |-> copy.index, files |-> DistFiles(fails),
   generated |-> Generated(fails), tag |-> TagOf(copy.branch)]

LockMatches(copy) == copy.lock = copy.package

\* A test compares VERSION of index.ts with the version of package.json.
TestsPass(copy) == copy.index = copy.package

-----------------------------------------------------------------------------
(* deploy.ts *)

Idle == [pc |-> "idle", type |-> None, saved |-> None, new |-> None]

At(d, pc) == runs[d].pc = pc

Goto(d, pc) == runs' = [runs EXCEPT ![d].pc = pc]

Stop(d) == runs' = [runs EXCEPT ![d] = Idle]

Files(copy) == [index |-> copy.index, package |-> copy.package, lock |-> copy.lock]

registry == <<live, packages, withdrawn>>

Deploy(d, type) ==
  /\ At(d, "idle") /\ calls.deploys > 0
  /\ calls' = [calls EXCEPT !.deploys = @ - 1]
  /\ runs' = [runs EXCEPT ![d] =
       [pc |-> IF type # None \/ copies[d].branch \notin MainBranches THEN "pick" ELSE "login",
        type |-> type, saved |-> Files(copies[d]), new |-> None]]
  /\ UNCHANGED <<copies, registry, tool>>

\* Without an answer of the registry the numbers start again; a list of one version is
\* no list, and counts as no answer.
Answers == {live, {}}

PickVersion(d) ==
  /\ At(d, "pick")
  /\ \E seen \in Answers :
       runs' = [runs EXCEPT ![d].pc = "index",
         ![d].new = NewVersion(copies[d].package, copies[d].branch, runs[d].type, seen)]
  /\ UNCHANGED <<copies, registry, tool, calls>>

\* Whatever goes wrong from here to the login is reported and the deployment continues.
WriteIndex(d) ==
  /\ At(d, "index")
  /\ \/ /\ MarkersFound(copies[d].index)
        /\ copies' = [copies EXCEPT ![d].index = runs[d].new]
        /\ Goto(d, "package")
     \/ Goto(d, "login") /\ UNCHANGED copies
  /\ UNCHANGED <<registry, tool, calls>>

WritePackage(d) ==
  /\ At(d, "package")
  /\ \/ /\ copies' = [copies EXCEPT ![d].package = runs[d].new]
        /\ Goto(d, "lock")
     \/ Goto(d, "login") /\ UNCHANGED copies
  /\ UNCHANGED <<registry, tool, calls>>

WriteLock(d) ==
  /\ At(d, "lock")
  /\ \/ copies' = [copies EXCEPT ![d].lock = runs[d].new]
     \/ UNCHANGED copies
  /\ Goto(d, "login")
  /\ UNCHANGED <<registry, tool, calls>>

\* Who is not logged in exits at once: the files keep the new version.
CheckPrerequisites(d) ==
  /\ At(d, "login")
  /\ Goto(d, "test") \/ Stop(d)
  /\ UNCHANGED <<copies, registry, tool, calls>>

RunTests(d) ==
  /\ At(d, "test")
  /\ (TestsPass(copies[d]) /\ Goto(d, "build")) \/ Goto(d, "revertPackage")
  /\ UNCHANGED <<copies, registry, tool, calls>>

\* npm run build, and the validation of the bundles it made.
BuildPackage(d) ==
  /\ At(d, "build")
  /\ \E fails \in Failures :
       IF BuildSucceeds(fails) THEN Goto(d, "publish") ELSE Goto(d, "revertPackage")
  /\ UNCHANGED <<copies, registry, tool, calls>>

\* prepublishOnly tests and builds once more, into an empty dist.  The branch, for the tag, is read now.
PublishPackage(d) ==
  /\ At(d, "publish")
  /\ \/ Goto(d, "revertPackage") /\ UNCHANGED registry
     \/ \E fails \in Failures :
          /\ TestsPass(copies[d]) /\ BuildSucceeds(fails)
          /\ copies[d].package \notin Published
          /\ copies[d].package.branch \notin SlashedBranches
          /\ packages' = packages \cup {Package(copies[d], fails)}
          /\ live' = live \cup {copies[d].package}
          /\ Goto(d, "announce") \/ Goto(d, "revertPackage")
          /\ UNCHANGED withdrawn
  /\ UNCHANGED <<copies, tool, calls>>

\* Only the package name and the branch are read once more; a failure there is one
\* of the deployment.
Announce(d) ==
  /\ At(d, "announce")
  /\ Stop(d) \/ Goto(d, "revertPackage")
  /\ UNCHANGED <<copies, registry, tool, calls>>

\* The versions are taken back when the caller had named a version type.
RevertPackage(d) ==
  /\ At(d, "revertPackage")
  /\ IF runs[d].type = None THEN Stop(d) /\ UNCHANGED copies
     ELSE \/ /\ copies' = [copies EXCEPT ![d].package = runs[d].saved.package]
             /\ Goto(d, "revertIndex")
          \/ Stop(d) /\ UNCHANGED copies
  /\ UNCHANGED <<registry, tool, calls>>

ForgetsIndex(d) ==
  /\ At(d, "revertIndex")
  /\ Goto(d, "revertLock")
  /\ UNCHANGED <<copies, registry, tool, calls>>

RevertIndex(d) ==
  /\ At(d, "revertIndex")
  /\ \/ /\ copies' = [copies EXCEPT ![d].index = runs[d].saved.index]
        /\ Goto(d, "revertLock")
     \/ Stop(d) /\ UNCHANGED copies
  /\ UNCHANGED <<registry, tool, calls>>

RevertLock(d) ==
  /\ At(d, "revertLock")
  /\ \/ /\ copies' = [copies EXCEPT ![d].lock = runs[d].saved.lock]
        /\ Stop(d)
     \/ Stop(d) /\ UNCHANGED copies
  /\ UNCHANGED <<registry, tool, calls>>

-----------------------------------------------------------------------------
(* unpublish.ts, deprecate.ts and delete-package.ts *)

NoTool == [pc |-> "idle", kind |-> None, list |-> {}, todo |-> {}, done |-> 0, left |-> 0]

ToolAt(pc) == tool.pc = pc

deployment == <<copies, runs>>

\* A tool works on the versions the registry listed when it started.
ListVersions(kind) ==
  /\ ToolAt("idle") /\ kind \in calls.tools
  /\ calls' = [calls EXCEPT !.tools = @ \ {kind}]
  /\ \E seen \in Answers \ {{}} :
       tool' = [NoTool EXCEPT !.pc = "choose", !.kind = kind, !.list = seen]
  /\ UNCHANGED <<deployment, registry>>

\* All versions, or one of the list; delete-package.ts takes the whole package.  Nothing
\* happens unless the choice is confirmed.
Choose ==
  /\ ToolAt("choose")
  /\ \/ tool' = NoTool
     \/ \E chosen \in {tool.list} \cup {{v} : v \in tool.list} :
          /\ tool.kind = "delete" => chosen = tool.list
          /\ tool' = [tool EXCEPT !.pc = IF tool.kind = "delete" THEN "confirmAgain" ELSE "each",
                                  !.list = chosen, !.todo = chosen]
  /\ UNCHANGED <<deployment, registry, calls>>

ConfirmAgain ==
  /\ ToolAt("confirmAgain")
  /\ \/ tool' = NoTool
     \/ tool' = [tool EXCEPT !.pc = "count", !.left = Seconds]
  /\ UNCHANGED <<deployment, registry, calls>>

\* Every second of the countdown can be the one at which it is cancelled.
CountDown ==
  /\ ToolAt("count")
  /\ \/ tool' = NoTool
     \/ tool.left > 0 /\ tool' = [tool EXCEPT !.left = @ - 1]
     \/ tool.left = 0 /\ tool' = [tool EXCEPT !.pc = "package"]
  /\ UNCHANGED <<deployment, registry, calls>>

\* What npm does for one version, with a one-time password or without.
Effect(kind, v) ==
  /\ live' = IF kind = "unpublish" THEN live \ {v} ELSE live
  /\ withdrawn' = IF kind = "deprecate" THEN withdrawn \cup {v}
                  ELSE IF kind = "undeprecate" THEN withdrawn \ {v} ELSE withdrawn
  /\ UNCHANGED packages

CountsEvery(v) ==
  /\ ToolAt("each") /\ v \in tool.todo
  /\ tool' = [tool EXCEPT !.todo = @ \ {v}, !.done = @ + 1]
  /\ (v \in live /\ Effect(tool.kind, v)) \/ UNCHANGED registry
  /\ UNCHANGED <<deployment, calls>>

\* One version after the other; one that fails is not counted, and the next follows.
Each(v) ==
  /\ ToolAt("each") /\ v \in tool.todo
  /\ \/ /\ v \in live /\ Effect(tool.kind, v)
        /\ \E told \in {0, 1} :
             tool' = [tool EXCEPT !.todo = @ \ {v}, !.done = @ + told]
     \/ /\ tool' = [tool EXCEPT !.todo = @ \ {v}]
        /\ UNCHANGED registry
  /\ UNCHANGED <<deployment, calls>>

\* npm unpublish --force takes every version there is, also those published since.
DeletePackage ==
  /\ ToolAt("package")
  /\ \/ /\ live' = {}
        /\ \E told \in {0, Cardinality(tool.list)} :
             tool' = [tool EXCEPT !.pc = "report", !.done = told]
        /\ UNCHANGED <<packages, withdrawn>>
     \/ tool' = [tool EXCEPT !.pc = "report"] /\ UNCHANGED registry
  /\ UNCHANGED <<deployment, calls>>

Report ==
  /\ ToolAt("each") /\ tool.todo = {}
  /\ tool' = [tool EXCEPT !.pc = "report"]
  /\ UNCHANGED <<deployment, registry, calls>>

Quit ==
  /\ ToolAt("report")
  /\ tool' = NoTool
  /\ UNCHANGED <<deployment, registry, calls>>

-----------------------------------------------------------------------------
(* External: the developer, and the end of a process *)

\* The changed files stay when the branch changes.
Checkout(d, branch) ==
  /\ branch # copies[d].branch /\ calls.checkouts > 0
  /\ calls' = [calls EXCEPT !.checkouts = @ - 1]
  /\ copies' = [copies EXCEPT ![d].branch = branch]
  /\ UNCHANGED <<runs, registry, tool>>

\* One working copy takes over what another has committed.
Pull(d, e) ==
  /\ At(d, "idle") /\ At(e, "idle") /\ Files(copies[d]) # Files(copies[e])
  /\ copies' = [copies EXCEPT ![d].index = copies[e].index,
                              ![d].package = copies[e].package, ![d].lock = copies[e].lock]
  /\ runs' = [runs EXCEPT ![d] = Idle]
  /\ UNCHANGED <<registry, tool, calls>>

Kill(d) ==
  /\ ~At(d, "idle")
  /\ Stop(d)
  /\ UNCHANGED <<copies, registry, tool, calls>>

KillTool ==
  /\ ~ToolAt("idle")
  /\ tool' = NoTool
  /\ UNCHANGED <<deployment, registry, calls>>

-----------------------------------------------------------------------------

InitWith(branch, first, published, bound) ==
  /\ copies = [d \in Deployers |->
       [branch |-> branch, index |-> first, package |-> first, lock |-> first]]
  /\ runs = [d \in Deployers |-> Idle]
  /\ packages = {[version |-> v, export |-> v, files |-> Required \cup {"proto"},
                  generated |-> Outputs, tag |-> TagOf(v.branch)] : v \in published}
  /\ live = published /\ withdrawn = {} /\ tool = NoTool
  /\ calls = bound

DeployStep(d) ==
  \/ \E type \in Types \cup {None} : Deploy(d, type)
  \/ PickVersion(d) \/ WriteIndex(d) \/ WritePackage(d) \/ WriteLock(d)
  \/ CheckPrerequisites(d) \/ RunTests(d) \/ BuildPackage(d) \/ PublishPackage(d)
  \/ Announce(d) \/ RevertPackage(d) \/ RevertIndex(d) \/ RevertLock(d)

ToolStep ==
  \/ \E kind \in calls.tools : ListVersions(kind)
  \/ Choose \/ ConfirmAgain \/ CountDown \/ DeletePackage \/ Report \/ Quit
  \/ \E v \in tool.todo : Each(v)

External ==
  \/ \E d \in Deployers : Kill(d) \/ \E branch \in Branches : Checkout(d, branch)
  \/ \E d, e \in Deployers : Pull(d, e)
  \/ KillTool

Next == (\E d \in Deployers : DeployStep(d)) \/ ToolStep \/ External

-----------------------------------------------------------------------------
(* Properties *)

\* What was published is whole and names itself correctly: every file package.json
\* promises is there, made from complete generated code, and the VERSION it exports is
\* the version it was published as, although the two are written one after the other,
\* either write may fail unnoticed, and a killed or failed deployment leaves them apart.
PublishedConsistent ==
  \A p \in packages :
    p.export = p.version /\ Required \subseteq p.files /\ p.generated = Outputs

InUse == Published \cup {copies[d].package : d \in Deployers}

\* The pre-releases of a branch are numbered without a gap, whatever deployments of
\* other working copies, unpublished versions, lost answers and killed processes did:
\* the number before that of a version in use, published or not, is one of the branch
\* that was published, or one that a published version of a longer name is taken for.
NumbersGapless ==
  \A v \in InUse : v.n > 1 => v.n - 1 \in NumbersAfter(Published, v.base, v.branch)

\* When a deployment that was given a version type has taken its versions back, the
\* three files are as it found them, whichever of its own writes had failed.
FailureReverts ==
  [][\A d \in Deployers :
       RevertLock(d) /\ copies'[d].lock = runs[d].saved.lock
         => Files(copies'[d]) = runs[d].saved]_vars

\* A tool that counts every version it was given as done has left none of them undone,
\* whatever was published, withdrawn or refused while it ran.
ReportsHold ==
  ToolAt("report") /\ tool.done = Cardinality(tool.list) =>
    CASE tool.kind = "unpublish" -> tool.list \cap live = {}
      [] tool.kind = "delete" -> tool.list \cap live = {}
      [] tool.kind = "deprecate" -> tool.list \subseteq withdrawn
      [] tool.kind = "undeprecate" -> tool.list \cap withdrawn = {}

\* What the registry holds is whole, and is what the tools report of it (publishing/deploy.ts:301,
\* publishing/unpublish.ts:194).
RegistryAgrees == PublishedConsistent /\ ReportsHold

=============================================================================
