---------------------------- MODULE ReleaseProofs ----------------------------
(***************************************************************************)
(* What the registry holds and how versions are numbered, for any number   *)
(* of working copies, branches, deployments, tools and checkouts, and for  *)
(* any registry to begin with that is numbered without a gap, as far as    *)
(* NumbersGapless says.                                                    *)
(***************************************************************************)
EXTENDS Release, FiniteSetTheorems, TLAPS

ToolKinds == {"unpublish", "deprecate", "undeprecate", "delete"}

IsVersion(v) == v = Version(v.base, v.branch, v.n) /\ v.n \in Nat

\* A version whose number, if it is not the first, is the next after one that is read
\* from a set of versions.
Follows(v, versions) ==
  IsVersion(v) /\ (v.n > 1 => v.n - 1 \in NumbersAfter(versions, v.base, v.branch))

\* The releases considered: a registry without a gap, and working copies at a
\* version that follows what it holds.
AnyInit ==
  \E branch \in Branches, bound \in [deploys : Nat, tools : SUBSET ToolKinds, checkouts : Nat] :
    \E first, published :
      /\ IsFiniteSet(published) /\ \A v \in published \cup {first} : Follows(v, published)
      /\ InitWith(branch, first, published, bound)

AnySpec == AnyInit /\ [][Next]_vars

-----------------------------------------------------------------------------
(* The invariant *)

Known(v) == Follows(v, Published)

\* A working copy and its deployment: the versions in use and those to come
\* back to, and what has been taken back so far.
Sound(copy, run) ==
  /\ copy = [branch |-> copy.branch, index |-> copy.index, package |-> copy.package,
             lock |-> copy.lock]
  /\ run = [pc |-> run.pc, type |-> run.type, saved |-> run.saved, new |-> run.new]
  /\ Known(copy.package)
  /\ run.pc \in {"index", "package", "lock"} => Known(run.new)
  /\ run.pc # "idle" =>
       /\ run.saved = [index |-> run.saved.index, package |-> run.saved.package,
                       lock |-> run.saved.lock]
       /\ Known(run.saved.package)
  /\ run.pc \in {"revertIndex", "revertLock"} => copy.package = run.saved.package
  /\ run.pc = "revertLock" => copy.index = run.saved.index

CopiesSound ==
  /\ copies = [d \in Deployers |-> copies[d]]
  /\ runs = [d \in Deployers |-> runs[d]]
  /\ \A d \in Deployers : Sound(copies[d], runs[d])

RegistrySound ==
  /\ IsFiniteSet(live) /\ live \subseteq Published
  /\ \A v \in Published : Known(v)
  /\ PublishedConsistent

\* One version of a list is as the tool is to leave it.
Undone(kind, v) ==
  /\ kind \in {"unpublish", "delete"} => v \notin live
  /\ kind = "deprecate" => v \in withdrawn
  /\ kind = "undeprecate" => v \notin withdrawn

\* A tool counts no more than it went through, and if as much then all of it is done.
ToolSound ==
  /\ tool = [pc |-> tool.pc, kind |-> tool.kind, list |-> tool.list, todo |-> tool.todo,
             done |-> tool.done, left |-> tool.left]
  /\ tool.pc # "idle" =>
       /\ tool.kind \in ToolKinds
       /\ IsFiniteSet(tool.list) /\ tool.list \subseteq Published
  /\ tool.pc \in {"choose", "confirmAgain", "count", "package"} => tool.done = 0
  /\ tool.pc \in {"confirmAgain", "count", "package"} => tool.kind = "delete"
  /\ tool.pc = "each" =>
       /\ tool.kind # "delete" /\ tool.todo \subseteq tool.list
       /\ tool.done \in Nat /\ tool.done <= Cardinality(tool.list \ tool.todo)
       /\ tool.done = Cardinality(tool.list \ tool.todo) =>
            \A v \in tool.list \ tool.todo : Undone(tool.kind, v)
  /\ tool.pc = "report" /\ tool.done = Cardinality(tool.list) =>
       \A v \in tool.list : Undone(tool.kind, v)

CallsSound ==
  /\ "tools" \in DOMAIN calls
  /\ calls.tools \subseteq ToolKinds

Inv == CopiesSound /\ RegistrySound /\ ToolSound /\ CallsSound

-----------------------------------------------------------------------------
(* Numbers *)

\* A finite set of numbers has a largest one.
LEMMA LargestNumber ==
  ASSUME NEW S, IsFiniteSet(S), S # {}, \A x \in S : x \in Nat
  PROVE  \E x \in S : \A y \in S : x >= y
<1> DEFINE Above(x) == {y \in S : y > x}
           Sets == {Above(x) : x \in S}
<1>1. IsWellFoundedOn(StrictSubsetOrdering(S), SUBSET S)
  BY FS_StrictSubsetOrderingWellFounded, FS_FiniteSubsetsOfFinite
<1>2. Sets \subseteq SUBSET S /\ Sets # {}
  OBVIOUS
<1>3. \E x \in Sets : \A y \in Sets : ~(<<y, x>> \in StrictSubsetOrdering(S))
  <2> HIDE DEF Sets
  <2> QED BY <1>1, <1>2, WFMin
<1>4. PICK x \in S : \A y \in Sets : ~(<<y, Above(x)>> \in StrictSubsetOrdering(S))
  BY <1>3
<1>5. ASSUME NEW y \in S, y > x PROVE FALSE
  <2>1. Above(y) \subseteq Above(x) /\ y \in Above(x) /\ y \notin Above(y)
    BY <1>5, SMT
  <2>2. <<Above(y), Above(x)>> \in StrictSubsetOrdering(S)
    BY <2>1 DEF StrictSubsetOrdering
  <2>3. Above(y) \in Sets
    OBVIOUS
  <2> QED BY <2>2, <2>3, <1>4
<1>6. \A y \in S : x >= y
  BY <1>5, SMT
<1> QED BY <1>6

\* The image of a finite set of versions is finite.
LEMMA FiniteNumbers ==
  ASSUME NEW S, IsFiniteSet(S), NEW f, f = [v \in S |-> f[v]]
  PROVE  IsFiniteSet({f[v] : v \in S})
<1>1. f \in Surjection(S, {f[v] : v \in S})
  BY DEF Surjection
<1> QED BY <1>1, FS_Surjection

\* The numbers read from finitely many versions are finitely many.
LEMMA NumbersFinite ==
  ASSUME NEW versions, IsFiniteSet(versions), \A v \in versions : IsVersion(v),
         NEW base, NEW branch
  PROVE  /\ IsFiniteSet(NumbersAfter(versions, base, branch))
         /\ \A x \in NumbersAfter(versions, base, branch) : x \in Nat
<1> DEFINE Own == {w \in versions : w.base = base /\ w.branch = branch}
           Other == {w \in versions : /\ w.base = base /\ Extends(w, branch)
                                      /\ PartAfter(w, branch) \in DOMAIN LeadingNumber}
           f == [v \in Own |-> v.n]
           g == [v \in Other |-> LeadingNumber[PartAfter(v, branch)]]
<1>1. IsFiniteSet(Own) /\ IsFiniteSet(Other)
  BY FS_Subset
<1>2. IsFiniteSet({f[v] : v \in Own}) /\ IsFiniteSet({g[v] : v \in Other})
  <2>1. f = [v \in Own |-> f[v]] /\ g = [v \in Other |-> g[v]]
    OBVIOUS
  <2> HIDE DEF f, g, Own, Other
  <2> QED BY <1>1, <2>1, FiniteNumbers
<1>3. NumbersAfter(versions, base, branch) = {f[v] : v \in Own} \cup {g[v] : v \in Other}
  BY DEF NumbersAfter
<1>4. (\A v \in Own : f[v] \in Nat) /\ (\A v \in Other : g[v] \in Nat)
  BY BranchAssumption DEF IsVersion
<1> HIDE DEF f, g, Own, Other
<1> QED BY <1>2, <1>3, <1>4, FS_Union

\* More versions, more numbers.
LEMMA NumbersGrow ==
  ASSUME NEW few, NEW many, few \subseteq many, NEW base, NEW branch
  PROVE  NumbersAfter(few, base, branch) \subseteq NumbersAfter(many, base, branch)
  BY DEF NumbersAfter

\* The number a pre-release is counted on from is zero or one read from what the
\* registry listed.
LEMMA HighestListed ==
  ASSUME NEW seen, IsFiniteSet(seen), \A v \in seen : IsVersion(v), NEW base, NEW branch
  PROVE  /\ HighestPreRelease(seen, base, branch) \in Nat
         /\ \/ HighestPreRelease(seen, base, branch) = 0
            \/ HighestPreRelease(seen, base, branch) \in NumbersAfter(seen, base, branch)
<1> DEFINE N == {0} \cup NumbersAfter(seen, base, branch)
<1>1. IsFiniteSet(N) /\ N # {} /\ \A x \in N : x \in Nat
  <2> DEFINE Read == NumbersAfter(seen, base, branch)
  <2>1. IsFiniteSet(Read) /\ \A x \in Read : x \in Nat
    BY NumbersFinite
  <2> HIDE DEF Read
  <2>2. IsFiniteSet({0} \cup Read)
    BY <2>1, FS_Singleton, FS_Union
  <2>3. \A x \in {0} \cup Read : x \in Nat
    BY <2>1
  <2> QED BY <2>2, <2>3 DEF Read
<1>2. \E x \in N : \A y \in N : x >= y
  <2> HIDE DEF N
  <2> QED BY <1>1, LargestNumber
<1>3. Max(N) \in N
  BY <1>2 DEF Max
<1>4. HighestPreRelease(seen, base, branch) = Max(N)
  BY DEF HighestPreRelease
<1> QED BY <1>1, <1>3, <1>4

\* Whatever the registry answers, the version a deployment picks follows what was
\* published (publishing/deploy.ts:186-299).
LEMMA NewFollows ==
  ASSUME RegistrySound, NEW current, NEW branch, NEW type, NEW seen \in Answers
  PROVE  Known(NewVersion(current, branch, type, seen))
<1> DEFINE base == IF type = None THEN current.base ELSE Increment(current.base, type)
           h == HighestPreRelease(seen, base, branch)
           new == NewVersion(current, branch, type, seen)
<1>1. IsFiniteSet(seen) /\ seen \subseteq Published
  BY FS_EmptySet DEF RegistrySound, Answers
<1>2. \A v \in seen : IsVersion(v)
  BY <1>1 DEF RegistrySound, Known, Follows
<1>3. CASE branch \in MainBranches \/ type # None
  <2>1. PICK n \in {0, 1} : \E b : new = Version(base, b, n)
    BY <1>3 DEF NewVersion
  <2> QED BY <2>1 DEF Known, Follows, IsVersion, Version
<1>4. CASE branch \notin MainBranches /\ type = None
  <2>1. new = Version(base, branch, h + 1)
    BY <1>4 DEF NewVersion
  <2> HIDE DEF base
  <2>2. h \in Nat /\ (h = 0 \/ h \in NumbersAfter(Published, base, branch))
    BY <1>1, <1>2, HighestListed, NumbersGrow
  <2> HIDE DEF h, new
  <2>3. new.n = h + 1 /\ new.base = base /\ new.branch = branch /\ IsVersion(new)
    BY <2>1, <2>2 DEF Version, IsVersion
  <2>4. new.n > 1 => new.n - 1 = h /\ h # 0
    BY <2>2, <2>3
  <2>5. Known(new)
    BY <2>2, <2>3, <2>4 DEF Known, Follows
  <2> QED BY <2>5 DEF new
<1> QED BY <1>3, <1>4

-----------------------------------------------------------------------------
(* Deployments *)

\* A label is set, and the rest of a deployment stays.
LEMMA GotoRun ==
  ASSUME CopiesSound, NEW d \in Deployers, NEW label, Goto(d, label)
  PROVE  /\ runs' = [e \in Deployers |-> runs'[e]]
         /\ runs'[d] = [pc |-> label, type |-> runs[d].type, saved |-> runs[d].saved,
                       new |-> runs[d].new]
         /\ \A e \in Deployers : e # d => runs'[e] = runs[e]
<1>1. runs' = [runs EXCEPT ![d] = [runs[d] EXCEPT !.pc = label]]
  BY DEF Goto
<1>2. [runs[d] EXCEPT !.pc = label] =
        [pc |-> label, type |-> runs[d].type, saved |-> runs[d].saved, new |-> runs[d].new]
  <2>1. runs[d] = [pc |-> runs[d].pc, type |-> runs[d].type, saved |-> runs[d].saved,
                   new |-> runs[d].new]
    BY Zenon DEF CopiesSound, Sound
  <2> QED BY <2>1
<1>3. runs = [e \in Deployers |-> runs[e]]
  BY DEF CopiesSound
<1> QED BY <1>1, <1>2, <1>3

\* A deployment ends, or is gone.
LEMMA StopRun ==
  ASSUME CopiesSound, NEW d \in Deployers, Stop(d)
  PROVE  /\ runs' = [e \in Deployers |-> runs'[e]]
         /\ runs'[d] = Idle
         /\ \A e \in Deployers : e # d => runs'[e] = runs[e]
  BY DEF CopiesSound, Stop

\* One working copy is written.
LEMMA WriteOne ==
  ASSUME CopiesSound, NEW d \in Deployers, NEW c, copies' = [copies EXCEPT ![d] = c]
  PROVE  /\ copies' = [e \in Deployers |-> copies'[e]]
         /\ copies'[d] = c
         /\ \A e \in Deployers : e # d => copies'[e] = copies[e]
<1>1. copies = [e \in Deployers |-> copies[e]]
  BY DEF CopiesSound
<1> QED BY <1>1

\* The fields of a working copy after a write.
LEMMA WrittenFields ==
  ASSUME NEW c, NEW v, NEW q,
         c = [branch |-> c.branch, index |-> c.index, package |-> c.package, lock |-> c.lock]
  PROVE  /\ q = [c EXCEPT !.index = v] =>
              q = [branch |-> c.branch, index |-> v, package |-> c.package, lock |-> c.lock]
         /\ q = [c EXCEPT !.package = v] =>
              q = [branch |-> c.branch, index |-> c.index, package |-> v, lock |-> c.lock]
         /\ q = [c EXCEPT !.lock = v] =>
              q = [branch |-> c.branch, index |-> c.index, package |-> c.package, lock |-> v]
         /\ q = [c EXCEPT !.branch = v] =>
              q = [branch |-> v, index |-> c.index, package |-> c.package, lock |-> c.lock]
  OBVIOUS

\* What is known stays so when more is published.
LEMMA KnownStays ==
  ASSUME Published \subseteq Published', NEW v, Known(v)
  PROVE  Follows(v, Published')
  BY NumbersGrow DEF Known, Follows

\* A working copy and a deployment that do not change stay sound.
LEMMA SoundStays ==
  ASSUME Published \subseteq Published', NEW d \in Deployers, Sound(copies[d], runs[d]),
         copies'[d] = copies[d], runs'[d] = runs[d]
  PROVE  Sound(copies[d], runs[d])'
<1>1. \A v : Known(v) => Follows(v, Published')
  BY KnownStays
<1> QED BY <1>1 DEF Sound, Known

\* A step of one deployment that leaves its working copy sound leaves all sound.
LEMMA DeployerMoves ==
  ASSUME CopiesSound, NEW d \in Deployers, Published \subseteq Published',
         copies' = [e \in Deployers |-> copies'[e]], runs' = [e \in Deployers |-> runs'[e]],
         \A e \in Deployers : e # d => copies'[e] = copies[e] /\ runs'[e] = runs[e],
         Sound(copies[d], runs[d])'
  PROVE  CopiesSound'
<1>1. ASSUME NEW e \in Deployers PROVE Sound(copies[e], runs[e])'
  <2>1. CASE e = d
    BY <2>1
  <2>2. CASE e # d
    BY <2>2, SoundStays DEF CopiesSound
  <2> QED BY <2>1, <2>2
<1> QED BY <1>1 DEF CopiesSound

Shaped(c) ==
  c = [branch |-> c.branch, index |-> c.index, package |-> c.package, lock |-> c.lock]

\* A step of a deployment that is under way writes to its working copy, or not,
\* and goes where that is sound.
LEMMA RunMoves ==
  ASSUME CopiesSound, NEW d \in Deployers, Published \subseteq Published',
         runs[d].pc # "idle", NEW c, copies' = [copies EXCEPT ![d] = c],
         Shaped(c), Known(c.package), NEW label,
         \/ Stop(d)
         \/ /\ Goto(d, label)
            /\ label \in {"index", "package", "lock"} => Known(runs[d].new)
            /\ label \in {"revertIndex", "revertLock"} => c.package = runs[d].saved.package
            /\ label = "revertLock" => c.index = runs[d].saved.index
  PROVE  CopiesSound'
<1>1. /\ copies' = [e \in Deployers |-> copies'[e]]
      /\ copies'[d] = c
      /\ \A e \in Deployers : e # d => copies'[e] = copies[e]
  BY WriteOne
<1>2. \A v : Known(v) => Follows(v, Published')
  BY KnownStays
<1>3. CASE Stop(d)
  <2>1. /\ runs' = [e \in Deployers |-> runs'[e]]
        /\ runs'[d] = Idle
        /\ \A e \in Deployers : e # d => runs'[e] = runs[e]
    BY <1>3, StopRun
  <2>2. Sound(c, Idle)
    BY DEF Sound, Idle, Shaped
  <2>3. Sound(copies[d], runs[d])'
    BY <1>1, <1>2, <2>1, <2>2, Zenon DEF Sound, Known
  <2> QED BY <1>1, <2>1, <2>3, DeployerMoves
<1>4. CASE Goto(d, label) /\ ~Stop(d)
  <2>1. /\ runs' = [e \in Deployers |-> runs'[e]]
        /\ runs'[d] = [pc |-> label, type |-> runs[d].type, saved |-> runs[d].saved,
                      new |-> runs[d].new]
        /\ \A e \in Deployers : e # d => runs'[e] = runs[e]
    BY <1>4, GotoRun
  <2> DEFINE r == [pc |-> label, type |-> runs[d].type, saved |-> runs[d].saved,
                   new |-> runs[d].new]
  <2>2. /\ runs[d].saved = [index |-> runs[d].saved.index, package |-> runs[d].saved.package,
                            lock |-> runs[d].saved.lock]
        /\ Known(runs[d].saved.package)
    BY Zenon DEF CopiesSound, Sound
  <2>3. Sound(c, r)
    BY <1>4, <2>2 DEF Sound, Shaped
  <2> HIDE DEF r
  <2>4. runs'[d] = r
    BY <2>1 DEF r
  <2>5. Sound(copies[d], runs[d])'
    BY <1>1, <1>2, <2>3, <2>4, Zenon DEF Sound, Known
  <2> QED BY <1>1, <2>1, <2>5, DeployerMoves
<1> QED BY <1>3, <1>4

\* The same when nothing is written.
LEMMA RunStays ==
  ASSUME CopiesSound, NEW d \in Deployers, Published \subseteq Published',
         runs[d].pc # "idle", copies' = copies, NEW label,
         \/ Stop(d)
         \/ /\ Goto(d, label)
            /\ label \notin {"index", "package", "lock", "revertIndex", "revertLock"}
  PROVE  CopiesSound'
<1>1. copies' = [copies EXCEPT ![d] = copies[d]]
  BY DEF CopiesSound
<1>2. Shaped(copies[d]) /\ Known(copies[d].package)
  BY Zenon DEF CopiesSound, Sound, Shaped
<1> QED BY <1>1, <1>2, RunMoves

\* A deployment begins: it remembers the versions it found.
LEMMA DeployKeeps ==
  ASSUME CopiesSound, NEW d \in Deployers, NEW type, Deploy(d, type)
  PROVE  CopiesSound'
<1> DEFINE pc == IF type # None \/ copies[d].branch \notin MainBranches THEN "pick" ELSE "login"
           r == [pc |-> pc, type |-> type, saved |-> Files(copies[d]), new |-> None]
<1>1. runs' = [runs EXCEPT ![d] = r] /\ copies' = copies /\ Published' = Published
  BY DEF Deploy, registry, Published
<1>2. runs = [e \in Deployers |-> runs[e]] /\ Sound(copies[d], runs[d])
  BY DEF CopiesSound
<1>3. pc \in {"pick", "login"}
  OBVIOUS
<1>4. Sound(copies[d], r)
  <2> HIDE DEF pc
  <2> QED BY <1>2, <1>3 DEF Sound, Files
<1> HIDE DEF r
<1>5. runs'[d] = r /\ runs' = [e \in Deployers |-> runs'[e]]
      /\ \A e \in Deployers : e # d => runs'[e] = runs[e]
  BY <1>1, <1>2
<1>6. copies' = [e \in Deployers |-> copies'[e]]
  BY <1>1 DEF CopiesSound
<1>7. Sound(copies[d], runs[d])'
  BY <1>1, <1>4, <1>5, Zenon DEF Sound, Known
<1> QED BY <1>1, <1>5, <1>6, <1>7, DeployerMoves

\* The version is picked from what the registry listed.
LEMMA PickKeeps ==
  ASSUME CopiesSound, RegistrySound, NEW d \in Deployers, PickVersion(d)
  PROVE  CopiesSound'
<1>1. PICK seen \in Answers :
        runs' = [runs EXCEPT ![d].pc = "index",
          ![d].new = NewVersion(copies[d].package, copies[d].branch, runs[d].type, seen)]
  BY DEF PickVersion
<1> DEFINE v == NewVersion(copies[d].package, copies[d].branch, runs[d].type, seen)
           r == [pc |-> "index", type |-> runs[d].type, saved |-> runs[d].saved, new |-> v]
<1>2. Known(v)
  BY NewFollows
<1> HIDE DEF v
<1>3. runs = [e \in Deployers |-> runs[e]] /\ Sound(copies[d], runs[d])
  BY DEF CopiesSound
<1>4. runs[d].pc = "pick" /\ copies' = copies /\ Published' = Published
  BY DEF PickVersion, At, registry, Published
<1>5. runs[d] = [pc |-> runs[d].pc, type |-> runs[d].type, saved |-> runs[d].saved,
                 new |-> runs[d].new]
  BY <1>3, Zenon DEF Sound
<1>6. /\ runs' = [e \in Deployers |-> runs'[e]]
      /\ runs'[d] = [[runs[d] EXCEPT !.pc = "index"] EXCEPT !.new = v]
      /\ \A e \in Deployers : e # d => runs'[e] = runs[e]
  <2>1. runs' = [[runs EXCEPT ![d].pc = "index"] EXCEPT ![d].new = v]
    BY <1>1 DEF v
  <2>2. PICK q : q = [runs EXCEPT ![d].pc = "index"]
    OBVIOUS
  <2>3. q = [e \in Deployers |-> q[e]] /\ q[d] = [runs[d] EXCEPT !.pc = "index"]
        /\ \A e \in Deployers : e # d => q[e] = runs[e]
    BY <1>3, <2>2
  <2>4. runs' = [q EXCEPT ![d].new = v]
    BY <2>1, <2>2
  <2>5. runs' = [e \in Deployers |-> runs'[e]] /\ runs'[d] = [q[d] EXCEPT !.new = v]
        /\ \A e \in Deployers : e # d => runs'[e] = q[e]
    BY <2>3, <2>4
  <2> QED BY <2>3, <2>5
<1>7. runs'[d] = r
  BY <1>5, <1>6
<1>8. Sound(copies[d], r)
  BY <1>2, <1>3, <1>4 DEF Sound
<1> HIDE DEF r
<1>9. Sound(copies[d], runs[d])'
  BY <1>4, <1>7, <1>8, Zenon DEF Sound, Known
<1>10. copies' = [e \in Deployers |-> copies'[e]]
  BY <1>4 DEF CopiesSound
<1> QED BY <1>4, <1>6, <1>9, <1>10, DeployerMoves

\* What a deployment under way knows of its working copy.
LEMMA UnderWay ==
  ASSUME CopiesSound, NEW d \in Deployers, runs[d].pc # "idle"
  PROVE  /\ Shaped(copies[d]) /\ Known(copies[d].package)
         /\ runs[d].pc \in {"index", "package", "lock"} => Known(runs[d].new)
         /\ runs[d].saved = [index |-> runs[d].saved.index, package |-> runs[d].saved.package,
                             lock |-> runs[d].saved.lock]
         /\ Known(runs[d].saved.package)
         /\ runs[d].pc \in {"revertIndex", "revertLock"} =>
              copies[d].package = runs[d].saved.package
         /\ runs[d].pc = "revertLock" => copies[d].index = runs[d].saved.index
  BY Zenon DEF CopiesSound, Sound, Shaped

\* The three writes of a new version.
LEMMA WriteKeeps ==
  ASSUME CopiesSound, NEW d \in Deployers, WriteIndex(d) \/ WritePackage(d) \/ WriteLock(d)
  PROVE  CopiesSound'
<1> DEFINE c == copies[d]
           new == runs[d].new
<1>1. runs[d].pc \in {"index", "package", "lock"} /\ Published' = Published
  BY DEF WriteIndex, WritePackage, WriteLock, At, registry, Published
<1>2. Shaped(c) /\ Known(c.package) /\ Known(new)
  BY <1>1, UnderWay
<1>3. CASE copies' = copies /\ Goto(d, "login")
  BY <1>1, <1>3, RunStays
<1>4. CASE copies' = [copies EXCEPT ![d].index = new] /\ Goto(d, "package")
  <2> DEFINE q == [branch |-> c.branch, index |-> new, package |-> c.package, lock |-> c.lock]
  <2>1. [c EXCEPT !.index = new] = q
    BY <1>2, WrittenFields DEF Shaped
  <2>2. copies' = [copies EXCEPT ![d] = q]
    BY <1>4, <2>1
  <2>3. Shaped(q) /\ q.package = c.package
    BY DEF Shaped
  <2>4. Known(q.package)
    BY <1>2, <2>3
  <2>5. /\ Goto(d, "package")
        /\ "package" \in {"index", "package", "lock"} => Known(runs[d].new)
        /\ "package" \in {"revertIndex", "revertLock"} => q.package = runs[d].saved.package
        /\ "package" = "revertLock" => q.index = runs[d].saved.index
    BY <1>4, <1>2, <2>3
  <2> HIDE DEF q, c
  <2> QED BY <1>1, <2>2, <2>3, <2>4, <2>5, RunMoves
<1>5. CASE copies' = [copies EXCEPT ![d].package = new] /\ Goto(d, "lock")
  <2> DEFINE q == [branch |-> c.branch, index |-> c.index, package |-> new, lock |-> c.lock]
  <2>1. [c EXCEPT !.package = new] = q
    BY <1>2, WrittenFields DEF Shaped
  <2>2. copies' = [copies EXCEPT ![d] = q]
    BY <1>5, <2>1
  <2>3. Shaped(q) /\ q.package = new
    BY DEF Shaped
  <2> HIDE DEF q
  <2> QED BY <1>1, <1>2, <1>5, <2>2, <2>3, RunMoves
<1>6. CASE copies' = [copies EXCEPT ![d].lock = new] /\ Goto(d, "login")
  <2> DEFINE q == [branch |-> c.branch, index |-> c.index, package |-> c.package, lock |-> new]
  <2>1. [c EXCEPT !.lock = new] = q
    BY <1>2, WrittenFields DEF Shaped
  <2>2. copies' = [copies EXCEPT ![d] = q]
    BY <1>6, <2>1
  <2>3. Shaped(q) /\ q.package = c.package
    BY DEF Shaped
  <2>4. Known(q.package)
    BY <1>2, <2>3
  <2>5. /\ Goto(d, "login")
        /\ "login" \in {"index", "package", "lock"} => Known(runs[d].new)
        /\ "login" \in {"revertIndex", "revertLock"} => q.package = runs[d].saved.package
        /\ "login" = "revertLock" => q.index = runs[d].saved.index
    BY <1>6, <1>2, <2>3
  <2> HIDE DEF q, c
  <2> QED BY <1>1, <2>2, <2>3, <2>4, <2>5, RunMoves
<1> QED BY <1>3, <1>4, <1>5, <1>6 DEF WriteIndex, WritePackage, WriteLock

\* The files are taken back, one after the other.
LEMMA RevertKeeps ==
  ASSUME CopiesSound, NEW d \in Deployers, RevertPackage(d) \/ RevertIndex(d) \/ RevertLock(d)
  PROVE  CopiesSound'
<1> DEFINE c == copies[d]
           saved == runs[d].saved
<1>1. runs[d].pc \in {"revertPackage", "revertIndex", "revertLock"} /\ Published' = Published
  BY DEF RevertPackage, RevertIndex, RevertLock, At, registry, Published
<1>2. /\ Shaped(c) /\ Known(c.package) /\ Known(saved.package)
      /\ runs[d].pc \in {"revertIndex", "revertLock"} => c.package = saved.package
  BY <1>1, UnderWay
<1>3. CASE copies' = copies /\ Stop(d)
  BY <1>1, <1>3, RunStays
<1>4. CASE copies' = [copies EXCEPT ![d].package = saved.package] /\ Goto(d, "revertIndex")
  <2> DEFINE q == [branch |-> c.branch, index |-> c.index, package |-> saved.package,
                   lock |-> c.lock]
  <2>1. [c EXCEPT !.package = saved.package] = q
    BY <1>2, WrittenFields DEF Shaped
  <2>2. copies' = [copies EXCEPT ![d] = q]
    BY <1>4, <2>1
  <2>3. Shaped(q) /\ q.package = saved.package
    BY DEF Shaped
  <2>4. Known(q.package)
    BY <1>2, <2>3
  <2>5. /\ Goto(d, "revertIndex")
        /\ "revertIndex" \in {"index", "package", "lock"} => Known(runs[d].new)
        /\ "revertIndex" \in {"revertIndex", "revertLock"} => q.package = runs[d].saved.package
        /\ "revertIndex" = "revertLock" => q.index = runs[d].saved.index
    BY <1>4, <1>2, <2>3
  <2> HIDE DEF q, c
  <2> QED BY <1>1, <2>2, <2>3, <2>4, <2>5, RunMoves
<1>5. CASE /\ copies' = [copies EXCEPT ![d].index = saved.index] /\ Goto(d, "revertLock")
           /\ runs[d].pc = "revertIndex"
  <2> DEFINE q == [branch |-> c.branch, index |-> saved.index, package |-> c.package,
                   lock |-> c.lock]
  <2>1. [c EXCEPT !.index = saved.index] = q
    BY <1>2, WrittenFields DEF Shaped
  <2>2. copies' = [copies EXCEPT ![d] = q]
    BY <1>5, <2>1
  <2>3. Shaped(q) /\ q.package = c.package /\ q.index = saved.index
    BY DEF Shaped
  <2> HIDE DEF q
  <2> QED BY <1>1, <1>2, <1>5, <2>2, <2>3, RunMoves
<1>6. CASE copies' = [copies EXCEPT ![d].lock = saved.lock] /\ Stop(d)
  <2> DEFINE q == [branch |-> c.branch, index |-> c.index, package |-> c.package,
                   lock |-> saved.lock]
  <2>1. [c EXCEPT !.lock = saved.lock] = q
    BY <1>2, WrittenFields DEF Shaped
  <2>2. copies' = [copies EXCEPT ![d] = q]
    BY <1>6, <2>1
  <2>3. Shaped(q) /\ q.package = c.package
    BY DEF Shaped
  <2>4. Known(q.package)
    BY <1>2, <2>3
  <2> HIDE DEF q
  <2> QED BY <1>1, <1>2, <1>6, <2>2, <2>3, <2>4, RunMoves
<1> QED BY <1>3, <1>4, <1>5, <1>6 DEF RevertPackage, RevertIndex, RevertLock, At

\* The steps between, and the end of a process: nothing is written.
LEMMA OthersKeep ==
  ASSUME CopiesSound, NEW d \in Deployers, Published \subseteq Published',
         CheckPrerequisites(d) \/ RunTests(d) \/ BuildPackage(d) \/ PublishPackage(d)
           \/ Announce(d) \/ Kill(d)
  PROVE  CopiesSound'
<1>1. PICK label \in {"test", "build", "publish", "announce", "revertPackage"} :
        Stop(d) \/ Goto(d, label)
  BY DEF CheckPrerequisites, RunTests, BuildPackage, PublishPackage, Announce, Kill
<1>2. copies' = copies /\ runs[d].pc # "idle"
  BY DEF CheckPrerequisites, RunTests, BuildPackage, PublishPackage, Announce, Kill, At
<1> QED BY <1>1, <1>2, RunStays

\* The developer changes branches, or takes over committed files.
LEMMA DeveloperKeeps ==
  ASSUME CopiesSound, NEW d \in Deployers,
         \/ \E branch \in Branches : Checkout(d, branch)
         \/ \E e \in Deployers : Pull(d, e)
  PROVE  CopiesSound'
<1>1. CASE \E branch \in Branches : Checkout(d, branch)
  <2>1. PICK b : copies' = [copies EXCEPT ![d].branch = b] /\ runs' = runs
                 /\ Published' = Published
    BY <1>1 DEF Checkout, registry, Published
  <2> DEFINE c == copies[d]
             q == [branch |-> b, index |-> c.index, package |-> c.package, lock |-> c.lock]
  <2>2. Sound(c, runs[d]) /\ runs = [e \in Deployers |-> runs[e]]
    BY DEF CopiesSound
  <2>3. [c EXCEPT !.branch = b] = q
    <3>1. Shaped(c)
      BY <2>2, Zenon DEF Sound, Shaped
    <3> QED BY <3>1, WrittenFields DEF Shaped
  <2>4. copies' = [copies EXCEPT ![d] = q]
    BY <2>1, <2>3
  <2>5. q.package = c.package /\ q.index = c.index /\ Shaped(q)
    BY DEF Shaped
  <2> HIDE DEF q
  <2>6. Sound(q, runs[d])
    BY <2>2, <2>5, Zenon DEF Sound, Shaped
  <2>7. /\ copies' = [e \in Deployers |-> copies'[e]] /\ copies'[d] = q
        /\ \A e \in Deployers : e # d => copies'[e] = copies[e]
    BY <2>4, WriteOne
  <2>8. Sound(copies[d], runs[d])'
    BY <2>1, <2>6, <2>7, Zenon DEF Sound, Known
  <2> QED BY <2>1, <2>2, <2>7, <2>8, DeployerMoves
<1>2. CASE \E e \in Deployers : Pull(d, e)
  <2>1. PICK e \in Deployers : Pull(d, e)
    BY <1>2
  <2> DEFINE c == copies[d]
             q == [branch |-> c.branch, index |-> copies[e].index,
                   package |-> copies[e].package, lock |-> copies[e].lock]
  <2>2. Sound(c, runs[d]) /\ Sound(copies[e], runs[e])
        /\ runs = [x \in Deployers |-> runs[x]] /\ copies = [x \in Deployers |-> copies[x]]
    BY DEF CopiesSound
  <2>3. copies' = [copies EXCEPT ![d].index = copies[e].index,
                                 ![d].package = copies[e].package, ![d].lock = copies[e].lock]
        /\ Stop(d) /\ Published' = Published
    BY <2>1 DEF Pull, Stop, registry, Published
  <2>4. copies' = [copies EXCEPT ![d] = q]
    <3>1. PICK x : x = [copies EXCEPT ![d].index = copies[e].index]
      OBVIOUS
    <3>2. PICK y : y = [x EXCEPT ![d].package = copies[e].package]
      OBVIOUS
    <3>3. copies' = [y EXCEPT ![d].lock = copies[e].lock]
      BY <2>3, <3>1, <3>2
    <3> DEFINE a1 == [branch |-> c.branch, index |-> copies[e].index,
                      package |-> c.package, lock |-> c.lock]
               a2 == [branch |-> c.branch, index |-> copies[e].index,
                      package |-> copies[e].package, lock |-> c.lock]
    <3>4. a1 = [c EXCEPT !.index = copies[e].index]
          /\ a2 = [a1 EXCEPT !.package = copies[e].package]
          /\ q = [a2 EXCEPT !.lock = copies[e].lock]
      <4>1. Shaped(c)
        BY <2>2, Zenon DEF Sound, Shaped
      <4>2. a1 = [c EXCEPT !.index = copies[e].index]
        BY <4>1, WrittenFields DEF Shaped
      <4> QED BY <4>2
    <3> HIDE DEF a1, a2, q
    <3>5. x = [copies EXCEPT ![d] = a1]
      BY <3>1, <3>4
    <3>6. y = [x EXCEPT ![d] = a2] /\ x[d] = a1
      BY <2>2, <3>2, <3>4, <3>5
    <3>7. copies' = [y EXCEPT ![d] = q] /\ y[d] = a2
      BY <2>2, <3>3, <3>4, <3>5, <3>6
    <3> QED BY <2>2, <3>5, <3>6, <3>7
  <2>5. Known(copies[e].package)
    BY <2>2, Zenon DEF Sound
  <2>6. q.package = copies[e].package /\ Shaped(q)
    BY DEF Shaped
  <2> HIDE DEF q
  <2>7. Sound(q, Idle)
    BY <2>5, <2>6 DEF Sound, Idle, Shaped
  <2>8. /\ copies' = [x \in Deployers |-> copies'[x]] /\ copies'[d] = q
        /\ \A x \in Deployers : x # d => copies'[x] = copies[x]
    BY <2>4, WriteOne
  <2>9. /\ runs' = [x \in Deployers |-> runs'[x]] /\ runs'[d] = Idle
        /\ \A x \in Deployers : x # d => runs'[x] = runs[x]
    BY <2>3, StopRun
  <2>10. Sound(copies[d], runs[d])'
    BY <2>3, <2>7, <2>8, <2>9, Zenon DEF Sound, Known
  <2> QED BY <2>3, <2>8, <2>9, <2>10, DeployerMoves
<1> QED BY <1>1, <1>2

-----------------------------------------------------------------------------
(* The registry *)

\* A build that succeeds has every file, from code generated completely.
LEMMA WholeBuild ==
  ASSUME NEW fails, BuildSucceeds(fails)
  PROVE  Required \subseteq DistFiles(fails) /\ Generated(fails) = Outputs
<1>1. Required \subseteq DistFiles(fails)
  BY DEF BuildSucceeds
<1>2. DistFiles(fails) # {}
  BY <1>1 DEF Required
<1>3. TypeCheck(fails)
  BY <1>2 DEF DistFiles
<1> QED BY <1>1, <1>3 DEF TypeCheck

\* A registry that no deployment adds to.
LEMMA RegistryStays ==
  ASSUME RegistrySound, packages' = packages, live' \subseteq live
  PROVE  RegistrySound'
<1>1. Published' = Published
  BY DEF Published
<1>2. IsFiniteSet(live')
  BY FS_Subset DEF RegistrySound
<1>3. PublishedConsistent'
  BY DEF RegistrySound, PublishedConsistent
<1>4. \A v : Known(v) => Follows(v, Published')
  BY <1>1 DEF Known
<1> QED BY <1>1, <1>2, <1>3, <1>4 DEF RegistrySound, Known

\* What is added is whole, names itself correctly and follows its predecessor.
LEMMA PublishKeeps ==
  ASSUME CopiesSound, RegistrySound, NEW d \in Deployers, PublishPackage(d)
  PROVE  RegistrySound' /\ Published \subseteq Published' /\ withdrawn' = withdrawn
         /\ live' \cap Published \subseteq live
<1>1. CASE UNCHANGED registry
  <2>1. packages' = packages /\ live' = live /\ withdrawn' = withdrawn
    BY <1>1 DEF registry
  <2> QED BY <2>1, RegistryStays DEF Published
<1>2. ASSUME NEW fails \in Failures,
             TestsPass(copies[d]), BuildSucceeds(fails), copies[d].package \notin Published,
             packages' = packages \cup {Package(copies[d], fails)},
             live' = live \cup {copies[d].package}, withdrawn' = withdrawn
      PROVE  RegistrySound' /\ Published \subseteq Published'
             /\ live' \cap Published \subseteq live
  <2> DEFINE v == copies[d].package
             p == Package(copies[d], fails)
  <2>1. p.version = v /\ p.export = v /\ p.files = DistFiles(fails)
        /\ p.generated = Generated(fails)
    BY <1>2 DEF Package, TestsPass
  <2>2. Published' = Published \cup {v}
    BY <1>2, <2>1 DEF Published
  <2>3. Known(v)
    BY Zenon DEF CopiesSound, Sound
  <2>4. \A w \in Published \cup {v} : Follows(w, Published')
    <3>1. \A w \in Published \cup {v} : Known(w)
      BY <2>3 DEF RegistrySound
    <3> QED BY <2>2, <3>1, KnownStays
  <2>5. IsFiniteSet(live') /\ live' \subseteq Published'
    BY <1>2, <2>2, FS_AddElement DEF RegistrySound
  <2>6. p.export = p.version /\ Required \subseteq p.files /\ p.generated = Outputs
    BY <1>2, <2>1, WholeBuild
  <2> HIDE DEF p
  <2>7. PublishedConsistent'
    <3>1. packages' = packages \cup {p}
      BY <1>2 DEF p
    <3> QED BY <2>6, <3>1 DEF RegistrySound, PublishedConsistent
  <2>8. RegistrySound'
    BY <2>2, <2>4, <2>5, <2>7 DEF RegistrySound, Known
  <2> QED BY <1>2, <2>2, <2>8
<1> QED BY <1>1, <1>2 DEF PublishPackage

-----------------------------------------------------------------------------
(* The tools *)

\* What is undone stays so while versions are published.
LEMMA ToolStays ==
  ASSUME ToolSound, Published \subseteq Published', tool' = tool, withdrawn' = withdrawn,
         live' \cap Published \subseteq live
  PROVE  ToolSound'
<1>1. \A kind, v : v \in Published /\ Undone(kind, v) =>
        /\ kind \in {"unpublish", "delete"} => v \notin live'
        /\ kind = "deprecate" => v \in withdrawn'
        /\ kind = "undeprecate" => v \notin withdrawn'
  BY DEF Undone
<1>2. tool.pc # "idle" => tool.list \subseteq Published
  BY DEF ToolSound
<1>3. (tool.pc # "idle" =>
         /\ tool.kind \in ToolKinds
         /\ IsFiniteSet(tool.list) /\ tool.list \subseteq Published)'
  BY DEF ToolSound
<1>4. (tool.pc = "each" =>
         /\ tool.kind # "delete" /\ tool.todo \subseteq tool.list
         /\ tool.done \in Nat /\ tool.done <= Cardinality(tool.list \ tool.todo)
         /\ tool.done = Cardinality(tool.list \ tool.todo) =>
              \A v \in tool.list \ tool.todo : Undone(tool.kind, v))'
  BY <1>1, <1>2 DEF ToolSound, Undone
<1>5. (tool.pc = "report" /\ tool.done = Cardinality(tool.list) =>
         \A v \in tool.list : Undone(tool.kind, v))'
  BY <1>1, <1>2 DEF ToolSound, Undone
<1> QED BY <1>3, <1>4, <1>5 DEF ToolSound

\* What one successful command does is done, and undoes nothing of its kind.
LEMMA EffectUndoes ==
  ASSUME NEW kind \in {"unpublish", "deprecate", "undeprecate"}, NEW v, Effect(kind, v)
  PROVE  /\ Undone(kind, v)'
         /\ \A w : Undone(kind, w) => Undone(kind, w)'
         /\ live' \subseteq live /\ packages' = packages
  BY DEF Effect, Undone

\* A tool that is not there has nothing to keep.
LEMMA ToolGone == tool' = NoTool => ToolSound'
  BY DEF NoTool, ToolSound

\* A tool is given its versions: those the registry listed, or one of them.
LEMMA ChooseKeeps ==
  ASSUME ToolSound, CallsSound, RegistrySound,
         Choose \/ \E kind \in calls.tools : ListVersions(kind)
  PROVE  ToolSound'
<1>1. Published' = Published
  BY DEF Choose, ListVersions, registry, Published
<1>2. ASSUME NEW kind \in calls.tools, ListVersions(kind) PROVE ToolSound'
  <2>1. tool' = [pc |-> "choose", kind |-> kind, list |-> live, todo |-> {}, done |-> 0,
                 left |-> 0]
    BY <1>2 DEF ListVersions, NoTool, Answers
  <2>2. kind \in ToolKinds /\ IsFiniteSet(live) /\ live \subseteq Published
    BY DEF CallsSound, RegistrySound
  <2> QED BY <1>1, <2>1, <2>2 DEF ToolSound
<1>3. CASE Choose /\ tool' # NoTool
  <2>1. PICK chosen \in {tool.list} \cup {{v} : v \in tool.list} :
          /\ tool.kind = "delete" => chosen = tool.list
          /\ tool' = [tool EXCEPT
                       !.pc = IF tool.kind = "delete" THEN "confirmAgain" ELSE "each",
                       !.list = chosen, !.todo = chosen]
    BY <1>3 DEF Choose
  <2>2. tool.pc = "choose"
    BY <1>3 DEF Choose, ToolAt
  <2>3. /\ tool = [pc |-> tool.pc, kind |-> tool.kind, list |-> tool.list, todo |-> tool.todo,
                   done |-> tool.done, left |-> tool.left]
        /\ tool.kind \in ToolKinds /\ tool.done = 0
        /\ IsFiniteSet(tool.list) /\ tool.list \subseteq Published
    BY <2>2 DEF ToolSound
  <2>4. IsFiniteSet(chosen) /\ chosen \subseteq Published
    BY <2>3, FS_Singleton
  <2> DEFINE pc == IF tool.kind = "delete" THEN "confirmAgain" ELSE "each"
  <2>5. tool' = [pc |-> pc, kind |-> tool.kind, list |-> chosen, todo |-> chosen, done |-> 0,
                 left |-> tool.left]
    BY <2>1, <2>3
  <2>6. chosen \ chosen = {} /\ Cardinality({}) = 0
    BY FS_EmptySet
  <2>7. pc \in {"confirmAgain", "each"} /\ (pc = "confirmAgain" <=> tool.kind = "delete")
    OBVIOUS
  <2> HIDE DEF pc
  <2>8. /\ tool'.pc = pc /\ tool'.kind = tool.kind /\ tool'.list = chosen
        /\ tool'.todo = chosen /\ tool'.done = 0 /\ tool'.left = tool.left
    BY <2>5
  <2>9. tool' = [pc |-> tool'.pc, kind |-> tool'.kind, list |-> tool'.list,
                 todo |-> tool'.todo, done |-> tool'.done, left |-> tool'.left]
    BY <2>5, <2>8
  <2> QED BY <1>1, <2>3, <2>4, <2>6, <2>7, <2>8, <2>9 DEF ToolSound
<1>4. tool' = NoTool => ToolSound'
  BY ToolGone
<1> QED BY <1>2, <1>3, <1>4

\* The confirmation, the countdown and the report of a tool that goes on.
LEMMA ToolGoesOn ==
  ASSUME ToolSound, UNCHANGED registry, NEW pc, NEW left,
         tool' = [tool EXCEPT !.pc = pc, !.left = left],
         \/ tool.pc = "confirmAgain" /\ pc = "count"
         \/ tool.pc = "count" /\ pc \in {"count", "package"}
         \/ tool.pc = "each" /\ tool.todo = {} /\ pc = "report"
         \/ tool.pc = "package" /\ pc = "report"
  PROVE  ToolSound'
<1>1. Published' = Published /\ live' = live /\ withdrawn' = withdrawn
  BY DEF registry, Published
<1>2. tool = [pc |-> tool.pc, kind |-> tool.kind, list |-> tool.list, todo |-> tool.todo,
              done |-> tool.done, left |-> tool.left]
  BY DEF ToolSound
<1>3. tool' = [pc |-> pc, kind |-> tool.kind, list |-> tool.list, todo |-> tool.todo,
               done |-> tool.done, left |-> left]
  BY <1>2
<1>4. /\ tool'.pc = pc /\ tool'.kind = tool.kind /\ tool'.list = tool.list
      /\ tool'.todo = tool.todo /\ tool'.done = tool.done
      /\ tool' = [pc |-> tool'.pc, kind |-> tool'.kind, list |-> tool'.list,
                  todo |-> tool'.todo, done |-> tool'.done, left |-> tool'.left]
  BY <1>3
<1>5. tool.pc = "each" /\ tool.done = Cardinality(tool.list) =>
        \A v \in tool.list : Undone(tool.kind, v)
  <2>1. tool.todo = {} => tool.list \ tool.todo = tool.list
    OBVIOUS
  <2> QED BY <2>1 DEF ToolSound
<1>6. tool.pc = "package" /\ tool.done = Cardinality(tool.list) => tool.list = {}
  BY FS_EmptySet DEF ToolSound
<1>7. (tool.pc = "report" /\ tool.done = Cardinality(tool.list) =>
         \A v \in tool.list : Undone(tool.kind, v))'
  BY <1>1, <1>4, <1>5, <1>6 DEF Undone
<1> QED BY <1>1, <1>4, <1>7 DEF ToolSound

\* One version of the list is done, or was not.
LEMMA EachKeeps ==
  ASSUME ToolSound, RegistrySound, NEW v, Each(v)
  PROVE  ToolSound' /\ RegistrySound' /\ packages' = packages
<1>1. tool.pc = "each" /\ v \in tool.todo
  BY DEF Each, ToolAt
<1>2. /\ tool.kind \in {"unpublish", "deprecate", "undeprecate"}
      /\ IsFiniteSet(tool.list) /\ tool.list \subseteq Published
      /\ tool.todo \subseteq tool.list
      /\ tool.done \in Nat /\ tool.done <= Cardinality(tool.list \ tool.todo)
      /\ tool.done = Cardinality(tool.list \ tool.todo) =>
           \A w \in tool.list \ tool.todo : Undone(tool.kind, w)
  BY <1>1 DEF ToolSound, ToolKinds
<1>3. tool = [pc |-> tool.pc, kind |-> tool.kind, list |-> tool.list, todo |-> tool.todo,
              done |-> tool.done, left |-> tool.left]
  BY DEF ToolSound
<1> DEFINE rest == tool.todo \ {v}
<1>4. /\ tool.list \ rest = (tool.list \ tool.todo) \cup {v}
      /\ Cardinality(tool.list \ rest) = Cardinality(tool.list \ tool.todo) + 1
      /\ Cardinality(tool.list \ tool.todo) \in Nat
  <2>1. tool.list \ rest = (tool.list \ tool.todo) \cup {v}
    BY <1>1, <1>2
  <2>2. IsFiniteSet(tool.list \ tool.todo)
    BY <1>2, FS_Subset
  <2> QED BY <1>1, <2>1, <2>2, FS_AddElement, FS_CardinalityType
<1>5. PICK told \in {0, 1} :
        /\ tool' = [tool EXCEPT !.todo = rest, !.done = tool.done + told]
        /\ told = 1 => Effect(tool.kind, v)
        /\ Effect(tool.kind, v) \/ UNCHANGED registry
  <2>1. CASE v \in live /\ Effect(tool.kind, v)
             /\ \E told \in {0, 1} : tool' = [tool EXCEPT !.todo = @ \ {v}, !.done = @ + told]
    BY <2>1
  <2>2. CASE tool' = [tool EXCEPT !.todo = @ \ {v}] /\ UNCHANGED registry
    <3>1. tool' = [tool EXCEPT !.todo = rest, !.done = tool.done + 0]
      <4>1. tool.done + 0 = tool.done
        BY <1>2
      <4> QED BY <1>3, <2>2, <4>1
    <3>2. 0 \in {0, 1} /\ 0 # 1
      OBVIOUS
    <3> QED BY <2>2, <3>1, <3>2, Zenon
  <2> QED BY <2>1, <2>2 DEF Each
<1>6. tool' = [pc |-> "each", kind |-> tool.kind, list |-> tool.list, todo |-> rest,
               done |-> tool.done + told, left |-> tool.left]
  BY <1>1, <1>3, <1>5
<1>7. packages' = packages /\ live' \subseteq live
  BY <1>5 DEF Effect, registry
<1>8. RegistrySound'
  BY <1>7, RegistryStays
<1>9. PICK kind : kind = tool.kind
  OBVIOUS
<1>10. tool.done + told = Cardinality(tool.list \ rest) =>
         \A w \in tool.list \ rest : Undone(kind, w)'
  <2> SUFFICES ASSUME tool.done + told = Cardinality(tool.list \ rest),
                      NEW w \in tool.list \ rest
               PROVE  Undone(kind, w)'
    OBVIOUS
  <2>1. told = 1 /\ tool.done = Cardinality(tool.list \ tool.todo)
    BY <1>2, <1>4
  <2>2. Effect(kind, v)
    BY <1>5, <1>9, <2>1
  <2>3. w = v \/ Undone(kind, w)
    BY <1>2, <1>4, <1>9, <2>1
  <2>4. kind \in {"unpublish", "deprecate", "undeprecate"}
    BY <1>2, <1>9
  <2> QED BY <2>2, <2>3, <2>4, EffectUndoes
<1>11. tool.done + told \in Nat /\ tool.done + told <= Cardinality(tool.list \ rest)
  BY <1>2, <1>4
<1>12. rest \subseteq tool.list /\ Published' = Published
  BY <1>2, <1>7 DEF Published
<1> HIDE DEF rest
<1>13. /\ tool'.pc = "each" /\ tool'.kind = kind /\ tool'.list = tool.list
       /\ tool'.todo = rest /\ tool'.done = tool.done + told
       /\ tool' = [pc |-> tool'.pc, kind |-> tool'.kind, list |-> tool'.list,
                   todo |-> tool'.todo, done |-> tool'.done, left |-> tool'.left]
  BY <1>6, <1>9
<1>14. (tool.pc = "each" =>
          /\ tool.kind # "delete" /\ tool.todo \subseteq tool.list
          /\ tool.done \in Nat /\ tool.done <= Cardinality(tool.list \ tool.todo)
          /\ tool.done = Cardinality(tool.list \ tool.todo) =>
               \A w \in tool.list \ tool.todo : Undone(tool.kind, w))'
  BY <1>2, <1>9, <1>10, <1>11, <1>12, <1>13 DEF Undone
<1>15. (tool.pc # "idle" =>
          /\ tool.kind \in ToolKinds
          /\ IsFiniteSet(tool.list) /\ tool.list \subseteq Published)'
  BY <1>2, <1>9, <1>12, <1>13 DEF ToolKinds
<1>16. ToolSound'
  BY <1>13, <1>14, <1>15 DEF ToolSound
<1> QED BY <1>7, <1>8, <1>16

\* npm takes the whole package, or nothing.
LEMMA DeleteKeeps ==
  ASSUME ToolSound, RegistrySound, DeletePackage
  PROVE  ToolSound' /\ RegistrySound' /\ packages' = packages
<1>1. /\ tool.pc = "package"
      /\ tool = [pc |-> tool.pc, kind |-> tool.kind, list |-> tool.list, todo |-> tool.todo,
                 done |-> tool.done, left |-> tool.left]
      /\ tool.kind = "delete" /\ IsFiniteSet(tool.list) /\ tool.list \subseteq Published
  BY DEF DeletePackage, ToolAt, ToolSound
<1>2. CASE UNCHANGED registry /\ tool' = [tool EXCEPT !.pc = "report"]
  <2>1. tool' = [tool EXCEPT !.pc = "report", !.left = tool.left]
    BY <1>1, <1>2
  <2>2. packages' = packages /\ live' = live
    BY <1>2 DEF registry
  <2> QED BY <1>1, <1>2, <2>1, <2>2, ToolGoesOn, RegistryStays
<1>3. CASE live' = {} /\ UNCHANGED <<packages, withdrawn>>
           /\ \E told : tool' = [tool EXCEPT !.pc = "report", !.done = told]
  <2>1. PICK told : tool' = [tool EXCEPT !.pc = "report", !.done = told]
    BY <1>3
  <2>2. tool' = [pc |-> "report", kind |-> "delete", list |-> tool.list, todo |-> tool.todo,
                 done |-> told, left |-> tool.left]
    BY <1>1, <2>1
  <2>3. RegistrySound' /\ Published' = Published
    BY <1>3, RegistryStays DEF Published
  <2>4. /\ tool'.pc = "report" /\ tool'.kind = "delete" /\ tool'.list = tool.list
        /\ tool' = [pc |-> tool'.pc, kind |-> tool'.kind, list |-> tool'.list,
                    todo |-> tool'.todo, done |-> tool'.done, left |-> tool'.left]
    BY <2>2
  <2>5. \A v \in tool.list : Undone(tool.kind, v)'
    BY <1>3, <2>4 DEF Undone
  <2>6. ToolSound'
    BY <1>1, <2>3, <2>4, <2>5 DEF ToolSound, ToolKinds
  <2> QED BY <1>3, <2>3, <2>6
<1> QED BY <1>2, <1>3 DEF DeletePackage

\* Every step of a tool keeps the invariant; working copies are not touched.
LEMMA ToolKeeps == Inv /\ (ToolStep \/ KillTool) => Inv'
<1> SUFFICES ASSUME Inv, ToolStep \/ KillTool PROVE Inv'
  OBVIOUS
<1> USE DEF Inv
<1>1. UNCHANGED deployment
  BY DEF ToolStep, KillTool, ListVersions, Choose, ConfirmAgain, CountDown, DeletePackage,
         Report, Quit, Each
<1>2. CallsSound'
  <2>1. calls' = calls \/ \E k : calls' = [calls EXCEPT !.tools = @ \ {k}]
    BY DEF ToolStep, KillTool, ListVersions, Choose, ConfirmAgain, CountDown, DeletePackage,
           Report, Quit, Each
  <2> QED BY <2>1 DEF CallsSound
<1>3. ToolSound' /\ RegistrySound' /\ packages' = packages
  <2>1. ASSUME UNCHANGED registry PROVE RegistrySound' /\ packages' = packages
    <3>1. packages' = packages /\ live' = live
      BY <2>1 DEF registry
    <3> QED BY <3>1, RegistryStays
  <2>2. CASE Choose \/ \E kind \in calls.tools : ListVersions(kind)
    BY <2>1, <2>2, ChooseKeeps DEF Choose, ListVersions
  <2>3. CASE (ConfirmAgain \/ CountDown \/ Report \/ Quit \/ KillTool) /\ tool' = NoTool
    BY <2>1, <2>3, ToolGone DEF ConfirmAgain, CountDown, Report, Quit, KillTool
  <2>4. CASE (ConfirmAgain \/ CountDown \/ Report) /\ tool' # NoTool
    <3>1. tool = [pc |-> tool.pc, kind |-> tool.kind, list |-> tool.list, todo |-> tool.todo,
                  done |-> tool.done, left |-> tool.left]
      BY DEF ToolSound
    <3>2. UNCHANGED registry
      BY <2>4 DEF ConfirmAgain, CountDown, Report
    <3>3. CASE ConfirmAgain
      <4>1. tool.pc = "confirmAgain" /\ tool' = [tool EXCEPT !.pc = "count", !.left = Seconds]
        BY <2>4, <3>3 DEF ConfirmAgain, ToolAt
      <4> QED BY <2>1, <3>2, <4>1, ToolGoesOn
    <3>4. CASE CountDown
      <4>1. /\ tool.pc = "count"
            /\ \/ tool' = [tool EXCEPT !.pc = "count", !.left = tool.left - 1]
               \/ tool' = [tool EXCEPT !.pc = "package", !.left = tool.left]
        BY <2>4, <3>1, <3>4 DEF CountDown, ToolAt
      <4> QED BY <2>1, <3>2, <4>1, ToolGoesOn
    <3>5. CASE Report
      <4>1. /\ tool.pc = "each" /\ tool.todo = {}
            /\ tool' = [tool EXCEPT !.pc = "report", !.left = tool.left]
        BY <3>1, <3>5 DEF Report, ToolAt
      <4> QED BY <2>1, <3>2, <4>1, ToolGoesOn
    <3> QED BY <2>4, <3>3, <3>4, <3>5
  <2>5. CASE DeletePackage
    BY <2>5, DeleteKeeps
  <2>6. CASE \E v \in tool.todo : Each(v)
    BY <2>6, EachKeeps
  <2>7. Quit \/ KillTool => tool' = NoTool
    BY DEF Quit, KillTool
  <2> QED BY <2>2, <2>3, <2>4, <2>5, <2>6, <2>7 DEF ToolStep
<1>4. CopiesSound'
  <2>1. copies' = copies /\ runs' = runs /\ Published' = Published
    BY <1>1, <1>3 DEF deployment, Published
  <2>2. \A d \in Deployers : Sound(copies[d], runs[d])'
    BY <2>1, SoundStays DEF CopiesSound
  <2> QED BY <2>1, <2>2 DEF CopiesSound
<1> QED BY <1>2, <1>3, <1>4

-----------------------------------------------------------------------------
(* The theorems *)

\* The releases considered begin with the invariant.
LEMMA InitKeeps == AnyInit => Inv
<1> SUFFICES ASSUME NEW branch \in Branches,
                    NEW bound \in [deploys : Nat, tools : SUBSET ToolKinds, checkouts : Nat],
                    NEW first, NEW published, IsFiniteSet(published),
                    \A v \in published \cup {first} : Follows(v, published),
                    InitWith(branch, first, published, bound)
             PROVE  Inv
  BY DEF AnyInit
<1> DEFINE Entry(v) == [version |-> v, export |-> v, files |-> Required \cup {"proto"},
                        generated |-> Outputs, tag |-> TagOf(v.branch)]
<1>1. packages = {Entry(v) : v \in published} /\ live = published
  BY DEF InitWith
<1>2. \A v : /\ Entry(v).version = v /\ Entry(v).export = v
              /\ Entry(v).files = Required \cup {"proto"} /\ Entry(v).generated = Outputs
  OBVIOUS
<1> HIDE DEF Entry
<1>3. Published = published
  BY <1>1, <1>2 DEF Published
<1>4. RegistrySound
  <2>1. PublishedConsistent
    BY <1>1, <1>2 DEF PublishedConsistent
  <2> QED BY <1>1, <1>3, <2>1 DEF RegistrySound, Known
<1>5. CopiesSound
  <2> DEFINE c == [branch |-> branch, index |-> first, package |-> first, lock |-> first]
  <2>1. copies = [d \in Deployers |-> c] /\ runs = [d \in Deployers |-> Idle]
    BY DEF InitWith
  <2>2. Known(first)
    BY <1>3 DEF Known
  <2>3. Sound(c, Idle)
    BY <2>2 DEF Sound, Idle
  <2> HIDE DEF c
  <2> QED BY <2>1, <2>3 DEF CopiesSound
<1>6. ToolSound
  BY DEF InitWith, NoTool, ToolSound
<1>7. CallsSound
  BY DEF InitWith, CallsSound
<1> QED BY <1>4, <1>5, <1>6, <1>7 DEF Inv

\* Every step of a deployment keeps it.
LEMMA DeploymentKeeps ==
  ASSUME Inv, NEW d \in Deployers, DeployStep(d) \/ Kill(d)
  PROVE  Inv'
<1> USE DEF Inv
<1>1. tool' = tool
  BY DEF DeployStep, Kill, Deploy, PickVersion, WriteIndex, WritePackage, WriteLock,
         CheckPrerequisites, RunTests, BuildPackage, PublishPackage, Announce, RevertPackage,
         RevertIndex, RevertLock
<1>2. CallsSound'
  <2>1. calls' = calls \/ calls' = [calls EXCEPT !.deploys = @ - 1]
    BY DEF DeployStep, Kill, Deploy, PickVersion, WriteIndex, WritePackage, WriteLock,
           CheckPrerequisites, RunTests, BuildPackage, PublishPackage, Announce, RevertPackage,
           RevertIndex, RevertLock
  <2> QED BY <2>1 DEF CallsSound
<1>3. /\ RegistrySound' /\ Published \subseteq Published' /\ withdrawn' = withdrawn
      /\ live' \cap Published \subseteq live
  <2>1. CASE PublishPackage(d)
    BY <2>1, PublishKeeps
  <2>2. CASE ~PublishPackage(d)
    <3>1. packages' = packages /\ live' = live /\ withdrawn' = withdrawn
      BY <2>2 DEF DeployStep, Kill, Deploy, PickVersion, WriteIndex, WritePackage, WriteLock,
         CheckPrerequisites, RunTests, BuildPackage, Announce, RevertPackage, RevertIndex,
         RevertLock, registry
    <3> QED BY <3>1, RegistryStays DEF Published
  <2> QED BY <2>1, <2>2
<1>4. CopiesSound'
  BY <1>3, DeployKeeps, PickKeeps, WriteKeeps, RevertKeeps, OthersKeep DEF DeployStep
<1>5. ToolSound'
  BY <1>1, <1>3, ToolStays
<1> QED BY <1>2, <1>3, <1>4, <1>5

\* Every step keeps the invariant.
LEMMA Step == Inv /\ [Next]_vars => Inv'
<1> SUFFICES ASSUME Inv, [Next]_vars PROVE Inv'
  OBVIOUS
<1> USE DEF Inv
<1>1. ASSUME UNCHANGED <<registry, tool>>, CopiesSound', CallsSound' PROVE Inv'
  <2>1. packages' = packages /\ live' = live /\ withdrawn' = withdrawn /\ tool' = tool
    BY <1>1 DEF registry
  <2>2. RegistrySound' /\ Published' = Published
    BY <2>1, RegistryStays DEF Published
  <2> QED BY <1>1, <2>1, <2>2, ToolStays
<1>2. CASE \E d \in Deployers :
             (\E branch \in Branches : Checkout(d, branch)) \/ \E e \in Deployers : Pull(d, e)
  <2>1. UNCHANGED <<registry, tool>>
    BY <1>2 DEF Checkout, Pull
  <2>2. calls' = calls \/ calls' = [calls EXCEPT !.checkouts = @ - 1]
    BY <1>2 DEF Checkout, Pull
  <2> QED BY <1>1, <1>2, <2>1, <2>2, DeveloperKeeps DEF CallsSound
<1>3. CASE UNCHANGED vars
  <2>1. UNCHANGED <<registry, tool>> /\ copies' = copies /\ runs' = runs /\ calls' = calls
        /\ Published' = Published
    BY <1>3 DEF vars, registry, Published
  <2>2. \A d \in Deployers : Sound(copies[d], runs[d])'
    BY <2>1, SoundStays DEF CopiesSound
  <2> QED BY <1>1, <2>1, <2>2 DEF CopiesSound, CallsSound
<1>4. CASE \E d \in Deployers : DeployStep(d) \/ Kill(d)
  BY <1>4, DeploymentKeeps DEF Inv
<1>5. CASE ToolStep \/ KillTool
  BY <1>5, ToolKeeps DEF Inv
<1> QED BY <1>2, <1>3, <1>4, <1>5 DEF Next, External

\* The invariant holds in every reachable state.
THEOREM Invariant == AnySpec => []Inv
<1>1. QED
  BY InitKeeps, Step, PTL DEF AnySpec

\* What was published is whole, made from complete generated code and exports the
\* version it was published as; and a tool that reports every version of its list
\* as done has left none undone (publishing/deploy.ts:301, publishing/unpublish.ts:194).
THEOREM Agreement == AnySpec => []RegistryAgrees
<1>1. Inv => RegistryAgrees
  <2>1. Inv => PublishedConsistent
    BY DEF Inv, RegistrySound
  <2>2. Inv => ReportsHold
    <3> SUFFICES ASSUME ToolSound, tool.pc = "report", tool.done = Cardinality(tool.list)
                 PROVE  CASE tool.kind = "unpublish" -> tool.list \cap live = {}
                          [] tool.kind = "delete" -> tool.list \cap live = {}
                          [] tool.kind = "deprecate" -> tool.list \subseteq withdrawn
                          [] tool.kind = "undeprecate" -> tool.list \cap withdrawn = {}
      BY DEF ReportsHold, Inv, ToolAt
    <3>1. tool.kind \in ToolKinds /\ \A v \in tool.list : Undone(tool.kind, v)
      BY DEF ToolSound
    <3> QED BY <3>1 DEF ToolKinds, Undone
  <2> QED BY <2>1, <2>2 DEF RegistryAgrees
<1>2. QED
  BY <1>1, Invariant, PTL

\* The invariant numbers what is in use.
LEMMA InvGapless == Inv => NumbersGapless
<1>1. Inv => \A v \in Published : Known(v)
  BY DEF Inv, RegistrySound
<1>2. Inv => \A d \in Deployers : Known(copies[d].package)
  BY Zenon DEF Inv, CopiesSound, Sound
<1> QED BY <1>1, <1>2 DEF NumbersGapless, InUse, Known, Follows

\* The pre-releases of a branch are numbered without a gap, but for the numbers that the
\* names of other branches are taken for (publishing/deploy.ts:186-299).
THEOREM Gapless == AnySpec => []NumbersGapless
<1>1. QED
  BY InvGapless, Invariant, PTL

\* A branch whose name begins no other that was published on its base has no gap: the
\* version before one in use was published (publishing/deploy.ts:230-233).
THEOREM GaplessAlone ==
  AnySpec => [](\A v \in InUse :
                  v.n > 1 /\ (\A w \in Published : w.base = v.base => ~Extends(w, v.branch))
                  => Version(v.base, v.branch, v.n - 1) \in Published)
<1> DEFINE Alone(v) == \A w \in Published : w.base = v.base => ~Extends(w, v.branch)
<1>1. ASSUME Inv, NEW v \in InUse, v.n > 1, Alone(v)
      PROVE  Version(v.base, v.branch, v.n - 1) \in Published
  <2>1. v.n - 1 \in NumbersAfter(Published, v.base, v.branch)
    <3>1. NumbersGapless
      BY <1>1, InvGapless
    <3> QED BY <1>1, <3>1 DEF NumbersGapless
  <2>2. PICK w \in Published : w.base = v.base /\ w.branch = v.branch /\ w.n = v.n - 1
    <3>1. \A w \in Published : w.base = v.base => ~Extends(w, v.branch)
      BY <1>1
    <3> QED BY <2>1, <3>1, Zenon DEF NumbersAfter
  <2>3. IsVersion(w)
    BY <1>1 DEF Inv, RegistrySound, Known, Follows
  <2> QED BY <2>2, <2>3 DEF IsVersion
<1>2. Inv => \A v \in InUse : v.n > 1 /\ Alone(v)
                               => Version(v.base, v.branch, v.n - 1) \in Published
  BY <1>1, Zenon
<1>3. QED
  BY <1>2, Invariant, PTL

\* A deployment that has taken its versions back leaves the three files as it
\* found them (publishing/deploy.ts:546-567).
THEOREM Reverts == AnySpec => FailureReverts
<1> DEFINE Step1 == \A d \in Deployers :
             RevertLock(d) /\ copies'[d].lock = runs[d].saved.lock
               => Files(copies'[d]) = runs[d].saved
<1>1. Inv => Step1
  <2> SUFFICES ASSUME Inv, NEW d \in Deployers, RevertLock(d),
                      copies'[d].lock = runs[d].saved.lock
               PROVE  Files(copies'[d]) = runs[d].saved
    OBVIOUS
  <2> DEFINE c == copies[d]
             saved == runs[d].saved
  <2>1. runs[d].pc = "revertLock" /\ CopiesSound
    BY DEF RevertLock, At, Inv
  <2>2. /\ Shaped(c) /\ c.package = saved.package /\ c.index = saved.index
        /\ saved = [index |-> saved.index, package |-> saved.package, lock |-> saved.lock]
    BY <2>1, UnderWay
  <2>3. copies = [e \in Deployers |-> copies[e]]
    BY <2>1 DEF CopiesSound
  <2>4. copies'[d] = c \/ copies'[d] = [c EXCEPT !.lock = saved.lock]
    BY <2>3 DEF RevertLock
  <2>5. copies'[d].package = c.package /\ copies'[d].index = c.index
    <3>1. [c EXCEPT !.lock = saved.lock] =
            [branch |-> c.branch, index |-> c.index, package |-> c.package, lock |-> saved.lock]
      BY <2>2, WrittenFields DEF Shaped
    <3> QED BY <2>4, <3>1
  <2> HIDE DEF c, saved
  <2> QED BY <2>2, <2>5 DEF Files, saved
<1>2. Inv /\ [Next]_vars => [Step1]_vars
  BY <1>1
<1>3. QED
  BY <1>2, Invariant, PTL DEF AnySpec, FailureReverts
=============================================================================
