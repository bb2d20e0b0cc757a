---- MODULE CiProofs ----
(***************************************************************************)
(* Proofs about the gates of Ci, for any set of shared objects and what    *)
(* they need, any threshold and coverages, and any number of checks: a     *)
(* green gate has shown what it can show, and what a run of the spike      *)
(* leaves comes from the step it was interrupted at.                       *)
(***************************************************************************)
EXTENDS Ci, TLAPS

\* proto-check.  As long as the copy was made it is what the run has found; the tree is
\* touched only behind it; and a difference is one of the tree, if all commands work.
ProtoInv ==
  /\ {gen, snapshot, before} \subseteq Trees
  /\ gpc # "idle" => verdict = "none"
  /\ gpc # "idle" /\ "copy" \notin broken => snapshot = before
  /\ gpc = "compare" /\ broken = {} => gen = Tree("current", before.orphan)
  /\ gpc = "generate" /\ broken = {} => gen = before
  /\ gpc \in {"remove", "restore"} /\ broken = {} => before.written # "current"
  /\ CheckLeavesTree /\ VerdictIsRight

\* The coverage stage.  A total is there only behind tests that have passed, and what
\* is behind the list of packages has a productive one.
CoverageInv ==
  /\ cpc \in {"list", "test", "cover", "gate", "done"}
  /\ cpc # "done" <=> cexit = 99
  /\ cpc \in {"test", "cover", "gate"} => packages = "productive"
  /\ cpc \in {"list", "test", "cover"} => func = NoFile
  /\ cpc = "cover" => tests = "passed" /\ covered \in Coverages
  /\ func.state = "total" => /\ tests = "passed" /\ packages = "productive"
                             /\ covered \in Coverages /\ func.shown = (covered + 5) \div 10
  /\ CoverageIsEarned

\* The image.  While the list is copied a library that is not installed is among the
\* lines to come, as these are the last ones; the last command is a success only for a
\* module that was loaded.
ImageInv ==
  /\ smoked \in Modules \union {NoModule}
  /\ ipc \in {"list", "stage", "check", "smoke", "done"} /\ (ipc # "done" => dlopen = "none" /\ iexit = 99)
  /\ ipc = "stage" => Closure(Modules) \subseteq installed \/ ~(todo \subseteq installed)
  /\ iexit = 0 => smoked \in Modules /\ Closure({smoked}) \subseteq rootfs
  /\ MissingStopsBuild

\* The spike's script.  Before the trap is set there is nothing; no docker command is
\* behind the script's back before it gives up, and none but that of the step it gave up
\* at then; the cleanup works its way from the server to the directory; and the code it
\* keeps is 0 only behind all steps.
Interrupted == {"network"} \union Containers
ScriptInv ==
  /\ spc \in {"mktemp"} \union StepNames \union {"stop", "rmNetwork", "rmDirectory", "exit", "done"}
  /\ left \subseteq {"directory", "network"} \union Containers
  /\ left \intersect Throwaways \subseteq {ended}
  /\ orphan # "none" => orphan = ended /\ orphan \in Interrupted
  /\ spc \in {"mktemp"} \union StepNames => ended = "none"
  /\ spc # "done" => ~cut
  /\ spc = "mktemp" => left = {} /\ ran = {} /\ wrong = 0
  /\ \A i \in 1 .. Len(Steps) : spc = Steps[i] => wrong = 0 /\ ran = {Steps[j] : j \in 1 .. i - 1}
  /\ ~cut /\ stuck = {} =>
       /\ spc \in {"rmNetwork", "rmDirectory", "exit", "done"} /\ "server" \in left => ended = "server"
       /\ spc \in {"rmDirectory", "exit", "done"} /\ "network" \in left => ended \in Interrupted
       /\ spc \in {"exit", "done"} => "directory" \notin left
  /\ spc \in {"stop", "rmNetwork", "rmDirectory", "exit"} => (wrong = 0 <=> ran = StepNames)
  /\ StepDecides

\* make: the image gates come behind a green coverage stage.
OrderInv == job = "ci" /\ (ipc # "list" \/ iexit # 99) => cexit = 0

CiInv == ProtoInv /\ CoverageInv /\ ImageInv /\ ScriptInv /\ OrderInv

----
\* proto-check
\* A tree is what its files make it, and one that is there is not the one that is gone.
LEMMA TreesAreRecords ==
  /\ Gone \in Trees /\ \A t \in Trees : t = Tree(t.written, t.orphan) /\ t.orphan \in BOOLEAN
  /\ \A w \in {"current", "drifted", "mixed"}, o \in BOOLEAN : Tree(w, o) \in Trees /\ Tree(w, o) # Gone
<1>1. \A t \in Trees : t = Tree(t.written, t.orphan)
  BY DEF Trees, Tree, Gone
<1>2. ASSUME NEW t \in Trees PROVE t.orphan \in BOOLEAN
  <2>1. CASE t = Gone
    BY <2>1 DEF Tree, Gone
  <2>2. CASE t \in [written : {"current", "drifted", "mixed"}, orphan : BOOLEAN]
    BY <2>2
  <2>. QED
    BY <2>1, <2>2 DEF Trees
<1>3. /\ Gone \in Trees
      /\ \A w \in {"current", "drifted", "mixed"}, o \in BOOLEAN : Tree(w, o) \in Trees /\ Tree(w, o) # Gone
  BY DEF Trees, Tree, Gone
<1>. QED
  BY <1>1, <1>2, <1>3

LEMMA ProtoStep ==
  ASSUME ProtoInv, [ProtoNext]_protoVars
  PROVE  ProtoInv'
<1> USE DEF ProtoInv, CheckLeavesTree, VerdictIsRight
<1>1. CASE Snapshot
  BY <1>1, TreesAreRecords DEF Snapshot
<1>2. CASE Generate
  <2>1. gen.orphan \in BOOLEAN
    BY TreesAreRecords
  <2>2. gen' \in Trees
    BY <1>2, <2>1, TreesAreRecords DEF Generate
  <2>3. broken' = {} => broken = {} /\ gen' = Tree("current", gen.orphan)
    BY <1>2 DEF Generate
  <2>4. broken \subseteq broken'
    BY <1>2 DEF Generate
  <2>. QED
    BY <1>2, <2>2, <2>3, <2>4 DEF Generate
<1>3. CASE Compare
  <2>1. CASE Same(gen, snapshot)
    BY <1>3, <2>1 DEF Compare, Same, Tree
  <2>2. CASE ~Same(gen, snapshot)
    <3>1. broken = {} => before.written # "current"
      <4>. SUFFICES ASSUME broken = {}, before.written = "current" PROVE FALSE
        OBVIOUS
      <4>1. before = Tree("current", before.orphan) /\ gen = Tree("current", before.orphan) /\ snapshot = before
        BY <1>3, TreesAreRecords DEF Compare
      <4>2. gen # Gone
        BY <4>1 DEF Tree, Gone
      <4>. QED
        BY <2>2, <4>1, <4>2 DEF Same
    <3>. QED
      BY <1>3, <2>2, <3>1 DEF Compare
  <2>. QED
    BY <2>1, <2>2
<1>4. CASE Remove
  BY <1>4, TreesAreRecords DEF Remove
<1>5. CASE Restore
  BY <1>5, TreesAreRecords DEF Restore, PutBack
<1>6. CASE Kill
  BY <1>6 DEF Kill
<1>7. CASE UNCHANGED protoVars
  BY <1>7 DEF protoVars
<1>. QED
  BY <1>1, <1>2, <1>3, <1>4, <1>5, <1>6, <1>7 DEF ProtoNext

----
\* The coverage stage.

\* The total is rounded to one decimal, which adds at most half of it.
LEMMA CoverageStep ==
  ASSUME CoverageInv, [CoverNext]_coverVars
  PROVE  CoverageInv'
<1> USE DEF CoverageInv, CoverageIsEarned, NoFile, File
<1>1. CASE ListPackages
  BY <1>1 DEF ListPackages
<1>2. CASE GoTest
  BY <1>2 DEF GoTest, AfterTests
<1>3. CASE GoCover
  BY <1>3 DEF GoCover
<1>4. CASE CoverageGate
  <2>1. cpc = "gate" /\ cpc' = "done" /\ cexit' = Gate(func) /\ UNCHANGED <<packages, tests, covered, func>>
    BY <1>4 DEF CoverageGate
  <2>2. Gate(func) = 0 => func.state = "total" /\ func.shown >= Threshold
    BY DEF Gate
  <2>3. Gate(func) # 99
    BY DEF Gate
  <2>4. Gate(func) = 0 => packages = "productive" /\ tests = "passed" /\ covered + 5 >= 10 * Threshold
    <3> SUFFICES ASSUME Gate(func) = 0
                 PROVE  packages = "productive" /\ tests = "passed" /\ covered + 5 >= 10 * Threshold
      OBVIOUS
    <3>1. /\ packages = "productive" /\ tests = "passed" /\ covered \in Coverages
          /\ func.shown = (covered + 5) \div 10 /\ func.shown >= Threshold
      BY <2>2
    <3>2. covered \in 0 .. 10000 /\ Threshold \in 0 .. 1000
      BY <3>1, CoverageAssumption
    <3>3. (covered + 5) \div 10 >= Threshold
      BY <3>1
    <3> HIDE DEF CoverageInv, CoverageIsEarned
    <3>4. covered + 5 >= 10 * Threshold
      BY <3>2, <3>3
    <3>. QED
      BY <3>1, <3>4
  <2>5. CoverageIsEarned'
    BY <2>1, <2>4
  <2>6. cpc' = "done" /\ cexit' # 99
    BY <2>1, <2>3
  <2>. QED
    BY <2>1, <2>5, <2>6
<1>5. CASE UNCHANGED coverVars
  BY <1>5 DEF coverVars
<1>. QED
  BY <1>1, <1>2, <1>3, <1>4, <1>5 DEF CoverNext

----
\* The image.

LEMMA ImageStep ==
  ASSUME ImageInv, [ImageNext]_imageVars
  PROVE  ImageInv'
<1> USE DEF ImageInv, MissingStopsBuild
<1>1. CASE ListClosure
  BY <1>1 DEF ListClosure, Stop
<1>2. CASE StageLib
  <2>1. PICK l \in NextLines(todo) :
          /\ todo' = todo \ {l}
          /\ \/ /\ l \in installed /\ rootfs' = rootfs \union {l}
                /\ ipc' = IF todo' = {} THEN "check" ELSE "stage"
                /\ UNCHANGED iexit
             \/ /\ UNCHANGED rootfs
                /\ IF todo' = {} THEN Stop(1) ELSE UNCHANGED <<ipc, iexit>>
    BY <1>2 DEF StageLib
  <2>2. l \in todo /\ (l \notin installed => todo \intersect installed = {})
    BY DEF NextLines
  <2>3. CASE Closure(Modules) \subseteq installed
    BY <1>2, <2>1, <2>3 DEF StageLib, Stop
  <2>4. CASE ~(todo \subseteq installed)
    <3>1. todo' # {} => ~(todo' \subseteq installed)
      BY <2>1, <2>2, <2>4
    <3>2. l \in installed => todo' # {}
      BY <2>1, <2>4
    <3>. QED
      BY <1>2, <2>1, <3>1, <3>2 DEF StageLib, Stop
  <2>. QED
    BY <1>2, <2>3, <2>4 DEF StageLib
<1>3. CASE CheckClosure
  BY <1>3 DEF CheckClosure, Stop
<1>4. CASE Smoke
  <2>1. iexit' = 0 => dlopen' = "loaded"
    BY <1>4 DEF Smoke, Stop, SmokeExit
  <2>2. dlopen' = "loaded" => smoked \in Modules /\ Closure({smoked}) \subseteq rootfs
    BY <1>4 DEF Smoke
  <2>. QED
    BY <1>4, <2>1, <2>2 DEF Smoke, Stop
<1>5. CASE SmokeStub
  BY <1>5 DEF SmokeStub, Stop
<1>6. CASE UNCHANGED imageVars
  BY <1>6 DEF imageVars
<1>. QED
  BY <1>1, <1>2, <1>3, <1>4, <1>5, <1>6 DEF ImageNext

----
\* The spike's script.

\* What comes behind a command of a list in which no two are the same.
LEMMA BehindIsNext ==
  ASSUME NEW order, NEW k \in 1 .. Len(order), \A i \in 1 .. Len(order) : order[i] = order[k] => i = k
  PROVE  Behind(order, order[k]) = IF k = Len(order) THEN "none" ELSE order[k + 1]
<1>1. (CHOOSE i \in 1 .. Len(order) : order[i] = order[k]) = k
  OBVIOUS
<1>. QED
  BY <1>1 DEF Behind

LEMMA CleanupOrder ==
  /\ Len(Cleanup) = 3 /\ Cleanup[1] = "stop" /\ Cleanup[2] = "rmNetwork" /\ Cleanup[3] = "rmDirectory"
  /\ Behind(Cleanup, "stop") = "rmNetwork" /\ Behind(Cleanup, "rmNetwork") = "rmDirectory"
  /\ Behind(Cleanup, "rmDirectory") = "none"
<1>1. Len(Cleanup) = 3 /\ Cleanup[1] = "stop" /\ Cleanup[2] = "rmNetwork" /\ Cleanup[3] = "rmDirectory"
  BY DEF Cleanup
<1>2. \A i, k \in 1 .. Len(Cleanup) : Cleanup[i] = Cleanup[k] => i = k
  BY <1>1
<1>3. \A k \in 1 .. Len(Cleanup) :
        Behind(Cleanup, Cleanup[k]) = IF k = Len(Cleanup) THEN "none" ELSE Cleanup[k + 1]
  BY <1>2, BehindIsNext
<1>. QED
  BY <1>1, <1>3

LEMMA StepList ==
  /\ Len(Steps) = 7
  /\ Steps[1] = "build" /\ Steps[2] = "network" /\ Steps[3] = "server" /\ Steps[4] = "ready"
  /\ Steps[5] = "library" /\ Steps[6] = "init" /\ Steps[7] = "test"
BY DEF Steps

\* The steps come in the order of the list.
LEMMA StepOrder ==
  ASSUME NEW k \in 1 .. Len(Steps)
  PROVE  /\ \A i \in 1 .. Len(Steps) : Steps[i] = Steps[k] => i = k
         /\ Behind(Steps, Steps[k]) = IF k = Len(Steps) THEN "none" ELSE Steps[k + 1]
<1>1. \A i \in 1 .. Len(Steps) : Steps[i] = Steps[k] => i = k
  BY StepList
<1>. QED
  BY <1>1, BehindIsNext

\* The names of the steps and of the commands of the cleanup are different.
LEMMA StepOrCleanup ==
  /\ \A i \in 1 .. Len(Steps) : Steps[i] \notin {"mktemp", "stop", "rmNetwork", "rmDirectory", "exit", "done"}
  /\ \A i \in 1 .. Len(Cleanup) : Cleanup[i] \in {"stop", "rmNetwork", "rmDirectory"}
BY StepList, CleanupOrder

\* A step is not the last one, or the cleanup comes behind it.
LEMMA StepSucceedsStep ==
  ASSUME ScriptInv, StepSucceeds
  PROVE  ScriptInv'
<1>1. PICK k \in 1 .. Len(Steps) : spc = Steps[k]
  BY DEF StepSucceeds, StepNames
<1>2. /\ ran' = ran \union {Steps[k]} /\ left' = left \union (Made(Steps[k]) \ Throwaways)
      /\ UNCHANGED <<orphan, ended, wrong, stuck, cut, sexit>>
      /\ spc' = IF k = Len(Steps) THEN "stop" ELSE Steps[k + 1]
  <2>1. Behind(Steps, Steps[k]) = IF k = Len(Steps) THEN "none" ELSE Steps[k + 1]
    BY StepOrder
  <2>2. k # Len(Steps) => Steps[k + 1] # "none"
    BY StepList
  <2>. QED
    BY <1>1, <2>1, <2>2, CleanupOrder DEF StepSucceeds
<1>3. wrong = 0 /\ ran = {Steps[j] : j \in 1 .. k - 1} /\ ended = "none" /\ orphan = "none" /\ ~cut
  <2>1. spc \in StepNames /\ spc # "done"
    BY <1>1, StepOrCleanup DEF StepNames
  <2>2. ended = "none" /\ ~cut
    BY <2>1 DEF ScriptInv
  <2>3. orphan # "none" => orphan = ended
    BY DEF ScriptInv
  <2>. QED
    BY <1>1, <2>2, <2>3 DEF ScriptInv
<1>4. ran' = {Steps[j] : j \in 1 .. k}
  BY <1>2, <1>3, StepList
<1>5. left' \subseteq {"directory", "network"} \union Containers /\ left' \intersect Throwaways \subseteq {ended'}
  BY <1>2 DEF Made, ScriptInv
<1>6. CASE k = Len(Steps)
  <2>1. spc' = "stop" /\ ran' = StepNames /\ wrong' = 0
    BY <1>2, <1>3, <1>4, <1>6 DEF StepNames
  <2>. QED
    BY <1>2, <1>3, <1>5, <2>1, StepOrCleanup DEF ScriptInv, StepDecides
<1>7. CASE k # Len(Steps)
  <2>1. spc' = Steps[k + 1] /\ k + 1 \in 1 .. Len(Steps) /\ wrong' = 0 /\ spc' \in StepNames
    BY <1>2, <1>3, <1>7, StepList DEF StepNames
  <2>2. \A i \in 1 .. Len(Steps) : spc' = Steps[i] => i = k + 1
    BY <2>1, StepOrder
  <2>3. \A i \in 1 .. Len(Steps) : spc' = Steps[i] => wrong' = 0 /\ ran' = {Steps[j] : j \in 1 .. i - 1}
    BY <1>4, <2>1, <2>2, StepList
  <2>4. spc' \notin {"mktemp", "stop", "rmNetwork", "rmDirectory", "exit", "done"}
    BY <2>1, StepOrCleanup
  <2>. QED
    BY <1>2, <1>3, <1>5, <2>1, <2>3, <2>4 DEF ScriptInv, StepDecides
<1>. QED
  BY <1>6, <1>7

\* A step that fails, or a signal, leaves a step that has not succeeded.
LEMMA StepEndsStep ==
  ASSUME ScriptInv, StepFails \/ Signal
  PROVE  ScriptInv'
<1>1. PICK k \in 1 .. Len(Steps) : spc = Steps[k]
  BY DEF StepFails, Signal, StepNames
<1>2. /\ spc' = "stop" /\ wrong' # 0 /\ left' \subseteq left \union Made(spc) /\ ended' = spc
      /\ UNCHANGED <<ran, stuck, cut, sexit>>
  BY CleanupOrder DEF StepFails, Signal, GiveUp, Codes, SignalCodes
<1>3. ended = "none" /\ orphan = "none" /\ ~cut
  <2>1. spc \in StepNames /\ spc # "done"
    BY <1>1, StepOrCleanup DEF StepNames
  <2>2. ended = "none" /\ ~cut
    BY <2>1 DEF ScriptInv
  <2>3. orphan # "none" => orphan = ended
    BY DEF ScriptInv
  <2>. QED
    BY <2>2, <2>3
<1>4. ran # StepNames
  <2>1. ran = {Steps[j] : j \in 1 .. k - 1}
    BY <1>1 DEF ScriptInv
  <2>2. Steps[k] \notin ran
    BY <2>1, StepOrder, StepList
  <2>. QED
    BY <2>2 DEF StepNames
<1>5. left \intersect Throwaways = {}
  BY <1>3 DEF ScriptInv, Throwaways
<1>6. left' \subseteq {"directory", "network"} \union Containers /\ left' \intersect Throwaways \subseteq {ended'}
  BY <1>2, <1>5 DEF Made, ScriptInv
<1>7. orphan' # "none" => orphan' = ended' /\ orphan' \in Interrupted
  <2>1. Made(spc) # {} => spc \in Interrupted
    BY DEF Made, Interrupted
  <2>. QED
    BY <1>2, <1>3, <2>1 DEF StepFails, Signal
<1>8. \A i \in 1 .. Len(Steps) : spc' # Steps[i]
  BY <1>2, StepOrCleanup
<1>9. spc' \notin {"mktemp"} \union StepNames
  BY <1>2, <1>8 DEF StepNames
<1>. QED
  BY <1>2, <1>3, <1>4, <1>6, <1>7, <1>8, <1>9 DEF ScriptInv, StepDecides

\* A network that is still in use is left to the step whose container uses it.
LEMMA CleanupStepStep ==
  ASSUME ScriptInv, CleanupStep
  PROVE  ScriptInv'
<1>1. /\ spc \in {"stop", "rmNetwork", "rmDirectory"} /\ UNCHANGED <<orphan, ended, wrong, ran, cut, sexit>>
      /\ spc' = IF spc = "stop" THEN "rmNetwork" ELSE IF spc = "rmNetwork" THEN "rmDirectory" ELSE "exit"
  BY CleanupOrder, StepOrCleanup DEF CleanupStep
<1>2. left' \subseteq left /\ stuck \subseteq stuck'
  BY DEF CleanupStep
<1>3. stuck' = {} => /\ stuck = {}
                     /\ spc = "stop" => "server" \notin left'
                     /\ spc = "rmNetwork" => "network" \notin left' \/ InUse
                     /\ spc = "rmDirectory" => "directory" \notin left'
  BY DEF CleanupStep, Target
<1>4. \A i \in 1 .. Len(Steps) : spc' # Steps[i]
  BY <1>1, StepOrCleanup
<1>5. ~cut
  BY <1>1 DEF ScriptInv
<1>6. spc = "rmNetwork" /\ stuck = {} /\ InUse => ended \in Interrupted
  <2>. SUFFICES ASSUME spc = "rmNetwork", stuck = {}, NEW c \in Containers \intersect left
                PROVE  ended \in Interrupted
    BY DEF InUse
  <2>1. c = "server" => ended = "server"
    BY <1>5 DEF ScriptInv
  <2>2. c \in Throwaways => ended = c
    BY DEF ScriptInv
  <2>. QED
    BY <2>1, <2>2 DEF Containers, Interrupted
<1>7. stuck' = {} =>
        /\ spc' \in {"rmNetwork", "rmDirectory", "exit", "done"} /\ "server" \in left' => ended = "server"
        /\ spc' \in {"rmDirectory", "exit", "done"} /\ "network" \in left' => ended \in Interrupted
        /\ spc' \in {"exit", "done"} => "directory" \notin left'
  BY <1>1, <1>2, <1>3, <1>5, <1>6 DEF ScriptInv
<1>8. spc' \notin {"mktemp"} \union StepNames
  BY <1>1, <1>4 DEF StepNames
<1>. QED
  BY <1>1, <1>2, <1>4, <1>5, <1>7, <1>8 DEF ScriptInv, StepDecides

\* Behind the script's back: the container or the network of the step it gave up at.
LEMMA OrphanStep ==
  ASSUME ScriptInv, OrphanMakes
  PROVE  ScriptInv'
<1>1. orphan = ended /\ orphan \in Interrupted /\ left' = left \union {ended} /\ orphan' = "none"
      /\ UNCHANGED <<spc, ended, wrong, ran, stuck, cut, sexit>>
  BY DEF OrphanMakes, ScriptInv, Made, Interrupted
<1>2. left' \subseteq {"directory", "network"} \union Containers /\ left' \intersect Throwaways \subseteq {ended}
  BY <1>1 DEF ScriptInv, Interrupted
<1>3. "directory" # ended /\ "none" # ended
  BY <1>1 DEF Interrupted, Containers, Throwaways
<1>. QED
  BY <1>1, <1>2, <1>3 DEF ScriptInv, StepDecides

LEMMA ScriptStep ==
  ASSUME ScriptInv, [SpikeNext]_spikeVars
  PROVE  ScriptInv'
<1>1. CASE MakeDirectory
  <2>1. /\ wrong = 0 /\ ran = {} /\ left = {} /\ ended = "none" /\ orphan = "none" /\ ~cut
        /\ "build" \in StepNames /\ UNCHANGED <<orphan, ended, ran, stuck, cut>>
    <3>1. ended = "none" /\ (orphan # "none" => orphan = ended)
      BY <1>1 DEF MakeDirectory, ScriptInv
    <3>. QED
      BY <1>1, <3>1, StepList DEF MakeDirectory, ScriptInv, StepNames
  <2>2. CASE spc' = "build" /\ left' = {"directory"} /\ UNCHANGED <<wrong, sexit>>
    <3>1. \A i \in 1 .. Len(Steps) : spc' = Steps[i] => i = 1
      BY <2>2, StepList
    <3>2. \A i \in 1 .. Len(Steps) : spc' = Steps[i] => wrong' = 0 /\ ran' = {Steps[j] : j \in 1 .. i - 1}
      BY <2>1, <2>2, <3>1
    <3>. QED
      BY <2>1, <2>2, <3>2 DEF ScriptInv, StepDecides, Throwaways
  <2>3. CASE spc' = "done" /\ wrong' = 1 /\ sexit' = 1 /\ UNCHANGED left
    <3>1. ran # StepNames
      BY <2>1
    <3>2. StepDecides'
      BY <2>1, <2>3, <3>1 DEF StepDecides
    <3>3. \A i \in 1 .. Len(Steps) : spc' # Steps[i]
      BY <2>3, StepOrCleanup
    <3>. QED
      BY <2>1, <2>3, <3>2, <3>3 DEF ScriptInv
  <2>. QED
    BY <1>1, <2>2, <2>3 DEF MakeDirectory
<1>2. CASE StepSucceeds
  BY <1>2, StepSucceedsStep
<1>3. CASE StepFails \/ Signal
  BY <1>3, StepEndsStep
<1>4. CASE OrphanMakes
  BY <1>4, OrphanStep
<1>5. CASE ContainerEnds
  <2>1. left' \subseteq left /\ UNCHANGED <<spc, orphan, ended, wrong, ran, stuck, cut, sexit>>
    BY <1>5 DEF ContainerEnds
  <2>. QED
    BY <2>1 DEF ScriptInv, StepDecides
<1>6. CASE CleanupStep
  BY <1>6, CleanupStepStep
<1>7. CASE SignalInCleanup
  <2>1. spc' = "done" /\ cut' /\ sexit' # 0 /\ UNCHANGED <<left, orphan, ended, wrong, ran, stuck>>
    BY <1>7 DEF SignalInCleanup, SignalCodes
  <2>2. \A i \in 1 .. Len(Steps) : spc' # Steps[i]
    BY <2>1, StepOrCleanup
  <2>. QED
    BY <2>1, <2>2 DEF ScriptInv, StepDecides, StepNames
<1>8. CASE ExitScript
  <2>1. ~cut /\ spc' = "done" /\ sexit' = wrong /\ UNCHANGED <<left, orphan, ended, wrong, ran, stuck, cut>>
    BY <1>8 DEF ExitScript, StatusKept, ScriptInv
  <2>2. \A i \in 1 .. Len(Steps) : spc' # Steps[i]
    BY <2>1, StepOrCleanup
  <2>3. StepDecides'
    BY <1>8, <2>1 DEF ExitScript, ScriptInv, StepDecides, StepNames
  <2>. QED
    BY <1>8, <2>1, <2>2, <2>3 DEF ExitScript, ScriptInv, StepNames
<1>9. CASE UNCHANGED spikeVars
  BY <1>9 DEF spikeVars, ScriptInv, StepDecides
<1>. QED
  BY <1>1, <1>2, <1>3, <1>4, <1>5, <1>6, <1>7, <1>8, <1>9 DEF SpikeNext

----
\* make and the script together.
LEMMA CiInvariant == Spec => []CiInv
<1>1. Init => CiInv
  <2> SUFFICES ASSUME Init PROVE CiInv
    OBVIOUS
  <2>1. ProtoInv
    BY TreesAreRecords DEF Init, ProtoInit, ProtoInv, CheckLeavesTree, VerdictIsRight
  <2>2. CoverageInv
    BY DEF Init, CoverInit, CoverageInv, CoverageIsEarned, NoFile, File
  <2>3. ImageInv
    BY DEF Init, ImageInit, ImageInv, MissingStopsBuild
  <2>4. ScriptInv
    BY StepOrCleanup DEF Init, SpikeInit, ScriptInv, StepDecides
  <2>5. OrderInv
    BY DEF Init, ImageInit, OrderInv
  <2>. QED
    BY <2>1, <2>2, <2>3, <2>4, <2>5 DEF CiInv
<1>2. CiInv /\ [Next]_vars => CiInv'
  <2> SUFFICES ASSUME CiInv, [Next]_vars PROVE CiInv'
    OBVIOUS
  <2>1. /\ [ProtoNext]_protoVars /\ [CoverNext]_coverVars /\ [ImageNext]_imageVars /\ [SpikeNext]_spikeVars
        /\ job' = job
    BY DEF Next, vars, CoverageTarget, ImageTargets, ProtoTarget, SpikeScript
  <2>2. ProtoInv' /\ CoverageInv' /\ ImageInv' /\ ScriptInv'
    BY <2>1, ProtoStep, CoverageStep, ImageStep, ScriptStep DEF CiInv
  <2>3. OrderInv'
    <3>1. CASE CoverageTarget
      <4>1. cexit # 0
        BY <3>1 DEF CoverageTarget, CoverNext, ListPackages, GoTest, GoCover, CoverageGate, CiInv, CoverageInv
      <4>. QED
        BY <3>1, <4>1 DEF CoverageTarget, imageVars, CiInv, OrderInv
    <3>2. CASE ImageTargets
      BY <3>2 DEF ImageTargets, coverVars, OrderInv
    <3>3. CASE UNCHANGED <<job, coverVars, imageVars>>
      BY <3>3 DEF coverVars, imageVars, CiInv, OrderInv
    <3>. QED
      BY <3>1, <3>2, <3>3 DEF Next, vars, ProtoTarget, SpikeScript
  <2>. QED
    BY <2>2, <2>3 DEF CiInv
<1>. QED
  BY <1>1, <1>2, PTL DEF Spec

\* make proto-check leaves the tree as it was, however often it is run, killed and
\* failed by the generator, as long as it could copy.
THEOREM TreeIsLeft == Spec => []CheckLeavesTree
<1>1. CiInv => CheckLeavesTree
  BY DEF CiInv, ProtoInv
<1>. QED
  BY <1>1, CiInvariant, PTL

\* Where its commands work the verdict is right about every file that buf writes,
\* whichever file of a removed .proto lies beside them.
THEOREM VerdictAlwaysRight == Spec => []VerdictIsRight
<1>1. CiInv => VerdictIsRight
  BY DEF CiInv, ProtoInv
<1>. QED
  BY <1>1, CiInvariant, PTL

\* A green coverage stage has earned its threshold, for every threshold and coverage:
\* the rounding gives away at most half of a tenth of a percent.
THEOREM CoverageAlwaysEarned == Spec => []CoverageIsEarned
<1>1. CiInv => CoverageIsEarned
  BY DEF CiInv, CoverageInv
<1>. QED
  BY <1>1, CiInvariant, PTL

\* No image is built from a vendor image in which something is missing, whatever the
\* modules need and whichever copies were lost.
THEOREM MissingAlwaysStops == Spec => []MissingStopsBuild
<1>1. CiInv => MissingStopsBuild
  BY DEF CiInv, ImageInv
<1>. QED
  BY <1>1, CiInvariant, PTL

\* A green make ci stands for tests that pass and a module that was loaded.
THEOREM GreenIsEarned == Spec => []CiGreen
<1>1. ASSUME CiInv, job = "ci", iexit = 0
      PROVE  tests = "passed" /\ smoked \in Modules /\ Closure({smoked}) \subseteq rootfs
  <2>1. cexit = 0
    BY <1>1 DEF CiInv, OrderInv
  <2>2. tests = "passed"
    BY <1>1, <2>1, Zenon DEF CiInv, CoverageInv, CoverageIsEarned
  <2>. QED
    BY <1>1, <2>2 DEF CiInv, ImageInv
<1>2. CiInv => CiGreen
  BY <1>1, Zenon DEF CiGreen
<1>. QED
  BY <1>2, CiInvariant, PTL

\* A cleanup that was left alone leaves the network and the container of the step that
\* the script gave up at, and nothing else.
THEOREM ScriptLeavesInterrupted == Spec => []LeavesOnlyInterrupted
<1>1. ASSUME ScriptInv, CleanedUp
      PROVE  left \subseteq {"network", ended} /\ (left # {} => ended \in Interrupted)
  <2>1. "directory" \notin left
    BY <1>1 DEF ScriptInv, CleanedUp
  <2>2. "server" \in left => ended = "server"
    BY <1>1 DEF ScriptInv, CleanedUp
  <2>3. "network" \in left => ended \in Interrupted
    BY <1>1 DEF ScriptInv, CleanedUp
  <2>4. \A x \in left : x \in {"directory", "network", "server"} \/ (x \in Throwaways /\ x = ended)
    BY <1>1 DEF ScriptInv, Containers
  <2>. QED
    BY <2>1, <2>2, <2>3, <2>4 DEF Interrupted, Containers
<1>2. CiInv => LeavesOnlyInterrupted
  BY <1>1 DEF CiInv, LeavesOnlyInterrupted, Interrupted
<1>. QED
  BY <1>2, CiInvariant, PTL

\* Its exit code is that of the steps, whatever the commands of the cleanup do, or that of
\* the signal that ended the cleanup.
THEOREM ScriptReportsSteps == Spec => []StepDecides
<1>1. CiInv => StepDecides
  BY DEF CiInv, ScriptInv
<1>. QED
  BY <1>1, CiInvariant, PTL
====
