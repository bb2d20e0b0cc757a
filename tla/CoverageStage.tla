---- MODULE CoverageStage ----
(***************************************************************************)
(* The coverage stage of the Dockerfile (lines 113-129) with               *)
(* scripts/coverage-gate.sh.  The commands form one chain of && under      *)
(* bash -eo pipefail, so that -e stops nothing inside it, and the branch   *)
(* that runs the tests ends with an export, which always succeeds.         *)
(***************************************************************************)
EXTENDS Naturals

CONSTANTS
  Threshold,  \* COVERAGE_THRESHOLD, in tenths of a percent
  Coverages   \* the coverages a test run may reach, in hundredths of a percent

ASSUME CoverageAssumption == Threshold \in 0 .. 1000 /\ \A c \in Coverages : c \in 0 .. 10000

VARIABLES
  cpc,      \* the next command
  packages, \* what lies below ./internal
  tests,    \* the result of go test
  covered,  \* the coverage it has reached
  func,     \* coverage-func.txt
  cexit     \* exit code of the stage, 99 as long as it runs

coverVars == <<cpc, packages, tests, covered, func, cexit>>

File(state, shown) == [state |-> state, shown |-> shown]
NoFile == File("absent", 0)

CoverInit ==
  /\ cpc = "list" /\ packages \in {"none", "generated", "productive"}
  /\ tests = "none" /\ covered = 0 /\ func = NoFile /\ cexit = 99

----
\* Slips that the properties have to notice; no specification uses them.

\* go test and go tool cover are separated by a semicolon.
CoverAnyway(result) == "cover"

----
\* go list | grep -v | tr | sed: grep fails when no line is left, and pipefail makes
\* that the end of the chain: the bootstrap branch is never reached.
ListPackages ==
  /\ cpc = "list"
  /\ \/ packages = "productive" /\ cpc' = "test" /\ UNCHANGED cexit
     \/ cpc' = "done" /\ cexit' = 1
  /\ UNCHANGED <<packages, tests, covered, func>>

\* go test writes the profile whether the tests pass or not; after a failure the
\* chain goes on behind the pipeline of go tool cover.
AfterTests(result) == IF result = "passed" THEN "cover" ELSE "gate"
GoTest ==
  /\ cpc = "test"
  /\ \E result \in {"passed", "failed"}, c \in Coverages :
       tests' = result /\ covered' = c /\ cpc' = AfterTests(result)
  /\ UNCHANGED <<packages, func, cexit>>

\* go tool cover | tee: the total is printed with one decimal, at the end.
GoCover ==
  /\ cpc = "cover" /\ cpc' = "gate"
  /\ \/ func' = File("total", (covered + 5) \div 10)
     \/ func' \in {File("empty", 0), File("noTotal", 0), File("noNumber", 0)}
  /\ UNCHANGED <<packages, tests, covered, cexit>>

\* coverage-gate.sh with COVERAGE_BOOTSTRAP=0.  A total line without a number ends the
\* script at the grep that looks for one, before the test that was written for it.
Gate(file) ==
  CASE file.state = "total" -> IF file.shown >= Threshold THEN 0 ELSE 1
    [] file.state = "noNumber" -> 1
    [] OTHER -> 2
CoverageGate ==
  /\ cpc = "gate" /\ cpc' = "done" /\ cexit' = Gate(func)
  /\ UNCHANGED <<packages, tests, covered, func>>

CoverNext == ListPackages \/ GoTest \/ GoCover \/ CoverageGate

----
\* The stage is green only if the tests have passed and what they cover of the
\* productive packages reaches the threshold, up to the rounding of go tool cover: no
\* failure is lost behind the semicolon of Dockerfile:126 or an empty file.
CoverageIsEarned ==
  cexit = 0 => packages = "productive" /\ tests = "passed" /\ covered + 5 >= 10 * Threshold
====
