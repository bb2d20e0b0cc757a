---- MODULE Ci ----
(***************************************************************************)
(* The gates around the code: make proto-check, the coverage stage and the *)
(* image gates of make ci, one after the other as make runs them, and the  *)
(* end-to-end run of the HKDF spike.                                       *)
(***************************************************************************)
EXTENDS ProtoCheck, CoverageStage, ImageGates, SpikeRun

VARIABLE job   \* what was called

vars == <<job, protoVars, coverVars, imageVars, spikeVars>>

Init ==
  /\ job \in {"proto-check", "ci", "spike"}
  /\ ProtoInit /\ CoverInit /\ ImageInit /\ SpikeInit

\* make stops at the first target that fails.
CoverageTarget == job = "ci" /\ CoverNext /\ UNCHANGED <<job, protoVars, imageVars, spikeVars>>
ImageTargets ==
  job = "ci" /\ cexit = 0 /\ ImageNext /\ UNCHANGED <<job, protoVars, coverVars, spikeVars>>
ProtoTarget ==
  job = "proto-check" /\ ProtoNext /\ UNCHANGED <<job, coverVars, imageVars, spikeVars>>
SpikeScript == job = "spike" /\ SpikeNext /\ UNCHANGED <<job, protoVars, coverVars, imageVars>>

Next == CoverageTarget \/ ImageTargets \/ ProtoTarget \/ SpikeScript

Spec == Init /\ [][Next]_vars

----
\* make ci is green only with tests that pass, and with an image in which the module that
\* it was told to load finds all it needs, directly or not (Makefile:120-124, 201-202;
\* main.go:36-67 of the smoke test).
CiGreen ==
  job = "ci" /\ iexit = 0 =>
    tests = "passed" /\ smoked \in Modules /\ Closure({smoked}) \subseteq rootfs
====
