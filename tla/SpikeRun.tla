---- MODULE SpikeRun ----
(***************************************************************************)
(* scripts/spike-hkdf-bouncyhsm.sh: the end-to-end run of the HKDF spike   *)
(* in containers of its own.  Every step may fail, a container may end at  *)
(* any moment, and a signal may end the script; from line 38 on the trap   *)
(* then stops the server, removes the network and the copied library, and  *)
(* exits with the code of the step.  A second signal ends the trap too.    *)
(***************************************************************************)
EXTENDS Naturals, Sequences

VARIABLES
  spc,     \* the next step, or the next command of the cleanup
  left,    \* what of the script's own is there: directory, network, containers
  orphan,  \* the step whose docker command goes on behind the script's back
  ended,   \* the step at which the script gave up
  wrong,   \* the exit code that step left, 0 if none has failed
  ran,     \* the steps that have succeeded
  stuck,   \* commands of the cleanup that have failed although they could have worked
  cut,     \* a signal has ended the cleanup itself
  sexit    \* exit code of the script, 99 as long as it runs

spikeVars == <<spc, left, orphan, ended, wrong, ran, stuck, cut, sexit>>

SpikeInit ==
  /\ spc = "mktemp" /\ left = {} /\ orphan = "none" /\ ended = "none" /\ wrong = 0
  /\ ran = {} /\ stuck = {} /\ cut = FALSE /\ sexit = 99

Steps == <<"build", "network", "server", "ready", "library", "init", "test">>
StepNames == {Steps[i] : i \in 1 .. Len(Steps)}
Codes == {1, 125}          \* of a command, and of docker itself
SignalCodes == {130, 143}  \* SIGINT, SIGTERM

\* The steps 4, 6 and 7 run in a container of their own, which is known by its step.
Throwaways == {"ready", "init", "test"}
Containers == {"server"} \union Throwaways

----
\* Slips that the properties have to notice; no specification uses them.

\* The network is removed before the server; the cleanup ends with its own status.
CleanupNetworkFirst == <<"rmNetwork", "stop", "rmDirectory">>
ExitOfCleanup == 0

----
Cleanup == <<"stop", "rmNetwork", "rmDirectory">>

Behind(order, s) == LET i == CHOOSE i \in 1 .. Len(order) : order[i] = s
                   IN  IF i = Len(order) THEN "none" ELSE order[i + 1]

\* mktemp; the trap is set behind it (a signal between the two is left out).
MakeDirectory ==
  /\ spc = "mktemp"
  /\ \/ spc' = "build" /\ left' = {"directory"} /\ UNCHANGED <<wrong, sexit>>
     \/ spc' = "done" /\ wrong' = 1 /\ sexit' = 1 /\ UNCHANGED left
  /\ UNCHANGED <<orphan, ended, ran, stuck, cut>>

\* What the docker command of a step brings up.
Made(s) == IF s \in {"network"} \union Containers THEN {s} ELSE {}

\* A step succeeds: what it needs is there, and its own container has ended (--rm).
Asks == {"ready", "library", "init", "test"}
StepSucceeds ==
  /\ spc \in StepNames
  /\ spc \in Asks => "server" \in left
  /\ left' = left \union (Made(spc) \ Throwaways) /\ ran' = ran \union {spc}
  /\ spc' = IF Behind(Steps, spc) = "none" THEN Cleanup[1] ELSE Behind(Steps, spc)
  /\ UNCHANGED <<orphan, ended, wrong, stuck, cut, sexit>>

\* The script gives up; what docker was asked for may be there all the same.
GiveUp(codes) ==
  /\ wrong' \in codes /\ ended' = spc /\ spc' = Cleanup[1]
  /\ UNCHANGED <<ran, stuck, cut, sexit>>
StepFails ==
  /\ spc \in StepNames /\ GiveUp(IF spc = "ready" THEN {1} ELSE Codes)
  /\ left' \in {left, left \union Made(spc)} /\ UNCHANGED orphan

\* SIGINT or SIGTERM: bash runs the EXIT trap at once.  The container of the step goes
\* on, and a docker command that has not got as far may go on to bring it up later.
Signal ==
  /\ spc \in StepNames /\ GiveUp(SignalCodes)
  /\ \/ UNCHANGED <<left, orphan>>
     \/ left' = left \union Made(spc) /\ UNCHANGED orphan
     \/ Made(spc) # {} /\ orphan' = spc /\ UNCHANGED left

\* A container is not started without its network.
OrphanMakes ==
  /\ orphan # "none" /\ (orphan \in Containers => "network" \in left)
  /\ left' = left \union Made(orphan) /\ orphan' = "none"
  /\ UNCHANGED <<spc, ended, wrong, ran, stuck, cut, sexit>>

\* A container ends by itself; --rm removes it.
ContainerEnds ==
  /\ \E c \in Containers \intersect left : left' = left \ {c}
  /\ UNCHANGED <<spc, orphan, ended, wrong, ran, stuck, cut, sexit>>

\* The commands of the cleanup, each with its result ignored.  docker does not remove a
\* network that a container is attached to.
Target(c) == IF c = "stop" THEN "server" ELSE IF c = "rmNetwork" THEN "network" ELSE "directory"
InUse == Containers \intersect left # {}
CleanupStep ==
  /\ \E i \in 1 .. Len(Cleanup) : spc = Cleanup[i]
  /\ \/ /\ spc = "rmNetwork" => ~InUse
        /\ left' = left \ {Target(spc)} /\ UNCHANGED stuck
     \/ spc = "rmNetwork" /\ InUse /\ UNCHANGED <<left, stuck>>
     \/ UNCHANGED left /\ stuck' = stuck \union {spc}
  /\ spc' = IF Behind(Cleanup, spc) = "none" THEN "exit" ELSE Behind(Cleanup, spc)
  /\ UNCHANGED <<orphan, ended, wrong, ran, cut, sexit>>

\* A signal in the trap ends the script with its code; the commands behind are not run.
SignalInCleanup ==
  /\ spc = "exit" \/ \E i \in 1 .. Len(Cleanup) : spc = Cleanup[i]
  /\ spc' = "done" /\ cut' = TRUE /\ sexit' \in SignalCodes
  /\ UNCHANGED <<left, orphan, ended, wrong, ran, stuck>>

\* exit ${rc}, or the signal that bash takes up again behind the trap.
StatusKept == wrong
ExitScript ==
  /\ spc = "exit" /\ spc' = "done" /\ sexit' = StatusKept
  /\ UNCHANGED <<left, orphan, ended, wrong, ran, stuck, cut>>

SpikeNext ==
  \/ MakeDirectory \/ StepSucceeds \/ StepFails \/ Signal \/ OrphanMakes \/ ContainerEnds
  \/ CleanupStep \/ SignalInCleanup \/ ExitScript

----
\* The cleanup ran to its end and none of its commands failed for a reason of its own.
CleanedUp == spc = "done" /\ stuck = {} /\ ~cut

\* Such a cleanup leaves nothing but the network and what the docker command of the step
\* it interrupted has brought up; behind a step that has no container and no network of
\* its own it leaves nothing (lines 28-38).
LeavesOnlyInterrupted ==
  CleanedUp => left \subseteq {"network", ended} /\ (left # {} => ended \in {"network"} \union Containers)

\* The script keeps the code of the step that failed through all the commands of the
\* cleanup, or ends with that of the signal that cut it short: it is 0 exactly when every
\* step, the test among them, has succeeded and the cleanup was left alone (lines 22, 29, 36).
StepDecides == spc = "done" => (sexit = 0 <=> ran = StepNames /\ ~cut)
====
