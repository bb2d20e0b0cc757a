---- MODULE ProtoCheck ----
(***************************************************************************)
(* make proto-check (Makefile:177-189): the generated code is copied away, *)
(* generated again in place, compared with the copy and, if it differs,    *)
(* put back.  One shell runs the recipe, without set -e: a command that    *)
(* fails does not stop the ones behind it.  The check is run again and     *)
(* again on the same tree, and may be killed between two commands.         *)
(***************************************************************************)
EXTENDS Naturals

CONSTANT MaxChecks   \* bound on the runs of the check

\* What a copy of internal/gen holds: the files that buf writes, compared with what
\* spec/proto asks for, and perhaps a file whose .proto was removed or renamed.
Tree(written, orphan) == [written |-> written, orphan |-> orphan]
Gone == Tree("gone", FALSE)
Trees == [written : {"current", "drifted", "mixed"}, orphan : BOOLEAN] \union {Gone}

VARIABLES
  gpc,       \* the next command
  gen,       \* internal/gen
  snapshot,  \* the copy in the temporary directory
  before,    \* internal/gen as the run found it
  broken,    \* the commands of this run that have failed
  verdict,   \* how the last run ended
  checks

protoVars == <<gpc, gen, snapshot, before, broken, verdict, checks>>

ProtoInit ==
  /\ gpc = "idle" /\ gen \in {t \in Trees : t.written \in {"current", "drifted"}}
  /\ snapshot = Gone /\ before = gen
  /\ broken = {} /\ verdict = "none" /\ checks = 0

----
\* Slips that the properties have to notice; no specification uses them.

\* internal/gen is compared with itself; what was found is not put back.
DiffWithItself(a, b) == a # Gone
LeaveRegenerated == gen

----
\* mktemp and cp -a: what is not there cannot be copied, and a full disk stops the copy.
Snapshot ==
  /\ gpc = "idle" /\ checks < MaxChecks /\ checks' = checks + 1
  /\ before' = gen /\ gpc' = "generate" /\ verdict' = "none" /\ UNCHANGED gen
  /\ \/ gen # Gone /\ snapshot' = gen /\ broken' = {}
     \/ snapshot' = Gone /\ broken' = {"copy"}

\* make proto-gen: buf either writes what the specification asks for, or fails having
\* written nothing, or one of the two files (the result is not looked at).  Without
\* `clean` in buf.gen.yaml it removes nothing: the file of a removed .proto stays.
Generate ==
  /\ gpc = "generate" /\ gpc' = "compare"
  /\ \/ gen' = Tree("current", gen.orphan) /\ UNCHANGED broken
     \/ /\ broken' = broken \union {"generate"}
        /\ gen' \in {gen, Tree(IF gen.written = "current" THEN "current" ELSE "mixed", gen.orphan)}
  /\ UNCHANGED <<snapshot, before, verdict, checks>>

\* diff -r fails also on a directory that is not there.
Same(a, b) == a = b /\ a # Gone
Compare ==
  /\ gpc = "compare"
  /\ IF Same(gen, snapshot) THEN gpc' = "idle" /\ verdict' = "green"
                            ELSE gpc' = "remove" /\ UNCHANGED verdict
  /\ UNCHANGED <<gen, snapshot, before, broken, checks>>

\* rm -rf internal/gen
Remove ==
  /\ gpc = "remove" /\ gpc' = "restore" /\ gen' = Gone
  /\ UNCHANGED <<snapshot, before, broken, verdict, checks>>

\* cp -a back and rm -rf of the copy, which is gone even if it could not be put back.
PutBack == snapshot
Restore ==
  /\ gpc = "restore" /\ gpc' = "idle" /\ verdict' = "red" /\ snapshot' = Gone
  /\ \/ gen' = PutBack /\ UNCHANGED broken
     \/ gen' = gen /\ broken' = broken \union {"copy"}
  /\ UNCHANGED <<before, checks>>

\* The run is killed and leaves the tree, and the copy, as they are.
Kill ==
  /\ gpc # "idle" /\ gpc' = "idle" /\ verdict' = "killed"
  /\ UNCHANGED <<gen, snapshot, before, broken, checks>>

ProtoNext == Snapshot \/ Generate \/ Compare \/ Remove \/ Restore \/ Kill

----
\* A run that is not killed and can copy leaves internal/gen as it found it, whatever
\* the generator has done to it (Makefile:183-186).
CheckLeavesTree ==
  verdict \in {"green", "red"} /\ "copy" \notin broken => gen = before

\* Where the commands work, the verdict is right about every file that buf writes, in
\* the tree the run has found: green if all of them match spec/proto, red if one does not,
\* whatever else lies beside them (Makefile:180-188).
VerdictIsRight ==
  broken = {} => /\ verdict = "green" => before.written = "current"
                 /\ verdict = "red" => before.written # "current"

\* The check fails when the checked-in code has drifted (Makefile:177).
GreenMeansCurrent == verdict = "green" => gen.written = "current"
====
