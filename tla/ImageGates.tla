---- MODULE ImageGates ----
(***************************************************************************)
(* From the PKCS #11 modules of the vendors to a runtime image that can    *)
(* load them: the stages deps-closure and closure-check of the Dockerfile, *)
(* and make smoke-dlopen, which runs cmd/pkcs11-dlopen-smoke in the image. *)
(***************************************************************************)
EXTENDS FiniteSets, Naturals

CONSTANTS
  Libs,     \* the shared objects
  Modules,  \* the vendor modules among them
  Needs,    \* the NEEDED entries of each
  NoModule  \* the empty SMOKE_PKCS11_MODULE

ASSUME ImageAssumption ==
  Modules \subseteq Libs /\ Needs \in [Libs -> SUBSET Libs] /\ NoModule \notin Libs

VARIABLES
  ipc,       \* the next command
  installed, \* what the vendor image holds
  smoked,    \* the module that make smoke-dlopen is to load
  listed,    \* pkcs11-libs.list
  todo,      \* the lines of it that the loop has not read
  rootfs,    \* what has been copied to the runtime image
  dlopen,    \* what dlopen made of the module
  iexit      \* exit code of the last command, 99 as long as nothing has failed

imageVars == <<ipc, installed, smoked, listed, todo, rootfs, dlopen, iexit>>

\* What loading the modules of S takes: the smallest set that is closed under Needs.
Closed == {C \in SUBSET Libs : \A l \in C : Needs[l] \subseteq C}
Closure(S) == {l \in Libs : \A C \in Closed : S \subseteq C => l \in C}

ImageInit ==
  /\ ipc = "list" /\ installed \in SUBSET Libs /\ smoked \in Modules \union {NoModule}
  /\ listed = {} /\ todo = {} /\ rootfs = {} /\ dlopen = "none" /\ iexit = 99

----
\* Slips that the properties have to notice; no specification uses them.

\* The list is not sorted; no module is no failure.
Unsorted(lines) == lines
UsageIgnored(result) == IF result \in {"loaded", "usage"} THEN 0 ELSE 1

----
Stop(code) == ipc' = "done" /\ iexit' = code

\* find for both modules, and lddtree, which names also a library it does not find.  (What
\* that one would need is listed here too; the stage fails in any case.)
ListClosure ==
  /\ ipc = "list"
  /\ \/ /\ Modules \subseteq installed /\ ipc' = "stage" /\ UNCHANGED iexit
        /\ listed' = Closure(Modules) /\ todo' = Closure(Modules)
     \/ Stop(1) /\ UNCHANGED <<listed, todo>>
  /\ UNCHANGED <<installed, smoked, rootfs, dlopen>>

\* sort -u in the locale of the image, which is C: the bare names of libraries that
\* lddtree did not find come behind all the paths.
NextLines(lines) == IF lines \intersect installed = {} THEN lines ELSE lines \intersect installed

\* cp -L of one line.  The loop is not the end of its chain: a copy that fails stops
\* the stage only if it is the last one.
StageLib ==
  /\ ipc = "stage"
  /\ \E l \in NextLines(todo) :
       /\ todo' = todo \ {l}
       /\ \/ /\ l \in installed /\ rootfs' = rootfs \union {l}
             /\ ipc' = IF todo' = {} THEN "check" ELSE "stage"
             /\ UNCHANGED iexit
          \/ /\ UNCHANGED rootfs
             /\ IF todo' = {} THEN Stop(1) ELSE UNCHANGED <<ipc, iexit>>
  /\ UNCHANGED <<installed, smoked, listed, dlopen>>

\* closure-check asks lddtree about every listed object that is in the image; one that is
\* missing is skipped.  The output is searched for "not found", but with --list lddtree
\* prints a library it does not find by its bare name and succeeds: only an lddtree that
\* fails stops the stage.  Without its marker there is no runtime image.
CheckClosure ==
  /\ ipc = "check"
  /\ \/ ipc' = "smoke" /\ UNCHANGED iexit
     \/ Stop(1)
  /\ UNCHANGED <<installed, smoked, listed, todo, rootfs, dlopen>>

\* pkcs11-dlopen-smoke in the image: its argument, dlopen and dlclose.
SmokeExit(result) == IF result = "usage" THEN 2 ELSE IF result = "loaded" THEN 0 ELSE 1
Smoke ==
  /\ ipc = "smoke"
  /\ dlopen' \in IF smoked = NoModule THEN {"usage"}
                 ELSE IF smoked \notin rootfs THEN {"noModule"}
                 ELSE IF ~(Closure({smoked}) \subseteq rootfs) THEN {"noLibrary"}
                 ELSE {"loaded", "refused", "dlcloseFailed"}
  /\ Stop(SmokeExit(dlopen'))
  /\ UNCHANGED <<installed, smoked, listed, todo, rootfs>>

\* The stub of a build without cgo loads nothing.
SmokeStub ==
  /\ ipc = "smoke" /\ dlopen' = "noCgo" /\ Stop(2)
  /\ UNCHANGED <<installed, smoked, listed, todo, rootfs>>

ImageNext == ListClosure \/ StageLib \/ CheckClosure \/ Smoke \/ SmokeStub

----
\* The image is built only if the vendor image has all that its modules need: the bare
\* name of a missing library is the last line of the list, whose copy does stop the stage
\* (Dockerfile:187-198).
MissingStopsBuild == ipc \in {"check", "smoke"} => Closure(Modules) \subseteq installed

\* With the marker of closure-check every vendor module in the image finds all it needs
\* there (Dockerfile:247-248, 279).
MarkedImageLinks == ipc = "smoke" => \A m \in Modules \intersect rootfs : Closure({m}) \subseteq rootfs
====
