---- MODULE KeysInitProofs ----
(***************************************************************************)
(* Proofs about KeysInit, for any number of runs, interruptions, outages   *)
(* and foreign imports.                                                    *)
(***************************************************************************)
EXTENDS KeysInit, TLAPS

\* As long as no listing has failed, the CI scripts make one token.
TokenInv ==
  script # "dev" /\ outages = 0 =>
    /\ \A t, u \in tokens : t = u
    /\ pc = "initToken" => tokens = {}

\* A key is created only where there is none, and only others import other keys.
KeyInv ==
  /\ \A t \in TokenIds : good[t] <= 1
  /\ pc = "create" => good[slot] = 0
  /\ foreign = 0 => \A t \in TokenIds : other[t] = {}

\* What the run knows of the key it works on, and why it is about to fail.
RunInv ==
  /\ pc = "initPin" => slot \in tokens
  /\ pc \in {"find", "create", "verify", "value", "finally"} => slot \in tokens \ pinless
  /\ pc \in {"list", "initToken", "initPin", "open", "find", "create"} => obj = "none"
  /\ pc \in {"verify", "value"} => obj # "none"
  /\ pc = "value" => obj \in {"good", "odd"}
  /\ obj = "good" => slot \in tokens /\ good[slot] = 1
  /\ obj \in OtherKinds => slot \in tokens /\ obj \in other[slot]
  /\ pc \notin {"exited", "finally"} => code = -1
  /\ pc = "finally" /\ code = -1 => faulted = "yes"
  /\ code \in {1, 2} => faulted = "yes" \/ slot \in pinless \/ obj = "lax"
  /\ script # "dev" /\ code = 0 => obj \in {"good", "odd"} /\ slot \in tokens \ pinless

KInv == TypeOK /\ TokenInv /\ KeyInv /\ RunInv

LEMMA KInitial == Init => KInv
BY KeysAssumption DEF Init, KInv, TypeOK, TokenInv, KeyInv, RunInv, NoToken, Scripts, OtherKinds

LEMMA KInvariant == Spec => []KInv
<1>1. Init => KInv
  BY KInitial
<1>2. KInv /\ [Next]_vars => KInv'
  <2> USE KeysAssumption DEF KInv, TypeOK, TokenInv, KeyInv, RunInv, storeVars, boundVars, NoToken, Scripts, OtherKinds
  <2> SUFFICES ASSUME KInv, [Next]_vars PROVE KInv'
    OBVIOUS
  <2>1. CASE Start
    BY <2>1 DEF Start
  <2>2. CASE ListTokens
    BY <2>2 DEF ListTokens, Listed, Exit, Continue
  <2>3. CASE InitToken
    BY <2>3 DEF InitToken, Exit, Continue
  <2>13. CASE InitPin
    BY <2>13 DEF InitPin, Exit, Continue
  <2>4. CASE OpenToken
    BY <2>4 DEF OpenToken, Exit, Continue
  <2>5. CASE FindKey
    BY <2>5 DEF FindKey, UseFound, Fail, Continue
  <2>6. CASE CreateKey
    BY <2>6 DEF CreateKey, Fail, Continue
  <2>7. CASE VerifyAttributes
    BY <2>7 DEF VerifyAttributes, AttributesRight, Fail, Continue
  <2>8. CASE CheckValue
    BY <2>8 DEF CheckValue, Fail, Continue
  <2>9. CASE Finally
    BY <2>9 DEF Finally, Exit
  <2>10. CASE Interrupt
    BY <2>10 DEF Interrupt, Exit
  <2>11. CASE ForeignImport
    BY <2>11 DEF ForeignImport
  <2>12. CASE UNCHANGED vars
    BY <2>12 DEF vars
  <2>. QED
    BY <2>1, <2>2, <2>3, <2>4, <2>5, <2>6, <2>7, <2>8, <2>9, <2>10, <2>11, <2>12, <2>13 DEF Next
<1>. QED
  BY <1>1, <1>2, PTL DEF Spec

\* The state of the run and of the token stays well-formed: in particular no run is
\* over without an exit code (softhsm.sh:22, 176-180).
THEOREM KeysTypeCorrect == Spec => []TypeOK
BY KInvariant, PTL DEF KInv

\* However often the CI scripts run and are killed, they leave what the spike's lookup
\* asks for, one token and one key of the template (softhsm.sh:38-134).
THEOREM SpikeAlwaysFinds == Spec => []SpikeFinds
<1>1. KInv => SpikeFinds
  BY DEF KInv, TypeOK, TokenInv, KeyInv, RunInv, SpikeFinds, Ready
<1>. QED
  BY <1>1, KInvariant, PTL

\* A run that ends well has logged in to its token and seen a key with the three
\* attributes there, whoever made it (softhsm.sh:110-150).
THEOREM ReadyAlwaysVerified == Spec => []ReadyIsVerified
<1>1. KInv => ReadyIsVerified
  BY DEF KInv, TypeOK, RunInv, OtherKinds, ReadyIsVerified, Ready
<1>. QED
  BY <1>1, KInvariant, PTL

\* No sequence of killed and repeated runs imports a second key (softhsm.sh:112-134).
THEOREM KeyImportedOnce == Spec => []NeverTwice
<1>1. KInv => NeverTwice
  BY DEF KInv, TypeOK, KeyInv, NeverTwice
<1>. QED
  BY <1>1, KInvariant, PTL

\* A token without its user PIN is all that a killed run can leave behind to make later
\* ones fail (softhsm.sh:36-53, 110-134).
THEOREM OnlyPinlessEverBlocks == Spec => []OnlyPinlessBlocks
<1>1. KInv => OnlyPinlessBlocks
  BY DEF KInv, TypeOK, RunInv, OnlyPinlessBlocks
<1>. QED
  BY <1>1, KInvariant, PTL
====
