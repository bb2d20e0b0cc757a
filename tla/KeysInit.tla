---- MODULE KeysInit ----
(***************************************************************************)
(* The scripts that prepare a token: ci/keys-init/softhsm.sh, its twin for *)
(* the network HSM ci/keys-init/bouncyhsm.sh, and dev/softhsm/init.sh,     *)
(* which makes a token alone.  A script is run again and again, one run    *)
(* after the other; a run may be killed between two of its steps, a tool   *)
(* may fail, and the answer to a request that was carried out may be lost. *)
(***************************************************************************)
EXTENDS Integers, FiniteSets

CONSTANTS
  TokenIds,    \* the tokens that can come into being under our label
  LabelWidth,  \* the length of our label: softhsm2-util pads it to 32 columns
  MaxRuns, MaxOutages, MaxForeign   \* bounds on reruns, failed listings, foreign imports

ASSUME KeysAssumption ==
  /\ LabelWidth \in 1 .. 32 /\ MaxRuns \in Nat /\ MaxOutages \in Nat /\ MaxForeign \in Nat

VARIABLES
  script,   \* the script in use
  tokens,   \* the tokens with our label
  pinless,  \* those of them whose user PIN has not been set
  good,     \* how many keys with our label a token has that were made from the template
  other,    \* the kinds of keys with our label that someone else has put there
  pc,       \* where the run is
  slot,     \* the token the run works on
  obj,      \* the kind of key it looks at
  code,     \* its exit code
  faulted,  \* "yes" when a tool has failed in this run, or it was called without its PINs
  runs, outages, foreign

storeVars == <<tokens, pinless, good, other>>
boundVars == <<runs, outages, foreign>>
vars == <<script, storeVars, pc, slot, obj, code, faulted, boundVars>>

Scripts == {"softhsm", "bouncyhsm", "dev"}
NoToken == 0

\* The three attributes that the scripts look at are right, but the value or another
\* attribute is not that of the template; or one of the three is wrong.
OtherKinds == {"odd", "lax"}

Init ==
  /\ script \in Scripts
  /\ tokens = {} /\ pinless = {}
  /\ good = [t \in TokenIds |-> 0] /\ other = [t \in TokenIds |-> {}]
  /\ pc = "exited" /\ slot = NoToken /\ obj = "none" /\ code = -1 /\ faulted = "no"
  /\ runs = 0 /\ outages = 0 /\ foreign = 0

----
\* Slips that the properties have to notice; no specification uses them.

\* The listing is compared as it is printed, in the CI script too.
ListedPadded == tokens # {} /\ LabelWidth = 32

\* A script that ends without an exit code of its own.
ExitUnset(c, fault) == pc' = "exited" /\ code' = code /\ faulted' = IF fault THEN "yes" ELSE faulted

\* A key is imported whether or not there is one; one that is there is an error;
\* one that is there is not verified.
FindNothing(kinds) == pc' = "create" /\ UNCHANGED <<obj, code, faulted>>
FindRefuses(kinds) ==
  IF kinds = {} THEN pc' = "create" /\ UNCHANGED <<obj, code, faulted>>
                ELSE pc' = "finally" /\ code' = 1 /\ UNCHANGED <<obj, faulted>>
AcceptsAnyKey == TRUE

----
\* The run ends with an exit code, or goes on.
Exit(c, fault) == pc' = "exited" /\ code' = c /\ faulted' = IF fault THEN "yes" ELSE faulted
Continue(next, fault) == pc' = next /\ code' = code /\ faulted' = IF fault THEN "yes" ELSE faulted

\* A run begins; the dev script insists on its PINs.
Start ==
  /\ pc = "exited" /\ runs < MaxRuns
  /\ runs' = runs + 1 /\ obj' = "none" /\ slot' = NoToken
  /\ \/ pc' = "list" /\ code' = -1 /\ faulted' = "no"
     \/ script = "dev" /\ pc' = "exited" /\ code' = 2 /\ faulted' = "yes"
  /\ UNCHANGED <<script, storeVars, outages, foreign>>

\* The listing shows a token with our label: softhsm.sh trims the padding and the
\* REST API has none, the anchored grep of dev/softhsm/init.sh:25 wants none.
Listed == tokens # {} /\ (script = "dev" => LabelWidth = 32)

\* A listing that fails counts as one without our token (softhsm.sh:38, the || true
\* of bouncyhsm.sh:59, dev/softhsm/init.sh:25).
ListTokens ==
  /\ pc = "list"
  /\ \/ /\ Listed /\ UNCHANGED outages
        /\ IF script = "dev" THEN Exit(0, FALSE) ELSE Continue("open", FALSE)
     \/ ~Listed /\ Continue("initToken", FALSE) /\ UNCHANGED outages
     \/ outages < MaxOutages /\ outages' = outages + 1 /\ Continue("initToken", TRUE)
  /\ UNCHANGED <<script, storeVars, slot, obj, runs, foreign>>

\* softhsm2-util --init-token --free, which sets the label and then the user PIN, or
\* POST /Slot, which does both: it may fail, and the REST server may have made the token
\* although its answer is lost.
InitToken ==
  /\ pc = "initToken"
  /\ \/ \E t \in TokenIds \ tokens :
          /\ tokens' = tokens \union {t}
          /\ \/ /\ script = "bouncyhsm" /\ UNCHANGED <<pinless, slot>>
                /\ Continue("open", FALSE) \/ Exit(1, TRUE)
             \/ /\ script # "bouncyhsm" /\ pinless' = pinless \union {t} /\ slot' = t
                /\ Continue("initPin", FALSE)
     \/ Exit(1, TRUE) /\ UNCHANGED <<tokens, pinless, slot>>
  /\ UNCHANGED <<script, good, other, obj, boundVars>>

\* The second half of softhsm2-util --init-token: the session of the SO sets the PIN.
InitPin ==
  /\ pc = "initPin"
  /\ \/ /\ pinless' = pinless \ {slot}
        /\ IF script = "dev" THEN Exit(0, FALSE) ELSE Continue("open", FALSE)
     \/ Exit(1, TRUE) /\ UNCHANGED pinless
  /\ UNCHANGED <<script, tokens, good, other, slot, obj, boundVars>>

\* The PKCS #11 part: a token with our label (strip), a session, the login, which a
\* token without user PIN refuses.
OpenToken ==
  /\ pc = "open"
  /\ \/ \E t \in tokens : slot' = t /\ IF t \in pinless THEN Exit(1, FALSE) ELSE Continue("find", FALSE)
     \/ slot' = slot /\ Exit(1, TRUE)
  /\ UNCHANGED <<script, storeVars, obj, boundVars>>

\* Any failure behind this point goes through finally: logout and closeSession.
Fail == Continue("finally", TRUE) /\ UNCHANGED obj

\* existing[0], if there is one, is looked at; otherwise the key is imported.
UseFound(kinds) ==
  IF kinds = {} THEN pc' = "create" /\ UNCHANGED <<obj, code, faulted>>
                ELSE pc' = "verify" /\ obj' \in kinds /\ UNCHANGED <<code, faulted>>
FindKey ==
  /\ pc = "find"
  /\ \/ UseFound((IF good[slot] > 0 THEN {"good"} ELSE {}) \union other[slot])
     \/ Fail
  /\ UNCHANGED <<script, storeVars, slot, boundVars>>

\* One C_CreateObject with all attributes; over the network its answer may be lost.
CreateKey ==
  /\ pc = "create"
  /\ \/ /\ good' = [good EXCEPT ![slot] = @ + 1]
        /\ \/ obj' = "good" /\ Continue("verify", FALSE)
           \/ script = "bouncyhsm" /\ Fail
     \/ Fail /\ UNCHANGED good
  /\ UNCHANGED <<script, tokens, pinless, other, slot, boundVars>>

\* CKA_SENSITIVE, CKA_EXTRACTABLE and CKA_DERIVE of the key, and nothing else of it.
AttributesRight == obj \in {"good", "odd"}
VerifyAttributes ==
  /\ pc = "verify"
  /\ \/ UNCHANGED obj /\ IF AttributesRight THEN Continue("value", FALSE)
                         ELSE pc' = "finally" /\ code' = 1 /\ UNCHANGED faulted
     \/ Fail
  /\ UNCHANGED <<script, storeVars, slot, boundVars>>

\* CKA_VALUE must be withheld; a value and any other error are the module's fault.
CheckValue ==
  /\ pc = "value"
  /\ \/ pc' = "finally" /\ code' = 0 /\ UNCHANGED <<obj, faulted>>
     \/ Fail
  /\ UNCHANGED <<script, storeVars, slot, boundVars>>

\* finally: logout and closeSession may raise in their turn.
Finally ==
  /\ pc = "finally"
  /\ \/ code = 0 /\ Exit(0, FALSE)
     \/ code # 0 /\ Exit(1, FALSE)
     \/ Exit(1, TRUE)
  /\ UNCHANGED <<script, storeVars, slot, obj, boundVars>>

----
\* The run is killed; what it has made stays.
Interrupt ==
  /\ pc # "exited" /\ Exit(1, TRUE)
  /\ UNCHANGED <<script, storeVars, slot, obj, boundVars>>

\* Someone else imports a key under our label.
ForeignImport ==
  /\ foreign < MaxForeign /\ foreign' = foreign + 1
  /\ \E t \in tokens, k \in OtherKinds : other' = [other EXCEPT ![t] = @ \union {k}]
  /\ UNCHANGED <<script, tokens, pinless, good, pc, slot, obj, code, faulted, runs, outages>>

Next ==
  \/ Start \/ ListTokens \/ InitToken \/ InitPin \/ OpenToken \/ FindKey \/ CreateKey
  \/ VerifyAttributes \/ CheckValue \/ Finally \/ Interrupt \/ ForeignImport

Spec == Init /\ [][Next]_vars

----
\* Every variable stays within the states the scripts can put it in.
TypeOK ==
  /\ script \in Scripts /\ tokens \subseteq TokenIds /\ pinless \subseteq tokens
  /\ good \in [TokenIds -> Nat] /\ other \in [TokenIds -> SUBSET OtherKinds]
  /\ pc \in {"exited", "list", "initToken", "initPin", "open", "find", "create", "verify", "value", "finally"}
  /\ slot \in tokens \union {NoToken} /\ obj \in {"none", "good"} \union OtherKinds
  /\ code \in {-1, 0, 1, 2} /\ (pc = "exited" /\ runs > 0 => code # -1) /\ faulted \in {"no", "yes"}
  /\ runs \in 0 .. MaxRuns /\ outages \in 0 .. MaxOutages /\ foreign \in 0 .. MaxForeign

Ready == pc = "exited" /\ code = 0

\* However often the CI scripts are run, killed and run again, they leave what
\* FindTokenSlot and FindSecretKey ask for: one token with the label, and on it one
\* key with the label, made from the template.  It takes that no listing has failed and
\* that nobody else has imported a key.
SpikeFinds ==
  Ready /\ script # "dev" /\ outages = 0 /\ foreign = 0 =>
    tokens = {slot} /\ slot \notin pinless /\ good[slot] = 1 /\ other[slot] = {}

\* A run that ends well has seen a key whose three attributes are right, on a token that
\* can be logged in to, whoever made them: what the key's value is it has not seen
\* (softhsm.sh:110-150).
ReadyIsVerified ==
  Ready /\ script # "dev" =>
    /\ slot \in tokens \ pinless
    /\ \/ obj = "good" /\ good[slot] > 0
       \/ obj = "odd" /\ "odd" \in other[slot]

\* No sequence of interrupted runs imports a second key into a token
\* (softhsm.sh:112-134).
NeverTwice == \A t \in tokens : good[t] <= 1

\* Of all that earlier runs may have left behind only a token without its user PIN makes
\* a later one fail: when a run fails in which no tool has failed, it has met such a token,
\* or a key of someone else's with a wrong attribute (softhsm.sh:46, 110, 117-119, 147).
OnlyPinlessBlocks ==
  pc = "exited" /\ code > 0 /\ faulted = "no" => slot \in pinless \/ obj = "lax"

\* The dev script finds its token again (dev/softhsm/init.sh:4-5, 25-28).
DevIdempotent == script = "dev" /\ outages = 0 => Cardinality(tokens) <= 1
====
