---- MODULE HkdfSpike ----
(***************************************************************************)
(* The HKDF spike: one run of TestHKDFEndToEndAgainstHSM (hsm_test.go)     *)
(* with the functions it calls (connect.go, derive.go, sign.go, verify.go) *)
(* against a PKCS #11 module that may fail any call and may break the      *)
(* standard in the ways of Quirks, while someone else imports and deletes  *)
(* master keys on the same token.                                          *)
(*                                                                         *)
(* The module and its Go binding are outside the repository.  A key is     *)
(* known by its material, a tag by the material and the length of the key  *)
(* it was computed with: HKDF and HMAC are taken to be collision free.     *)
(***************************************************************************)
EXTENDS HkdfParams, FiniteSets

CONSTANTS
  Slots,      \* the slots with a token, numbered in the order of C_GetSlotList
  Handles,    \* the handles the token can give to a master key
  MaxChanges  \* how often someone else imports or deletes a master key

ASSUME SpikeAssumption ==
  /\ Slots \subseteq Nat \ {0} /\ IsFiniteSet(Slots) /\ IsFiniteSet(Handles) /\ MaxChanges \in Nat
  /\ \A n \in {0, 2, 16, 24, 592, 4096, 8192} : n \in Uint64   \* the numbers of HeaderParams

VARIABLES
  quirks,     \* how the module deviates from the standard
  label,      \* the trimmed label of each slot's token
  key,        \* the material and slot of each master key with our label
  changes,    \* how often someone else has changed the master keys
  inited,     \* C_Initialize is in force
  open,       \* the module has a session open
  search,     \* that session is in a search
  derived,    \* the derived key in the module
  pc,         \* where the test is
  slot, session, found, master,   \* the test's variables
  cmem,       \* the C buffers allocated and not freed, by their addresses
  block,      \* the mechanism parameter of C_DeriveKey
  tag,        \* hsmTag
  postErr,    \* what the last C_SignInit returned
  verdict,    \* what go test says of the test so far; a failure wins over a skip
  closeErr,   \* firstErr of Close
  calls       \* the calls of the module so far, in order, one entry for each call of the Go
              \* binding: pkcs11-spy logs two where the binding first asks for a length

tokenVars  == <<key, changes>>
moduleVars == <<inited, open, search, derived>>
goVars     == <<slot, session, found, master, cmem, block, tag, postErr, closeErr>>
vars == <<quirks, label, tokenVars, moduleVars, goVars, pc, verdict, calls>>

Quirks == {"noHKDF", "extractable", "revealsValue", "shortKey", "longKey", "keepsDestroyed"}
Materials == {"ikm", "other"}
None == "none"
NoKey == [slot |-> 0, material |-> None]
NoSecret == [material |-> None, len |-> 0]

\* The addresses C.CBytes returns, and the lengths the test passes.
SaltAddr == 4096
InfoAddr == 8192
SaltLen == 16
InfoLen == 24

\* CKA_VALUE_LEN of the derived key: DerivedHeaderKeyLen, or what the module made of it.
KeyLen == CASE "shortKey" \in quirks -> 16 [] "longKey" \in quirks -> 288 [] OTHER -> 32

Init ==
  /\ quirks \in SUBSET Quirks
  /\ label \in [Slots -> {"ours", "foreign"}]
  /\ key = [h \in Handles |-> NoKey] /\ changes = 0
  /\ inited = FALSE /\ open = FALSE /\ search = FALSE /\ derived = NoSecret
  /\ pc = "load" /\ slot = 0 /\ session = 0 /\ found = {} /\ master = None
  /\ cmem = {} /\ block = <<>> /\ tag = NoSecret /\ postErr = None
  /\ verdict = "ok" /\ closeErr = None /\ calls = <<>>

\* t.Errorf, if something is wrong.
Blame(wrong) == verdict' = IF wrong THEN "failed" ELSE verdict

\* t.Fatalf runs the cleanup: Close, which begins with Logout if there is a session.
CleanupPC == IF session # 0 THEN "logout" ELSE "finalize"

\* A step of the test that makes the calls cs, goes to next if all is well and
\* gives up otherwise.
Step(from, cs, ok, next) ==
  /\ pc = from
  /\ calls' = calls \o cs
  /\ pc' = IF ok THEN next ELSE CleanupPC
  /\ Blame(~ok)
  /\ UNCHANGED <<quirks, label, tokenVars>>

\* The parameters DeriveHeaderKeyHSM builds; 592 is CKM_SHA256.
HeaderParams ==
  [Extract |-> TRUE, Expand |-> TRUE, PRFHashMechanism |-> 592, SaltType |-> CKF_HKDF_SALT_DATA,
   SaltLen |-> SaltLen, SaltKeyHandle |-> 0, InfoLen |-> InfoLen]

\* DeriveHeaderKeyHSM up to C_DeriveKey: the buffers, then the parameter block; an
\* early return frees what it has allocated.
DeriveAllocating(buffers) ==
  LET m  == Marshal(HeaderParams, SaltAddr, InfoAddr)
      ok == SaltLen # 0 /\ InfoLen # 0 /\ m.err = "nil"
  IN /\ Step("alloc", <<>>, ok, "derive")
     /\ cmem' = IF ok THEN buffers ELSE {}
     /\ block' = m.buf
     /\ UNCHANGED <<moduleVars, slot, session, found, master, tag, postErr, closeErr>>

----
\* Slips that the properties have to notice; no specification uses them.

\* The salt is freed before the module has read it.
AllocFreesSalt == DeriveAllocating({InfoAddr})

\* FindSecretKey returns the error of C_FindObjects before it ends the search.
FindObjectsReturnsEarly ==
  \E ok \in BOOLEAN :
    /\ Step("find", <<"FindObjects">>, ok, "findFinal")
    /\ found' = IF ok THEN {h \in Handles : key[h].slot = slot} ELSE {}
    /\ UNCHANGED <<moduleVars, slot, session, master, cmem, block, tag, postErr, closeErr>>

\* Close does not report its errors.
DropErr(err, call) == err

\* The tags are not compared.
TagsEqual(t) == TRUE

----
\* LoadModule, or the skip of a machine without a module.
LoadModule ==
  \E outcome \in {"noConfig", "noModule", "initializeFails", "ok"} :
    /\ pc = "load"
    /\ pc' = IF outcome = "ok" THEN "slots" ELSE "done"
    /\ verdict' = CASE outcome = "ok" -> "ok" [] outcome = "noConfig" -> "skipped" [] OTHER -> "failed"
    /\ inited' = (outcome = "ok")
    /\ calls' = IF outcome \in {"noConfig", "noModule"} THEN calls ELSE <<"Initialize">>
    /\ UNCHANGED <<quirks, label, tokenVars, open, search, derived, goVars>>

\* FindTokenSlot: a slot whose C_GetTokenInfo fails is passed over, and the first
\* token with our label is taken; the slots behind it are not asked.
LookupCalls(n) == <<"GetSlotList">> \o [i \in 1 .. n |-> "GetTokenInfo"]
FindTokenSlot ==
  \E listOk \in BOOLEAN, mute \in SUBSET Slots :
    LET ours  == {s \in Slots \ mute : label[s] = "ours"}
        asked == IF ~listOk THEN {} ELSE IF ours = {} THEN Slots ELSE {s \in Slots : s <= slot'}
    IN /\ slot' = IF listOk /\ ours # {} THEN CHOOSE s \in ours : \A t \in ours : s <= t ELSE 0
       /\ Step("slots", LookupCalls(Cardinality(asked)), listOk /\ ours # {}, "mechanisms")
       /\ UNCHANGED <<moduleVars, session, found, master, cmem, block, tag, postErr, closeErr>>

\* HasMechanism: its error is fatal, its no a skip.
HasMechanism ==
  \E ok \in BOOLEAN :
    /\ pc = "mechanisms"
    /\ calls' = Append(calls, "GetMechanismList")
    /\ verdict' = IF ~ok THEN "failed" ELSE IF "noHKDF" \in quirks THEN "skipped" ELSE "ok"
    /\ pc' = IF verdict' = "ok" THEN "openSession" ELSE "finalize"
    /\ UNCHANGED <<quirks, label, tokenVars, moduleVars, goVars>>

\* LoginUser: a failed C_Login closes the session, whose error is dropped.
OpenSession ==
  \E ok \in BOOLEAN :
    /\ Step("openSession", <<"OpenSession">>, ok, "login")
    /\ open' = ok
    /\ UNCHANGED <<inited, search, derived, goVars>>
Login ==
  \E ok, closeOk \in BOOLEAN :
    /\ Step("login", IF ok THEN <<"Login">> ELSE <<"Login", "CloseSession">>, ok, "findInit")
    /\ session' = IF ok THEN 1 ELSE 0
    /\ open' = (ok \/ ~closeOk)
    /\ UNCHANGED <<inited, search, derived, slot, found, master, cmem, block, tag, postErr, closeErr>>

\* FindSecretKey: the search is ended whether or not it has found anything, and
\* exactly one hit is wanted.
FindObjectsInit ==
  \E ok \in BOOLEAN :
    /\ Step("findInit", <<"FindObjectsInit">>, ok, "find")
    /\ search' = ok
    /\ UNCHANGED <<inited, open, derived, goVars>>
FindObjects ==
  \E ok \in BOOLEAN :
    /\ Step("find", <<"FindObjects">>, TRUE, "findFinal")
    /\ found' = IF ok THEN {h \in Handles : key[h].slot = slot} ELSE {None}
    /\ UNCHANGED <<moduleVars, slot, session, master, cmem, block, tag, postErr, closeErr>>
FindObjectsFinal ==
  \E finalOk \in BOOLEAN :
    /\ Step("findFinal", <<"FindObjectsFinal">>,
            finalOk /\ found # {None} /\ Cardinality(found) = 1, "alloc")
    /\ search' = (search /\ ~finalOk)
    /\ master' = IF pc' = "alloc" THEN CHOOSE h \in found : TRUE ELSE None
    /\ UNCHANGED <<inited, open, derived, slot, session, found, cmem, block, tag, postErr, closeErr>>

DeriveAllocates == DeriveAllocating({SaltAddr, InfoAddr})

\* C_DeriveKey, and the deferred frees.  The handle may have lost its key since
\* the search, or stand for another one.
DeriveKey ==
  \E ok \in BOOLEAN :
    /\ Step("derive", <<"DeriveKey">>, ok, "attributes")
    /\ ok => key[master] # NoKey
    /\ derived' = IF ok THEN [material |-> key[master].material, len |-> KeyLen] ELSE NoSecret
    /\ cmem' = {}
    /\ UNCHANGED <<inited, open, search, slot, session, found, master, block, tag, postErr, closeErr>>

\* The attribute check: of CKA_VALUE_LEN the lowest byte is looked at.
CheckAttributes ==
  \E ok \in BOOLEAN :
    /\ pc = "attributes"
    /\ calls' = Append(calls, "GetAttributeValue")
    /\ pc' = IF ok THEN "value" ELSE CleanupPC
    /\ Blame(~ok \/ "extractable" \in quirks \/ derived.len % 256 # 32)
    /\ UNCHANGED <<quirks, label, tokenVars, moduleVars, goVars>>

\* The CKA_VALUE check: an empty value and CKR_ATTRIBUTE_SENSITIVE pass, any other
\* error and a value fail, and the test goes on.
CheckValue ==
  \E res \in {"withheld", "error"} \union (IF "revealsValue" \in quirks THEN {"value"} ELSE {}) :
    /\ "revealsValue" \in quirks => res # "withheld"
    /\ pc = "value" /\ pc' = "signInit"
    /\ calls' = Append(calls, "GetAttributeValue(VALUE)")
    /\ Blame(res # "withheld")
    /\ UNCHANGED <<quirks, label, tokenVars, moduleVars, goVars>>

\* SignHeaderHMAC: C_SignInit, C_Sign and the length of the tag.
SignInit ==
  \E ok \in BOOLEAN :
    /\ Step("signInit", <<"SignInit">>, ok, "sign")
    /\ UNCHANGED <<moduleVars, goVars>>
Sign ==
  \E res \in {"ok", "error", "shortTag"} :
    /\ Step("sign", <<"Sign">>, res = "ok", "compare")
    /\ tag' = IF res = "ok" THEN derived ELSE NoSecret
    /\ UNCHANGED <<moduleVars, slot, session, found, master, cmem, block, postErr, closeErr>>

\* DeriveHeaderKey: the 32 bytes of HKDF over the given key material.
DeriveHeaderKey(ikm) == [material |-> ikm, len |-> 32]
\* ExpectedHeaderMAC: the tag under that key.
ExpectedHeaderMAC(ikm) == DeriveHeaderKey(ikm)
TagMatches(t) == t = ExpectedHeaderMAC("ikm")

Compare ==
  /\ Step("compare", <<>>, TagMatches(tag), "destroy")
  /\ UNCHANGED <<moduleVars, goVars>>

\* C_DestroyObject; a module with the quirk answers CKR_OK and keeps the key.
DestroyObject ==
  \E ok \in BOOLEAN :
    /\ Step("destroy", <<"DestroyObject">>, ok, "post")
    /\ derived' = IF ok /\ "keepsDestroyed" \notin quirks THEN NoSecret ELSE derived
    /\ UNCHANGED <<inited, open, search, goVars>>

\* C_SignInit on the destroyed key must fail; every error is accepted.
PostSignInit ==
  \E res \in {"CKR_OK", "CKR_OBJECT_HANDLE_INVALID", "other"} :
    /\ res = "CKR_OK" => derived # NoSecret
    /\ res = "CKR_OBJECT_HANDLE_INVALID" => derived = NoSecret
    /\ pc = "post" /\ pc' = "logout"
    /\ calls' = Append(calls, "SignInit(destroyed)")
    /\ postErr' = res
    /\ Blame(res = "CKR_OK")
    /\ UNCHANGED <<quirks, label, tokenVars, moduleVars, slot, session, found, master, cmem, block,
                   tag, closeErr>>

----
\* Close: the calls after a failed one are made all the same, and the first error
\* is kept; not being logged in is none.
KeepErr(err, call) == IF err = None THEN call ELSE err

CloseStep(from, call, fails, next) ==
  /\ pc = from /\ pc' = next
  /\ calls' = Append(calls, call)
  /\ closeErr' = IF fails THEN KeepErr(closeErr, call) ELSE closeErr
  /\ Blame(next = "done" /\ closeErr' # None)
  /\ UNCHANGED <<quirks, label, tokenVars, slot, session, found, master, cmem, block, tag, postErr>>

Logout ==
  \E res \in {"ok", "notLoggedIn", "error"} :
    /\ CloseStep("logout", "Logout", res = "error", "closeSession")
    /\ UNCHANGED moduleVars
\* The end of a session ends its search and its session objects: the derived key is
\* one of them (CKA_TOKEN false).
CloseSession ==
  \E ok \in BOOLEAN :
    /\ CloseStep("closeSession", "CloseSession", ~ok, "finalize")
    /\ open' = ~ok /\ search' = (search /\ ~ok)
    /\ derived' = IF ok THEN NoSecret ELSE derived
    /\ UNCHANGED inited
Finalize ==
  \E ok \in BOOLEAN :
    /\ CloseStep("finalize", "Finalize", ~ok, "done")
    /\ inited' = ~ok /\ open' = (open /\ ~ok) /\ search' = (search /\ ~ok)
    /\ derived' = IF ok THEN NoSecret ELSE derived

----
\* Someone else imports a master key under our label, or deletes one.
ChangeKey(h) ==
  /\ pc # "done" /\ changes < MaxChanges
  /\ changes' = changes + 1
  /\ \E s \in Slots, m \in Materials :
       key' = [key EXCEPT ![h] = IF key[h] = NoKey THEN [slot |-> s, material |-> m] ELSE NoKey]
  /\ UNCHANGED <<quirks, label, moduleVars, goVars, pc, verdict, calls>>

TestNext ==
  \/ LoadModule \/ FindTokenSlot \/ HasMechanism \/ OpenSession \/ Login
  \/ FindObjectsInit \/ FindObjects \/ FindObjectsFinal
  \/ DeriveAllocates \/ DeriveKey \/ CheckAttributes \/ CheckValue
  \/ SignInit \/ Sign \/ Compare \/ DestroyObject \/ PostSignInit
  \/ Logout \/ CloseSession \/ Finalize
Next == TestNext \/ \E h \in Handles : ChangeKey(h)

Spec == Init /\ [][Next]_vars

----
Passed == pc = "done" /\ verdict = "ok"

\* The calls of a session, in the order in which a test that passes makes them; before
\* them come C_Initialize and the lookup, behind them the three calls of Close.
SessionCalls ==
  <<"GetMechanismList", "OpenSession", "Login", "FindObjectsInit", "FindObjects", "FindObjectsFinal",
    "DeriveKey", "GetAttributeValue", "GetAttributeValue(VALUE)", "SignInit", "Sign",
    "DestroyObject", "SignInit(destroyed)">>
CallNames ==
  {"Initialize", "GetSlotList", "GetTokenInfo", "GetMechanismList", "OpenSession", "Login",
   "FindObjectsInit", "FindObjects", "FindObjectsFinal", "DeriveKey", "GetAttributeValue",
   "GetAttributeValue(VALUE)", "SignInit", "Sign", "DestroyObject", "SignInit(destroyed)",
   "Logout", "CloseSession", "Finalize"}

\* The block that DeriveHeaderKeyHSM hands to the module.
HeaderBlock == Block(HeaderParams, SaltAddr, InfoAddr)

Places ==
  {"load", "slots", "mechanisms", "openSession", "login", "findInit", "find", "findFinal", "alloc", "derive",
   "attributes", "value", "signInit", "sign", "compare", "destroy", "post", "logout", "closeSession",
   "finalize", "done"}

\* Every variable stays within the states the code can put it in; in particular the key
\* that is derived from is the one hit of the search (connect.go:116-123).
TypeOK ==
  /\ quirks \subseteq Quirks /\ label \in [Slots -> {"ours", "foreign"}]
  /\ key \in [Handles -> [slot : Slots, material : Materials] \union {NoKey}]
  /\ changes \in 0 .. MaxChanges
  /\ inited \in BOOLEAN /\ open \in BOOLEAN /\ search \in BOOLEAN
  /\ derived \in [material : Materials, len : {16, 32, 288}] \union {NoSecret}
  /\ pc \in Places
  /\ slot \in Slots \union {0} /\ session \in {0, 1}
  /\ found = {None} \/ found \subseteq Handles
  /\ master \in Handles \union {None}
  /\ pc \in {"alloc", "derive"} => found = {master} /\ master \in Handles
  /\ cmem \in {{}, {SaltAddr, InfoAddr}} /\ block \in {<<>>, HeaderBlock}
  /\ tag \in [material : Materials, len : {16, 32, 288}] \union {NoSecret}
  /\ postErr \in {None, "CKR_OK", "CKR_OBJECT_HANDLE_INVALID", "other"}
  /\ verdict \in {"ok", "failed", "skipped"}
  /\ closeErr \in {None, "Logout", "CloseSession", "Finalize"}
  /\ calls \in Seq(CallNames)

\* Nothing of the module stays open behind a test that passes or skips: a session,
\* a search, the derived key or C memory left over is always reported
\* (connect.go:28-45, derive.go:24-25, 47-49).
NoSilentLeak ==
  pc = "done" /\ (inited \/ open \/ search \/ derived # NoSecret \/ cmem # {}) => verdict = "failed"

\* While the module computes, the pointer it reads from the salt member of the parameter
\* block leads to the copy of the salt and the one from the info member to that of the
\* info, both still allocated, with their own lengths beside them (derive.go:24-57).
ReadsLiveMemory ==
  pc = "derive" =>
    /\ WordAt(block, offPSalt) = SaltAddr /\ WordAt(block, offPInfo) = InfoAddr
    /\ {SaltAddr, InfoAddr} \subseteq cmem
    /\ WordAt(block, offSaltLen) = SaltLen /\ WordAt(block, offInfoLen) = InfoLen

\* What Close calls behind the first k calls of the session: a session is logged out
\* and closed, one whose login has failed only closed, and the module is finalised.
Closing(k) ==
  CASE k < 3 -> <<"Finalize">>
    [] k = 3 -> <<"CloseSession", "Finalize">>
    [] k > 3 -> <<"Logout", "CloseSession", "Finalize">>

\* Whatever fails, the calls of a run that got beyond C_Initialize are the lookup, a prefix
\* of the calls of the session, and the closing that this prefix makes necessary; a
\* search that has begun is always ended; and a run that passes has made all of them
\* (connect.go:28-124).  Within the session that is the order of trace/README.md:35-80, whose
\* list has no lookup between C_Initialize and C_OpenSession.
CanonicalTrace ==
  pc = "done" =>
    \/ calls \in {<<>>, <<"Initialize">>} /\ ~Passed
    \/ \E n \in 0 .. Cardinality(Slots), k \in 0 .. Len(SessionCalls) :
         /\ calls = ((<<"Initialize">> \o LookupCalls(n)) \o SubSeq(SessionCalls, 1, k)) \o Closing(k)
         /\ k > 0 => SessionCalls[k] # "FindObjects"
         /\ Passed => k = Len(SessionCalls)

\* A test that passes has shown that the module derived from the master key of the
\* fixture, with the length of the template, and keeps the derived key to itself,
\* although keys and handles may change between the search and the derivation and
\* only the lowest byte of the length is compared; and that C_SignInit failed on the
\* destroyed key, with whatever error (hsm_test.go:76-162).
PassMeansConforming ==
  Passed =>
    /\ tag = [material |-> "ikm", len |-> 32]
    /\ quirks \intersect {"noHKDF", "extractable", "revealsValue", "shortKey", "longKey"} = {}
    /\ postErr \in {"CKR_OBJECT_HANDLE_INVALID", "other"}
====
