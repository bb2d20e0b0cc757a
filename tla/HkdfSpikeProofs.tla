---- MODULE HkdfSpikeProofs ----
(***************************************************************************)
(* Proofs about HkdfSpike, for every module that fails calls or deviates   *)
(* in the ways of Quirks and for any number of slots and keys: nothing is  *)
(* left behind silently, the module reads live memory, every variable has  *)
(* its type, a test that passes has shown what it is meant to show, and    *)
(* the log of the calls is the canonical trace.                            *)
(***************************************************************************)
EXTENDS HkdfSpike, HkdfParamsProofs, FiniteSetTheorems, SequenceTheorems, WellFoundedInduction

\* Where the C buffers live, and what is clean at the two ends of the test.
LeakInv ==
  /\ pc # "derive" => cmem = {}
  /\ pc = "derive" => cmem = {SaltAddr, InfoAddr} /\ block = HeaderBlock
  /\ pc \in {"load", "slots", "mechanisms", "openSession"} => ~open /\ ~search /\ derived = NoSecret
  /\ pc = "load" => ~inited
  /\ inited \in BOOLEAN /\ open \in BOOLEAN /\ search \in BOOLEAN
  /\ NoSilentLeak

LEMMA LeakInvariant == Spec => []LeakInv
<1> USE DEF LeakInv, NoSilentLeak, moduleVars, goVars, tokenVars, CleanupPC, Blame
<1>1. Init => LeakInv
  BY DEF Init
<1>2. LeakInv /\ [Next]_vars => LeakInv'
  <2> SUFFICES ASSUME LeakInv, [Next]_vars PROVE LeakInv'
    OBVIOUS
  <2>1. CASE LoadModule
    BY <2>1 DEF LoadModule
  <2>2. CASE FindTokenSlot
    BY <2>2 DEF FindTokenSlot, Step
  <2>3. CASE HasMechanism
    BY <2>3 DEF HasMechanism
  <2>4. CASE OpenSession
    BY <2>4 DEF OpenSession, Step
  <2>5. CASE Login
    BY <2>5 DEF Login, Step
  <2>6. CASE FindObjectsInit
    BY <2>6 DEF FindObjectsInit, Step
  <2>7. CASE FindObjects
    BY <2>7 DEF FindObjects, Step
  <2>8. CASE FindObjectsFinal
    BY <2>8 DEF FindObjectsFinal, Step
  <2>9. CASE DeriveAllocates
    <3> DEFINE m == Marshal(HeaderParams, SaltAddr, InfoAddr)
    <3>1. m.err = "nil" => m.buf = HeaderBlock
      BY DEF Marshal, HeaderBlock
    <3> HIDE DEF m
    <3>. QED
      BY <2>9, <3>1 DEF DeriveAllocates, DeriveAllocating, Step, m
  <2>10. CASE DeriveKey
    BY <2>10 DEF DeriveKey, Step
  <2>11. CASE CheckAttributes
    BY <2>11 DEF CheckAttributes
  <2>12. CASE CheckValue
    BY <2>12 DEF CheckValue
  <2>13. CASE SignInit
    BY <2>13 DEF SignInit, Step
  <2>14. CASE Sign
    BY <2>14 DEF Sign, Step
  <2>15. CASE Compare
    BY <2>15 DEF Compare, Step
  <2>16. CASE DestroyObject
    BY <2>16 DEF DestroyObject, Step
  <2>17. CASE PostSignInit
    BY <2>17 DEF PostSignInit
  <2>18. CASE Logout
    BY <2>18 DEF Logout, CloseStep
  <2>19. CASE CloseSession
    BY <2>19 DEF CloseSession, CloseStep
  <2>20. CASE Finalize
    BY <2>20 DEF Finalize, CloseStep, KeepErr, None
  <2>21. ASSUME NEW h \in Handles, ChangeKey(h) PROVE LeakInv'
    BY <2>21 DEF ChangeKey
  <2>22. CASE UNCHANGED vars
    BY <2>22 DEF vars
  <2>. QED
    BY <2>1, <2>2, <2>3, <2>4, <2>5, <2>6, <2>7, <2>8, <2>9, <2>10, <2>11, <2>12, <2>13, <2>14,
       <2>15, <2>16, <2>17, <2>18, <2>19, <2>20, <2>21, <2>22 DEF Next, TestNext
<1>. QED
  BY <1>1, <1>2, PTL DEF Spec

\* Whatever call fails, nothing of the module and no C memory is left over behind a
\* test that passes or skips.
THEOREM LeaksAreReported == Spec => []NoSilentLeak
<1>1. LeakInv => NoSilentLeak
  BY DEF LeakInv
<1>. QED
  BY <1>1, LeakInvariant, PTL

\* The pointers C_DeriveKey follows lead to the buffers of the caller, and the
\* lengths beside them are theirs: the layout proved of Marshal, used by the call.
THEOREM DeriveReadsLiveMemory == Spec => []ReadsLiveMemory
<1>1. ASSUME LeakInv PROVE ReadsLiveMemory
  <2> SUFFICES ASSUME pc = "derive" PROVE ReadsLiveMemory
    BY DEF ReadsLiveMemory
  <2> DEFINE b == Block(HeaderParams, SaltAddr, InfoAddr)
  <2>1. cmem = {SaltAddr, InfoAddr} /\ block = b
    BY <1>1 DEF LeakInv, HeaderBlock
  <2>2. HeaderParams \in Params /\ SaltAddr \in Uint64 /\ InfoAddr \in Uint64
        /\ HeaderParams.SaltLen = SaltLen /\ HeaderParams.InfoLen = InfoLen
        /\ SaltLen \in Uint64 /\ InfoLen \in Uint64
    BY SpikeAssumption DEF HeaderParams, Params, SaltAddr, InfoAddr, SaltLen, InfoLen,
       CKF_HKDF_SALT_DATA
  <2>3. \A i \in 0 .. 7 :
          /\ b[24 + i] = Digits(SaltAddr)[i + 1] /\ b[32 + i] = Digits(SaltLen)[i + 1]
          /\ b[48 + i] = Digits(InfoAddr)[i + 1] /\ b[56 + i] = Digits(InfoLen)[i + 1]
    <3>1. /\ \A i \in 0 .. 7 :
               /\ b[24 + i] = Digits(SaltAddr)[i + 1] /\ b[32 + i] = Digits(HeaderParams.SaltLen)[i + 1]
               /\ b[48 + i] = Digits(InfoAddr)[i + 1] /\ b[56 + i] = Digits(HeaderParams.InfoLen)[i + 1]
      BY <2>2, BlockBytes
    <3>. QED
      BY <2>2, <3>1
  <2> HIDE DEF b
  <2>4. WordAt(b, 24) = SaltAddr /\ WordAt(b, 48) = InfoAddr
    BY <2>2, <2>3, DigitsReadBack
  <2>5. WordAt(b, 32) = SaltLen /\ WordAt(b, 56) = InfoLen
    BY <2>2, <2>3, DigitsReadBack
  <2>. QED
    BY <2>1, <2>4, <2>5 DEF ReadsLiveMemory, offPSalt, offPInfo, offSaltLen, offInfoLen
<1>. QED
  BY <1>1, LeakInvariant, PTL

----
\* Among the slots with our label one comes first.
LEMMA FirstSlot ==
  ASSUME NEW S, S \subseteq Nat, S # {}
  PROVE  \E s \in S : \A t \in S : s <= t
<1> DEFINE R == OpToRel(<, Nat)
<1>1. \A x, y \in Nat : x < y => <<x, y>> \in R
  BY DEF OpToRel
<1>2. IsWellFoundedOn(R, Nat)
  BY NatLessThanWellFounded
<1> HIDE DEF R
<1>3. PICK s \in S : \A t \in S : ~(<<t, s>> \in R)
  BY <1>2, WFMin
<1>4. ASSUME NEW t \in S PROVE s <= t
  <2>1. s \in Nat /\ t \in Nat
    OBVIOUS
  <2>2. ~(t < s)
    BY <1>1, <1>3, <2>1, Zenon
  <2>. QED
    BY <2>1, <2>2
<1>. QED
  BY <1>4

\* The types, with what makes the CHOOSEs of the test pick something: the handle it
\* derives from is one of the token.  LeakInv says the rest.
TypeInv ==
  /\ quirks \subseteq Quirks /\ label \in [Slots -> {"ours", "foreign"}]
  /\ key \in [Handles -> [slot : Slots, material : Materials] \union {NoKey}]
  /\ changes \in 0 .. MaxChanges
  /\ derived \in [material : Materials, len : {16, 32, 288}] \union {NoSecret}
  /\ pc \in Places /\ slot \in Slots \union {0} /\ session \in {0, 1}
  /\ found = {None} \/ found \subseteq Handles
  /\ master \in Handles \union {None}
  /\ pc \in {"alloc", "derive"} => found = {master} /\ master \in Handles
  /\ block \in {<<>>, HeaderBlock}
  /\ postErr \in {None, "CKR_OK", "CKR_OBJECT_HANDLE_INVALID", "other"}
  /\ closeErr \in {None, "Logout", "CloseSession", "Finalize"}
  /\ tag \in [material : Materials, len : {16, 32, 288}] \union {NoSecret}
  /\ verdict \in {"ok", "failed", "skipped"}

LEMMA TypeInvariant == Spec => []TypeInv
<1> USE DEF TypeInv, Places, moduleVars, goVars, tokenVars, CleanupPC, Blame
<1>1. Init => TypeInv
  BY SpikeAssumption DEF Init
<1>2. TypeInv /\ [Next]_vars => TypeInv'
  <2> SUFFICES ASSUME TypeInv, [Next]_vars PROVE TypeInv'
    OBVIOUS
  <2>1. CASE LoadModule
    BY <2>1 DEF LoadModule
  <2>2. CASE FindTokenSlot
    <3>1. PICK listOk \in BOOLEAN, mute \in SUBSET Slots :
            LET ours  == {s \in Slots \ mute : label[s] = "ours"}
                asked == IF ~listOk THEN {} ELSE IF ours = {} THEN Slots ELSE {s \in Slots : s <= slot'}
            IN /\ slot' = IF listOk /\ ours # {} THEN CHOOSE s \in ours : \A t \in ours : s <= t ELSE 0
               /\ Step("slots", LookupCalls(Cardinality(asked)), listOk /\ ours # {}, "mechanisms")
               /\ UNCHANGED <<moduleVars, session, found, master, cmem, block, tag, postErr, closeErr>>
      BY <2>2 DEF FindTokenSlot
    <3> DEFINE ours == {s \in Slots \ mute : label[s] = "ours"}
    <3>2. ours \subseteq Slots
      BY Zenon
    <3>3. Slots \subseteq Nat
      BY SpikeAssumption
    <3>4. ours \subseteq Slots /\ ours \subseteq Nat
      BY <3>2, <3>3, Zenon
    <3>5. ours # {} => (CHOOSE s \in ours : \A t \in ours : s <= t) \in ours
      BY <3>4, FirstSlot
    <3>6. slot' \in Slots \union {0}
      BY <3>1, <3>4, <3>5
    <3>. QED
      BY <3>1, <3>6 DEF Step
  <2>3. CASE HasMechanism
    BY <2>3 DEF HasMechanism
  <2>4. CASE OpenSession
    BY <2>4 DEF OpenSession, Step
  <2>5. CASE Login
    BY <2>5 DEF Login, Step
  <2>6. CASE FindObjectsInit
    BY <2>6 DEF FindObjectsInit, Step
  <2>7. CASE FindObjects
    BY <2>7 DEF FindObjects, Step
  <2>8. CASE FindObjectsFinal
    <3>1. ASSUME found # {None}, Cardinality(found) = 1
          PROVE  \E h \in Handles : found = {h} /\ (CHOOSE x \in found : TRUE) = h
      <4>1. found \subseteq Handles /\ IsFiniteSet(found)
        BY <3>1, SpikeAssumption, FS_Subset
      <4>. QED
        BY <3>1, <4>1, FS_Singleton
    <3>. QED
      BY <2>8, <3>1 DEF FindObjectsFinal, Step
  <2>9. CASE DeriveAllocates
    <3> DEFINE m == Marshal(HeaderParams, SaltAddr, InfoAddr)
    <3>1. m.buf \in {<<>>, HeaderBlock}
      BY DEF Marshal, HeaderBlock
    <3> HIDE DEF m
    <3>. QED
      BY <2>9, <3>1 DEF DeriveAllocates, DeriveAllocating, Step, m
  <2>10. CASE DeriveKey
    <3>1. pc = "derive" /\ key[master] # NoKey => key[master].material \in Materials
      BY DEF NoKey
    <3>2. KeyLen \in {16, 32, 288}
      BY DEF KeyLen
    <3>. QED
      BY <2>10, <3>1, <3>2 DEF DeriveKey, Step
  <2>11. CASE CheckAttributes
    BY <2>11 DEF CheckAttributes
  <2>12. CASE CheckValue
    BY <2>12 DEF CheckValue
  <2>13. CASE SignInit
    BY <2>13 DEF SignInit, Step
  <2>14. CASE Sign
    BY <2>14 DEF Sign, Step
  <2>15. CASE Compare
    BY <2>15 DEF Compare, Step
  <2>16. CASE DestroyObject
    BY <2>16 DEF DestroyObject, Step
  <2>17. CASE PostSignInit
    BY <2>17 DEF PostSignInit
  <2>18. CASE Logout
    BY <2>18 DEF Logout, CloseStep, KeepErr
  <2>19. CASE CloseSession
    BY <2>19 DEF CloseSession, CloseStep, KeepErr
  <2>20. CASE Finalize
    BY <2>20 DEF Finalize, CloseStep, KeepErr
  <2>21. ASSUME NEW h \in Handles, ChangeKey(h) PROVE TypeInv'
    BY <2>21, SpikeAssumption DEF ChangeKey
  <2>22. CASE UNCHANGED vars
    BY <2>22 DEF vars
  <2>. QED
    BY <2>1, <2>2, <2>3, <2>4, <2>5, <2>6, <2>7, <2>8, <2>9, <2>10, <2>11, <2>12, <2>13, <2>14,
       <2>15, <2>16, <2>17, <2>18, <2>19, <2>20, <2>21, <2>22 DEF Next, TestNext
<1>. QED
  BY <1>1, <1>2, PTL DEF Spec

----
\* The places of the test before it knows of the mechanism, the attributes, the
\* withheld value and the tag.
BeforeMechanism  == {"load", "slots", "mechanisms"}
BeforeAttributes == {"load", "slots", "mechanisms", "openSession", "login", "findInit", "find", "findFinal",
                     "alloc", "derive", "attributes"}
BeforeValue      == {"load", "slots", "mechanisms", "openSession", "login", "findInit", "find", "findFinal",
                     "alloc", "derive", "attributes", "value"}
BeforeTag        == {"load", "slots", "mechanisms", "openSession", "login", "findInit", "find", "findFinal",
                     "alloc", "derive", "attributes", "value", "signInit", "sign", "compare"}

\* The module gives the derived key the length of the template.
TrueLength == "shortKey" \notin quirks /\ "longKey" \notin quirks

\* What a test that has neither failed nor skipped knows of the module, as far as
\* it has come.
KnowledgeInv ==
  /\ verdict # "ok" \/ pc \in BeforeMechanism \/ "noHKDF" \notin quirks
  /\ verdict # "ok" \/ pc \in BeforeAttributes \/ "extractable" \notin quirks
  /\ verdict # "ok" \/ pc \in BeforeValue \/ "revealsValue" \notin quirks
  /\ pc \in {"attributes", "value", "signInit", "sign"} /\ derived.len = 32 => TrueLength
  /\ pc = "compare" /\ tag.len = 32 => TrueLength
  /\ verdict # "ok" \/ pc \in BeforeTag
       \/ (TrueLength /\ TagMatches(tag))
  /\ verdict # "ok" \/ pc \in BeforeTag \union {"destroy", "post"}
       \/ postErr \in {"CKR_OBJECT_HANDLE_INVALID", "other"}

LEMMA KnowledgeInvariant == Spec => []KnowledgeInv
<1> USE DEF KnowledgeInv, BeforeMechanism, BeforeAttributes, BeforeValue, BeforeTag, TrueLength, moduleVars, goVars, tokenVars,
            CleanupPC, Blame
<1>1. Init => KnowledgeInv
  BY DEF Init
<1>2. KnowledgeInv /\ [Next]_vars => KnowledgeInv'
  <2> SUFFICES ASSUME KnowledgeInv, [Next]_vars PROVE KnowledgeInv'
    OBVIOUS
  <2>1. CASE LoadModule
    BY <2>1 DEF LoadModule
  <2>2. CASE FindTokenSlot
    BY <2>2 DEF FindTokenSlot, Step
  <2>3. CASE HasMechanism
    BY <2>3 DEF HasMechanism
  <2>4. CASE OpenSession
    BY <2>4 DEF OpenSession, Step
  <2>5. CASE Login
    BY <2>5 DEF Login, Step
  <2>6. CASE FindObjectsInit
    BY <2>6 DEF FindObjectsInit, Step
  <2>7. CASE FindObjects
    BY <2>7 DEF FindObjects, Step
  <2>8. CASE FindObjectsFinal
    BY <2>8 DEF FindObjectsFinal, Step
  <2>9. CASE DeriveAllocates
    BY <2>9 DEF DeriveAllocates, DeriveAllocating, Step
  <2>10. CASE DeriveKey
    BY <2>10 DEF DeriveKey, Step, KeyLen
  <2>11. CASE CheckAttributes
    BY <2>11 DEF CheckAttributes
  <2>12. CASE CheckValue
    BY <2>12 DEF CheckValue
  <2>13. CASE SignInit
    BY <2>13 DEF SignInit, Step
  <2>14. CASE Sign
    BY <2>14 DEF Sign, Step, NoSecret
  <2>15. CASE Compare
    BY <2>15 DEF Compare, Step, TagMatches, ExpectedHeaderMAC, DeriveHeaderKey
  <2>16. CASE DestroyObject
    BY <2>16 DEF DestroyObject, Step
  <2>17. CASE PostSignInit
    BY <2>17 DEF PostSignInit
  <2>18. CASE Logout
    BY <2>18 DEF Logout, CloseStep
  <2>19. CASE CloseSession
    BY <2>19 DEF CloseSession, CloseStep
  <2>20. CASE Finalize
    BY <2>20 DEF Finalize, CloseStep
  <2>21. ASSUME NEW h \in Handles, ChangeKey(h) PROVE KnowledgeInv'
    BY <2>21 DEF ChangeKey
  <2>22. CASE UNCHANGED vars
    BY <2>22 DEF vars
  <2>. QED
    BY <2>1, <2>2, <2>3, <2>4, <2>5, <2>6, <2>7, <2>8, <2>9, <2>10, <2>11, <2>12, <2>13, <2>14,
       <2>15, <2>16, <2>17, <2>18, <2>19, <2>20, <2>21, <2>22 DEF Next, TestNext
<1>. QED
  BY <1>1, <1>2, PTL DEF Spec

\* A test that passes has shown a conforming derivation from the fixture's key: the
\* lowest byte of the length alone would not, the tag makes up for it.
THEOREM PassIsEvidence == Spec => []PassMeansConforming
<1>1. ASSUME KnowledgeInv PROVE PassMeansConforming
  <2> SUFFICES ASSUME Passed PROVE PassMeansConforming
    BY DEF PassMeansConforming
  <2>1. /\ tag = [material |-> "ikm", len |-> 32] /\ TrueLength
        /\ "noHKDF" \notin quirks /\ "extractable" \notin quirks /\ "revealsValue" \notin quirks
        /\ postErr \in {"CKR_OBJECT_HANDLE_INVALID", "other"}
    BY <1>1 DEF KnowledgeInv, Passed, TagMatches, ExpectedHeaderMAC, DeriveHeaderKey, BeforeMechanism, BeforeAttributes, BeforeValue, BeforeTag
  <2>. QED
    BY <2>1 DEF PassMeansConforming, TrueLength
<1>. QED
  BY <1>1, KnowledgeInvariant, PTL

----
\* The calls of a run whose lookup has asked n slots, and of whose session it has made k.
Looked(n) == <<"Initialize">> \o LookupCalls(n)
Traced(n, k) == Looked(n) \o SubSeq(SessionCalls, 1, k)

\* How many of these lie behind a test that has come to a call: without a session, and
\* in one.
BeforeLogin == [mechanisms |-> 0, openSession |-> 1, login |-> 2]
InSession ==
  [findInit |-> 3, find |-> 4, findFinal |-> 5, alloc |-> 6, derive |-> 6, attributes |-> 7, value |-> 8,
   signInit |-> 9, sign |-> 10, compare |-> 11, destroy |-> 11, post |-> 12]

\* A test that gives up logs out behind a call that was traced; the search is ended by
\* then, and a test that has not given up has seen the whole trace.
GivesUpAt(k) == k \in 4 .. 13 \ {5} /\ (verdict = "ok" => k = 13)

\* The ends of a test that has no session: it has failed or skips.
NoSessionEnds(n) == {Traced(n, 0), Traced(n, 1), Traced(n, 2), Traced(n, 3) \o <<"CloseSession">>}

TraceAt(n) ==
  /\ pc \in DOMAIN BeforeLogin \union DOMAIN InSession
            \union {"logout", "closeSession", "finalize", "done"}
  /\ pc \in DOMAIN BeforeLogin => calls = Traced(n, BeforeLogin[pc]) /\ session = 0
  /\ pc \in DOMAIN InSession => calls = Traced(n, InSession[pc]) /\ session = 1
  /\ pc = "logout" => \E k \in 4 .. 13 : GivesUpAt(k) /\ calls = Traced(n, k)
  /\ pc = "closeSession" => \E k \in 4 .. 13 : GivesUpAt(k) /\ calls = Traced(n, k) \o <<"Logout">>
  /\ pc = "finalize" =>
       \/ verdict # "ok" /\ calls \in NoSessionEnds(n)
       \/ \E k \in 4 .. 13 : GivesUpAt(k) /\ calls = Traced(n, k) \o <<"Logout", "CloseSession">>
  /\ pc = "done" =>
       \/ verdict # "ok" /\ \E e \in NoSessionEnds(n) : calls = e \o <<"Finalize">>
       \/ \E k \in 4 .. 13 : GivesUpAt(k) /\ calls = Traced(n, k) \o <<"Logout", "CloseSession", "Finalize">>

\* Before the lookup there is C_Initialize, at most.
TraceInv ==
  \/ pc = "load" /\ calls = <<>> /\ session = 0
  \/ pc = "slots" /\ calls = <<"Initialize">> /\ session = 0
  \/ pc = "done" /\ verdict # "ok" /\ calls \in {<<>>, <<"Initialize">>}
  \/ \E n \in 0 .. Cardinality(Slots) : TraceAt(n)

LEMMA SessionIsSeq ==
  SessionCalls \in Seq(CallNames) /\ Len(SessionCalls) = 13 /\ \A i \in 1 .. 13 : SessionCalls[i] \in CallNames
<1>1. SessionCalls \in Seq(CallNames) /\ Len(SessionCalls) = 13
  BY DEF SessionCalls, CallNames
<1>2. \A i \in 1 .. Len(SessionCalls) : SessionCalls[i] \in CallNames
  BY <1>1, ElementOfSeq, Zenon
<1>. QED
  BY <1>1, <1>2

LEMMA SessionNames ==
  /\ SessionCalls[1] = "GetMechanismList" /\ SessionCalls[2] = "OpenSession" /\ SessionCalls[3] = "Login"
  /\ SessionCalls[4] = "FindObjectsInit" /\ SessionCalls[5] = "FindObjects" /\ SessionCalls[6] = "FindObjectsFinal"
  /\ SessionCalls[7] = "DeriveKey" /\ SessionCalls[8] = "GetAttributeValue"
  /\ SessionCalls[9] = "GetAttributeValue(VALUE)" /\ SessionCalls[10] = "SignInit" /\ SessionCalls[11] = "Sign"
  /\ SessionCalls[12] = "DestroyObject" /\ SessionCalls[13] = "SignInit(destroyed)"
BY DEF SessionCalls

LEMMA LookupIsSeq ==
  ASSUME NEW n \in Nat
  PROVE  LookupCalls(n) \in Seq(CallNames) /\ Looked(n) \in Seq(CallNames)
<1> DEFINE asked == [i \in 1 .. n |-> "GetTokenInfo"]
<1>1. asked \in Seq(CallNames)
  <2>1. \A i \in 1 .. n : "GetTokenInfo" \in CallNames
    BY DEF CallNames
  <2>. QED
    BY <2>1, IsASeq
<1>2. <<"GetSlotList">> \in Seq(CallNames) /\ <<"Initialize">> \in Seq(CallNames)
  <2>1. "GetSlotList" \in CallNames /\ "Initialize" \in CallNames
    BY DEF CallNames
  <2>. QED
    BY <2>1
<1>3. LookupCalls(n) \in Seq(CallNames)
  BY <1>1, <1>2, ConcatProperties, Zenon DEF LookupCalls
<1>. QED
  BY <1>2, <1>3, ConcatProperties, Zenon DEF Looked

LEMMA TracedIsSeq ==
  ASSUME NEW n \in Nat, NEW k \in 0 .. 13
  PROVE  SubSeq(SessionCalls, 1, k) \in Seq(CallNames) /\ Traced(n, k) \in Seq(CallNames)
<1>1. \A i \in 1 .. k : SessionCalls[i] \in CallNames
  BY SessionIsSeq
<1>2. SubSeq(SessionCalls, 1, k) \in Seq(CallNames)
  BY <1>1, SubSeqProperties
<1>. QED
  BY <1>2, LookupIsSeq, ConcatProperties, Zenon DEF Traced

\* The next call of the session makes the trace longer by one.
LEMMA TraceGrows ==
  ASSUME NEW n \in Nat, NEW k \in 0 .. 12
  PROVE  /\ Traced(n, k) \in Seq(CallNames) /\ Traced(n, k + 1) \in Seq(CallNames)
         /\ Traced(n, k) \o <<SessionCalls[k + 1]>> = Traced(n, k + 1)
         /\ Append(Traced(n, k), SessionCalls[k + 1]) = Traced(n, k + 1)
         /\ Traced(n, k) \o <<>> = Traced(n, k)
<1>2. k + 1 \in 1 .. Len(SessionCalls) /\ SessionCalls[k + 1] \in CallNames
  BY SessionIsSeq
<1>3. k \in 0 .. 13 /\ k + 1 \in 0 .. 13
  OBVIOUS
<1>4. Traced(n, k) \in Seq(CallNames) /\ Traced(n, k + 1) \in Seq(CallNames) /\ SubSeq(SessionCalls, 1, k) \in Seq(CallNames)
  BY <1>3, TracedIsSeq, Zenon
<1>5. Traced(n, k) \o <<SessionCalls[k + 1]>> = Traced(n, k + 1)
  <2>1. 1 \in 1 .. Len(SessionCalls) /\ k + 1 \in 1 .. Len(SessionCalls)
    BY <1>2
  <2>2. SubSeq(SessionCalls, 1, k + 1) = SubSeq(SessionCalls, 1, (k + 1) - 1) \o <<SessionCalls[k + 1]>>
    BY <2>1, SessionIsSeq, SubSeqRecursiveSecond
  <2>3. SubSeq(SessionCalls, 1, k + 1) = SubSeq(SessionCalls, 1, k) \o <<SessionCalls[k + 1]>>
    BY <2>2
  <2>4. <<SessionCalls[k + 1]>> \in Seq(CallNames)
    BY <1>2
  <2>5. (Looked(n) \o SubSeq(SessionCalls, 1, k)) \o <<SessionCalls[k + 1]>>
          = Looked(n) \o (SubSeq(SessionCalls, 1, k) \o <<SessionCalls[k + 1]>>)
    <3>1. \A a, b, c \in Seq(CallNames) : (a \o b) \o c = a \o (b \o c)
      BY ConcatAssociative
    <3>2. Looked(n) \in Seq(CallNames)
      BY LookupIsSeq
    <3>. QED
      BY <1>4, <2>4, <3>1, <3>2, Zenon
  <2>. QED
    BY <2>3, <2>5, Zenon DEF Traced
<1>6. Append(Traced(n, k), SessionCalls[k + 1]) = Traced(n, k) \o <<SessionCalls[k + 1]>>
  BY <1>2, <1>4, AppendIsConcat, Zenon
<1>7. Traced(n, k) \o <<>> = Traced(n, k)
  BY <1>4, ConcatEmptySeq, Zenon
<1>. QED
  BY <1>4, <1>5, <1>6, <1>7, Zenon

\* A call of Close comes behind what was called before.
LEMMA CloseGrows ==
  ASSUME NEW s \in Seq(CallNames)
  PROVE  /\ Append(s, "Logout") = s \o <<"Logout">>
         /\ Append(s \o <<"Logout">>, "CloseSession") = s \o <<"Logout", "CloseSession">>
         /\ Append(s \o <<"Logout", "CloseSession">>, "Finalize") = s \o <<"Logout", "CloseSession", "Finalize">>
         /\ Append(s, "Finalize") = s \o <<"Finalize">>
         /\ (s \o <<"CloseSession">>) \o <<"Finalize">> = s \o <<"CloseSession", "Finalize">>
         /\ s \o <<"Login", "CloseSession">> = (s \o <<"Login">>) \o <<"CloseSession">>
<1>1. (s \o <<"CloseSession">>) \o <<"Finalize">> = s \o <<"CloseSession", "Finalize">>
  OBVIOUS
<1>2. /\ Append(s, "Logout") = s \o <<"Logout">>
      /\ Append(s \o <<"Logout">>, "CloseSession") = s \o <<"Logout", "CloseSession">>
  OBVIOUS
<1>3. /\ Append(s \o <<"Logout", "CloseSession">>, "Finalize") = s \o <<"Logout", "CloseSession", "Finalize">>
      /\ Append(s, "Finalize") = s \o <<"Finalize">>
  OBVIOUS
<1>4. s \o <<"Login", "CloseSession">> = (s \o <<"Login">>) \o <<"CloseSession">>
  OBVIOUS
<1>. QED
  BY <1>1, <1>2, <1>3, <1>4, Zenon

\* The two tables, entry by entry.
LEMMA TableEntries ==
  /\ DOMAIN BeforeLogin = {"mechanisms", "openSession", "login"}
  /\ BeforeLogin["mechanisms"] = 0 /\ BeforeLogin["openSession"] = 1 /\ BeforeLogin["login"] = 2
  /\ DOMAIN InSession = {"findInit", "find", "findFinal", "alloc", "derive", "attributes", "value", "signInit",
                         "sign", "compare", "destroy", "post"}
  /\ InSession["findInit"] = 3 /\ InSession["find"] = 4 /\ InSession["findFinal"] = 5
  /\ InSession["alloc"] = 6 /\ InSession["derive"] = 6 /\ InSession["attributes"] = 7
  /\ InSession["value"] = 8 /\ InSession["signInit"] = 9 /\ InSession["sign"] = 10
  /\ InSession["compare"] = 11 /\ InSession["destroy"] = 11 /\ InSession["post"] = 12
BY DEF BeforeLogin, InSession

\* The trace up to the login.
LEMMA FirstCalls ==
  ASSUME NEW n \in Nat
  PROVE  /\ Traced(n, 0) = Looked(n)
         /\ Append(Traced(n, 0), "GetMechanismList") = Traced(n, 1)
         /\ Traced(n, 1) \o <<"OpenSession">> = Traced(n, 2) /\ Traced(n, 2) \o <<"Login">> = Traced(n, 3)
         /\ Traced(n, 2) \o <<"Login", "CloseSession">> = Traced(n, 3) \o <<"CloseSession">>
<1>1. Traced(n, 0) = Looked(n)
  <2>1. SubSeq(SessionCalls, 1, 0) = <<>>
    BY SubSeqEmpty
  <2>. QED
    BY <2>1, LookupIsSeq, ConcatEmptySeq, Zenon DEF Traced
<1>2. Append(Traced(n, 0), SessionCalls[0 + 1]) = Traced(n, 0 + 1)
  BY TraceGrows, 0 \in 0 .. 12, Zenon
<1>3. Traced(n, 1) \o <<SessionCalls[1 + 1]>> = Traced(n, 1 + 1)
  BY TraceGrows, 1 \in 0 .. 12, Zenon
<1>4. Traced(n, 2) \o <<SessionCalls[2 + 1]>> = Traced(n, 2 + 1) /\ Traced(n, 2) \in Seq(CallNames)
  BY TraceGrows, 2 \in 0 .. 12, Zenon
<1>5. 0 + 1 = 1 /\ 1 + 1 = 2 /\ 2 + 1 = 3
  OBVIOUS
<1>6. Traced(n, 1) \o <<"OpenSession">> = Traced(n, 2) /\ Traced(n, 2) \o <<"Login">> = Traced(n, 3)
  BY <1>3, <1>4, <1>5, SessionNames
<1>7. Append(Traced(n, 0), "GetMechanismList") = Traced(n, 1)
  BY <1>2, <1>5, SessionNames
<1>8. Traced(n, 2) \o <<"Login", "CloseSession">> = (Traced(n, 2) \o <<"Login">>) \o <<"CloseSession">>
  BY <1>4, CloseGrows, Zenon
<1>. QED
  BY <1>1, <1>6, <1>7, <1>8

\* The lookup asks some of the slots, and no others.
LEMMA LookupAsks ==
  ASSUME FindTokenSlot
  PROVE  \E asked \in SUBSET Slots :
           /\ calls' = calls \o LookupCalls(Cardinality(asked)) /\ session' = session
           /\ pc' = "mechanisms" \/ (pc' = CleanupPC /\ verdict' # "ok")
<1>1. PICK listOk \in BOOLEAN, mute \in SUBSET Slots :
        LET ours  == {s \in Slots \ mute : label[s] = "ours"}
            asked == IF ~listOk THEN {} ELSE IF ours = {} THEN Slots ELSE {s \in Slots : s <= slot'}
        IN /\ slot' = IF listOk /\ ours # {} THEN CHOOSE s \in ours : \A t \in ours : s <= t ELSE 0
           /\ Step("slots", LookupCalls(Cardinality(asked)), listOk /\ ours # {}, "mechanisms")
           /\ UNCHANGED <<moduleVars, session, found, master, cmem, block, tag, postErr, closeErr>>
  BY DEF FindTokenSlot
<1> DEFINE ours  == {s \in Slots \ mute : label[s] = "ours"}
           asked == IF ~listOk THEN {} ELSE IF ours = {} THEN Slots ELSE {s \in Slots : s <= slot'}
<1>2. asked \in SUBSET Slots
  OBVIOUS
<1>3. /\ calls' = calls \o LookupCalls(Cardinality(asked)) /\ session' = session
      /\ pc' = "mechanisms" \/ (pc' = CleanupPC /\ verdict' # "ok")
  BY <1>1 DEF Step, Blame
<1> HIDE DEF asked
<1>. QED
  BY <1>2, <1>3

\* C_Initialize, and the lookup, which asks no more slots than there are.
LEMMA TraceBegins ==
  ASSUME TraceInv, LoadModule \/ FindTokenSlot
  PROVE  TraceInv'
<1> USE DEF CleanupPC, Blame, Step
<1>1. CASE LoadModule
  <2>1. calls = <<>> /\ session = 0
    <3>1. \A n : TraceAt(n) => pc # "load"
      BY TableEntries DEF TraceAt
    <3>. QED
      BY <1>1, <3>1 DEF LoadModule, TraceInv
  <2>2. \/ pc' = "slots" /\ calls' = <<"Initialize">>
        \/ pc' = "done" /\ verdict' # "ok" /\ (calls' = calls \/ calls' = <<"Initialize">>)
    BY <1>1 DEF LoadModule
  <2>3. session' = 0
    BY <1>1, <2>1 DEF LoadModule, goVars
  <2>. QED
    BY <2>1, <2>2, <2>3 DEF TraceInv
<1>2. CASE FindTokenSlot
  <2>1. calls = <<"Initialize">> /\ session = 0
    <3>1. \A n : TraceAt(n) => pc # "slots"
      BY TableEntries DEF TraceAt
    <3>. QED
      BY <1>2, <3>1 DEF FindTokenSlot, TraceInv
  <2>2. PICK asked \in SUBSET Slots :
          /\ calls' = calls \o LookupCalls(Cardinality(asked)) /\ session' = session
          /\ pc' = "mechanisms" \/ (pc' = "finalize" /\ verdict' # "ok")
    BY <1>2, <2>1, LookupAsks DEF FindTokenSlot
  <2>3. Cardinality(asked) \in 0 .. Cardinality(Slots) /\ Cardinality(asked) \in Nat
    <3>1. IsFiniteSet(asked) /\ Cardinality(asked) <= Cardinality(Slots)
      <4>1. IsFiniteSet(Slots) /\ asked \in SUBSET Slots
        BY SpikeAssumption
      <4>. QED
        BY <4>1, FS_Subset, Zenon
    <3>2. Cardinality(asked) \in Nat /\ Cardinality(Slots) \in Nat
      BY <3>1, SpikeAssumption, FS_CardinalityType
    <3>. QED
      BY <3>1, <3>2
  <2>4. calls' = Traced(Cardinality(asked), 0) /\ session' = 0
    BY <2>1, <2>2, <2>3, FirstCalls DEF Looked
  <2> DEFINE n == Cardinality(asked)
  <2> HIDE DEF n
  <2>5. TraceAt(n)'
    <3>1. calls' = Traced(n, 0)
      BY <2>4 DEF n
    <3>2. calls' \in NoSessionEnds(n)
      BY <3>1 DEF NoSessionEnds
    <3>. QED
      BY <2>2, <2>4, <3>1, <3>2, TableEntries DEF TraceAt
  <2>. QED
    BY <2>3, <2>5 DEF TraceInv, n
<1>. QED
  BY <1>1, <1>2

\* Before the login a test has no session, and gives up with the ends of NoSessionEnds.
LEMMA TraceStarts ==
  ASSUME NEW n \in Nat, TraceAt(n), HasMechanism \/ OpenSession \/ Login
  PROVE  TraceAt(n)'
<1> USE DEF CleanupPC, Blame, Step
<1>3. CASE HasMechanism
  <2>1. calls' = Traced(n, 1) /\ session' = 0
    BY <1>3, TableEntries, FirstCalls DEF HasMechanism, goVars, TraceAt
  <2>2. pc' = "openSession" \/ (pc' = "finalize" /\ verdict' # "ok")
    BY <1>3, TableEntries DEF HasMechanism, TraceAt
  <2>. QED
    BY <2>1, <2>2, TableEntries DEF TraceAt, NoSessionEnds
<1>4. CASE OpenSession
  <2>1. calls' = Traced(n, 2) /\ session' = 0
    BY <1>4, TableEntries, FirstCalls DEF OpenSession, goVars, TraceAt
  <2>2. pc' = "login" \/ (pc' = "finalize" /\ verdict' # "ok")
    BY <1>4, TableEntries DEF OpenSession, TraceAt
  <2>. QED
    BY <2>1, <2>2, TableEntries DEF TraceAt, NoSessionEnds
<1>5. CASE Login
  <2>1. calls = Traced(n, 2) /\ session = 0
    BY <1>5, TableEntries DEF Login, TraceAt
  <2>2. \/ pc' = "findInit" /\ calls' = Traced(n, 3) /\ session' = 1
        \/ pc' = "finalize" /\ verdict' # "ok" /\ calls' = Traced(n, 3) \o <<"CloseSession">>
    BY <1>5, <2>1, FirstCalls DEF Login
  <2>. QED
    BY <2>2, TableEntries DEF TraceAt, NoSessionEnds
<1>. QED
  BY <1>3, <1>4, <1>5

\* In the session a step makes the next call of the trace, or none, and goes on or
\* gives up; it does not give up while a search is open.
LEMMA CallTraced ==
  ASSUME NEW n \in Nat, TraceAt(n), NEW from \in DOMAIN InSession, NEW to \in DOMAIN InSession \ {"findInit"},
         pc = from, session' = session,
         \/ InSession[to] = InSession[from] + 1
            /\ (\/ calls' = calls \o <<SessionCalls[InSession[to]]>>
                \/ calls' = Append(calls, SessionCalls[InSession[to]]))
         \/ InSession[to] = InSession[from] /\ calls' = calls \o <<>>,
         pc' = to \/ (pc' = "logout" /\ verdict' # "ok" /\ InSession[to] # 5)
  PROVE  TraceAt(n)'
<1> DEFINE k == InSession[from]
           m == InSession[to]
<1>1. k \in 3 .. 12 /\ k \in 0 .. 12 /\ m \in 4 .. 12
  BY TableEntries
<1>2. calls = Traced(n, k)
  BY DEF TraceAt
<1>3. calls' = Traced(n, m)
  <2>1. Traced(n, k) \o <<SessionCalls[k + 1]>> = Traced(n, k + 1) /\ Append(Traced(n, k), SessionCalls[k + 1]) = Traced(n, k + 1)
        /\ Traced(n, k) \o <<>> = Traced(n, k)
    BY <1>1, TraceGrows, Zenon
  <2>2. \/ m = k + 1 /\ (calls' = calls \o <<SessionCalls[m]>> \/ calls' = Append(calls, SessionCalls[m]))
        \/ m = k /\ calls' = calls \o <<>>
    OBVIOUS
  <2> HIDE DEF k, m
  <2>. QED
    BY <1>2, <2>1, <2>2
<1>4. session' = 1
  BY DEF TraceAt
<1>5. CASE pc' = to
  BY <1>3, <1>4, <1>5, TableEntries DEF TraceAt
<1>6. CASE pc' # to
  <2>1. pc' = "logout" /\ verdict' # "ok" /\ m # 5
    BY <1>6
  <2> HIDE DEF m
  <2>2. m \in 4 .. 13 /\ GivesUpAt(m)'
    BY <1>1, <2>1 DEF GivesUpAt
  <2>. QED
    BY <1>3, <2>1, <2>2, TableEntries DEF TraceAt
<1>. QED
  BY <1>5, <1>6

LEMMA TraceGoesOn ==
  ASSUME NEW n \in Nat, TraceAt(n),
         \/ FindObjectsInit \/ FindObjects \/ FindObjectsFinal \/ DeriveAllocates \/ DeriveKey \/ CheckAttributes
         \/ CheckValue \/ SignInit \/ Sign \/ Compare \/ DestroyObject
  PROVE  TraceAt(n)'
<1> USE DEF CleanupPC, Blame, Step, goVars
<1>0. /\ pc \in DOMAIN InSession => session = 1
      /\ SessionCalls[InSession["find"]] = "FindObjectsInit" /\ SessionCalls[InSession["findFinal"]] = "FindObjects"
      /\ SessionCalls[InSession["alloc"]] = "FindObjectsFinal" /\ SessionCalls[InSession["attributes"]] = "DeriveKey"
      /\ SessionCalls[InSession["value"]] = "GetAttributeValue"
      /\ SessionCalls[InSession["signInit"]] = "GetAttributeValue(VALUE)"
      /\ SessionCalls[InSession["sign"]] = "SignInit" /\ SessionCalls[InSession["compare"]] = "Sign"
      /\ SessionCalls[InSession["post"]] = "DestroyObject"
  BY TableEntries, SessionNames DEF TraceAt
<1>1. CASE FindObjectsInit
  <2>1. /\ pc = "findInit" /\ session' = session /\ calls' = calls \o <<"FindObjectsInit">>
        /\ pc' = "find" \/ (pc' = "logout" /\ verdict' # "ok")
    BY <1>0, <1>1, TableEntries DEF FindObjectsInit
  <2>. QED
    BY <1>0, <2>1, CallTraced, TableEntries
<1>2. CASE FindObjects
  <2>1. pc = "find" /\ session' = session /\ calls' = calls \o <<"FindObjects">> /\ pc' = "findFinal"
    BY <1>2 DEF FindObjects
  <2>. QED
    BY <1>0, <2>1, CallTraced, TableEntries
<1>3. CASE FindObjectsFinal
  <2>1. /\ pc = "findFinal" /\ session' = session /\ calls' = calls \o <<"FindObjectsFinal">>
        /\ pc' = "alloc" \/ (pc' = "logout" /\ verdict' # "ok")
    BY <1>0, <1>3, TableEntries DEF FindObjectsFinal
  <2>. QED
    BY <1>0, <2>1, CallTraced, TableEntries
<1>4. CASE DeriveAllocates
  <2>1. /\ pc = "alloc" /\ session' = session /\ calls' = calls \o <<>>
        /\ pc' = "derive" \/ (pc' = "logout" /\ verdict' # "ok")
    BY <1>0, <1>4, TableEntries DEF DeriveAllocates, DeriveAllocating
  <2>2. /\ "alloc" \in DOMAIN InSession /\ "derive" \in DOMAIN InSession \ {"findInit"}
        /\ InSession["derive"] = InSession["alloc"] /\ InSession["derive"] # 5
    BY TableEntries
  <2>. QED
    BY <1>0, <2>1, <2>2, CallTraced, Zenon
<1>5. CASE DeriveKey
  <2>1. /\ pc = "derive" /\ session' = session /\ calls' = calls \o <<"DeriveKey">>
        /\ pc' = "attributes" \/ (pc' = "logout" /\ verdict' # "ok")
    BY <1>0, <1>5, TableEntries DEF DeriveKey
  <2>. QED
    BY <1>0, <2>1, CallTraced, TableEntries
<1>6. CASE CheckAttributes
  <2>1. /\ pc = "attributes" /\ session' = session /\ calls' = Append(calls, "GetAttributeValue")
        /\ pc' = "value" \/ (pc' = "logout" /\ verdict' # "ok")
    BY <1>0, <1>6, TableEntries DEF CheckAttributes
  <2>2. /\ "attributes" \in DOMAIN InSession /\ "value" \in DOMAIN InSession \ {"findInit"}
        /\ InSession["value"] = InSession["attributes"] + 1 /\ InSession["value"] # 5
    BY TableEntries
  <2>. QED
    BY <1>0, <2>1, <2>2, CallTraced, Zenon
<1>7. CASE CheckValue
  <2>1. /\ pc = "value" /\ session' = session /\ calls' = Append(calls, "GetAttributeValue(VALUE)")
        /\ pc' = "signInit"
    BY <1>7 DEF CheckValue
  <2>2. /\ "value" \in DOMAIN InSession /\ "signInit" \in DOMAIN InSession \ {"findInit"}
        /\ InSession["signInit"] = InSession["value"] + 1 /\ InSession["signInit"] # 5
    BY TableEntries
  <2>. QED
    BY <1>0, <2>1, <2>2, CallTraced, Zenon
<1>8. CASE SignInit
  <2>1. /\ pc = "signInit" /\ session' = session /\ calls' = calls \o <<"SignInit">>
        /\ pc' = "sign" \/ (pc' = "logout" /\ verdict' # "ok")
    BY <1>0, <1>8, TableEntries DEF SignInit
  <2>. QED
    BY <1>0, <2>1, CallTraced, TableEntries
<1>9. CASE Sign
  <2>1. /\ pc = "sign" /\ session' = session /\ calls' = calls \o <<"Sign">>
        /\ pc' = "compare" \/ (pc' = "logout" /\ verdict' # "ok")
    BY <1>0, <1>9, TableEntries DEF Sign
  <2>. QED
    BY <1>0, <2>1, CallTraced, TableEntries
<1>10. CASE Compare
  <2>1. /\ pc = "compare" /\ session' = session /\ calls' = calls \o <<>>
        /\ pc' = "destroy" \/ (pc' = "logout" /\ verdict' # "ok")
    BY <1>0, <1>10, TableEntries DEF Compare
  <2>2. /\ "compare" \in DOMAIN InSession /\ "destroy" \in DOMAIN InSession \ {"findInit"}
        /\ InSession["destroy"] = InSession["compare"] /\ InSession["destroy"] # 5
    BY TableEntries
  <2>. QED
    BY <1>0, <2>1, <2>2, CallTraced, Zenon
<1>11. CASE DestroyObject
  <2>1. /\ pc = "destroy" /\ session' = session /\ calls' = calls \o <<"DestroyObject">>
        /\ pc' = "post" \/ (pc' = "logout" /\ verdict' # "ok")
    BY <1>0, <1>11, TableEntries DEF DestroyObject
  <2>. QED
    BY <1>0, <2>1, CallTraced, TableEntries
<1>. QED
  BY <1>1, <1>2, <1>3, <1>4, <1>5, <1>6, <1>7, <1>8, <1>9, <1>10, <1>11

\* The last call of the test, and Close.
LEMMA TraceEnds ==
  ASSUME NEW n \in Nat, TraceAt(n), PostSignInit \/ Logout \/ CloseSession \/ Finalize
  PROVE  TraceAt(n)'
<1> USE DEF CloseStep
<1>0. \A k \in 0 .. 13 : Traced(n, k) \in Seq(CallNames)
  BY TracedIsSeq
<1>5. \A k \in 4 .. 13 : Traced(n, k) \in Seq(CallNames)
  BY TracedIsSeq, \A k \in 4 .. 13 : k \in 0 .. 13
<1>1. CASE PostSignInit
  <2>1. calls = Traced(n, 12) /\ pc' = "logout" /\ calls' = Append(calls, "SignInit(destroyed)")
    BY <1>1, TableEntries DEF PostSignInit, TraceAt
  <2>2. Append(Traced(n, 12), SessionCalls[12 + 1]) = Traced(n, 12 + 1) /\ 12 + 1 = 13
    BY TraceGrows, 12 \in 0 .. 12
  <2>3. calls' = Traced(n, 13) /\ 13 \in 4 .. 13 /\ GivesUpAt(13)'
    BY <2>1, <2>2, SessionNames DEF GivesUpAt
  <2>. QED
    BY <2>1, <2>3, TableEntries DEF TraceAt
<1>2. CASE Logout
  <2>1. PICK k \in 4 .. 13 : GivesUpAt(k) /\ calls = Traced(n, k)
    BY <1>2 DEF Logout, TraceAt
  <2>2. pc' = "closeSession" /\ verdict' = verdict /\ calls' = Append(Traced(n, k), "Logout")
    BY <1>2, <2>1 DEF Logout, Blame
  <2>3. calls' = Traced(n, k) \o <<"Logout">> /\ GivesUpAt(k)'
    BY <1>5, <2>1, <2>2, CloseGrows DEF GivesUpAt
  <2>. QED
    BY <2>2, <2>3, TableEntries DEF TraceAt
<1>3. CASE CloseSession
  <2>1. PICK k \in 4 .. 13 : GivesUpAt(k) /\ calls = Traced(n, k) \o <<"Logout">>
    BY <1>3 DEF CloseSession, TraceAt
  <2>2. pc' = "finalize" /\ verdict' = verdict /\ calls' = Append(Traced(n, k) \o <<"Logout">>, "CloseSession")
    BY <1>3, <2>1 DEF CloseSession, Blame
  <2>3. calls' = Traced(n, k) \o <<"Logout", "CloseSession">> /\ GivesUpAt(k)'
    BY <1>5, <2>1, <2>2, CloseGrows DEF GivesUpAt
  <2>. QED
    BY <2>2, <2>3, TableEntries DEF TraceAt
<1>4. CASE Finalize
  <2>1. /\ pc = "finalize" /\ pc' = "done" /\ calls' = Append(calls, "Finalize")
        /\ verdict' = verdict \/ verdict' = "failed"
    BY <1>4 DEF Finalize, Blame
  <2>2. CASE verdict # "ok" /\ calls \in NoSessionEnds(n)
    <3>1. calls \in Seq(CallNames)
      <4>1. \A x \in Seq(CallNames) : x \o <<"CloseSession">> \in Seq(CallNames)
        <5>1. "CloseSession" \in CallNames
          BY DEF CallNames
        <5>. QED
          BY <5>1
      <4>2. /\ Traced(n, 0) \in Seq(CallNames) /\ Traced(n, 1) \in Seq(CallNames)
            /\ Traced(n, 2) \in Seq(CallNames) /\ Traced(n, 3) \in Seq(CallNames)
        BY <1>0
      <4>3. Traced(n, 3) \o <<"CloseSession">> \in Seq(CallNames)
        BY <4>1, <4>2, Zenon
      <4>. QED
        BY <2>2, <4>2, <4>3, Zenon DEF NoSessionEnds
    <3>2. calls' = calls \o <<"Finalize">> /\ verdict' # "ok"
      BY <2>1, <2>2, <3>1, CloseGrows
    <3>. QED
      BY <2>1, <2>2, <3>2, TableEntries DEF TraceAt, NoSessionEnds
  <2>3. ASSUME NEW k \in 4 .. 13, GivesUpAt(k), calls = Traced(n, k) \o <<"Logout", "CloseSession">>
        PROVE  TraceAt(n)'
    <3>1. calls' = Traced(n, k) \o <<"Logout", "CloseSession", "Finalize">> /\ GivesUpAt(k)'
      BY <1>5, <2>1, <2>3, CloseGrows DEF GivesUpAt
    <3>. QED
      BY <2>1, <3>1, TableEntries DEF TraceAt
  <2>. QED
    BY <2>1, <2>2, <2>3 DEF TraceAt
<1>. QED
  BY <1>1, <1>2, <1>3, <1>4

LEMMA TraceInvariant == Spec => []TraceInv
<1>1. Init => TraceInv
  BY DEF Init, TraceInv
<1>2. TraceInv /\ [Next]_vars => TraceInv'
  <2> SUFFICES ASSUME TraceInv, [Next]_vars PROVE TraceInv'
    OBVIOUS
  <2>1. CASE (\E h \in Handles : ChangeKey(h)) \/ UNCHANGED vars
    <3>1. UNCHANGED <<pc, calls, verdict, session>>
      BY <2>1 DEF ChangeKey, vars, moduleVars, goVars
    <3>2. ASSUME NEW n, TraceAt(n) PROVE TraceAt(n)'
      BY <3>1, <3>2 DEF TraceAt, GivesUpAt, NoSessionEnds
    <3>. QED
      BY <3>1, <3>2 DEF TraceInv
  <2>2. CASE TestNext
    <3>1. CASE LoadModule \/ FindTokenSlot
      BY <3>1, TraceBegins
    <3>2. CASE ~(LoadModule \/ FindTokenSlot)
      <4>1. pc \notin {"load", "slots", "done"}
        BY <2>2, <3>2 DEF TestNext, HasMechanism, OpenSession, Login, FindObjectsInit, FindObjects, FindObjectsFinal,
           DeriveAllocates, DeriveAllocating, DeriveKey, CheckAttributes, CheckValue, SignInit, Sign, Compare,
           DestroyObject, PostSignInit, Logout, CloseSession, Finalize, Step, CloseStep
      <4>2. PICK n \in 0 .. Cardinality(Slots) : TraceAt(n)
        BY <4>1 DEF TraceInv
      <4>3. n \in Nat
        BY SpikeAssumption, FS_CardinalityType
      <4>4. TraceAt(n)'
        BY <2>2, <3>2, <4>2, <4>3, TraceStarts, TraceGoesOn, TraceEnds DEF TestNext
      <4>. QED
        BY <4>2, <4>4 DEF TraceInv
    <3>. QED
      BY <3>1, <3>2
  <2>. QED
    BY <2>1, <2>2 DEF Next
<1>. QED
  BY <1>1, <1>2, PTL DEF Spec

\* Whatever fails, the calls of a finished run are the lookup, a prefix of the calls of the
\* session and the closing that this prefix makes necessary, for any number of slots; and
\* a run that passes shows all of them.
THEOREM TraceIsCanonical == Spec => []CanonicalTrace
<1>1. ASSUME TraceInv PROVE CanonicalTrace
  <2> SUFFICES ASSUME pc = "done" PROVE CanonicalTrace
    BY DEF CanonicalTrace
  <2>1. CASE verdict # "ok" /\ calls \in {<<>>, <<"Initialize">>}
    BY <2>1 DEF CanonicalTrace, Passed
  <2>2. ASSUME NEW n \in 0 .. Cardinality(Slots), TraceAt(n) PROVE CanonicalTrace
    <3> DEFINE Shown(k) == calls = Traced(n, k) \o Closing(k) /\ k # 5 /\ (Passed => k = 13)
    <3>0. n \in Nat
      BY SpikeAssumption, FS_CardinalityType
    <3>1. SUFFICES \E k \in 0 .. 13 : Shown(k)
      <4>1. Len(SessionCalls) = 13 /\ \A k \in 0 .. 13 : k > 0 /\ k # 5 => SessionCalls[k] # "FindObjects"
        BY DEF SessionCalls
      <4>. QED
        BY <3>1, <4>1, Zenon DEF CanonicalTrace, Traced, Looked
    <3>2. CASE verdict # "ok" /\ \E k \in 0 .. 2 : calls = Traced(n, k) \o <<"Finalize">>
      <4>1. PICK k \in 0 .. 2 : calls = Traced(n, k) \o <<"Finalize">>
        BY <3>2
      <4>2. Closing(k) = <<"Finalize">> /\ k \in 0 .. 13 /\ k # 5
        BY DEF Closing
      <4>. QED
        BY <3>2, <4>1, <4>2 DEF Passed
    <3>3. CASE verdict # "ok" /\ calls = (Traced(n, 3) \o <<"CloseSession">>) \o <<"Finalize">>
      <4>1. Traced(n, 3) \in Seq(CallNames)
        BY <3>0, TracedIsSeq, 3 \in 0 .. 13
      <4>2. calls = Traced(n, 3) \o <<"CloseSession", "Finalize">>
        BY <3>3, <4>1, CloseGrows
      <4>3. Closing(3) = <<"CloseSession", "Finalize">> /\ 3 \in 0 .. 13 /\ 3 # 5
        BY DEF Closing
      <4>. QED
        BY <3>3, <4>2, <4>3, Zenon DEF Passed
    <3>4. ASSUME NEW k \in 4 .. 13, GivesUpAt(k), calls = Traced(n, k) \o <<"Logout", "CloseSession", "Finalize">>
          PROVE  \E j \in 0 .. 13 : Shown(j)
      <4>1. Closing(k) = <<"Logout", "CloseSession", "Finalize">> /\ k \in 0 .. 13
        BY DEF Closing
      <4>. QED
        BY <3>4, <4>1 DEF GivesUpAt, Passed
    <3> HIDE DEF Shown
    <3>5. ASSUME verdict # "ok", NEW e \in NoSessionEnds(n), calls = e \o <<"Finalize">>
          PROVE  \E j \in 0 .. 13 : Shown(j)
      <4>1. CASE \E k \in 0 .. 2 : e = Traced(n, k)
        BY <3>2, <3>5, <4>1
      <4>2. CASE e = Traced(n, 3) \o <<"CloseSession">>
        BY <3>3, <3>5, <4>2
      <4>3. 0 \in 0 .. 2 /\ 1 \in 0 .. 2 /\ 2 \in 0 .. 2
        OBVIOUS
      <4>. QED
        BY <3>5, <4>1, <4>2, <4>3, Zenon DEF NoSessionEnds
    <3>. QED
      BY <2>2, <3>4, <3>5 DEF TraceAt
  <2>. QED
    BY <1>1, <2>1, <2>2 DEF TraceInv
<1>. QED
  BY <1>1, TraceInvariant, PTL

----
\* The calls are calls that the test can make.
CallsInv == calls \in Seq(CallNames)

LEMMA CallsInvariant == Spec => []CallsInv
<1>1. ASSUME NEW s \in Seq(CallNames), NEW c \in CallNames
      PROVE  /\ s \o <<c>> \in Seq(CallNames) /\ Append(s, c) \in Seq(CallNames) /\ s \o <<>> \in Seq(CallNames)
  OBVIOUS
<1>2. /\ \A c \in CallNames : <<c>> \in Seq(CallNames)
      /\ <<>> \in Seq(CallNames) /\ <<"Login", "CloseSession">> \in Seq(CallNames)
  BY DEF CallNames
<1>3. Init => CallsInv
  BY <1>2 DEF Init, CallsInv
<1>4. CallsInv /\ [Next]_vars => CallsInv'
  <2> SUFFICES ASSUME CallsInv, [Next]_vars PROVE CallsInv'
    OBVIOUS
  <2> USE DEF CallsInv, Step
  <2>1. CASE LoadModule
    <3>1. "Initialize" \in CallNames
      BY DEF CallNames
    <3>. QED
      BY <1>2, <2>1, <3>1 DEF LoadModule
  <2>2. CASE FindTokenSlot
    <3>1. PICK asked \in SUBSET Slots : calls' = calls \o LookupCalls(Cardinality(asked))
      BY <2>2, LookupAsks
    <3>2. Cardinality(asked) \in Nat
      <4>1. IsFiniteSet(Slots) /\ asked \in SUBSET Slots
        BY SpikeAssumption
      <4>2. IsFiniteSet(asked)
        BY <4>1, FS_Subset, Zenon
      <4>. QED
        BY <4>2, FS_CardinalityType
    <3>3. LookupCalls(Cardinality(asked)) \in Seq(CallNames)
      BY <3>2, LookupIsSeq
    <3>. QED
      BY <3>1, <3>3, ConcatProperties, Zenon
  <2>3. CASE Login
    <3>1. "Login" \in CallNames
      BY DEF CallNames
    <3>2. PICK cs \in {<<"Login">>, <<"Login", "CloseSession">>} : calls' = calls \o cs
      BY <2>3 DEF Login
    <3>3. cs \in Seq(CallNames)
      BY <1>2, <3>1, <3>2
    <3>. QED
      BY <3>2, <3>3, ConcatProperties, Zenon
  <2>4. CASE DeriveAllocates \/ Compare
    BY <2>4, <1>1 DEF DeriveAllocates, DeriveAllocating, Compare
  <2>5. CASE \/ HasMechanism \/ OpenSession \/ FindObjectsInit \/ FindObjects \/ FindObjectsFinal \/ DeriveKey
             \/ CheckAttributes \/ CheckValue \/ SignInit \/ Sign \/ DestroyObject \/ PostSignInit
             \/ Logout \/ CloseSession \/ Finalize
    <3>1. PICK c \in CallNames : calls' = calls \o <<c>> \/ calls' = Append(calls, c)
      BY <2>5 DEF CallNames, HasMechanism, OpenSession, FindObjectsInit, FindObjects, FindObjectsFinal, DeriveKey,
         CheckAttributes, CheckValue, SignInit, Sign, DestroyObject, PostSignInit, Logout, CloseSession, Finalize,
         CloseStep
    <3>. QED
      BY <1>1, <3>1, Zenon
  <2>6. CASE (\E h \in Handles : ChangeKey(h)) \/ UNCHANGED vars
    BY <2>6 DEF ChangeKey, vars
  <2>. QED
    BY <2>1, <2>2, <2>3, <2>4, <2>5, <2>6 DEF Next, TestNext
<1>. QED
  BY <1>3, <1>4, PTL DEF Spec

\* Every variable keeps its type, whatever the module does and whichever call fails; in
\* particular the key the test derives from is the one hit of its search, and what it
\* calls and keeps as an error is what it can call.
THEOREM SpikeTypeCorrect == Spec => []TypeOK
<1>1. ASSUME TypeInv, LeakInv, CallsInv PROVE TypeOK
  BY <1>1 DEF TypeInv, LeakInv, CallsInv, TypeOK
<1>. QED
  BY <1>1, TypeInvariant, LeakInvariant, CallsInvariant, PTL
====
