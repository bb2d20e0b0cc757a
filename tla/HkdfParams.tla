---- MODULE HkdfParams ----
(***************************************************************************)
(* The serialiser of CK_HKDF_PARAMS (spike/mechanism.go): validate, which  *)
(* decides whether the logical parameters and the two C pointers fit       *)
(* together, and Marshal, which lays them out in the block that the PKCS   *)
(* #11 module reads as a C struct.                                         *)
(*                                                                         *)
(* A byte has Base values: 256 in the program, fewer where TLC enumerates  *)
(* 64-bit words, so that all eight digits of a word occur.                 *)
(***************************************************************************)
EXTENDS Integers, Sequences

CONSTANT Base

ASSUME BaseAssumption == Base \in Nat /\ Base >= 5

\* ulSaltType
CKF_HKDF_SALT_NULL == 1
CKF_HKDF_SALT_DATA == 2
CKF_HKDF_SALT_KEY  == 4

\* A slip that the properties have to notice: the salt length overlaps the salt pointer.
SaltLenTooEarly == 28

\* The offsets of mechanism.go:53-64.
offBExtract == 0
offBExpand  == 1
offPRF      == 8
offSaltType == 16
offPSalt    == 24
offSaltLen  == 32
offHSaltKey == 40
offPInfo    == 48
offInfoLen  == 56
ParamsSize  == 64

\* A uint64: eight digits.
Uint64 == 0 .. Base * (Base * (Base * (Base * (Base * (Base * (Base * Base)))))) - 1

Params == [Extract : BOOLEAN, Expand : BOOLEAN, PRFHashMechanism : Uint64, SaltType : Uint64,
           SaltLen : Uint64, SaltKeyHandle : Uint64, InfoLen : Uint64]

----
\* A slip that the properties have to notice; no specification uses it.

\* SALT_DATA is accepted without a pointer, SALT_KEY with a salt.
SaltUnfitNoPtr(p, saltPtr) ==
  \/ p.SaltType = CKF_HKDF_SALT_NULL /\ (p.SaltLen # 0 \/ saltPtr # 0 \/ p.SaltKeyHandle # 0)
  \/ p.SaltType = CKF_HKDF_SALT_DATA /\ (p.SaltLen = 0 \/ p.SaltKeyHandle # 0)
  \/ p.SaltType = CKF_HKDF_SALT_KEY /\ p.SaltKeyHandle = 0

----
\* What validate calls an ErrSaltMismatch and an ErrInfoMismatch.
SaltUnfit(p, saltPtr) ==
  \/ p.SaltType = CKF_HKDF_SALT_NULL /\ (p.SaltLen # 0 \/ saltPtr # 0 \/ p.SaltKeyHandle # 0)
  \/ p.SaltType = CKF_HKDF_SALT_DATA /\ (p.SaltLen = 0 \/ saltPtr = 0 \/ p.SaltKeyHandle # 0)
  \/ p.SaltType = CKF_HKDF_SALT_KEY /\ (p.SaltKeyHandle = 0 \/ p.SaltLen # 0 \/ saltPtr # 0)
InfoUnfit(p, infoPtr) ==
  \/ p.InfoLen = 0 /\ infoPtr # 0
  \/ p.InfoLen # 0 /\ infoPtr = 0

\* The error of validate, by its cause; the first one found.
validate(p, saltPtr, infoPtr) ==
  IF ~p.Extract /\ ~p.Expand THEN "operation"
  ELSE IF p.SaltType \notin {CKF_HKDF_SALT_NULL, CKF_HKDF_SALT_DATA, CKF_HKDF_SALT_KEY} THEN "type"
  ELSE IF SaltUnfit(p, saltPtr) THEN "salt"
  ELSE IF InfoUnfit(p, infoPtr) THEN "info"
  ELSE "nil"

\* binary.LittleEndian.PutUint64: byte i is the word shifted right by i bytes.
Digits(v) ==
  LET q1 == v \div Base   q2 == q1 \div Base  q3 == q2 \div Base  q4 == q3 \div Base
      q5 == q4 \div Base  q6 == q5 \div Base  q7 == q6 \div Base
  IN <<v % Base, q1 % Base, q2 % Base, q3 % Base, q4 % Base, q5 % Base, q6 % Base, q7 % Base>>
PutUint64(buf, off, v) ==
  [k \in DOMAIN buf |-> IF off <= k /\ k < off + 8 THEN Digits(v)[k - off + 1] ELSE buf[k]]

ckBool(b) == IF b THEN 1 ELSE 0

\* The block Marshal builds from parameters that validate has accepted: make
\* zeroes it, and each later write replaces what an earlier one left there.
Block(p, saltPtr, infoPtr) ==
  LET zero  == [k \in 0 .. ParamsSize - 1 |-> 0]
      flags == [zero EXCEPT ![offBExtract] = ckBool(p.Extract), ![offBExpand] = ckBool(p.Expand)]
      prf   == PutUint64(flags, offPRF, p.PRFHashMechanism)
      type  == PutUint64(prf, offSaltType, p.SaltType)
      salt  == PutUint64(type, offPSalt, saltPtr)
      len   == PutUint64(salt, offSaltLen, p.SaltLen)
      key   == PutUint64(len, offHSaltKey, p.SaltKeyHandle)
      info  == PutUint64(key, offPInfo, infoPtr)
  IN PutUint64(info, offInfoLen, p.InfoLen)

\* Marshal: the block, or nil and the error of validate.
Marshal(p, saltPtr, infoPtr) ==
  LET err == validate(p, saltPtr, infoPtr)
  IN IF err = "nil" THEN [buf |-> Block(p, saltPtr, infoPtr), err |-> err]
                    ELSE [buf |-> <<>>, err |-> err]

----
\* The reader on the other side: a C compiler on an LP64 machine.

\* The sizes of the members of CK_HKDF_PARAMS, in their order.
MemberSize == <<1, 1, 8, 8, 8, 8, 8, 8, 8>>

\* Natural alignment: a member starts at the next multiple of its size.
AlignUp(n, size) == ((n + size - 1) \div size) * size
MemberOffset[m \in DOMAIN MemberSize] ==
  IF m = 1 THEN 0 ELSE AlignUp(MemberOffset[m - 1] + MemberSize[m - 1], MemberSize[m])

\* The little-endian word at an address.
WordAt(buf, a) ==
  buf[a] + Base * (buf[a + 1] + Base * (buf[a + 2] + Base * (buf[a + 3] + Base *
    (buf[a + 4] + Base * (buf[a + 5] + Base * (buf[a + 6] + Base * buf[a + 7]))))))

\* The values the caller meant, in the order of the members.
MemberValue(p, saltPtr, infoPtr) ==
  <<ckBool(p.Extract), ckBool(p.Expand), p.PRFHashMechanism, p.SaltType, saltPtr, p.SaltLen,
    p.SaltKeyHandle, infoPtr, p.InfoLen>>

\* The C program reads from the block exactly what the Go program put in, and
\* the padding is zero (mechanism.go:38-52).
ReadsBack(p, saltPtr, infoPtr, buf) ==
  /\ DOMAIN buf = 0 .. MemberOffset[9] + MemberSize[9] - 1
  /\ \A m \in DOMAIN MemberSize :
       MemberValue(p, saltPtr, infoPtr)[m] =
         IF MemberSize[m] = 1 THEN buf[MemberOffset[m]] ELSE WordAt(buf, MemberOffset[m])
  /\ \A k \in DOMAIN buf :
       buf[k] = 0 \/ \E m \in DOMAIN MemberSize : k - MemberOffset[m] \in 0 .. MemberSize[m] - 1

\* The salt members that the salt type calls for (PKCS#11 v3.0 6.31.1): those and
\* no others are set.
SaltMembers(p, saltPtr) ==
  {m \in {"pSalt", "ulSaltLen", "hSaltKey"} :
     0 # (CASE m = "pSalt" -> saltPtr [] m = "ulSaltLen" -> p.SaltLen [] OTHER -> p.SaltKeyHandle)}
WellFormed(p, saltPtr, infoPtr) ==
  /\ TRUE \in {p.Extract, p.Expand}
  /\ <<p.SaltType, SaltMembers(p, saltPtr)>> \in
       {<<1, {}>>, <<2, {"pSalt", "ulSaltLen"}>>, <<4, {"hSaltKey"}>>}
  /\ p.InfoLen = 0 <=> infoPtr = 0
====
