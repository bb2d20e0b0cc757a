---- MODULE HkdfParamsProofs ----
(***************************************************************************)
(* Proofs about HkdfParams, for every width of a byte:                     *)
(* what validate accepts, and that the block reads back as C reads it; and *)
(* about MarshalCall: what a caller of Marshal gets.                       *)
(***************************************************************************)
EXTENDS MarshalCall, TLAPS

\* Parameters are accepted exactly when the salt type, the pointers, the lengths
\* and the key handle agree: mechanism.go:125-158 misses no combination.
THEOREM AcceptsExactlyWellFormed ==
  ASSUME NEW q \in Params, NEW sp \in Uint64, NEW ip \in Uint64
  PROVE  validate(q, sp, ip) = "nil" <=> WellFormed(q, sp, ip)
<1> DEFINE S == SaltMembers(q, sp)
<1>1. /\ "pSalt" \in S <=> sp # 0
      /\ "ulSaltLen" \in S <=> q.SaltLen # 0
      /\ "hSaltKey" \in S <=> q.SaltKeyHandle # 0
      /\ S \subseteq {"pSalt", "ulSaltLen", "hSaltKey"}
  BY DEF SaltMembers
<1>2. /\ S = {} <=> sp = 0 /\ q.SaltLen = 0 /\ q.SaltKeyHandle = 0
      /\ S = {"pSalt", "ulSaltLen"} <=> sp # 0 /\ q.SaltLen # 0 /\ q.SaltKeyHandle = 0
      /\ S = {"hSaltKey"} <=> sp = 0 /\ q.SaltLen = 0 /\ q.SaltKeyHandle # 0
  BY <1>1
<1> HIDE DEF S
<1>3. WellFormed(q, sp, ip) <=>
        /\ q.Extract \/ q.Expand
        /\ \/ q.SaltType = 1 /\ S = {}
           \/ q.SaltType = 2 /\ S = {"pSalt", "ulSaltLen"}
           \/ q.SaltType = 4 /\ S = {"hSaltKey"}
        /\ q.InfoLen = 0 <=> ip = 0
  BY DEF WellFormed, S, Params
<1>. QED
  BY <1>2, <1>3 DEF validate, SaltUnfit, InfoUnfit, CKF_HKDF_SALT_NULL, CKF_HKDF_SALT_DATA,
     CKF_HKDF_SALT_KEY

----
\* One digit taken off a word leaves a word with one digit less.
LEMMA OneDigit ==
  ASSUME NEW n \in Nat, NEW v \in 0 .. Base * n - 1
  PROVE  /\ v \div Base \in 0 .. n - 1
         /\ v % Base \in 0 .. Base - 1
         /\ v = (v % Base) + Base * (v \div Base)
<1> USE BaseAssumption
<1>1. v \in Nat /\ v < Base * n /\ Base > 0
  OBVIOUS
<1>2. v % Base \in 0 .. Base - 1
  BY <1>1
<1>3. v \div Base \in Int /\ v = (v % Base) + Base * (v \div Base)
  BY <1>1
<1>4. v \div Base >= 0
  BY <1>1, <1>2, <1>3
<1>5. v \div Base < n
  BY <1>1, <1>2, <1>3
<1>. QED
  BY <1>2, <1>3, <1>4, <1>5

\* A word read by the little-endian rule from a place where PutUint64 has put its
\* digits is the word that was put there.
LEMMA DigitsReadBack ==
  ASSUME NEW v \in Uint64, NEW buf, NEW a \in Nat,
         \A i \in 0 .. 7 : buf[a + i] = Digits(v)[i + 1]
  PROVE  WordAt(buf, a) = v
<1> DEFINE n1 == Base  n2 == Base * n1  n3 == Base * n2  n4 == Base * n3  n5 == Base * n4
           n6 == Base * n5  n7 == Base * n6
           q1 == v \div Base   q2 == q1 \div Base  q3 == q2 \div Base  q4 == q3 \div Base
           q5 == q4 \div Base  q6 == q5 \div Base  q7 == q6 \div Base
<1>1. /\ buf[a] = v % Base /\ buf[a + 1] = q1 % Base /\ buf[a + 2] = q2 % Base
      /\ buf[a + 3] = q3 % Base /\ buf[a + 4] = q4 % Base /\ buf[a + 5] = q5 % Base
      /\ buf[a + 6] = q6 % Base /\ buf[a + 7] = q7 % Base
  BY DEF Digits
<1>2. n1 \in Nat /\ n2 \in Nat /\ n3 \in Nat /\ n4 \in Nat /\ n5 \in Nat /\ n6 \in Nat /\ n7 \in Nat
  BY BaseAssumption
<1>3. v \in 0 .. Base * n7 - 1
  BY DEF Uint64
<1> HIDE DEF n2, n3, n4, n5, n6, n7, q1, q2, q3, q4, q5, q6, q7
<1>4. q1 \in 0 .. n7 - 1 /\ v = (v % Base) + Base * q1
  BY <1>2, <1>3, OneDigit DEF q1
<1>5. q2 \in 0 .. n6 - 1 /\ q1 = (q1 % Base) + Base * q2
  BY <1>2, <1>4, OneDigit DEF q2, n7
<1>6. q3 \in 0 .. n5 - 1 /\ q2 = (q2 % Base) + Base * q3
  BY <1>2, <1>5, OneDigit DEF q3, n6
<1>7. q4 \in 0 .. n4 - 1 /\ q3 = (q3 % Base) + Base * q4
  BY <1>2, <1>6, OneDigit DEF q4, n5
<1>8. q5 \in 0 .. n3 - 1 /\ q4 = (q4 % Base) + Base * q5
  BY <1>2, <1>7, OneDigit DEF q5, n4
<1>9. q6 \in 0 .. n2 - 1 /\ q5 = (q5 % Base) + Base * q6
  BY <1>2, <1>8, OneDigit DEF q6, n3
<1>10. q7 \in 0 .. n1 - 1 /\ q6 = (q6 % Base) + Base * q7
  BY <1>2, <1>9, OneDigit DEF q7, n2
<1>11. q7 % Base = q7
  BY <1>10, BaseAssumption
<1>. QED
  BY <1>1, <1>4, <1>5, <1>6, <1>7, <1>8, <1>9, <1>10, <1>11 DEF WordAt

\* A C compiler puts the members of CK_HKDF_PARAMS where mechanism.go:53-64 does.
LEMMA CLayout ==
  /\ MemberOffset[1] = offBExtract /\ MemberOffset[2] = offBExpand
  /\ MemberOffset[3] = offPRF      /\ MemberOffset[4] = offSaltType
  /\ MemberOffset[5] = offPSalt    /\ MemberOffset[6] = offSaltLen
  /\ MemberOffset[7] = offHSaltKey /\ MemberOffset[8] = offPInfo
  /\ MemberOffset[9] = offInfoLen
<1> DEFINE F(f) == [m \in 1 .. 9 |->
                      IF m = 1 THEN 0 ELSE AlignUp(f[m - 1] + MemberSize[m - 1], MemberSize[m])]
           g == [m \in 1 .. 9 |-> IF m <= 2 THEN m - 1 ELSE 8 * (m - 2)]
<1>1. DOMAIN MemberSize = 1 .. 9 /\ MemberSize[1] = 1 /\ MemberSize[2] = 1
      /\ \A m \in 3 .. 9 : MemberSize[m] = 8
  BY DEF MemberSize
<1>2. ASSUME NEW m \in 1 .. 9
      PROVE  g[m] = IF m = 1 THEN 0 ELSE AlignUp(g[m - 1] + MemberSize[m - 1], MemberSize[m])
  <2>1. CASE m \in 1 .. 2
    BY <2>1, <1>1 DEF AlignUp
  <2>2. CASE m \in 3 .. 9
    BY <2>2, <1>1 DEF AlignUp
  <2>. QED
    BY <2>1, <2>2
<1>3. g = F(g)
  BY <1>2
<1>4. MemberOffset = CHOOSE f : f = F(f)
  BY <1>1 DEF MemberOffset
<1>5. MemberOffset = F(MemberOffset)
  BY <1>3, <1>4
<1> HIDE DEF g
<1>6. MemberOffset[1] = 0
  BY <1>5
<1>7. \A m \in 2 .. 9 : MemberOffset[m] = AlignUp(MemberOffset[m - 1] + MemberSize[m - 1], MemberSize[m])
  BY <1>5
<1>8. MemberOffset[2] = 1
  BY <1>1, <1>6, <1>7 DEF AlignUp
<1>9. MemberOffset[3] = 8
  BY <1>1, <1>7, <1>8 DEF AlignUp
<1>10. MemberOffset[4] = 16
  BY <1>1, <1>7, <1>9 DEF AlignUp
<1>11. MemberOffset[5] = 24
  BY <1>1, <1>7, <1>10 DEF AlignUp
<1>12. MemberOffset[6] = 32
  BY <1>1, <1>7, <1>11 DEF AlignUp
<1>13. MemberOffset[7] = 40
  BY <1>1, <1>7, <1>12 DEF AlignUp
<1>14. MemberOffset[8] = 48
  BY <1>1, <1>7, <1>13 DEF AlignUp
<1>15. MemberOffset[9] = 56
  BY <1>1, <1>7, <1>14 DEF AlignUp
<1>. QED
  BY <1>6, <1>8, <1>9, <1>10, <1>11, <1>12, <1>13, <1>14, <1>15
     DEF offBExtract, offBExpand, offPRF, offSaltType, offPSalt, offSaltLen, offHSaltKey,
         offPInfo, offInfoLen

\* new is buf with the digits of v in the eight bytes from off on.
Written(new, buf, off, v) ==
  /\ DOMAIN new = 0 .. 63
  /\ \A i \in 0 .. 7 : new[off + i] = Digits(v)[i + 1]
  /\ \A k \in 0 .. 63 : k < off \/ off + 8 <= k => new[k] = buf[k]

\* PutUint64 changes the eight bytes from its offset on and no other.
LEMMA PutChangesEight ==
  ASSUME NEW buf, DOMAIN buf = 0 .. 63, NEW off \in 0 .. 56, NEW v
  PROVE  Written(PutUint64(buf, off, v), buf, off, v)
<1> DEFINE new == PutUint64(buf, off, v)
<1>1. ASSUME NEW i \in 0 .. 7
      PROVE  new[off + i] = Digits(v)[i + 1]
  <2>1. off + i \in 0 .. 63 /\ off <= off + i /\ off + i < off + 8 /\ (off + i) - off + 1 = i + 1
    OBVIOUS
  <2>. QED
    BY <2>1 DEF PutUint64
<1>2. DOMAIN new = 0 .. 63 /\ \A k \in 0 .. 63 : k < off \/ off + 8 <= k => new[k] = buf[k]
  BY DEF PutUint64
<1>. QED
  BY <1>1, <1>2 DEF Written

\* Every write of Marshal survives the writes behind it, and nothing is written
\* into the padding.
LEMMA BlockBytes ==
  ASSUME NEW q \in Params, NEW sp \in Uint64, NEW ip \in Uint64
  PROVE  LET b == Block(q, sp, ip)
         IN /\ DOMAIN b = 0 .. 63
            /\ b[0] = ckBool(q.Extract) /\ b[1] = ckBool(q.Expand)
            /\ \A k \in 2 .. 7 : b[k] = 0
            /\ \A i \in 0 .. 7 :
                 /\ b[8 + i] = Digits(q.PRFHashMechanism)[i + 1]
                 /\ b[16 + i] = Digits(q.SaltType)[i + 1]
                 /\ b[24 + i] = Digits(sp)[i + 1]
                 /\ b[32 + i] = Digits(q.SaltLen)[i + 1]
                 /\ b[40 + i] = Digits(q.SaltKeyHandle)[i + 1]
                 /\ b[48 + i] = Digits(ip)[i + 1]
                 /\ b[56 + i] = Digits(q.InfoLen)[i + 1]
<1> DEFINE zero  == [k \in 0 .. 63 |-> 0]
           flags == [zero EXCEPT ![0] = ckBool(q.Extract), ![1] = ckBool(q.Expand)]
           prf   == PutUint64(flags, 8, q.PRFHashMechanism)
           type  == PutUint64(prf, 16, q.SaltType)
           salt  == PutUint64(type, 24, sp)
           len   == PutUint64(salt, 32, q.SaltLen)
           key   == PutUint64(len, 40, q.SaltKeyHandle)
           info  == PutUint64(key, 48, ip)
           all   == PutUint64(info, 56, q.InfoLen)
<1>1. Block(q, sp, ip) = all
  BY DEF Block, ParamsSize, offBExtract, offBExpand, offPRF, offSaltType, offPSalt, offSaltLen,
         offHSaltKey, offPInfo, offInfoLen
<1>2. /\ DOMAIN flags = 0 .. 63
      /\ flags[0] = ckBool(q.Extract) /\ flags[1] = ckBool(q.Expand)
      /\ \A k \in 2 .. 7 : flags[k] = 0
  OBVIOUS
<1> HIDE DEF flags, prf, type, salt, len, key, info, all
<1>3. Written(prf, flags, 8, q.PRFHashMechanism)
  <2>1. 8 \in 0 .. 56 /\ DOMAIN flags = 0 .. 63
    BY <1>2
  <2>. QED
    BY <2>1, PutChangesEight, Zenon DEF prf
<1>4. Written(type, prf, 16, q.SaltType)
  <2>1. 16 \in 0 .. 56 /\ DOMAIN prf = 0 .. 63
    BY <1>3 DEF Written
  <2>. QED
    BY <2>1, PutChangesEight, Zenon DEF type
<1>5. Written(salt, type, 24, sp)
  <2>1. 24 \in 0 .. 56 /\ DOMAIN type = 0 .. 63
    BY <1>4 DEF Written
  <2>. QED
    BY <2>1, PutChangesEight, Zenon DEF salt
<1>6. Written(len, salt, 32, q.SaltLen)
  <2>1. 32 \in 0 .. 56 /\ DOMAIN salt = 0 .. 63
    BY <1>5 DEF Written
  <2>. QED
    BY <2>1, PutChangesEight, Zenon DEF len
<1>7. Written(key, len, 40, q.SaltKeyHandle)
  <2>1. 40 \in 0 .. 56 /\ DOMAIN len = 0 .. 63
    BY <1>6 DEF Written
  <2>. QED
    BY <2>1, PutChangesEight, Zenon DEF key
<1>8. Written(info, key, 48, ip)
  <2>1. 48 \in 0 .. 56 /\ DOMAIN key = 0 .. 63
    BY <1>7 DEF Written
  <2>. QED
    BY <2>1, PutChangesEight, Zenon DEF info
<1>9. Written(all, info, 56, q.InfoLen)
  <2>1. 56 \in 0 .. 56 /\ DOMAIN info = 0 .. 63
    BY <1>8 DEF Written
  <2>. QED
    BY <2>1, PutChangesEight, Zenon DEF all
<1>10. ASSUME NEW i \in 0 .. 7
       PROVE  /\ all[8 + i] = prf[8 + i] /\ all[16 + i] = type[16 + i]
              /\ all[24 + i] = salt[24 + i] /\ all[32 + i] = len[32 + i]
              /\ all[40 + i] = key[40 + i] /\ all[48 + i] = info[48 + i]
  BY <1>3, <1>4, <1>5, <1>6, <1>7, <1>8, <1>9 DEF Written
<1>11. \A k \in 0 .. 7 : all[k] = flags[k]
  BY <1>3, <1>4, <1>5, <1>6, <1>7, <1>8, <1>9 DEF Written
<1>. QED
  BY <1>1, <1>2, <1>3, <1>4, <1>5, <1>6, <1>7, <1>8, <1>9, <1>10, <1>11 DEF Written

\* Whatever the parameters and the addresses, the C program on the other side of
\* the call reads every member of the struct as the Go program meant it, and the
\* padding is zero (mechanism.go:88-123).
THEOREM BlockReadsBackAlways ==
  ASSUME NEW q \in Params, NEW sp \in Uint64, NEW ip \in Uint64,
         Marshal(q, sp, ip).err = "nil"
  PROVE  ReadsBack(q, sp, ip, Marshal(q, sp, ip).buf)
<1> DEFINE b == Block(q, sp, ip)
<1>1. Marshal(q, sp, ip).buf = b
  BY DEF Marshal
<1>2. /\ DOMAIN b = 0 .. 63
      /\ b[0] = ckBool(q.Extract) /\ b[1] = ckBool(q.Expand)
      /\ \A k \in 2 .. 7 : b[k] = 0
  BY BlockBytes
<1>3. /\ WordAt(b, 8) = q.PRFHashMechanism /\ WordAt(b, 16) = q.SaltType
      /\ WordAt(b, 24) = sp           /\ WordAt(b, 32) = q.SaltLen
      /\ WordAt(b, 40) = q.SaltKeyHandle   /\ WordAt(b, 48) = ip
      /\ WordAt(b, 56) = q.InfoLen
  BY BlockBytes, DigitsReadBack DEF Params
<1> HIDE DEF b
<1>4. DOMAIN MemberSize = 1 .. 9 /\ MemberSize[1] = 1 /\ MemberSize[2] = 1
      /\ \A m \in 3 .. 9 : MemberSize[m] = 8
  BY DEF MemberSize
<1>5. ASSUME NEW m \in 1 .. 9
      PROVE  MemberValue(q, sp, ip)[m] =
               IF MemberSize[m] = 1 THEN b[MemberOffset[m]] ELSE WordAt(b, MemberOffset[m])
  BY <1>2, <1>3, <1>4, CLayout
     DEF MemberValue, offBExtract, offBExpand, offPRF, offSaltType, offPSalt, offSaltLen,
         offHSaltKey, offPInfo, offInfoLen
<1>6. ASSUME NEW k \in 0 .. 63
      PROVE  b[k] = 0 \/ \E m \in 1 .. 9 : k - MemberOffset[m] \in 0 .. MemberSize[m] - 1
  <2>1. CASE k \in 2 .. 7
    BY <2>1, <1>2
  <2>2. CASE k \in 0 .. 1
    BY <2>2, <1>4, CLayout DEF offBExtract, offBExpand
  <2>3. CASE k \in 8 .. 63
    BY <2>3, <1>4, CLayout
       DEF offPRF, offSaltType, offPSalt, offSaltLen, offHSaltKey, offPInfo, offInfoLen
  <2>. QED
    BY <2>1, <2>2, <2>3
<1>7. DOMAIN b = 0 .. MemberOffset[9] + MemberSize[9] - 1
  BY <1>2, <1>4, CLayout DEF offInfoLen
<1>. QED
  BY <1>1, <1>2, <1>4, <1>5, <1>6, <1>7 DEF ReadsBack

----
\* A caller of Marshal.

\* Before the call the caller has chosen its parameters, after it it has the
\* result of Marshal.
CallInv ==
  /\ p \in Params /\ saltPtr \in Uint64 /\ infoPtr \in Uint64
  /\ result.err = "none" \/ result = Marshal(p, saltPtr, infoPtr)

LEMMA CallInvariant == CallSpec => []CallInv
<1>1. CallInit => CallInv
  <2> SUFFICES ASSUME CallInit PROVE CallInv
    OBVIOUS
  <2>1. 0 \in Uint64
    BY CallAssumption
  <2>2. Words \union {0} \subseteq Uint64 /\ Words \subseteq Uint64 /\ Lens \subseteq Uint64
        /\ 0 .. 5 \subseteq Uint64
    BY <2>1, CallAssumption
  <2>. QED
    BY <2>2, Zenon DEF CallInit, CallInv, Params
<1>2. CallInv /\ [Call]_callVars => CallInv'
  BY DEF CallInv, Call, callVars
<1>. QED
  BY <1>1, <1>2, PTL DEF CallSpec

\* The caller never gets a block that the C program would read differently.
THEOREM CallerReadsBack == CallSpec => []BlockReadsBack
<1>1. CallInv => BlockReadsBack
  BY BlockReadsBackAlways DEF CallInv, BlockReadsBack
<1>. QED
  BY <1>1, CallInvariant, PTL

\* The caller gets a block for exactly the parameters that agree.
THEOREM CallerAccepted == CallSpec => []AcceptsWellFormed
<1>1. CallInv => AcceptsWellFormed
  BY AcceptsExactlyWellFormed DEF CallInv, AcceptsWellFormed, Marshal
<1>. QED
  BY <1>1, CallInvariant, PTL
====
