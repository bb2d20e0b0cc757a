---- MODULE MarshalCall ----
(***************************************************************************)
(* A caller of Marshal: any logical parameters, any two addresses, one     *)
(* call.  What the call returns is compared with the definitions of        *)
(* HkdfParams that do not follow the code.                                 *)
(***************************************************************************)
EXTENDS HkdfParams

CONSTANTS
  Words,   \* the wide members and the addresses the caller may use, besides 0
  Lens     \* the lengths, 0 among them

ASSUME CallAssumption ==
  /\ \A w \in Words : w \in Uint64 /\ w # 0
  /\ \A n \in Lens \union 0 .. 5 : n \in Uint64

VARIABLES p, saltPtr, infoPtr, result
callVars == <<p, saltPtr, infoPtr, result>>

CallInit ==
  /\ p \in [Extract : BOOLEAN, Expand : BOOLEAN, PRFHashMechanism : Words, SaltType : 0 .. 5,
            SaltLen : Lens, SaltKeyHandle : Words \union {0}, InfoLen : Lens]
  /\ saltPtr \in Words \union {0} /\ infoPtr \in Words \union {0}
  /\ result = [buf |-> <<>>, err |-> "none"]

Call ==
  /\ result.err = "none"
  /\ result' = Marshal(p, saltPtr, infoPtr)
  /\ UNCHANGED <<p, saltPtr, infoPtr>>

CallSpec == CallInit /\ [][Call]_callVars

\* The module reads from the block what the caller put in, whatever the values,
\* with the layout a C compiler gives the struct (mechanism.go:38-64, 104-121).
BlockReadsBack == result.err = "nil" => ReadsBack(p, saltPtr, infoPtr, result.buf)

\* Marshal accepts exactly the combinations in which the salt type, the pointers,
\* the lengths and the key handle agree (mechanism.go:125-158).
AcceptsWellFormed ==
  result.err # "none" => (result.err = "nil" <=> WellFormed(p, saltPtr, infoPtr))
====
