---- MODULE CallContract ----
(***************************************************************************)
(* What a caller of HsmDocService may rely on while the service is a       *)
(* skeleton, said without streams, connections or the ways a server stops: *)
(* a call that has begun is decided once, either by the stub of the very   *)
(* RPC that was called (grpc.pb.go:127-147) or by the client side, which   *)
(* gives the call up; it returns what was decided.                         *)
(***************************************************************************)
CONSTANTS
  Calls,   \* the calls that may be made
  RPCs     \* the names of the RPCs

VARIABLES
  phase,   \* "idle", "begun", "decided" or "returned"
  rpc,     \* the RPC that was called
  status   \* how the call was decided

kvars == <<phase, rpc, status>>

NoRPC == "none"
Undecided == [code |-> "none", by |-> "none"]

KInit ==
  /\ phase = [c \in Calls |-> "idle"]
  /\ rpc = [c \in Calls |-> NoRPC] /\ status = [c \in Calls |-> Undecided]

Begin(c, m) ==
  /\ phase[c] = "idle" /\ phase' = [phase EXCEPT ![c] = "begun"]
  /\ rpc' = [rpc EXCEPT ![c] = m] /\ UNCHANGED status

\* The answer of the RPC's own stub, or the end of a call that gets no answer.
Unimplemented(m) == [code |-> "Unimplemented", by |-> m]
GivenUpStatuses == [code : {"Unavailable", "Canceled"}, by : {"client"}]

Decide(c) ==
  /\ phase[c] = "begun" /\ phase' = [phase EXCEPT ![c] = "decided"]
  /\ \E s \in GivenUpStatuses \union {Unimplemented(rpc[c])} : status' = [status EXCEPT ![c] = s]
  /\ UNCHANGED rpc

Return(c) ==
  /\ phase[c] = "decided" /\ phase' = [phase EXCEPT ![c] = "returned"]
  /\ UNCHANGED <<rpc, status>>

\* A call that does not get as far as the server.
Fail(c, m) ==
  /\ phase[c] = "idle" /\ phase' = [phase EXCEPT ![c] = "returned"]
  /\ rpc' = [rpc EXCEPT ![c] = m]
  /\ \E s \in GivenUpStatuses : status' = [status EXCEPT ![c] = s]

KNext ==
  \E c \in Calls : Decide(c) \/ Return(c) \/ \E m \in RPCs : Begin(c, m) \/ Fail(c, m)

KSpec == KInit /\ [][KNext]_kvars
====
