---- MODULE HsmDocCalls ----
(***************************************************************************)
(* Calls of HsmDocService through the generated client stubs, against the  *)
(* skeleton server of GrpcServer, which may be stopped at any moment.  On  *)
(* each connection a client makes one call: Encrypt and Decrypt open a     *)
(* stream, on which the client sends, closes and receives, as the tests of *)
(* the adapter do; ListKeys and Health are one call of Invoke.  The answer *)
(* races with all of it, and with the end of the connection.               *)
(***************************************************************************)
EXTENDS GrpcServer, Sequences, FiniteSets

VARIABLES
  method,   \* the RPC that is called on a connection
  user,     \* how far the caller is
  wire,     \* where the call is between the two sides
  route,    \* the handler that the server has found for it
  sendErr,  \* what Send has returned
  result,   \* what the caller was given in the end
  closed    \* the clients that have closed their ClientConn

callVars == <<method, user, wire, route, sendErr, result, closed>>
cvars == <<gvars, callVars>>

Service == "chsmdoc.v1.HsmDocService"
Methods == {"Encrypt", "Decrypt", "ListKeys", "Health"}
None == "none"
NoResult == [code |-> "none", by |-> "none"]

----
\* Slips that the properties have to notice; no specification uses them.

\* Both streams are given to Encrypt.
OneHandler == <<[name |-> "Encrypt", handler |-> "Encrypt"], [name |-> "Decrypt", handler |-> "Encrypt"]>>

\* A caller that got io.EOF from Send does not receive.
EOFIsFinal(c) == sendErr[c] # "EOF"

\* Hanging up takes back an answer that has been given.
CancelWins(c) ==
  /\ c \notin closed /\ closed' = closed \union {c}
  /\ ClientCloses(c) /\ UNCHANGED <<method, user, route, sendErr>>
  /\ wire' = [wire EXCEPT ![c] = IF @ = "none" THEN @ ELSE "over"]
  /\ result' = [result EXCEPT ![c] = IF wire[c] = "none" THEN @ ELSE [code |-> "Canceled", by |-> "client"]]

\* A stub answers as a server does that is going away.
StubGivesUp(handler) == [code |-> "Unavailable", by |-> handler]

----
\* The generated code: ServiceDesc and the paths that the client stubs call.
UnaryDesc  == <<[name |-> "ListKeys", handler |-> "ListKeys"], [name |-> "Health", handler |-> "Health"]>>
StreamDesc == <<[name |-> "Encrypt", handler |-> "Encrypt"], [name |-> "Decrypt", handler |-> "Decrypt"]>>
ServiceDesc == [service |-> Service, rpcs |-> UnaryDesc \o StreamDesc]

FullMethodName(m) == <<Service, m>>
Streaming(m) == \E i \in 1 .. Len(StreamDesc) : StreamDesc[i].name = m

\* The handler registered for a path, if any; grpc-go answers Unimplemented for a path
\* it does not know, with the code that the stubs of the skeleton use.
Route(path) ==
  LET found == {i \in 1 .. Len(ServiceDesc.rpcs) :
                  path = <<ServiceDesc.service, ServiceDesc.rpcs[i].name>>}
  IN IF found = {} THEN "unknown" ELSE ServiceDesc.rpcs[CHOOSE i \in found : TRUE].handler

\* The status a call ends with: the stub of the handler knows only one.
StatusOf(handler) == [code |-> "Unimplemented", by |-> IF handler = "unknown" THEN "grpc" ELSE handler]

CInit ==
  /\ GInit
  /\ method = [c \in Conns |-> None] /\ user = [c \in Conns |-> "idle"]
  /\ wire = [c \in Conns |-> "none"] /\ route = [c \in Conns |-> None]
  /\ sendErr = [c \in Conns |-> None] /\ result = [c \in Conns |-> NoResult]
  /\ closed = {}

----
\* The status that the client side gives a call itself.
GivenUp(code) == [code |-> code, by |-> "client"]

\* The caller.

\* Invoke, or NewStream: the request goes out on the connection.
Call(c, m) ==
  /\ user[c] = "idle" /\ conn[c] = "open"
  /\ method' = [method EXCEPT ![c] = m] /\ wire' = [wire EXCEPT ![c] = "request"]
  /\ user' = [user EXCEPT ![c] = IF Streaming(m) THEN "send" ELSE "receive"]
  /\ UNCHANGED <<gvars, route, sendErr, result, closed>>

\* Without a server, or behind conn.Close, the stub returns the error of NewStream or
\* Invoke.
CallFails(c, m) ==
  /\ user[c] = "idle" /\ conn[c] = "gone"
  /\ method' = [method EXCEPT ![c] = m] /\ user' = [user EXCEPT ![c] = "returned"]
  /\ wire' = [wire EXCEPT ![c] = "over"]
  /\ result' = [result EXCEPT ![c] = GivenUp(IF c \in closed THEN "Canceled" ELSE "Unavailable")]
  /\ UNCHANGED <<gvars, route, sendErr, closed>>

\* Send gives io.EOF once the stream is over, whatever its status.
Send(c) ==
  /\ user[c] = "send" /\ user' = [user EXCEPT ![c] = "close"]
  /\ sendErr' = [sendErr EXCEPT ![c] = IF wire[c] = "over" THEN "EOF" ELSE "nil"]
  /\ UNCHANGED <<gvars, method, wire, route, result, closed>>

CloseSend(c) ==
  /\ user[c] = "close" /\ user' = [user EXCEPT ![c] = "receive"]
  /\ UNCHANGED <<gvars, method, wire, route, sendErr, result, closed>>

\* Recv, and Invoke, give the status of the call; a caller receives after io.EOF too.
Receives(c) == TRUE
Recv(c) ==
  /\ user[c] = "receive" /\ wire[c] = "over" /\ Receives(c)
  /\ user' = [user EXCEPT ![c] = "returned"]
  /\ UNCHANGED <<gvars, method, wire, route, sendErr, result, closed>>

----
\* Between the two sides.

\* A handler starts: StartRPC of GrpcServer, for a request that has arrived.
Dispatch(c) ==
  /\ wire[c] = "request" /\ StartRPC(c)
  /\ route' = [route EXCEPT ![c] = Route(FullMethodName(method[c]))]
  /\ wire' = [wire EXCEPT ![c] = "handling"]
  /\ UNCHANGED <<method, user, sendErr, result, closed>>

Decided(c, status) ==
  /\ wire' = [wire EXCEPT ![c] = "over"]
  /\ result' = [result EXCEPT ![c] = status]
Ends(c, status) == Decided(c, status) /\ UNCHANGED <<method, user, route, sendErr, closed>>

\* GOAWAY crosses a request: the client tries another connection and finds none.
Refused(c) ==
  /\ wire[c] = "request" /\ graceful = "draining" /\ Ends(c, GivenUp("Unavailable"))
  /\ UNCHANGED gvars

\* HandlerReturns of GrpcServer: the stub's status goes out, if there is still a way.
Answer(c) ==
  /\ HandlerReturns(c) /\ UNCHANGED <<method, user, route, sendErr, result, closed>>
  /\ wire' = [wire EXCEPT ![c] = IF @ = "handling" THEN "status" ELSE @]

StatusArrives(c) ==
  /\ wire[c] = "status" /\ conn[c] = "open"
  /\ Ends(c, StatusOf(route[c]))
  /\ UNCHANGED gvars

\* The connection breaks before the status has arrived.
Breaks(c) ==
  /\ wire[c] \in {"request", "handling", "status"} /\ conn[c] = "gone"
  /\ Ends(c, GivenUp("Unavailable")) /\ UNCHANGED gvars

\* The client closes its side after GOAWAY, once it has no call on it.
MayClose(c) == graceful = "draining" /\ wire[c] \in {"none", "over"}
LeaveAfterGoAway(c) == MayClose(c) /\ ClientCloses(c) /\ UNCHANGED callVars

\* conn.Close: whatever is on the connection is cancelled.  The connection may be lost
\* already, which matters to a call that is not decided.
HangUp(c) ==
  /\ c \notin closed /\ closed' = closed \union {c}
  /\ ClientCloses(c) \/ (conn[c] = "gone" /\ wire[c] # "over" /\ UNCHANGED gvars)
  /\ IF wire[c] \in {"request", "handling", "status"} THEN Decided(c, GivenUp("Canceled"))
                                                      ELSE UNCHANGED <<wire, result>>
  /\ UNCHANGED <<method, user, route, sendErr>>

----
CallerStep(c) == Send(c) \/ CloseSend(c) \/ Recv(c)
WireStep(c) == Dispatch(c) \/ Refused(c) \/ Answer(c) \/ StatusArrives(c) \/ Breaks(c)

ServerStep ==
  /\ \/ ServeCall \/ GAcceptFails \/ GracefulStop \/ Stop \/ GProgress
     \/ \E c \in Conns : Accept(c) \/ HandshakeEnds(c)
  /\ UNCHANGED callVars

CNext ==
  \/ ServerStep
  \/ \E c \in Conns :
       \/ CallerStep(c) \/ WireStep(c) \/ LeaveAfterGoAway(c) \/ HangUp(c)
       \/ \E m \in Methods : Call(c, m) \/ CallFails(c, m)

\* The caller goes on, a handler that runs returns, and what is sent arrives.
CSpec ==
  CInit /\ [][CNext]_cvars /\ \A c \in Conns : WF_cvars(CallerStep(c)) /\ WF_cvars(WireStep(c))

----
\* An Unimplemented that a caller sees was given by the stub of the RPC it called, never
\* by grpc-go for a path without a handler, which has the same code: the tests of the
\* adapter cannot tell the two apart (server_test.go:67-79).
AnsweredByItsMethod ==
  \A c \in Conns : user[c] = "returned" /\ result[c].code = "Unimplemented" => result[c].by = method[c]

\* A graceful stop loses no answer: a call whose handler has started fails with the
\* status of the stub unless Stop cut its connection or the client hung up.
DrainLosesNoAnswer ==
  \A c \in Conns : user[c] = "returned" /\ result[c].code = "Unavailable" /\ route[c] # None =>
    forced # "none"

\* The promise of CallContract, kept: the answer of the stub, the end of the connection,
\* GOAWAY and the caller's own hanging up race for a call, and one of them decides it for
\* good (grpc.pb.go:62-147).
Phase(c) ==
  IF user[c] \in {"idle", "returned"} THEN user[c] ELSE IF wire[c] = "over" THEN "decided" ELSE "begun"
K == INSTANCE CallContract WITH
  Calls <- Conns, RPCs <- Methods,
  phase <- [c \in Conns |-> Phase(c)], rpc <- method, status <- result
KeepsContract == K!KSpec

\* Every call comes back to its caller, however the answer races with Send, CloseSend
\* and the two stops (grpc.pb.go:62-113, server_test.go:98-121).
CallsReturn == \A c \in Conns : user[c] \in {"send", "receive"} ~> user[c] = "returned"
====
