---- MODULE HsmDocCallsProofs ----
(***************************************************************************)
(* Proofs about HsmDocCalls, for any number of connections: every answer   *)
(* comes from the stub of the RPC that was called, a graceful stop loses   *)
(* none, and each call is decided once, as CallContract says.              *)
(***************************************************************************)
EXTENDS HsmDocCalls, AdapterProofs

\* The descriptor has four entries, and no two of them the same name.
LEMMA Descriptor ==
  /\ Len(ServiceDesc.rpcs) = 4
  /\ ServiceDesc.rpcs[1] = [name |-> "ListKeys", handler |-> "ListKeys"]
  /\ ServiceDesc.rpcs[2] = [name |-> "Health", handler |-> "Health"]
  /\ ServiceDesc.rpcs[3] = [name |-> "Encrypt", handler |-> "Encrypt"]
  /\ ServiceDesc.rpcs[4] = [name |-> "Decrypt", handler |-> "Decrypt"]
BY DEF ServiceDesc, UnaryDesc, StreamDesc

\* The path of each RPC leads to its own handler.
LEMMA RouteIsMethod ==
  ASSUME NEW m \in Methods
  PROVE  Route(FullMethodName(m)) = m
<1> DEFINE rpcs == ServiceDesc.rpcs
           found == {i \in 1 .. Len(rpcs) : FullMethodName(m) = <<ServiceDesc.service, rpcs[i].name>>}
<1>1. ServiceDesc.service = Service
  BY DEF ServiceDesc
<1>2. found = {i \in 1 .. 4 : m = rpcs[i].name}
  BY <1>1, Descriptor DEF FullMethodName
<1>3. \A i \in 1 .. 4 : rpcs[i].handler = rpcs[i].name
  BY Descriptor
<1>4. \E i \in 1 .. 4 : rpcs[i].name = m
  BY Descriptor DEF Methods
<1> HIDE DEF rpcs
<1>5. found # {} /\ \A i \in found : rpcs[i].handler = m
  BY <1>2, <1>3, <1>4
<1>6. (CHOOSE i \in found : TRUE) \in found
  BY <1>5
<1>. QED
  BY <1>5, <1>6 DEF Route, rpcs
----
\* What a call can end with.
Statuses ==
  [code : {"Unimplemented"}, by : Methods] \union [code : {"Unavailable", "Canceled"}, by : {"client"}]

CTypeOK ==
  /\ method \in [Conns -> Methods \union {None}]
  /\ user \in [Conns -> {"idle", "send", "close", "receive", "returned"}]
  /\ wire \in [Conns -> {"none", "request", "handling", "status", "over"}]
  /\ route \in [Conns -> Methods \union {None}]
  /\ sendErr \in [Conns -> {None, "nil", "EOF"}]
  /\ result \in [Conns -> Statuses \union {NoResult}] /\ closed \subseteq Conns

\* The two ends of a call agree on how far it is: before it begins there is nothing of
\* it, and it is decided exactly when it is over, by its own handler if by any.
AgreeInv(c) ==
  /\ user[c] = "idle" <=> wire[c] = "none"
  /\ user[c] = "idle" <=> method[c] = None
  /\ user[c] = "returned" => wire[c] = "over"
  /\ wire[c] = "over" <=> result[c] # NoResult
  /\ wire[c] \in {"none", "request"} => route[c] = None
  /\ wire[c] \in {"handling", "status"} => route[c] = method[c]
  /\ route[c] \in {None, method[c]}
  /\ result[c].code = "Unimplemented" => result[c].by = method[c]

\* A call needs an established connection, and once a handler has run for it, only Stop
\* takes the connection away without deciding the call.
CutInv(c) ==
  /\ wire[c] \in {"request", "handling", "status"} => conn[c] \in {"open", "gone"}
  /\ wire[c] \in {"handling", "status"} /\ conn[c] = "gone" => forced # "none"
  /\ result[c].code = "Unavailable" /\ route[c] # None => forced # "none"

CInv == GInv /\ CTypeOK /\ \A c \in Conns : AgreeInv(c) /\ CutInv(c)

----
\* The calls use the server as GrpcServer allows: none of their steps is a step that a
\* client and the two stops could not take.
LEMMA StepsOfServer == CNext => [GNext]_gvars
<1> SUFFICES ASSUME CNext PROVE [GNext]_gvars
  OBVIOUS
<1> USE DEF GNext, GProgress, GEnvironment
<1>1. CASE ServerStep
  BY <1>1 DEF ServerStep
<1>2. ASSUME NEW c \in Conns, WireStep(c) PROVE [GNext]_gvars
  BY <1>2 DEF WireStep, Dispatch, Refused, Answer, StatusArrives, Breaks
<1>3. ASSUME NEW c \in Conns, CallerStep(c) PROVE UNCHANGED gvars
  BY <1>3 DEF CallerStep, Send, CloseSend, Recv
<1>4. ASSUME NEW c \in Conns, LeaveAfterGoAway(c) \/ HangUp(c) PROVE [GNext]_gvars
  BY <1>4 DEF LeaveAfterGoAway, HangUp
<1>5. ASSUME NEW c \in Conns, NEW m \in Methods, Call(c, m) \/ CallFails(c, m) PROVE UNCHANGED gvars
  BY <1>5 DEF Call, CallFails
<1>. QED
  BY <1>1, <1>2, <1>3, <1>4, <1>5 DEF CNext

\* What the server does to the connections by itself: an established one stays, or Stop
\* has been called; one that is gone stays so.
LEMMA ServerKeepsConnections ==
  ASSUME GTypeOK, ServerStep
  PROVE  /\ forced # "none" => forced' # "none"
         /\ \A c \in Conns : /\ conn[c] = "gone" => conn'[c] = "gone"
                             /\ conn[c] = "open" => conn'[c] = "open" \/ (conn'[c] = "gone" /\ forced' # "none")
<1> USE DEF GTypeOK, gvars, stopVars, connVars
<1>1. CASE ServeCall \/ GAcceptFails \/ AcceptStops \/ ServeReturnsNil
  BY <1>1 DEF ServeCall, GAcceptFails, AcceptStops, ServeReturnsNil
<1>2. CASE GracefulStop \/ GracefulDrains \/ GracefulDone \/ Stop \/ StopDone
  BY <1>2 DEF GracefulStop, GracefulDrains, GracefulDone, Stop, StopDone
<1>3. CASE StopCuts
  BY <1>3 DEF StopCuts
<1>4. ASSUME NEW d \in Conns, Accept(d) \/ HandshakeEnds(d) PROVE
         /\ forced' = forced
         /\ \A c \in Conns : conn[c] \in {"gone", "open"} => conn'[c] = conn[c]
  BY <1>4 DEF Accept, HandshakeEnds
<1>. QED
  BY <1>1, <1>2, <1>3, <1>4 DEF ServerStep, GProgress

LEMMA CallsInvariant == CSpec => []CInv
<1>1. CInit => CInv
  BY GInitInv DEF CInit, CInv, CTypeOK, AgreeInv, CutInv, Statuses, NoResult, None, Methods
<1>2. CInv /\ [CNext]_cvars => CInv'
  <2> SUFFICES ASSUME CInv, [CNext]_cvars PROVE CInv'
    OBVIOUS
  <2> DEFINE Kept == CTypeOK' /\ \A c \in Conns : AgreeInv(c)' /\ CutInv(c)'
  <2>1. GInv'
    BY StepsOfServer, GStepInv DEF CInv, cvars
  <2>2. conn \in [Conns -> GConnSts] /\ forced \in StopPCs
    BY DEF CInv, GInv, GTypeOK
  <2> USE DEF CTypeOK, AgreeInv, CutInv, callVars, gvars, stopVars, connVars
  <2>3. ASSUME ServerStep PROVE Kept
    <3>1. UNCHANGED callVars
      BY <2>3 DEF ServerStep
    <3>2. GTypeOK
      BY DEF CInv, GInv
    <3>3. /\ forced # "none" => forced' # "none"
          /\ \A c \in Conns : /\ conn[c] = "gone" => conn'[c] = "gone"
                              /\ conn[c] = "open" => conn'[c] = "open" \/ (conn'[c] = "gone" /\ forced' # "none")
      BY <2>3, <3>2, ServerKeepsConnections
    <3>. QED
      BY <3>1, <3>3 DEF CInv
  <2>4. ASSUME NEW c \in Conns, NEW m \in Methods, Call(c, m) PROVE Kept
    BY <2>4 DEF CInv, Call, Methods, None, NoResult
  <2>5. ASSUME NEW c \in Conns, NEW m \in Methods, CallFails(c, m) PROVE Kept
    BY <2>5 DEF CInv, CallFails, GivenUp, Statuses, Methods, None, NoResult
  <2>6. ASSUME NEW c \in Conns, CallerStep(c) PROVE Kept
    BY <2>6 DEF CInv, CallerStep, Send, CloseSend, Recv
  <2>7. ASSUME NEW c \in Conns, Dispatch(c) PROVE Kept
    <3>1. method[c] \in Methods /\ Route(FullMethodName(method[c])) = method[c]
      BY <2>7, RouteIsMethod DEF CInv, Dispatch
    <3>2. /\ wire[c] = "request" /\ wire' = [wire EXCEPT ![c] = "handling"]
          /\ route' = [route EXCEPT ![c] = method[c]]
          /\ conn[c] = "open" /\ UNCHANGED <<method, user, sendErr, result, closed, conn, forced>>
      BY <2>7, <3>1 DEF Dispatch, StartRPC
    <3>. QED
      BY <3>1, <3>2 DEF CInv, NoResult
  <2>8. ASSUME NEW c \in Conns, Refused(c) PROVE Kept
    BY <2>8 DEF CInv, Refused, Ends, Decided, GivenUp, Statuses, NoResult
  <2>9. ASSUME NEW c \in Conns, Answer(c) PROVE Kept
    BY <2>9 DEF CInv, Answer, HandlerReturns
  <2>10. ASSUME NEW c \in Conns, StatusArrives(c) PROVE Kept
    <3>1. method[c] \in Methods /\ route[c] = method[c]
      BY <2>10 DEF CInv, StatusArrives
    <3>2. StatusOf(route[c]) = [code |-> "Unimplemented", by |-> method[c]]
      BY <3>1 DEF StatusOf, Methods
    <3>. QED
      BY <2>10, <3>1, <3>2 DEF CInv, StatusArrives, Ends, Decided, Statuses, NoResult
  <2>11. ASSUME NEW c \in Conns, Breaks(c) PROVE Kept
    BY <2>11 DEF CInv, Breaks, Ends, Decided, GivenUp, Statuses, NoResult
  <2>12. ASSUME NEW c \in Conns, LeaveAfterGoAway(c) PROVE Kept
    BY <2>12 DEF CInv, LeaveAfterGoAway, MayClose, ClientCloses
  <2>13. ASSUME NEW c \in Conns, HangUp(c) PROVE Kept
    BY <2>13, <2>2 DEF CInv, HangUp, ClientCloses, Decided, GivenUp, Statuses, NoResult
  <2>14. ASSUME UNCHANGED cvars PROVE Kept
    BY <2>14 DEF CInv, cvars
  <2>15. Kept
    BY <2>3, <2>4, <2>5, <2>6, <2>7, <2>8, <2>9, <2>10, <2>11, <2>12, <2>13, <2>14
       DEF CNext, WireStep
  <2>. QED
    BY <2>1, <2>15 DEF CInv
<1>. QED
  BY <1>1, <1>2, PTL DEF CSpec

\* No Unimplemented that a caller sees comes from grpc-go, for a path without a handler,
\* or from the stub of another RPC: all the paths of the client and of the descriptor agree.
THEOREM AnswersAreOwn == CSpec => []AnsweredByItsMethod
<1>1. CInv => AnsweredByItsMethod
  BY DEF CInv, AgreeInv, AnsweredByItsMethod
<1>. QED
  BY <1>1, CallsInvariant, PTL

\* GracefulStop alone never costs a caller the answer of a handler that has started.
THEOREM NoAnswerLost == CSpec => []DrainLosesNoAnswer
<1>1. CInv => DrainLosesNoAnswer
  BY DEF CInv, CutInv, DrainLosesNoAnswer
<1>. QED
  BY <1>1, CallsInvariant, PTL

----
\* What changes how far one call is, for CallContract, changes nothing of the others.
LEMMA PhaseOf ==
  ASSUME NEW c \in Conns, NEW x, Phase(c)' = x, \A d \in Conns \ {c} : Phase(d)' = Phase(d)
  PROVE  [d \in Conns |-> Phase(d)]' = [[d \in Conns |-> Phase(d)] EXCEPT ![c] = x]
OBVIOUS

\* A call is decided where its result is written, and nowhere else.
LEMMA DecidedOnce ==
  ASSUME CInv, NEW c \in Conns, NEW s, Decided(c, s), UNCHANGED <<method, user>>, wire[c] \in {"request", "handling", "status"},
         s \in K!GivenUpStatuses \union {K!Unimplemented(method[c])}
  PROVE  K!Decide(c)
<1>1. /\ wire' = [wire EXCEPT ![c] = "over"] /\ result' = [result EXCEPT ![c] = s]
      /\ UNCHANGED <<method, user>>
  BY DEF Decided
<1>2. Phase(c) = "begun" /\ Phase(c)' = "decided"
  BY <1>1 DEF Phase, CInv, CTypeOK, AgreeInv
<1>3. \A d \in Conns \ {c} : Phase(d)' = Phase(d)
  BY <1>1 DEF Phase, CInv, CTypeOK
<1>4. [d \in Conns |-> Phase(d)]' = [[d \in Conns |-> Phase(d)] EXCEPT ![c] = "decided"]
  BY <1>2, <1>3, PhaseOf
<1>5. [d \in Conns |-> Phase(d)][c] = "begun"
  BY <1>2
<1>. QED
  BY <1>1, <1>4, <1>5 DEF K!Decide

\* Between its beginning and its end a call may make progress that the contract does
\* not see.
LEMMA Unseen ==
  ASSUME UNCHANGED <<method, result>>, \A d \in Conns : Phase(d)' = Phase(d)
  PROVE  UNCHANGED K!kvars
BY DEF K!kvars

\* Every step is one that the contract allows, or none.
LEMMA ContractStep == CInv /\ [CNext]_cvars => [K!KNext]_(K!kvars)
<1> SUFFICES ASSUME CInv, [CNext]_cvars PROVE [K!KNext]_(K!kvars)
  OBVIOUS
<1> USE DEF callVars
<1>1. ASSUME ServerStep \/ UNCHANGED cvars PROVE UNCHANGED K!kvars
  BY <1>1, Unseen DEF ServerStep, cvars, Phase
<1>2. ASSUME NEW c \in Conns, NEW m \in Methods, Call(c, m) PROVE K!Begin(c, m)
  <2>1. /\ user' = [user EXCEPT ![c] = IF Streaming(m) THEN "send" ELSE "receive"]
        /\ wire' = [wire EXCEPT ![c] = "request"] /\ user[c] = "idle"
        /\ method' = [method EXCEPT ![c] = m] /\ result' = result
    BY <1>2 DEF Call
  <2>2. Phase(c)' = "begun" /\ \A d \in Conns \ {c} : Phase(d)' = Phase(d)
    BY <2>1 DEF Phase, CInv, CTypeOK
  <2>3. [d \in Conns |-> Phase(d)]' = [[d \in Conns |-> Phase(d)] EXCEPT ![c] = "begun"]
    BY <2>2, PhaseOf
  <2>. QED
    BY <2>1, <2>3 DEF K!Begin, Phase
<1>3. ASSUME NEW c \in Conns, NEW m \in Methods, CallFails(c, m) PROVE K!Fail(c, m)
  <2>1. /\ user' = [user EXCEPT ![c] = "returned"] /\ user[c] = "idle"
        /\ wire' = [wire EXCEPT ![c] = "over"] /\ method' = [method EXCEPT ![c] = m]
        /\ result' = [result EXCEPT ![c] = GivenUp(IF c \in closed THEN "Canceled" ELSE "Unavailable")]
    BY <1>3 DEF CallFails
  <2>2. Phase(c)' = "returned" /\ \A d \in Conns \ {c} : Phase(d)' = Phase(d)
    BY <2>1 DEF Phase, CInv, CTypeOK
  <2>3. [d \in Conns |-> Phase(d)]' = [[d \in Conns |-> Phase(d)] EXCEPT ![c] = "returned"]
    BY <2>2, PhaseOf
  <2>4. GivenUp(IF c \in closed THEN "Canceled" ELSE "Unavailable") \in K!GivenUpStatuses
    BY DEF GivenUp, K!GivenUpStatuses
  <2>. QED
    BY <2>1, <2>3, <2>4 DEF K!Fail, Phase
<1>4. ASSUME NEW c \in Conns, Recv(c) PROVE K!Return(c)
  <2>1. /\ user' = [user EXCEPT ![c] = "returned"] /\ user[c] = "receive" /\ wire[c] = "over"
        /\ UNCHANGED <<method, wire, result>>
    BY <1>4 DEF Recv
  <2>2. Phase(c)' = "returned" /\ \A d \in Conns \ {c} : Phase(d)' = Phase(d)
    BY <2>1 DEF Phase, CInv, CTypeOK
  <2>3. [d \in Conns |-> Phase(d)]' = [[d \in Conns |-> Phase(d)] EXCEPT ![c] = "returned"]
    BY <2>2, PhaseOf
  <2>. QED
    BY <2>1, <2>3 DEF K!Return, Phase
<1>5. ASSUME NEW c \in Conns, Send(c) \/ CloseSend(c) PROVE UNCHANGED K!kvars
  BY <1>5, Unseen DEF Send, CloseSend, Phase, CInv, CTypeOK
<1>6. ASSUME NEW c \in Conns, Dispatch(c) \/ Answer(c) PROVE UNCHANGED K!kvars
  BY <1>6, Unseen DEF Dispatch, Answer, Phase, CInv, CTypeOK
<1>7. GivenUp("Unavailable") \in K!GivenUpStatuses /\ GivenUp("Canceled") \in K!GivenUpStatuses
  BY DEF GivenUp, K!GivenUpStatuses
<1>8. ASSUME NEW c \in Conns, Refused(c) \/ Breaks(c) PROVE K!Decide(c)
  BY <1>7, <1>8, DecidedOnce DEF Refused, Breaks, Ends
<1>9. ASSUME NEW c \in Conns, StatusArrives(c) PROVE K!Decide(c)
  <2>1. StatusOf(route[c]) = K!Unimplemented(method[c])
    BY <1>9 DEF StatusArrives, StatusOf, K!Unimplemented, CInv, CTypeOK, AgreeInv, Methods
  <2>. QED
    BY <1>9, <2>1, DecidedOnce DEF StatusArrives, Ends
<1>10. ASSUME NEW c \in Conns, LeaveAfterGoAway(c) PROVE UNCHANGED K!kvars
  BY <1>10, Unseen DEF LeaveAfterGoAway, Phase
<1>11. ASSUME NEW c \in Conns, HangUp(c) PROVE K!Decide(c) \/ UNCHANGED K!kvars
  <2>1. CASE wire[c] \in {"request", "handling", "status"}
    BY <1>7, <1>11, <2>1, DecidedOnce DEF HangUp
  <2>2. CASE wire[c] \notin {"request", "handling", "status"}
    BY <1>11, <2>2, Unseen DEF HangUp, Phase
  <2>. QED
    BY <2>1, <2>2
<1>. QED
  BY <1>1, <1>2, <1>3, <1>4, <1>5, <1>6, <1>8, <1>9, <1>10, <1>11
     DEF CNext, CallerStep, WireStep, K!KNext

\* Any number of calls, racing with one another, with the stops and with their own
\* connections, keep the contract: each is decided once and returns what was decided.
THEOREM CallsKeepContract == CSpec => KeepsContract
<1>1. CInit => K!KInit
  BY DEF CInit, K!KInit, Phase, None, NoResult, K!NoRPC, K!Undecided
<1>2. CInv /\ [CNext]_cvars => [K!KNext]_(K!kvars)
  BY ContractStep
<1>. QED
  BY <1>1, <1>2, CallsInvariant, PTL DEF CSpec, KeepsContract, K!KSpec

\* Calls are clients of the server that serveAll runs: whatever is proved of GrpcServer
\* for any clients holds beside them.
THEOREM CallsUseServer == CSpec => GInit /\ [][GNext]_gvars
<1>1. CInit => GInit
  BY DEF CInit
<1>2. [CNext]_cvars => [GNext]_gvars
  BY StepsOfServer DEF cvars
<1>. QED
  BY <1>1, <1>2, PTL DEF CSpec
====
