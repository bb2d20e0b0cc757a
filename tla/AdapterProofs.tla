---- MODULE AdapterProofs ----
(***************************************************************************)
(* Proofs about the two driving adapters, HealthAdapter and GrpcServer:    *)
(* the inductive invariant of each, on which the proofs of what is composed*)
(* of them (ServeAll, HsmDocCalls) rest, and the theorems about the health *)
(* adapter alone.                                                          *)
(***************************************************************************)
EXTENDS HealthAdapter, GrpcServer, TLAPS

----
\* The health adapter.  HInv is its inductive invariant; the parts say what each side
\* of errCh knows of the other.

\* errCh holds what Serve returned from the moment the goroutine sends it until
\* Run takes it, and Run takes it exactly once, when it returns.
ChannelInv ==
  /\ runPC = "new" <=> srvGo = "new"
  /\ srvGo # "done" => errCh = <<>>
  /\ srvGo = "done" /\ runPC # "returned" => errCh = <<srvErr>>
  /\ runPC = "returned" => srvGo = "done" /\ errCh = <<>>

\* Serve returns ErrServerClosed only to a server that was shut down, and has
\* closed the listener when it returns.
ServeInv ==
  /\ srvGo \notin {"returned", "done"} => srvErr = {}
  /\ srvGo \in {"returned", "done"} => ~hln /\ (srvErr = {} => httpDown)

\* Shutdown is called once, after the cancellation, and its error is set by its
\* timeout alone.
ShutdownInv ==
  /\ runPC \in {"new", "select"} => ~httpDown
  /\ runPC \in {"shutdown", "polling", "recv"} => httpDown
  /\ httpDown => ctxDone
  /\ runPC \in {"new", "select", "shutdown", "polling"} => shutErr = {}

\* Once a round of Shutdown has run no connection can appear; once it has
\* returned nil none is left.
DrainInv ==
  /\ httpDown /\ runPC \in {"polling", "recv", "returned"} => ~Tracked
  /\ httpDown /\ runPC \in {"recv", "returned"} /\ shutErr = {} => Open = {}

HInv ==
  /\ HTypeOK /\ ChannelInv /\ ServeInv /\ ShutdownInv /\ DrainInv
  /\ ReportsEveryFailure

----
\* The initial state satisfies the invariant.
LEMMA HInitInv == HInit => HInv
BY DEF HInit, HInv, HTypeOK, ChannelInv, ServeInv, ShutdownInv, DrainInv,
       ReportsEveryFailure, RunPCs, SrvPCs, ConnSts, HFailures, Tracked, Open

\* Every step of the adapter, and every step that leaves it alone, preserves the
\* invariant; stated without the temporal operators so that ServeAll can use it.
LEMMA HStepInv == HInv /\ [HNext]_hvars => HInv'
<1> SUFFICES ASSUME HInv, [HNext]_hvars PROVE HInv'
  OBVIOUS
<1> USE DEF HInv, HTypeOK, ChannelInv, ServeInv, ShutdownInv, DrainInv,
            ReportsEveryFailure, RunPCs, SrvPCs, ConnSts, HFailures,
            hvars, runVars, goVars, httpVars, Tracked, Open, Busy
<1>1. CASE RunStart
  BY <1>1 DEF RunStart
<1>2. CASE RunSeesCancel
  BY <1>2 DEF RunSeesCancel
<1>3. CASE ShutdownPoll
  BY <1>3 DEF ShutdownPoll
<1>4. CASE ShutdownTimesOut
  BY <1>4 DEF ShutdownTimesOut
<1>5. CASE RunReceives
  <2>1. errCh = <<srvErr>>
    BY <1>5 DEF RunReceives
  <2>2. Head(errCh) = srvErr /\ Tail(errCh) = <<>>
    BY <2>1
  <2>. QED
    BY <1>5, <2>2 DEF RunReceives
<1>6. CASE RunSeesServeError
  <2>1. errCh = <<srvErr>>
    BY <1>6 DEF RunSeesServeError
  <2>2. Head(errCh) = srvErr /\ Tail(errCh) = <<>>
    BY <2>1
  <2>. QED
    BY <1>6, <2>2 DEF RunSeesServeError
<1>7. CASE ServeSends
  <2>1. errCh = <<>>
    BY <1>7 DEF ServeSends
  <2>2. errCh' = <<srvErr>>
    BY <1>7, <2>1 DEF ServeSends
  <2>3. srvErr = {} \/ srvErr = {"serve"}
    OBVIOUS
  <2>. QED
    BY <1>7, <2>2, <2>3 DEF ServeSends
<1>8. CASE ServeEnter
  BY <1>8 DEF ServeEnter
<1>9. ASSUME NEW c \in HConns, ServeAccepts(c) PROVE HInv'
  BY <1>9 DEF ServeAccepts
<1>10. ASSUME NEW c \in HConns, ServeTracksConn(c) PROVE HInv'
  BY <1>10 DEF ServeTracksConn
<1>11. CASE AcceptFails
  BY <1>11 DEF AcceptFails
<1>12. CASE ServeStops
  BY <1>12 DEF ServeStops
<1>13. ASSUME NEW c \in HConns, HandlerDone(c) PROVE HInv'
  BY <1>13 DEF HandlerDone
<1>14. ASSUME NEW c \in HConns, ClientUses(c) PROVE HInv'
  BY <1>14 DEF ClientUses
<1>15. CASE Cancel
  BY <1>15 DEF Cancel
<1>16. CASE UNCHANGED hvars
  BY <1>16
<1>17. QED
  BY <1>1, <1>2, <1>3, <1>4, <1>5, <1>6, <1>7, <1>8, <1>9, <1>10, <1>11, <1>12, <1>13, <1>14, <1>15, <1>16 DEF HNext, HProgress, HEnvironment

----
\* The invariant holds of every behaviour of the adapter.
THEOREM HInvariant == HSpec => []HInv
<1>1. HInit => HInv
  BY HInitInv
<1>2. HInv /\ [HNext]_hvars => HInv'
  BY HStepInv
<1>. QED
  BY <1>1, <1>2, PTL DEF HSpec

\* Type correctness of the adapter.
THEOREM HTypeCorrect == HSpec => []HTypeOK
<1>1. HInv => HTypeOK
  BY DEF HInv
<1>. QED
  BY <1>1, HInvariant, PTL

\* Whatever makes Run return, the goroutine it spawned is over and the listener
\* is closed: the caller of health.Run accumulates no leak.
THEOREM ReturnIsQuiet == HSpec => []ReturnedIsQuiet
<1>1. HInv => ReturnedIsQuiet
  BY DEF HInv, ChannelInv, ServeInv, ReturnedIsQuiet
<1>. QED
  BY <1>1, HInvariant, PTL

\* Run returns exactly the errors of Serve and of Shutdown, in every race of the
\* cancellation with an accept error.
THEOREM EveryFailureReported == HSpec => []ReportsEveryFailure
<1>1. HInv => ReportsEveryFailure
  BY DEF HInv
<1>. QED
  BY <1>1, HInvariant, PTL

\* A nil result is the proof of an orderly shutdown: the context was cancelled
\* and no connection is left open.
THEOREM NilIsDrained == HSpec => []NilMeansDrained
<1>1. HInv => NilMeansDrained
  BY DEF HInv, ChannelInv, ServeInv, ShutdownInv, DrainInv, ReportsEveryFailure,
         NilMeansDrained
<1>. QED
  BY <1>1, HInvariant, PTL

----
\* The gRPC server.

\* A listener that Serve has left is closed, and quit says that a stop was called.
ListenerInv ==
  /\ serve \notin {"new", "serving"} => ~lis
  /\ quit <=> graceful # "none" \/ forced # "none"

\* From the drain on no connection can appear, and a completed GracefulStop has
\* left neither a connection nor a handler.
GracefulInv ==
  /\ graceful \in {"draining", "done"} => ServersReady
  /\ graceful = "done" => Live = {} /\ handlers = {}

GInv == GTypeOK /\ ListenerInv /\ GracefulInv

\* The initial state satisfies the invariant.
LEMMA GInitInv == GInit => GInv
BY DEF GInit, GInv, GTypeOK, ListenerInv, GracefulInv, ServePCs, StopPCs, GConnSts

\* Every step of the server, and every step that leaves it alone, preserves it.
LEMMA GStepInv == GInv /\ [GNext]_gvars => GInv'
<1> SUFFICES ASSUME GInv, [GNext]_gvars PROVE GInv'
  OBVIOUS
<1> USE DEF GInv, GTypeOK, ListenerInv, GracefulInv, ServePCs, StopPCs, GConnSts,
            gvars, stopVars, connVars, Live, ServersReady
<1>1. CASE ServeCall
  BY <1>1 DEF ServeCall
<1>2. CASE GracefulStop
  BY <1>2 DEF GracefulStop, CloseListeners
<1>3. CASE Stop
  BY <1>3 DEF Stop, CloseListeners
<1>4. CASE AcceptStops
  BY <1>4 DEF AcceptStops
<1>5. CASE ServeReturnsNil
  BY <1>5 DEF ServeReturnsNil
<1>6. CASE GracefulDrains
  BY <1>6 DEF GracefulDrains
<1>7. CASE GracefulDone
  BY <1>7 DEF GracefulDone
<1>8. CASE StopCuts
  BY <1>8 DEF StopCuts
<1>9. CASE StopDone
  BY <1>9 DEF StopDone
<1>10. CASE GAcceptFails
  BY <1>10 DEF GAcceptFails
<1>11. ASSUME NEW c \in Conns, Accept(c) PROVE GInv'
  BY <1>11 DEF Accept
<1>12. ASSUME NEW c \in Conns, StartRPC(c) PROVE GInv'
  BY <1>12 DEF StartRPC
<1>13. ASSUME NEW c \in Conns, ClientCloses(c) PROVE GInv'
  BY <1>13 DEF ClientCloses
<1>14. ASSUME NEW c \in Conns, HandshakeEnds(c) PROVE GInv'
  BY <1>14 DEF HandshakeEnds
<1>15. ASSUME NEW c \in Conns, HandlerReturns(c) PROVE GInv'
  BY <1>15 DEF HandlerReturns
<1>16. CASE UNCHANGED gvars
  BY <1>16
<1>17. QED
  BY <1>1, <1>2, <1>3, <1>4, <1>5, <1>6, <1>7, <1>8, <1>9, <1>10, <1>11, <1>12, <1>13, <1>14, <1>15, <1>16 DEF GNext, GProgress, GEnvironment
====
