---- MODULE ServeAllProofs ----
(***************************************************************************)
(* Proofs about ServeAll: nothing is left when serveAll returns, no failure*)
(* is silent, and every step is one that Lifecycle allows.  Inv joins the  *)
(* invariants of the two servers with what the three goroutines know of    *)
(* one another.                                                            *)
(***************************************************************************)
EXTENDS ServeAll, AdapterProofs, SequenceTheorems

\* The goroutines exist once serveAll has left its first lines, and what a
\* goroutine waits for is over when it is done.
GoInv ==
  /\ mainPC = "spawn" <=> grpcGo = "none"
  /\ grpcGo = "none" <=> healthGo = "none"
  /\ grpcGo = "none" => serve = "new"
  /\ grpcGo = "done" => serve \in {"nil", "stopped", "err"}
  /\ healthGo = "none" => runPC = "new"
  /\ healthGo = "done" => runPC = "returned"

\* How far shutdownGRPC is, seen from the main goroutine; runCtx is done by then.
StopInv ==
  /\ sig \/ mainPC \notin {"spawn", "select"} => ctxDone
  /\ graceful # "none" => mainPC \in {"grace", "forced", "wait", "returned"}
  /\ forced # "none" => mainPC \in {"forced", "wait", "returned"}
  /\ mainPC \in {"wait", "returned"} => graceful = "done"
  /\ mainPC = "returned" => grpcGo = "done" /\ healthGo = "done"

\* What each goroutine has handed to sendErr.
GrpcSent   == IF grpcGo = "done" /\ serve = "err" THEN {"grpc"} ELSE {}
HealthSent == IF healthGo = "done" THEN hresult ELSE {}
Sent       == GrpcSent \union HealthSent

\* Everything sent is in the channel, was taken or is in the result; nothing is
\* twice; and the channel has room for every goroutine that has not sent yet.
ChannelHolds ==
  IF mainPC = "returned"
  THEN errs = <<>> /\ Sent = taken \union result
  ELSE result = {} /\ Sent = taken \union UNION Range(errs)

NothingTwice ==
  /\ taken \intersect result = {}
  /\ \A i \in DOMAIN errs : errs[i] \intersect taken = {}
  /\ \A i, j \in DOMAIN errs : i # j => errs[i] \intersect errs[j] = {}
  /\ mainPC \in {"spawn", "select"} => taken = {}

Room == Len(errs) <= (IF grpcGo = "done" THEN 1 ELSE 0) + (IF healthGo = "done" THEN 1 ELSE 0)

MainInv == TypeOK /\ GoInv /\ StopInv /\ ChannelHolds /\ NothingTwice /\ Room

Inv == HInv /\ GInv /\ MainInv

----
\* Appending to a sequence of sets adds the new set to their union; taking the
\* head off splits the union.
LEMMA AppendUnion ==
  ASSUME NEW S, NEW s \in Seq(S), NEW e \in S
  PROVE  UNION Range(Append(s, e)) = e \union UNION Range(s)
<1>. DEFINE t == Append(s, e)
<1>1. DOMAIN t = DOMAIN s \union {Len(s) + 1} /\ t[Len(s) + 1] = e
  OBVIOUS
<1>2. \A i \in DOMAIN s : t[i] = s[i]
  OBVIOUS
<1>. HIDE DEF t
<1>3. ASSUME NEW i \in DOMAIN t PROVE t[i] \in Range(s) \union {e}
  BY <1>1, <1>2 DEF Range
<1>4. ASSUME NEW i \in DOMAIN s PROVE s[i] \in Range(t)
  BY <1>1, <1>2 DEF Range
<1>5. e \in Range(t)
  BY <1>1 DEF Range
<1>6. Range(t) = Range(s) \union {e}
  BY <1>3, <1>4, <1>5 DEF Range
<1>. QED
  BY <1>6 DEF t

LEMMA TailUnion ==
  ASSUME NEW S, NEW s \in Seq(S), s # <<>>
  PROVE  UNION Range(s) = Head(s) \union UNION Range(Tail(s))
<1>1. DOMAIN s = 1 .. Len(s) /\ Len(s) \in Nat \ {0} /\ Head(s) = s[1]
  OBVIOUS
<1>2. DOMAIN Tail(s) = 1 .. (Len(s) - 1) /\ \A i \in DOMAIN Tail(s) : Tail(s)[i] = s[i + 1]
  BY <1>1
<1>3. Range(s) = {Head(s)} \union Range(Tail(s))
  <2>1. ASSUME NEW i \in DOMAIN s PROVE s[i] \in {Head(s)} \union Range(Tail(s))
    <3>1. CASE i = 1
      BY <1>1, <3>1
    <3>2. CASE i # 1
      <4>1. i - 1 \in DOMAIN Tail(s) /\ Tail(s)[i - 1] = s[i]
        BY <1>1, <1>2, <3>2
      <4>. QED
        BY <4>1 DEF Range
    <3>. QED
      BY <3>1, <3>2
  <2>2. ASSUME NEW i \in DOMAIN Tail(s) PROVE Tail(s)[i] \in Range(s)
    <3>1. i + 1 \in DOMAIN s /\ Tail(s)[i] = s[i + 1]
      BY <1>1, <1>2
    <3>. QED
      BY <3>1 DEF Range
  <2>3. Head(s) \in Range(s)
    BY <1>1 DEF Range
  <2>. QED
    BY <2>1, <2>2, <2>3 DEF Range
<1>. QED
  BY <1>3

----
\* A step of the server process is a step of each of its two servers, or leaves
\* that server alone.
LEMMA ComponentSteps == TypeOK /\ [Next]_vars => [HNext]_hvars /\ [GNext]_gvars
<1> SUFFICES ASSUME TypeOK, [Next]_vars PROVE [HNext]_hvars /\ [GNext]_gvars
  OBVIOUS
<1> USE DEF TypeOK, HTypeOK, hvars, runVars, goVars, httpVars, HealthStep, GrpcStep
<1>1. CASE UNCHANGED vars
  BY <1>1 DEF vars
<1>2. CASE SpawnServers \/ SelectDone \/ ShutdownStart \/ GraceDone \/ ForcedDone \/ WaitAndCollect
  BY <1>2 DEF SpawnServers, SelectDone, ShutdownStart, GraceDone, ForcedDone, WaitAndCollect
<1>3. CASE SelectErr \/ Signal
  BY <1>3 DEF SelectErr, Signal, HNext, Cancel
<1>4. CASE GraceTimeout \/ GrpcServes \/ GraceRuns
  BY <1>4 DEF GraceTimeout, GrpcServes, GraceRuns, GNext
<1>5. CASE GrpcReports \/ HealthReports
  BY <1>5 DEF GrpcReports, HealthReports
<1>6. CASE HealthStarts \/ HealthStep(HProgress) \/ HealthStep(ShutdownTimesOut) \/ HealthStep(HEnvironment)
  BY <1>6 DEF HealthStarts, HNext
<1>7. CASE GrpcStep(GProgress) \/ GrpcStep(GEnvironment)
  BY <1>7 DEF GNext
<1>8. ASSUME NEW c \in Conns, GrpcStep(HandshakeEnds(c)) \/ Handler(c)
      PROVE  [HNext]_hvars /\ [GNext]_gvars
  BY <1>8 DEF GNext, Handler
<1>. QED
  BY <1>1, <1>2, <1>3, <1>4, <1>5, <1>6, <1>7, <1>8 DEF Next, Progress, Environment

\* What a step of the health adapter that serveAll does not take part in leaves
\* alone.
LEMMA HealthStable ==
  ASSUME HInv, HProgress \/ ShutdownTimesOut \/ HEnvironment
  PROVE  /\ ctxDone' = ctxDone
         /\ runPC = "new" => runPC' = "new"
         /\ runPC = "returned" => runPC' = "returned" /\ hresult' = hresult
<1> USE DEF HInv, ChannelInv, runVars, goVars, httpVars
<1>1. CASE RunSeesCancel \/ ShutdownPoll \/ ShutdownTimesOut \/ RunReceives \/ RunSeesServeError
  BY <1>1 DEF RunSeesCancel, ShutdownPoll, ShutdownTimesOut, RunReceives, RunSeesServeError
<1>2. CASE ServeSends \/ ServeEnter \/ ServeStops \/ AcceptFails
  BY <1>2 DEF ServeSends, ServeEnter, ServeStops, AcceptFails
<1>3. CASE \E c \in HConns : \/ ServeTracksConn(c) \/ ServeAccepts(c)
                            \/ HandlerDone(c) \/ ClientUses(c)
  BY <1>3 DEF ServeTracksConn, ServeAccepts, HandlerDone, ClientUses
<1>. QED
  BY <1>1, <1>2, <1>3 DEF HProgress, HEnvironment

\* The same for the gRPC server.
LEMMA GrpcStable ==
  ASSUME GProgress \/ GEnvironment \/ \E c \in Conns : HandshakeEnds(c) \/ HandlerReturns(c)
  PROVE  /\ graceful = "none" => graceful' = "none"
         /\ graceful = "done" => graceful' = "done"
         /\ forced = "none" => forced' = "none"
         /\ serve = "new" => serve' = "new"
         /\ serve \in {"nil", "stopped", "err"} => serve' = serve
<1> USE DEF stopVars, connVars
<1>1. CASE AcceptStops \/ ServeReturnsNil \/ GracefulDrains \/ GracefulDone \/ StopCuts \/ StopDone
  BY <1>1 DEF AcceptStops, ServeReturnsNil, GracefulDrains, GracefulDone, StopCuts, StopDone
<1>2. CASE GAcceptFails
  BY <1>2 DEF GAcceptFails
<1>3. CASE \E c \in Conns : \/ Accept(c) \/ StartRPC(c) \/ ClientCloses(c)
                           \/ HandshakeEnds(c) \/ HandlerReturns(c)
  BY <1>3 DEF Accept, StartRPC, ClientCloses, HandshakeEnds, HandlerReturns
<1>. QED
  BY <1>1, <1>2, <1>3 DEF GProgress, GEnvironment

----
\* The initial state satisfies the invariant.
LEMMA InitInv == Init => Inv
<1> SUFFICES ASSUME Init PROVE Inv
  OBVIOUS
<1>1. HInv /\ GInv
  BY HInitInv, GInitInv DEF Init
<1>2. errs = <<>> /\ Range(errs) = {} /\ Len(errs) = 0
  BY DEF Init, Range
<1>3. TypeOK
  <2>1. errs \in Seq((SUBSET Failures) \ {{}}) /\ Len(errs) <= ErrsCap
    BY <1>2, EmptySeq DEF ErrsCap
  <2>2. HTypeOK /\ GTypeOK
    BY <1>1 DEF HInv, GInv
  <2>. QED
    BY <2>1, <2>2 DEF Init, TypeOK, MainPCs, GoStates
<1>4. GoInv /\ StopInv
  BY DEF Init, HInit, GInit, GoInv, StopInv
<1>5. ChannelHolds
  BY <1>2 DEF Init, ChannelHolds, Sent, GrpcSent, HealthSent
<1>6. NothingTwice /\ Room
  BY <1>2 DEF Init, NothingTwice, Room
<1>. QED
  BY <1>1, <1>3, <1>4, <1>5, <1>6 DEF Inv, MainInv

\* What a non-blocking send does when there is room: a failure is put behind the
\* others, nil is not sent.
LEMMA SendKept ==
  ASSUME NEW e \in SUBSET Failures, errs \in Seq((SUBSET Failures) \ {{}}), Len(errs) < ErrsCap,
         sendErr(e)
  PROVE  /\ errs' \in Seq((SUBSET Failures) \ {{}})
         /\ Len(errs') <= Len(errs) + 1
         /\ UNION Range(errs') = e \union UNION Range(errs)
         /\ \A i \in DOMAIN errs' : \/ i \in DOMAIN errs /\ errs'[i] = errs[i]
                                    \/ i = Len(errs) + 1 /\ errs'[i] = e
<1>1. CASE e = {}
  <2>1. errs' = errs
    BY <1>1 DEF sendErr
  <2>. QED
    BY <1>1, <2>1
<1>2. CASE e # {}
  <2>. DEFINE S == (SUBSET Failures) \ {{}}
  <2>1. errs' = Append(errs, e) /\ e \in S
    BY <1>2 DEF sendErr, ErrsCap
  <2>2. UNION Range(Append(errs, e)) = e \union UNION Range(errs)
    <3>1. errs \in Seq(S)
      OBVIOUS
    <3>. HIDE DEF S
    <3>. QED
      BY <2>1, <3>1, AppendUnion
  <2>. QED
    BY <2>1, <2>2
<1>. QED
  BY <1>1, <1>2

\* A step that touches neither the channel nor what was received or sent keeps
\* the account of the failures.
LEMMA AccountKept ==
  ASSUME ChannelHolds, NothingTwice, Room,
         UNCHANGED <<errs, taken, result, coVars, Sent>>,
         mainPC = "returned" <=> mainPC' = "returned",
         mainPC' \in {"spawn", "select"} => mainPC \in {"spawn", "select"}
  PROVE  ChannelHolds' /\ NothingTwice' /\ Room'
<1>1. errs' = errs /\ taken' = taken /\ result' = result /\ Sent' = Sent
  OBVIOUS
<1>2. ChannelHolds'
  BY <1>1 DEF ChannelHolds
<1>3. NothingTwice'
  BY <1>1 DEF NothingTwice
<1>4. Room'
  BY <1>1 DEF Room, coVars
<1>. QED
  BY <1>2, <1>3, <1>4

\* A send for which there is room enters the failure into the account, provided
\* that it was not there before.
LEMMA SendAccount ==
  ASSUME NEW e \in SUBSET Failures, errs \in Seq((SUBSET Failures) \ {{}}), Len(errs) < ErrsCap,
         sendErr(e), ChannelHolds, NothingTwice,
         mainPC # "returned", UNCHANGED mainVars,
         Sent' = Sent \union e, Sent \intersect e = {}
  PROVE  ChannelHolds' /\ NothingTwice'
<1>1. /\ UNION Range(errs') = e \union UNION Range(errs)
      /\ \A i \in DOMAIN errs' : \/ i \in DOMAIN errs /\ errs'[i] = errs[i]
                                 \/ i = Len(errs) + 1 /\ errs'[i] = e
  BY SendKept
<1>2. ChannelHolds'
  BY <1>1 DEF ChannelHolds, mainVars
<1>3. \A i \in DOMAIN errs : errs[i] \subseteq Sent
  BY DEF ChannelHolds, Range
<1>4. taken \subseteq Sent
  BY DEF ChannelHolds
<1>5. NothingTwice'
  BY <1>1, <1>3, <1>4 DEF NothingTwice, mainVars
<1>. QED
  BY <1>2, <1>5

\* Every step of the server process preserves the invariant.
LEMMA StepInv == Inv /\ [Next]_vars => Inv'
<1> SUFFICES ASSUME Inv, [Next]_vars PROVE Inv'
  OBVIOUS
<1>1. HInv' /\ GInv'
  BY ComponentSteps, HStepInv, GStepInv DEF Inv, MainInv
<1>2. HTypeOK' /\ GTypeOK'
  BY <1>1 DEF HInv, GInv
<1>. SUFFICES MainInv'
  BY <1>1 DEF Inv
<1> USE DEF Inv, MainInv
<1>3. CASE SpawnServers
  <2>1. UNCHANGED <<errs, taken, result, Sent>> /\ mainPC # "returned" /\ mainPC' = "select"
    BY <1>3 DEF SpawnServers, GoInv, Sent, GrpcSent, HealthSent, hvars, runVars, gvars
  <2>2. ChannelHolds' /\ NothingTwice' /\ Room'
    BY <1>3, <2>1 DEF SpawnServers, ChannelHolds, NothingTwice, Room, GoInv
  <2>. QED
    BY <1>3, <1>2, <2>2 DEF SpawnServers, TypeOK, GoInv, StopInv, MainPCs, GoStates,
       hvars, runVars, gvars, stopVars
<1>4. CASE SelectDone
  <2>1. UNCHANGED <<errs, taken, result, coVars, Sent>>
    BY <1>4 DEF SelectDone, GoInv, mainVars, coVars, Sent, GrpcSent, HealthSent, hvars, runVars, gvars
  <2>2. ChannelHolds' /\ NothingTwice' /\ Room'
    BY <1>4, <2>1, AccountKept DEF SelectDone, mainVars
  <2>. QED
    BY <1>4, <1>2, <2>1, <2>2 DEF SelectDone, TypeOK, GoInv, StopInv, MainPCs, coVars, mainVars,
       hvars, runVars, goVars, httpVars, gvars, stopVars, connVars
<1>5. CASE ShutdownStart
  <2>1. UNCHANGED <<errs, taken, result, coVars, Sent>>
    BY <1>5 DEF ShutdownStart, GoInv, mainVars, coVars, Sent, GrpcSent, HealthSent, hvars, runVars, gvars
  <2>2. ChannelHolds' /\ NothingTwice' /\ Room'
    BY <1>5, <2>1, AccountKept DEF ShutdownStart, mainVars
  <2>. QED
    BY <1>5, <1>2, <2>1, <2>2 DEF ShutdownStart, TypeOK, GoInv, StopInv, MainPCs, coVars, mainVars,
       hvars, runVars, goVars, httpVars, gvars, stopVars, connVars
<1>6. CASE GraceDone
  <2>1. UNCHANGED <<errs, taken, result, coVars, Sent>>
    BY <1>6 DEF GraceDone, GoInv, mainVars, coVars, Sent, GrpcSent, HealthSent, hvars, runVars, gvars
  <2>2. ChannelHolds' /\ NothingTwice' /\ Room'
    BY <1>6, <2>1, AccountKept DEF GraceDone, mainVars
  <2>. QED
    BY <1>6, <1>2, <2>1, <2>2 DEF GraceDone, TypeOK, GoInv, StopInv, MainPCs, coVars, mainVars,
       hvars, runVars, goVars, httpVars, gvars, stopVars, connVars
<1>7. CASE GraceTimeout
  <2>1. UNCHANGED <<errs, taken, result, coVars, Sent>>
    BY <1>7 DEF GraceTimeout, Stop, GoInv, mainVars, coVars, Sent, GrpcSent, HealthSent, hvars, runVars, gvars
  <2>2. ChannelHolds' /\ NothingTwice' /\ Room'
    BY <1>7, <2>1, AccountKept DEF GraceTimeout, Stop, mainVars
  <2>. QED
    BY <1>7, <1>2, <2>1, <2>2 DEF GraceTimeout, Stop, TypeOK, GoInv, StopInv, MainPCs, coVars, mainVars,
       hvars, runVars, goVars, httpVars, gvars, stopVars, connVars
<1>8. CASE ForcedDone
  <2>1. UNCHANGED <<errs, taken, result, coVars, Sent>>
    BY <1>8 DEF ForcedDone, GoInv, mainVars, coVars, Sent, GrpcSent, HealthSent, hvars, runVars, gvars
  <2>2. ChannelHolds' /\ NothingTwice' /\ Room'
    BY <1>8, <2>1, AccountKept DEF ForcedDone, mainVars
  <2>. QED
    BY <1>8, <1>2, <2>1, <2>2 DEF ForcedDone, TypeOK, GoInv, StopInv, MainPCs, coVars, mainVars,
       hvars, runVars, goVars, httpVars, gvars, stopVars, connVars
<1>9. CASE GrpcServes
  <2>1. UNCHANGED <<errs, taken, result, coVars, Sent>>
    BY <1>9 DEF GrpcServes, ServeCall, GoInv, mainVars, coVars, Sent, GrpcSent, HealthSent, hvars, runVars, gvars
  <2>2. ChannelHolds' /\ NothingTwice' /\ Room'
    BY <1>9, <2>1, AccountKept DEF GrpcServes, ServeCall, mainVars
  <2>. QED
    BY <1>9, <1>2, <2>1, <2>2 DEF GrpcServes, ServeCall, TypeOK, GoInv, StopInv, MainPCs, coVars, mainVars,
       hvars, runVars, goVars, httpVars, gvars, stopVars, connVars
<1>10. CASE HealthStarts
  <2>1. UNCHANGED <<errs, taken, result, coVars, Sent>>
    BY <1>10 DEF HealthStarts, RunStart, GoInv, mainVars, coVars, Sent, GrpcSent, HealthSent, hvars, runVars, gvars
  <2>2. ChannelHolds' /\ NothingTwice' /\ Room'
    BY <1>10, <2>1, AccountKept DEF HealthStarts, RunStart, mainVars
  <2>. QED
    BY <1>10, <1>2, <2>1, <2>2 DEF HealthStarts, RunStart, TypeOK, GoInv, StopInv, MainPCs, coVars, mainVars,
       hvars, runVars, goVars, httpVars, gvars, stopVars, connVars
<1>11. CASE GraceRuns
  <2>1. UNCHANGED <<errs, taken, result, coVars, Sent>>
    BY <1>11 DEF GraceRuns, GracefulStop, GoInv, mainVars, coVars, Sent, GrpcSent, HealthSent, hvars, runVars, gvars
  <2>2. ChannelHolds' /\ NothingTwice' /\ Room'
    BY <1>11, <2>1, AccountKept DEF GraceRuns, GracefulStop, mainVars
  <2>. QED
    BY <1>11, <1>2, <2>1, <2>2 DEF GraceRuns, GracefulStop, TypeOK, GoInv, StopInv, MainPCs, coVars, mainVars,
       hvars, runVars, goVars, httpVars, gvars, stopVars, connVars
<1>12. CASE Signal
  <2>1. UNCHANGED <<errs, taken, result, coVars, Sent>>
    BY <1>12 DEF Signal, GoInv, mainVars, coVars, Sent, GrpcSent, HealthSent, hvars, runVars, gvars
  <2>2. ChannelHolds' /\ NothingTwice' /\ Room'
    BY <1>12, <2>1, AccountKept DEF Signal, mainVars
  <2>. QED
    BY <1>12, <1>2, <2>1, <2>2 DEF Signal, TypeOK, GoInv, StopInv, MainPCs, coVars, mainVars,
       hvars, runVars, goVars, httpVars, gvars, stopVars, connVars
<1>13. CASE HealthStep(HProgress \/ ShutdownTimesOut \/ HEnvironment)
  <2>1. /\ ctxDone' = ctxDone
        /\ runPC = "new" => runPC' = "new"
        /\ runPC = "returned" => runPC' = "returned" /\ hresult' = hresult
    BY <1>13, HealthStable DEF HealthStep
  <2>2. UNCHANGED <<errs, taken, result, coVars, Sent>>
    BY <1>13, <2>1 DEF HealthStep, GoInv, mainVars, coVars, Sent, GrpcSent, HealthSent, gvars
  <2>3. ChannelHolds' /\ NothingTwice' /\ Room'
    BY <1>13, <2>2, AccountKept DEF HealthStep, mainVars
  <2>. QED
    BY <1>13, <1>2, <2>1, <2>2, <2>3 DEF HealthStep, TypeOK, GoInv, StopInv, coVars, mainVars, gvars, stopVars
<1>14. CASE GrpcStep(GProgress \/ GEnvironment \/ \E c \in Conns : HandshakeEnds(c) \/ HandlerReturns(c))
  <2>1. /\ graceful = "none" => graceful' = "none"
        /\ graceful = "done" => graceful' = "done"
        /\ forced = "none" => forced' = "none"
        /\ serve = "new" => serve' = "new"
        /\ serve \in {"nil", "stopped", "err"} => serve' = serve
    BY <1>14, GrpcStable DEF GrpcStep
  <2>2. UNCHANGED <<errs, taken, result, coVars, Sent>>
    BY <1>14, <2>1 DEF GrpcStep, GoInv, mainVars, coVars, Sent, GrpcSent, HealthSent, hvars, runVars
  <2>3. ChannelHolds' /\ NothingTwice' /\ Room'
    BY <1>14, <2>2, AccountKept DEF GrpcStep, mainVars
  <2>. QED
    BY <1>14, <1>2, <2>1, <2>2, <2>3 DEF GrpcStep, TypeOK, GoInv, StopInv, coVars, mainVars, hvars, runVars
<1>15. CASE GrpcReports
  <2>. DEFINE e == IF serve = "err" THEN {"grpc"} ELSE {}
  <2>1. grpcGo = "run" /\ grpcGo' = "done" /\ healthGo' = healthGo /\ sendErr(e) /\ UNCHANGED <<mainVars, hvars, gvars>>
    BY <1>15 DEF GrpcReports
  <2>2. e \in SUBSET Failures /\ Len(errs) < ErrsCap /\ mainPC # "returned"
    BY <2>1 DEF Room, ErrsCap, TypeOK, StopInv, Failures
  <2>3. Sent' = Sent \union e /\ Sent \intersect e = {}
    BY <1>2, <2>1 DEF Sent, GrpcSent, HealthSent, hvars, runVars, gvars, TypeOK, HTypeOK, HFailures
  <2>4. ChannelHolds' /\ NothingTwice'
    BY <2>1, <2>2, <2>3, SendAccount DEF TypeOK
  <2>5. errs' \in Seq((SUBSET Failures) \ {{}}) /\ Len(errs') <= Len(errs) + 1
    BY <2>1, <2>2, SendKept DEF TypeOK
  <2>6. Room' /\ Len(errs') <= ErrsCap
    BY <2>1, <2>5 DEF Room, TypeOK, ErrsCap
  <2>. QED
    BY <1>15, <1>2, <2>1, <2>4, <2>5, <2>6 DEF GrpcReports, TypeOK, GoInv, StopInv, GoStates, mainVars,
       hvars, runVars, gvars, stopVars
<1>16. CASE HealthReports
  <2>1. healthGo = "run" /\ healthGo' = "done" /\ grpcGo' = grpcGo /\ sendErr(hresult) /\ UNCHANGED <<mainVars, hvars, gvars>>
    BY <1>16 DEF HealthReports
  <2>2. hresult \in SUBSET Failures /\ Len(errs) < ErrsCap /\ mainPC # "returned"
    BY <2>1 DEF Room, ErrsCap, TypeOK, StopInv, Failures, HTypeOK, HFailures
  <2>3. Sent' = Sent \union hresult /\ Sent \intersect hresult = {}
    BY <1>2, <2>1 DEF Sent, GrpcSent, HealthSent, hvars, runVars, gvars, TypeOK, HTypeOK, HFailures
  <2>4. ChannelHolds' /\ NothingTwice'
    BY <2>1, <2>2, <2>3, SendAccount DEF TypeOK
  <2>5. errs' \in Seq((SUBSET Failures) \ {{}}) /\ Len(errs') <= Len(errs) + 1
    BY <2>1, <2>2, SendKept DEF TypeOK
  <2>6. Room' /\ Len(errs') <= ErrsCap
    BY <2>1, <2>5 DEF Room, TypeOK, ErrsCap
  <2>. QED
    BY <1>16, <1>2, <2>1, <2>4, <2>5, <2>6 DEF HealthReports, TypeOK, GoInv, StopInv, GoStates, mainVars,
       hvars, runVars, gvars, stopVars
<1>17. CASE SelectErr
  <2>. DEFINE S == (SUBSET Failures) \ {{}}
  <2>1. /\ mainPC = "select" /\ mainPC' = "stop" /\ errs \in Seq(S) /\ errs # <<>>
        /\ taken' = Head(errs) /\ errs' = Tail(errs) /\ taken = {} /\ result = {} /\ result' = {}
        /\ UNCHANGED <<sig, coVars, hresult, gvars>> /\ ctxDone'
    BY <1>17 DEF SelectErr, TypeOK, NothingTwice, ChannelHolds, hvars, runVars
  <2>2. /\ Head(errs) \in S /\ Tail(errs) \in Seq(S)
        /\ Len(Tail(errs)) = Len(errs) - 1 /\ DOMAIN Tail(errs) = 1 .. (Len(errs) - 1)
        /\ \A i \in DOMAIN Tail(errs) : Tail(errs)[i] = errs[i + 1]
        /\ Head(errs) = errs[1] /\ DOMAIN errs = 1 .. Len(errs) /\ Len(errs) \in Nat \ {0}
    <3>. HIDE DEF S
    <3>. QED
      BY <2>1
  <2>3. UNION Range(errs) = Head(errs) \union UNION Range(Tail(errs))
    <3>. HIDE DEF S
    <3>. QED
      BY <2>1, TailUnion
  <2>4. Sent' = Sent
    BY <2>1 DEF Sent, GrpcSent, HealthSent, coVars, gvars
  <2>5. ChannelHolds'
    BY <2>1, <2>3, <2>4 DEF ChannelHolds
  <2>6. NothingTwice'
    BY <2>1, <2>2 DEF NothingTwice
  <2>7. Room' /\ Len(errs') <= ErrsCap
    BY <2>1, <2>2 DEF Room, TypeOK, ErrsCap, coVars
  <2>. QED
    BY <1>17, <1>2, <2>1, <2>2, <2>5, <2>6, <2>7 DEF SelectErr, TypeOK, GoInv, StopInv, MainPCs, coVars,
       hvars, runVars, gvars, stopVars
<1>18. CASE WaitAndCollect
  <2>1. UNION Range(errs) \subseteq Failures
    BY DEF TypeOK, Range
  <2>2. \A x \in UNION Range(errs) : x \notin taken
    BY DEF NothingTwice, Range
  <2>3. errs' = <<>> /\ errs' \in Seq((SUBSET Failures) \ {{}}) /\ Len(errs') = 0 /\ DOMAIN errs' = {}
    BY <1>18, EmptySeq DEF WaitAndCollect
  <2>4. Sent' = Sent
    BY <1>18 DEF WaitAndCollect, Sent, GrpcSent, HealthSent, coVars, hvars, runVars, gvars
  <2>5. ChannelHolds' /\ NothingTwice' /\ Room'
    BY <1>18, <2>2, <2>3, <2>4 DEF WaitAndCollect, ChannelHolds, NothingTwice, Room, coVars
  <2>. QED
    BY <1>18, <1>2, <2>1, <2>3, <2>5 DEF WaitAndCollect, TypeOK, GoInv, StopInv, MainPCs, coVars,
       hvars, runVars, gvars, stopVars, ErrsCap
<1>19. CASE UNCHANGED vars
  <2>1. UNCHANGED <<errs, taken, result, coVars, Sent>> /\ mainPC' = mainPC
    BY <1>19 DEF vars, mainVars, coVars, Sent, GrpcSent, HealthSent, hvars, runVars, gvars
  <2>2. ChannelHolds' /\ NothingTwice' /\ Room'
    BY <2>1, AccountKept
  <2>. QED
    BY <1>19, <1>2, <2>1, <2>2 DEF vars, TypeOK, GoInv, StopInv, coVars, mainVars,
       hvars, runVars, gvars, stopVars
<1>. QED
  BY <1>3, <1>4, <1>5, <1>6, <1>7, <1>8, <1>9, <1>10, <1>11, <1>12, <1>13, <1>14, <1>15,
     <1>16, <1>17, <1>18, <1>19 DEF Next, Progress, Environment, Handler, HealthStep, GrpcStep

----
\* The invariant holds of every behaviour of the server process.
THEOREM Invariant == Spec => []Inv
<1>1. Init => Inv
  BY InitInv
<1>2. Inv /\ [Next]_vars => Inv'
  BY StepInv
<1>. QED
  BY <1>1, <1>2, PTL DEF Spec

\* Type correctness of the whole process; in particular errs never exceeds its
\* capacity and never holds nil.
THEOREM TypeCorrect == Spec => []TypeOK
<1>1. Inv => TypeOK
  BY DEF Inv, MainInv
<1>. QED
  BY <1>1, Invariant, PTL

\* What Inv says once serveAll has returned.
LEMMA InvClean == Inv => CleanReturn
BY DEF Inv, MainInv, StopInv, GoInv, CleanReturn, HInv, ChannelInv, ServeInv, GInv,
       ListenerInv, GracefulInv

\* serveAll leaves no goroutine, no listening socket, no gRPC connection and no
\* running handler behind, for any number of clients.
THEOREM ReturnIsClean == Spec => []CleanReturn
BY InvClean, Invariant, PTL

\* Every failure of a server is in the error serveAll returns or was taken, and
\* logged, by its select: two goroutines never fill a channel of capacity two.
THEOREM FailuresAccounted == Spec => []NoFailureSilent
<1>1. Inv => NoFailureSilent
  BY DEF Inv, MainInv, ChannelHolds, NothingTwice, StopInv, GoInv, NoFailureSilent, Sent, GrpcSent,
         HealthSent, Failed, HInv, ReportsEveryFailure
<1>. QED
  BY <1>1, Invariant, PTL

----
\* The initial states of ServeAll are initial states of Lifecycle.
LEMMA RefinesInit == Init => L!LInit
BY DEF Init, HInit, GInit, L!LInit, L!Endpoints, absPhase, absOpen, Live

\* What closes a listening socket is, for Lifecycle, the failure of an endpoint
\* before the stop and its closing after it.
LEMMA EndpointCloses ==
  ASSUME Inv, UNCHANGED <<absPhase, sig, Live>>,
         \/ lis' = lis /\ (hln' = hln \/ hln' = FALSE)
         \/ hln' = hln /\ (lis' = lis \/ lis' = FALSE)
  PROVE  [L!LNext]_(L!lvars)
<1>. USE DEF L!lvars, L!LNext, L!TakeDown, L!Endpoints
<1>1. CASE absOpen' = absOpen
  BY <1>1
<1>2. CASE absOpen' # absOpen
  <2>1. lis \in BOOLEAN /\ hln \in BOOLEAN
    BY DEF Inv, HInv, HTypeOK, GInv, GTypeOK
  <2>2. PICK e \in {"grpc", "health"} : e \in absOpen /\ absOpen' = absOpen \ {e}
    BY <2>1, <1>2 DEF absOpen
  <2>3. absPhase # "stopped"
    BY <2>1, <2>2, InvClean DEF CleanReturn, absPhase, absOpen
  <2>4. CASE absPhase = "serving"
    BY <2>2, <2>4 DEF L!Fail
  <2>5. CASE absPhase = "stopping"
    BY <2>2, <2>5 DEF L!CloseEndpoint
  <2>. QED
    BY <2>3, <2>4, <2>5 DEF absPhase
<1>. QED
  BY <1>1, <1>2

\* The connections of Lifecycle come and go as those of the gRPC server do.
LEMMA ConnectionStep ==
  ASSUME Inv, UNCHANGED <<mainPC, ctxDone, sig, lis, hln>>, NEW c \in Conns,
         Accept(c) \/ ClientCloses(c) \/ HandshakeEnds(c)
  PROVE  [L!LNext]_(L!lvars)
<1>. USE DEF L!lvars, L!LNext, Inv, GInv, GTypeOK, GConnSts
<1>1. absPhase' = absPhase /\ absOpen' = absOpen
  BY DEF absPhase, absOpen
<1>2. CASE Accept(c)
  <2>1. c \notin Live /\ Live' = Live \union {c} /\ "grpc" \in absOpen
    BY <1>2 DEF Accept, Live, absOpen
  <2>. QED
    BY <1>1, <2>1 DEF L!Connect
<1>3. CASE ClientCloses(c) \/ HandshakeEnds(c)
  <2>1. c \in Live /\ (Live' = Live \/ Live' = Live \ {c})
    BY <1>3 DEF ClientCloses, HandshakeEnds, Live
  <2>. QED
    BY <1>1, <2>1 DEF L!Leave
<1>. QED
  BY <1>2, <1>3

\* Stop cuts the connections only while the process is stopping.
LEMMA CutStep ==
  ASSUME Inv, UNCHANGED <<mainPC, ctxDone, sig, lis, hln>>, StopCuts
  PROVE  [L!LNext]_(L!lvars)
<1>1. absPhase' = absPhase /\ absOpen' = absOpen
  BY DEF absPhase, absOpen
<1>2. Live' \subseteq Live
  BY DEF StopCuts, Live, Inv, GInv, GTypeOK
<1>3. CASE Live' = Live
  BY <1>1, <1>3 DEF L!lvars
<1>4. CASE Live' # Live
  <2>1. ctxDone
    BY DEF StopCuts, Inv, MainInv, StopInv
  <2>2. mainPC # "returned"
    BY <1>2, <1>4, InvClean DEF CleanReturn
  <2>3. absPhase = "stopping"
    BY <2>1, <2>2 DEF absPhase
  <2>4. Live \ Live' \in SUBSET Live /\ Live \ Live' # {} /\ Live' = Live \ (Live \ Live')
    BY <1>2, <1>4
  <2>. QED
    BY <1>1, <2>3, <2>4 DEF L!LNext, L!Shed
<1>. QED
  BY <1>3, <1>4

\* Every step of the server process is a step that Lifecycle allows, or none.
LEMMA RefinesStep == Inv /\ [Next]_vars => [L!LNext]_(L!lvars)
<1> SUFFICES ASSUME Inv, [Next]_vars PROVE [L!LNext]_(L!lvars)
  OBVIOUS
<1> USE DEF mainVars, hvars, runVars, goVars, httpVars, gvars, stopVars, connVars
<1>1. CASE UNCHANGED vars
  BY <1>1 DEF vars, L!lvars, absPhase, absOpen, Live
<1>2. CASE \/ SpawnServers \/ SelectDone \/ ShutdownStart \/ GraceDone \/ ForcedDone
           \/ GrpcReports \/ HealthReports
  BY <1>2 DEF SpawnServers, SelectDone, ShutdownStart, GraceDone, ForcedDone, GrpcReports,
     HealthReports, L!lvars, absPhase, absOpen, Live
<1>3. CASE SelectErr
  <2>1. mainPC = "select" /\ ctxDone' /\ mainPC' = "stop" /\ UNCHANGED <<sig, absOpen, Live>>
    BY <1>3 DEF SelectErr, absOpen, Live
  <2>2. CASE ctxDone
    BY <2>1, <2>2 DEF L!lvars, absPhase
  <2>3. CASE ~ctxDone
    <3>1. Sent # {}
      BY <1>3 DEF SelectErr, Inv, MainInv, ChannelHolds, NothingTwice, TypeOK, Range
    <3>2. ~lis \/ ~hln
      BY <3>1, <2>1 DEF Sent, GrpcSent, HealthSent, Inv, MainInv, GoInv, HInv, ChannelInv, ServeInv,
         GInv, ListenerInv
    <3>. QED
      BY <2>1, <2>3, <3>2 DEF L!LNext, L!TakeDown, L!FailureStops, L!Endpoints, absPhase, absOpen
  <2>. QED
    BY <2>2, <2>3
<1>4. CASE GraceTimeout \/ GraceRuns \/ GrpcServes
  <2>1. UNCHANGED <<absPhase, sig, Live, hln>>
    BY <1>4 DEF GraceTimeout, GraceRuns, GrpcServes, Stop, GracefulStop, ServeCall, absPhase, Live
  <2>2. lis' = (lis /\ ~quit) \/ lis' = (lis /\ serve = "new")
    BY <1>4 DEF GraceTimeout, GraceRuns, GrpcServes, Stop, GracefulStop, ServeCall, CloseListeners
  <2>3. lis' = lis \/ lis' = FALSE
    BY <2>2 DEF Inv, GInv, GTypeOK
  <2>. QED
    BY <2>1, <2>3, EndpointCloses
<1>5. CASE WaitAndCollect
  <2>1. absOpen = {} /\ Live = {}
    BY <1>5 DEF WaitAndCollect, Inv, MainInv, StopInv, GoInv, HInv, ChannelInv, ServeInv, GInv,
       ListenerInv, GracefulInv, absOpen
  <2>2. mainPC' = "returned" /\ mainPC = "wait" /\ UNCHANGED <<sig, absOpen, Live>>
    BY <1>5 DEF WaitAndCollect, absOpen, Live
  <2>3. absPhase = "stopping" /\ absPhase' = "stopped"
    BY <2>2 DEF absPhase, Inv, MainInv, StopInv
  <2>. QED
    BY <2>1, <2>2, <2>3 DEF L!LNext, L!TakeDown, L!Return
<1>6. CASE Signal
  <2>1. UNCHANGED <<absOpen, Live>> /\ absPhase # "stopped" /\ absPhase' = "stopping"
    BY <1>6 DEF Signal, absOpen, absPhase, Live
  <2>. QED
    BY <1>6, <2>1 DEF Signal, L!LNext, L!Signalled
<1>7. CASE HealthStarts \/ HealthStep(HProgress \/ ShutdownTimesOut \/ HEnvironment)
  <2>1. UNCHANGED <<sig, mainPC, lis, Live>>
    BY <1>7 DEF HealthStarts, HealthStep, Live
  <2>2. ctxDone' = ctxDone
    BY <1>7, HealthStable DEF HealthStarts, HealthStep, RunStart, Inv
  <2>3. hln' = hln \/ hln' = FALSE
    <3>. USE DEF Inv, HInv, HTypeOK
    <3>. QED
      BY <1>7 DEF HealthStarts, HealthStep, HProgress, HEnvironment, RunStart, RunSeesCancel, ShutdownPoll,
         ShutdownTimesOut, RunReceives, RunSeesServeError, ServeSends, ServeEnter, ServeStops,
         ServeTracksConn, AcceptFails, ServeAccepts, HandlerDone, ClientUses
  <2>. QED
    BY <2>1, <2>2, <2>3, EndpointCloses DEF absPhase
<1>8. CASE GrpcStep(GProgress \/ GEnvironment \/ \E c \in Conns : HandshakeEnds(c) \/ HandlerReturns(c))
  <2>1. UNCHANGED <<sig, mainPC, ctxDone, hln>>
    BY <1>8 DEF GrpcStep
  <2>2. CASE AcceptStops \/ GAcceptFails
    <3>1. Live' = Live /\ lis' = FALSE
      BY <2>2 DEF AcceptStops, GAcceptFails, Live
    <3>. QED
      BY <2>1, <3>1, EndpointCloses DEF absPhase
  <2>3. CASE StopCuts
    BY <2>1, <2>3, CutStep DEF StopCuts
  <2>4. ASSUME NEW c \in Conns, Accept(c) \/ ClientCloses(c) \/ HandshakeEnds(c)
        PROVE  [L!LNext]_(L!lvars)
    BY <2>1, <2>4, ConnectionStep DEF Accept, ClientCloses, HandshakeEnds
  <2>5. CASE \/ ServeReturnsNil \/ GracefulDrains \/ GracefulDone \/ StopDone
             \/ \E c \in Conns : StartRPC(c) \/ HandlerReturns(c)
    BY <2>1, <2>5 DEF ServeReturnsNil, GracefulDrains, GracefulDone, StopDone, StartRPC,
       HandlerReturns, L!lvars, absPhase, absOpen, Live
  <2>. QED
    BY <1>8, <2>2, <2>3, <2>4, <2>5 DEF GrpcStep, GProgress, GEnvironment
<1>. QED
  BY <1>1, <1>2, <1>3, <1>4, <1>5, <1>6, <1>7, <1>8 DEF Next, Progress, Environment, Handler,
     HealthStep, GrpcStep

\* serveAll implements Lifecycle, for any number of clients: whatever the order
\* of signals, failures, timeouts and client steps, it takes a step of the
\* promise or a stutter.  (Lifecycle's liveness is left to the model checker.)
THEOREM ServeAllRefinesLifecycle == Spec => L!LInit /\ [][L!LNext]_(L!lvars)
<1>1. Init => L!LInit
  BY RefinesInit
<1>2. Inv /\ [Next]_vars => [L!LNext]_(L!lvars)
  BY RefinesStep
<1>. QED
  BY <1>1, <1>2, Invariant, PTL DEF Spec
====
