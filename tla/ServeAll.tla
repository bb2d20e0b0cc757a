---- MODULE ServeAll ----
(***************************************************************************)
(* serveAll and shutdownGRPC (cmd/hsmdoc/main.go:130-211): the main        *)
(* goroutine, the two goroutines it spawns around grpc.Server.Serve and    *)
(* health.Run, the channel errs between them, the derived context runCtx   *)
(* and the goroutine that runs GracefulStop against a ten-second timer.    *)
(* The gRPC server and the health adapter are the modules of those names;  *)
(* ctxDone, the context health.Run was given, is runCtx.                   *)
(***************************************************************************)
EXTENDS HealthAdapter, GrpcServer, Functions

VARIABLES
  sig,         \* SIGINT or SIGTERM has arrived: the parent context is done
  mainPC,      \* where serveAll is
  grpcGo,      \* the goroutine of lines 158-164
  healthGo,    \* the goroutine of lines 166-172
  errs,        \* make(chan error, 2), each error as the set of its failures
  taken,       \* the failures that the select received and logged (line 177)
  result       \* the failures joined in the error serveAll returned

mainVars == <<mainPC, taken, result>>
coVars   == <<grpcGo, healthGo>>
vars == <<sig, mainVars, coVars, errs, hvars, gvars>>

MainPCs  == {"spawn", "select", "stop", "grace", "forced", "wait", "returned"}
GoStates == {"none", "run", "done"}
Failures == {"grpc", "serve", "shutdown"}

\* The failures there have been: accept errors of the two servers, and a
\* health shutdown that timed out.
Failed ==
  (IF serve = "err" THEN {"grpc"} ELSE {}) \union srvErr \union shutErr

Init ==
  /\ sig = FALSE
  /\ mainPC = "spawn" /\ taken = {} /\ result = {}
  /\ grpcGo = "none" /\ healthGo = "none"
  /\ errs = <<>>
  /\ HInit /\ GInit

----
\* Slips that the properties have to notice; no specification uses them.

\* Room for the error of one goroutine only; nil is sent as if it were an error.
ErrsCapOne == 1
SendsNil(e) == errs' = IF Len(errs) >= 2 THEN errs ELSE Append(errs, e)

\* The error branch of the select does not cancel runCtx.
SelectErrNoCancel ==
  /\ mainPC = "select" /\ errs # <<>>
  /\ mainPC' = "stop"
  /\ taken' = Head(errs) /\ errs' = Tail(errs)
  /\ UNCHANGED <<sig, result, coVars, hvars, gvars>>

\* shutdownGRPC returns after Stop without waiting for GracefulStop.
ForcedNoWait ==
  /\ mainPC = "forced" /\ forced = "done"
  /\ mainPC' = "wait"
  /\ UNCHANGED <<sig, taken, result, coVars, errs, hvars, gvars>>

\* The health goroutine is not counted in the WaitGroup.
WaitForGrpcOnly ==
  /\ mainPC = "wait" /\ grpcGo = "done"
  /\ mainPC' = "returned"
  /\ result' = UNION Range(errs) /\ errs' = <<>>
  /\ UNCHANGED <<sig, taken, coVars, hvars, gvars>>

----
\* The channel: a non-blocking send that drops what does not fit.

ErrsCap == 2

sendErr(e) ==
  errs' = IF e = {} \/ Len(errs) >= ErrsCap THEN errs ELSE Append(errs, e)

----
\* The main goroutine

\* wg.Add(1); go ...: both goroutines exist before either result is looked at.
SpawnServers ==
  /\ mainPC = "spawn" /\ mainPC' = "select"
  /\ grpcGo' = "run" /\ healthGo' = "run"
  /\ UNCHANGED <<sig, taken, result, errs, hvars, gvars>>

SelectDone ==
  /\ mainPC = "select" /\ ctxDone
  /\ mainPC' = "stop"
  /\ UNCHANGED <<sig, taken, result, coVars, errs, hvars, gvars>>

\* err := <-errs, logged, then cancel(); the error is not kept.
SelectErr ==
  /\ mainPC = "select" /\ errs # <<>>
  /\ mainPC' = "stop"
  /\ taken' = Head(errs) /\ errs' = Tail(errs)
  /\ ctxDone' = TRUE
  /\ UNCHANGED <<sig, result, coVars, errCh, runVars, goVars, httpVars, gvars>>

\* shutdownGRPC spawns the goroutine of GracefulStop and arms its timer.
ShutdownStart ==
  /\ mainPC = "stop" /\ mainPC' = "grace"
  /\ UNCHANGED <<sig, taken, result, coVars, errs, hvars, gvars>>

GraceDone ==
  /\ mainPC = "grace" /\ graceful = "done"
  /\ mainPC' = "wait"
  /\ UNCHANGED <<sig, taken, result, coVars, errs, hvars, gvars>>

\* <-t.C after ten seconds, even when the drain has just completed.
GraceTimeout ==
  /\ mainPC = "grace" /\ mainPC' = "forced"
  /\ Stop
  /\ UNCHANGED <<sig, taken, result, coVars, errs, hvars>>

\* Stop has returned and so has GracefulStop (<-done).
ForcedDone ==
  /\ mainPC = "forced" /\ forced = "done" /\ graceful = "done"
  /\ mainPC' = "wait"
  /\ UNCHANGED <<sig, taken, result, coVars, errs, hvars, gvars>>

\* wg.Wait(); close(errs); the loop over errs and errors.Join.
WaitAndCollect ==
  /\ mainPC = "wait" /\ grpcGo = "done" /\ healthGo = "done"
  /\ mainPC' = "returned"
  /\ result' = UNION Range(errs) /\ errs' = <<>>
  /\ UNCHANGED <<sig, taken, coVars, hvars, gvars>>

\* appMain: return 1 for an error of run, 0 for none.
ExitCode == IF result = {} THEN 0 ELSE 1

----
\* The goroutines

GrpcServes ==
  /\ grpcGo = "run" /\ ServeCall
  /\ UNCHANGED <<sig, mainVars, coVars, errs, hvars>>

\* Serve has returned: nil and ErrServerStopped are no errors (line 161).
GrpcReports ==
  /\ grpcGo = "run" /\ serve \in {"nil", "stopped", "err"}
  /\ sendErr(IF serve = "err" THEN {"grpc"} ELSE {})
  /\ grpcGo' = "done"
  /\ UNCHANGED <<sig, mainVars, healthGo, hvars, gvars>>

HealthStarts ==
  /\ healthGo = "run" /\ RunStart
  /\ UNCHANGED <<sig, mainVars, coVars, errs, gvars>>

HealthReports ==
  /\ healthGo = "run" /\ runPC = "returned"
  /\ sendErr(hresult)
  /\ healthGo' = "done"
  /\ UNCHANGED <<sig, mainVars, grpcGo, hvars, gvars>>

\* The goroutine of shutdownGRPC gets to run; it may be overtaken by the timer.
GraceRuns ==
  /\ mainPC \in {"grace", "forced"} /\ GracefulStop
  /\ UNCHANGED <<sig, mainVars, coVars, errs, hvars>>

----
\* The servers' own steps, and the outside world

HealthStep(A) == A /\ UNCHANGED <<sig, mainVars, coVars, errs, gvars>>
GrpcStep(A)   == A /\ UNCHANGED <<sig, mainVars, coVars, errs, hvars>>

\* signal.NotifyContext cancels the parent context, and runCtx with it.
Signal ==
  /\ mainPC # "returned" /\ ~sig
  /\ sig' = TRUE /\ ctxDone' = TRUE
  /\ UNCHANGED <<mainVars, coVars, errs, errCh, runVars, goVars, httpVars, gvars>>

\* Steps the program makes by itself, each a bounded number of times: the main
\* goroutine, the goroutines, the servers, the two timers, and the handshakes,
\* which grpc-go limits in time.
Progress ==
  \/ SpawnServers \/ SelectDone \/ SelectErr
  \/ ShutdownStart \/ GraceDone \/ GraceTimeout \/ ForcedDone \/ WaitAndCollect
  \/ GrpcServes \/ GrpcReports \/ HealthStarts \/ HealthReports \/ GraceRuns
  \/ HealthStep(HProgress) \/ HealthStep(ShutdownTimesOut)
  \/ GrpcStep(GProgress)
  \/ \E c \in Conns : GrpcStep(HandshakeEnds(c))

Handler(c) == GrpcStep(HandlerReturns(c))

Environment ==
  \/ Signal
  \/ HealthStep(HEnvironment)
  \/ GrpcStep(GEnvironment)

Next == Progress \/ Environment \/ \E c \in Conns : Handler(c)

\* Fairness of the program alone.  Clients, accept errors and signals are free;
\* a handler returns because the stub answers Unimplemented without waiting.
Fairness == WF_vars(Progress) /\ \A c \in Conns : WF_vars(Handler(c))

Spec == Init /\ [][Next]_vars /\ Fairness

----
\* Every variable stays within its states; errs never holds nil (line 149).
TypeOK ==
  /\ sig \in BOOLEAN
  /\ mainPC \in MainPCs /\ grpcGo \in GoStates /\ healthGo \in GoStates
  /\ taken \subseteq Failures /\ result \subseteq Failures
  /\ errs \in Seq((SUBSET Failures) \ {{}}) /\ Len(errs) <= ErrsCap
  /\ HTypeOK /\ GTypeOK

\* When serveAll returns nothing of it is left: no goroutine, no listening
\* socket, no gRPC connection, no running handler (the comment at
\* main.go:138-142 and health.go:55-58).
CleanReturn ==
  mainPC = "returned" =>
    /\ grpcGo = "done" /\ healthGo = "done" /\ srvGo = "done"
    /\ ~lis /\ ~hln /\ Live = {} /\ handlers = {}

\* No failure is silent: each is either in the error serveAll returns or was
\* received, and logged, by its select.  In particular the channel of capacity
\* two never drops an error (main.go:152-155).
NoFailureSilent ==
  mainPC = "returned" => Failed = taken \union result /\ taken \intersect result = {}

----
\* The promise of Lifecycle, kept: the process is stopping from the moment
\* runCtx is done, and its endpoints are the two listening sockets.
absPhase ==
  IF mainPC = "returned" THEN "stopped" ELSE IF ctxDone THEN "stopping" ELSE "serving"

absOpen == (IF lis THEN {"grpc"} ELSE {}) \union (IF hln THEN {"health"} ELSE {})

L == INSTANCE Lifecycle WITH
  Clients <- Conns, phase <- absPhase, open <- absOpen, live <- Live, signalled <- sig

Refines == L!LSpec

\* A signal, or the failure of one server alone, ends serveAll: neither a client
\* that holds a connection open nor one that never answers GOAWAY prevents it.
CauseEndsServeAll == (sig \/ Failed # {}) ~> mainPC = "returned"

\* What appMain's "server exited with error ... return 1" says of the program
\* (main.go:71-74): a run in which a server failed does not exit with code 0.
FailureExitsOne == mainPC = "returned" /\ Failed # {} => ExitCode = 1
====
