---- MODULE HealthAdapter ----
(***************************************************************************)
(* The HTTP health adapter (internal/adapter/driving/health/health.go):    *)
(* Run, the goroutine it spawns around http.Server.Serve, the one-element  *)
(* channel errCh between the two, and the part of http.Server that Run     *)
(* relies on (Serve, Shutdown and the state it tracks per connection).     *)
(*                                                                         *)
(* http.Server is outside the repository; its actions are the contract     *)
(* that Run uses: Serve returns ErrServerClosed once Shutdown has been     *)
(* called and any other error otherwise, Serve closes the listener when it *)
(* returns, Shutdown waits for Serve to leave its accept loop and then for *)
(* the connections to become idle, until its context expires.              *)
(***************************************************************************)
EXTENDS Naturals, Sequences

CONSTANT HConns   \* the TCP connections that clients may open to the health port

VARIABLES
  ctxDone,    \* ctx.Done() is closed
  runPC,      \* where Run is
  errCh,      \* make(chan error, 1)
  hresult,    \* what Run returned: the set of failures joined in its error, {} for nil
  shutErr,    \* what Shutdown returned, as a set of failures
  srvGo,      \* where the Serve goroutine is
  srvErr,     \* what Serve returned, less ErrServerClosed, as a set of failures
  httpDown,   \* http.Server.inShutdown
  hln,        \* the listening socket is open
  hconn       \* the state http.Server keeps of each connection

runVars  == <<runPC, hresult, shutErr>>
goVars   == <<srvGo, srvErr>>
httpVars == <<httpDown, hln, hconn>>
hvars    == <<ctxDone, errCh, runVars, goVars, httpVars>>

RunPCs   == {"new", "select", "shutdown", "polling", "recv", "returned"}
SrvPCs   == {"new", "spawned", "serving", "accepting", "returned", "done"}
ConnSts  == {"none", "accepted", "active", "idle", "closed"}
HFailures == {"serve", "shutdown"}

\* In-flight connections: those Shutdown has to wait for.
Busy == {c \in HConns : hconn[c] \in {"accepted", "active"}}

\* Serve is between trackListener(true) and trackListener(false).
Tracked == srvGo \in {"serving", "accepting"}

\* Names the open sockets of the component.
Open == {c \in HConns : hconn[c] \in {"accepted", "active", "idle"}}

HInit ==
  /\ ctxDone = FALSE
  /\ runPC = "new" /\ hresult = {} /\ shutErr = {}
  /\ errCh = <<>>
  /\ srvGo = "new" /\ srvErr = {}
  /\ httpDown = FALSE /\ hln = TRUE
  /\ hconn = [c \in HConns |-> "none"]

----
\* Slips that the properties have to notice; no specification uses them.

\* Shutdown is given a context that never expires.
ShutdownUnbounded == FALSE /\ UNCHANGED hvars

\* Run returns without waiting for the goroutine.
RunSkipsReceive ==
  /\ runPC = "recv"
  /\ hresult' = shutErr /\ runPC' = "returned"
  /\ UNCHANGED <<ctxDone, errCh, shutErr, goVars, httpVars>>

\* Run reports the error of Serve alone, or that of Shutdown when there is one.
RunReceivesAs(res) ==
  /\ runPC = "recv" /\ errCh # <<>>
  /\ hresult' = res /\ runPC' = "returned"
  /\ errCh' = Tail(errCh)
  /\ UNCHANGED <<ctxDone, shutErr, goVars, httpVars>>
RunDropsShutdownErr == RunReceivesAs(Head(errCh))
RunPrefersShutdownErr == RunReceivesAs(IF shutErr # {} THEN shutErr ELSE Head(errCh))

\* The goroutine sends nil behind its error (the return of line 45 is missing),
\* or sends nothing on an error.
ServeSendsAll(msgs) ==
  /\ srvGo = "returned"
  /\ errCh' = errCh \o msgs /\ srvGo' = "done"
  /\ UNCHANGED <<ctxDone, runVars, srvErr, httpVars>>
ServeSendsNilToo == ServeSendsAll(IF srvErr = {} THEN <<{}>> ELSE <<srvErr, {}>>)
ServeKeepsError == ServeSendsAll(IF srvErr = {} THEN <<{}>> ELSE <<>>)

----
\* Run

RunStart ==
  /\ runPC = "new"
  /\ runPC' = "select" /\ srvGo' = "spawned"
  /\ UNCHANGED <<ctxDone, errCh, hresult, shutErr, srvErr, httpVars>>

\* case <-ctx.Done(): Shutdown marks the server as down and closes the
\* listener that Serve has registered, if it has.
RunSeesCancel ==
  /\ runPC = "select" /\ ctxDone
  /\ runPC' = "shutdown"
  /\ httpDown' = TRUE
  /\ hln' = (hln /\ ~Tracked)
  /\ UNCHANGED <<ctxDone, errCh, hresult, shutErr, goVars, hconn>>

\* One round of Shutdown's loop, once Serve has left its accept loop: the idle
\* connections are closed, and if no other is left Shutdown returns nil.
ShutdownPoll ==
  /\ runPC \in {"shutdown", "polling"} /\ ~Tracked
  /\ hconn' = [c \in HConns |-> IF hconn[c] = "idle" THEN "closed" ELSE hconn[c]]
  /\ runPC' = IF Busy = {} THEN "recv" ELSE "polling"
  /\ UNCHANGED <<ctxDone, errCh, hresult, shutErr, goVars, httpDown, hln>>

\* The five seconds of shutdownCtx are over before a round found no connection.
ShutdownTimesOut ==
  /\ runPC = "polling"
  /\ runPC' = "recv" /\ shutErr' = {"shutdown"}
  /\ UNCHANGED <<ctxDone, errCh, hresult, goVars, httpVars>>

\* serveErr := <-errCh, joined with the error of Shutdown.
RunReceives ==
  /\ runPC = "recv" /\ errCh # <<>>
  /\ hresult' = shutErr \union Head(errCh)
  /\ errCh' = Tail(errCh)
  /\ runPC' = "returned"
  /\ UNCHANGED <<ctxDone, shutErr, goVars, httpVars>>

\* case err := <-errCh
RunSeesServeError ==
  /\ runPC = "select" /\ errCh # <<>>
  /\ hresult' = Head(errCh)
  /\ errCh' = Tail(errCh)
  /\ runPC' = "returned"
  /\ UNCHANGED <<ctxDone, shutErr, goVars, httpVars>>

\* The goroutine sends nil or its error; the channel holds one element, so
\* that the send does not wait for Run.
ServeSends ==
  /\ srvGo = "returned" /\ Len(errCh) < 1
  /\ errCh' = Append(errCh, srvErr)
  /\ srvGo' = "done"
  /\ UNCHANGED <<ctxDone, runVars, srvErr, httpVars>>

----
\* http.Server.Serve and the connections (external)

\* Serve registers the listener, or finds the server already shut down.
ServeEnter ==
  /\ srvGo = "spawned"
  /\ srvGo' = IF httpDown THEN "returned" ELSE "serving"
  /\ hln' = (hln /\ ~httpDown)
  /\ UNCHANGED <<ctxDone, errCh, runVars, srvErr, httpDown, hconn>>

\* Accept has handed over a connection; Serve has not registered it yet.
ServeAccepts(c) ==
  /\ srvGo = "serving" /\ hln /\ hconn[c] = "none"
  /\ hconn' = [hconn EXCEPT ![c] = "accepted"]
  /\ srvGo' = "accepting"
  /\ UNCHANGED <<ctxDone, errCh, runVars, srvErr, httpDown, hln>>

ServeTracksConn(c) ==
  /\ srvGo = "accepting" /\ hconn[c] = "accepted"
  /\ hconn' = [hconn EXCEPT ![c] = "active"]
  /\ srvGo' = "serving"
  /\ UNCHANGED <<ctxDone, errCh, runVars, srvErr, httpDown, hln>>

\* Accept fails for good although nobody closed the listener.
AcceptFails ==
  /\ srvGo = "serving" /\ ~httpDown
  /\ srvErr' = {"serve"} /\ srvGo' = "returned"
  /\ hln' = FALSE
  /\ UNCHANGED <<ctxDone, errCh, runVars, httpDown, hconn>>

\* Accept fails after Shutdown: ErrServerClosed, which health.go:43 filters.
ServeStops ==
  /\ srvGo = "serving" /\ httpDown
  /\ srvGo' = "returned" /\ hln' = FALSE
  /\ UNCHANGED <<ctxDone, errCh, runVars, srvErr, httpDown, hconn>>

\* A handler (livenessHandler, readinessHandler) has written its answer; the
\* connection is kept alive or closed.
HandlerDone(c) ==
  /\ hconn[c] = "active"
  /\ \E s \in {"idle", "closed"} : hconn' = [hconn EXCEPT ![c] = s]
  /\ UNCHANGED <<ctxDone, errCh, runVars, goVars, httpDown, hln>>

\* A client sends another request, or hangs up.
ClientUses(c) ==
  /\ hconn[c] = "idle"
  /\ \E s \in {"active", "closed"} : hconn' = [hconn EXCEPT ![c] = s]
  /\ UNCHANGED <<ctxDone, errCh, runVars, goVars, httpDown, hln>>

----
\* The steps the program itself makes: none of them needs a client.
HProgress ==
  \/ RunSeesCancel \/ ShutdownPoll \/ RunReceives
  \/ RunSeesServeError \/ ServeSends \/ ServeEnter \/ ServeStops
  \/ \E c \in HConns : ServeTracksConn(c)

\* The steps of the outside world.
HEnvironment ==
  \/ AcceptFails
  \/ \E c \in HConns : ServeAccepts(c) \/ HandlerDone(c) \/ ClientUses(c)

\* The caller of Run cancels its context.
Cancel ==
  /\ ~ctxDone /\ ctxDone' = TRUE
  /\ UNCHANGED <<errCh, runVars, goVars, httpVars>>

HNext == Cancel \/ RunStart \/ ShutdownTimesOut \/ HProgress \/ HEnvironment

\* Weak fairness of the two goroutines and of the five-second timer; nothing is
\* assumed of clients, handlers, accept errors or of the caller's cancel.
HSpec ==
  /\ HInit /\ [][HNext]_hvars
  /\ WF_hvars(RunStart) /\ WF_hvars(HProgress) /\ WF_hvars(ShutdownTimesOut)

----
\* Every variable stays within the states the code can put it in.
HTypeOK ==
  /\ ctxDone \in BOOLEAN /\ httpDown \in BOOLEAN /\ hln \in BOOLEAN
  /\ runPC \in RunPCs /\ srvGo \in SrvPCs
  /\ hresult \subseteq HFailures /\ shutErr \subseteq {"shutdown"}
  /\ srvErr \subseteq {"serve"}
  /\ errCh \in {<<>>, <<{}>>, <<{"serve"}>>}
  /\ hconn \in [HConns -> ConnSts]

\* When Run has returned, the goroutine it spawned is over and the listener is
\* closed, on every path (health.go:55-59: the caller accumulates no leak).
ReturnedIsQuiet ==
  runPC = "returned" => srvGo = "done" /\ ~hln /\ errCh = <<>>

\* Run reports exactly what failed: an accept error that raced with the
\* cancellation is not lost, nor is a shutdown that timed out (health.go:60-63).
ReportsEveryFailure ==
  runPC = "returned" => hresult = srvErr \union shutErr

\* A nil result means that the context was cancelled and that the shutdown
\* closed every connection: no request is still being answered.
NilMeansDrained ==
  runPC = "returned" /\ hresult = {} => ctxDone /\ Open = {}

\* Once the context is cancelled Run returns, however the clients behave; once
\* Serve fails Run returns without any cancellation.
CancelEndsRun == ctxDone ~> runPC = "returned"
ServeErrorEndsRun == srvErr # {} ~> runPC = "returned"
====
