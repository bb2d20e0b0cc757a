---- MODULE GrpcServer ----
(***************************************************************************)
(* The gRPC server that newGRPCServer (cmd/hsmdoc/main.go:108) builds: the *)
(* contract of grpc.Server that serveAll and shutdownGRPC use (Serve,      *)
(* GracefulStop, Stop) and the four RPCs of the skeleton adapter, which    *)
(* embeds UnimplementedHsmDocServiceServer: a handler answers              *)
(* codes.Unimplemented at once, whatever the client does.                  *)
(*                                                                         *)
(* grpc.Server is outside the repository.  What matters here of it:        *)
(*  - Serve called after a stop closes the listener and returns            *)
(*    ErrServerStopped; Serve overtaken by a stop returns nil, and only    *)
(*    when a stop is complete; any other accept error is returned and      *)
(*    leaves the established connections alone;                            *)
(*  - both stops close the listener, then wait until Serve has left its    *)
(*    accept loop and no TLS handshake is left;                            *)
(*  - GracefulStop then waits until every connection has gone away and     *)
(*    every handler has returned, Stop closes the connections itself.      *)
(***************************************************************************)
EXTENDS Naturals

CONSTANT Conns   \* the TCP connections that clients may open to the gRPC port

VARIABLES
  serve,     \* where Serve is, and what it returned
  lis,       \* the listening socket is open
  quit,      \* a stop has been called
  graceful,  \* how far GracefulStop is
  forced,    \* how far Stop is
  conn,      \* the state of each connection
  handlers   \* the connections on which a handler is running

stopVars == <<graceful, forced>>
connVars == <<conn, handlers>>
gvars == <<serve, lis, quit, stopVars, connVars>>

\* "blocked": Serve has left its loop and waits for the stop to complete;
\* "nil", "stopped" (ErrServerStopped) and "err" are its results.
ServePCs == {"new", "serving", "blocked", "nil", "stopped", "err"}
StopPCs  == {"none", "closing", "draining", "done"}
GConnSts == {"none", "handshake", "open", "gone"}

Live == {c \in Conns : conn[c] \in {"handshake", "open"}}

\* s.serveWG.Wait() returns.
ServersReady == serve # "serving" /\ \A c \in Conns : conn[c] # "handshake"

\* s.done has fired.
StopComplete == graceful = "done" \/ forced = "done"

GInit ==
  /\ serve = "new" /\ lis = TRUE /\ quit = FALSE
  /\ graceful = "none" /\ forced = "none"
  /\ conn = [c \in Conns |-> "none"] /\ handlers = {}

----
\* Serve

ServeCall ==
  /\ serve = "new"
  /\ serve' = IF quit THEN "stopped" ELSE "serving"
  /\ lis' = (lis /\ ~quit)
  /\ UNCHANGED <<quit, stopVars, connVars>>

Accept(c) ==
  /\ serve = "serving" /\ lis /\ conn[c] = "none"
  /\ conn' = [conn EXCEPT ![c] = "handshake"]
  /\ UNCHANGED <<serve, lis, quit, stopVars, handlers>>

\* The accept loop ends with an error although nobody has stopped the server.
GAcceptFails ==
  /\ serve = "serving" /\ ~quit
  /\ serve' = "err" /\ lis' = FALSE
  /\ UNCHANGED <<quit, stopVars, connVars>>

AcceptStops ==
  /\ serve = "serving" /\ quit
  /\ serve' = "blocked" /\ lis' = FALSE
  /\ UNCHANGED <<quit, stopVars, connVars>>

ServeReturnsNil ==
  /\ serve = "blocked" /\ StopComplete
  /\ serve' = "nil"
  /\ UNCHANGED <<lis, quit, stopVars, connVars>>

----
\* Connections and RPCs

\* The TLS handshake succeeds, or fails or exceeds grpc-go's connection timeout.
HandshakeEnds(c) ==
  /\ conn[c] = "handshake"
  /\ \E s \in {"open", "gone"} : conn' = [conn EXCEPT ![c] = s]
  /\ UNCHANGED <<serve, lis, quit, stopVars, handlers>>

\* A client calls Encrypt, Decrypt, ListKeys or Health; after GOAWAY it cannot.
StartRPC(c) ==
  /\ conn[c] = "open" /\ c \notin handlers /\ graceful # "draining"
  /\ handlers' = handlers \union {c}
  /\ UNCHANGED <<serve, lis, quit, stopVars, conn>>

\* The stub returns status.Error(codes.Unimplemented, ...).
HandlerReturns(c) ==
  /\ c \in handlers
  /\ handlers' = handlers \ {c}
  /\ UNCHANGED <<serve, lis, quit, stopVars, conn>>

\* The client hangs up, or answers GOAWAY by closing its side.
ClientCloses(c) ==
  /\ conn[c] = "open"
  /\ conn' = [conn EXCEPT ![c] = "gone"]
  /\ UNCHANGED <<serve, lis, quit, stopVars, handlers>>

----
\* GracefulStop and Stop; either may be called first.

\* Only a listener that Serve has registered is closed.
CloseListeners == quit' = TRUE /\ lis' = (lis /\ serve = "new")

GracefulStop ==
  /\ graceful = "none" /\ graceful' = "closing"
  /\ CloseListeners
  /\ UNCHANGED <<serve, forced, connVars>>

\* drainAllServerTransports: GOAWAY to every connection.
GracefulDrains ==
  /\ graceful = "closing" /\ ServersReady
  /\ graceful' = "draining"
  /\ UNCHANGED <<serve, lis, quit, forced, connVars>>

GracefulDone ==
  /\ graceful = "draining" /\ Live = {} /\ handlers = {}
  /\ graceful' = "done"
  /\ UNCHANGED <<serve, lis, quit, forced, connVars>>

Stop ==
  /\ forced = "none" /\ forced' = "closing"
  /\ CloseListeners
  /\ UNCHANGED <<serve, graceful, connVars>>

\* closeServerTransports: running handlers are not waited for.
StopCuts ==
  /\ forced = "closing" /\ ServersReady
  /\ forced' = "draining"
  /\ conn' = [c \in Conns |-> IF conn[c] = "open" THEN "gone" ELSE conn[c]]
  /\ UNCHANGED <<serve, lis, quit, graceful, handlers>>

StopDone ==
  /\ forced = "draining" /\ Live = {}
  /\ forced' = "done"
  /\ UNCHANGED <<serve, lis, quit, graceful, connVars>>

----
\* Steps that are grpc.Server's own, each taken at most once.
GProgress ==
  \/ AcceptStops \/ ServeReturnsNil
  \/ GracefulDrains \/ GracefulDone \/ StopCuts \/ StopDone

\* Steps of the outside world.
GEnvironment ==
  \/ GAcceptFails
  \/ \E c \in Conns : Accept(c) \/ StartRPC(c) \/ ClientCloses(c)

\* Every step of the module, whoever takes it.
GNext ==
  \/ ServeCall \/ GracefulStop \/ Stop \/ GProgress \/ GEnvironment
  \/ \E c \in Conns : HandshakeEnds(c) \/ HandlerReturns(c)

\* Every variable stays within its states.
GTypeOK ==
  /\ serve \in ServePCs /\ lis \in BOOLEAN /\ quit \in BOOLEAN
  /\ graceful \in StopPCs /\ forced \in StopPCs
  /\ conn \in [Conns -> GConnSts] /\ handlers \subseteq Conns
====
