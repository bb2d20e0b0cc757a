---- MODULE Lifecycle ----
(***************************************************************************)
(* What serveAll (cmd/hsmdoc/main.go:130) promises its caller, said without*)
(* goroutines, channels or contexts.  The process owns two endpoints, gRPC *)
(* and health, and the gRPC connections accepted through the first.  It    *)
(* serves until it is told to stop or an endpoint fails; then it takes both*)
(* endpoints down, sheds the connections and returns, whatever the clients *)
(* do (the comment at main.go:138-142).  An endpoint never comes back.     *)
(***************************************************************************)
CONSTANT Clients   \* the connections that may be made to the gRPC endpoint

VARIABLES
  phase,      \* "serving", "stopping" or "stopped"
  open,       \* the endpoints that accept connections
  live,       \* the gRPC connections
  signalled   \* SIGINT or SIGTERM has arrived

lvars == <<phase, open, live, signalled>>

Endpoints == {"grpc", "health"}

LInit ==
  /\ phase = "serving" /\ open = Endpoints
  /\ live = {} /\ signalled = FALSE

Connect(c) ==
  /\ "grpc" \in open /\ c \notin live
  /\ live' = live \union {c}
  /\ UNCHANGED <<phase, open, signalled>>

Leave(c) ==
  /\ c \in live /\ live' = live \ {c}
  /\ UNCHANGED <<phase, open, signalled>>

\* An endpoint fails while the process serves.
Fail(e) ==
  /\ phase = "serving" /\ e \in open
  /\ open' = open \ {e}
  /\ UNCHANGED <<phase, live, signalled>>

\* A signal stops the process.
Signalled ==
  /\ phase # "stopped" /\ ~signalled /\ signalled' = TRUE
  /\ phase' = "stopping"
  /\ UNCHANGED <<open, live>>

\* So does the failure of one endpoint, and nothing else does.
FailureStops ==
  /\ phase = "serving" /\ open # Endpoints
  /\ phase' = "stopping"
  /\ UNCHANGED <<open, live, signalled>>

CloseEndpoint(e) ==
  /\ phase = "stopping" /\ e \in open
  /\ open' = open \ {e}
  /\ UNCHANGED <<phase, live, signalled>>

Shed ==
  /\ phase = "stopping"
  /\ \E S \in SUBSET live : S # {} /\ live' = live \ S
  /\ UNCHANGED <<phase, open, signalled>>

Return ==
  /\ phase = "stopping" /\ open = {} /\ live = {}
  /\ phase' = "stopped"
  /\ UNCHANGED <<open, live, signalled>>

TakeDown == FailureStops \/ Return \/ \E e \in Endpoints : CloseEndpoint(e)

LNext ==
  \/ Signalled \/ Shed \/ TakeDown
  \/ \E e \in Endpoints : Fail(e)
  \/ \E c \in Clients : Connect(c) \/ Leave(c)

LSpec ==
  /\ LInit /\ [][LNext]_lvars
  /\ WF_lvars(TakeDown) /\ WF_lvars(Shed)
====
