---- MODULE Startup ----
(***************************************************************************)
(* From the environment variables to the two listening sockets: appMain,   *)
(* run and loadServerTLS (cmd/hsmdoc/main.go:46-128) with config.Load      *)
(* (internal/config/config.go).  The TLS files and the ports belong to     *)
(* everyone on the machine and may change between any two steps; what was  *)
(* checked in Load may no longer hold when run uses it.  serveAll appears  *)
(* here by its outcome alone (see ServeAll).                               *)
(***************************************************************************)
EXTENDS Integers, FiniteSets

CONSTANTS
  PortInputs,  \* the values the two port variables may have, as Atoi reads them
  Unset,       \* the variable is empty, or blank
  NotANumber,  \* Atoi rejects the value
  Pairs,       \* key pairs: the certificate of one matches its key alone
  MaxChanges   \* how often others change a file or a port while the server starts

ASSUME StartupAssumption ==
  PortInputs \subseteq Int /\ Unset \notin Int /\ NotANumber \notin Int /\ MaxChanges \in Nat

VARIABLES
  portVar,   \* HSMDOC_GRPC_PORT and HSMDOC_HEALTH_PORT
  pathSet,   \* whether HSMDOC_TLS_CERT and HSMDOC_TLS_KEY are set
  file,      \* what each path leads to
  busy,      \* the ports other processes listen on
  changes,   \* how often the outside world has interfered
  pc,        \* where the program is
  exitCode,      \* its exit code
  port,      \* cfg.GRPCPort and cfg.HealthPort
  loaded,    \* the contents tls.LoadX509KeyPair has read
  held,      \* the endpoints whose listener is open
  sig        \* ctx is done: a signal has arrived since NotifyContext

cfgVars == <<portVar, pathSet>>
envVars == <<cfgVars, file, busy, changes>>
vars == <<envVars, pc, exitCode, port, loaded, held, sig>>

Endpoints == {"grpc", "health"}
Files     == {"cert", "key"}
NoFile    == {"missing", "dir"}
Contents  == NoFile \union {"unreadable", "garbage"} \union Pairs
PCs == {"load", "statCert", "statKey", "notify", "readCert", "readKey", "listenGRPC",
        "listenHealth", "serving", "exited"}

\* The largest TCP port.
MaxPort == 65535

\* The port of an endpoint: the variable's, or the default of config.go:19-20.
PortOf(e) ==
  IF portVar[e] = Unset THEN IF e = "grpc" THEN 9443 ELSE 9090 ELSE portVar[e]

Init ==
  /\ portVar \in [Endpoints -> PortInputs \union {Unset, NotANumber}]
  /\ pathSet \in [Files -> BOOLEAN]
  /\ file \in [Files -> Contents]
  /\ busy = {} /\ changes = 0
  /\ pc = "load" /\ exitCode = -1
  /\ port = [e \in Endpoints |-> 0]
  /\ loaded = [f \in Files |-> "missing"]
  /\ held = {} /\ sig = FALSE

----
\* Slips that the properties have to notice; no specification uses them.

\* parsePort lets 0 pass, which net.Listen takes for "any port".
ParsesFromZero(e) == portVar[e] # NotANumber /\ PortOf(e) \in 0 .. MaxPort

\* The error of Atoi is not looked at.
ParsesAnything(e) == portVar[e] = NotANumber \/ PortOf(e) \in 1 .. MaxPort

\* run does not close the gRPC listener when the other cannot be opened.
KeepsGRPC(e) == held

\* The ports are not compared.
PortsUnchecked == \A f \in Files : pathSet[f]

\* serveAll is given a context of its own instead of ctx.
SignalUnseen == FALSE /\ UNCHANGED vars

----
\* config.Load

\* parsePort; a default is in range.
ParsesPort(e) == portVar[e] # NotANumber /\ PortOf(e) \in 1 .. MaxPort

\* config.go:65-73
ValuesAgree == PortOf("grpc") # PortOf("health") /\ \A f \in Files : pathSet[f]

Exit(code) == pc' = "exited" /\ exitCode' = code

\* The environment variables are read and checked in one go: nobody else can
\* change them.
LoadValues ==
  /\ pc = "load"
  /\ IF (\A e \in Endpoints : ParsesPort(e)) /\ ValuesAgree
     THEN /\ pc' = "statCert" /\ port' = [e \in Endpoints |-> PortOf(e)]
          /\ UNCHANGED exitCode
     ELSE Exit(2) /\ UNCHANGED port
  /\ UNCHANGED <<envVars, loaded, held, sig>>

\* assertReadable: os.Stat and IsDir, which say nothing of permissions.
StatFile(f, at, next) ==
  /\ pc = at
  /\ IF file[f] \in NoFile THEN Exit(2) ELSE pc' = next /\ UNCHANGED exitCode
  /\ UNCHANGED <<envVars, port, loaded, held, sig>>

----
\* appMain and run

\* signal.NotifyContext: from here on a signal cancels ctx.
Notify ==
  /\ pc = "notify" /\ pc' = "readCert"
  /\ UNCHANGED <<envVars, exitCode, port, loaded, held, sig>>

\* tls.LoadX509KeyPair reads one file after the other and then compares them.
ReadCert ==
  /\ pc = "readCert"
  /\ loaded' = [loaded EXCEPT !["cert"] = file["cert"]]
  /\ IF file["cert"] \in NoFile \union {"unreadable"}
     THEN Exit(1) ELSE pc' = "readKey" /\ UNCHANGED exitCode
  /\ UNCHANGED <<envVars, port, held, sig>>

ReadKey ==
  /\ pc = "readKey"
  /\ loaded' = [loaded EXCEPT !["key"] = file["key"]]
  /\ IF file["key"] \in Pairs /\ file["key"] = loaded["cert"]
     THEN pc' = "listenGRPC" /\ UNCHANGED exitCode ELSE Exit(1)
  /\ UNCHANGED <<envVars, port, held, sig>>

\* net.Listen on a port: 0 stands for any free one.
CanListen(e) ==
  /\ port[e] \in 0 .. MaxPort
  /\ port[e] # 0 => port[e] \notin busy \union {port[o] : o \in held}

ListenGRPC ==
  /\ pc = "listenGRPC"
  /\ IF CanListen("grpc")
     THEN held' = {"grpc"} /\ pc' = "listenHealth" /\ UNCHANGED exitCode
     ELSE Exit(1) /\ UNCHANGED held
  /\ UNCHANGED <<envVars, port, loaded, sig>>

\* main.go:90: what is left open when the health port cannot be opened.
HeldAfterFailure(e) == held \ {e}

ListenHealth ==
  /\ pc = "listenHealth"
  /\ IF CanListen("health")
     THEN held' = Endpoints /\ pc' = "serving" /\ UNCHANGED exitCode
     ELSE Exit(1) /\ held' = HeldAfterFailure("grpc")
  /\ UNCHANGED <<envVars, port, loaded, sig>>

\* serveAll returns with both listeners closed: because of the signal, or of a
\* failure of its own.
ServeAllReturns(code) ==
  /\ pc = "serving"
  /\ Exit(code) /\ held' = {}
  /\ UNCHANGED <<envVars, port, loaded, sig>>

SignalStops == sig /\ ServeAllReturns(0)
FailureStops == \E code \in {0, 1} : ServeAllReturns(code)

Program ==
  \/ LoadValues \/ Notify \/ ReadCert \/ ReadKey \/ ListenGRPC \/ ListenHealth
  \/ StatFile("cert", "statCert", "statKey") \/ StatFile("key", "statKey", "notify")
  \/ SignalStops

----
\* The outside world

\* SIGINT or SIGTERM; before NotifyContext it ends the process at once.
Signal ==
  /\ pc # "exited" /\ ~sig
  /\ IF pc \in {"load", "statCert", "statKey", "notify"}
     THEN Exit(143) /\ UNCHANGED sig
     ELSE sig' = TRUE /\ UNCHANGED <<pc, exitCode>>
  /\ UNCHANGED <<envVars, port, loaded, held>>

Interferes == pc \notin {"load", "serving", "exited"} /\ changes < MaxChanges /\ changes' = changes + 1

\* A file is replaced, removed or made unreadable.
ChangeFile(f) ==
  /\ Interferes
  /\ \E x \in Contents \ {file[f]} : file' = [file EXCEPT ![f] = x]
  /\ UNCHANGED <<cfgVars, busy, pc, exitCode, port, loaded, held, sig>>

\* Another process takes a port that is free, or gives one back.
ChangePort(e) ==
  /\ Interferes /\ e \notin held /\ port[e] # 0
  /\ busy' = IF port[e] \in busy THEN busy \ {port[e]} ELSE busy \union {port[e]}
  /\ UNCHANGED <<cfgVars, file, pc, exitCode, port, loaded, held, sig>>

Next ==
  \/ Program \/ FailureStops \/ Signal
  \/ \E f \in Files : ChangeFile(f)
  \/ \E e \in Endpoints : ChangePort(e)

\* The program runs on; nothing is assumed of signals, files, ports or failures.
Spec == Init /\ [][Next]_vars /\ WF_vars(Program)

----
\* Every variable stays within its values; the ports in use are numbers.
TypeOK ==
  /\ portVar \in [Endpoints -> PortInputs \union {Unset, NotANumber}]
  /\ pathSet \in [Files -> BOOLEAN]
  /\ file \in [Files -> Contents] /\ loaded \in [Files -> Contents]
  /\ changes \in 0 .. MaxChanges /\ busy \subseteq Int
  /\ pc \in PCs /\ exitCode \in {-1, 0, 1, 2, 143}
  /\ port \in [Endpoints -> Int]
  /\ held \subseteq Endpoints /\ sig \in BOOLEAN

\* What HSM-OPS-CFG-002 calls a valid configuration, as far as the variables go.
ValidValues ==
  /\ \A e \in Endpoints : portVar[e] = Unset \/ portVar[e] \in PortInputs \intersect (1 .. MaxPort)
  /\ PortOf("grpc") # PortOf("health")
  /\ \A f \in Files : pathSet[f]

\* The service does not start with an invalid configuration (HSM-OPS-CFG-002):
\* it exits with code 2 and never opens a socket.
InvalidNeverStarts ==
  ~ValidValues => held = {} /\ (pc = "exited" => exitCode \in {2, 143})

\* A serving process holds two different ports of the range 1..65535 and a
\* certificate with its own key, although files and ports may have changed
\* between the check in Load and their use in run.
ServesWhatItHolds ==
  pc = "serving" =>
    /\ held = Endpoints /\ port["grpc"] # port["health"]
    /\ \A e \in Endpoints : port[e] \in 1 .. MaxPort /\ port[e] \notin busy
    /\ loaded["cert"] \in Pairs /\ loaded["key"] = loaded["cert"]

\* However the start fails, no listener stays open (main.go:88-93).
NothingHeldAtExit == pc = "exited" => held = {}

\* A signal that arrives while the server is still starting is not lost: the
\* process ends (main.go:68-71).
SignalEndsProcess == sig ~> pc = "exited"
====
