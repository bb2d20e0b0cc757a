---- MODULE StartupProofs ----
(***************************************************************************)
(* Proofs about Startup, for every set of port values and any amount of    *)
(* interference.  StartInv ties the program's place to what it has checked *)
(* and to the sockets it holds.                                            *)
(***************************************************************************)
EXTENDS Startup, TLAPS

\* What Load has established holds of everything that follows it.
CheckedInv ==
  /\ pc \notin {"load", "exited"} => ValidValues /\ port = [e \in Endpoints |-> PortOf(e)]
  /\ pc = "exited" /\ ~ValidValues => exitCode \in {2, 143}

\* Which listeners are open at each place; nobody else has their ports.
HeldInv ==
  /\ pc = "serving" => held = Endpoints
  /\ pc = "listenHealth" => held = {"grpc"}
  /\ pc \notin {"serving", "listenHealth"} => held = {}
  /\ \A e \in held : port[e] \notin busy

\* The listeners are opened with a certificate and its key in hand.
LoadedInv ==
  pc \in {"listenGRPC", "listenHealth", "serving"} =>
    loaded["cert"] \in Pairs /\ loaded["key"] = loaded["cert"]

StartInv == TypeOK /\ CheckedInv /\ HeldInv /\ LoadedInv

----
\* The initial states satisfy the invariant.
LEMMA StartInitInv == Init => StartInv
<1> SUFFICES ASSUME Init PROVE StartInv
  OBVIOUS
<1>1. TypeOK
  <2>1. file \in [Files -> Contents] /\ loaded \in [Files -> Contents]
    BY DEF Init, Contents, NoFile
  <2>2. pc \in PCs /\ exitCode \in {-1, 0, 1, 2, 143}
    BY DEF Init, PCs
  <2>3. changes \in 0 .. MaxChanges
    BY StartupAssumption DEF Init
  <2>4. port \in [Endpoints -> Int]
    BY DEF Init
  <2>. QED
    BY <2>1, <2>2, <2>3, <2>4 DEF Init, TypeOK
<1>2. CheckedInv /\ HeldInv /\ LoadedInv
  BY DEF Init, CheckedInv, HeldInv, LoadedInv
<1>. QED
  BY <1>1, <1>2 DEF StartInv

\* The variables of the environment are read once and belong to the process.
LEMMA ConfigFixed ==
  ASSUME UNCHANGED cfgVars
  PROVE  (ValidValues' <=> ValidValues) /\ \A e : PortOf(e)' = PortOf(e)
BY DEF cfgVars, ValidValues, PortOf

\* A successful LoadValues has found valid values.
LEMMA LoadChecks ==
  ASSUME TypeOK, \A e \in Endpoints : ParsesPort(e), ValuesAgree
  PROVE  ValidValues
<1>1. ASSUME NEW e \in Endpoints
      PROVE  portVar[e] = Unset \/ portVar[e] \in PortInputs \intersect (1 .. MaxPort)
  <2>1. portVar[e] \in PortInputs \union {Unset, NotANumber}
    BY DEF TypeOK
  <2>2. portVar[e] # NotANumber /\ PortOf(e) \in 1 .. MaxPort
    BY Zenon DEF ParsesPort
  <2>3. portVar[e] # Unset => PortOf(e) = portVar[e]
    BY DEF PortOf
  <2>. QED
    BY <2>1, <2>2, <2>3
<1>. QED
  BY <1>1 DEF ValuesAgree, ValidValues

\* The ports of a configuration that Load accepts are numbers.
LEMMA PortsAreNumbers ==
  ASSUME \A e \in Endpoints : ParsesPort(e)
  PROVE  [e \in Endpoints |-> PortOf(e)] \in [Endpoints -> Int]
<1>1. \A e \in Endpoints : PortOf(e) \in 1 .. MaxPort
  BY Zenon DEF ParsesPort
<1>2. \A x \in 1 .. MaxPort : x \in Int
  OBVIOUS
<1>3. \A e \in Endpoints : PortOf(e) \in Int
  BY <1>1, <1>2
<1>. QED
  BY <1>3

\* The ports in use after Load are those of two different endpoints.
LEMMA PortFacts ==
  ASSUME CheckedInv, pc \notin {"load", "exited"}
  PROVE  /\ \A e \in Endpoints : port[e] \in 1 .. MaxPort
         /\ port["grpc"] # port["health"]
<1>1. 9443 \in 1 .. MaxPort /\ 9090 \in 1 .. MaxPort
  <2>1. 9443 <= MaxPort /\ 9090 <= MaxPort /\ MaxPort \in Int
    BY DEF MaxPort
  <2>. QED
    BY <2>1
<1>2. ASSUME NEW e \in Endpoints PROVE PortOf(e) \in 1 .. MaxPort
  <2>1. CASE portVar[e] = Unset
    BY <1>1, <2>1 DEF PortOf
  <2>2. CASE portVar[e] # Unset
    <3>1. portVar[e] \in 1 .. MaxPort
      BY <2>2, Zenon DEF CheckedInv, ValidValues
    <3>. QED
      BY <2>2, <3>1 DEF PortOf
  <2>. QED
    BY <2>1, <2>2
<1>3. \A e \in Endpoints : port[e] = PortOf(e)
  BY DEF CheckedInv
<1>4. PortOf("grpc") # PortOf("health")
  BY DEF CheckedInv, ValidValues
<1>. QED
  BY <1>2, <1>3, <1>4 DEF Endpoints

\* Every step of the program and of the outside world preserves the invariant.
LEMMA StartStepInv == StartInv /\ [Next]_vars => StartInv'
<1> SUFFICES ASSUME StartInv, [Next]_vars PROVE StartInv'
  OBVIOUS
<1> USE DEF StartInv, Exit
<1>1. CASE LoadValues
  <2>1. UNCHANGED cfgVars
    BY <1>1 DEF LoadValues, envVars
  <2>2. TypeOK'
    BY <1>1, PortsAreNumbers DEF LoadValues, TypeOK, PCs, envVars, cfgVars
  <2>3. CheckedInv'
    BY <1>1, <2>1, ConfigFixed, LoadChecks DEF LoadValues, CheckedInv
  <2>4. HeldInv' /\ LoadedInv'
    BY <1>1 DEF LoadValues, HeldInv, LoadedInv, envVars
  <2>. QED
    BY <2>2, <2>3, <2>4
<1>2. CASE StatFile("cert", "statCert", "statKey") \/ StatFile("key", "statKey", "notify")
  <2>1. UNCHANGED cfgVars
    BY <1>2 DEF StatFile, envVars
  <2>2. TypeOK'
    BY <1>2 DEF StatFile, TypeOK, PCs, envVars, cfgVars
  <2>3. CheckedInv'
    BY <1>2, <2>1, ConfigFixed DEF StatFile, CheckedInv
  <2>4. HeldInv' /\ LoadedInv'
    BY <1>2 DEF StatFile, HeldInv, LoadedInv, envVars
  <2>. QED
    BY <2>2, <2>3, <2>4
<1>3. CASE Notify
  <2>1. UNCHANGED cfgVars
    BY <1>3 DEF Notify, envVars
  <2>2. TypeOK'
    BY <1>3 DEF Notify, TypeOK, PCs, envVars, cfgVars
  <2>3. CheckedInv'
    BY <1>3, <2>1, ConfigFixed DEF Notify, CheckedInv
  <2>4. HeldInv' /\ LoadedInv'
    BY <1>3 DEF Notify, HeldInv, LoadedInv, envVars
  <2>. QED
    BY <2>2, <2>3, <2>4
<1>4. CASE ReadCert
  <2>1. UNCHANGED cfgVars
    BY <1>4 DEF ReadCert, Files, envVars
  <2>2. TypeOK'
    BY <1>4 DEF ReadCert, Files, TypeOK, PCs, envVars, cfgVars
  <2>3. CheckedInv'
    BY <1>4, <2>1, ConfigFixed DEF ReadCert, Files, CheckedInv
  <2>4. HeldInv' /\ LoadedInv'
    BY <1>4 DEF ReadCert, Files, HeldInv, LoadedInv, envVars
  <2>. QED
    BY <2>2, <2>3, <2>4
<1>5. CASE ReadKey
  <2>1. UNCHANGED cfgVars
    BY <1>5 DEF ReadKey, Files, envVars
  <2>2. TypeOK'
    BY <1>5 DEF ReadKey, Files, TypeOK, PCs, envVars, cfgVars
  <2>3. CheckedInv'
    BY <1>5, <2>1, ConfigFixed DEF ReadKey, Files, CheckedInv
  <2>4. loaded'["cert"] = loaded["cert"] /\ loaded'["key"] = file["key"]
    BY <1>5 DEF ReadKey, TypeOK, Files
  <2>5. HeldInv' /\ LoadedInv'
    BY <1>5, <2>4 DEF ReadKey, HeldInv, LoadedInv, envVars
  <2>. QED
    BY <2>2, <2>3, <2>5
<1>6. CASE ListenGRPC
  <2>1. UNCHANGED cfgVars
    BY <1>6 DEF ListenGRPC, envVars
  <2>2. TypeOK'
    BY <1>6 DEF ListenGRPC, Endpoints, TypeOK, PCs, envVars, cfgVars
  <2>3. CheckedInv'
    BY <1>6, <2>1, ConfigFixed DEF ListenGRPC, CheckedInv
  <2>4. HeldInv'
    <3>1. port["grpc"] # 0
      BY <1>6, PortFacts DEF ListenGRPC, Endpoints
    <3>. QED
      BY <1>6, <3>1 DEF ListenGRPC, CanListen, HeldInv, envVars
  <2>5. LoadedInv'
    BY <1>6 DEF ListenGRPC, LoadedInv
  <2>. QED
    BY <2>2, <2>3, <2>4, <2>5
<1>7. CASE ListenHealth
  <2>1. UNCHANGED cfgVars
    BY <1>7 DEF ListenHealth, envVars
  <2>2. TypeOK'
    BY <1>7 DEF ListenHealth, HeldAfterFailure, TypeOK, PCs, envVars, cfgVars
  <2>3. CheckedInv'
    BY <1>7, <2>1, ConfigFixed DEF ListenHealth, CheckedInv
  <2>4. HeldInv'
    <3>1. port["health"] # 0
      BY <1>7, PortFacts DEF ListenHealth, Endpoints
    <3>. QED
      BY <1>7, <3>1 DEF ListenHealth, CanListen, HeldAfterFailure, HeldInv, Endpoints, envVars
  <2>5. LoadedInv'
    BY <1>7 DEF ListenHealth, LoadedInv
  <2>. QED
    BY <2>2, <2>3, <2>4, <2>5
<1>8. CASE SignalStops \/ FailureStops
  <2>1. UNCHANGED cfgVars
    BY <1>8 DEF SignalStops, FailureStops, ServeAllReturns, envVars
  <2>2. TypeOK'
    BY <1>8 DEF SignalStops, FailureStops, ServeAllReturns, TypeOK, PCs, envVars, cfgVars
  <2>3. CheckedInv'
    BY <1>8, <2>1, ConfigFixed DEF SignalStops, FailureStops, ServeAllReturns, CheckedInv
  <2>4. HeldInv' /\ LoadedInv'
    BY <1>8 DEF SignalStops, FailureStops, ServeAllReturns, HeldInv, LoadedInv, envVars
  <2>. QED
    BY <2>2, <2>3, <2>4
<1>9. CASE Signal
  <2>1. UNCHANGED cfgVars
    BY <1>9 DEF Signal, envVars
  <2>2. TypeOK'
    BY <1>9 DEF Signal, TypeOK, PCs, envVars, cfgVars
  <2>3. CheckedInv'
    BY <1>9, <2>1, ConfigFixed DEF Signal, CheckedInv
  <2>4. HeldInv' /\ LoadedInv'
    BY <1>9 DEF Signal, HeldInv, LoadedInv, envVars
  <2>. QED
    BY <2>2, <2>3, <2>4
<1>10. ASSUME NEW f \in Files, ChangeFile(f) PROVE StartInv'
  <2>1. UNCHANGED <<cfgVars, pc, exitCode, port, loaded, held, sig>>
    BY <1>10 DEF ChangeFile
  <2>2. TypeOK'
    BY <1>10, StartupAssumption DEF ChangeFile, Interferes, TypeOK, cfgVars
  <2>3. CheckedInv'
    BY <2>1, ConfigFixed DEF CheckedInv
  <2>4. HeldInv' /\ LoadedInv'
    BY <1>10, <2>1 DEF ChangeFile, HeldInv, LoadedInv
  <2>. QED
    BY <2>2, <2>3, <2>4
<1>11. ASSUME NEW e \in Endpoints, ChangePort(e) PROVE StartInv'
  <2>1. UNCHANGED <<cfgVars, pc, exitCode, port, loaded, held, sig>>
    BY <1>11 DEF ChangePort
  <2>2. TypeOK'
    <3>1. changes' \in 0 .. MaxChanges
      BY <1>11, StartupAssumption DEF ChangePort, Interferes, TypeOK
    <3>2. port[e] \in Int
      BY DEF TypeOK
    <3>3. busy' \subseteq Int
      <4>1. busy \subseteq Int /\ busy' \subseteq busy \union {port[e]}
        BY <1>11, Zenon DEF ChangePort, TypeOK
      <4>. QED
        BY <3>2, <4>1, Zenon
    <3>4. file' = file
      BY <1>11 DEF ChangePort
    <3>. QED
      BY <2>1, <3>1, <3>3, <3>4 DEF TypeOK, cfgVars
  <2>3. CheckedInv'
    BY <2>1, ConfigFixed DEF CheckedInv
  <2>4. \A o \in held : port[o] # port[e]
    BY <1>11, PortFacts DEF ChangePort, Interferes, HeldInv, Endpoints
  <2>5. HeldInv' /\ LoadedInv'
    BY <1>11, <2>1, <2>4 DEF ChangePort, HeldInv, LoadedInv
  <2>. QED
    BY <2>2, <2>3, <2>5
<1>12. CASE UNCHANGED vars
  <2>1. UNCHANGED <<envVars, cfgVars, pc, exitCode, port, loaded, held, sig>>
    BY <1>12 DEF vars, envVars
  <2>2. TypeOK'
    BY <2>1 DEF TypeOK, envVars, cfgVars
  <2>3. CheckedInv'
    BY <2>1, ConfigFixed DEF CheckedInv
  <2>4. HeldInv' /\ LoadedInv'
    BY <2>1 DEF HeldInv, LoadedInv, envVars
  <2>. QED
    BY <2>2, <2>3, <2>4
<1>. QED
  BY <1>1, <1>2, <1>3, <1>4, <1>5, <1>6, <1>7, <1>8, <1>9, <1>10, <1>11, <1>12 DEF Next, Program

----
\* The invariant holds of every start.
THEOREM StartInvariant == Spec => []StartInv
<1>1. Init => StartInv
  BY StartInitInv
<1>2. StartInv /\ [Next]_vars => StartInv'
  BY StartStepInv
<1>. QED
  BY <1>1, <1>2, PTL DEF Spec

\* Every variable of the start stays within its values, whatever the ports are.
THEOREM StartTypeCorrect == Spec => []TypeOK
<1>1. StartInv => TypeOK
  BY DEF StartInv
<1>. QED
  BY <1>1, StartInvariant, PTL

\* HSM-OPS-CFG-002 for every configuration: an invalid one ends in exit code 2
\* (or in the signal that killed the process) before any socket is opened.
THEOREM InvalidConfigurationNeverStarts == Spec => []InvalidNeverStarts
<1>1. StartInv => InvalidNeverStarts
  BY DEF StartInv, CheckedInv, HeldInv, InvalidNeverStarts
<1>. QED
  BY <1>1, StartInvariant, PTL

\* Whatever others do to the files and ports meanwhile, a serving process holds
\* two different valid ports and a matching key pair.
THEOREM ServingIsConsistent == Spec => []ServesWhatItHolds
<1>1. StartInv => ServesWhatItHolds
  BY PortFacts DEF StartInv, CheckedInv, HeldInv, LoadedInv, ServesWhatItHolds
<1>. QED
  BY <1>1, StartInvariant, PTL

\* No failure of the start leaves a listener open.
THEOREM NoListenerLeft == Spec => []NothingHeldAtExit
<1>1. StartInv => NothingHeldAtExit
  BY DEF StartInv, HeldInv, NothingHeldAtExit
<1>. QED
  BY <1>1, StartInvariant, PTL
====
