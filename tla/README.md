# A TLA+ model of c-hsm-doc

This directory holds the TLA+ specifications of the c-hsm-doc server, the TLC
configurations that check them on small instances, and TLAPS proofs that carry
the safety properties over to every instance. `PROJECT.json` is the index: the
runs, the source lines each definition models, a mutant of the code for every
property, the hazards of the code and the theorems.

    tlc -config serve_all.cfg MC_ServeAll.tla      # check one run
    tlc -config hkdf_params.cfg MarshalCall.tla    # the one run without an MC module
    tlapm ServeAllProofs.tla                       # check one proof module

## 1. The system

At this commit c-hsm-doc is a skeleton. One process (`cmd/hsmdoc`) reads its
configuration, loads a TLS key pair, opens two ports and serves gRPC (four RPCs
that all answer `Unimplemented`) and HTTP health checks until it gets a signal
or one of the servers fails. Around it are the spike that tries HKDF on a
PKCS#11 module, scripts that prepare tokens and keys, and the build gates. The
encryption streams, the session pool, the circuit breaker, the key registry and
the audit chain are described in `spec/` and `docs/` and have no code yet.

| Part | State | Operations | Meets | What is hard | What makes it correct |
|---|---|---|---|---|---|
| health adapter, `health.go` | `errCh`, where `Run` and its goroutine are, the state `http.Server` keeps | `Run`, two handlers | `serveAll` by its context and its result | cancel races with an accept error; shutdown before `Serve` was entered; a request that outlasts five seconds | returns on every path, leaves nothing behind, reports exactly what failed |
| gRPC adapter and server | listener, connections, handlers, progress of the two stops | `Serve`, `GracefulStop`, `Stop`, RPCs | `serveAll`, `shutdownGRPC` | both stops at once; a stop before `Serve`; silent clients | a stop comes to an end and closes everything |
| `serveAll`, `shutdownGRPC` | `runCtx`, `errs`, the WaitGroup, a timer | start, select, shut down, collect | both servers, `run` | the order of two goroutines, a signal, two failures and two timers | ends for every cause, loses no failure, leaves nothing behind |
| start: `appMain`, `run`, `config.Load` | configuration, key pair, listeners | check, load, listen | environment, files, ports | files and ports change between check and use; a signal in the middle | nothing invalid starts, nothing stays open, a signal is not lost |
| RPC calls, generated stubs | per call: stream, status | `Encrypt`, `Decrypt`, `ListKeys`, `Health` | `grpc.Server` | the status races with `Send`, GOAWAY and the end of the connection | one result per call, from the stub of its own RPC |
| HKDF spike | PKCS#11 session, key handles, C buffers | connect, find, derive, sign, close | a PKCS#11 module | order of calls, error paths, keys that change meanwhile | nothing left open unreported; a pass is evidence |
| `mechanism.go` | none | `Marshal`, `validate` | `C_DeriveKey` | offsets, combinations of salt fields | a block that decodes to its parameters, or an error |
| key scripts | tokens, PINs, keys | create if absent, set the PIN, import, verify | SoftHSM, Bouncy HSM | partial runs, reruns, masked failures | one token, one key, right attributes; what a run leaves does not block the next |
| gates (`proto-check`, coverage, closure, links) | files, exit codes | compare, decide | docker stages | a failing command that is not noticed | green only if the thing checked holds |
| end-to-end spike run | containers, network, directory | seven steps and a trap | docker | failure or a signal at any step, and in the trap | exit code kept, nothing left behind |

`serveAll` starts a goroutine for `grpc.Server.Serve` and one for `health.Run`;
they talk back through the channel `errs` of capacity two, and are told to stop
through `runCtx` (health) and through `GracefulStop`/`Stop` (gRPC), the first of
which runs in a goroutine of its own against a ten-second timer.

## 2. The modules

| Module | Models | Uses |
|---|---|---|
| `HealthAdapter` | `health.Run` over the contract of `http.Server` | |
| `GrpcServer` | the contract of `grpc.Server` and the skeleton RPCs | |
| `ServeAll` | `serveAll`, `shutdownGRPC` | EXTENDS the two above |
| `Lifecycle` | what `serveAll` promises | instantiated by `ServeAll` |
| `Startup` | `appMain`, `run`, `loadServerTLS`, `config.Load` | |
| `HsmDocCalls` | the client stubs and the service descriptor, call by call | EXTENDS `GrpcServer` |
| `HkdfParams` | `validate`, `Marshal` (operators only) and the C struct that reads the block | |
| `MarshalCall` | one caller of `Marshal` | EXTENDS `HkdfParams` |
| `HkdfSpike` | `TestHKDFEndToEndAgainstHSM` with `connect.go`, `derive.go`, `sign.go`, `verify.go` | EXTENDS `HkdfParams` |
| `KeysInit` | the three initialisation scripts | |
| `ProtoCheck` | `make proto-check` and `proto-gen` | |
| `CoverageStage` | the coverage stage and `coverage-gate.sh` | |
| `ImageGates` | `deps-closure`, `closure-check`, `smoke-dlopen` | |
| `SpikeRun` | `spike-hkdf-bouncyhsm.sh` | |
| `Ci` | the targets of the Makefile | EXTENDS the four above |
| `CallContract` | what a caller of the skeleton may rely on | instantiated by `HsmDocCalls` |
| `MC_*` | the constants of the TLC runs | |
| `ServeAllProofs`, `StartupProofs`, `HkdfSpikeProofs`, `KeysInitProofs`, `HsmDocCallsProofs`, `CiProofs` | the theorems of the module named | EXTENDS it |
| `AdapterProofs` | the theorems of `HealthAdapter` and `GrpcServer` | EXTENDS both |
| `HkdfParamsProofs` | the theorems of `HkdfParams` and `MarshalCall` | EXTENDS `MarshalCall` |

**HealthAdapter.** `runPC` is where `Run` is: in its `select`, in `Shutdown`
(`shutdown`, then `polling` once a round found a connection), at the receive of
line 59, or returned. `srvGo` is the goroutine. An error is the set of the
failures joined in it, `{}` is nil. `errCh` is a sequence with the capacity of
the channel in the guard of the send. Of `http.Server` the module keeps what
`Run` depends on: the flag that refuses a late `Serve`, that only a registered
listener is closed by `Shutdown`, that `Shutdown` first waits for `Serve` to
leave its loop and only then looks at connections, and the moment between an
accepted and a registered connection.

**GrpcServer.** `serve` is where `Serve` is, its three results included.
`Serve` that was overtaken by a stop waits until a stop is complete (`blocked`).
Both stops go through `closing` (waiting for the accept loop and the TLS
handshakes) and `draining`. `Stop` cuts the connections and does not wait for
handlers; `GracefulStop` waits for both. Both may be under way at once, which
is what the forced path of `shutdownGRPC` does.

**ServeAll.** `mainPC` is the main goroutine: `spawn`, `select`, `stop` (before
`shutdownGRPC`), `grace` (its select), `forced` (after the timer), `wait`,
`returned`. The variable `ctxDone` of `HealthAdapter` is `runCtx`. `taken`
remembers the error that the select received and logged. Both `defer cancel()`
and the logging change nothing that is modelled.

**Startup.** The environment is chosen once, in `Init`; the files behind the
two paths and the ports used by others may change at any step while the program
starts, up to `MaxChanges` times. A signal before `NotifyContext` kills the
process (143 stands for that); after it only sets `sig`. `serveAll` appears by
its result; that it ends and closes both listeners is what `ServeAll` shows.

**Lifecycle** knows a phase, the open endpoints, the connections and whether a
signal came. It says: nothing stops the process but a signal or a failed
endpoint; an endpoint never comes back; once stopping, both endpoints go down,
all connections are shed, and only then does it return; and all of this does
happen. `ServeAll` maps its state with `absPhase` and `absOpen`.

**HsmDocCalls** puts one call on each connection of `GrpcServer`. `user` is the
caller (`send`, `close`, `receive` for the two streams, `receive` alone for
`Invoke`), `wire` where the call is between the two sides: `request`,
`handling`, `status`, `over`. `Dispatch` is `StartRPC` of `GrpcServer` with the
handler that `Route` finds in `ServiceDesc`; `Answer` is `HandlerReturns`. The
rest is the contract of grpc-go: a request that crosses GOAWAY is refused, a
broken connection ends its calls with `Unavailable`, and a client closes a
connection after GOAWAY once no call is left on it. `closed` holds the clients that
have called `conn.Close`: whatever they call then is `Canceled`.

**CallContract** is the same seen by a caller: a call begins, is decided once, by
the stub of the RPC that was called or by the client side giving it up, and returns
what was decided. `HsmDocCalls` maps to it with `Phase`: a call is decided when
its `wire` is `over`, although the caller may still be sending.

**HkdfParams** keeps `mechanism.go` as it is: the order of the checks in
`validate`, and the writes of `Marshal` one after the other into a zeroed block, so
that an overlap would show. What it is compared with does not follow the code:
`MemberOffset` derives the layout from member sizes and natural alignment,
`WellFormed` is the standard's table of the salt members per salt type.

**HkdfSpike.** `pc` is the next call of the test; `Step` is the pattern
"call, `t.Fatalf` on an error": the run then goes to the cleanup, which is `Close`.
Every call may fail. `quirks` holds the module's deviations from the
standard (no HKDF, a key that is extractable, shows its value, is too short or too
long, survives its destruction). `calls` is the log that pkcs11-spy would write, the calls
of the slot and mechanism lookup included, with one entry where the Go binding calls
twice to learn a length first.
The token is shared: `ChangeKey` imports or deletes a master key at any step, so
that the handle found may stand for another key, or none, at the derivation.
`cmem` and `block` are the two C buffers and the parameter block with their
addresses as numbers in it. HKDF and HMAC are taken to be collision free: a tag is
the material and the length of its key.

**KeysInit** runs one of the three scripts again and again. `good` counts the keys
with our label on each token that a script has made; `other` holds the kinds of those
that someone else has imported: the scripts look at three attributes, so that
an `odd` key, in which only the value or a fourth attribute is wrong, passes and a
`lax` one does not. `softhsm2-util --init-token` sets the label and then the user PIN:
these are two steps (`InitToken`, `InitPin`), between which a run may end, and
`pinless` holds the tokens it has left like that. A tool may fail at every step; over
the network (`bouncyhsm.sh`) the server may have done what it was asked although the
answer is lost. `faulted` remembers that a tool has failed in this run or the run was
killed; a login that is refused because the token has no PIN is no such fault. A listing
that fails counts as one without our token, which is what `|| true` and the `if` around
a pipeline make of it. `Listed` holds the difference between the trimmed
and the anchored comparison of a padded label. Two runs at the same time are left
out: the callers (the compose service and the spike script) start one.

**The gates.** `ProtoCheck` runs the recipe command by command in one shell without
`set -e`; `broken` remembers which commands have failed, for the properties alone. A
tree is what its files say of the specification (`written`) and whether it holds a
file that buf would no longer write (`orphan`): without `clean` in `buf.gen.yaml` the
generator never removes one. `CoverageStage` is a chain of `&&` in which a failed `go
test` skips the pipeline but not the gate. `ImageGates` follows a set of libraries with
their `NEEDED` entries from the vendor image through the list and the copies to the
runtime image, where `dlopen` needs the closure of its module. The list is sorted
in the C locale, which the base image has: the bare name that `lddtree --list` prints
for a library it does not find comes behind all paths (`NextLines`), and only a copy
that fails on the last line stops the stage. `closure-check` looks for "not found",
which `lddtree --list` does not print: it fails only if `lddtree` itself does.
`SpikeRun` is seven steps and a trap. The server and the steps 4, 6 and 7 are
containers on the script's network. A container that docker reports as failed may exist
all the same; after a signal it may go on, or even come up later (`orphan`); and docker
does not remove a network that one is attached to. A second signal may end the trap
itself (`cut`). `Ci` picks one target per behaviour; `make ci` reaches the image gates
only behind a green coverage stage.

## 3. The runs

| Run | Instance | Shows |
|---|---|---|
| `health` | 2 clients | `Run` returns after a cancel and after an accept error (`CancelEndsRun`, `ServeErrorEndsRun`); the goroutine and the listener are then gone (`ReturnedIsQuiet`); the result is exactly the set of failures (`ReportsEveryFailure`); nil means drained (`NilMeansDrained`) |
| `serve_all` | 2 gRPC clients, 1 health client | `CauseEndsServeAll`, `CleanReturn`, `NoFailureSilent`, and `Refines`: `ServeAll` implements `Lifecycle` with its fairness |
| `serve_all_exit` | 1 of each | a violation, see below |
| `calls` | 2 connections, all 4 RPCs | `CallsReturn`; an `Unimplemented` comes from the stub of the RPC that was called, not from grpc-go for an unknown path, which has the same code (`AnsweredByItsMethod`); a graceful stop loses no answer (`DrainLosesNoAnswer`); `KeepsContract`: the calls implement `CallContract` |
| `hkdf_params` | 3 wide words, 3 lengths, all flags, salt types 0 to 5 | `BlockReadsBack`, `AcceptsWellFormed` |
| `hkdf_spike` | 2 slots, 2 handles, 2 foreign changes, all 64 sets of quirks | `NoSilentLeak`, `ReadsLiveMemory`, `CanonicalTrace` (what is logged when any call fails), `PassMeansConforming` |
| `keys_init` | 3 tokens, 3 runs, 1 failed listing, 1 foreign key | `SpikeFinds`: success leaves what `FindTokenSlot` and `FindSecretKey` look for; `ReadyIsVerified`, `NeverTwice`; `OnlyPinlessBlocks`: of all leftovers only a token without PIN makes a later run fail |
| `dev_token` | as `keys_init`, a label of 13 | a violation, see below |
| `ci` | 3 checks in a row; coverages around the threshold; 4 libraries, one of which two modules need | `CheckLeavesTree`, `VerdictIsRight`, `CoverageIsEarned`, `MissingStopsBuild`, `CiGreen`, `LeavesOnlyInterrupted`, `StepDecides` |
| `proto_check_green`, `closure_marker` | as `ci` | two violations, see below |
| `startup` | 6 port values, 2 key pairs, 2 changes | `InvalidNeverStarts`, `ServesWhatItHolds`, `NothingHeldAtExit`, `SignalEndsProcess` |

**Bounds.** A client is a connection. Connections do not interact except through
the question whether one of them still blocks a stop, so two are enough for one
to block while the other is idle, running a handler or gone; the proofs remove
the bound for safety. Each connection is used once, which keeps the runs finite:
a server that has been stopped accepts none, and before that a further
connection repeats the first. The ports of `startup` are the defaults, both ends
of the legal range and the first illegal value on each side; `Unset` and
`NotANumber` are model values. Two changes suffice to replace both files between
any two steps, or a file and a port. `Base` is the number of values of a byte: 256 in the program, 8 in `hkdf_params`
and `hkdf_spike`, so that numbers TLC can represent fill all eight digits of a word
(16777215 is 77777777 in base 8, one all-ones word; 2097153 differs from 1 only in
its top digit); the theorems hold for every base of at least five. Two slots and two handles
let the label lookup meet none, one and two; two changes let a key be deleted and
another take its handle between the search and the derivation. Three runs of a script are
one that is cut short, one that is cut short again and one that repairs; three tokens
leave one free in each. A label of 15 or 13 characters is that of the two scripts;
any shorter than 32 behaves alike. The coverages lie just below the rounding, at it,
at the threshold and at both ends. Four libraries with a shared and an indirect
dependency are enough for a closure to differ from the direct `NEEDED` entries.

No run uses symmetry, because each checks a
liveness property or is small anyway. `CHECK_DEADLOCK FALSE` is set since every
one of these programs ends.

**Fairness.** Weak fairness is assumed of the steps the program takes by itself:
goroutines that can run do run, timers fire, `http.Server` and `grpc.Server` go
on with what they have begun, and grpc-go limits a TLS handshake in time. In
`ServeAll` one weak fairness condition covers all of them, because in any fair
behaviour some such step is taken whenever one is enabled, and each can be taken
only a bounded number of times. A gRPC handler returns (`WF` of `Handler`), since
the stub answers without waiting for anything; once handlers talk to an HSM this
assumption has to be looked at again. In `calls` the
caller goes on with its own call (`WF` of `CallerStep`: the tests call `Send`, `CloseSend`
and `Recv` in a row), and what is on a connection that works arrives, a
handler returns, a broken connection is noticed (`WF` of `WireStep`). The servers'
own steps need none there. Nothing is assumed of clients of the server, of health
requests, of accept errors or of signals. That is why the two timeouts matter:
without them a client that holds its connection open would keep `serveAll` from
ending (the mutant `ShutdownUnbounded` takes the health server's away).

The scripts, the gates and the spike have no liveness property: each is a straight
line of commands whose end is the end of its commands.

**A bug.** `serve_all_exit` checks what `appMain` says of an error of `run`
(`main.go:71-73`: log "server exited with error" and return 1). It fails. When
a server dies before any signal (in the shortest run the health server, with an accept
error; the gRPC server takes two steps more), the select of `serveAll` takes its error out of
`errs` and logs it, but the loop that builds the result only sees what is still in the
channel. `serveAll` returns nil and the process exits with 0, so that a supervisor
restarting on failure would not restart it. `NoFailureSilent` states what does
hold: the failure is logged, or returned, and never both.

**A token that is not found.** `dev_token`: the second run of
`dev/softhsm/init.sh` makes a second token. Line 25 anchors the label at the
end of the line, softhsm2-util pads it with spaces (`ci/keys-init/softhsm.sh:37`
says so, and trims), and lines 4-5 and 26 promise that the script finds its token.

**A green check.** `proto_check_green`: line 180 of the Makefile does not look at
the result of `proto-gen`, so that a generator that fails leaves nothing to
differ and drifted code passes. `VerdictIsRight` states what holds: if all
commands work, the verdict is right in both directions about the files that buf writes.

**A marker without a check.** `closure_marker`: a copy that fails in the middle of the
list goes unnoticed, `closure-check` cannot see it (above), and the image gets the marker
that `Dockerfile:247-248` and 279 explain otherwise. What holds is `MissingStopsBuild`,
since a library missing in the vendor image is a bare name on the last line, and `CiGreen`
for the module that `smoke-dlopen` loads: there the linker itself decides.

Other disagreements between the code and what it says of itself, which no violation
run shows; where a property states what holds instead, it is named:

- `keys-init/softhsm.sh:36` calls the token step idempotent. A run that ends between the
  label and the PIN (a kill, or a PIN that cannot be set) leaves a token that later runs
  find by its label (lines 38-46) and cannot log in to (line 110).
  `OnlyPinlessBlocks` says that nothing else a run leaves behind does this.
- The generated file of a `.proto` that was removed or renamed lies on both sides of the
  comparison of `proto-check`, which prints `matches spec/proto/` over it
  although every command has worked (`buf.gen.yaml` has no `clean`). That is why
  `VerdictIsRight` speaks of the files that buf writes.
- `spike-hkdf-bouncyhsm.sh:13` promises that server and network are gone on exit. The trap
  stops the server alone: the container of step 4, 6 or 7 may outlive the script, docker
  then refuses to remove the network (line 34), and both stay.
  `LeavesOnlyInterrupted` says what is left at most.
- `trace/README.md:35-43` lists the calls of a run "in genau dieser Reihenfolge", with
  `C_OpenSession` behind `C_Initialize`. Every run that gets so far makes
  `C_GetSlotList`, `C_GetTokenInfo` and `C_GetMechanismList` between the two
  (`connect.go:51`, 56, 86). `CanonicalTrace` states the order that is kept.
- `hsm_test.go:149-150` and step 11 of `trace/README.md` ask for
  CKR_OBJECT_HANDLE_INVALID after the destruction; line 160 accepts every error, and that is
  what `PassMeansConforming` says of it.

Smaller observations, which no property states:

- `make proto-check` killed between `rm -rf internal/gen` and the copy leaves
  the tree without the code, and running it again does not repair that. When the
  copy itself fails the snapshot is deleted all the same.
- The bootstrap mode of the coverage stage (`Dockerfile:115-119`) is not reachable: on
  an empty list `grep -v` fails and pipefail ends the chain.
- `closure-check` skips a listed module that is not in the image: an image may carry the
  marker without OpenCryptoki.
- `derive.go:30-31` obliges the caller to destroy the derived key; the test leaves it
  to `C_CloseSession` on its `t.Fatalf` paths, which `NoSilentLeak` shows to be enough,
  since the key is a session object.

## 4. The proofs

TLAPS checks all of the following for every number of connections, every set of port
inputs and key pairs, every base of at least five, any slots, handles and tokens, any
set of libraries, any coverage and threshold, and any bounds. The assumptions are
`StartupAssumption` (the port inputs are integers, the two markers are not,
`MaxChanges` is a natural number), `BaseAssumption`, `CallAssumption` and
`SpikeAssumption` (finitely many numbered slots; the numbers in use fit 64 bits),
`KeysAssumption` (a label has 1 to 32 characters, the bounds are naturals),
`CoverageAssumption` (the threshold is a number of tenths of a percent, a coverage one
of hundredths) and `ImageAssumption` (modules are libraries, and libraries need
libraries).

- `AdapterProofs`, first half: `HInv` is the type invariant with four facts that the
  properties need to become inductive. `ChannelInv` ties the message in `errCh`
  to where the goroutine and `Run` are (a message exists exactly between the send
  and the receive, and is `srvErr`); `ServeInv` says that the listener is closed
  once `Serve` has returned; `ShutdownInv` that a `Run` past its select on the
  cancel path has marked the server down; `DrainInv` that after a clean shutdown
  no connection is left and none can come.
- Its second half: `GInv` of `GrpcServer` relates the progress of the two stops to the
  connections: past `closing` there is no accept loop and no handshake, and a
  graceful stop that is done has neither connections nor handlers.
- `ServeAllProofs`: `Inv` joins both with the facts of the main goroutine: which
  parts of the shutdown lie behind it; that everything the goroutines have sent was
  taken by the select, is still in the channel or is in the result, nothing twice; and
  that there is at most one message per goroutine, so that the channel never overflows.
  A step of `ServeAll` is a step or a stutter of each component
  (`ComponentSteps`), so that the invariants of the components are reused and
  not proved again. `ServeAllRefinesLifecycle` maps each step to one of `Lifecycle`.
- `StartupProofs`: `StartInv` says for each program point what has been checked
  and is still true: the ports in `port` are those of a valid configuration,
  since the variables do not change; the pair in `loaded` matches since it was
  compared after reading; a held port is in use by nobody else.

- `HkdfParamsProofs`: a word written digit by digit is read back as itself (a chain of
  divisions with remainder, one lemma per step), a write leaves the digits outside
  its eight alone, and the layout of the C compiler is the list of the offsets.
  `BlockReadsBackAlways` follows by taking the nine members in turn. The same
  module carries both facts over to the state machine of the caller.
- `HkdfSpikeProofs`: `LeakInv` says where the C buffers live (at `derive` and nowhere else),
  with the parameter block that was built for them, and that before the session nothing is open;
  `TypeInv` adds the values of the other variables and that the key derived from is the one
  hit of the search; `ReadsLiveMemory` follows from both with the lemmas about words.
  `KnowledgeInv` says what a test that has neither failed nor skipped knows of the module:
  each check that lies behind `pc` rules out its quirk, and the tag rules out the wrong
  lengths, which the comparison of one byte does not. `TraceInv` says that there is a number
  of slots the lookup has asked, and for each `pc` how many calls of the session have been
  made behind it; for `Close` it gives the numbers at which a test may
  have given up: never behind `C_FindObjects`, where a search is open, and with a verdict
  other than "ok" unless all calls are made. `CanonicalTrace` is what it says of the
  end (`TraceIsCanonical`), and the type of the log follows from it too
  (`SpikeTypeCorrect`).
- `KeysInitProofs`: `KInv` has, besides the types, three parts. `TokenInv`: without a failed
  listing there is at most one token, and none where one is about to be made. `KeyInv`: a
  token has at most one good key, none where one is about to be made, and other keys only
  from others. `RunInv`: what the run knows of its token and its key at each `pc` (behind
  the login, that the token has a PIN), and that every failing exit has a reason: a fault of
  the run, a token without PIN, or a key of the `lax` kind.

- `HsmDocCallsProofs`: `CInv` is `GInv` of the server, the types, and two ties between
  a call and its server. `AgreeInv`: the handler that was routed is the method called, the
  `wire` fits what the server has running, and a result exists exactly when the call is
  over. `CutInv`: a call that lost its connection behind a started handler has met `Stop`.
  Every step of a call is a step or a stutter of `GrpcServer` (`CallsUseServer`), so that
  `GInv` comes from `AdapterProofs`. `ContractStep` maps each step to one of
  `CallContract`; `DecidedOnce` says that a result is given only to a call that has none.
- `CiProofs`: one invariant per gate, and two that join them. `ProtoInv` says that the
  snapshot is the tree `proto-check` has found as long as it could copy, and where the
  recipe can be only with a current or a drifted tree as long as nothing is `broken`, the
  orphaned file being the same before and behind the generator;
  `CoverageInv` that a total stands only behind tests that have passed over productive
  packages;
  `ImageInv` that, while the list is copied, a library missing in the vendor image is among
  the lines to come, since those are the last, so that the stage cannot end well, and that
  only a module whose closure is in the image was loaded. `ScriptInv` says which containers
  and which network may be there at each command of the cleanup: those of the step at which
  the script gave up (`ended`), which is the only step docker may still be working on, and
  what the cleanup has still to undo; and that the code kept is 0 exactly behind all
  steps. `OrderInv` says that the image gates run only behind a
  green coverage stage, which is what `CiGreen` needs.

What stays with TLC: all liveness (`CancelEndsRun`, `ServeErrorEndsRun`,
`CauseEndsServeAll`, `SignalEndsProcess`, `CallsReturn`) and the fairness part of
`Refines`, since the prover does not reason about `ENABLED`. Every invariant and every
action property that a passing run checks is also a theorem; `ServeAllRefinesLifecycle` is
the safety part of `Refines`. The four violations are TLC's.

## 5. Not modelled

- `--version` and `--help` print and exit; log lines and error texts are left out.
- The content of the TLS configuration, of HTTP answers and of RPC messages: the
  skeleton computes nothing from them. The decode errors of the unary handlers
  (`c_hsm_doc_grpc.pb.go:183-185`, 201-203) belong to it: both sides are generated from the
  same messages, so that a request of these stubs always decodes.
- What `/readyz` says while the gRPC server is down: the handlers answer SERVING
  unconditionally and the package comment postpones the rest.
- Clocks: a timer is a step that may be taken at any moment once it is armed. The
  ten and five seconds are therefore not compared with each other.
- The generated message code (`c_hsm_doc.pb.go`): accessors and descriptors that
  no code of the repository computes with yet.
- `tools/check_refs.py`, a sequential script that keeps nothing between two files,
  and the profile B spike, a fixture of constants.
- Two initialisation scripts at once, and `COVERAGE_BOOTSTRAP=1` outside the stage.
- The compile, lint, scan and documentation targets of the Makefile: single commands.
- Everything in `spec/` that has no code: streams, session pool, circuit breaker, key
  registry, audit chain, Java client.

## 6. Plan

What is left follows the code as it grows. When the stubs become streams,
`HsmDocCalls` and `CallContract` get their chunk sequences, and the fairness of handlers
has to be looked at again; when the server opens a PKCS#11 module, `HkdfSpike` is the
start of its session. What can be done now: an abstract specification of the PKCS#11
session (opened, logged in, searching, closed) that `HkdfSpike` implements, one of the
start that `Startup` implements, and two initialisation scripts at once.
