# Verification of xrdp-console

TLA+ models of xrdp-console, the toolkit that measures and tunes an RDP console
session served by xrdp and x11vnc. Every definition follows the source under
`src/`; where a document says something else than the code, the model follows
the code and a run shows the difference.

1. [The system](#1-the-system)
2. [What is modelled, and where](#2-what-is-modelled-and-where)
3. [Runs, bounds and what they show](#3-runs-bounds-and-what-they-show)
4. [Disagreements found](#4-disagreements-found)
5. [Proofs](#5-proofs)
6. [What is not modelled](#6-what-is-not-modelled)
7. [Plan](#7-plan)

Running: `tlc -config MCRelay.cfg MCRelay` and likewise for each `.cfg`; `tlapm
RelayProofs.tla` and likewise for `RelayServiceProofs`, `MeasurementProofs`,
`CaseLifecycleProofs`, `ConsoleDeployProofs`, `EpisodeSamplerProofs`,
`GpuProbeProofs` and `PrivateConfigProofs`. `PROJECT.json` lists the runs, for each
property a mutation of the code it detects, the source lines of each definition, and
the hazards the properties answer.

## 1. The system

Paths are relative to the repository root `src/`.

| Component | State | Operations | Hard because |
|---|---|---|---|
| RFB loopback relay, one connection (`src/python/rfb_v6_v4_proxy.py`) | two nonblocking sockets, an output buffer for each, selector registrations | `relay_connection`, `update_interest`, `close_pair` | partial sends and receives, stale event masks, both directions at once, a peer that stalls or leaves |
| The relay's accept loop (same file) | listeners of both families, their accept queues, the one connection served | `relay`, `main` | one connection at a time while others queue on two listeners; a failed backend, a client gone before its turn, an exception that takes the process down |
| Latency measurement (`src/python/xrdp_vnc_bench.py`, and the helpers `x11_xtest_key.c`, `x11vnc_latency_stimulus.c`, `x11vnc_gpu_stimulus.c`, `x11_pixel_probe.c`) | command and answer pipes, the drawn and the shown marker, sample lists | `run_input_roundtrip`, the graphics part of `run_case`, `wait_marker` | five processes and a network between them; every read has a timeout, and late lines stay in their pipes |
| Benchmark case lifecycle (same Python file) | helper processes, a network namespace and a veth pair, the sudo ticket | `main`, `run_case`, `kill_process`, `SyntheticNetwork`, signal handlers | failures and interrupts at every statement, also inside `finally`; helpers that die or cannot be killed |
| Deployment scripts (`scripts/fix-console-*.sh`, `scripts/use-matched-xrdp-console-daemon.sh`) | `xrdp.ini`, a systemd drop-in, what systemd has loaded, what the running service was started with, backups | look, back up, edit, validate, restart, restore | killed between two commands; a change that breaks the service; a sequence of scripts |
| Episode sampler (`src/python/xrdp_console_episode_sampler.py`) | last snapshot of processes and connections, log offset | snapshots, `LogDelta.sample`, `write_row` | everything it reads changes under it: pids are used again, processes rename themselves, logs are rotated |
| GPU probe of VS Code (`src/python/vscode_gpu_probe.py`) | the browser with its helper processes, its profile, a websocket and the frame being read | `main`, `cdp_system_info`, `recv_exact`, `ws_recv` | a stream that arrives in pieces, a browser that blocks or dies at any point, interrupts, a process group to end |
| Generated configuration (`rewrite_xrdp_config`, `remove_chansrv_from_config` of the benchmark) | the lines of the private `xrdp.ini` | four edits one after the other, the later ones by position | the edits meet each other's output; options combine; the installed file may be anything |
| Log parsing and statistics of the benchmark | none | read the negotiated codec, percentiles, the report | sequential text and arithmetic |
| The other C probes and stimuli, build and matrix scripts, systemd units | none that is shared | | sequential |
| Patched xrdp (`third_party/xrdp-0.10.6.1-optimized`): resize state machine (`xrdp/xrdp_mm.c`), GFX flow control (`xrdp_mm.c`, `xrdp_encoder.c`), incremental VNC parser (`vnc/vnc.c`) | queue of monitor layouts, frame slot, dirty rectangles, parser position | callbacks of the session's event loop and an encoder thread | callbacks of several components interleave; layouts arrive during a resize; frames are encoded by another thread |

How the parts interact: the benchmark's case lifecycle starts every helper and
ends it, and runs the measurement inside; the relay is one of the helpers it
starts, and sits between the private xrdp and x11vnc. Helpers and benchmark
exchange lines over pipes and share nothing else; before it starts the private
xrdp it writes that one's configuration. The accept loop calls the relay
of one connection and sees only how it ends. The deployment scripts and the
sampler work on the production service and not on the benchmark's: the scripts
through files and systemd, the sampler by reading `/proc`, `ss` and the log only.
The GPU probe is a command of its own with a browser of its own.
For this reason the modules below compose within a component (relay, kernel
and peers, and the accept loop around them; measurement and probe; sampler and
log cursor) and not across.

What makes each one correct, in a sentence:

* relay: every byte arrives once and in order, buffers are bounded, it neither
  spins nor stalls, and it ends a connection only for a reason;
* accept loop: connections are taken up in the order they came, one at a time;
  none leaves a socket behind, and neither family is passed over for ever;
* measurement: the time stamps combined in a sample belong to one event, each
  sample is counted once, the run ends;
* lifecycle: nothing started survives a case, on every way out, in an order
  that breaks no helper still running; status 0 means measured;
* scripts: success means that the change is in force, failure that it is taken
  back, and the console stays up;
* sampler: what a row reports happened once and while the sampler ran;
* GPU probe: frames are read as they were sent, however the stream is split; the
  browser has ended when the probe has; a silent browser does not hold it up;
* configuration: the private xrdp shares no endpoint with the installed one, its
  channels are as asked for, and every other line is kept.

## 2. What is modelled, and where

### Relay, RelayPipe, MCRelay, RelayProofs

`Relay` is one call of `relay_connection()`. The relay's state is `pending`,
`interest`, `data` (the third field of each selector key) and `events`, the list
the last `select()` returned and that is worked off while the world moves on.
The kernel queues (`kin`, `kout`) and the peers (`peer`, `written`, `read`) are
environment, with a step between any two system calls. A byte is named by its
position in its stream, so a lost, repeated or reordered byte is visible.

| Action | Code |
|---|---|
| `Select`, `SelectSpurious` | `selector.select()`: masks of ready registered sockets, in either order; a readiness report with nothing behind it |
| `RecvData`, `RecvWouldBlock`, `RecvEnds`, `RecvOverflow`, `RecvWithoutDestination` | the `EVENT_READ` half of the event: one `recv()`, its exceptions, the bound, `pending[None]` |
| `SendData`, `SendWouldBlock`, `SendFails`, `NothingToSend` | the `EVENT_WRITE` half: one `send()`, its exceptions, `del output[:sent]`, then `update_interest()` for both sockets |
| `PeerWrite`, `PeerRead`, `PeerShutdown`, `PeerClose` | the programs at the far ends |

The rigid variable `repaired` selects, once and for all in `Init`, the code as it
is (`FALSE`) or the code with the one argument that `selector.modify()` misses
(`TRUE`). All properties are checked for both, so that the defect (finding 1)
does not hide what else the relay does; none of them has `repaired` in its
hypothesis, so each says something of the code as it is. `RelayPipe` is the abstract
specification: two ends, a bounded window of bytes on the way in each direction,
a pipe that can be cut at its end. `Relay` implements it with
`sent <- written, got <- read, up <- open` and a window of
`KIn + MaxBuffer + KOut`.

### RelayService, ServiceLine, MCRelayService, RelayServiceProofs

`RelayService` is the process around it: `main()` binds one listener after the
other, `relay()` waits in `select()`, works off the listeners that were ready, and
for each accepts one client, connects to the backend and runs one session. A session
is seen from outside: it ends because a peer has left (`RelayEnds`), is cut because
a buffer overflowed or a send was refused (`RelayCuts`), or raises (`RelayRaises`);
its inside is `Relay`, whose `EndsWhenPeerLeaves` is what makes `RelayEnds` fair.
The rigid `repaired` has the same meaning as there. The kernel fills the accept
queues up to one more than the backlog without the process, `accept()` fails for a
client that has aborted, which takes it from the queue (`AcceptFails`), or for a
shortage of descriptors, which leaves it there (`AcceptPutOff`); clients leave while
they wait, the backend comes and goes, a signal may arrive between any two
statements. A connection object is used again once it is over, so that clients keep
coming in a finite model. `ServiceLine` is the abstract specification: a line for
each family, one customer served at a time, and, by strong fairness, a line that
could be called again and again is called.

### MarkerProbe, Measurement, MCMeasurement, MeasurementProofs

`MarkerProbe` holds what both loops share: the marker drawn on the physical
display, the copy the RDP client shows (updates may be merged or late, never
reordered), the pixel probe with its command and answer pipes, and the polling of
`wait_marker()`. A draw has a number, and its colour is the parity of the number,
because the stimulus alternates between two colours. `Measurement` adds the
driver (`WritePulse`, `ReadT0`, `ReadT1`, `AskSample`, `LineMatches`, and a
time-out beside each read), the key injector, the physical stimulus and the GPU
stimulus. A key press may be lost. A time stamp is the number of draws completed
when it is taken, which is what the properties compare.

### CaseLifecycle, MCCaseLifecycle, CaseLifecycleProofs

`main()`'s loop over cases: set up the namespace, check the ports, start the helpers
in order (`Popen`, `Assign`, `Ready`, each a statement of its own, because an
interrupt may come between), measure, kill in the order of the `finally` block of
each of the two scopes, delete namespace and link, next case or exit with 0, 2, 130
or a traceback: `main()` catches `RuntimeError`, `OSError`, `CalledProcessError` and
the interrupt, but neither the `ValueError` or `IndexError` of an answer that cannot
be parsed nor `subprocess.TimeoutExpired` (`exc = "uncaught"`). `AwaitsCommand`
names the statements that wait for a command without a deadline. `Interrupt` is the
signal handler's `KeyboardInterrupt` between two statements, `Die` a helper that
dies by itself, `ExpireTicket` the sudo ticket, `Stubborn` the helpers that outlive
`SIGKILL` by more than the three seconds the second `wait()` allows.

### ConsoleDeploy, MCConsoleDeploy, ConsoleDeployProofs

The three scripts as sequences of commands over one host: `ini` and `dropin` are
the files, `loaded` what systemd has read, `service` what the running xrdp was
started with. `fatal`, fixed in `Init`, says which changes this host's xrdp does
not survive, `late` whether it then dies only after `systemctl is-active` was
asked. The content of `xrdp.ini` is reduced to what the scripts tell apart: the
two settings, a section that ends the file without a newline, and a line glued
to another for that reason.

### LogDelta, EpisodeSampler, MCEpisodeSampler, EpisodeSamplerProofs

`LogDelta` is the log cursor: `LogStat` up to the comparison of `stat()`'s size
with the offset, `LogRead` for open, seek, read and tell; xrdp and logrotate
write, rename, truncate, remove and create in between. An entry is two pieces of
the file, since a read of 1 MiB may end inside one. `EpisodeSampler` extends it
with the process snapshot (command line and counters of a pid are two reads), the
connection totals and `main()`'s loop. `ss` lists sockets of every port and state
in the order of the kernel's table. In its output the code begins a record at a line that
starts with `ESTAB `, and ends one only there, so that the line of counters of a closing
socket behind a connection to the RDP port replaces that connection's own:
`Infos` are all the assignments of counters to records that this allows, also
of sockets of other ports (`Foreign`). The sampler reads its three sources one
after the other and never relates them, so in a behaviour only one of them moves
(`moving`): no property relates two, and a behaviour in which all move is, for
each, one of these.

### GpuProbe, MCGpuProbe, GpuProbeProofs

`pc` runs through the statements of `main()`: check the arguments, make the
profile, `Popen`, the `try` block (`Guarded`: endpoint, connect, handshake, ask,
`Recv` until a frame is whole, handle the frame, report), the `finally` block
(`Cleanup`) and the removal of the profile. `Interrupt` raises wherever the probe
is, inside `finally` too; `Killed` is a signal that leaves no time for it. The browser
(`Serves`, `Blocks`, `LeaderEnds`, `HelpersEnd`, `Sends`, `Closes`) does what it
likes, also blocks because nobody reads its standard error. A frame is its opcode, what
its payload says and where its four parts (header, extended length, mask, payload)
end; a byte is its place in a frame, and `Recv(n)` takes any number of bytes
up to what the code asks for, so every split of the stream occurs. The browser may
send as soon as the socket is open. What comes in one piece with the end of
the handshake's reply is thrown away with it (`HandshakeSwallows`); from then on
frames are read from a place where none begins (`torn`), and what is read is any
frame or a part of one (`Misread`).

### PrivateConfig, MCPrivateConfig, PrivateConfigProofs

`rewrite_xrdp_config()` reads the installed file line by line (`ReadHeader`,
`ReplaceKey`, `KeepLine`), refuses it if a place to be replaced is missing (`Lacks`),
then edits the result by position (`DropGfxSwitch`, `DisableResizing`), and
`remove_chansrv_from_config()` edits the file once more (`RemoveChansrv`). A line is
its kind, its name, whether the name is in lower case, and its value. Places whose
new value is the private one whatever the options are alike to the code, so one
stands for all of them. An edit that drops lines keeps the others in
their order (`Keep`). `Init` chooses any file of `Sources` and any combination
of the options; what varies in this model is data and not interleaving.

The installed file may be anything, and the code takes two things for granted
that it does not check: that there is one `[Console]` (`OneConsole`; the edits by
position see the first only), and that no key it replaces is written twice, in the case it
looks for and in another (`InOneCase`; the second would stay, and xrdp reads keys in
any case). They are hypotheses of the parts of `PrivateAndAsAsked` that need them, and
files that break each are among the sources of the run; `OthersKept` needs neither.

## 3. Runs, bounds and what they show

| Run | Bounds | Distinct states | Shows |
|---|---|---|---|
| `relay` | buffer 1, receive 2, kernel queues 2 and 1, 3 bytes each way, 1 spurious report | 116 595 | `TypeOK`, `StreamIntact`, `BufferBounded`, `InterestMatchesPending`, `PipeSpec`, `QuietWhenBlocked`, `EndsWhenPeerLeaves`, `NeverStallsSender`, `EveryByteArrives` |
| `relay_forwards` | 2 bytes | | finding 1 |
| `service` | 3 connections, backlog 1, the code as it is and repaired | 10 648 | `TypeOK`, `NoneForgotten`, `LineSpec` |
| `measurement` | 2 measured samples after the warm-up, 2 polls in each wait, both modes | 162 423 | `TypeOK`, `SkewBoundedByMisses`, `FreshUntilAMiss`, `AtMostOneOutstanding`, `EverySampleCounted`, `RunEnds` |
| `measurement_pairing` | the same | | finding 2 |
| `cases` | 2 cases, 2 interrupts, 1 death, 3 stubborn helpers, both modes | 49 524 | `TypeOK`, `NothingLeftBehind`, `SuccessMeansMeasured`, `ClientDiesBeforeItsNetwork`, `ServersOutliveClients`, `RunEnds` |
| `case_interrupt` | one case | | finding 3 |
| `deploy` | 3 runs of any of the 3 scripts, 1 fault | 152 092 | `TypeOK`, `DoneMeansInForce`, `FailedRunIsUndone`, `ServiceSurvives` |
| `deploy_already` | the same | | finding 4 |
| `sampler` | 2 pids, 2 groups and "other", 2 connections to the RDP port and 1 to another, 4 entries, reads of 3 pieces, 2 rows; 3, 4 and 6 environment steps for processes, connections and log | 2 156 486 | `TypeOK`, `LogCountedOnce`, `LogMissesNothing`, `TicksWereSpent`, `SteadyProcessesCounted`, `BytesWereSent` |
| `probe` | 6 frames of 2 to 5 bytes, 6 bytes on the way, 2 pieces of handshake | 109 914 | `FramesIntact`, `BrowserStopped`, `ProbeEnds` |
| `config` | about 910 files of 7 to 12 lines, 24 combinations of options | 330 504 | `PrivateAndAsAsked`, `OthersKept` |

Why the bounds are enough for the cases that matter:

* *Relay.* The buffer is smaller than what one receive may return and the
  outgoing queue smaller than what a peer may have written, so overflow, partial
  sends, a full kernel queue and a stalled reader all occur, each with one byte
  in every other place. With three bytes each way the third is received while the first
  two are at different stages. The proofs lift these bounds.
* *Accept loop.* With a backlog of 1 a queue holds two, so a third connection waits
  on the other listener or is the one served; connections are used again, so
  one family can be busy for ever while the other waits.
* *Measurement.* Two measured samples and the warm-up are what is needed for a
  late line of one to meet the next and the one after; the colour of a draw
  repeats with the third.
* *Lifecycle.* Two interrupts reach a `finally` block that already runs because
  of the first; the second case meets what the first has left.
* *Scripts.* Three runs allow a killed run, the run that finds its traces, and a
  third script; one fault is a kill at any command or a failed second reload.
* *Sampler.* Three process steps replace a process by another with its pid that
  then works; two rows are two differences with a shared snapshot; four entries
  need two reads, of which the first ends inside an entry, and leave one for
  after a rotation.
* *GPU probe.* The frames have every opcode, every kind of answer, and parts that
  are missing, one byte or two; six bytes on the way hold the end of one frame
  and the start of the next.
* *Configuration.* Two lines are added at any two places of the usual file, or one
  is missing, or it has a second `[Console]` or a key in both cases; the edits by
  position look for one header, one end and one key, so two lines that do not belong
  to the file are enough for each edit to meet the trace of another.

The conditions some properties carry name behaviour of the code that nothing
promises, or that differs from what a document says (section 4), and are reached in
the runs: `NothingLeftBehind` excludes an expired ticket, a helper that outlives
`SIGKILL`, and an interrupt inside `finally` or before the assignment
(`InterruptCleansUp`, without these exclusions, is finding 3); `FreshUntilAMiss`
holds until the first miss, and after it `SkewBoundedByMisses` bounds how far what
is combined may be apart (finding 2 is that they are apart at all);
`DoneMeansInForce` and its neighbours exclude a service that dies after it was
asked; `BytesWereSent` excludes a failed `ss` and one whose output had the counters
of a closing socket behind a connection's (`undone`); `LogMissesNothing` speaks of
the files whose rotation the cursor noticed; `FramesIntact` excludes a stream whose
beginning came with the reply to the handshake (`torn`); `BrowserStopped` excludes a
probe that was killed, or interrupted between `Popen()` and `try` or inside
`finally`; `PrivateAndAsAsked` says nothing of an installed
`enable_dynamic_resizing` when resizing is to be disabled, since the code and the
option's help disagree there (section 4).

Fairness. `WF_vars(Loop)`, `WF_vars(Service)`, `WF_vars(Driver)` and
`WF_vars(Probe)`: the operating system keeps scheduling the process, `select()`
returns when a socket is ready, and the other waits of these programs have a timeout
in the code. (The `pgrep` of the GPU probe's report, line 239, has none; it reads
`/proc` and waits for nobody.) The accept loop needs one assumption more,
`SF_vars(Takes(f))`: an `accept()` that is tried again and again does not fail for
want of descriptors each time. The benchmark does not keep all its waits short:
`sudo` (lines 224, 353, 373), `xwininfo` (659), `openssl` and `x11vnc -storepasswd`
(1067, 1075) are awaited without a deadline. Its fairness is therefore `WF_vars(~
AwaitsCommand /\ Benchmark)`, which says nothing at those statements, and its
`RunEnds` says that the run ends or stays at one of them for ever. The strong
fairness of `ServiceLine` is a promise and not an assumption: `RelayService` is
shown to keep it with these two. Nothing is assumed of peers, helpers or the
network: a peer may never read, a helper never answer. The one liveness property
that needs a peer that reads states it as its own hypothesis (`PeersKeepReading` in
`EveryByteArrives`), and `ProbeEnds` its own: a browser that stops sending, since a
stream of frames without end is bounded by nothing in the code. The scripts and the
sampler have no liveness property: the one may be killed at any command, the other
ends with its deadline. Nor has the configuration, whose only loop is the one over
its lines.

`CHECK_DEADLOCK FALSE` is in every `.cfg`: each of these programs ends, and the
relay's peers may fall silent for ever.

## 4. Disagreements found

| | Run | Where | What |
|---|---|---|---|
| 1 | `relay_forwards` | `src/python/rfb_v6_v4_proxy.py:52` | Code bug. `selector.modify(sock, events)` without `data` sets the registration's data to `None`; the next receive looks up `pending[None]`, and the `KeyError` ends the connection and the process. The module promises to forward connections; the existing test watches processor time only. |
| 2 | `measurement_pairing` | `xrdp_vnc_bench.py:1003` | `docs/measurement-model.md` pairs T0 with the corresponding key press. After a time-out the pipes are out of step, and T0 and T1 of different key presses are combined. |
| 3 | `case_interrupt` | `xrdp_vnc_bench.py:116` | `README.md` says that interrupting a run cleans up. An interrupt inside a `finally` block, or between the fork and the assignment, leaves things behind, with status 130: in the run a step fails, the interrupt arrives in the `finally` block that follows, and Xvfb, the namespace and the link survive. |
| 4 | `deploy_already` | `scripts/fix-console-gfx-black-screen.sh:47` | "No restart or backup needed" (here and in `scripts/fix-console-dynamic-resizing.sh:37`) is concluded from the file alone. After a run killed between edit and restart the service does not have the change. |

Also seen while translating the code, each on a line or two of it, without a run of
its own. The first three are in the models: the close after `EAGAIN` is the action
`SendWouldBlock`, and no property of the relay says that it is right or that it does
not happen; the other two are among the conditions named in section 3.

* `rfb_v6_v4_proxy.py:106`: a `send()` with `EAGAIN` sets `sent = 0` and ends the
  connection on `sent <= 0`; the docstring at lines 60-62 says that the socket stays
  registered for `EVENT_WRITE`.
* `xrdp_vnc_bench.py:619-625`: `--disable-dynamic-resizing` adds its key only if
  `[Console]` has none, so an installed `enable_dynamic_resizing=true` stays; the
  help at lines 1358-1360 says that the private Console's resize requests are disabled.
* `xrdp_console_episode_sampler.py:208-243`: `ss_socket_metrics()` is to read the
  counters of "established connections on port", but only a line that starts with
  `ESTAB ` ends a record, so that a closing socket's counters are reported as a
  connection's, and bytes that were never sent with them.
* `xrdp_vnc_bench.py:790`: after a missed return the marker before the last, which
  has the same colour, is accepted as the changed one of
  `docs/measurement-model.md:8`.
* `xrdp_vnc_bench.py:1351-1354`: the help says that `--disable-gfx-for-vnc` sets both
  switches; with `--no-chansrv` the Console's is removed again. (The session has no
  GFX either way, which is what `PrivateAndAsAsked` states.)
* `xrdp_vnc_bench.py`: the help of `--base-port` says that x11vnc uses the next
  port; it uses the base plus 2575.
* `xrdp_console_episode_sampler.py:259`: retransmissions are parsed for each
  connection and missing from the list of sums: two columns that are always 0.
* `vscode_gpu_probe.py:96`: the two bytes of a header are taken with one `recv(2)`; if
  it returns one byte the probe reports a closed websocket that is open. `:130`: the
  answer to a ping is sent without the mask that a client must use. The `FIN` bit
  is ignored, so a fragmented answer is taken for several. `:59-66`: bytes behind
  the end of the handshake's reply are thrown away. `:215`: nobody
  reads the pipe of standard error, so a talkative browser blocks.

## 5. Proofs

Every theorem holds for all values of the constants that satisfy the assumptions
named below; none of them bounds the number of bytes, connections, samples, cases,
scripts, entries or frames. (A `Max...` constant in a guard bounds a TLC
run; the proofs hold for each of its values.)

| Module | Theorem | Statement | Assumptions |
|---|---|---|---|
| `RelayProofs` | `TypeCorrect` | `Spec => []TypeOK` | `SocketsDiffer`, `RepairsAreKnown`, `SizesAreNat` |
| | `BuffersBounded` | `Spec => []BufferBounded` | |
| | `InterestCorrect` | `Spec => []InterestMatchesPending` | |
| | `RoutedCorrect` | `Spec => []Routed` | |
| | `StreamCorrect` | `Spec => []StreamIntact` | |
| | `RelayImplementsPipe` | `Spec => PipeSpec` | |
| `RelayServiceProofs` | `TypeCorrect` | `Spec => []TypeOK` | `ConnIsFinite`, `BacklogIsNat` |
| | `NothingHeldBetween` | `Spec => []NoneForgotten` | |
| | `ServiceImplementsLine` | `Spec => Serving!Init /\ [][Serving!Next]_(Serving!vars)` | |
| `MeasurementProofs` | `TypeCorrect` | `Spec => []TypeOK` | `ModesAreKnown`, `SamplesAreNat`, `PollsArePositive` |
| | `SamplesAccounted` | `Spec => []EverySampleCounted` | |
| | `OneOutstanding` | `Spec => []AtMostOneOutstanding` | |
| | `SkewCorrect` | `Spec => []SkewBoundedByMisses` | |
| | `FreshCorrect` | `Spec => []FreshUntilAMiss` | |
| `CaseLifecycleProofs` | `TypeCorrect` | `Spec => []TypeOK` | those of `CaseLifecycle`, among them `InterruptsHitACase` |
| | `SuccessCorrect` | `Spec => []SuccessMeansMeasured` | |
| | `NamespaceOutlivesClient` | `Spec => ClientDiesBeforeItsNetwork` | |
| | `ClientsDieFirst` | `Spec => ServersOutliveClients` | |
| | `CasesCleanUp` | `Spec => []NothingLeftBehind` | |
| `ConsoleDeployProofs` | `TypeCorrect` | `Spec => []TypeOK` | those of `ConsoleDeploy` |
| | `DoneCorrect` | `Spec => []DoneMeansInForce` | |
| | `FailedCorrect` | `Spec => []FailedRunIsUndone` | |
| | `ConsoleSurvives` | `Spec => []ServiceSurvives` | |
| `EpisodeSamplerProofs` | `SamplerTypes` | `Spec => []TypeOK` | `SamplerBounds`, `GoneIsNobody`, `LogSizesAreNat`, `MissingIsNoFile` |
| | `LogOnce` | `Spec => []LogCountedOnce` | |
| | `LogComplete` | `Spec => []LogMissesNothing` | |
| | `BytesAreSent` | `Spec => []BytesWereSent` | |
| | `SteadyAreCounted` | `Spec => []SteadyProcessesCounted` | |
| | `TicksAreSpent` | `Spec => []TicksWereSpent` | |
| `GpuProbeProofs` | `BrowserNeverOutlivesProbe` | `Spec => []BrowserStopped` | `FrameIsFrame`, `PartsFollow`, `BoundsAreNat` |
| | `FramesAreIntact` | `Spec => []FramesIntact` | |
| `PrivateConfigProofs` | `StartedAsAsked` | `Spec => []PrivateAndAsAsked` | `SourcesAreLines` |
| | `OtherLinesAreKept` | `Spec => []OthersKept` | |

The assumptions say what the code's constants are (sizes are numbers, a buffer for
receiving is not empty, the modes are the two there are) and keep model values
apart (`None` is no connection, `Missing` no file, `Gone` neither a process nor a
connection). `PartsFollow` is the framing of websocket: two bytes of header, and no
part ends before the one in front of it. `InterruptsHitACase` says that
the places where an interrupt may arrive are statements of a case, which is all
that `CaseLifecycle` has; a configuration may choose fewer.

`RelayProofs` goes in layers, each inductive relative to those before it.

1. `TypeOK`, one step for each action; the steps that close the relay, update the
   registrations or finish an event share a lemma each.
2. `BufferBounded` and `InterestMatchesPending`. `RecvData` is the only action
   that extends a buffer, behind `~ Overflows`; `SendData` and `NothingToSend`
   end every event with a registration of both sockets that matches the buffers.
   `Select` is the point at which the invariant has to hold, and it needs the list of events
   to be empty.
3. `Routed`. `StreamIntact` alone is not inductive: a step that receives on one
   socket into that socket's own buffer would break it, and nothing in
   `StreamIntact` excludes this. `Routed` says that every registration and every
   event under way names the opposite socket or, in the code as it is, nothing.
   With it, `StreamIntact` is inductive: each action takes bytes off the front of one
   of the four queues and puts them at the end of the next, and their
   concatenation does not change. The facts about sequences are lemmas of their
   own.
4. The refinement. After the relay has closed, `StreamIntact` no longer says
   anything, but peers go on reading what the kernel holds. `Delivered` (what has
   been read followed by what the kernel holds is a prefix of what was written, also after closing)
   gives the abstract `Read`. `KernelBounded`, `BufferBounded` and `StreamIntact`
   together bound the bytes on the way by the window, which gives the abstract
   `Write`. `PeerShutdown`, `PeerClose` and all relay steps that do not close map to stutters.

`RelayServiceProofs`. `NoneForgotten` needs the order of the statements (`InOrder`):
the listeners are bound one after the other, an event is under way while one is
handled, and `client` names a connection exactly between `accept()` and the end of
that connection. With both, each step is a `Join`, a `Call`, a `Finish`, a `Close` or a
stutter of `ServiceLine`; `AcceptFails` is a `Call` that serves nobody, and
`AcceptPutOff` a stutter.

`MeasurementProofs`. `EverySampleCounted` needs the tallies at each place of the
driver (`Settled`), `AtMostOneOutstanding` the number of events in the pipes and
under way together (`Bounded`). `SkewBoundedByMisses` speaks of two lines from two
pipes, read at different times after different misses. The invariant `InStep`
bounds the number of an event by its place in its queue: the first line in a pipe
belongs to no event before the least one the driver may still read there, the
next to none before the one after it, and so on (`Rises`, `MarksRise`), and that least
one has fallen behind by no more than one for each miss (`LeastKey`, `LeastT0`). A
lost key only makes the numbers in the queues higher.

For `FreshUntilAMiss`, `Ordered` says that pixels and probe lines appear in the
order of the draws; `DrawnInTurn` that before a miss at most one draw is under
way; `Recent` that then nothing older than the last marker seen is still on its way
to the client or in the probe's pipe, apart from the very first pixel. A marker
with the colour the driver waits for is therefore the one it waits for.

`CaseLifecycleProofs`. Starts and kills are two lists, and a position in one of them
says what is done (`InList`); that every helper started is in the list of kills,
and those started later before the others, are facts about the lists, proved from
their definitions. `KilledSoFar` says that what a `finally` block has passed is dead or
was never this function's, even when earlier exceptions cut other blocks short:
it gives the two orders of the cleanup without any condition. `Held` and
`Unlinked` say, for a case that nothing disturbed, that what is alive is held
by the function that runs or about to be, and that namespace and link exist only
between their making and their deletion: they give `NothingLeftBehind`.

`ConsoleDeployProofs`. `InForceSoon` follows a change from the edit to the restart
that brings it into force, and knows that a service that still runs was started
with nothing that breaks it. `Calm` says that between two runs what is on disk has been
started and works, and that within a run the backup stands in for what the
script has changed (`BackupGood`), which is why restoring it, reloading and
restarting once more bring back a service that works.

`EpisodeSamplerProofs`, the log. `LogCountedOnce` needs that the pieces in the file
increase (`Shape`), that what was counted was written (`CountedAreWritten`) and that
no entry at or after the offset is from before the start or was counted (`Behind`):
after a rotation the file holds none of those, so that an offset of 0 is right.
`LogMissesNothing` needs that the two pieces of an entry are adjacent (`Adjacent`),
that the offset a followed file was entered at is not inside an entry (`Following`)
and that every entry between there and the offset was counted or cut by the end of a
read (`Read`).

`EpisodeSamplerProofs`, the sums. The rows are sums over processes and over
connections, and `SumFunctionOnSet` is defined by a recursive function over sets. That
there is such a function, and that its value does not depend on the order, is
proved of a smallest set at fault: finite sets are well-founded (`WFMin`), and take one
member out of a smallest set and it is no longer at fault. From this follow the lemmas the
invariants need: what a sum becomes when one summand changes, when a member comes
or goes, when it is split into groups.

* `BytesInv`: as long as no `ss` failed and every record had its own socket's
  counters, the bytes sent cover those reported, those the next row will add and
  what the connections have sent since the last `ss`; as long as none was closed, the
  totals only grow, and what was reported is their difference.
* `SteadyInv` (`Stays`) follows a process that is there from the first snapshot on
  through the places of the loop: its counters in the last snapshot are no more than
  they are now and no less than they were. `CountedIn` adds up what such
  processes have gained.
* `Account`, for each set of groups, is a potential: the ticks reported, those that
  the next row would report, and those spent since the reading of each process add up to no
  more than the ticks spent. It holds for all the groups together always, and for
  each part of them as long as no process changed its name between two reads.
  `AccountWhenVisited` is the step at which a pid is recorded, perhaps for a process
  that was not there before: what could have been reported of the pid is due now, and
  nothing is due twice.

`GpuProbeProofs`. `BrowserKnown` says for each place of `main()` what can be alive:
before `Popen` nothing, in the `finally` block what the signals sent so far allow,
and the profile still in place until the last of them. `FramesIntact` needs that
what has been read and what is on the way together are the frames sent and not
handled yet, one after the other (`Stream`), as long as none of it was thrown away.
It is stated by the places where the frames end, so that no frame has to be
concatenated to another: what is left after a frame is again such a stream.
`RecvWithinPart` is the heart of it: what is asked for never reaches behind the part
being read, so that no byte of the next frame is taken, however `recv()` splits.

`PrivateConfigProofs`. A list that has lost some lines is the list thinned: a rising
function says which lines are left (`Thinned`), and `KeepThins` that `Keep` does
just that. If no header is lost, every line left stays in its section
(`SectionsThinned`), and so the values of a key are those of the lines left
(`ValuesThinned`) and the lines no edit is about are the same (`UntouchedThinned`).
Adding a line is the same read backwards (`Added`). `ConsoleBounds` says that the
lines between the two positions the code computes are those of the section, which is
what the edits rest on. The loop over the lines is covered by `Reading`: line i of
the output is what line i of the source becomes, and that depends on the line and
its section alone. With these, `ConfigInv` says at each of the four edits what the
file has become.

Only model-checked: liveness (the relay's four properties, `RunEnds` of
`Measurement` and of `CaseLifecycle`, `ProbeEnds`, and the liveness half of
`LineSpec`), which with `ENABLED` is out of this prover's reach. Every invariant and
every action property of the runs that pass is proved. The library's induction theorems
take an operator as a parameter, which the backends used here cannot
instantiate; where a proof needs induction over data it goes by a smallest
counterexample instead.

## 6. What is not modelled

* Of modelled components: the benchmark's argument parsing, network self test, log
  parsing, statistics and report; the churn thread's traffic, which is a process of
  `CaseLifecycle` and shares nothing with the measurement; the checks of the built
  binary before the daemon script's first change; the sampler's instantaneous values,
  swap counters, clock and CSV layout; the GPU probe's judgement of the driver's
  strings. All of these are text and arithmetic over what was collected.
* A foreign program that takes a port between the check and the bind
  (`xrdp_vnc_bench.py:728`, `:703`) and answers in the helper's place: that the
  helper then fails to start is modelled. Children of a helper
  (`xrdp_vnc_bench.py:207`): which helpers fork is not in this code. An end of file
  in the middle of a helper's line (`xrdp_vnc_bench.py:145`): lines are
  whole in the model, since the helpers write each with one call.
* Time. Time-outs are a choice that is always possible while the answer is
  missing, so no property depends on a duration.
* Two deployment scripts at the same time, and an xrdp that keeps its old log
  open after a rename.
* Sequential tools without shared state (the GPU and codec probes in C, scroll
  stimulus, build and matrix scripts) and systemd's own restarts: nothing
  interleaves and nothing persists.
* The vendored xrdp, apart from what section 7 plans: third-party code that the
  repository carries in order to build it.

## 7. Plan

The order follows how much a mistake would cost and how hard it is to test.

Done, models: `Relay` with `RelayPipe`, `RelayService` with `ServiceLine`,
`Measurement`, `CaseLifecycle`, `ConsoleDeploy`, `EpisodeSampler`, `GpuProbe`,
`PrivateConfig`: all of the toolkit's own code that keeps state. Done, proofs: the safety
properties of each of these.

Left, models, all of the vendored xrdp and its local patches:

1. `ResizeMachine` (`xrdp_mm.c:1993`, `2170`, `2370`, `5281`): the queue of
   layouts, the states from deleting the encoder to creating it, callbacks of the
   client and of the VNC module. Properties: the encoder exists whenever the
   machine is at rest; the last layout requested is the one in force or an
   error was reported; the queue is never stuck.
2. `GfxFlow` (`xrdp_mm.c:1020`, `1217`, `1433`, `3938`, `4089`;
   `xrdp_encoder.c:325`): dirty rectangles, the one asynchronous frame, encoder
   thread and acknowledgements. Properties: no dirty rectangle is forgotten; a
   slot is not used again before its acknowledgement; a client that acknowledges
   gets the last picture.
3. `VncParser` (`vnc.c:1467`): the resumable parser as a refinement of one that
   has the whole message.

Left, proofs:

1. The types of `GpuProbe` and `PrivateConfig`, as far as their invariants do not
   already contain them.
2. With the models above, that `VncParser` implements the parser of whole messages.
