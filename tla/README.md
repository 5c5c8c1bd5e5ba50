# birddog-play-patcher in TLA+

This directory is a verification development for the programs that
birddog-play-patcher adds to a BirdDog PLAY: TLA+ modules translated from the
source, configurations that check them with TLC, and theorems about them that
the TLA+ proof system checks. `PROJECT.json` is the index: it names the source
lines behind every definition, the runs, the mutants that show each property
can fail, the hazards and the theorems.

## 1. The system

The PLAY is a small Linux box with one HDMI output. Its own decoder, PPApp,
runs under systemd as `BirdDogRunner.service` (`Restart=always`) and is DRM
master for as long as it runs; the kernel allows one master. The repository
builds a firmware package in the browser (`public/`, `src/worker.js`) whose
installer (`installer/update`) puts a set of independent Go daemons on the box.
They do not talk to each other. What they share is the box: BirdDogRunner and
HDMI, the files PPApp reads when it starts, birdUI's page templates and its
login.

| component | state it keeps | operations | talks to |
|---|---|---|---|
| OMT session (`omt/session.go`) | state, the current run (rx, cancel, done), settings | Start, Stop, run, decodeLoop, audioLoop, the reaper of a failed run | Display, VideoSink, AudioSink, Receiver |
| OMT display handover (`omt/display.go`) | held, wasActive, the marker in /run | Acquire, Release; systemd's ExecStopPost | systemctl, PPApp |
| OMT video sink (`omt/sink.go`) | gst-launch process, queue of 1, pool of 3, err | Start, Buffer, Recycle, Submit, Stop, writer goroutine | gst-launch |
| OMT audio sink (`omt/sink.go`) | queue capped by duration, err | Start, Write, Stop | gst-launch |
| OMT receiver (`omt/receiver.go`) | connection, redirect, tally, mailbox | Run, session, readVideo, readAudio, handleMetadata, SetTally | the sender, discovery |
| OMT API and start-up (`omt/serve.go`, `omt/main.go`, `omt/config.go`) | config.json, the resume guard | show, stop, config, resume, shutdown | session, config store |
| OMT discovery (`omt/discovery.go`) | cached sources, one browse in flight | Sources, Resolve, mDNS parsing | network |
| output runner (`output/runner.go`, `config.go`, `decoder.go`) | trial, gen, busy, config.json, shim.conf | TryFormat, Keep, Revert, SetAOI, RestartDecoder, Boot | PPApp through systemd and shim.conf |
| output shim (`output/shim/`) | the parsed shim.conf, its status file | drmModeGetConnector, drmModeSetPlane, reload | runs inside PPApp |
| output AOI and timings (`output/aoi.go`, `timings.go`) | none | Fit, Resolve, the AOI placement | runner, shim |
| gateway decoder (`gateway/decoder.go`) | three files of PPApp, decoder-state.json | Take, Release, Sync | PPApp through its files and a restart |
| gateway config, render, MediaMTX (`gateway/config.go`, `render.go`, `mtx.go`, `serve.go`) | config.json, mediamtx.yml | save, render, restart of the hub | MediaMTX |
| player (`player/player.go`, `playlist.go`, `display.go`) | session, playlist position, held and pins of the display | Start, Stop, Next, Prev, run | gst-launch, Display |
| player remote (`player/remote.go`, `menu.go`, `ui.go`, `cec*.go`) | browsing or playing, menu, CEC follower | Enter, Exit, keys, PlayExternal | Player, Display, Screen |
| player storage (`player/storage.go`, `library.go`) | mounted volumes | Scan, Eject, Watch | mount, udev |
| player trigger (`player/trigger.go`) | suspended, last fire; previous NDI source | listener, sourceGuard | PPApp's files |
| converter (`converter/`) | running pipeline, marker in /run | capture, encode, NDI/SRT/HDMI output, takeDisplay | gst-launch, PPApp, NDI |
| KVM agent (`agent/`) | evdev readers, NDI metadata sender | forwarding of key and pointer events | libndi |
| Tailscale panel (`tailscale-ui/`) | none of its own | status, up, down, set | tailscale CLI |
| gates (`*/auth.go`) | a 30 s cache of "no password" | Check | birdUI |
| UI patches (`*/patch.go`) | markers in birdUI's templates, a backup | apply, remove, restore | birdUI's files |
| installer (`installer/update`) | the units and files of every module | install, roll back | everything |
| browser builder (`public/`, `src/worker.js`) | the package being built | none at run time of the box | none |

What is hard in it, and hard to test:

- **Goroutines against each other.** Start and Stop of the OMT session against
  its own failing loops; the runner's mutex, which is released while PPApp
  restarts; the writer goroutines of the sinks; HTTP handlers that save a
  setting and then act on it in two steps.
- **Somebody else's process.** gst-launch stalls or dies, PPApp aborts in its
  own teardown or comes up late, systemd restarts or rate-limits a unit, another
  module takes HDMI in between.
- **Crashes between two steps.** A trial of an HDMI format, a handover of the
  display and a change of PPApp's selection each leave files and units behind
  that the next start has to make sense of.
- **Time.** Countdowns, waits for PPApp of 10, 15 and 20 s that a late PPApp
  outlives, budgets of failures within 30 s, a ticker that declares a source
  lost.

What makes each part correct is stated at its module below. `PROJECT.json`
lists the hazards one by one, each at the line where it bites.

## 2. The plan, and the order of the modules

The order is by what is on HDMI. First the parts that take the screen and give
it back, then the parts that decide what is shown, then the rest.

| step | modules | composes or implements |
|---|---|---|
| 1 | `OmtSession`, `Handover` | the session implements `Handover` |
| 2 | `OutputRunner`, `KeptFormat` | the runner implements `KeptFormat` |
| 3 | `HdmiHandover` | three modules and BirdDogRunner |
| 4 | `Gateway`, `Selection` | saves and the decoder implement `Selection` |
| 5 | `OmtApi`, `ResumeGuard`, `Receiver`, `Mailbox`, `VideoSink`, `AudioSink`, `Discovery` | summed in `OmtParts` |
| 6 | `Player`, `Remote` | `Remote` extends the player and its display |
| 7 | `Stick`, `MenuEntry`, `Playlist`, `Browser`, `PdfCache`, `Cec` | summed in `PlayParts` |
| 8 | `CamSettings`, `Camera`, `Pages`, `GatewayPaths`, `Gate`, `Formats`, `Kvm` | summed in `BoxParts`; `Camera` extends `CamSettings` |
| 9 | `*_proofs` | the theorems of section 5 |

All of it is done; what is left out is in section 8.

**The sums.** There are a dozen runs, so parts that share no state are checked
in one. `OmtParts`, `PlayParts` and `BoxParts` have a variable `part`, chosen at
the start and never changed, and `Keeps(p)`, which holds everybody else's
variables still: a behaviour of the sum is a behaviour of one part. The states
add up and do not multiply, nothing is interleaved that could interact, and each
part's fairness is stated for its turn. The parts' own specifications
(`NetSpec`, `SinkSpec`, `CameraSpec`, ...) stay beside them.

Every module is written to be proved about: parameters are CONSTANTS with a
named ASSUME, there is one action per step between two points where another
goroutine or a crash may come in, invariants are conjunctions of named parts,
and no module declares a RECURSIVE operator.

## 3. The modules

`PROJECT.json` has the lines of every definition. Here is how each module's
state and actions stand for the code.

### What takes the screen

**`OmtSession`** (`omt/session.go`). `op` is the mutex of that name, `cur` is
`done` (with `rx` and `cancel`), `held` is `Display.held`. A caller goes
*lock, detach, cancel, join, display, publish*, which is Start and Stop with
`stopLoops`; a run goes *begin, loop, submit, drain, fail, close, done*. A block
under `mu` is one step. `rpc`, `helpers`, `reaper` are indexed by incarnations
of `run`, so a late goroutine of an old session is in the state and can do
harm. The budget of five failures in 30 s is a counter that may be forgotten at
any time. `HandoverKept` says the session implements **`Handover`** with
`using <- {r \in Runs : Using(r)}`. `OmtSessionMC` only adds the symmetry.

**`HdmiHandover`** (`omt/display.go`, `player/display.go`, `takeDisplay` in
`converter/run_pipeline.go`, `ExecStopPost` in `installer/update`). Each module
is one actor, because its mutex serialises its handovers. `AfterCheck` is where
the three differ: bdomt marks and stops, bdcam stops and marks, bdplay only
stops. `unit` is what systemd says of BirdDogRunner: *active*, *down*,
*activating* after an abort, *failed* after the start limit. `meant` remembers
that the owner stopped it. Every `systemctl start` may fail (`StartRunner`): the
three modules log it and do no more, and the marker goes all the same
(`omt/display.go:116`, `player/display.go:146`, `run_pipeline.go:475`,
ExecStopPost). `denied` is history: a start failed since BirdDogRunner was last
stopped, and it has not run since. `DarkHasOwner` and `DarkEnds` are about starts
that are forgotten, and say so: until one is *denied*, somebody will ask for it.
The owner (`OwnerSelects` in `Gateway`, `OwnerStops`
here) acts from a page: in `Gateway` he selects a source only between saves,
here he stops the runner when no module is about to start it.

**`OutputRunner`** (`output/runner.go`, `decoder.go`, `shim/shim.c`). `mu` is
held over one step, or over two where a crash between `config.json` and
`shim.conf` counts; it is free while PPApp restarts, and `busy` is then what
keeps others out. A trial has a number (`gen`) and a timer. `handed` is the
format the shim gave PPApp when it started. `life` is *off* after a power cut,
*down* after a crash, *pre* during ExecStartPre. `KeptOnlyByKeep` says the
runner implements **`KeptFormat`**.

**`Gateway`** (`gateway/serve.go`, `decoder.go`, `mtx.go`). A save goes through
its writes one place at a time: config.json, mediamtx.yml, the hub's unit, and
then, if the display changed, the three files of PPApp, decoder-state.json, and
the restart. Each may fail if it is in `MayFail`, and a crash may come between
any two. Entries of other people in the OSD's list, the latency and the text of
the files are left out; a list that was corrupt is not modelled. `HomeIsKept`
says it implements **`Selection`** but for two steps that `Loses` names.
`GatewayMC` only adds the symmetry of the paths.

### bdomt's other parts

**`VideoSink`** (`omt/sink.go`, `gstVideo`). The decode loop (`call`), the
writer goroutine (`writer`) and gst-launch (`gst`) share the buffers in `free`
and `queue`, which are the two channels. `Hang`, `Resume` and `Die` are what
gst-launch may do. The capacity of the pipe is left out: a write takes as long
as gst-launch likes.

**`AudioSink`** (`omt/sink.go`, `gstAudio`; `audioLoop`). The audio loop, the
writer and gst-launch over `waiting` and `bytes`, which are the queue and its
length. A chunk is a length in the unit of the budget. The writer sleeps in
`Wait` and is woken by Write and by Stop; it looks at `closed` under the lock
and writes outside it.

**`Mailbox`** (`omt/receiver.go`, the type `mailbox`). Two readers, because
`session` returns when one of a connection's readers fails and does not wait for
the other. `Put` and `Notify` are two steps, since the notification comes after
the unlock. Frames are identities.

**`Receiver`** (`omt/receiver.go`). `at` is the place in `Run` and `session`;
`reading` are the two reader goroutines, `videoConn`, `redirect` and `sendTally`
are the fields under `mu`. `stopLoops` first clears the tally and then cancels
(`stop`). Resolving a source is part of dialling it. A reader whose socket was
closed handles nothing more.

**`Discovery`** (`omt/discovery.go`). Callers look twice, in the list of the last
30 s and in one that is looked up now; who finds a browse under way waits for it
(`Join`, `Woken`), else leads one. `asking` and `heard` are the questions and
records of one sender, which comes and goes and answers with whatever `Extras`
allows beside the record it was asked for. A lost datagram makes the browse
`flawed`, a browse that ended meanwhile leaves a caller `excused`.

**`OmtApi`** (`omt/serve.go`, `main.go`, `config.go`). A request saves, and then
calls the session, in two steps. The session's own state is reduced to what
`OmtSession` justifies: `op` serialises, `stopLoops` comes first, a run may end
by itself. `Restart` is a kill or a power cut: everything but `config` is lost,
and `Boot` waits before it resumes. The guard is **`ResumeGuard`**
(`resumeAllowed`), with time in ticks. A `config.json` that cannot be read is
not modelled.

### bdplay

**`Player`** (`player/player.go`, `display.go`). A thread inside Start or Stop is
`call`, a playback is `play[p]`: where it is, its stop channel, its failures in
a row. `current` is `stopCh` with `doneCh`. The display has `held` and `pinned`;
its mutex is held for a whole operation, so each is one step. The exception is
the end of a playback, which waits for PPApp and may outlast the 15 s of a Stop
(`Outlasts`). What an operation does to BirdDogRunner is `runner`: it runs, is
stopped and bdplay's to start (`wasActive`), or was left stopped. The last is what
becomes of it when PPApp outlives the stop by 10 s (`NotAcquired`) or when the
start fails (`Restart`), which is logged and not tried again; `gaveUp` says so
until the owner starts it. An identity that nothing refers to any more is used
again.

**`Remote`** (`player/remote.go`, `api.go`, `main.go`) extends it with the session
of the TV remote. Handlers of the API and of the menu entry (`at`) enter, leave
or call the player; a session's loop (`loop`) takes keys and events from two
queues in any order, moves between browser and playback, and undoes on the way
out what Enter did. `hook` is `onDone`; an event is kept as fresh or stale
because a generation is only ever compared with the current one. `osd` is the
browser's own pipeline, which drives HDMI as a playback does. `RemoteMC` names
the threads.

**`Playlist`** (`player/playlist.go`). The order of a cycle and a position in it.
A shuffle is any permutation that keeps the rule about the first item; `Steered`
lets the owner step back and switch shuffle and loop in the middle of a cycle.

**`Stick`** (`player/storage.go`, and the rescans of `api.go` and `main.go`). The
watch and one handler each go through Scan or Eject: they read the devices, then
forget, mount and store them one at a time with the lock free in between, then
read the primary volume and build the library. `mounts` is the kernel's table,
a stack for each point, which only the kernel's calls change.

**`MenuEntry`** (`player/trigger.go`). bdplay's entry in the decoder's source
list. The name and the mode of the selected source are two files, and nothing locks
the two together. Whoever picks a source writes one and then the other (`Pick`,
`PickEnds`); the guard's poll reads the name before it takes its lock and the mode
after (`Glance`, `Observe`); Restore reads the name, asks for the memory, writes the
name and writes the mode (`RestoreLooks`, `RestoreAsks`, `RestoreName`,
`RestoreMode`). Every interleaving of the three is in the model, a pick at any
moment included, and so are files that cannot be read or written: an empty name, a
mode that is not known and then not written. History is `why`, the reasons PPApp
has to be on our entry; `crossed`, who had another's write fall between its own two
accesses; and `torn`, which pairs may be mixed because of that.

**`Browser`** (`player/library.go`, `menu.go`). The library as the sequence of rows
of a folder, the menu as folder, cursor and window, and the keys over it. A stick
may be exchanged for any other at any time.

**`PdfCache`** (`player/pdf.go`). A Render looks for the cached pages, empties the
.tmp directory, draws pages into it one at a time, renames it, and drops old
documents. The power may go between any two of these.

**`Cec`** (`player/cec_follower.go`, `cec_linux.go`). The adapter, the goroutine
that pumps its messages, the session that announces itself, and another device
on the bus that does as this one does. `announce` sets `active` before it
transmits, so it is two steps (`saying`).

### The rest of the box

**`CamSettings`** (`converter/config.go`, `serve.go`, `main.go`,
`pipeline.go`). A POST validates, saves and runs systemctl, in three steps;
`streamer` is what the unit's process made of the settings and of the camera it
found: the branches it sends, or why it does not. **`Camera`**
(`run_pipeline.go`, `decoder.go`, `display.go`) follows one process: `main` is
the place in `run`, `defers` its deferred calls in order, beside it the pump of
raw frames and the goroutine that waits for a signal. `spoilt` remembers what
was lost in a way the code cannot mend (a kill, a failure that took effect),
until the owner puts it right.

**`Pages`** (the six `patch.go`). A patcher writes its script, reads its page,
backs it up and rewrites it; a page that the power tore is `torn`. Packages have
two versions, so that a script or an address may move. The installer runs them
one after the other, bdplay patches when it starts.

**`GatewayPaths`** (`gateway/config.go`, `web/streaming.js`). The tab's page, with
masked URLs and the owner's edits, and config.json; a POST is Validate and Merge.
Keys are model values that all look the same when masked.

**`Gate`** (the four `auth.go`). A request probes birdUI without its session, which
tells whether there is a password at all and is kept for `Kept` ticks, and with
it. A probe takes up to `Patience` ticks and its answer may be as old as that
when it is stored. `settled` is how long the password has been as it is.

**`Formats`** (`output/timings.go`, `aoi.go`, `config.go`). `Fit` searches the
totals for a size and a refresh as the code does, `Check` is the shim's check,
`Preview` places an area on the screen. Square roots and tolerances are in
integers; the code's floating point agrees with them at every input of the run.

**`Kvm`** (`agent/main.go`). The devices the process reads, the receiver that
follows the source on the screen, and what each source believes to be pressed.
The agent ends with its last device and systemd starts it again.

## 4. What the runs check

Each property of a passing run has a mutant in `PROJECT.json`: a change of one
definition in the way of a plausible bug, with which TLC finds that property
violated.

| run | instance | shows |
|---|---|---|
| `session_safety` | 2 callers, 3 runs, 1 failure forgiven | one run draws at a time; between calls state, run and display agree; a late frame never makes a session live; `Handover` is implemented |
| `session_live` | 2 callers, 2 runs, none forgiven | every call returns; a failed session gives the display back; silence ends *live* |
| `omt_parts` | the API with 1 request at a time, 2 sources, 2 settings, failures and kills; the guard with a limit of 3 and a window of 4 ticks; the receiver with 2 senders that come, go and redirect; 2 readers and 5 frames; 3 buffers, a queue of 1; chunks of 1 and 2, a budget of 3; 2 callers of the discovery | what is on HDMI is on record and a Stop sticks; five resumes in any window at most; the last redirect is followed and the receiver connects again; nothing is in two places, no pool leaks or runs dry; a list is as young as asked for; nothing waits for good |
| `output_safety` | 2 callers, 3 formats, 2 trials, failing files, late PPApp, crashes | each trial has somebody to end it; only Keep keeps |
| `output_live` | 1 caller, 3 formats, 2 trials | PPApp is on an unkept format only on trial; the screen comes back |
| `hdmi_all` | 3 modules, kills of bdomt, stops and starts that fail, stragglers, aborts, an interfering owner | the start of a stopped decoder is never forgotten, and is asked for in the end, though it may fail; what the owner stopped stays stopped |
| `hdmi_player` | bdplay alone, PPApp outlives its stop | **violated**: see section 7 |
| `gateway_save` | 1 save at a time, 2 paths, 7 failing steps, 1 crash | an answer without a warning is true; the owner's selection survives |
| `gateway_rename` | the paths alone, a path with a key is renamed | **violated**: see section 7 |
| `player` | 1 handler, 1 menu entry, 2 sessions, 2 playbacks, 2 failures to give up | never two pipelines on HDMI, and none without it; in the end nothing holds or pins the display and BirdDogRunner runs, unless bdplay gave up on it; a session that is asked to leave leaves, and the browser comes back |
| `play_parts` | 2 sticks, 2 points, 4 plugs; 2 other sources; 3 clips; 3 sticks in the browser; 3 pages; 2 messages on the bus | the library is the stick's; the browser opens for the owner's pick, however picks, polls and a restore interleave; each clip once a round; the list is honest; a cached document is whole; the bus settles |
| `box_parts` | 1 POST at a time, 3 cameras; 4 kinds of run with 9 faults; 3 packages; 3 paths and 2 keys; 4 daemons; formats at the edges; 2 devices, 2 sources | what is saved is sent; what is taken goes back; pages are whole; keys are kept; a verdict is recent; keys go where the agent looked; formats are taken |

**Bounds, and why they are enough.**

- `OmtSession`: three runs let one be current, one be joined and one be reaped,
  which is every role a run has; two callers are one that holds `op` and one that
  waits. The budget of failed sinks only decides whether a failure is forgiven:
  0 and 1 give both outcomes and the boundary.
- `Mailbox`: two readers are the old and the new connection; a third would only
  be another late one. Five frames are one more than that instance needs.
  `VideoSink`: one buffer for each of the queue, the writer and the decoder, as
  in the code. `AudioSink`: two lengths and a budget of three let one chunk push
  out one or two.
- `ResumeGuard`: the window of 4 ticks and the `Horizon` of 9 let two windows end
  and a third begin, with as many crashes in a tick as there are.
- `OutputRunner`: two trials let a stale timer meet a newer trial, three formats
  make the tried one differ from the kept one and from the source.
- `Gateway`: two paths let the decoder move from one to the other. Failures of
  the steps *config*, *yml* and *prevMode* are left out of the run for size; the
  theorem covers them.
- `Remote`: two sessions are the one that leaves and the one that is entered, two
  playbacks the one that ends and the one that starts. One handler and one menu
  entry meet the session's own loop and each other. `KeyRoom` is 1 (the code's
  32): a key that finds the queue full is dropped, and one is enough for that.
  `EventRoom` is 3 with at most `Backlog` = 1 waiting when somebody posts, so a
  finish event always finds room, as it does with the code's 8; a smaller room
  drops it and the browser never comes back.
- `Stick`: four plugs exchange both sticks while a scan is under way. `Playlist`:
  three clips are the least where the order says something. `PdfCache`: three
  pages, none, some and all. `Cec`: two messages that wait are an order.
- `CamSettings`, `Camera`: settings that differ in what Validate and the choice of
  a path ask about, cameras with and without the format asked for, one run for
  each set of things it takes from the box.
- `Pages`: two packages on one page and bdplay's on the same; one that is updated,
  two that are removed, two whose work is cut off.
- `GatewayPaths`: two forwards are an order, two ids a collision, two keys a mix-up.
  Two edits between two loads (`MaxEdits` = 2) have been checked as well, 1 005 648
  states of the part alone; the run has one.
- `Gate`: the kept answer lives for two ticks and a probe takes one, so it can be
  stored late, used, and be over; two requests race for it.
- `Formats`: sizes and rates at both ends of what is accepted and one beyond,
  areas of the odd and the smallest sizes, odd screens.
- `Kvm`: two devices are the one that goes and the one that stays; one key and two
  sources are a key that is down at the wrong one.

`MaxTrials`, `MaxCrashes`, `Runs`, `Horizon`, `Plugs`, `MaxForwards`, `MaxEdits`,
`Room`, `Plays`, `Loops` and `Backlog` are bounds of the model and of nothing in the
code; where a theorem exists it holds for every value of them.
`session_safety`, `session_live`, `player` and `play_parts` turn the deadlock
check off: a session that has used up `Runs` and is stopped, a box where nobody
presses anything, a stick with no plug left or a playlist at its end have
nothing left to do.

**Fairness, and why the code justifies it.**

- A goroutine that can go on does (weak fairness), once it is inside a call.
  Nobody has to call, a sender has to send nothing, gst-launch and PPApp need
  not behave.
- Strong fairness to lock `op`: Go's mutex hands itself to a waiter of 1 ms. To
  see `ctx.Done` or a closed stop channel, and to a queued event of `Remote`:
  `select` picks among ready cases at random. To the 500 ms ticker, for the same
  reason. To the continuation of a runner's actor: `revert` polls every 100 ms
  and a waiter of `mu` gets it.
- `PipeMoves` in `OmtSession` says that a Submit is answered. It is an
  assumption about gst-launch: `VideoSink` shows that a dead gst-launch answers,
  and that one which is alive and never reads does not (section 7). In `AudioSink`
  a write that hangs ends when Stop kills gst-launch, and only then.
- systemd starts bdout and the agent again (`Restart=always`) and its timers
  fire; a handover that has started goes on. BirdDogRunner is not assumed to come
  back, only what somebody starts.
- In `Receiver` a dial ends, one way or the other, because it has a timeout; in
  `Discovery` a browse does, for the same reason.
- In `Remote` a playback that was told to stop does (gst-launch is killed); one
  that was not may play for ever.
- In `Camera` the run, the pump and the delivery of a signal go on. In `Kvm` also
  libndi finds a source that stays (strong fairness of `Create`): a try that
  fails is repeated every second.

## 5. What is proved

The proofs are in `*_proofs.tla`. They hold for every value of the constants
that satisfies the ASSUME of the module, for sets of any size.

| theorem | says | under |
|---|---|---|
| `OmtSession_proofs!DrawsSafely`, `DrawsAlone`, `Settles`, `LiveIsOwn` | the safety properties of the session | |
| `OmtSession_proofs!KeepsPromise` | it implements `Handover` | |
| `OmtSession_proofs!NobodyWaitsInACircle` | who waits with `op` locked waits for a run that was told to stop and can take a step | |
| `OutputRunner_proofs!RestartsExclude`, `TrialsAreOwned`, `OnlyKeepKeeps` | restarts exclude each other, trials are owned, `KeptFormat` is implemented | |
| `OutputRunner_proofs!ShimIsRight`, `UnkeptOnlyOnTrial` | shim.conf and the screen | `Works` |
| `OmtParts_proofs!ApiTypesHold`, `ApiInvariance`, `RecordHolds`, `StopHolds` | the record is true and a Stop sticks | `OneByOne` (the last three) |
| `HdmiHandover_proofs!StoppedInvariant`, `OwnersStopStays` | what the owner stopped stays stopped | |
| `HdmiHandover_proofs!DarkIsOwned` | a stopped decoder has someone who will ask for its start, or its start was asked for and failed | `Sound` |
| `Gateway_proofs!SavesAreTaken` | a save that is answered without a warning is on the decoder | `OneByOne` |
| `Gateway_proofs!TypesHold`, `Invariance`, `OwnersSelectionIsKept` | `Selection` is implemented but for `Loses` | `OneByOne` (the last two) |
| `OmtParts_proofs!NetTypesHold`, `RedirectsAreFollowed` | a connection is to whom the last redirect says | |
| `OmtParts_proofs!ListHolds` | no name is given up because of an older list; an undisturbed browse has every record | `NamesService` |
| `OmtParts_proofs!PoolsHold` | frames and buffers are in one place, pools are bounded, a buffer is to be had, the sound that waits is within its budget | `EnoughBuffers` |
| `OmtParts_proofs!NobodyIsOverlooked` | no wakeup is lost: who waits in the mailbox, a sink or a shared browse waits for somebody who has yet to act, unless gst-launch hangs | |
| `OmtParts_proofs!GuardHolds` | fewer than twice the limit of resumes in any window | |
| `Remote_proofs!DrawsAlone`, `GoesBack` | one playback draws, on a display that is held; the display goes back, and BirdDogRunner runs unless it was given up on | `Intrudes` FALSE, `Outlasts` at most "restoring" |
| `Remote_proofs!NobodyWaitsInVain` | `Exit` waits for a session that is asked to leave and that somebody leads, `Stop` for a playback that was told to stop | |
| `PlayParts_proofs!PicksAreHonoured` | the browser opens for a pick, and what a restore that nobody crossed leaves is a pair | |
| `PlayParts_proofs!EachIsShownOnce` | a cycle shows everything once, and no clip follows itself | |
| `PlayParts_proofs!BrowserHolds` | a row plays what it says, the cursor is on a row that is shown, Back leads to the row one came by | |
| `PlayParts_proofs!CacheHolds` | the cache has the whole deck or none of it | `OneRender`, `PruneCut` FALSE |
| `PlayParts_proofs!BusHolds` | the active source is claimed only while it is ours, no answer is answered | |
| `PlayParts_proofs!SticksHold` | the mounts are the volumes, the library is the first of them | `Alone`, `BusyIsFirst` |
| `BoxParts_proofs!VerdictsAreRecent` | a request is judged by an answer that is young enough | |
| `BoxParts_proofs!SettingsHold` | what is sent is what was saved last | `OnePoster` |
| `BoxParts_proofs!PagesHold` | the packages leave one another's blocks alone | `OneAfterTheOther` |
| `BoxParts_proofs!DisplayGoesBack` | the display is PPApp's after a run, not while the sink scans out | |
| `BoxParts_proofs!SelectionGoesBack` | the owner's source is back after a run | `Chooses` FALSE |
| `BoxParts_proofs!TypingHolds` | keys go to the source the agent found on the screen | |
| `BoxParts_proofs!KeysHold` | a key stays with its forward until it is replaced, and no mask is stored as a URL | `OneTab`, `Renames` FALSE |
| `BoxParts_proofs!FormatsHold` | what Fit and Preview give is what the shim takes | |

**Assumptions.** `Works` is `MayFail = {} /\ LateStart = FALSE`: files can be
written and PPApp is up within 20 s; section 7 shows that neither half can go.
`OneByOne` is one request at a time, in `OmtApi` also none before the resume is
over. `Sound` is: /run can be written, only bdomt is killed, only bdomt's stop
is outlived by PPApp. That is not what always happens, it is where the other
two modules fail. Stops and starts may fail under `Sound`; what a failed start
leads to is in the conclusion (`denied`). `NamesService` is that every answer has the SRV record, without
which section 7 shows a sender that is not listed. `EnoughBuffers` is
`Cardinality(Buffers) >= QueueCap + 2`: one for each place in the queue, one for
the writer and one for the decoder, which is the three of the code.

The others, too, are the boundary that section 7 shows from the other side.
`Intrudes` FALSE is that nobody starts from the web beside a session, and
`Outlasts` that a playback which outlives the 15 s of Stop does no more than
restore; with either, two draw. `OneRender` is one playback of a PDF at a time and
`PruneCut` FALSE that a prune is not cut off by the power. `Alone` is that a
rescan, an eject and the watch wait for one another, `BusyIsFirst` that the stick
somebody keeps busy is the first. `OnePoster` is one POST to the converter at a
time. `OneAfterTheOther` is that packages are installed one after the other, that
the camera's installer is not cut off, and that bdplay's page, which goes back to
its backup, is neither updated to another place nor removed. `Chooses` FALSE is
that the owner picks no source while the camera shows its own. `OneTab` is that a
single page of the tab is open, and `Renames` FALSE that no path with a key
is renamed.

**Arguments.** Almost none of the properties is inductive.

- `OmtSession!IndInv` ties callers and runs together: who holds `op` is at a
  place that needs it (`MutexInv`), a caller joins the run it has detached
  (`DetachInv`), a run that is busy is the current one or being joined
  (`BusyInv`), the display is held by whoever needs it (`HeldInv`), and the
  state follows (`StateInv`). `OneRunDraws` is `BusyInv` and the mutex;
  the refinement is `Quiet` (nobody draws when nobody is current or joined) and
  `Alone`.
- `OutputRunner!IndInv` says who is inside `mu` between its two writes, that
  `busy` means one restart, that the timers that run are those of living
  trials, and who answers for a trial at each place. `ScreenInv` adds what
  shim.conf and PPApp have at each place of a restart, which is true only under
  `Works`.
- `OmtApi!RecordInv` says that what a request takes along to the session is
  what it has just saved; with one request at a time nobody can change that.
- `HdmiHandover!StoppedInv` says that what a module will do at each place
  follows from what it found, and that `denied` is only set of a runner that is
  down and not meant to be; `DarkInv` adds that bdomt's marker is there from
  before its stop until after its start, and that a PPApp which outlives its unit
  is one whose start bdomt owes or was denied.
- `Gateway!HomeInv` says that what a request remembers at each write is what
  it found, which is why the owner's choice is in the request until the state
  file has it. The refinement mapping reads the owner's choice (`Home`) from
  the files, from the request or from decoder-state.json, whichever has it.
- `Receiver!RedirectInv` says that a session dials whom the last redirect says
  and that its readers run only while its connection is registered, so that a
  redirect they hear always finds a connection to close.
- `DiscoveryInv` says who waits, who browses and what the list has heard: a waiter
  that is woken is excused by the browse that woke it (`WokenIsExcused`), and a
  browse has asked for what it has not heard (`BrowseGoesOn`).
- `SinkInv` and `BoxInv` say at once that places are disjoint (`Apart`,
  `FrameInOnePlace`) and that they are all the places there are (`AllThere`,
  `NoneForgotten`). The bound on the pool then is a matter of counting finite
  sets, with the library's facts about cardinality.
- `GateInv` is `GateTypeOK`, `AnswerWasTrue` and `CallWasTrue`: a kept answer was
  true at a moment not longer ago than its age plus a probe, and so was what a
  request carries. Elapsing time ages both together.
- `TakenInv` of `Gateway` says what each step of a save has already brought into
  line: the hub's file once it is rendered, the list once PPApp has its name, the
  decoder's record before PPApp is restarted. A step that fails leaves a warning.
- `GuardInv` orders the resumes (`InOrder`) and ties the file to them: it counts the
  last of them from the first in its window (`FileCounts`), and the run it counted
  before began a window earlier (`RunBefore`). Then 2 * Limit resumes, one after
  another, do not fit into a window (`SpreadOut`), and `LoopIsCut` follows by
  taking the earliest of those that would.
- `AudioInv` is `SoundIsCurrent` with the types. `SumOf` is a function over running
  totals; that the total of a queue changes by the chunk that is appended or
  dropped is proved from its least counterexample, with `WFMin` of the library,
  which needs no induction rule.
- `RemoteInv` says who may be where: one handler or loop enters or runs the
  session (`Owners`), a call to the player belongs to somebody who waits for it
  and finds what it was called on (`Calling`), a playback that draws is the
  current one or is waited for (`Playing`), a pin stands for a session that is
  entered, runs or leaves (`Pins`), and an unarmed trigger for somebody who will
  arm it (`Arming`). The browser is drawn only where all playbacks are past
  drawing (`Screens`). `RunnerInv`, beside it, ties BirdDogRunner to the display:
  it does not run while the display is held, and is left stopped only where
  bdplay gave up.
- `EntryInv` says what a pick, a poll and a restore under way may still rely on
  while no write has crossed them (`PickKept`, `PollKept`, `RestoreKept`); that a
  name and a mode that are not torn belong together, on disk, in the guard's memory
  and in what Restore was given (`FilesKept`, `MemoryKept`, `BackKept`); and that
  the decoder is on our entry without a reason only on its way to NDI (`WhyKept`).
- `PlaylistInv` says that a cycle nobody steers has shown its order up to `pos`,
  and that a shuffle that begins with the last clip has its ends swapped, which
  leaves a permutation (`SwappedIsShuffle`).
- `BrowserInv` says that the cursor is on a row and in the window, that a folder
  that is shown has something in it (`Placed`), and that every menu on the trail is
  on the row of the folder that was entered from it (`CameBy`). The lists of rows are
  filtered sequences, written as one-to-one maps of places (`Those`), so that a
  count is the cardinality of a set of places and no induction is needed
  (`ThoseOf`): a folder is credited for exactly what is inside it. What this rests
  on in the sticks is `SticksAssumption`, which is true of any file system: a path
  names one file or one folder, and the folders above a file exist.
- `PdfInv` says that pages are installed only when all of them are rendered.
- `CecInv` types the queue and says that a message which is an answer has none of
  the operations that are answered (`NotAnswered`).
- `StickInv` says at each place of a scan and of an eject which volumes were
  already looked at, what of the copy is still plugged in, and that a busy stick
  that was refused is still the library's. It is the longest: a device can be
  pulled between any two steps.
- `SettingsInv` says that settings are validated before they are saved and that
  between two POSTs the streamer runs as saved or stands still for a reason.
- `PagesInv` says that only one package is at work, that it has read the page as it
  still is and put its script there before it writes the page, and that a script
  is there for every page that asks for one (`ScriptIsThere`).
- `CameraInv` reads Go's deferred calls as a stack: the display is its last
  (`DisplayIsLast`), the sink's is there while it scans out, and while PPApp is
  down somebody will start it: the run, a deferred call, or ExecStopPost by the
  marker (`DarkIsDeferred`). `SelectionIsKept` is the same for the decoder.
- `KvmInv` adds that there is no receiver while one is looked for.
- `PathsInv` says that nothing stored is a mask, and that whatever a page still
  shows masked is stored under the name and the number it was loaded with, so that
  `Merge` finds the key it stands for. That is what a second page, or a rename,
  breaks.
- `FormatsAreTaken` has no history: `FormatsHold` is arithmetic about `Fit` (its
  candidates are filtered by what `Check` asks, its blanking is at least the
  least) and about `Preview` (clamping twice keeps a plane inside), in lemmas of
  one inequality each.
- The three theorems about waiting have invariants of their own, and need none of
  the hypotheses of the others. `ToldToStop` follows a cancelled context from
  stopLoops to the run. `ExitInv` says that a session somebody waits for has a
  loop or a handler that enters it, because it was active when the wait began
  (`ActiveIsLed`) and closing doneCh lets everybody go at once; `StopInv` that a
  stop channel stays closed until the playback is over, and that a playback which
  is waited for is not taken for a new one. `MailIsTold`, `PipeIsManned`,
  `SoundIsManned` and `LedInv` do the same for a token, a queue, a condition
  variable and a channel.

The lemmas follow one shape: types first, then one lemma for each group of
actions with one step per action.

## 6. What is only model-checked

- Liveness (`CallsReturn`, `ErrorGivesBack`, `SilenceEndsLive`, `NothingHangs`,
  `StaysConnected`, `ScreenComesBack`, `DarkEnds`, `SessionGoesOn`, the leaving of
  `TakenGoesBack`, the following of `TypedGoesToScreen`), which the proof system
  does not reach. What is proved of it is the part that is a matter of states: for
  `CallsReturn`, `NothingHangs` and `SessionGoesOn`, that who waits waits for
  somebody who has been told and has a step to take (`NobodyWaitsInACircle`,
  `NobodyIsOverlooked`, `NobodyWaitsInVain`). "Has a step" is written out as the
  guards of those steps, since `ENABLED` is out of reach as well; that the step is
  taken is what fairness gives and TLC checks.
- What the hypotheses of section 5 leave out is not claimed anywhere: there the
  code does otherwise, and section 7 says how.

## 7. Where the code and its comments disagree

Two disagreements are in the index as runs that TLC finds violated.

- `hdmi_player`: when PPApp is still up 10 s after `systemctl stop`, bdplay's
  `acquireLocked` calls `restoreLocked` while `held` is still false
  (`player/display.go:108`, 125), so nothing is started again; `gaveUp` of `Player`
  excuses `HandsBack` in this case.
  `player/display.go:107` says "Restore rather than leaving the box in a
  half-stopped state."
- `gateway_rename`: `Merge` looks for the stored path by the name the edit gives
  it (`gateway/config.go:374`), so a renamed path is new to it and the masked URLs
  are stored as they are. `gateway/web/streaming.js:339` says "a URL that came
  back masked (••••) is kept as stored unless you replace it".

Each row below is the boundary of a passing run: change the named constants in
the named configuration, check the named property, and TLC finds it violated.
Where a specification is named (`SinkSpec`, `GuardSpec`, `NetSpec`,
`FairNetSpec`, and `Spec` for `OmtApi`), it is that of the part alone: use its
module with its constants from `OmtParts.cfg`. CHECK_DEADLOCK is FALSE throughout.

| configuration, and what to change | property | what the code does | what it says |
|---|---|---|---|
| `HdmiHandover_player`: `Modules` and `MayDie` {"cam"}, `Straggles` {} | `DarkHasOwner` | `takeDisplay` stops BirdDogRunner before it writes its marker (`converter/run_pipeline.go:460`, 468); killed in between nobody starts it | 450-452: "It cannot run if the process is killed outright, so the unit also restarts BirdDogRunner in ExecStopPost." |
| the same: `Modules` {"omt"}, `Straggles` {}, `MayFail` {"start"} | `DarkIsNeverNobodys` | a start that fails is logged, the marker is removed (`omt/display.go:111`, 116-120) and nobody asks again; bdplay (`player/display.go:146`) and bdcam (`run_pipeline.go:475`) do the same | 3: "Taking HDMI from the PLAY's own decoder, and always giving it back." |
| the same: `Modules` {"omt", "player"}, `Straggles` {} | `HeldIsFree` | bdplay does not look for another module; bdomt's Release starts PPApp under it (`player/display.go:87`) | 33: "held is true while we have stopped BirdDog's stack for our own use." |
| the same: `Modules` {"omt"}, `Straggles` {}, `Aborts` TRUE | `HeldIsFree` | a BirdDogRunner that systemd is about to restart is not "active" (`omt/display.go:64`): nothing is stopped, and PPApp comes up under bdomt | 56: "Acquire stops BirdDog's decode stack and waits for PPApp to let go of DRM." |
| `SinkSpec` | `SlowPipeNeverStalls` | Submit sends on a full queue without a default case (`omt/sink.go:299`) and waits as long as the writer is blocked | 22-23: "so a slow pipe costs a dropped frame rather than a stalled decoder" |
| `OutputRunner_live`: `MayFail` {"config"} | `UnkeptIsOnTrial` | TryFormat of the kept or the source's format ends the running trial (`output/runner.go:184`) before the save that may fail; the tried format stays | 8-9: "unless Keep comes within RevertAfter the last kept format goes back" |
| `OutputRunner_live`: `LateStart` TRUE | `UnkeptIsOnTrial` | a PPApp that starts between the last poll and the write of the kept format (`output/runner.go:228`) stays on the tried one | the same |
| `Spec` of `OmtApi`: `OneByOne` FALSE | `StopSticks` | resume starts what was saved at start-up, up to 63 s later (`omt/main.go:241`), whatever was pressed since | `omt/config.go:22-23`: "Stopping from the tab clears it." |
| the same: `Handlers` {h1, h2}, `OneByOne` FALSE | `RecordIsTrue` | two requests save in one order and reach the session in the other (`omt/serve.go:192`) | `omt/config.go:20-23`: "Source is the last one chosen", "OnAir records that a source was being shown" |
| the same | `SettingsTaken` | new settings are not taken by a Start that is between stopLoops and its run (`omt/serve.go:258`) | 256-257: "A live session picks the new settings up by restarting its loops" |
| `GuardSpec` | `ThreeInTen` | the window starts at the first resume, not at any (`omt/main.go:254`): five can fall into ten minutes | 217-218: "it refuses to run more than three times in ten minutes" |
| `NetSpec` | `OffAirIsTold` | the tally is read before the hello and the connection registered after it (`omt/receiver.go:321`, 344); a Stop in between is not heard | `omt/session.go:167-168`: "Tell the sender we are off air before the socket goes" |
| `NetSpec` | `BackoffCapped` | the backoff doubles while below 5 s: 1, 2, 4, 8 (`omt/receiver.go:272`) | 261-263: "backs off to five seconds" |
| `FairNetSpec`: `Fickle` {other}, `MayStop` FALSE | `SourceIsKept` | a redirect to a sender that is gone is dialled for ever (`omt/receiver.go:284`) | 151: "Receiver keeps one source connected until its context ends." |
| `OmtParts`: `Extras` {{}} | `AskedIsListed` | a browse asks directly once (`omt/discovery.go:296`): a sender that gives its SRV record only then, and no address with it, is not asked for that | 294: "Instances that answered without their SRV or address get asked directly." |
| `Gateway_save`: `MayFail` {} | `PrevIsTheOwners` | Take writes PPApp's source name before decoder-state.json (`gateway/decoder.go:253`, 261); killed in between, the next Take remembers our own entry | 25-27: "Whatever was selected before is remembered, and put back" |
| `Gateway_save`: `Handlers` {h1, h2}, `MayFail` {}, `MaxCrashes` 0 | `DecoderFollows` | with two saves side by side apply compares with what its own request loaded (`gateway/serve.go:296`) | `decoder.go:327-328`: "Sync makes the decoder match the config" |
| `Gateway_save`: `MayFail` {"restart"}, `MaxCrashes` 0 | `AppliedIsShown` | after a restart that failed, the same save again finds nothing changed and does not warn (`gateway/decoder.go:265`, `serve.go:296`) | `serve.go:263-264`: "brings the hub and the decoder into line with it" |
| `Remote_main`: `Intrudes` TRUE | `OneDrawsAndHolds` | a Start from the web beside one of the session: both pass `Stop`, and the first run has nobody to stop it (`player/player.go:97`) | |
| `Remote_main`: `Outlasts` with "render" | `OneDrawsAndHolds` | Stop gives up after 15 s on a run that is rendering a PDF (`player/player.go:394`) and that draws later | |
| `PlayParts`: `Alone` FALSE | `SticksAreTrue` | Eject goes by a copy of the volumes and Scan mounts with the lock free (`player/storage.go:148`, 397): side by side one mounts or forgets what the other is at | 394: "Eject unmounts every volume we mounted." |
| `PlayParts`: `Busy` {2} | `LibraryIsPrimary` | an Eject that is refused one of two sticks answers with an error and does not rescan: the library lists the stick that is gone | |
| `PlayParts` | `BrowserIsTold` | only the watch tells the session; after a rescan or an Eject of the web the browser keeps the list it had | |
| `PlayParts`: `Renders` {r1, r2}, or `PruneCut` TRUE | `CachedIsWhole` | two Renders of a document share its .tmp directory (`player/pdf.go:153`); the RemoveAll of a prune that is cut off (306) leaves some pages, which the next Render takes for all | 150-152: "cannot leave a half-rendered deck that looks complete on the next boot" |
| `PlayParts` | `RemembersPair` | a poll reads the name before its lock and the mode after (`player/trigger.go:300`, 308), so a pick in between leaves the name of one source with the mode of another, and Restore writes that; one that picks while Restore writes is likewise mixed with it or overwritten (338-366) | 17-18: "keeps the last value that was not ours, and puts it back before the decoder is restarted." |
| `PlayParts` | `ServedIsThere` | when the rename fails the pages are served from the .tmp directory, which the deferred RemoveAll (`player/pdf.go:158`) takes away before the playback shows them | 219-221: "the current playlist still works" |
| `BoxParts`: `Tabs` {t1, t2} | `KeysAreKept` | a page that was loaded before another one changed the source or dropped a forward sends back a mask that `Merge` no longer recognises (`gateway/config.go:374`), and the mask is stored as the URL | 361: "source or destination that comes back in its masked form means "unchanged"" |
| `BoxParts`: `Posters` {p1, p2} | `FollowsConf` | two POSTs save in one order and run systemctl in the other (`converter/serve.go:97`) | |
| `BoxParts` | `HxIsSent` | with NDI as the only output a camera that is not MJPEG is captured directly (`converter/main.go:260`, 270) and sent uncompressed whatever `ndi_format` says | `converter/config.go:35-36`: ""h264" sends NDI\|HX using the hardware encoder instead of compressing on the CPU." |
| `BoxParts`: `CamFaults` {"stall"} | `TakenGoesBack` | the pump waits on a display sink that does not read, and run waits for the pump (`converter/run_pipeline.go:184`) | |
| `BoxParts`: `Chooses` TRUE | `TakenGoesBack` | the source the owner chose during a run is overwritten by the one remembered at its start (`converter/decoder.go:69`) | |
| `BoxParts` | `KillGivesBack` | as in the first row, in the whole run; also a decoder that is pointed at a killed run stays pointed at it | `run_pipeline.go:449-452` |
| `BoxParts`: `Moves` or `Removes` {"play"} | `PagesAreWhole` | bdplay restores the page it backed up (`player/patch.go:53`), without the blocks that were added since | |
| `BoxParts`: `Overlaps` TRUE | `PagesAreWhole` | bdplay patches at its start while the installer patches the same page: one's block is lost | |
| `BoxParts`: `Rates` {69} | `TightWhereItCan` | at 504x200 only totals up to one and a half times the even spread are tried (`output/timings.go:280`); one that meets 0.005 % lies beyond | 252-253: "within 0.005% wherever that clock has totals that get there" |

Found on the way, with no property of its own:

- A camera size of less than 16 rows is cropped to none where it is encoded
  (`CamSettings`); Validate accepts it.
- Settings for NDI alone with MJPEG above 1920x1088 are accepted and then refused by
  the pipeline (`CamSettings` counts them as refused, not as sent).
- In `Kvm` a key that is down while the source changes stays down at the old source;
  a device that is plugged in while another is read is not read before a restart;
  SIGTERM does not end a `readLoop` that is blocked in Read.
- In `Cec` a direction or address that changes while the adapter's queue overflows is
  not heard of.

## 8. What is not modelled

- OMT's framing and codecs (`omt/protocol.go`, `audio.go`, `vmx.go`), the converter's
  parsers and writers, its ioctls and the copying of raw frames: bytes in, bytes
  out, no state that outlives a frame, covered by the repository's table tests. An
  error there is a connection or a run that ends.
- The shim's rewriting of DRM calls and its reload of the AOI: it runs inside PPApp,
  whose calls the repository does not have. That PPApp takes the format when it
  starts and reports it is in `OutputRunner`, what a format must meet in `Formats`.
- Handlers of the output API beyond resolve and preview, which are the requests of
  `OutputRunner`; reading an EDID.
- In `Camera`, on a run's way out: a start of BirdDogRunner that fails
  (`converter/run_pipeline.go:475`; `HdmiHandover` has it) and a restart of PPApp
  that fails after its source was set back (`decoder.go:79`). Both are logged only.
- The content of frames, samples, pictures, files and pages; drawing the browser and
  the page bdplay serves; statistics and logging; DRM itself, of which only the
  rule of one master is used.
- `Next` and gst-launch's arguments in the player, the mapping of evdev and panel
  keys, CEC's texts; the pointer's position, the key map and `--grab` of the agent.
- The Tailscale panel: it runs a command and reports what it says.
- The installer beyond the units it writes and the order in which pages are patched,
  the browser builder, the templates, the kit and the scripts: they run before the
  box does, one step after the other.
- Shutdown of bdomt with a request in flight, and config files that cannot be read.
