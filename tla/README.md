# LatSOFAudio in TLA+

LatSOFAudio makes the built-in microphones of an Intel laptop work under macOS
by loading SOF firmware into the DSP of a controller that AppleHDA is using at
the same time. The interesting part of it is neither the firmware nor the
registers but the state machines around them: in the driver one command gate, one
500 ms tick, four power callbacks, two kinds of clients and a stream borrowed from
another driver; in user space a HAL plug-in called from many threads and two tools
that listen to Core Audio. This directory models them, checks them with TLC on small
instances and proves the main invariants with TLAPS for every value of the limits.

Paths below are relative to `src/`. `D:n` is line *n* of
`kext/LatSOFAudio/LatSOFAudioDevice.cpp`, `K:n` of `LatSOFKernelAudio.cpp`, `P:n` of
`plugin/LatSOFAudioPlugin.c`, `W:n` of `contrib/latsof-afgwake.c`.

## Inventory

| Component | State it keeps | Operations | Interacts with |
|---|---|---|---|
| Capture, recovery and power (`LatSOFAudioDevice.cpp`) | `hwReady`, `isCapturing`, the stream's RUN and PPCTL bits; retry round `gWakeReinitPending/Tries/TickDivider/ProgrammedWaits/HotRecovery`, `gRecoveryEpisodes`; demand latch `gWasCapturing`; resume latch `gEngineResumePending/Tries`; `gSleepImminent`, `gSleptOnce`, `hdaBase`, `Status` | `start`, `startCaptureGated`, `stopCaptureGated`, `jackPoll` (retry, re-arm, resume executor), `scheduleDspRecovery`, `setPowerState`, the sleep-notice handler, `engineStartCapture`, `engineRequestResume` | everything below, through one command gate |
| DSP bring-up on AppleHDA's stream (`initDSP`, D:1078-1804) | `SdSnapshot`, PPCTL and SPIB, interrupt masks, two DMA buffers | about ten waits, any of which can be the last | AppleHDA, which runs freely meanwhile |
| AFG keep-alive in the tick (D:2366-2460) | last descriptor and signature, two dividers, last jack state, failure count | look, sense, ask, raise | AppleHDA's idle policy, the codec, the jack |
| Teardown (D:2141-2207, 3094-3118) | the audio child and its engine, timer, notifier, gate, buffers | `stop`, `LatSOFKernelAudioDevice::stop` | the tick, a late power callback, IOAudioFamily's thread |
| Kernel engine and its clock (`LatSOFKernelAudio.cpp`) | `engineRunning`, `lastWrapFrame`, `lastStampTime`; IOAudioFamily's engine state | `performAudioEngineStart/Stop/Pause`, `resumeAudioEngine`, `wrapTimerFired` | the family on its own thread; the capture calls above |
| Sample conversion and DC filter (K:505-564) | `dcX1`, `dcY1`, `dcNextFrame`, shared by all clients | `convertInputSamples` | the ring |
| User client (D:3120-3200) | none of its own | `StartCapture`, `StopCapture`, `clientClose`, positions, a memory mapping | the capture calls |
| HAL plug-in (`plugin/LatSOFAudioPlugin.c`, retired by the kernel engine but still built and installed) | client count, connection, mapped ring, hardware clock and host-clock anchor; box, streams and controls; two mutexes; one flag in the HAL's storage | `StartIO`, `StopIO`, `GetZeroTimeStamp`, `DoIOOperation`; five property functions for five object classes; `Initialize`, `AddRef`, `Release` | the user client; the HAL's threads |
| `contrib/latsof-setrate.c` | last activity, settle time, burst count | rate notifications, 1 s tick | Core Audio |
| `contrib/latsof-afgwake.c` | one connection | notifications, 15 s backstop | the codec, through AppleALC |
| Playback path, I2C codec; clamshell; scripts; generated payloads | - | - | see "Not modelled" |

What makes them hard, and what makes them correct:

* **Capture, recovery, power.** Every entry point is atomic under the gate, so
  races are not between instructions but between *calls*: a refused start and a
  tick, a retry round and a power-down, a stop IPC that times out and a spent
  budget, the family's sleep pause and a latched resume. Correct means: DMA runs
  only for somebody; a demand is never forgotten and never retried for ever; the
  driver's idea of the hardware survives a sleep that takes the power away, and
  one that is given up half way.
* **Borrowing.** The look that says "AppleHDA is not using its stream" is 750 ms
  old when the stream is taken, and there are a dozen ways out. Correct means that
  AppleHDA gets back what it wrote, once, on each of them.
* **Keep-alive.** It samples a system that moves between samples, over an
  interface that loses commands. Correct means a bound on the static the user
  hears, without fighting AppleHDA's power saving.
* **Teardown.** The engine is freed off the gate, by another driver's thread, while
  handlers on the gate use it. Correct means that what is freed can no longer be got at,
  and that the order that makes it so ends.
* **Clocks.** Wraps are inferred from a position read late. Correct means that
  sample time and host time stay locked, in the kernel engine and in the plug-in,
  which reads a position of 0 whenever the DSP is down.
* **Filter.** One state, several clients, overlapping blocks. Correct means that it
  is stepped once per frame and that a client alone hears no seam.
* **Plug-in.** Two mutexes and a ring read under none: what keeps them apart is a
  count. Lists are read in two calls, changes are stored and told of in steps, and
  the process that hosts it all may crash.
* **afgwake.** Two threads share a connection without a lock, and a look is stale by
  the time it is acted upon.

## Modules

| Module | Models | Depends on |
|---|---|---|
| `LatSOFAudioDevice` | capture, recovery, power, engine hooks, user client's capture calls | - |
| `LatSOFRecoveryLiveness` | fairness and liveness of the above | EXTENDS it |
| `RecoveryBudget` | abstract: what the driver promises about its efforts | - |
| `LatSOFBudgetRefinement` | `LatSOFAudioDevice` implements `RecoveryBudget` | EXTENDS, INSTANCE |
| `LatSOFAudioDeviceProofs` | proofs: type correctness, safety, the refinement | EXTENDS the above and TLAPS |
| `BorrowedStream`, `BorrowedStreamProofs` | `initDSP` step by step, inside one `InitDSP` action of the core; its proofs | - |
| `AfgKeepAlive` | the tick's last stage, step by step | - |
| `Teardown` | `stop()`, the child's stop, and all that still calls in | - |
| `OwnerProofs` | proofs of these two ends of the owner's life, whose names do not clash (`StopSpec`, `StopInit`, ...) | EXTENDS both |
| `WrapClock`, `WrapClockProofs` | the engine's clock, inside "engine Running" of the core; its proofs | - |
| `DCFilter`, `MCDCFilter`, `DCFilterProofs` | `convertInputSamples`; its symmetry; its proofs | - |
| `SharedCapture` | abstract: what the plug-in promises about the one capture its clients share | - |
| `PluginIO`, `MCPluginIO`, `PluginIOProofs` | the plug-in's IO half, against the driver as it sees it; it implements `SharedCapture` | INSTANCE |
| `PluginObjects` | the property switches of the five object classes, as tables | - |
| `PluginProperties`, `MCPluginProperties`, `PluginPropertiesProofs` | the state behind the properties and the threads that read and set it | EXTENDS `PluginObjects` |
| `SetRate` | `latsof-setrate --enforce`, a tool of its own | - |
| `AfgWake` | `latsof-afgwake` as it runs resident | - |
| `ToolProofs` | proofs of both tools, whose names do not clash (`RateSpec`, `RateInit`, ...) | extends both |

**Definitions and code.** Variables have the source's names. In the core an action is a whole
gated handler: `CaptureRefused`, `CaptureStarted`, `ParamsTimeout`, `TriggerTimeout`
are the exits of `startCaptureGated`; `StopCaptureGated`, `ScheduleDspRecovery`,
`PowerOff`, `PowerOn`, `WillSleep`, `WakeNotice`, `EngineRequestResume` are the
functions they are named for. One `jackPoll` is three actions, `RetryAttempt` (or
`RetryDeferred`, `RetryIdle`), `RetryRearm` and the executor's, with `gate` held
in between: the workloop keeps everything gated out, but not AppleHDA, the
platform or the family's thread. `InitDSP(out, ...)` is `initDSP` as its callers
see it: three outcomes, and a descriptor that may have moved. `BorrowedStream` is the
inside of that action and what its two callers make of the outcome (`ReturnsToStart`;
`ReturnsReady`, `RetriesLater`, `GivesUp` for the tick); there the caller's patience and the
end of its tries are free choices. A Status is its first word and the failure it quotes:
`initDSP` writes it at each exit, the tick reads it back and rewrites it. The family's
engine (`engState`, `pauseLevel`, `clients`, `famStep`) is external and
modelled from what the overrides in `LatSOFKernelAudio.cpp` and their comments
use of it.

`Teardown` starts from a driver that is up and keeps of the core only what its end
turns on: who may be on the gate, whether a handler there holds the engine pointer
(`using`; taking it and using it are two steps, because the family frees off the
gate), and whether the DMA writes. `PMStop` is `setPowerState(0)` without the D3 that
would stop the stream. In `SetRate`
`enforce_tick` is two actions, the decision (`TickActs`) and the write
(`TickPins`), because a jack plug can fall between them; its times are ages that stop
where the code no longer compares them. In `DCFilter` a filter state is named by the
frame it is ready for, so "stepped twice" and "a seam" are comparisons of frames.
`PluginIO` has one action per section of `StartIO` and `StopIO` that another thread can
fall between; time is counted in frames from the start of a session. `PluginObjects`
turns each property switch into a table from property to what it answers (a size, a
value and how much of it is written, whether it is settable), and `PluginProperties` is
what changes behind the tables: a section that takes the mutex, changes one thing and
releases it is one action. `AfgWake` has one action per call either thread makes
(`OpenFinds`, `OpenConnects`, `Verb`, `ClosePort`, `ForgetPort`), because the other
thread may use the same connection between any two.

Definitions headed "Mutant" are wrong on purpose and are used by no
action: each is a bug the code had or could have, and `PROJECT.json` names the
property that catches it. PROJECT.json's "map" gives the lines of every definition.

## What is checked

Runs that must pass:

| Run | States | Question |
|---|---|---|
| `CoreSafety` | 1.5 M | Every interleaving of user client, engine clients, tick, AppleHDA, sleep, a sleep given up before the power-down, a failing BAR remap. `NoHeadlessCapture`: DMA runs or is latched only for somebody. `CaptureMatchesStream`: the flag and the stream's bits agree. `ReadyMeansLoaded`: no path skips the rebuild after a real sleep. `PoweredDownIsQuiet`: no retry round crosses the power-down. `DemandNotStranded`: a latched demand has a capture, a rebuild or a spent budget behind it. `ExecutorParkedForSleep`: the resume latch is not executed into a sleep. `WithinBudget`: the refinement of `RecoveryBudget`. |
| `DefaultConfiguration` | 0.3 M | The default configuration: strict borrowing, the kernel engine the only client; here sleeps may be undone even after the power-down, and engines may be started while it lasts. `RunningEngineHasCapture`, `StatusDeferredInProgress`, `LoadDeferralIsPatient`, and, with pauses nested three deep, `ResumeLatchSpent`: the resume latch is not lost. Liveness: `RecoveryTerminates`, `DemandServed`, `SessionRestored`, see "Fairness". |
| `BorrowedStream` | 0.2 M | Every exit of `initDSP` over several calls of `start()` and the tick. `LeftAsFound`: between two calls the descriptor and the shared registers are AppleHDA's, interrupts masked, buffers freed. `StatusTellsOutcome`: Status says OK just of a topology that came up; when it says deferred a round is pending, and it quotes the last attempt's failure, never an older one's. |
| `AfgKeepAlive` | 29 k | `StaticIsBounded` (one belt period), `NoIdleFight` (three raises). Both bounds are tight: TLC refutes the next smaller. |
| `Teardown` | 2.2 k | `NoUseAfterFree`: engine, buffers and gate are out of reach when they go. `StopEnds`: `stop()` does not wait for ever, whatever calls in. |
| `WrapClock` | 4.2 M | `StampOnWrap`, `TimelineLocked`, `TimelineCurrent` over two outages, late polls and failing spins. The horizon, four rings, is short of the second bound of `TimelineCurrent` after two outages; `ClockCurrent` is not. |
| `DCFilter` | 68 k | `NoDoubleStep`: the kept state is fed no frame twice, however blocks overlap. `SingleClientSmooth`: a client alone is filtered without a seam, from any position and over restarts. |
| `PluginIO` | 2.5 M | `CaptureIsShared`: the refinement of `SharedCapture`. `CaptureWhileCounted`: the driver captures exactly while a start is counted, and no ring is unmapped under a read. `StampsFollowRing`: without an outage the rings counted are those that went by, each placed within one call's time of its wrap. `StampsMonotonic`: through outages too neither time goes back. |
| `PluginProperties` | 185 k | `SwitchesAgree`: what exists has a size, a value that fills it and a set that agrees with "settable". `ListsAreSnapshots`: a list read in two calls is that of some moment. `ChangesArePublished`: a change is stored and told of, whatever others set. |
| `SetRate` | 0.7 M | `RebuildProtected`: no write into a codec rebuild whose notification has had time to arrive. `ListensToAll`, `FightBounded` (2 x limit + 1 corrections in any window), `HeldRateCorrected` (liveness). The two bounds are tight. |
| `AfgWake` | 1.1 M | `WritesWhileRunning`: a correction is written to a codec no look saw running only if the last device stopped after the look. `RunningIsWoken` (liveness): sound through a powered-down group does not go on like that. |

One run must fail: a statement the repository makes and the code does not keep (quoted
under "findings" in `PROJECT.json`). `AbortedSleep`: `shutdownForSleepGated` relies on D3
to stop the stream, also when the sleep is undone before D3 comes. Its worst consequence
is in `Teardown`: a `stop()` after such a sleep finds `isCapturing` false, stops nothing
and frees the buffers under the DMA; `Teardown` therefore takes D3 to follow a power-down.

### Disagreements without a run

Met while modelling. Some have a run's worth of evidence (the configuration is given),
others are documented, or turn on what the model abstracts.

* A BAR remap that fails on a wake (D:2019) schedules nothing and leaves a `deferred:`
  status of an earlier round standing; INSTALL.md:258 says any such status is "in-progress,
  never terminal". `DefaultConfiguration` with `RemapMayFail = TRUE` refutes
  `StatusDeferredInProgress`; in `BorrowedStream` every wake remaps.
* The Status of a give-up quotes `gLastInitFail`, which only an attempt with tries left writes
  (D:2324) and nothing resets: the last attempt's own failure is lost, and what is quoted may be
  from an earlier round, or "unknown". D:357-358 promises to "never again lose WHY the retries
  failed". In `BorrowedStream` "idle and FAILED quotes `ended`" is refuted by `GivesUp`.
* `performAudioEngineStart`'s fallback (K:355) pairs a position read after a failed spin
  with the clock read before it (K:345); K:290-294 asks for a time that belongs to the
  position. A session that joins running capture is anchored early by the spin.
* The free run (K:476) issues one loop per poll and never catches up when the poll itself
  was held up for several rings; K:467-471 says the two times "stay locked together across
  the outage". `WrapClock` with `OutageLate` above a ring refutes `TimelineLocked`.
* The keep-alive's look consumes its triggers (D:2409-2410, 2426) before the command they
  ask for is answered; D:401-402 says a lost round "costs nothing because the next tick
  retries". Only the belt does, up to 10 s later.
* `kAudioBoxPropertyDeviceList` with too little room leaves past the unlock (P:1691) and
  the state mutex stays taken (`GetBoxDeviceListFails`). It needs the box to be acquired
  between the HAL's question for the size and the list, and everything that takes the mutex
  then blocks.
* The box's name is copied under the mutex and retained after it (P:1577-1583), so a set in
  between may free it; `OneReference` says what references there are.
* The plug-in opens its connection once (P:3908): after the driver was unloaded every later
  session is silence on the host clock. Each outage of the DSP is a phantom wrap
  (P:4083): the timeline takes a ring early, monotonically.
* Several properties of the plug-in fall short of their tables and are listed in
  `KnownGaps`: the `TranslateUID` pair refuses the qualifier the HAL passes (P:1214, 1257),
  `BoxUID` comes without its size (P:1627-1631), of two sample rates one is written. The
  plug-in's owned objects change with the box and nobody is told; the name is read back
  from the key of the flag (P:508), where it never is.
* afgwake counts *any* running device (W:186), so an idle codec is forced up under the
  microphone or HDMI on every backstop, where its header (W:30-31) says an idle codec is left
  alone. The group is armed once for each notification of a jack event, not "one write per jack
  event" (W:207-208): `on_change` hears `JackIsConnected` and `DataSource` of every device
  (W:265-284), and AppleHDA may idle the group between two of them. `PrearmsBounded` proves what
  is left of the sentence. Its two threads may close each other's new connection; with notifications that never
  cease that may go on for ever, which is why `RunningIsWoken` says "once they cease".
* A second client of the kernel engine is filtered from a copy of the first one's later
  state, and a client that skips by other than its block size never meets `dcNextFrame`
  again; K:531 has it so. `SingleClientSmooth` is about a client alone that does not skip.
* One DMA is shared by both kinds of clients, and a stop is not counted (README.md:469 says
  so). A capture demand during a power-down schedules the round that the power-down had
  cancelled (`PowerInv` below has to exclude it; `DefaultConfiguration` allows it and shows
  that the sessions survive it). A round set up at boot re-arms capture although no sleep
  took place. A load deferred at the borrow (D:720-726) forgets the patience that the same
  deferral has at the preflight (D:707), which only `latsof_strictborrow=0` lets through.
* `latsof-setrate` measures quiet, not "wrong CONTINUOUSLY" (latsof-setrate.c:47): a plug
  heard of late, or one between the tick's decision and its write, is written into, which is
  why `RebuildProtected` allows rebuilds younger than a notification, and its write at launch
  waits for nothing.
* `sdRestore` writes back PPCTL and SPIB as they were, so bits AppleHDA changed during a load
  are lost (`BorrowedStream` keeps AppleHDA off them). "Steady idle: zero codec traffic"
  (D:409), where the jack poll sends one command a second.

**Bounds.** The limits of the code (12 attempts, 3 ticks each, 20 rounds of patience, 3
episodes, 3 resume tries) are CONSTANTS; TLC gets 1 or 2. What the code does with
them is compare and count, so what matters is "below", "at" and, for counters
compared with `>` (`gRecoveryEpisodes`, `gProgrammedWaits`), "above": all are reached
with 2 (with 1 in `DefaultConfiguration`), and the theorems hold for every value. Counters
that only a comparison reads
stop above their threshold (`CountTo`). `MaxClients` 2 tells the last client's
stop from another's; `MaxPause` 2 nests pauses; `DefaultConfiguration` has 3, the
least at which one is left after a wake for the executor to drain
(`ExecutorDrainsPause`, where `startAudioEngine` returns success without a running engine).
`LateDemand`, `AbortAfterPowerDown`,
`RemapMayFail`, `UserClient` and `gStrictBorrow` are environments, and each run says
which it allows. In `WrapClock` a ring is 6 units, a poll 2 and a spin 1: all the
module assumes is that a poll, its lateness and a spin are shorter than a ring (in the
code 100 ms against 341 ms); the horizon, four rings, leaves room for two outages. In
`BorrowedStream` two programmings tell AppleHDA's old one from its new one.
In `SetRate` settle, window and backoff are 3, 10 and 10 seconds for 8, 60 and 60, and the
limit is 1: three settle times fit into a window, so that the limit, and not the settle
time, bounds the fight. A rebuild takes up to 2 seconds, less than the settle time, as
the code requires, and more than a notification (1), so that there are rebuilds the
property forbids to write into; a second engine can be rebuilt while the first is wrong.
In `AfgKeepAlive` the belt is 4 ticks and the sense 2, so the periods
differ and neither is 1; three failures retire the stage. `Teardown` has no
constants and no bounds: its state is finite, and TLC sees all of it.
In `DCFilter` a ring of 4 with blocks of 1, 2 and 3 has blocks that divide it and one that
does not, and 9 frames go round it twice; samples and restarts beyond that repeat positions.
In `PluginIO` a session of nine units is two and a quarter rings of 4: it sees two wraps, polls at most 3 apart
(shorter than a ring, as the HAL's IO cycle is) and calls take at most 1; two clients are
a first, a later and a last. The eighth by which a wrap is corrected is not scaled, so a
small ring rounds it to nothing or to one whole unit: both happen. In `PluginProperties` two
threads and three sets suffice to acquire, release and acquire the box between one thread's
two calls; volumes have three steps. In `AfgWake` the provider goes away twice, once for each
thread, beside one start, one jack event and one device that is not the codec's. The event is
notified of up to twice (`JackNotices`), once for each selector listened to: two are needed for
AppleHDA to idle the group between them. Notifications of anything else come at any time and
are not bounded.

**Deadlock** is checked in `BorrowedStream`, `AfgKeepAlive`, `SetRate`, `PluginIO`,
`PluginProperties`, `DCFilter`, `AfgWake` and `Teardown` (whose end is a step of its own).
The mutex that stays taken is no deadlock of the whole: the host can still crash. It is not
checked in the core, where a failed load ends the driver (`goto fail`), nor in `WrapClock`,
where time stops at the horizon.

**Fairness.** `LatSOFRecoveryLiveness`: the tick is weakly fair, since `jackPoll` re-arms
its timer on every path. A power or family callback waiting for the command gate is
strongly fair: the gate is taken and released by every tick, and IOKit's recursive
lock does not starve a waiter for ever. What the platform has begun (D3, D0, the
family's flips) is weakly fair. Nothing is assumed of clients, firmware or AppleHDA;
instead the properties say from when on they leave the driver alone (`Undisturbed`)
or behave (`Healthy`). Output that plays for ever makes the round wait for ever, and
the code means it to: the properties except it. These properties are checked without a user
client, whose demands the default configuration does not have. `Teardown`: `stop()` and the
child's thread get the gate in the end, for the same reason, and a handler on it comes off it.
In `SetRate` the timer, the notification
thread, the clock and the end of a rebuild are weakly fair; apps and the jack are not. In
`AfgWake` each thread goes on, the timer of the run loop fires, AppleHDA idles an unused
codec and AppleALC comes back; no notification need ever come.

## What is proved

TLAPS checks these for every value of the constants that satisfies the ASSUMEs
(limits positive, flags Boolean, sets of clients finite). None of the modules declares an
axiom.

The core (`LatSOFAudioDeviceProofs`):

* `TypeCorrect`: `Spec => []TypeOK`, one lemma per group of actions. It is
  inductive as it stands: counters are bounded because `CountTo` saturates and because
  `RetryAttempt` is only reached below `MaxTries`.
* `NoHeadless`, from **SessionInv**: `NoHeadlessCapture` plus "capture needs a ready
  DSP", "between the family's stop and its flip only a user client can have asked"
  and "a re-arm has a demand". The middle conjunct is what the property lacks: while a
  pause is under way the engine is still Running although its capture was stopped.
* `EngineKeepsCapture`, the other direction, from **FedInv** (SessionInv and who feeds an
  engine in each half of a family step), under `~UserClient`: a user client's stop takes the
  one DMA from under an engine, so the hypothesis is not a convenience. It needs nothing of
  sleeps; those undone half way are included.
* `StreamAgrees`, `ReadyIsLoaded`, `DownIsQuiet`, `DemandKept`, from **PowerInv**, which
  relates the four and the order of a power-down, under `QuietClients == ~LateDemand`: nobody
  calls the device while it is powered down. A sleep may be undone between `setPowerState(0)`
  and D3; only `StreamAgrees` excludes that too (`QuietSleep == ~AbortAfterPowerDown /\
  QuietClients`). Both are assumptions on the environment, not lemmas: `AbortedSleep` shows that
  `CaptureMatchesStream` fails without the first, and a late demand breaks
  `PoweredDownIsQuiet` by design of the retry engine.
* `ParkedForSleep` and `ResumeLatchKept`: the two action properties of the resume latch; the
  first under `QuietClients` too.
* `DeferredIsTransient`, from **DeferredRound** (what a round that pends says in Status),
  under `~RemapMayFail`: the case the hypothesis leaves out is the first of the disagreements
  above.
* `DeferralPatient`, from **ReadyEndsDeferral**, under `gStrictBorrow`. The boot-arg
  `latsof_strictborrow=0` really does lose the patience (see above).
* `ImplementsBudget`: `LatSOFAudioDevice` implements `RecoveryBudget`, from **BudgetInv**
  (a pending round has tries left, and its DSP is not ready), one lemma per group of
  actions, under `QuietClients`. Its steps are the episodes, tries and pending latch; ticks,
  callbacks, descriptors and streams stutter.
* `EffortPaid`: `EffortIsPaidFor`, the variant behind that promise, from the steps
  `ImplementsBudget` shows. `Effort`, episodes left times a full round plus tries left, is a natural
  number; every counted attempt and every ready DSP declared dead lowers it, and only the load, a
  capture that runs, or a demand or a wake on a dead DSP nobody works on raises it. That is
  what ends the retrying in `RecoveryTerminates`; that the tick goes on, so that the number does
  go down, is fairness, and TLC's. No run has it as a property of its own: `WithinBudget` is there.

What happens inside the core's atomic actions:

* `StreamReturned`: `LeftAsFound`, for every exit of `initDSP`, from **BorrowInv**: what is owed to AppleHDA (`Owed`) and what is allocated or
  masked (`Held`) at each step, and that nothing is owed before the borrow. The two
  programmings of the stream are all `BorrowedStream` has, so there is no bound to lift but the
  number of calls; what the proof adds is why.
* `StatusIsTold`: `StatusTellsOutcome`, from **StatusInv**: on the way out of a
  call (`Leaving`) Status says what the exit wrote (`Told`), "OK" for want of a header
  included, which each caller's rewrite turns into what may stand between two calls; and a
  call of `start()` leaves a round behind only by a bail.
* `AfgTypes`, `BoundedStatic`: the keep-alive's counters, and `StaticIsBounded` for
  every belt period, from **BeltInv**: between two ticks the looks that found a
  powered-down group driven are at most the looks the belt has counted. `IdlePolicyKept`:
  `NoIdleFight`, from **FightInv**, which makes the three an account: each raise is paid for by
  what a tick had in hand, a descriptor not yet looked at or a jack not yet seen.
* `NothingUsedAfterFree`: `NoUseAfterFree`, from **StopInv**, in three parts. What is there
  follows from how far `stop()` has come (`TornDown`). Who holds the engine's pointer is on the
  gate with a child that is alive (`EngineHeld`); the child clears the pointer on the gate, and
  the gate is only removed when the child is gone, so it cannot come to free the engine in
  between. A DMA that writes has a capture, and none outlives the stop of the streams, because
  the tick and the child, who could start another, are gone before (`DmaStops`). `Teardown` has
  no constants, so TLC sees all its states and the proof lifts no bound; what it adds is which
  steps of the order carry it. `isCapturing` implies `hwReady` only because nothing takes the
  DSP down while the tick is on the gate: the types alone are not inductive.
* `ClockTypes`, `StampsOnWraps`, `ClockLocked`: the kernel engine's clock. **LockInv** says
  how far the last stamp, the last position and the DMA are apart in each phase of the poll.
  `ClockLocked` assumes `Prompt`: two polls and their spins are less than a ring apart,
  a late one included, with or without an outage. The code has 100 ms and 2 ms to 341 ms, and
  the run's constants satisfy it; a poll held up beyond a ring loses wraps (see above). Any
  number of outages of any length is covered, where the run has two. `ClockCurrent`:
  `TimelineCurrent`, under `Prompt` too, from **FreshInv**. The position to compare with
  survives an outage, so a new DMA may pass it unseen and is then stamped a ring later; but the
  further it is from the ring's start, the sooner the DMA is found behind it, and that pays for
  a last stamp as much longer ago.
* `SteppedOnce`, `FilterTypes`: `NoDoubleStep` for any number of clients, every ring and
  every block size. The invariant it needs says that `dcNextFrame` is the kept frame modulo
  the ring, and that a frame still in the ring and equal to it modulo the ring *is* it: the
  step from positions, which the code compares, to frames. `LoneClientSmooth`:
  `SingleClientSmooth`, from **LoneReader**: the state a lone client left is at its position.

The plug-in:

* `ImplementsSharedCapture`: `PluginIO` implements `SharedCapture`, which has no mutex, no count
  and no call in two halves, for any number of clients. A client has the device from its
  `StartIOFirst` or `StartIOBump` to its `StopIODrop` or `StopIOLast` (`Users`): these are the
  instants at which the abstract starts and stops happen, one lemma each; taking a lock, counting
  the first start and every time stamp are stutters. It needs **SharedInv**: IOInv, and that a
  ring is only mapped through a connection and for somebody, without which a first start could
  find the mapping of an earlier session. `CaptureIsForUsers` then follows from the abstract
  steps alone: capture runs exactly while somebody has the device and the driver is there, with
  none of the exceptions for half-done calls that `CaptureWhileCounted` has to make.
* `CountedCapture`, `RestartExcluded`, from **IOInv**: who holds the mutex, what the
  count is in each half-done call, who has asked, and that a ring is mapped under a read; for
  any number of clients. It needs the cardinality
  theorems of the library: the count is that of a set. `RestartExcluded` says that two
  sections under *different* mutexes exclude each other, because the first start and the last
  stop are only reached when nobody is started.
* `StampsFollowDMA`, `StampsForward`: `StampsFollowRing` and `StampsMonotonic`, from
  **ClockInv** on top of IOInv, for every ring, latency and session. Two facts carry it.
  Without an outage the host time of a ring lies within a call of the DMA's frame 0, because an
  eighth of the way from one such time to another is again one (`CleanKept`). With outages
  each is a phantom wrap and the clock runs ahead, but by seven rings at most (`LeadKept`): at
  a lead of eight predicted rings the eighth taken back is a whole one, so the next stamp would
  stand still and never go back. The only assumption is `MaxPoll < Ring`, as for the HAL's
  cycle.
* `ListsAreOfOneMoment`: `ListsAreSnapshots` for any number of threads; the invariant says
  what each of the three looks has left behind. `ChangesAreKept`: `ChangesArePublished`; while
  the mutex is held the change is the holder's. `OneReference`: one reference on the name
  the box has, none on another.
* `SwitchesAlwaysAgree`: `SwitchesAgree`, class by class (`ClassAgrees`): each group of
  properties is read off the tables of sizes and of values, which overlay one another (`++`, the
  library's `@@` written out, of which the prover has no definition), and two lemmas say when a
  buffer of the size named takes the whole value. Of the state only the flag matters, and that
  it is a Boolean comes from the invariant of the lists.

The tools:

* `WritesFollowLooks`, `PrearmsBounded`, `WakeTypes`: `WritesWhileRunning`, `OnePrearmPerNotice`
  (which no run has) and the types of `AfgWake`, from **WakeInv**: a thread about to write
  has looked, and devices ran then or stopped since; pre-arms under way and made are at most
  the notifications of jack events delivered, however many one event brings.
* `RebuildsAreLeft`, `NobodyUnheard`, `FightEnds`: `RebuildProtected`, `ListensToAll` and
  `FightBounded`, for any set of engines, settle time, window, limit and delay, from **RateInv**:
  a rebuild under way has been heard of, or a notification at least as old as it is coming; a
  set of engines the tool does not listen to has one coming too; and the recent corrections are
  those since the window began, which the count has counted, and at most a limit of older ones,
  because a count above the limit makes the tool wait until all of them are old. The
  assumptions are those of the code's constants: a rebuild is shorter than the settle time, and
  the window no longer than the backoff (60 s both).

Each inductive invariant was checked with TLC, as an INVARIANT of its module's run, before it
was proved.

Every safety property the passing runs check, invariant or action property, is stated by one of
these theorems. Only model-checked are the liveness properties (`RecoveryTerminates`,
`DemandServed`, `SessionRestored`, `StopEnds`, `HeldRateCorrected`, `RunningIsWoken`): fairness and
ENABLED are out of the prover's reach.

## Not modelled

* The playback path, the I2C bus and the RT5682 codec: the wrappers return
  `kIOReturnUnsupported` and `i2cBase` stays null, so the code never runs.
* Clamshell and fast mute: flags and outputs no other part reads back.
* Register contents, IPC payloads, `tplg_ipc_data.h`, published counters, logs.
* Scripts and makefiles: one-shot, no state.
* The user client's position reads, its stubbed playback methods and the retain of a mapped
  buffer. Its `device` pointer is never cleared; `Teardown` takes it to be stopped before the
  driver, as IOKit does with clients.
* Of the plug-in: `PerformDeviceConfigurationChange`, which nothing requests; `WriteMix`, which
  `WillDoIOOperation` refuses; the conversion in `ReadInput`, its own DC filter and gain (the
  input mute is never applied there), stream formats and string contents. `Identify` only
  schedules a notification, and the data source has one item and never changes.
* A DMA that restarts under a running engine (a rebuild) is an outage in `WrapClock` and not a
  step of `DCFilter`, whose frames are those of one DMA.
* `latsof-setrate`: the one-shot mode, which writes once and exits; and a device that
  appears between `watch_devices` and the registration of the device-list listener in
  `main`, which nobody listens to until the next change (`Launch` is one action).
* `latsof-afgwake`: `--once` and `--status`, which look once and exit; connections leaked when
  one thread's new connection replaces another's.
* A foreign stream's status bit cleared during bring-up, and the BIOS workarounds in
  `initDSP`: single register writes with nothing in the driver that depends on them.

## Plan

Done: the core, its liveness, budget and proofs; the components inside its
atomic actions (`BorrowedStream`, `AfgKeepAlive`, `WrapClock`); `Teardown`, `DCFilter`, both
halves of the plug-in, `SetRate` and `AfgWake`. Left:

1. The plug-in composed with the core: `SharedCapture` put in place of the core's user client
   calls, so that a stop by one kind of client under the other is seen from the plug-in.
