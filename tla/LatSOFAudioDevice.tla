------------------------- MODULE LatSOFAudioDevice -------------------------
(***************************************************************************)
(* The gated state machine of the kext: which latches, budgets and stream  *)
(* bits kext/LatSOFAudio/LatSOFAudioDevice.cpp keeps, and how the capture  *)
(* calls, the 500 ms jackPoll tick and the power callbacks move them.      *)
(*                                                                         *)
(* Every driver entry point runs under the command gate, so each is one    *)
(* action.  The tick is three (retry round, re-arm, resume executor) with  *)
(* `gate' held in between: nothing gated can run there, but AppleHDA, the  *)
(* PCI power state and IOAudioFamily's private thread can.                 *)
(*                                                                         *)
(* Definitions marked "Mutant" are wrong on purpose: each is a bug this     *)
(* code had or could have, and no action of the specification uses them.   *)
(*                                                                         *)
(* External parts (AppleHDA's output descriptor, the system's sleep        *)
(* sequence, IOAudioFamily's engine states, the user clients) are modelled *)
(* from how this code uses them.                                           *)
(***************************************************************************)
EXTENDS Naturals

CONSTANTS
  MaxTries,                \* init attempts of one retry round (12)
  TickDivide,              \* ticks per retry attempt (3)
  kProgrammedWaitRounds,   \* patience with a programmed descriptor (20)
  MaxEpisodes,             \* recovery episodes before giving up (3)
  kEngineResumeMaxTries,   \* failed engine restarts before giving up (3)
  MaxClients,              \* bound: clients of the kernel audio engine
  MaxPause,                \* bound: nesting of the family's engine pauses
  gStrictBorrow,           \* boot-arg latsof_strictborrow
  UserClient,              \* a UserClient client (the HAL plugin) exists
  RemapMayFail,            \* mapping the BARs can fail on a wake
  AbortAfterPowerDown,     \* a sleep can be undone before the controller's D3
  LateDemand               \* clients still call while the device is powered down

ASSUME BudgetAssumption ==
  /\ MaxTries \in Nat \ {0}
  /\ TickDivide \in Nat \ {0}
  /\ kProgrammedWaitRounds \in Nat
  /\ MaxEpisodes \in Nat \ {0}
  /\ kEngineResumeMaxTries \in Nat \ {0}
ASSUME BoundAssumption == MaxClients \in Nat /\ MaxPause \in Nat \ {0}
ASSUME FlagAssumption ==
  /\ gStrictBorrow \in BOOLEAN /\ UserClient \in BOOLEAN
  /\ RemapMayFail \in BOOLEAN /\ AbortAfterPowerDown \in BOOLEAN
  /\ LateDemand \in BOOLEAN

VARIABLES
  \* driver: DSP state and the capture stream's own bits (SDCTL.RUN, PPCTL)
  hwReady, isCapturing, sdRun, decoupled,
  \* driver: the rebuild retry engine
  gWakeReinitPending, gWakeTries, gWakeTickDivider, gProgrammedWaits,
  gHotRecovery, gRecoveryEpisodes,
  \* driver: the demand latch and the engine-resume latch
  gWasCapturing, gEngineResumePending, gEngineResumeTries,
  \* driver: power latches, BAR mappings, the published Status, load outcome
  gSleepImminent, gSleptOnce, mapped, status, phase,
  gate,          \* who holds the command gate between two steps of a tick
  \* hardware and system
  dspUp,         \* firmware is loaded and has not lost power since
  decoding,      \* the controller answers memory cycles
  sd7,           \* AppleHDA's output descriptor
  sys,           \* system sleep sequence as this device sees it
  \* IOAudioFamily's engine
  engState, pauseLevel, clients, famAsleep, famStep,
  ucAsked        \* a user client asked for capture since the last stop

retryVars  == <<gWakeReinitPending, gWakeTries, gWakeTickDivider,
                gProgrammedWaits, gHotRecovery>>
streamVars == <<isCapturing, sdRun, decoupled>>
demandVars == <<gWasCapturing, ucAsked>>
resumeVars == <<gEngineResumePending, gEngineResumeTries>>
powerVars  == <<gSleepImminent, gSleptOnce, mapped, sys>>
engineVars == <<engState, pauseLevel, clients, famAsleep, famStep>>
hwVars     == <<dspUp, decoding, sd7>>
captureVars == <<hwReady, retryVars, gRecoveryEpisodes, streamVars>>
progressVars == <<status, phase, gate>>
vars == <<captureVars, demandVars, resumeVars, powerVars, engineVars, hwVars,
          progressVars>>

Sd7States == {"clean", "programmed", "running"}
EngineStates == {"Stopped", "Running", "Paused", "Resumed"}

CaptureTypes ==
  /\ hwReady \in BOOLEAN /\ isCapturing \in BOOLEAN
  /\ sdRun \in BOOLEAN /\ decoupled \in BOOLEAN
  /\ gWakeReinitPending \in BOOLEAN
  /\ gWakeTries \in 0 .. MaxTries
  /\ gWakeTickDivider \in 0 .. TickDivide - 1
  /\ gProgrammedWaits \in 0 .. kProgrammedWaitRounds + 1
  /\ gHotRecovery \in BOOLEAN
  /\ gRecoveryEpisodes \in 0 .. MaxEpisodes + 1

DemandTypes == gWasCapturing \in BOOLEAN /\ ucAsked \in BOOLEAN

ResumeTypes ==
  /\ gEngineResumePending \in BOOLEAN
  /\ gEngineResumeTries \in 0 .. kEngineResumeMaxTries

PowerTypes ==
  /\ gSleepImminent \in BOOLEAN /\ gSleptOnce \in BOOLEAN /\ mapped \in BOOLEAN
  /\ sys \in {"on", "willSleep", "down", "off"}

\* A paused engine has a pause to drain.
EngineTypes ==
  /\ engState \in EngineStates /\ pauseLevel \in 0 .. MaxPause
  /\ engState = "Paused" => pauseLevel > 0
  /\ clients \in 0 .. MaxClients /\ famAsleep \in BOOLEAN
  /\ famStep \in {"idle", "pausing", "flip", "resumed"}

HwTypes == dspUp \in BOOLEAN /\ decoding \in BOOLEAN /\ sd7 \in Sd7States

ProgressTypes ==
  /\ status \in {"none", "OK", "deferred", "FAILED"}
  /\ phase \in {"unloaded", "deferred", "loaded", "failed"}
  /\ gate \in {"free", "rearm", "executor"}

TypeOK ==
  /\ CaptureTypes /\ DemandTypes /\ ResumeTypes /\ PowerTypes
  /\ EngineTypes /\ HwTypes /\ ProgressTypes

Init ==
  /\ phase = "unloaded" /\ gate = "free" /\ status = "none"
  /\ hwReady = FALSE /\ isCapturing = FALSE /\ sdRun = FALSE /\ decoupled = FALSE
  /\ gWakeReinitPending = FALSE /\ gWakeTries = 0 /\ gWakeTickDivider = 0
  /\ gProgrammedWaits = 0 /\ gHotRecovery = FALSE /\ gRecoveryEpisodes = 0
  /\ gWasCapturing = FALSE /\ ucAsked = FALSE
  /\ gEngineResumePending = FALSE /\ gEngineResumeTries = 0
  /\ gSleepImminent = FALSE /\ gSleptOnce = FALSE /\ mapped = TRUE /\ sys = "on"
  /\ dspUp = FALSE /\ decoding \in BOOLEAN /\ sd7 \in Sd7States
  /\ engState = "Stopped" /\ pauseLevel = 0 /\ clients = 0
  /\ famAsleep = FALSE /\ famStep = "idle"

-----------------------------------------------------------------------------
(* The rebuild retry engine's bookkeeping.                                 *)

Loaded == phase \in {"deferred", "loaded"}
GateFree == Loaded /\ gate = "free"

\* Mutant: the cap is off by one.
CountToOverrun(limit, n) == IF n <= limit THEN n + 1 ELSE limit

\* Counters the code only compares with a threshold stop counting above it.
CountTo(limit, n) == IF n < limit THEN n + 1 ELSE limit

\* A new retry round: pending, with its budget, divider and patience refilled.
ScheduleRebuild(hot) ==
  /\ gWakeReinitPending' = TRUE
  /\ gWakeTries' = 0 /\ gWakeTickDivider' = 0 /\ gProgrammedWaits' = 0
  /\ gHotRecovery' = hot

\* Mutant: recovery without the episode limit.
ScheduleDspRecoveryForever ==
  IF ~mapped
  THEN UNCHANGED <<hwReady, retryVars, gRecoveryEpisodes>>
  ELSE /\ gRecoveryEpisodes' = CountTo(MaxEpisodes + 1, gRecoveryEpisodes)
       /\ hwReady' = FALSE /\ ScheduleRebuild(TRUE)

(* scheduleDspRecovery: a capture IPC timed out, so the DSP is declared    *)
(* dead and a rebuild scheduled, at most MaxEpisodes times in a row.       *)
ScheduleDspRecovery ==
  LET next == CountTo(MaxEpisodes + 1, gRecoveryEpisodes) IN
  IF ~mapped
  THEN UNCHANGED <<hwReady, retryVars, gRecoveryEpisodes>>
  ELSE /\ gRecoveryEpisodes' = next
       /\ IF next > MaxEpisodes
          THEN UNCHANGED <<hwReady, retryVars>>
          ELSE hwReady' = FALSE /\ ScheduleRebuild(TRUE)

\* Rebuilds out of live audio wait for a clean descriptor whatever the boot-arg.
PatienceApplies == gStrictBorrow \/ gHotRecovery

\* Mutant: only RUN is looked at before the borrow.
BailsOnlyOnRun(s, waits) == s = "running"

\* The last look before the borrow: a descriptor in use is not taken.
BailsBeforeBorrow(s, waits) ==
  \/ s = "running"
  \/ s = "programmed" /\ PatienceApplies /\ waits <= kProgrammedWaitRounds

\* Mutant: the ready flag is raised before the firmware has answered.
InitDSPReadyEarly(out, waits) ==
  /\ sd7' \in Sd7States
  /\ out = "bail" => decoding /\ BailsBeforeBorrow(sd7', waits)
  /\ out = "ok"   => decoding /\ ~BailsBeforeBorrow(sd7', waits)
  /\ hwReady' = TRUE /\ isCapturing' = FALSE /\ dspUp' = (out = "ok")
  /\ phase' = "loaded"
  /\ UNCHANGED <<sdRun, decoupled, decoding>>

(* initDSP as seen by its callers: "ok", "bail" (AppleHDA took the output  *)
(* between preflight and borrow), or "fail" (any timeout or load error).   *)
(* sd7' is the descriptor at the borrow: AppleHDA runs freely in the time   *)
(* the controller is brought up, and after the load.                       *)
InitDSP(out, waits) ==
  /\ sd7' \in Sd7States
  /\ out = "bail" => decoding /\ BailsBeforeBorrow(sd7', waits)
  /\ out = "ok"   => decoding /\ ~BailsBeforeBorrow(sd7', waits)
  /\ IF out = "ok"
     THEN /\ hwReady' = TRUE /\ isCapturing' = FALSE /\ dspUp' = TRUE
          /\ phase' = "loaded"
     ELSE UNCHANGED <<hwReady, isCapturing, dspUp>>
  /\ UNCHANGED <<sdRun, decoupled, decoding>>

-----------------------------------------------------------------------------
(* Loading: start() either defers the DSP init to the retry engine, runs   *)
(* it, or fails.                                                           *)

StartDeferred ==
  /\ decoding
  /\ sd7 = "running" \/ (sd7 = "programmed" /\ gStrictBorrow)
  /\ ScheduleRebuild(TRUE)
  /\ phase' = "deferred" /\ status' = "deferred"
  /\ UNCHANGED <<hwReady, streamVars, gRecoveryEpisodes, hwVars>>

StartInit(out) ==
  /\ ~(decoding /\ (sd7 = "running" \/ (sd7 = "programmed" /\ gStrictBorrow)))
  /\ InitDSP(out, gProgrammedWaits)
  /\ CASE out = "ok"   -> status' = "OK" /\ UNCHANGED retryVars
       [] out = "bail" -> /\ phase' = "deferred" /\ status' = "deferred"
                          /\ ScheduleRebuild(gHotRecovery)
       [] out = "fail" -> /\ phase' = "failed" /\ status' = "FAILED"
                          /\ UNCHANGED retryVars
  /\ UNCHANGED gRecoveryEpisodes

Start ==
  /\ phase = "unloaded"
  /\ StartDeferred \/ \E out \in {"ok", "bail", "fail"} : StartInit(out)
  /\ UNCHANGED <<demandVars, resumeVars, powerVars, engineVars, gate>>

-----------------------------------------------------------------------------
(* The gated capture calls.                                                *)

\* Mutant: every refused call refills the budgets, also of a round under way.
CaptureRefusedRefills ==
  /\ ~hwReady
  /\ IF mapped
     THEN ScheduleRebuild(TRUE) /\ gRecoveryEpisodes' = 0
     ELSE UNCHANGED <<retryVars, gRecoveryEpisodes>>
  /\ UNCHANGED <<hwReady, streamVars>>

\* startCaptureGated while the DSP is down: refused, and the demand buys a
\* fresh retry round when the engine had stopped trying.
CaptureRefused ==
  /\ ~hwReady
  /\ IF ~gWakeReinitPending /\ mapped
     THEN ScheduleRebuild(TRUE) /\ gRecoveryEpisodes' = 0
     ELSE UNCHANGED <<retryVars, gRecoveryEpisodes>>
  /\ UNCHANGED <<hwReady, streamVars>>

CaptureAlreadyRunning ==
  /\ hwReady /\ isCapturing
  /\ UNCHANGED captureVars

CaptureStarted ==
  /\ hwReady /\ ~isCapturing
  /\ isCapturing' = TRUE /\ sdRun' = TRUE /\ decoupled' = TRUE
  /\ gRecoveryEpisodes' = 0
  /\ UNCHANGED <<hwReady, retryVars>>

\* PCM_PARAMS times out: the stream was reset and decoupled, RUN not yet set.
ParamsTimeout ==
  /\ hwReady /\ ~isCapturing
  /\ sdRun' = FALSE /\ decoupled' = FALSE
  /\ ScheduleDspRecovery
  /\ UNCHANGED isCapturing

\* Mutant: the stream is left running when TRIG_START times out.
TriggerTimeoutKeepsRun ==
  /\ hwReady /\ ~isCapturing
  /\ sdRun' = TRUE /\ decoupled' = TRUE
  /\ ScheduleDspRecovery
  /\ UNCHANGED isCapturing

\* TRIG_START times out with RUN already set: stop the stream again.
TriggerTimeout ==
  /\ hwReady /\ ~isCapturing
  /\ sdRun' = FALSE /\ decoupled' = FALSE
  /\ ScheduleDspRecovery
  /\ UNCHANGED isCapturing

CaptureResults == {"Success", "NotReady", "Timeout"}

\* Mutant: a refused start may be reported as a success.
StartCaptureGatedLies(ret) ==
  \/ ret \in {"NotReady", "Success"} /\ CaptureRefused
  \/ ret = "Success"  /\ (CaptureAlreadyRunning \/ CaptureStarted)
  \/ ret = "Timeout"  /\ (ParamsTimeout \/ TriggerTimeout)

(* startCaptureGated; its callers say what becomes of gWasCapturing, which *)
(* it sets on every failure.                                               *)
StartCaptureGated(ret) ==
  \/ ret = "NotReady" /\ CaptureRefused
  \/ ret = "Success"  /\ (CaptureAlreadyRunning \/ CaptureStarted)
  \/ ret = "Timeout"  /\ (ParamsTimeout \/ TriggerTimeout)

(* stopCaptureGated: the demand latch goes whatever the DSP's state; a     *)
(* running stream is stopped, and a stop IPC that times out schedules a    *)
(* rebuild.                                                                *)
StopCaptureGated ==
  /\ gWasCapturing' = FALSE /\ ucAsked' = FALSE
  /\ IF ~isCapturing
     THEN UNCHANGED captureVars
     ELSE /\ isCapturing' = FALSE /\ sdRun' = FALSE /\ decoupled' = FALSE
          /\ \/ UNCHANGED <<hwReady, retryVars, gRecoveryEpisodes>>
             \/ ScheduleDspRecovery

\* Clients are quiet while the device is powered down, unless LateDemand.
ClientsMayCall == LateDemand \/ sys \in {"on", "willSleep"}

\* UserClient StartCapture: a refused or failed start leaves the demand latched.
UserStartCapture(ret) ==
  /\ GateFree /\ UserClient /\ ClientsMayCall
  /\ StartCaptureGated(ret)
  /\ gWasCapturing' = (gWasCapturing \/ ret # "Success")
  /\ ucAsked' = TRUE
  /\ UNCHANGED <<resumeVars, powerVars, engineVars, hwVars, status, phase, gate>>

\* UserClient StopCapture, and clientClose, which stops unconditionally.
UserStopCapture ==
  /\ GateFree /\ UserClient /\ ClientsMayCall
  /\ StopCaptureGated
  /\ UNCHANGED <<resumeVars, powerVars, engineVars, hwVars, status, phase, gate>>

-----------------------------------------------------------------------------
(* The tick: retry round, re-arm, resume executor.                         *)

RetryApplies == gWakeReinitPending /\ ~hwReady /\ mapped

\* Nothing to rebuild, or not this engine's turn yet (one attempt per divider).
RetryIdle ==
  /\ GateFree
  /\ IF RetryApplies
     THEN /\ gWakeTickDivider + 1 < TickDivide
          /\ gWakeTickDivider' = gWakeTickDivider + 1
     ELSE UNCHANGED gWakeTickDivider
  /\ gate' = "executor"
  /\ UNCHANGED <<gWakeReinitPending, gWakeTries, gProgrammedWaits, gHotRecovery,
                 gRecoveryEpisodes, hwReady, streamVars, demandVars, resumeVars,
                 powerVars, engineVars, hwVars, status, phase>>

\* The patience counter after this round's look at the descriptor.
WaitsAfterLook ==
  IF ~decoding \/ sd7 = "running" \/ ~PatienceApplies THEN gProgrammedWaits
  ELSE IF sd7 = "programmed"
       THEN CountTo(kProgrammedWaitRounds + 1, gProgrammedWaits)
       ELSE 0

OutputBusy ==
  \/ sd7 = "running"
  \/ sd7 = "programmed" /\ PatienceApplies /\ WaitsAfterLook <= kProgrammedWaitRounds

RetryDue == GateFree /\ RetryApplies /\ gWakeTickDivider + 1 >= TickDivide

\* Controller not decoding, or AppleHDA is using its output: waiting is free.
RetryDeferred ==
  /\ RetryDue /\ (~decoding \/ OutputBusy)
  /\ gWakeTickDivider' = 0 /\ gProgrammedWaits' = WaitsAfterLook
  /\ IF gWakeTries >= MaxTries
     THEN gWakeReinitPending' = FALSE /\ status' = "FAILED"
     ELSE UNCHANGED <<gWakeReinitPending, status>>
  /\ gate' = "executor"
  /\ UNCHANGED <<gWakeTries, gHotRecovery, gRecoveryEpisodes, hwReady, streamVars,
                 demandVars, resumeVars, powerVars, engineVars, hwVars, phase>>

\* Mutant: giving up leaves the last attempt's status standing.
AttemptFailedQuietly ==
  gWakeReinitPending' = (gWakeTries' < MaxTries) /\ status' = "deferred"

\* A failed attempt shrinks the budget until the engine gives up.
AttemptFailed ==
  /\ gWakeReinitPending' = (gWakeTries' < MaxTries)
  /\ status' = (IF gWakeTries' < MaxTries THEN "deferred" ELSE "FAILED")

\* Mutant: a rebuild does not look at the demand latch.
NeverRearm == "executor"

\* After a rebuild: a latched demand is re-armed before the executor runs.
AfterRebuild == IF gWasCapturing THEN "rearm" ELSE "executor"

\* One genuine attempt.
RetryAttempt(out) ==
  /\ RetryDue /\ decoding /\ ~OutputBusy
  /\ gWakeTickDivider' = 0 /\ gProgrammedWaits' = WaitsAfterLook
  /\ gWakeTries' = CountTo(MaxTries, gWakeTries)
  /\ InitDSP(out, WaitsAfterLook)
  /\ IF out = "ok"
     THEN gWakeReinitPending' = FALSE /\ status' = "OK" /\ gate' = AfterRebuild
     ELSE AttemptFailed /\ gate' = "executor" /\ UNCHANGED phase
  /\ UNCHANGED <<gHotRecovery, gRecoveryEpisodes, demandVars, resumeVars,
                 powerVars, engineVars>>

\* A rebuild succeeded with a demand latched: restart capture, and consume the
\* latch only if that worked.
RetryRearm(ret) ==
  /\ gate = "rearm"
  /\ StartCaptureGated(ret)
  /\ gWasCapturing' = (ret # "Success")
  /\ gate' = "executor"
  /\ UNCHANGED <<ucAsked, resumeVars, powerVars, engineVars, hwVars, status, phase>>

\* Mutant: the executor is not parked for a coming sleep.
ExecutorUnparked ==
  /\ gEngineResumePending /\ hwReady /\ ~gWakeReinitPending
  /\ ~famAsleep

\* The executor acts only on a rebuilt DSP and never across a sleep entry.
ExecutorApplies ==
  /\ gEngineResumePending /\ hwReady /\ ~gWakeReinitPending
  /\ ~gSleepImminent /\ ~famAsleep

ExecutorIdle ==
  /\ gate = "executor" /\ ~ExecutorApplies
  /\ gate' = "free"
  /\ UNCHANGED <<captureVars, demandVars, resumeVars, powerVars, engineVars,
                 hwVars, status, phase>>

\* completeDeferredResume finds the engine running, or nobody holding it.
ExecutorNothingToDo ==
  /\ gate = "executor" /\ ExecutorApplies
  /\ engState = "Running" \/ clients = 0
  /\ gEngineResumePending' = FALSE
  /\ gate' = "free"
  /\ UNCHANGED <<captureVars, demandVars, gEngineResumeTries, powerVars,
                 engineVars, hwVars, status, phase>>

\* Mutant: one failed try drops the latch.
CountResumeTryOnce(tries) ==
  /\ gEngineResumeTries' = CountTo(kEngineResumeMaxTries, tries)
  /\ gEngineResumePending' = FALSE

\* A failed try is counted; out of tries or of recovery episodes ends it.
CountResumeTry(tries) ==
  /\ gEngineResumeTries' = CountTo(kEngineResumeMaxTries, tries)
  /\ gEngineResumePending' = ~( \/ gEngineResumeTries' >= kEngineResumeMaxTries
                                \/ gRecoveryEpisodes' > MaxEpisodes )

\* Mutant: a failed engine start leaves the demand latched.
EngineStartKeepsLatch(ret) ==
  /\ StartCaptureGated(ret)
  /\ gWasCapturing' = (gWasCapturing \/ ret # "Success")
  /\ UNCHANGED ucAsked

(* performAudioEngineStart through engineStartCapture: a failed start must *)
(* not leave the demand latch armed.                                       *)
EngineStartCapture(ret) ==
  /\ StartCaptureGated(ret)
  /\ gWasCapturing' = (gWasCapturing /\ ret = "Success")
  /\ UNCHANGED ucAsked

\* completeDeferredResume on an engine that one resume makes startable.
ExecutorRestart(ret) ==
  /\ gate = "executor" /\ ExecutorApplies
  /\ clients > 0
  /\ engState \in {"Stopped", "Resumed"} \/ (engState = "Paused" /\ pauseLevel <= 1)
  /\ EngineStartCapture(ret)
  /\ pauseLevel' = 0
  /\ IF ret = "Success"
     THEN /\ engState' = "Running"
          /\ gEngineResumePending' = FALSE /\ UNCHANGED gEngineResumeTries
     ELSE /\ engState' = (IF engState = "Paused" THEN "Resumed" ELSE engState)
          /\ CountResumeTry(gEngineResumeTries)
  /\ gate' = "free"
  /\ UNCHANGED <<clients, famAsleep, famStep, powerVars, hwVars, status, phase>>

\* A nested pause: completeDeferredResume drains one level, startAudioEngine
\* another (through the override, which re-latches and refills the tries); not
\* Running yet, so the try counts as failed.
ExecutorDrainsPause ==
  /\ gate = "executor" /\ ExecutorApplies
  /\ clients > 0 /\ engState = "Paused" /\ pauseLevel > 1
  /\ pauseLevel' = pauseLevel - 2
  /\ engState' = (IF pauseLevel' = 0 THEN "Resumed" ELSE "Paused")
  /\ UNCHANGED <<captureVars, demandVars>>
  /\ CountResumeTry(0)
  /\ gate' = "free"
  /\ UNCHANGED <<clients, famAsleep, famStep, powerVars, hwVars, status, phase>>

-----------------------------------------------------------------------------
(* Power callbacks.                                                        *)

\* kIOMessageSystemWillSleep parks the executor.
WillSleep ==
  /\ GateFree /\ sys = "on"
  /\ sys' = "willSleep" /\ gSleepImminent' = TRUE
  /\ UNCHANGED <<captureVars, demandVars, resumeVars, gSleptOnce, mapped,
                 engineVars, hwVars, status, phase, gate>>

\* Mutant: an aborted sleep does not unpark the executor.
WakeNoticeRealWakesOnly ==
  /\ GateFree /\ gSleepImminent /\ sys = "off"
  /\ gSleepImminent' = FALSE
  /\ UNCHANGED <<captureVars, demandVars, resumeVars, gSleptOnce, mapped, sys,
                 engineVars, hwVars, status, phase, gate>>

\* WillPowerOn, HasPoweredOn or WillNotSleep: on every wake and every abort.
WakeNotice ==
  /\ GateFree /\ gSleepImminent /\ sys \in {"on", "off"}
  /\ gSleepImminent' = FALSE
  /\ UNCHANGED <<captureVars, demandVars, resumeVars, gSleptOnce, mapped, sys,
                 engineVars, hwVars, status, phase, gate>>

\* Mutant: the retry round survives the power-down.
PowerOffKeepsRound ==
  /\ GateFree /\ sys = "willSleep" /\ famAsleep /\ famStep = "idle"
  /\ sys' = "down" /\ gSleptOnce' = TRUE
  /\ gWasCapturing' = (gWasCapturing \/ isCapturing)
  /\ hwReady' = FALSE /\ isCapturing' = FALSE
  /\ UNCHANGED <<sdRun, decoupled, retryVars, gRecoveryEpisodes, ucAsked, resumeVars,
                 gSleepImminent, mapped, engineVars, hwVars, status, phase, gate>>

\* setPowerState(0): no MMIO; the stream's bits are left to the controller's D3.
\* The audio device is this driver's power child and has finished pausing.
PowerOff ==
  /\ GateFree /\ sys = "willSleep" /\ famAsleep /\ famStep = "idle"
  /\ sys' = "down"
  /\ gSleptOnce' = TRUE
  /\ gWakeReinitPending' = FALSE
  /\ gWasCapturing' = (gWasCapturing \/ isCapturing)
  /\ hwReady' = FALSE /\ isCapturing' = FALSE
  /\ UNCHANGED <<sdRun, decoupled, gWakeTries, gWakeTickDivider, gProgrammedWaits,
                 gHotRecovery, gRecoveryEpisodes, ucAsked, resumeVars,
                 gSleepImminent, mapped, engineVars, hwVars, status, phase, gate>>

\* A client holds a session the engine is not running (needsDeferredResume).
needsDeferredResume == clients > 0 /\ engState # "Running"

RemapFails ==
  /\ RemapMayFail
  /\ mapped' = FALSE
  /\ UNCHANGED <<retryVars, gRecoveryEpisodes, resumeVars>>

RemapSucceeds ==
  /\ mapped' = TRUE
  /\ ScheduleRebuild(FALSE) /\ gRecoveryEpisodes' = 0
  /\ gEngineResumeTries' = 0
  /\ gEngineResumePending' = (gEngineResumePending \/ needsDeferredResume)

\* setPowerState(1): remap the BARs and hand the rebuild to the retry engine.
PowerOn ==
  /\ GateFree
  /\ sys = "off" \/ (sys = "down" /\ AbortAfterPowerDown)
  /\ sys' = "on" /\ gSleepImminent' = FALSE
  /\ IF ~hwReady /\ gSleptOnce
     THEN RemapFails \/ RemapSucceeds
     ELSE UNCHANGED <<mapped, retryVars, gRecoveryEpisodes, resumeVars>>
  /\ UNCHANGED <<hwReady, streamVars, demandVars, gSleptOnce, engineVars,
                 hwVars, status, phase, gate>>

-----------------------------------------------------------------------------
(* External: the controller's power, AppleHDA and IOAudioFamily.           *)

\* The controller enters D3: firmware, stream bits and descriptors are gone.
ControllerD3 ==
  /\ sys = "down"
  /\ sys' = "off" /\ decoding' = FALSE /\ dspUp' = FALSE /\ sd7' = "clean"
  /\ sdRun' = FALSE /\ decoupled' = FALSE
  /\ UNCHANGED <<hwReady, isCapturing, retryVars, gRecoveryEpisodes, demandVars,
                 resumeVars, gSleepImminent, gSleptOnce, mapped, engineVars,
                 status, phase, gate>>

\* AppleHDA's wake path restores the function's memory decode.
ControllerD0 ==
  /\ Loaded /\ ~decoding /\ sys \in {"on", "off"}
  /\ decoding' = TRUE
  /\ UNCHANGED <<captureVars, demandVars, resumeVars, powerVars, engineVars,
                 dspUp, sd7, status, phase, gate>>

\* AppleHDA starts its output, stops it (it stays programmed) or tears it down.
Sd7Moves(s) ==
  CASE s = "clean"      -> {"running"}
    [] s = "running"    -> {"programmed"}
    [] s = "programmed" -> {"running", "clean"}

AppleHDAOutput ==
  /\ decoding
  /\ sd7' \in Sd7Moves(sd7)
  /\ UNCHANGED <<captureVars, demandVars, resumeVars, powerVars, engineVars,
                 dspUp, decoding, status, phase, gate>>

\* The sleep is given up before this device was powered down.
SleepAborted ==
  /\ Loaded /\ sys = "willSleep"
  /\ sys' = "on"
  /\ UNCHANGED <<captureVars, demandVars, resumeVars, gSleepImminent, gSleptOnce,
                 mapped, engineVars, hwVars, status, phase, gate>>

\* A client starts IO: the family starts a Stopped or Resumed engine, joins a
\* Running one, and only drains one level of a Paused one (which re-latches).
EngineClientStart(ret) ==
  /\ GateFree /\ ClientsMayCall /\ famStep = "idle" /\ clients < MaxClients
  /\ clients' = (IF ret = "Success" THEN clients + 1 ELSE clients)
  /\ \/ /\ engState \in {"Stopped", "Resumed"}
        /\ EngineStartCapture(ret)
        /\ engState' = (IF ret = "Success" THEN "Running" ELSE engState)
        /\ UNCHANGED <<pauseLevel, resumeVars>>
     \/ /\ engState = "Running" /\ ret = "Success"
        /\ UNCHANGED <<captureVars, demandVars, engState, pauseLevel, resumeVars>>
     \/ /\ engState = "Paused" /\ ret = "Success"
        /\ pauseLevel' = pauseLevel - 1
        /\ engState' = (IF pauseLevel = 1 THEN "Resumed" ELSE "Paused")
        /\ gEngineResumePending' = TRUE /\ gEngineResumeTries' = 0
        /\ UNCHANGED <<captureVars, demandVars>>
  /\ UNCHANGED <<famAsleep, famStep, powerVars, hwVars, status, phase, gate>>

\* A client stops IO; the last one stops the engine, and only a Running engine
\* is told (performAudioEngineStop).
EngineClientStop ==
  /\ GateFree /\ ClientsMayCall /\ famStep = "idle" /\ clients > 0
  /\ clients' = clients - 1
  /\ IF clients = 1
     THEN /\ IF engState = "Running"
             THEN engState' = "Stopped" /\ StopCaptureGated
             ELSE /\ engState' \in {engState, "Stopped"}
                  /\ UNCHANGED <<captureVars, demandVars>>
          /\ pauseLevel' = (IF engState' = "Stopped" THEN 0 ELSE pauseLevel)
     ELSE UNCHANGED <<engState, pauseLevel, captureVars, demandVars>>
  /\ UNCHANGED <<famAsleep, famStep, resumeVars, powerVars, hwVars, status, phase,
                 gate>>

\* The family's device PM, on its own thread, takes the audio device to sleep
\* and pauses a running engine: stop capture under our gate, then flip.
FamilySleep ==
  /\ Loaded /\ sys = "willSleep" /\ ~famAsleep /\ famStep = "idle"
  /\ famAsleep' = TRUE
  /\ famStep' = (IF engState = "Running" THEN "pausing" ELSE "idle")
  /\ UNCHANGED <<captureVars, demandVars, resumeVars, powerVars, engState,
                 pauseLevel, clients, hwVars, status, phase, gate>>

FamilyPauseStops ==
  /\ GateFree /\ famStep = "pausing"
  /\ StopCaptureGated
  /\ famStep' = "flip"
  /\ UNCHANGED <<resumeVars, powerVars, engState, pauseLevel, clients, famAsleep,
                 hwVars, status, phase, gate>>

FamilyPauseFlips ==
  /\ famStep = "flip"
  /\ engState' = "Paused" /\ pauseLevel' \in 1 .. MaxPause
  /\ famStep' = "idle"
  /\ UNCHANGED <<captureVars, demandVars, resumeVars, powerVars, clients,
                 famAsleep, hwVars, status, phase, gate>>

\* Awake again, it resumes a Paused engine by one level: a state flip, then the
\* override's gated latch.
FamilyWake ==
  /\ Loaded /\ sys = "on" /\ famAsleep /\ famStep = "idle"
  /\ famAsleep' = FALSE
  /\ IF engState = "Paused"
     THEN /\ pauseLevel' = pauseLevel - 1
          /\ engState' = (IF pauseLevel = 1 THEN "Resumed" ELSE "Paused")
          /\ famStep' = "resumed"
     ELSE UNCHANGED <<pauseLevel, engState, famStep>>
  /\ UNCHANGED <<captureVars, demandVars, resumeVars, powerVars, clients, hwVars,
                 status, phase, gate>>

EngineRequestResume ==
  /\ GateFree /\ famStep = "resumed"
  /\ gEngineResumePending' = TRUE /\ gEngineResumeTries' = 0
  /\ famStep' = "idle"
  /\ UNCHANGED <<captureVars, demandVars, powerVars, engState, pauseLevel, clients,
                 famAsleep, hwVars, status, phase, gate>>

-----------------------------------------------------------------------------
JackPoll ==
  \/ RetryIdle
  \/ RetryDeferred
  \/ \E out \in {"ok", "bail", "fail"} : RetryAttempt(out)
  \/ \E ret \in CaptureResults : RetryRearm(ret)
  \/ ExecutorIdle
  \/ ExecutorNothingToDo
  \/ \E ret \in CaptureResults : ExecutorRestart(ret)
  \/ ExecutorDrainsPause

UserCalls ==
  \/ \E ret \in CaptureResults : UserStartCapture(ret)
  \/ UserStopCapture

PowerCallbacks == WillSleep \/ WakeNotice \/ PowerOff \/ PowerOn

Platform == ControllerD3 \/ ControllerD0 \/ AppleHDAOutput \/ SleepAborted

Family ==
  \/ \E ret \in CaptureResults : EngineClientStart(ret)
  \/ EngineClientStop
  \/ FamilySleep \/ FamilyPauseStops \/ FamilyPauseFlips
  \/ FamilyWake \/ EngineRequestResume

Next == Start \/ JackPoll \/ UserCalls \/ PowerCallbacks \/ Platform \/ Family

Spec == Init /\ [][Next]_vars
-----------------------------------------------------------------------------
(* Properties.                                                             *)

Awake == sys \in {"on", "willSleep"}

\* Capture runs, or is latched to be restarted, only for somebody: a user client
\* that asked since the last stop, or an engine the family believes Running and
\* will therefore stop.  (ARCHITECTURE.md "Engine start must be atomic with the
\* demand latch": headless DMA.)
NoHeadlessCapture ==
  isCapturing \/ gWasCapturing => ucAsked \/ engState = "Running"

\* isCapturing agrees with the stream's RUN and PPCTL bits whenever the machine
\* is awake: every failing start and every stop puts both bits back.
CaptureMatchesStream ==
  /\ isCapturing => hwReady /\ sdRun /\ decoupled
  /\ Awake /\ ~isCapturing => ~sdRun /\ ~decoupled

\* While awake, a DSP the driver believes ready holds firmware loaded since the
\* controller last lost power, and its registers are mapped: no path skips the
\* rebuild that a real sleep requires.
ReadyMeansLoaded == Awake /\ hwReady => dspUp /\ mapped

\* setPowerState(0) cancels the retry round and nothing starts another before
\* the wake: the tick touches no register of a controller going to D3.
PoweredDownIsQuiet ==
  sys \in {"down", "off"} => ~hwReady /\ ~gWakeReinitPending

\* A latched demand is never forgotten: while awake, either capture runs, or a
\* rebuild is coming, or a budget of genuine attempts was spent.
DemandNotStranded ==
  gate = "free" /\ Awake /\ mapped /\ gWasCapturing /\ ~isCapturing =>
    \/ gWakeReinitPending
    \/ ~hwReady /\ gWakeTries >= MaxTries
    \/ gRecoveryEpisodes > MaxEpisodes

\* The resume latch of a parked session is dropped only when the session runs
\* again or the executor has spent its tries or the recovery episodes: no path
\* (a racing wake, a drained pause, a client leaving) loses it silently.
ResumeLatchSpent ==
  [][gEngineResumePending /\ ~gEngineResumePending' =>
       \/ ~needsDeferredResume'
       \/ gEngineResumeTries' >= kEngineResumeMaxTries
       \/ gRecoveryEpisodes' > MaxEpisodes]_vars

\* INSTALL.md: any Status beginning "deferred:" is in progress, never terminal.
StatusDeferredInProgress ==
  gate = "free" /\ Awake /\ status = "deferred" => gWakeReinitPending

\* An engine the family believes Running has capture, or a rebuild that will
\* restart it: nothing takes the stream from under a held session.
RunningEngineHasCapture ==
  gate = "free" /\ Awake /\ engState = "Running" /\ famStep # "flip" =>
    isCapturing \/ gWasCapturing

\* The resume executor starts no engine from WillSleep until the wake, although
\* it reads only its latch and the family's power state.
ExecutorParkedForSleep ==
  [][gate = "executor" /\ engState # "Running" /\ engState' = "Running"
       => sys = "on" /\ ~famAsleep]_vars

\* A load deferred because AppleHDA's output was live borrows a programmed
\* descriptor only after all its patience is spent, until a sleep resets the
\* policy.
LoadDeferralIsPatient ==
  [][phase = "deferred" /\ ~gSleptOnce /\ hwReady' /\ sd7' = "programmed"
       => gProgrammedWaits' > kProgrammedWaitRounds]_vars
=============================================================================
