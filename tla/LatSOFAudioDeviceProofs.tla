---------------------- MODULE LatSOFAudioDeviceProofs ----------------------
(***************************************************************************)
(* LatSOFAudioDevice for every value of its constants: type correctness;   *)
(* the safety invariants, from two inductive invariants, SessionInv (who   *)
(* holds capture), which needs nothing of the environment, and PowerInv    *)
(* (stream, firmware and retry round across a sleep), which needs clients  *)
(* that are quiet while this device is down, and for the stream's bits     *)
(* alone a sleep that is then carried through; and the refinement of       *)
(* RecoveryBudget.                                                         *)
(***************************************************************************)
EXTENDS LatSOFBudgetRefinement, TLAPS

USE BudgetAssumption, BoundAssumption, FlagAssumption

-----------------------------------------------------------------------------
(* Type correctness.                                                       *)

\* A capped counter stays within its cap.
LEMMA CountToBound ==
  ASSUME NEW limit \in Nat, NEW n \in 0 .. limit
  PROVE  CountTo(limit, n) \in 0 .. limit
BY DEF CountTo

\* Scheduling a rebuild round leaves its latches and counters in their types.
LEMMA ScheduleRebuildTypes ==
  ASSUME NEW hot \in BOOLEAN, ScheduleRebuild(hot)
  PROVE  /\ gWakeReinitPending' \in BOOLEAN
         /\ gWakeTries' \in 0 .. MaxTries
         /\ gWakeTickDivider' \in 0 .. TickDivide - 1
         /\ gProgrammedWaits' \in 0 .. kProgrammedWaitRounds + 1
         /\ gHotRecovery' \in BOOLEAN
BY DEF ScheduleRebuild

\* A recovery request, whether it schedules a rebuild or exhausts the episodes.
LEMMA RecoveryTypes ==
  ASSUME CaptureTypes, ScheduleDspRecovery,
         isCapturing' \in BOOLEAN, sdRun' \in BOOLEAN, decoupled' \in BOOLEAN
  PROVE  CaptureTypes'
<1>1. CountTo(MaxEpisodes + 1, gRecoveryEpisodes) \in 0 .. MaxEpisodes + 1
  BY CountToBound DEF CaptureTypes
<1>2. CASE ~mapped
  BY <1>2 DEF CaptureTypes, ScheduleDspRecovery, retryVars
<1>3. CASE mapped /\ CountTo(MaxEpisodes + 1, gRecoveryEpisodes) > MaxEpisodes
  BY <1>1, <1>3 DEF CaptureTypes, ScheduleDspRecovery, retryVars
<1>4. CASE mapped /\ ~(CountTo(MaxEpisodes + 1, gRecoveryEpisodes) > MaxEpisodes)
  <2>1. ScheduleRebuild(TRUE) /\ hwReady' = FALSE
    BY <1>4 DEF ScheduleDspRecovery
  <2>2. gRecoveryEpisodes' \in 0 .. MaxEpisodes + 1
    BY <1>1, <1>4 DEF ScheduleDspRecovery
  <2> QED BY <2>1, <2>2, ScheduleRebuildTypes DEF CaptureTypes
<1> QED BY <1>2, <1>3, <1>4

\* Every way through startCaptureGated keeps the types.
LEMMA StartCaptureTypes ==
  ASSUME CaptureTypes, NEW ret, StartCaptureGated(ret)
  PROVE  CaptureTypes'
<1>1. CASE CaptureRefused
  <2>1. UNCHANGED <<hwReady, isCapturing, sdRun, decoupled>>
    BY <1>1 DEF CaptureRefused, streamVars
  <2>2. CASE ScheduleRebuild(TRUE) /\ gRecoveryEpisodes' = 0
    <3>1. gRecoveryEpisodes' \in 0 .. MaxEpisodes + 1
      BY <2>2
    <3> QED BY <2>1, <2>2, <3>1, ScheduleRebuildTypes DEF CaptureTypes
  <2>3. CASE UNCHANGED <<retryVars, gRecoveryEpisodes>>
    BY <2>1, <2>3 DEF CaptureTypes, retryVars
  <2> QED BY <1>1, <2>2, <2>3 DEF CaptureRefused
<1>2. CASE CaptureAlreadyRunning
  BY <1>2 DEF CaptureAlreadyRunning, CaptureTypes, captureVars, retryVars, streamVars
<1>3. CASE CaptureStarted
  BY <1>3 DEF CaptureStarted, CaptureTypes, retryVars
<1>4. CASE ParamsTimeout \/ TriggerTimeout
  <2>1. ScheduleDspRecovery /\ isCapturing' \in BOOLEAN
    BY <1>4 DEF ParamsTimeout, TriggerTimeout, CaptureTypes
  <2>2. sdRun' \in BOOLEAN /\ decoupled' \in BOOLEAN
    BY <1>4 DEF ParamsTimeout, TriggerTimeout
  <2> QED BY <2>1, <2>2, RecoveryTypes
<1> QED BY <1>1, <1>2, <1>3, <1>4 DEF StartCaptureGated

\* Both returns of stopCaptureGated, the early one and the stop.
LEMMA StopCaptureTypes ==
  ASSUME CaptureTypes, StopCaptureGated
  PROVE  CaptureTypes' /\ gWasCapturing' \in BOOLEAN /\ ucAsked' \in BOOLEAN
<1>1. CASE UNCHANGED captureVars
  BY <1>1 DEF StopCaptureGated, CaptureTypes, captureVars, retryVars, streamVars
<1>2. CASE isCapturing
  <2>1. isCapturing' \in BOOLEAN /\ sdRun' \in BOOLEAN /\ decoupled' \in BOOLEAN
    BY <1>2 DEF StopCaptureGated
  <2>2. CASE UNCHANGED <<hwReady, retryVars, gRecoveryEpisodes>>
    BY <2>1, <2>2 DEF StopCaptureGated, CaptureTypes, retryVars
  <2>3. CASE ScheduleDspRecovery
    BY <2>1, <2>3, RecoveryTypes DEF StopCaptureGated
  <2> QED BY <1>2, <2>2, <2>3 DEF StopCaptureGated
<1> QED BY <1>1, <1>2 DEF StopCaptureGated, CaptureTypes

\* A group of variables that does not change keeps its types.
LEMMA Frame ==
  /\ CaptureTypes /\ UNCHANGED captureVars => CaptureTypes'
  /\ DemandTypes /\ UNCHANGED demandVars => DemandTypes'
  /\ ResumeTypes /\ UNCHANGED resumeVars => ResumeTypes'
  /\ PowerTypes /\ UNCHANGED powerVars => PowerTypes'
  /\ EngineTypes /\ UNCHANGED engineVars => EngineTypes'
  /\ HwTypes /\ UNCHANGED hwVars => HwTypes'
  /\ ProgressTypes /\ UNCHANGED <<status, phase, gate>> => ProgressTypes'
<1>1. CaptureTypes /\ UNCHANGED captureVars => CaptureTypes'
  BY DEF CaptureTypes, captureVars, retryVars, streamVars
<1>2. DemandTypes /\ UNCHANGED demandVars => DemandTypes'
  BY DEF DemandTypes, demandVars
<1>3. ResumeTypes /\ UNCHANGED resumeVars => ResumeTypes'
  BY DEF ResumeTypes, resumeVars
<1>4. PowerTypes /\ UNCHANGED powerVars => PowerTypes'
  BY DEF PowerTypes, powerVars
<1>5. EngineTypes /\ UNCHANGED engineVars => EngineTypes'
  BY DEF EngineTypes, engineVars
<1>6. HwTypes /\ UNCHANGED hwVars => HwTypes'
  BY DEF HwTypes, hwVars
<1>7. ProgressTypes /\ UNCHANGED <<status, phase, gate>> => ProgressTypes'
  BY DEF ProgressTypes
<1> QED BY <1>1, <1>2, <1>3, <1>4, <1>5, <1>6, <1>7

\* start(): the loaded, the deferred and the failed exit.
LEMMA StartTypes == ASSUME TypeOK, Start PROVE TypeOK'
<1>1. DemandTypes' /\ ResumeTypes' /\ PowerTypes' /\ EngineTypes'
  BY Frame DEF Start, TypeOK
<1>2. CASE StartDeferred
  <2>1. CaptureTypes'
    BY <1>2, ScheduleRebuildTypes
       DEF StartDeferred, TypeOK, CaptureTypes, streamVars
  <2>2. ProgressTypes'
    BY <1>2 DEF Start, StartDeferred, TypeOK, ProgressTypes
  <2>3. HwTypes'
    BY <1>2, Frame DEF StartDeferred, TypeOK
  <2> QED BY <1>1, <2>1, <2>2, <2>3 DEF TypeOK
<1>3. ASSUME NEW out \in {"ok", "bail", "fail"}, StartInit(out) PROVE TypeOK'
  <2>1. InitDSP(out, gProgrammedWaits) /\ UNCHANGED gRecoveryEpisodes
    BY <1>3 DEF StartInit
  <2>2. ScheduleRebuild(gHotRecovery) \/ UNCHANGED retryVars
    BY <1>3 DEF StartInit
  <2>3. /\ hwReady' \in BOOLEAN /\ isCapturing' \in BOOLEAN
        /\ UNCHANGED <<sdRun, decoupled>>
    BY <2>1 DEF InitDSP, TypeOK, CaptureTypes
  <2>4. ASSUME ScheduleRebuild(gHotRecovery) PROVE CaptureTypes'
    BY <2>1, <2>3, <2>4, ScheduleRebuildTypes DEF TypeOK, CaptureTypes
  <2>5. ASSUME UNCHANGED retryVars PROVE CaptureTypes'
    BY <2>1, <2>3, <2>5 DEF TypeOK, CaptureTypes, retryVars
  <2>6. HwTypes'
    BY <2>1 DEF InitDSP, TypeOK, HwTypes
  <2>7. ProgressTypes'
    BY <1>3, <2>1 DEF Start, StartInit, InitDSP, TypeOK, ProgressTypes
  <2> QED BY <1>1, <2>2, <2>4, <2>5, <2>6, <2>7 DEF TypeOK
<1> QED BY <1>2, <1>3 DEF Start

\* The user client's gated calls.
LEMMA UserTypes == ASSUME TypeOK, UserCalls PROVE TypeOK'
<1>1. ASSUME NEW ret \in CaptureResults, UserStartCapture(ret) PROVE TypeOK'
  <2>1. CaptureTypes'
    BY <1>1, StartCaptureTypes DEF UserStartCapture, TypeOK
  <2>2. DemandTypes'
    BY <1>1 DEF UserStartCapture, TypeOK, DemandTypes
  <2> QED BY <1>1, <2>1, <2>2, Frame DEF UserStartCapture, TypeOK
<1>2. CASE UserStopCapture
  BY <1>2, StopCaptureTypes, Frame DEF UserStopCapture, TypeOK, DemandTypes
<1> QED BY <1>1, <1>2 DEF UserCalls

\* The resume executor's bookkeeping.
LEMMA ResumeTryTypes ==
  ASSUME NEW tries \in 0 .. kEngineResumeMaxTries, CountResumeTry(tries)
  PROVE  ResumeTypes'
BY CountToBound DEF CountResumeTry, ResumeTypes

\* What the tick's steps write to the counters of the retry engine.
LEMMA RetryCounters ==
  ASSUME CaptureTypes
  PROVE  /\ WaitsAfterLook \in 0 .. kProgrammedWaitRounds + 1
         /\ CountTo(MaxTries, gWakeTries) \in 0 .. MaxTries
<1>1. CountTo(kProgrammedWaitRounds + 1, gProgrammedWaits)
        \in 0 .. kProgrammedWaitRounds + 1
  BY CountToBound DEF CaptureTypes
<1>2. CountTo(MaxTries, gWakeTries) \in 0 .. MaxTries
  BY CountToBound DEF CaptureTypes
<1> QED BY <1>1, <1>2 DEF WaitsAfterLook, CaptureTypes

\* The retry stage of the tick.
LEMMA RetryTypes ==
  ASSUME TypeOK,
         \/ RetryIdle \/ RetryDeferred
         \/ \E out \in {"ok", "bail", "fail"} : RetryAttempt(out)
         \/ \E ret \in CaptureResults : RetryRearm(ret)
  PROVE  TypeOK'
<1>1. CASE RetryIdle
  <2>1. gWakeTickDivider' \in 0 .. TickDivide - 1
    BY <1>1 DEF RetryIdle, TypeOK, CaptureTypes
  <2>2. CaptureTypes'
    BY <1>1, <2>1 DEF RetryIdle, TypeOK, CaptureTypes, streamVars
  <2>3. ProgressTypes'
    BY <1>1 DEF RetryIdle, TypeOK, ProgressTypes
  <2> QED BY <1>1, <2>2, <2>3, Frame DEF RetryIdle, TypeOK
<1>2. CASE RetryDeferred
  <2>1. /\ gWakeTickDivider' \in 0 .. TickDivide - 1
        /\ gProgrammedWaits' \in 0 .. kProgrammedWaitRounds + 1
    BY <1>2, RetryCounters DEF RetryDeferred, TypeOK
  <2>2. CaptureTypes'
    BY <1>2, <2>1 DEF RetryDeferred, TypeOK, CaptureTypes, streamVars
  <2>3. ProgressTypes'
    BY <1>2 DEF RetryDeferred, TypeOK, ProgressTypes
  <2> QED BY <1>2, <2>2, <2>3, Frame DEF RetryDeferred, TypeOK
<1>3. ASSUME NEW out \in {"ok", "bail", "fail"}, RetryAttempt(out) PROVE TypeOK'
  <2>1. /\ gWakeTickDivider' \in 0 .. TickDivide - 1
        /\ gProgrammedWaits' \in 0 .. kProgrammedWaitRounds + 1
        /\ gWakeTries' \in 0 .. MaxTries
    BY <1>3, RetryCounters DEF RetryAttempt, TypeOK
  <2>2. InitDSP(out, WaitsAfterLook)
    BY <1>3 DEF RetryAttempt
  <2>3. gWakeReinitPending' \in BOOLEAN
    <3>1. (gWakeTries' < MaxTries) \in BOOLEAN
      OBVIOUS
    <3> QED BY <1>3, <3>1 DEF RetryAttempt, AttemptFailed
  <2>4. CaptureTypes'
    BY <1>3, <2>1, <2>2, <2>3 DEF RetryAttempt, InitDSP, TypeOK, CaptureTypes
  <2>5. HwTypes'
    BY <2>2 DEF InitDSP, TypeOK, HwTypes
  <2>6. ProgressTypes'
    BY <1>3, <2>2
       DEF RetryAttempt, InitDSP, AttemptFailed, AfterRebuild, TypeOK, ProgressTypes
  <2> QED BY <1>3, <2>4, <2>5, <2>6, Frame DEF RetryAttempt, TypeOK
<1>4. ASSUME NEW ret \in CaptureResults, RetryRearm(ret) PROVE TypeOK'
  <2>1. CaptureTypes'
    BY <1>4, StartCaptureTypes DEF RetryRearm, TypeOK
  <2>2. DemandTypes' /\ ProgressTypes'
    BY <1>4 DEF RetryRearm, TypeOK, DemandTypes, ProgressTypes
  <2> QED BY <1>4, <2>1, <2>2, Frame DEF RetryRearm, TypeOK
<1> QED BY <1>1, <1>2, <1>3, <1>4

\* engineStartCapture: the capture call, and a boolean demand latch.
LEMMA EngineStartTypes ==
  ASSUME CaptureTypes, DemandTypes, NEW ret, EngineStartCapture(ret)
  PROVE  CaptureTypes' /\ DemandTypes'
BY StartCaptureTypes DEF EngineStartCapture, DemandTypes

\* The resume stage of the tick.
LEMMA ExecutorTypes ==
  ASSUME TypeOK,
         \/ ExecutorIdle \/ ExecutorNothingToDo \/ ExecutorDrainsPause
         \/ \E ret \in CaptureResults : ExecutorRestart(ret)
  PROVE  TypeOK'
<1>1. CASE ExecutorIdle
  <2>1. ProgressTypes'
    BY <1>1 DEF ExecutorIdle, TypeOK, ProgressTypes
  <2> QED BY <1>1, <2>1, Frame DEF ExecutorIdle, TypeOK
<1>2. CASE ExecutorNothingToDo
  <2>1. ProgressTypes' /\ ResumeTypes'
    BY <1>2 DEF ExecutorNothingToDo, TypeOK, ProgressTypes, ResumeTypes
  <2> QED BY <1>2, <2>1, Frame DEF ExecutorNothingToDo, TypeOK
<1>3. CASE ExecutorDrainsPause
  <2>1. CountResumeTry(0) /\ 0 \in 0 .. kEngineResumeMaxTries
    BY <1>3 DEF ExecutorDrainsPause
  <2>2. EngineTypes'
    BY <1>3 DEF ExecutorDrainsPause, TypeOK, EngineTypes, EngineStates
  <2>3. ProgressTypes'
    BY <1>3 DEF ExecutorDrainsPause, TypeOK, ProgressTypes
  <2> QED BY <1>3, <2>1, <2>2, <2>3, ResumeTryTypes, Frame
             DEF ExecutorDrainsPause, TypeOK
<1>4. ASSUME NEW ret \in CaptureResults, ExecutorRestart(ret) PROVE TypeOK'
  <2>1. CaptureTypes' /\ DemandTypes'
    BY <1>4, EngineStartTypes DEF ExecutorRestart, TypeOK
  <2>2. ResumeTypes'
    <3>1. CASE ret = "Success"
      BY <1>4, <3>1 DEF ExecutorRestart, TypeOK, ResumeTypes
    <3>2. CASE ret # "Success"
      BY <1>4, <3>2, ResumeTryTypes DEF ExecutorRestart, TypeOK, ResumeTypes
    <3> QED BY <3>1, <3>2
  <2>3. EngineTypes'
    BY <1>4 DEF ExecutorRestart, TypeOK, EngineTypes, EngineStates
  <2>4. ProgressTypes'
    BY <1>4 DEF ExecutorRestart, TypeOK, ProgressTypes
  <2> QED BY <1>4, <2>1, <2>2, <2>3, <2>4, Frame DEF ExecutorRestart, TypeOK
<1> QED BY <1>1, <1>2, <1>3, <1>4

\* The tick as a whole.
LEMMA TickTypes == ASSUME TypeOK, JackPoll PROVE TypeOK'
BY RetryTypes, ExecutorTypes DEF JackPoll

\* setPowerState and the system power interest handler.
LEMMA PowerCallbackTypes == ASSUME TypeOK, PowerCallbacks PROVE TypeOK'
<1>1. CASE WillSleep \/ WakeNotice
  <2>1. PowerTypes'
    BY <1>1 DEF WillSleep, WakeNotice, TypeOK, PowerTypes
  <2> QED BY <1>1, <2>1, Frame DEF WillSleep, WakeNotice, TypeOK
<1>2. CASE PowerOff
  <2>1. CaptureTypes' /\ DemandTypes'
    BY <1>2 DEF PowerOff, TypeOK, CaptureTypes, DemandTypes
  <2>2. PowerTypes'
    BY <1>2 DEF PowerOff, TypeOK, PowerTypes
  <2> QED BY <1>2, <2>1, <2>2, Frame DEF PowerOff, TypeOK
<1>3. CASE PowerOn
  <2>1. hwReady' \in BOOLEAN /\ UNCHANGED streamVars
    BY <1>3 DEF PowerOn, TypeOK, CaptureTypes
  <2>2. CASE RemapFails
    <3>1. CaptureTypes' /\ ResumeTypes'
      BY <2>1, <2>2 DEF RemapFails, TypeOK, CaptureTypes, ResumeTypes, retryVars,
                        resumeVars, streamVars
    <3>2. PowerTypes'
      BY <1>3, <2>2 DEF PowerOn, RemapFails, TypeOK, PowerTypes
    <3> QED BY <1>3, <3>1, <3>2, Frame DEF PowerOn, TypeOK
  <2>3. CASE RemapSucceeds
    <3>1. ScheduleRebuild(FALSE) /\ gRecoveryEpisodes' = 0
      BY <2>3 DEF RemapSucceeds
    <3>2. CaptureTypes'
      <4>1. gRecoveryEpisodes' \in 0 .. MaxEpisodes + 1
        BY <3>1
      <4> QED BY <2>1, <3>1, <4>1, ScheduleRebuildTypes DEF TypeOK, CaptureTypes,
                  streamVars
    <3>3. ResumeTypes'
      BY <2>3 DEF RemapSucceeds, TypeOK, ResumeTypes, needsDeferredResume
    <3>4. PowerTypes'
      BY <1>3, <2>3 DEF PowerOn, RemapSucceeds, TypeOK, PowerTypes
    <3> QED BY <1>3, <3>2, <3>3, <3>4, Frame DEF PowerOn, TypeOK
  <2>4. CASE UNCHANGED <<mapped, retryVars, gRecoveryEpisodes, resumeVars>>
    <3>1. CaptureTypes' /\ ResumeTypes'
      BY <2>1, <2>4 DEF TypeOK, CaptureTypes, ResumeTypes, retryVars, resumeVars,
                        streamVars
    <3>2. PowerTypes'
      BY <1>3, <2>4 DEF PowerOn, TypeOK, PowerTypes
    <3> QED BY <1>3, <3>1, <3>2, Frame DEF PowerOn, TypeOK
  <2> QED BY <1>3, <2>2, <2>3, <2>4 DEF PowerOn
<1> QED BY <1>1, <1>2, <1>3 DEF PowerCallbacks

\* The controller and AppleHDA's output stream.
LEMMA PlatformTypes == ASSUME TypeOK, Platform PROVE TypeOK'
<1>1. CASE ControllerD3
  <2>1. CaptureTypes'
    BY <1>1 DEF ControllerD3, TypeOK, CaptureTypes, retryVars
  <2>2. PowerTypes' /\ HwTypes'
    BY <1>1 DEF ControllerD3, TypeOK, PowerTypes, HwTypes, Sd7States
  <2> QED BY <1>1, <2>1, <2>2, Frame DEF ControllerD3, TypeOK
<1>2. CASE ControllerD0 \/ AppleHDAOutput
  <2>1. HwTypes'
    BY <1>2 DEF ControllerD0, AppleHDAOutput, Sd7Moves, TypeOK, HwTypes, Sd7States
  <2> QED BY <1>2, <2>1, Frame DEF ControllerD0, AppleHDAOutput, TypeOK
<1>3. CASE SleepAborted
  <2>1. PowerTypes'
    BY <1>3 DEF SleepAborted, TypeOK, PowerTypes
  <2> QED BY <1>3, <2>1, Frame DEF SleepAborted, TypeOK
<1> QED BY <1>1, <1>2, <1>3 DEF Platform

\* The engine's clients and IOAudioFamily's pauses and resumes.
LEMMA FamilyTypes == ASSUME TypeOK, Family PROVE TypeOK'
<1>1. ASSUME NEW ret \in CaptureResults, EngineClientStart(ret) PROVE TypeOK'
  <2>1. CaptureTypes' /\ DemandTypes'
    BY <1>1, EngineStartTypes, Frame DEF EngineClientStart, TypeOK
  <2>2. EngineTypes'
    BY <1>1 DEF EngineClientStart, TypeOK, EngineTypes, EngineStates
  <2>3. ResumeTypes'
    <3>1. CASE UNCHANGED resumeVars
      BY <3>1, Frame DEF TypeOK
    <3>2. CASE gEngineResumePending' = TRUE /\ gEngineResumeTries' = 0
      BY <3>2 DEF ResumeTypes
    <3> QED BY <1>1, <3>1, <3>2 DEF EngineClientStart
  <2> QED BY <1>1, <2>1, <2>2, <2>3, Frame DEF EngineClientStart, TypeOK
<1>2. CASE EngineClientStop
  <2>1. CaptureTypes' /\ DemandTypes'
    BY <1>2, StopCaptureTypes, Frame DEF EngineClientStop, TypeOK, DemandTypes
  <2>2. EngineTypes'
    BY <1>2 DEF EngineClientStop, TypeOK, EngineTypes, EngineStates
  <2> QED BY <1>2, <2>1, <2>2, Frame DEF EngineClientStop, TypeOK
<1>3. CASE FamilySleep \/ FamilyPauseFlips \/ FamilyWake
  <2>1. EngineTypes'
    <3>1. CASE FamilySleep
      BY <3>1 DEF FamilySleep, TypeOK, EngineTypes
    <3>2. CASE FamilyPauseFlips
      <4>1. pauseLevel' \in 0 .. MaxPause /\ pauseLevel' > 0
        <5>1. pauseLevel' \in 1 .. MaxPause
          BY <3>2 DEF FamilyPauseFlips
        <5> QED BY <5>1
      <4> QED BY <3>2, <4>1 DEF FamilyPauseFlips, TypeOK, EngineTypes, EngineStates
    <3>3. CASE FamilyWake
      <4>1. CASE engState = "Paused"
        <5>1. pauseLevel' \in 0 .. MaxPause /\ (pauseLevel = 1 \/ pauseLevel' > 0)
          BY <3>3, <4>1 DEF FamilyWake, TypeOK, EngineTypes
        <5> QED BY <3>3, <4>1, <5>1 DEF FamilyWake, TypeOK, EngineTypes, EngineStates
      <4>2. CASE engState # "Paused"
        BY <3>3, <4>2 DEF FamilyWake, TypeOK, EngineTypes
      <4> QED BY <4>1, <4>2
    <3> QED BY <1>3, <3>1, <3>2, <3>3
  <2> QED BY <1>3, <2>1, Frame DEF FamilySleep, FamilyPauseFlips, FamilyWake, TypeOK
<1>4. CASE FamilyPauseStops
  <2>1. CaptureTypes' /\ DemandTypes'
    BY <1>4, StopCaptureTypes DEF FamilyPauseStops, TypeOK, DemandTypes
  <2>2. EngineTypes'
    BY <1>4 DEF FamilyPauseStops, TypeOK, EngineTypes
  <2> QED BY <1>4, <2>1, <2>2, Frame DEF FamilyPauseStops, TypeOK
<1>5. CASE EngineRequestResume
  <2>1. ResumeTypes' /\ EngineTypes'
    BY <1>5 DEF EngineRequestResume, TypeOK, ResumeTypes, EngineTypes
  <2> QED BY <1>5, <2>1, Frame DEF EngineRequestResume, TypeOK
<1> QED BY <1>1, <1>2, <1>3, <1>4, <1>5 DEF Family

\* Every reachable state is well typed; in particular no counter passes its
\* budget, whatever the budgets are.
THEOREM TypeCorrect == Spec => []TypeOK
<1>1. Init => TypeOK
  <2> SUFFICES ASSUME Init PROVE TypeOK
    OBVIOUS
  <2>1. /\ gWakeTries \in 0 .. MaxTries /\ gWakeTickDivider \in 0 .. TickDivide - 1
        /\ gProgrammedWaits \in 0 .. kProgrammedWaitRounds + 1
        /\ gRecoveryEpisodes \in 0 .. MaxEpisodes + 1
    BY DEF Init
  <2>2. CaptureTypes
    BY <2>1 DEF Init, CaptureTypes
  <2>3. gEngineResumeTries \in 0 .. kEngineResumeMaxTries
    BY DEF Init
  <2>4. DemandTypes /\ ResumeTypes /\ PowerTypes
    BY <2>3 DEF Init, DemandTypes, ResumeTypes, PowerTypes
  <2>5. pauseLevel \in 0 .. MaxPause /\ clients \in 0 .. MaxClients
    BY DEF Init
  <2>6. EngineTypes
    BY <2>5 DEF Init, EngineTypes, EngineStates
  <2>7. HwTypes /\ ProgressTypes
    BY DEF Init, HwTypes, ProgressTypes
  <2> QED BY <2>2, <2>4, <2>6, <2>7 DEF TypeOK
<1>2. TypeOK /\ [Next]_vars => TypeOK'
  <2>1. CASE UNCHANGED vars
    BY <2>1, Frame DEF vars, progressVars, TypeOK
  <2> QED BY <2>1, StartTypes, TickTypes, UserTypes, PowerCallbackTypes,
             PlatformTypes, FamilyTypes DEF Next
<1> QED BY <1>1, <1>2, PTL DEF Spec

-----------------------------------------------------------------------------
(* What the two gated capture calls do, whoever makes them.                *)

CaptureNeedsDsp == isCapturing => hwReady

RebuildDueOrSpent ==
  \/ gWakeReinitPending
  \/ ~hwReady /\ gWakeTries >= MaxTries
  \/ gRecoveryEpisodes > MaxEpisodes

\* A recovery request revives nothing, and leaves a rebuild coming or the episodes spent.
LEMMA RecoveryEffect ==
  ASSUME ScheduleDspRecovery
  PROVE  /\ hwReady' => hwReady
         /\ mapped => gWakeReinitPending' \/ gRecoveryEpisodes' > MaxEpisodes
BY DEF ScheduleDspRecovery, ScheduleRebuild

\* A start that fails leaves no capture and, if the BARs are mapped, a rebuild
\* coming or the recovery budget spent; one that succeeds leaves the stream
\* running on a ready DSP.
LEMMA StartEffect ==
  ASSUME CaptureNeedsDsp, NEW ret \in CaptureResults, StartCaptureGated(ret)
  PROVE  /\ hwReady' => hwReady
         /\ isCapturing' => hwReady'
         /\ ret = "Success" => hwReady /\ isCapturing'
         /\ ret # "Success" => ~isCapturing'
         /\ ret # "Success" /\ mapped =>
              gWakeReinitPending' \/ gRecoveryEpisodes' > MaxEpisodes
         /\ isCapturing' => \/ isCapturing /\ UNCHANGED streamVars
                            \/ sdRun' /\ decoupled'
         /\ ~isCapturing' => \/ UNCHANGED streamVars
                             \/ ~sdRun' /\ ~decoupled'
<1>1. CASE ret = "NotReady" /\ CaptureRefused
  BY <1>1 DEF CaptureRefused, ScheduleRebuild, CaptureNeedsDsp, streamVars, retryVars
<1>2. CASE ret = "Success" /\ CaptureAlreadyRunning
  BY <1>2 DEF CaptureAlreadyRunning, captureVars, streamVars
<1>3. CASE ret = "Success" /\ CaptureStarted
  BY <1>3 DEF CaptureStarted
<1>4. CASE ret = "Timeout" /\ (ParamsTimeout \/ TriggerTimeout)
  <2>1. ScheduleDspRecovery /\ ~isCapturing /\ UNCHANGED isCapturing
        /\ ~sdRun' /\ ~decoupled'
    BY <1>4 DEF ParamsTimeout, TriggerTimeout
  <2> QED BY <1>4, <2>1, RecoveryEffect
<1> QED BY <1>1, <1>2, <1>3, <1>4 DEF StartCaptureGated

\* A stop leaves no capture and no demand, and the stream stopped if it ran.
LEMMA StopEffect ==
  ASSUME StopCaptureGated
  PROVE  /\ ~isCapturing' /\ ~gWasCapturing' /\ ~ucAsked'
         /\ hwReady' => hwReady
         /\ isCapturing => ~sdRun' /\ ~decoupled'
         /\ ~isCapturing => UNCHANGED captureVars
<1>1. CASE ~isCapturing
  BY <1>1 DEF StopCaptureGated, captureVars, streamVars
<1>2. CASE isCapturing
  BY <1>2, RecoveryEffect DEF StopCaptureGated
<1> QED BY <1>1, <1>2

-----------------------------------------------------------------------------
(* Nobody's capture.                                                       *)

\* The family's pause holds the engine Running until it flips, and between its
\* stop and its flip only a user client can have asked again.
PauseInProgress ==
  /\ famStep \in {"pausing", "flip"} => famAsleep /\ engState = "Running"
  /\ famStep = "flip" /\ (isCapturing \/ gWasCapturing) => ucAsked

RearmHasDemand == gate = "rearm" => gWasCapturing

SessionInv ==
  NoHeadlessCapture /\ CaptureNeedsDsp /\ PauseInProgress /\ RearmHasDemand

\* A step that leaves capture, demand and the engine alone.
LEMMA SessionFrame ==
  ASSUME SessionInv, UNCHANGED <<hwReady, isCapturing, demandVars>>,
         gate' # "rearm" \/ UNCHANGED gate,
         UNCHANGED <<engState, famAsleep, famStep>>
  PROVE  SessionInv'
BY DEF SessionInv, NoHeadlessCapture, CaptureNeedsDsp, PauseInProgress,
       RearmHasDemand, demandVars

\* start() has no session yet.
LEMMA SessionStart == ASSUME SessionInv, Start PROVE SessionInv'
<1>1. CASE StartDeferred
  BY <1>1, SessionFrame DEF Start, StartDeferred, streamVars, engineVars
<1>2. ASSUME NEW out \in {"ok", "bail", "fail"}, StartInit(out) PROVE SessionInv'
  <2>1. InitDSP(out, gProgrammedWaits)
    BY <1>2 DEF StartInit
  <2>2. CASE UNCHANGED <<hwReady, isCapturing>>
    BY <2>2, SessionFrame DEF Start, engineVars
  <2>3. CASE isCapturing' = FALSE
    BY <2>3 DEF Start, SessionInv, NoHeadlessCapture, CaptureNeedsDsp,
                PauseInProgress, RearmHasDemand, demandVars, engineVars
  <2> QED BY <2>1, <2>2, <2>3 DEF InitDSP
<1> QED BY <1>1, <1>2 DEF Start

\* The tick restarts only what was asked for.
LEMMA SessionTick == ASSUME SessionInv, JackPoll PROVE SessionInv'
<1>1. CASE RetryIdle
  BY <1>1, SessionFrame DEF RetryIdle, streamVars, engineVars
<1>2. CASE RetryDeferred
  BY <1>2, SessionFrame DEF RetryDeferred, streamVars, engineVars
<1>3. ASSUME NEW out \in {"ok", "bail", "fail"}, RetryAttempt(out) PROVE SessionInv'
  <2>1. InitDSP(out, WaitsAfterLook) /\ UNCHANGED demandVars /\ UNCHANGED engineVars
    BY <1>3 DEF RetryAttempt
  <2>2. CASE out = "ok"
    <3>1. ~isCapturing'
      BY <2>1, <2>2 DEF InitDSP
    <3>2. gate' = "rearm" => gWasCapturing
      BY <1>3, <2>2 DEF RetryAttempt, AfterRebuild
    <3> QED BY <2>1, <3>1, <3>2
               DEF SessionInv, NoHeadlessCapture, CaptureNeedsDsp, PauseInProgress,
                   RearmHasDemand, demandVars, engineVars
  <2>3. CASE out # "ok"
    <3>1. UNCHANGED <<hwReady, isCapturing>> /\ gate' = "executor"
      BY <1>3, <2>1, <2>3 DEF RetryAttempt, InitDSP
    <3> QED BY <2>1, <3>1, SessionFrame DEF engineVars
  <2> QED BY <2>2, <2>3
<1>4. ASSUME NEW ret \in CaptureResults, RetryRearm(ret) PROVE SessionInv'
  <2>1. /\ StartCaptureGated(ret) /\ gate = "rearm" /\ gate' = "executor"
        /\ UNCHANGED <<ucAsked, engineVars>>
    BY <1>4 DEF RetryRearm
  <2>2. gWasCapturing
    BY <2>1 DEF SessionInv, RearmHasDemand
  <2> QED BY <2>1, <2>2, StartEffect
             DEF SessionInv, NoHeadlessCapture, CaptureNeedsDsp, PauseInProgress,
                 RearmHasDemand, engineVars
<1>5. CASE ExecutorIdle \/ ExecutorNothingToDo
  BY <1>5, SessionFrame
     DEF ExecutorIdle, ExecutorNothingToDo, captureVars, streamVars, engineVars
<1>6. CASE ExecutorDrainsPause
  BY <1>6 DEF ExecutorDrainsPause, captureVars, streamVars, demandVars, SessionInv,
              NoHeadlessCapture, CaptureNeedsDsp, PauseInProgress, RearmHasDemand
<1>7. ASSUME NEW ret \in CaptureResults, ExecutorRestart(ret) PROVE SessionInv'
  <2>1. /\ StartCaptureGated(ret) /\ UNCHANGED <<ucAsked, famAsleep, famStep>>
        /\ gWasCapturing' = (gWasCapturing /\ ret = "Success")
        /\ ~famAsleep /\ gate' = "free"
    BY <1>7 DEF ExecutorRestart, EngineStartCapture, ExecutorApplies
  <2>2. famStep \notin {"pausing", "flip"}
    BY <2>1 DEF SessionInv, PauseInProgress
  <2>3. ret = "Success" => engState' = "Running"
    BY <1>7 DEF ExecutorRestart
  <2> QED BY <2>1, <2>2, <2>3, StartEffect
             DEF SessionInv, NoHeadlessCapture, CaptureNeedsDsp, PauseInProgress,
                 RearmHasDemand
<1> QED BY <1>1, <1>2, <1>3, <1>4, <1>5, <1>6, <1>7 DEF JackPoll

\* A user client's calls record what it asked.
LEMMA SessionUser == ASSUME SessionInv, UserCalls PROVE SessionInv'
<1>1. ASSUME NEW ret \in CaptureResults, UserStartCapture(ret) PROVE SessionInv'
  <2>1. /\ StartCaptureGated(ret) /\ ucAsked' /\ gate = "free"
        /\ UNCHANGED <<engineVars, gate>>
    BY <1>1 DEF UserStartCapture, GateFree
  <2> QED BY <2>1, StartEffect
             DEF SessionInv, NoHeadlessCapture, CaptureNeedsDsp, PauseInProgress,
                 RearmHasDemand, engineVars
<1>2. CASE UserStopCapture
  <2>1. StopCaptureGated /\ gate = "free" /\ UNCHANGED <<engineVars, gate>>
    BY <1>2 DEF UserStopCapture, GateFree
  <2> QED BY <2>1, StopEffect
             DEF SessionInv, NoHeadlessCapture, CaptureNeedsDsp, PauseInProgress,
                 RearmHasDemand, engineVars
<1> QED BY <1>1, <1>2 DEF UserCalls

\* Sleep ends the capture; neither sleep nor wake restarts one.
LEMMA SessionPower ==
  ASSUME SessionInv, PowerCallbacks \/ Platform PROVE SessionInv'
<1>1. CASE WillSleep \/ WakeNotice
  BY <1>1, SessionFrame DEF WillSleep, WakeNotice, captureVars, streamVars, engineVars
<1>2. CASE PowerOff
  BY <1>2 DEF PowerOff, GateFree, SessionInv, NoHeadlessCapture, CaptureNeedsDsp,
              PauseInProgress, RearmHasDemand, engineVars
<1>3. CASE PowerOn
  BY <1>3, SessionFrame DEF PowerOn, streamVars, engineVars
<1>4. CASE ControllerD3
  BY <1>4, SessionFrame DEF ControllerD3, engineVars
<1>5. CASE ControllerD0 \/ AppleHDAOutput \/ SleepAborted
  BY <1>5, SessionFrame
     DEF ControllerD0, AppleHDAOutput, SleepAborted, captureVars, streamVars, engineVars
<1> QED BY <1>1, <1>2, <1>3, <1>4, <1>5 DEF PowerCallbacks, Platform

\* The engine's own starts, stops, pauses and resumes.
LEMMA SessionFamily == ASSUME SessionInv, Family PROVE SessionInv'
<1>1. ASSUME NEW ret \in CaptureResults, EngineClientStart(ret) PROVE SessionInv'
  <2>1. /\ gate = "free" /\ famStep = "idle" /\ UNCHANGED <<gate, famStep>>
    BY <1>1 DEF EngineClientStart, GateFree
  <2>2. CASE EngineStartCapture(ret) /\ engState' = (IF ret = "Success" THEN "Running"
                                                    ELSE engState)
    BY <2>1, <2>2, StartEffect
       DEF EngineStartCapture, SessionInv, NoHeadlessCapture, CaptureNeedsDsp,
           PauseInProgress, RearmHasDemand
  <2>3. CASE UNCHANGED <<captureVars, demandVars>> /\ (engState # "Running"
                                                       \/ UNCHANGED engState)
    BY <2>1, <2>3
       DEF SessionInv, NoHeadlessCapture, CaptureNeedsDsp, PauseInProgress,
           RearmHasDemand, captureVars, streamVars, demandVars
  <2> QED BY <1>1, <2>2, <2>3 DEF EngineClientStart
<1>2. CASE EngineClientStop
  <2>1. gate = "free" /\ famStep = "idle" /\ UNCHANGED <<gate, famStep>>
    BY <1>2 DEF EngineClientStop, GateFree
  <2>2. CASE StopCaptureGated
    BY <2>1, <2>2, StopEffect
       DEF SessionInv, NoHeadlessCapture, CaptureNeedsDsp, PauseInProgress,
           RearmHasDemand
  <2>3. CASE UNCHANGED <<captureVars, demandVars>> /\ (engState # "Running"
                                                       \/ UNCHANGED engState)
    BY <2>1, <2>3
       DEF SessionInv, NoHeadlessCapture, CaptureNeedsDsp, PauseInProgress,
           RearmHasDemand, captureVars, streamVars, demandVars
  <2> QED BY <1>2, <2>2, <2>3 DEF EngineClientStop
<1>3. CASE FamilySleep
  BY <1>3 DEF FamilySleep, SessionInv, NoHeadlessCapture, CaptureNeedsDsp,
              PauseInProgress, RearmHasDemand, captureVars, streamVars, demandVars
<1>4. CASE FamilyPauseStops
  BY <1>4, StopEffect
     DEF FamilyPauseStops, GateFree, SessionInv, NoHeadlessCapture, CaptureNeedsDsp,
         PauseInProgress, RearmHasDemand
<1>5. CASE FamilyPauseFlips
  BY <1>5 DEF FamilyPauseFlips, SessionInv, NoHeadlessCapture, CaptureNeedsDsp,
              PauseInProgress, RearmHasDemand, captureVars, streamVars, demandVars
<1>6. CASE FamilyWake
  BY <1>6 DEF FamilyWake, SessionInv, NoHeadlessCapture, CaptureNeedsDsp,
              PauseInProgress, RearmHasDemand, captureVars, streamVars, demandVars
<1>7. CASE EngineRequestResume
  BY <1>7 DEF EngineRequestResume, SessionInv, NoHeadlessCapture, CaptureNeedsDsp,
              PauseInProgress, RearmHasDemand, captureVars, streamVars, demandVars
<1> QED BY <1>1, <1>2, <1>3, <1>4, <1>5, <1>6, <1>7 DEF Family

\* Capture runs, or is latched to be restarted, only while a user client asked
\* for it or the family believes the engine Running: for every budget, every
\* number of clients and whatever the system does with a sleep.
THEOREM NoHeadless == Spec => []NoHeadlessCapture
<1>1. Init => SessionInv
  BY DEF Init, SessionInv, NoHeadlessCapture, CaptureNeedsDsp, PauseInProgress,
         RearmHasDemand
<1>2. SessionInv /\ [Next]_vars => SessionInv'
  <2>1. CASE UNCHANGED vars
    BY <2>1, SessionFrame DEF vars, progressVars, captureVars, streamVars, engineVars
  <2> QED BY <2>1, SessionStart, SessionTick, SessionUser, SessionPower,
             SessionFamily DEF Next
<1>3. SessionInv => NoHeadlessCapture
  BY DEF SessionInv
<1> QED BY <1>1, <1>2, <1>3, PTL DEF Spec

-----------------------------------------------------------------------------
(* Stream, firmware and retry round across a sleep.                        *)

\* No client calls this device from setPowerState(0) to the wake.
QuietClients == ~LateDemand

\* A sleep is, besides, carried through once this device is down.
QuietSleep == ~AbortAfterPowerDown /\ QuietClients

\* The stream's bits are gone with D3, which a sleep that is carried through has.
StreamKept ==
  ~AbortAfterPowerDown => /\ CaptureMatchesStream
                          /\ sys = "off" => ~sdRun /\ ~decoupled

\* Powered down there is nothing to tick.
PowerSequence ==
  /\ sys \in {"down", "off"} => famStep = "idle" /\ gate # "rearm" /\ gSleptOnce
  /\ sys = "willSleep" => gSleepImminent

BeforeLoad ==
  phase = "unloaded" => /\ sys = "on" /\ mapped /\ gate = "free"
                        /\ ~hwReady /\ ~gWasCapturing

DemandDue ==
  Awake /\ mapped /\ gWasCapturing /\ ~isCapturing /\ gate # "rearm" =>
    RebuildDueOrSpent

PowerInv ==
  /\ StreamKept /\ ReadyMeansLoaded /\ PoweredDownIsQuiet
  /\ PowerSequence /\ BeforeLoad /\ DemandDue /\ CaptureNeedsDsp

\* A step of an engine or of the tick that leaves capture, demand and power alone.
LEMMA PowerFrame ==
  ASSUME PowerInv, phase # "unloaded",
         UNCHANGED <<hwReady, streamVars, gWakeReinitPending, gWakeTries>>,
         UNCHANGED <<gRecoveryEpisodes, gWasCapturing, mapped, phase, sys>>,
         UNCHANGED <<gSleptOnce, dspUp>>,
         gSleepImminent' \/ sys # "willSleep",
         gate # "rearm", gate' # "rearm",
         famStep' = "idle" \/ sys \notin {"down", "off"}
  PROVE  PowerInv'
BY DEF PowerInv, StreamKept, CaptureMatchesStream, ReadyMeansLoaded,
       PoweredDownIsQuiet, PowerSequence, BeforeLoad, DemandDue, CaptureNeedsDsp,
       RebuildDueOrSpent, Awake, streamVars

\* A gated capture call on an awake device.
LEMMA PowerStartCapture ==
  ASSUME PowerInv, phase # "unloaded", Awake, NEW ret \in CaptureResults,
         StartCaptureGated(ret),
         UNCHANGED <<mapped, phase, sys, gSleepImminent, gSleptOnce, dspUp>>,
         gate' # "rearm"
  PROVE  PowerInv'
<1>1. CaptureNeedsDsp
  BY DEF PowerInv
<1>2. CaptureNeedsDsp' /\ (ReadyMeansLoaded /\ PoweredDownIsQuiet)'
  BY <1>1, StartEffect
     DEF PowerInv, CaptureNeedsDsp, ReadyMeansLoaded, PoweredDownIsQuiet, Awake
<1>3. StreamKept'
  BY <1>1, <1>2, StartEffect
     DEF PowerInv, StreamKept, CaptureMatchesStream, CaptureNeedsDsp, Awake,
         streamVars
<1>4. PowerSequence' /\ BeforeLoad'
  BY DEF PowerInv, PowerSequence, BeforeLoad, Awake
<1>5. DemandDue'
  BY <1>1, StartEffect DEF DemandDue, RebuildDueOrSpent
<1> QED BY <1>2, <1>3, <1>4, <1>5 DEF PowerInv

\* A stop keeps the power invariant while awake.
LEMMA PowerStopCapture ==
  ASSUME PowerInv, phase # "unloaded", Awake, StopCaptureGated,
         UNCHANGED <<mapped, phase, sys, gSleepImminent, gSleptOnce, dspUp>>,
         gate' # "rearm"
  PROVE  PowerInv'
<1>1. CaptureNeedsDsp' /\ (ReadyMeansLoaded /\ PoweredDownIsQuiet)'
  BY StopEffect
     DEF PowerInv, CaptureNeedsDsp, ReadyMeansLoaded, PoweredDownIsQuiet, Awake
<1>2. StreamKept'
  <2>1. CASE isCapturing
    BY <2>1, StopEffect DEF StreamKept, CaptureMatchesStream
  <2>2. CASE ~isCapturing
    BY <2>2, StopEffect DEF PowerInv, StreamKept, CaptureMatchesStream, Awake,
                            captureVars, streamVars
  <2> QED BY <2>1, <2>2
<1>3. PowerSequence' /\ BeforeLoad' /\ DemandDue'
  BY StopEffect DEF PowerInv, PowerSequence, BeforeLoad, DemandDue, Awake
<1> QED BY <1>1, <1>2, <1>3 DEF PowerInv

\* start() runs awake with the registers mapped.
LEMMA PowerStart == ASSUME PowerInv, Start PROVE PowerInv'
<1>1. /\ phase = "unloaded" /\ UNCHANGED <<gWasCapturing, gate, powerVars, famStep>>
  BY DEF Start, demandVars, engineVars
<1>2. /\ sys = "on" /\ mapped /\ gate = "free" /\ ~hwReady /\ ~gWasCapturing
      /\ ~isCapturing /\ (~AbortAfterPowerDown => ~sdRun /\ ~decoupled)
  BY <1>1 DEF PowerInv, BeforeLoad, CaptureNeedsDsp, StreamKept,
              CaptureMatchesStream, Awake
<1>3. CASE StartDeferred
  <2>1. UNCHANGED <<hwReady, streamVars>> /\ phase' # "unloaded"
    BY <1>3 DEF StartDeferred
  <2> QED BY <1>1, <1>2, <2>1
     DEF PowerInv, StreamKept, CaptureMatchesStream, ReadyMeansLoaded,
         PoweredDownIsQuiet, PowerSequence, BeforeLoad, DemandDue, CaptureNeedsDsp,
         RebuildDueOrSpent, Awake, streamVars, powerVars
<1>4. ASSUME NEW out \in {"ok", "bail", "fail"}, StartInit(out) PROVE PowerInv'
  <2>1. /\ hwReady' => dspUp'
        /\ ~isCapturing' /\ phase' # "unloaded"
        /\ ~AbortAfterPowerDown => ~sdRun' /\ ~decoupled'
    BY <1>2, <1>4 DEF StartInit, InitDSP
  <2> QED BY <1>1, <1>2, <2>1
     DEF PowerInv, StreamKept, CaptureMatchesStream, ReadyMeansLoaded,
         PoweredDownIsQuiet, PowerSequence, BeforeLoad, DemandDue, CaptureNeedsDsp,
         RebuildDueOrSpent, Awake, powerVars
<1> QED BY <1>3, <1>4 DEF Start

\* Not powered down, the device is awake.
LEMMA AwakeOrDown == TypeOK => Awake \/ sys \in {"down", "off"}
BY DEF TypeOK, PowerTypes, Awake

\* The tick: nothing is scheduled for it while powered down.
LEMMA PowerTick == ASSUME TypeOK, PowerInv, JackPoll PROVE PowerInv'
<1>0. phase # "unloaded"
  BY DEF JackPoll, RetryIdle, RetryDeferred, RetryAttempt, RetryDue, RetryRearm,
         ExecutorIdle, ExecutorNothingToDo, ExecutorRestart, ExecutorDrainsPause,
         GateFree, Loaded, PowerInv, BeforeLoad
<1>1. CASE RetryIdle
  BY <1>0, <1>1, PowerFrame
     DEF RetryIdle, GateFree, demandVars, powerVars, engineVars, hwVars, PowerInv,
         PowerSequence
<1>2. CASE RetryDeferred
  <2>1. /\ ~hwReady /\ mapped /\ gWakeReinitPending /\ gate = "free"
        /\ UNCHANGED <<hwReady, streamVars, gWakeTries, gRecoveryEpisodes>>
        /\ UNCHANGED <<gWasCapturing, powerVars, phase, famStep, dspUp>>
        /\ gWakeReinitPending' \/ gWakeTries >= MaxTries
        /\ gate' = "executor"
    BY <1>2 DEF RetryDeferred, RetryDue, GateFree, RetryApplies, demandVars,
                engineVars, hwVars
  <2> QED BY <1>0, <2>1
     DEF PowerInv, StreamKept, CaptureMatchesStream, ReadyMeansLoaded,
         PoweredDownIsQuiet, PowerSequence, BeforeLoad, DemandDue, CaptureNeedsDsp,
         RebuildDueOrSpent, Awake, streamVars, powerVars
<1>3. ASSUME NEW out \in {"ok", "bail", "fail"}, RetryAttempt(out) PROVE PowerInv'
  <2>1. /\ ~hwReady /\ mapped /\ gWakeReinitPending
        /\ InitDSP(out, WaitsAfterLook)
        /\ UNCHANGED <<gRecoveryEpisodes, gWasCapturing, powerVars, famStep>>
    BY <1>3 DEF RetryAttempt, RetryDue, RetryApplies, demandVars, engineVars
  <2>2. Awake /\ ~isCapturing /\ (~AbortAfterPowerDown => ~sdRun /\ ~decoupled)
    <3>1. Awake /\ ~isCapturing
      BY <2>1, AwakeOrDown DEF PowerInv, PoweredDownIsQuiet, CaptureNeedsDsp
    <3> QED BY <3>1 DEF PowerInv, StreamKept, CaptureMatchesStream
  <2>3. CASE out = "ok"
    <3>1. /\ dspUp' /\ ~isCapturing'
          /\ ~AbortAfterPowerDown => ~sdRun' /\ ~decoupled'
          /\ phase' # "unloaded" /\ (gWasCapturing => gate' = "rearm")
      BY <1>3, <2>1, <2>2, <2>3 DEF InitDSP, RetryAttempt, AfterRebuild
    <3> QED BY <2>1, <2>2, <3>1
       DEF PowerInv, StreamKept, CaptureMatchesStream, ReadyMeansLoaded,
           PoweredDownIsQuiet, PowerSequence, BeforeLoad, DemandDue,
           CaptureNeedsDsp, RebuildDueOrSpent, Awake, powerVars
  <2>4. CASE out # "ok"
    <3>1. /\ UNCHANGED <<hwReady, isCapturing, sdRun, decoupled, phase>>
          /\ gWakeReinitPending' = (gWakeTries' < MaxTries) /\ gate' = "executor"
      BY <1>3, <2>1, <2>4 DEF InitDSP, RetryAttempt, AttemptFailed
    <3>2. gWakeReinitPending' \/ gWakeTries' >= MaxTries
      <4>1. gWakeTries' \in 0 .. MaxTries
        BY <1>3, RetryCounters DEF RetryAttempt, TypeOK
      <4>2. gWakeTries' < MaxTries \/ gWakeTries' >= MaxTries
        BY <4>1, BudgetAssumption
      <4>3. CASE gWakeTries' < MaxTries
        BY <3>1, <4>3, Zenon
      <4> QED BY <4>2, <4>3
    <3> QED BY <1>0, <2>1, <2>2, <3>1, <3>2
       DEF PowerInv, StreamKept, CaptureMatchesStream, ReadyMeansLoaded,
           PoweredDownIsQuiet, PowerSequence, BeforeLoad, DemandDue,
           CaptureNeedsDsp, RebuildDueOrSpent, Awake, powerVars
  <2> QED BY <2>3, <2>4
<1>4. ASSUME NEW ret \in CaptureResults, RetryRearm(ret) PROVE PowerInv'
  <2>1. /\ StartCaptureGated(ret) /\ gate = "rearm" /\ gate' # "rearm"
        /\ UNCHANGED <<mapped, phase, sys, gSleepImminent, gSleptOnce, dspUp>>
    BY <1>4 DEF RetryRearm, powerVars, hwVars
  <2>2. Awake
    BY <2>1, AwakeOrDown DEF PowerInv, PowerSequence
  <2> QED BY <1>0, <2>1, <2>2, PowerStartCapture
<1>5. CASE ExecutorIdle \/ ExecutorNothingToDo
  <2>1. /\ UNCHANGED <<captureVars, gWasCapturing, powerVars, phase, dspUp, famStep>>
        /\ gate = "executor" /\ gate' = "free"
    BY <1>5 DEF ExecutorIdle, ExecutorNothingToDo, demandVars, engineVars, hwVars
  <2> QED BY <1>0, <2>1, PowerFrame
             DEF PowerInv, PowerSequence, captureVars, retryVars, powerVars
<1>6. CASE ExecutorDrainsPause
  <2>1. /\ UNCHANGED <<captureVars, gWasCapturing, powerVars, phase, dspUp, famStep>>
        /\ gate = "executor" /\ gate' = "free"
    BY <1>6 DEF ExecutorDrainsPause, demandVars, hwVars
  <2> QED BY <1>0, <2>1, PowerFrame
             DEF PowerInv, PowerSequence, captureVars, retryVars, powerVars
<1>7. ASSUME NEW ret \in CaptureResults, ExecutorRestart(ret) PROVE PowerInv'
  <2>1. /\ StartCaptureGated(ret) /\ hwReady /\ gate' # "rearm"
        /\ UNCHANGED <<mapped, phase, sys, gSleepImminent, gSleptOnce, dspUp>>
    BY <1>7 DEF ExecutorRestart, EngineStartCapture, ExecutorApplies, powerVars, hwVars
  <2>2. Awake
    BY <2>1, AwakeOrDown DEF PowerInv, PoweredDownIsQuiet
  <2> QED BY <1>0, <2>1, <2>2, PowerStartCapture
<1> QED BY <1>1, <1>2, <1>3, <1>4, <1>5, <1>6, <1>7 DEF JackPoll

\* User calls arrive awake, by QuietClients.
LEMMA PowerUser == ASSUME QuietClients, PowerInv, UserCalls PROVE PowerInv'
<1>1. ASSUME NEW ret \in CaptureResults, UserStartCapture(ret) PROVE PowerInv'
  <2>1. /\ StartCaptureGated(ret) /\ Awake /\ phase # "unloaded" /\ gate' # "rearm"
        /\ UNCHANGED <<mapped, phase, sys, gSleepImminent, gSleptOnce, dspUp>>
    BY <1>1 DEF UserStartCapture, ClientsMayCall, QuietClients, Awake, GateFree,
                Loaded, powerVars, hwVars
  <2> QED BY <2>1, PowerStartCapture
<1>2. CASE UserStopCapture
  <2>1. /\ StopCaptureGated /\ Awake /\ phase # "unloaded" /\ gate' # "rearm"
        /\ UNCHANGED <<mapped, phase, sys, gSleepImminent, gSleptOnce, dspUp>>
    BY <1>2 DEF UserStopCapture, ClientsMayCall, QuietClients, Awake, GateFree, Loaded,
                powerVars, hwVars
  <2> QED BY <2>1, PowerStopCapture
<1> QED BY <1>1, <1>2 DEF UserCalls

\* The power callbacks and the platform, a sleep undone half way included.
LEMMA PowerSleep ==
  ASSUME QuietClients, TypeOK, PowerInv, PowerCallbacks \/ Platform PROVE PowerInv'
<1>1. CASE WillSleep
  BY <1>1 DEF WillSleep, GateFree, Loaded, captureVars, retryVars, streamVars,
              demandVars, hwVars, engineVars, PowerInv, StreamKept,
              CaptureMatchesStream, ReadyMeansLoaded, PoweredDownIsQuiet,
              PowerSequence, BeforeLoad, DemandDue, CaptureNeedsDsp,
              RebuildDueOrSpent, Awake
<1>2. CASE WakeNotice
  BY <1>2, PowerFrame
     DEF WakeNotice, GateFree, Loaded, captureVars, retryVars, demandVars, hwVars,
         engineVars, PowerInv, PowerSequence
<1>3. CASE PowerOff
  BY <1>3
     DEF PowerOff, GateFree, Loaded, engineVars, hwVars, PowerInv, StreamKept,
         CaptureMatchesStream, ReadyMeansLoaded, PoweredDownIsQuiet, PowerSequence,
         BeforeLoad, DemandDue, CaptureNeedsDsp, RebuildDueOrSpent, Awake
<1>4. CASE PowerOn
  <2>1. /\ sys = "off" \/ (AbortAfterPowerDown /\ sys = "down")
        /\ sys' = "on" /\ gate = "free" /\ phase # "unloaded"
        /\ UNCHANGED <<hwReady, streamVars, gWasCapturing, gSleptOnce, engineVars,
                      phase, gate>>
    BY <1>4 DEF PowerOn, QuietClients, GateFree, Loaded, demandVars
  <2>2. ~hwReady /\ gSleptOnce /\ (~AbortAfterPowerDown => ~sdRun /\ ~decoupled)
    BY <2>1 DEF PowerInv, PoweredDownIsQuiet, PowerSequence, StreamKept
  <2>3. ~mapped' \/ gWakeReinitPending'
    BY <1>4, <2>2 DEF PowerOn, RemapFails, RemapSucceeds, ScheduleRebuild
  <2> QED BY <2>1, <2>2, <2>3
     DEF streamVars, engineVars, PowerInv, StreamKept, CaptureMatchesStream,
         ReadyMeansLoaded, PoweredDownIsQuiet, PowerSequence, BeforeLoad, DemandDue,
         CaptureNeedsDsp, RebuildDueOrSpent, Awake
<1>5. CASE ControllerD3
  BY <1>5
     DEF ControllerD3, retryVars, demandVars, engineVars, PowerInv, StreamKept,
         CaptureMatchesStream, ReadyMeansLoaded, PoweredDownIsQuiet, PowerSequence,
         BeforeLoad, DemandDue, CaptureNeedsDsp, RebuildDueOrSpent, Awake
<1>6. CASE ControllerD0 \/ AppleHDAOutput
  <2>1. UNCHANGED <<captureVars, demandVars, powerVars, engineVars, dspUp, phase, gate>>
    BY <1>6 DEF ControllerD0, AppleHDAOutput
  <2> QED BY <2>1 DEF captureVars, retryVars, streamVars, demandVars, powerVars,
                      engineVars, PowerInv, StreamKept, CaptureMatchesStream,
                      ReadyMeansLoaded, PoweredDownIsQuiet, PowerSequence,
                      BeforeLoad, DemandDue, CaptureNeedsDsp, RebuildDueOrSpent,
                      Awake
<1>7. CASE SleepAborted
  BY <1>7 DEF SleepAborted, Loaded, captureVars, retryVars, streamVars, demandVars,
              hwVars, engineVars, PowerInv, StreamKept, CaptureMatchesStream,
              ReadyMeansLoaded, PoweredDownIsQuiet, PowerSequence, BeforeLoad,
              DemandDue, CaptureNeedsDsp, RebuildDueOrSpent, Awake
<1> QED BY <1>1, <1>2, <1>3, <1>4, <1>5, <1>6, <1>7 DEF PowerCallbacks, Platform

\* The engine's calls arrive awake, by QuietClients.
LEMMA PowerFamily ==
  ASSUME QuietClients, TypeOK, PowerInv, Family PROVE PowerInv'
<1>1. ASSUME NEW ret \in CaptureResults, EngineClientStart(ret) PROVE PowerInv'
  <2>1. /\ Awake /\ phase # "unloaded" /\ gate = "free" /\ gate' = "free"
        /\ UNCHANGED <<mapped, phase, sys, gSleepImminent, gSleptOnce, dspUp>>
        /\ UNCHANGED famStep
    BY <1>1 DEF EngineClientStart, ClientsMayCall, QuietClients, Awake, GateFree, Loaded,
                powerVars, hwVars
  <2>2. CASE StartCaptureGated(ret)
    BY <2>1, <2>2, PowerStartCapture
  <2>3. CASE UNCHANGED <<captureVars, demandVars>>
    BY <2>1, <2>3, PowerFrame DEF captureVars, retryVars, demandVars, Awake, PowerInv,
                                  PowerSequence
  <2> QED BY <1>1, <2>2, <2>3 DEF EngineClientStart, EngineStartCapture
<1>2. CASE EngineClientStop
  <2>1. /\ Awake /\ phase # "unloaded" /\ gate = "free" /\ gate' = "free"
        /\ UNCHANGED <<mapped, phase, sys, gSleepImminent, gSleptOnce, dspUp>>
        /\ UNCHANGED famStep
    BY <1>2 DEF EngineClientStop, ClientsMayCall, QuietClients, Awake, GateFree, Loaded,
                powerVars, hwVars
  <2>2. CASE StopCaptureGated
    BY <2>1, <2>2, PowerStopCapture
  <2>3. CASE UNCHANGED <<captureVars, demandVars>>
    BY <2>1, <2>3, PowerFrame DEF captureVars, retryVars, demandVars, Awake, PowerInv,
                                  PowerSequence
  <2> QED BY <1>2, <2>2, <2>3 DEF EngineClientStop
<1>3. CASE FamilySleep \/ FamilyPauseFlips \/ FamilyWake \/ EngineRequestResume
  <2>1. /\ UNCHANGED <<captureVars, demandVars, powerVars, dspUp, phase, gate>>
        /\ famStep' = "idle" \/ sys \notin {"down", "off"}
    BY <1>3 DEF FamilySleep, FamilyPauseFlips, FamilyWake, EngineRequestResume, hwVars
  <2> QED BY <2>1
     DEF captureVars, retryVars, streamVars, demandVars, powerVars, PowerInv,
         StreamKept, CaptureMatchesStream, ReadyMeansLoaded, PoweredDownIsQuiet,
         PowerSequence, BeforeLoad, DemandDue, CaptureNeedsDsp, RebuildDueOrSpent,
         Awake
<1>4. CASE FamilyPauseStops
  <2>1. /\ phase # "unloaded" /\ gate' # "rearm" /\ StopCaptureGated
        /\ famStep = "pausing"
        /\ UNCHANGED <<mapped, phase, sys, gSleepImminent, gSleptOnce, dspUp>>
    BY <1>4 DEF FamilyPauseStops, GateFree, Loaded, powerVars, hwVars
  <2>2. Awake
    BY <2>1, AwakeOrDown DEF PowerInv, PowerSequence
  <2> QED BY <2>1, <2>2, PowerStopCapture
<1> QED BY <1>1, <1>2, <1>3, <1>4 DEF Family

\* PowerInv is an invariant when clients are quiet, however a sleep ends.
LEMMA PowerInvariant == ASSUME QuietClients PROVE Spec => []PowerInv
<1>1. Init => PowerInv
  BY
     DEF Init, PowerInv, StreamKept, CaptureMatchesStream, ReadyMeansLoaded,
         PoweredDownIsQuiet, PowerSequence, BeforeLoad, DemandDue, CaptureNeedsDsp,
         RebuildDueOrSpent, Awake
<1>2. TypeOK /\ PowerInv /\ [Next]_vars => PowerInv'
  <2>1. CASE UNCHANGED vars
    BY <2>1 DEF vars, progressVars, captureVars, retryVars, streamVars, demandVars,
                powerVars, engineVars, hwVars, PowerInv, StreamKept,
                CaptureMatchesStream, ReadyMeansLoaded, PoweredDownIsQuiet,
                PowerSequence, BeforeLoad, DemandDue, CaptureNeedsDsp,
                RebuildDueOrSpent, Awake
  <2> QED BY <2>1, PowerStart, PowerTick, PowerUser, PowerSleep, PowerFamily DEF Next
<1> QED BY <1>1, <1>2, TypeCorrect, PTL DEF Spec

\* Awake, the capture flag and the stream's own RUN and decouple bits agree, for
\* every budget and through every failing start and stop.
THEOREM StreamAgrees == ASSUME QuietSleep PROVE Spec => []CaptureMatchesStream
<1>1. PowerInv => CaptureMatchesStream
  BY DEF PowerInv, StreamKept, QuietSleep
<1>2. QuietClients
  BY DEF QuietSleep
<1> QED BY <1>1, <1>2, PowerInvariant, PTL

\* Awake, a ready DSP is one rebuilt since the controller lost power, on mapped
\* registers, also after a sleep undone between setPowerState(0) and D3.
THEOREM ReadyIsLoaded == ASSUME QuietClients PROVE Spec => []ReadyMeansLoaded
<1>1. PowerInv => ReadyMeansLoaded
  BY DEF PowerInv
<1> QED BY <1>1, PowerInvariant, PTL

\* From setPowerState(0) to the wake nothing is ready and no retry round pends.
THEOREM DownIsQuiet == ASSUME QuietClients PROVE Spec => []PoweredDownIsQuiet
<1>1. PowerInv => PoweredDownIsQuiet
  BY DEF PowerInv
<1> QED BY <1>1, PowerInvariant, PTL

\* A latched demand always has a rebuild coming, unless a budget was spent.
THEOREM DemandKept == ASSUME QuietClients PROVE Spec => []DemandNotStranded
<1>1. PowerInv => DemandNotStranded
  BY DEF PowerInv, DemandDue, DemandNotStranded, RebuildDueOrSpent
<1> QED BY <1>1, PowerInvariant, PTL

-----------------------------------------------------------------------------
(* Action properties.                                                      *)

\* The executor never starts an engine between WillSleep and the wake.
THEOREM ParkedForSleep == ASSUME QuietClients PROVE Spec => ExecutorParkedForSleep
<1>1. TypeOK /\ PowerInv /\ [Next]_vars =>
        [gate = "executor" /\ engState # "Running" /\ engState' = "Running"
           => sys = "on" /\ ~famAsleep]_vars
  <2> SUFFICES ASSUME TypeOK, PowerInv, Next, gate = "executor",
                      engState # "Running", engState' = "Running"
               PROVE  sys = "on" /\ ~famAsleep
    OBVIOUS
  <2>1. PICK ret \in CaptureResults : ExecutorRestart(ret)
    <3>1. ~Start
      BY DEF Start, engineVars
    <3>2. ~UserCalls
      BY DEF UserCalls, UserStartCapture, UserStopCapture, engineVars
    <3>3. ~(PowerCallbacks \/ Platform)
      BY DEF PowerCallbacks, WillSleep, WakeNotice, PowerOff, PowerOn, Platform,
             ControllerD3, ControllerD0, AppleHDAOutput, SleepAborted, engineVars
    <3>4. ~Family
      BY DEF Family, EngineClientStart, EngineClientStop, FamilySleep,
             FamilyPauseStops, FamilyPauseFlips, FamilyWake, EngineRequestResume,
             GateFree
    <3>5. JackPoll
      BY <3>1, <3>2, <3>3, <3>4 DEF Next
    <3> QED BY <3>5
               DEF JackPoll, RetryIdle, RetryDeferred, RetryAttempt, RetryRearm,
                   ExecutorIdle, ExecutorNothingToDo, ExecutorDrainsPause, engineVars
  <2>2. hwReady /\ ~gSleepImminent /\ ~famAsleep
    BY <2>1 DEF ExecutorRestart, ExecutorApplies
  <2> QED BY <2>2, AwakeOrDown DEF PowerInv, PoweredDownIsQuiet, PowerSequence, Awake
<1> QED BY <1>1, TypeCorrect, PowerInvariant, PTL DEF Spec, ExecutorParkedForSleep

\* The resume latch of a parked session is never lost silently: whatever drops it
\* leaves the session running, nobody waiting, or a budget spent.
THEOREM ResumeLatchKept == Spec => ResumeLatchSpent
<1>1. TypeOK /\ [Next]_vars =>
        [gEngineResumePending /\ ~gEngineResumePending' =>
           \/ ~needsDeferredResume'
           \/ gEngineResumeTries' >= kEngineResumeMaxTries
           \/ gRecoveryEpisodes' > MaxEpisodes]_vars
  <2> SUFFICES ASSUME TypeOK, Next, gEngineResumePending, ~gEngineResumePending'
               PROVE  \/ ~needsDeferredResume'
                      \/ gEngineResumeTries' >= kEngineResumeMaxTries
                      \/ gRecoveryEpisodes' > MaxEpisodes
    OBVIOUS
  <2>1. ExecutorNothingToDo \/ ExecutorDrainsPause
        \/ \E ret \in CaptureResults : ExecutorRestart(ret)
    <3>1. ~Start
      BY DEF Start, resumeVars
    <3>2. ~UserCalls
      BY DEF UserCalls, UserStartCapture, UserStopCapture, resumeVars
    <3>3. ~(PowerCallbacks \/ Platform)
      BY DEF PowerCallbacks, WillSleep, WakeNotice, PowerOff, PowerOn, RemapFails,
             RemapSucceeds, Platform, ControllerD3, ControllerD0, AppleHDAOutput,
             SleepAborted, resumeVars
    <3>4. ~Family
      BY DEF Family, EngineClientStart, EngineClientStop, FamilySleep,
             FamilyPauseStops, FamilyPauseFlips, FamilyWake, EngineRequestResume,
             resumeVars
    <3>5. JackPoll
      BY <3>1, <3>2, <3>3, <3>4 DEF Next
    <3> QED BY <3>5
               DEF JackPoll, RetryIdle, RetryDeferred, RetryAttempt, RetryRearm,
                   ExecutorIdle, resumeVars
  <2>2. CASE ExecutorNothingToDo
    BY <2>2 DEF ExecutorNothingToDo, needsDeferredResume, engineVars, TypeOK,
                EngineTypes
  <2>3. ASSUME NEW ret \in CaptureResults, ExecutorRestart(ret), ret = "Success"
        PROVE  ~needsDeferredResume'
    BY <2>3 DEF ExecutorRestart, needsDeferredResume
  <2>4. ASSUME NEW tries, CountResumeTry(tries)
        PROVE  \/ gEngineResumeTries' >= kEngineResumeMaxTries
               \/ gRecoveryEpisodes' > MaxEpisodes
    BY <2>4, Zenon DEF CountResumeTry
  <2> QED BY <2>1, <2>2, <2>3, <2>4 DEF ExecutorRestart, ExecutorDrainsPause
<1> QED BY <1>1, TypeCorrect, PTL DEF Spec, ResumeLatchSpent

-----------------------------------------------------------------------------
(* The kernel engine as the only client: a held session keeps its capture. *)

\* Nobody but the engine's own stop and the family's pause drops capture and demand, so a
\* Running engine has one of them at every point, asleep or awake, in a tick or between two.
EngineFed ==
  /\ engState = "Running" /\ famStep # "flip" => isCapturing \/ gWasCapturing
  /\ phase = "unloaded" => engState = "Stopped" /\ gate = "free"

FedInv == SessionInv /\ EngineFed

\* A step that leaves capture, demand, the engine and the load alone.
LEMMA FedFrame ==
  ASSUME EngineFed, UNCHANGED <<isCapturing, gWasCapturing, engState, famStep, phase>>,
         gate' = "free" \/ phase # "unloaded" \/ UNCHANGED gate
  PROVE  EngineFed'
BY DEF EngineFed

\* A rebuild puts a DSP up that was down, so it stops no capture; what it re-arms is latched.
LEMMA FedTick == ASSUME FedInv, JackPoll PROVE EngineFed'
<1>1. CASE RetryIdle \/ RetryDeferred
  BY <1>1, FedFrame DEF RetryIdle, RetryDeferred, RetryDue, GateFree, Loaded, streamVars,
     demandVars, engineVars, FedInv
<1>2. ASSUME NEW out \in {"ok", "bail", "fail"}, RetryAttempt(out) PROVE EngineFed'
  <2>1. ~isCapturing
    BY <1>2 DEF RetryAttempt, RetryDue, RetryApplies, FedInv, SessionInv, CaptureNeedsDsp
  <2>2. UNCHANGED <<gWasCapturing, engState, famStep>> /\ phase' # "unloaded"
    BY <1>2 DEF RetryAttempt, RetryDue, GateFree, Loaded, InitDSP, demandVars, engineVars
  <2> QED BY <2>1, <2>2 DEF FedInv, EngineFed
<1>3. ASSUME NEW ret \in CaptureResults, RetryRearm(ret) PROVE EngineFed'
  <2>1. /\ StartCaptureGated(ret) /\ gWasCapturing' = (ret # "Success")
        /\ UNCHANGED <<engState, famStep, phase>> /\ phase # "unloaded"
    BY <1>3 DEF RetryRearm, engineVars, FedInv, EngineFed
  <2>2. ret = "Success" => isCapturing'
    BY <2>1, StartEffect DEF FedInv, SessionInv
  <2> QED BY <2>1, <2>2 DEF FedInv, EngineFed
<1>4. CASE ExecutorIdle \/ ExecutorNothingToDo
  BY <1>4, FedFrame
     DEF ExecutorIdle, ExecutorNothingToDo, captureVars, streamVars, demandVars, engineVars, FedInv
<1>5. CASE ExecutorDrainsPause
  BY <1>5 DEF ExecutorDrainsPause, FedInv, EngineFed
<1>6. ASSUME NEW ret \in CaptureResults, ExecutorRestart(ret) PROVE EngineFed'
  <2>1. /\ StartCaptureGated(ret) /\ UNCHANGED phase
        /\ engState # "Running"
        /\ ret # "Success" => engState' \in {"Resumed", engState}
        /\ phase # "unloaded"
    BY <1>6 DEF ExecutorRestart, EngineStartCapture, FedInv, EngineFed
  <2>2. ret = "Success" => isCapturing'
    BY <2>1, StartEffect DEF FedInv, SessionInv
  <2> QED BY <2>1, <2>2 DEF FedInv, EngineFed
<1> QED BY <1>1, <1>2, <1>3, <1>4, <1>5, <1>6 DEF JackPoll

\* Sleep turns a running capture into a latched demand.
LEMMA FedPower == ASSUME FedInv, PowerCallbacks \/ Platform PROVE EngineFed'
<1>1. CASE PowerOff
  BY <1>1 DEF PowerOff, engineVars, FedInv, EngineFed
<1>2. CASE PowerOn
  BY <1>2, FedFrame DEF PowerOn, streamVars, demandVars, engineVars, FedInv
<1>3. CASE WillSleep \/ WakeNotice \/ ControllerD3 \/ ControllerD0 \/ AppleHDAOutput
           \/ SleepAborted
  BY <1>3, FedFrame DEF WillSleep, WakeNotice, ControllerD3, ControllerD0, AppleHDAOutput,
     SleepAborted, captureVars, streamVars, demandVars, engineVars, FedInv
<1> QED BY <1>1, <1>2, <1>3 DEF PowerCallbacks, Platform

\* The engine is Running only after a start that succeeded, and not past a stop.
LEMMA FedFamily == ASSUME FedInv, Family PROVE EngineFed'
<1>1. ASSUME NEW ret \in CaptureResults, EngineClientStart(ret) PROVE EngineFed'
  <2>1. phase' = phase /\ phase # "unloaded" /\ famStep' = famStep
    BY <1>1 DEF EngineClientStart, GateFree, Loaded
  <2>2. CASE /\ engState \in {"Stopped", "Resumed"} /\ StartCaptureGated(ret)
             /\ engState' = (IF ret = "Success" THEN "Running" ELSE engState)
    <3>1. ret = "Success" => isCapturing'
      BY <2>2, StartEffect DEF FedInv, SessionInv
    <3> QED BY <2>1, <2>2, <3>1 DEF EngineFed
  <2>3. CASE UNCHANGED <<captureVars, demandVars, engState>>
    BY <2>1, <2>3 DEF captureVars, streamVars, demandVars, FedInv, EngineFed
  <2>4. CASE engState' \in {"Resumed", "Paused"}
    BY <2>1, <2>4 DEF EngineFed
  <2> QED BY <1>1, <2>2, <2>3, <2>4 DEF EngineClientStart, EngineStartCapture
<1>2. CASE EngineClientStop
  <2>1. phase' = phase /\ phase # "unloaded" /\ famStep' = famStep
    BY <1>2 DEF EngineClientStop, GateFree, Loaded
  <2>2. CASE engState' = "Stopped"
    BY <2>1, <2>2 DEF EngineFed
  <2>3. CASE UNCHANGED <<captureVars, demandVars, engState>>
    BY <2>1, <2>3 DEF captureVars, streamVars, demandVars, FedInv, EngineFed
  <2> QED BY <1>2, <2>2, <2>3 DEF EngineClientStop
<1>3. CASE FamilySleep
  <2>1. UNCHANGED <<isCapturing, gWasCapturing, engState, phase, gate>> /\ famStep = "idle"
    BY <1>3 DEF FamilySleep, captureVars, streamVars, demandVars
  <2> QED BY <2>1 DEF FedInv, EngineFed
<1>4. CASE FamilyPauseStops
  BY <1>4 DEF FamilyPauseStops, FedInv, EngineFed
<1>5. CASE FamilyPauseFlips
  BY <1>5 DEF FamilyPauseFlips, FedInv, SessionInv, PauseInProgress, EngineFed
<1>6. CASE FamilyWake
  BY <1>6 DEF FamilyWake, Loaded, captureVars, streamVars, demandVars, FedInv, EngineFed
<1>7. CASE EngineRequestResume
  BY <1>7 DEF EngineRequestResume, captureVars, streamVars, demandVars, FedInv, EngineFed
<1> QED BY <1>1, <1>2, <1>3, <1>4, <1>5, <1>6, <1>7 DEF Family

\* Without a user client to stop it, an engine the family believes Running has capture, or
\* the latched demand that restarts it: for every budget and number of clients, and whatever
\* the system does with a sleep.  A user client's StopCapture would take it.
THEOREM EngineKeepsCapture == ASSUME ~UserClient PROVE Spec => []RunningEngineHasCapture
<1>1. Init => FedInv
  BY DEF Init, FedInv, SessionInv, NoHeadlessCapture, CaptureNeedsDsp, PauseInProgress,
         RearmHasDemand, EngineFed
<1>2. FedInv /\ [Next]_vars => FedInv'
  <2> SUFFICES ASSUME FedInv, [Next]_vars PROVE FedInv'
    OBVIOUS
  <2>1. SessionInv'
    <3>1. CASE UNCHANGED vars
      BY <3>1, SessionFrame DEF vars, progressVars, captureVars, streamVars, engineVars, FedInv
    <3> QED BY <3>1, SessionStart, SessionTick, SessionUser, SessionPower, SessionFamily
            DEF Next, FedInv
  <2>2. CASE UNCHANGED vars
    <3>1. EngineFed'
      BY <2>2, FedFrame DEF vars, progressVars, captureVars, streamVars, demandVars,
                            engineVars, FedInv
    <3> QED BY <2>1, <3>1 DEF FedInv
  <2>3. CASE Start
    <3>1. engState' = "Stopped" /\ gate' = "free"
      BY <2>3 DEF Start, engineVars, FedInv, EngineFed
    <3> QED BY <2>1, <3>1 DEF FedInv, EngineFed
  <2>4. ~UserCalls
    BY DEF UserCalls, UserStartCapture, UserStopCapture
  <2> QED BY <2>1, <2>2, <2>3, <2>4, FedTick, FedPower, FedFamily DEF Next, FedInv
<1>3. FedInv => RunningEngineHasCapture
  BY DEF FedInv, EngineFed, RunningEngineHasCapture
<1> QED BY <1>1, <1>2, <1>3, PTL DEF Spec

-----------------------------------------------------------------------------
(* The published Status.                                                   *)

\* "deferred" stands over a DSP that is down, and over a round that pends or that a sleep
\* cancelled and its wake starts again.
DeferredRound ==
  /\ status = "deferred" =>
       ~hwReady /\ (gWakeReinitPending \/ (sys \in {"down", "off"} /\ gSleptOnce))
  /\ phase = "unloaded" => ~hwReady /\ status = "none"
  /\ isCapturing => hwReady

\* A step that leaves Status, the round and the power sequence alone, or only cancels no round.
LEMMA DeferredFrame ==
  ASSUME DeferredRound, status' = status,
         phase' = phase \/ phase' # "unloaded",
         hwReady' => hwReady, isCapturing' => hwReady',
         gWakeReinitPending' \/ UNCHANGED <<gWakeReinitPending, sys, gSleptOnce>>
  PROVE  DeferredRound'
BY DEF DeferredRound

\* A gated capture call cancels no round and brings no DSP up.
LEMMA DeferredCapture ==
  ASSUME DeferredRound, UNCHANGED <<status, phase, sys, gSleptOnce>>,
         \/ \E ret \in CaptureResults : StartCaptureGated(ret)
         \/ StopCaptureGated
         \/ UNCHANGED captureVars
  PROVE  DeferredRound'
<1>1. gWakeReinitPending' \/ UNCHANGED gWakeReinitPending
  BY DEF StartCaptureGated, CaptureRefused, CaptureAlreadyRunning, CaptureStarted,
         ParamsTimeout, TriggerTimeout, StopCaptureGated, ScheduleDspRecovery, ScheduleRebuild,
         captureVars, retryVars
<1>2. (hwReady' => hwReady) /\ (isCapturing' => hwReady')
  <2>1. CaptureNeedsDsp
    BY DEF DeferredRound, CaptureNeedsDsp
  <2>2. CASE UNCHANGED captureVars
    BY <2>1, <2>2 DEF captureVars, streamVars, CaptureNeedsDsp
  <2> QED BY <2>1, <2>2, StartEffect, StopEffect
<1> QED BY <1>1, <1>2, DeferredFrame

LEMMA DeferredStart == ASSUME DeferredRound, Start PROVE DeferredRound'
<1>1. ~hwReady /\ ~isCapturing
  BY DEF Start, DeferredRound
<1>2. CASE StartDeferred
  BY <1>1, <1>2 DEF StartDeferred, ScheduleRebuild, streamVars, DeferredRound
<1>3. ASSUME NEW out \in {"ok", "bail", "fail"}, StartInit(out) PROVE DeferredRound'
  <2>1. CASE out = "ok"
    BY <1>3, <2>1 DEF StartInit, InitDSP, DeferredRound
  <2>2. CASE out = "bail"
    BY <1>1, <1>3, <2>2 DEF StartInit, InitDSP, ScheduleRebuild, DeferredRound
  <2>3. CASE out = "fail"
    BY <1>1, <1>3, <2>3 DEF StartInit, InitDSP, DeferredRound
  <2> QED BY <2>1, <2>2, <2>3
<1> QED BY <1>2, <1>3 DEF Start

LEMMA DeferredTick == ASSUME DeferredRound, JackPoll PROVE DeferredRound'
<1>1. CASE RetryIdle
  BY <1>1, DeferredFrame DEF RetryIdle, streamVars, powerVars, DeferredRound
<1>2. CASE RetryDeferred
  BY <1>2 DEF RetryDeferred, RetryDue, GateFree, Loaded, streamVars, powerVars, DeferredRound
<1>3. ASSUME NEW out \in {"ok", "bail", "fail"}, RetryAttempt(out) PROVE DeferredRound'
  <2>1. ~hwReady /\ ~isCapturing /\ phase # "unloaded"
    BY <1>3 DEF RetryAttempt, RetryDue, RetryApplies, GateFree, Loaded, DeferredRound
  <2>2. CASE out = "ok"
    BY <1>3, <2>2 DEF RetryAttempt, InitDSP, DeferredRound
  <2>3. CASE out # "ok"
    <3>1. /\ UNCHANGED <<hwReady, isCapturing, phase>>
          /\ status' = "deferred" => gWakeReinitPending'
      BY <1>3, <2>3, Zenon DEF RetryAttempt, InitDSP, AttemptFailed
    <3> QED BY <2>1, <3>1 DEF DeferredRound
  <2> QED BY <2>2, <2>3
<1>4. ASSUME NEW ret \in CaptureResults, RetryRearm(ret) PROVE DeferredRound'
  BY <1>4, DeferredCapture DEF RetryRearm, powerVars
<1>5. CASE ExecutorIdle \/ ExecutorNothingToDo \/ ExecutorDrainsPause
  BY <1>5, DeferredCapture DEF ExecutorIdle, ExecutorNothingToDo, ExecutorDrainsPause, powerVars
<1>6. ASSUME NEW ret \in CaptureResults, ExecutorRestart(ret) PROVE DeferredRound'
  BY <1>6, DeferredCapture DEF ExecutorRestart, EngineStartCapture, powerVars
<1> QED BY <1>1, <1>2, <1>3, <1>4, <1>5, <1>6 DEF JackPoll

\* A sleep cancels the round; with the registers mapped again, its wake starts another.
LEMMA DeferredPower ==
  ASSUME ~RemapMayFail, DeferredRound, PowerCallbacks \/ Platform PROVE DeferredRound'
<1>1. CASE WillSleep \/ SleepAborted
  BY <1>1 DEF WillSleep, SleepAborted, captureVars, retryVars, streamVars, DeferredRound
<1>2. CASE WakeNotice \/ ControllerD0 \/ AppleHDAOutput
  BY <1>2, DeferredCapture DEF WakeNotice, ControllerD0, AppleHDAOutput, powerVars
<1>3. CASE PowerOff
  BY <1>3 DEF PowerOff, DeferredRound
<1>4. CASE PowerOn
  <2>1. gWakeReinitPending' \/ (UNCHANGED gWakeReinitPending /\ (hwReady \/ ~gSleptOnce))
    BY <1>4 DEF PowerOn, RemapFails, RemapSucceeds, ScheduleRebuild, retryVars
  <2> QED BY <1>4, <2>1 DEF PowerOn, streamVars, DeferredRound
<1>5. CASE ControllerD3
  BY <1>5 DEF ControllerD3, retryVars, DeferredRound
<1> QED BY <1>1, <1>2, <1>3, <1>4, <1>5 DEF PowerCallbacks, Platform

LEMMA DeferredClients == ASSUME DeferredRound, UserCalls \/ Family PROVE DeferredRound'
<1>1. ASSUME NEW ret \in CaptureResults, UserStartCapture(ret) \/ EngineClientStart(ret)
      PROVE  DeferredRound'
  BY <1>1, DeferredCapture DEF UserStartCapture, EngineClientStart, EngineStartCapture, powerVars
<1>2. CASE UserStopCapture \/ EngineClientStop \/ FamilyPauseStops
  BY <1>2, DeferredCapture DEF UserStopCapture, EngineClientStop, FamilyPauseStops, powerVars
<1>3. CASE FamilySleep \/ FamilyPauseFlips \/ FamilyWake \/ EngineRequestResume
  BY <1>3, DeferredCapture
     DEF FamilySleep, FamilyPauseFlips, FamilyWake, EngineRequestResume, powerVars
<1> QED BY <1>1, <1>2, <1>3 DEF UserCalls, Family

\* As INSTALL.md promises, a Status that begins "deferred:" is in progress whenever the
\* machine is awake: a round pends, for every budget and also with sleeps that are undone and
\* clients that call meanwhile, if each wake can map the registers again.
THEOREM DeferredIsTransient ==
  ASSUME ~RemapMayFail PROVE Spec => []StatusDeferredInProgress
<1>1. Init => DeferredRound
  BY DEF Init, DeferredRound
<1>2. DeferredRound /\ [Next]_vars => DeferredRound'
  <2>1. CASE UNCHANGED vars
    BY <2>1 DEF vars, progressVars, captureVars, retryVars, streamVars, powerVars, DeferredRound
  <2> QED BY <2>1, DeferredStart, DeferredTick, DeferredPower, DeferredClients DEF Next
<1>3. DeferredRound => StatusDeferredInProgress
  BY DEF DeferredRound, StatusDeferredInProgress, Awake
<1> QED BY <1>1, <1>2, <1>3, PTL DEF Spec

-----------------------------------------------------------------------------
(* The patience of a deferred load.                                        *)

\* Only initDSP raises the ready flag, and it ends the deferral.
ReadyEndsDeferral ==
  /\ phase \in {"unloaded", "deferred"} => ~hwReady
  /\ CaptureNeedsDsp

\* No step but start() and the attempt of a retry round brings a DSP up.
LEMMA OnlyInitRaisesReady ==
  ASSUME CaptureNeedsDsp, Next, ~Start,
         \A out \in {"ok", "bail", "fail"} : ~RetryAttempt(out)
  PROVE  (hwReady' => hwReady) /\ phase' = phase /\ CaptureNeedsDsp'
<1>1. CASE \/ \E ret \in CaptureResults : RetryRearm(ret) \/ ExecutorRestart(ret)
           \/ UserCalls \/ (\E ret \in CaptureResults : EngineClientStart(ret))
           \/ EngineClientStop \/ FamilyPauseStops
  <2>1. /\ \/ \E ret \in CaptureResults : StartCaptureGated(ret)
           \/ StopCaptureGated
           \/ UNCHANGED captureVars
        /\ phase' = phase
    BY <1>1 DEF RetryRearm, ExecutorRestart, EngineStartCapture, UserCalls, UserStartCapture,
       UserStopCapture, EngineClientStart, EngineClientStop, FamilyPauseStops
  <2>2. CASE UNCHANGED captureVars
    BY <2>1, <2>2 DEF captureVars, streamVars, CaptureNeedsDsp
  <2> QED BY <2>1, <2>2, StartEffect, StopEffect DEF CaptureNeedsDsp
<1>2. CASE RetryIdle \/ RetryDeferred
  BY <1>2 DEF RetryIdle, RetryDeferred, streamVars, CaptureNeedsDsp
<1>3. CASE ExecutorIdle \/ ExecutorNothingToDo \/ ExecutorDrainsPause
  BY <1>3 DEF ExecutorIdle, ExecutorNothingToDo, ExecutorDrainsPause, captureVars, streamVars,
              CaptureNeedsDsp
<1>4. CASE PowerCallbacks \/ Platform
  BY <1>4 DEF PowerCallbacks, Platform, WillSleep, WakeNotice, PowerOff, PowerOn, ControllerD3,
              ControllerD0, AppleHDAOutput, SleepAborted, captureVars, streamVars,
              CaptureNeedsDsp
<1>5. CASE FamilySleep \/ FamilyPauseFlips \/ FamilyWake \/ EngineRequestResume
  BY <1>5 DEF FamilySleep, FamilyPauseFlips, FamilyWake, EngineRequestResume, captureVars,
              streamVars, CaptureNeedsDsp
<1> QED BY <1>1, <1>2, <1>3, <1>4, <1>5 DEF Next, JackPoll, Family

\* An attempt borrows only what the last look lets it: with the patience of strict borrowing, a
\* programmed descriptor only after every round of the patience.
LEMMA AttemptIsPatient ==
  ASSUME gStrictBorrow, TypeOK, NEW out \in {"ok", "bail", "fail"}, RetryAttempt(out), hwReady',
         sd7' = "programmed"
  PROVE  gProgrammedWaits' > kProgrammedWaitRounds
<1>1. InitDSP(out, WaitsAfterLook) /\ ~hwReady /\ gProgrammedWaits' = WaitsAfterLook
  BY DEF RetryAttempt, RetryDue, RetryApplies
<1>2. out = "ok"
  BY <1>1 DEF InitDSP
<1>3. ~(WaitsAfterLook <= kProgrammedWaitRounds)
  BY <1>1, <1>2 DEF InitDSP, BailsBeforeBorrow, PatienceApplies
<1>4. WaitsAfterLook \in Nat /\ kProgrammedWaitRounds \in Nat
  BY RetryCounters DEF TypeOK
<1> QED BY <1>1, <1>3, <1>4

\* With strict borrowing, a load that was deferred to AppleHDA borrows a descriptor AppleHDA
\* left programmed only after all its patience, whatever the patience and the budgets are.
\* Without the boot-arg a load that bailed at its last look keeps no patience.
THEOREM DeferralPatient == ASSUME gStrictBorrow PROVE Spec => LoadDeferralIsPatient
<1>1. Init => ReadyEndsDeferral
  BY DEF Init, ReadyEndsDeferral, CaptureNeedsDsp
<1>2. ReadyEndsDeferral /\ [Next]_vars => ReadyEndsDeferral'
  <2> SUFFICES ASSUME ReadyEndsDeferral, [Next]_vars PROVE ReadyEndsDeferral'
    OBVIOUS
  <2>1. CASE UNCHANGED vars
    BY <2>1 DEF vars, progressVars, captureVars, streamVars, ReadyEndsDeferral, CaptureNeedsDsp
  <2>2. ASSUME NEW waits, NEW out \in {"ok", "bail", "fail"}, InitDSP(out, waits),
               out = "ok" \/ phase' \in {phase, "failed", "deferred"}, ~hwReady
        PROVE  ReadyEndsDeferral'
    BY <2>2 DEF InitDSP, ReadyEndsDeferral, CaptureNeedsDsp
  <2>3. CASE Start
    <3>1. ~hwReady
      BY <2>3 DEF Start, ReadyEndsDeferral
    <3>2. CASE StartDeferred
      BY <3>1, <3>2 DEF StartDeferred, streamVars, ReadyEndsDeferral, CaptureNeedsDsp
    <3>3. ASSUME NEW out \in {"ok", "bail", "fail"}, StartInit(out) PROVE ReadyEndsDeferral'
      <4>1. InitDSP(out, gProgrammedWaits)
            /\ (out = "ok" \/ phase' \in {phase, "failed", "deferred"})
        BY <3>3 DEF StartInit
      <4> QED BY <2>2, <3>1, <4>1
    <3> QED BY <2>3, <3>2, <3>3 DEF Start
  <2>4. ASSUME NEW out \in {"ok", "bail", "fail"}, RetryAttempt(out) PROVE ReadyEndsDeferral'
    <3>1. InitDSP(out, WaitsAfterLook) /\ ~hwReady /\ (out = "ok" \/ phase' = phase)
      BY <2>4 DEF RetryAttempt, RetryDue, RetryApplies
    <3> QED BY <2>2, <3>1
  <2>5. CASE Next /\ ~Start /\ \A out \in {"ok", "bail", "fail"} : ~RetryAttempt(out)
    BY <2>5, OnlyInitRaisesReady DEF ReadyEndsDeferral
  <2> QED BY <2>1, <2>3, <2>4, <2>5
<1>3. TypeOK /\ ReadyEndsDeferral /\ [Next]_vars =>
        [phase = "deferred" /\ ~gSleptOnce /\ hwReady' /\ sd7' = "programmed"
           => gProgrammedWaits' > kProgrammedWaitRounds]_vars
  <2> SUFFICES ASSUME TypeOK, ReadyEndsDeferral, Next,
                      phase = "deferred", hwReady', sd7' = "programmed"
               PROVE  gProgrammedWaits' > kProgrammedWaitRounds
    OBVIOUS
  <2>1. ~hwReady /\ ~Start
    BY DEF ReadyEndsDeferral, Start
  <2>2. PICK out \in {"ok", "bail", "fail"} : RetryAttempt(out)
    BY <2>1, OnlyInitRaisesReady DEF ReadyEndsDeferral
  <2> QED BY <2>2, AttemptIsPatient
<1> QED BY <1>1, <1>2, <1>3, TypeCorrect, PTL DEF Spec, LoadDeferralIsPatient

-----------------------------------------------------------------------------
(* LatSOFAudioDevice implements RecoveryBudget: every step is a step of    *)
(* that specification or a stutter.                                        *)

\* A pending round has a DSP to bring up and a try left to do it with, and before
\* the load nothing has been spent.
BudgetInv ==
  /\ gWakeReinitPending => ~hwReady /\ gWakeTries < MaxTries
  /\ phase = "unloaded" =>
       ~gWakeReinitPending /\ gWakeTries = 0 /\ gRecoveryEpisodes = 0

BudgetStep == [Budget!Next]_(Budget!vars)

-----------------------------------------------------------------------------
(* Steps that many actions share.                                          *)

\* Nothing the budget is about changes.
LEMMA BudgetFrame ==
  ASSUME BudgetInv, phase # "unloaded", phase' # "unloaded",
         UNCHANGED <<hwReady, gWakeReinitPending, gWakeTries, gRecoveryEpisodes>>
  PROVE  BudgetInv' /\ BudgetStep
BY DEF BudgetInv, BudgetStep, Budget!vars, RoundsLeft

\* A DSP declared dead costs a round, or nothing happens when none is left.
LEMMA RecoverStep ==
  ASSUME TypeOK, BudgetInv, hwReady, phase # "unloaded", UNCHANGED phase,
         ScheduleDspRecovery
  PROVE  BudgetInv' /\ BudgetStep
<1>1. gRecoveryEpisodes \in 0 .. MaxEpisodes + 1 /\ MaxEpisodes \in Nat
  BY DEF TypeOK, CaptureTypes
<1> DEFINE next == CountTo(MaxEpisodes + 1, gRecoveryEpisodes)
<1>2. CASE UNCHANGED <<hwReady, retryVars, gRecoveryEpisodes>>
  BY <1>2, BudgetFrame DEF retryVars
<1>3. CASE gRecoveryEpisodes' = next /\ next <= MaxEpisodes
           /\ hwReady' = FALSE /\ ScheduleRebuild(TRUE)
  <2>1. gRecoveryEpisodes' = gRecoveryEpisodes + 1 /\ gRecoveryEpisodes < MaxEpisodes
    BY <1>1, <1>3 DEF CountTo
  <2>2. RoundsLeft > 0 /\ RoundsLeft' = RoundsLeft - 1
    BY <1>1, <2>1 DEF RoundsLeft
  <2>3. Budget!Recover
    BY <1>3, <2>2 DEF Budget!Recover, Budget!Round, ScheduleRebuild
  <2>4. BudgetInv'
    BY <1>3 DEF BudgetInv, ScheduleRebuild
  <2> QED BY <2>3, <2>4 DEF BudgetStep, Budget!Next
<1>4. CASE gRecoveryEpisodes' = next /\ next > MaxEpisodes
           /\ UNCHANGED <<hwReady, retryVars>>
  <2>1. gRecoveryEpisodes >= MaxEpisodes /\ gRecoveryEpisodes' = MaxEpisodes + 1
    BY <1>1, <1>4 DEF CountTo
  <2>2. RoundsLeft = 0 /\ RoundsLeft' = 0
    BY <1>1, <2>1 DEF RoundsLeft
  <2> QED BY <1>4, <2>2 DEF BudgetInv, BudgetStep, Budget!vars, retryVars
<1>5. next <= MaxEpisodes \/ next > MaxEpisodes
  BY <1>1, CountToBound
<1> HIDE DEF next
<1>6. CASE mapped
  <2>1. /\ gRecoveryEpisodes' = next
        /\ next > MaxEpisodes => UNCHANGED <<hwReady, retryVars>>
        /\ ~(next > MaxEpisodes) => hwReady' = FALSE /\ ScheduleRebuild(TRUE)
    BY <1>6 DEF ScheduleDspRecovery, next
  <2>2. CASE next > MaxEpisodes
    BY <1>4, <2>1, <2>2
  <2>3. CASE ~(next > MaxEpisodes)
    BY <1>3, <1>5, <2>1, <2>3
  <2> QED BY <2>2, <2>3
<1>7. CASE ~mapped
  BY <1>2, <1>7 DEF ScheduleDspRecovery
<1> QED BY <1>6, <1>7

\* A fresh round with a full budget, for a DSP nobody is working on.
LEMMA AskStep ==
  ASSUME BudgetInv, phase # "unloaded", UNCHANGED phase,
         ~hwReady, ~hwReady', ~gWakeReinitPending,
         NEW hot, ScheduleRebuild(hot), gRecoveryEpisodes' = 0
  PROVE  BudgetInv' /\ BudgetStep
<1>1. RoundsLeft' = MaxEpisodes
  BY DEF RoundsLeft
<1>2. Budget!Ask
  BY <1>1 DEF Budget!Ask, Budget!Round, ScheduleRebuild
<1>3. BudgetInv'
  BY DEF BudgetInv, ScheduleRebuild
<1> QED BY <1>2, <1>3 DEF BudgetStep, Budget!Next

\* A gated capture start, whoever makes it.
LEMMA StartCaptureStep ==
  ASSUME TypeOK, BudgetInv, phase # "unloaded", UNCHANGED phase,
         NEW ret, StartCaptureGated(ret)
  PROVE  BudgetInv' /\ BudgetStep
<1>1. CASE CaptureRefused
  <2>1. CASE ~gWakeReinitPending /\ mapped
    BY <1>1, <2>1, AskStep DEF CaptureRefused
  <2>2. CASE ~(~gWakeReinitPending /\ mapped)
    BY <1>1, <2>2, BudgetFrame DEF CaptureRefused, retryVars
  <2> QED BY <2>1, <2>2
<1>2. CASE CaptureAlreadyRunning
  BY <1>2, BudgetFrame DEF CaptureAlreadyRunning, captureVars, retryVars
<1>3. CASE CaptureStarted
  <2>1. hwReady /\ UNCHANGED <<hwReady, retryVars>> /\ gRecoveryEpisodes' = 0
    BY <1>3 DEF CaptureStarted
  <2>2. Budget!Works
    BY <2>1 DEF Budget!Works, RoundsLeft, retryVars
  <2>3. BudgetInv'
    BY <2>1 DEF BudgetInv, retryVars
  <2> QED BY <2>2, <2>3 DEF BudgetStep, Budget!Next
<1>4. CASE ParamsTimeout \/ TriggerTimeout
  BY <1>4, RecoverStep DEF ParamsTimeout, TriggerTimeout
<1> QED BY <1>1, <1>2, <1>3, <1>4 DEF StartCaptureGated

\* A gated capture stop, whoever makes it.
LEMMA StopCaptureStep ==
  ASSUME TypeOK, BudgetInv, CaptureNeedsDsp, phase # "unloaded", UNCHANGED phase,
         StopCaptureGated
  PROVE  BudgetInv' /\ BudgetStep
<1>1. CASE UNCHANGED <<hwReady, retryVars, gRecoveryEpisodes>>
  BY <1>1, BudgetFrame DEF retryVars
<1>2. CASE isCapturing /\ ScheduleDspRecovery
  BY <1>2, RecoverStep DEF CaptureNeedsDsp
<1> QED BY <1>1, <1>2 DEF StopCaptureGated, captureVars

-----------------------------------------------------------------------------
(* The actions.                                                            *)

\* start() is Load, or ends the driver with the budget untouched.
LEMMA LoadStep ==
  ASSUME PowerInv, BudgetInv, Start
  PROVE  BudgetInv' /\ BudgetStep
<1>1. /\ phase = "unloaded" /\ phase' # "unloaded" /\ ~hwReady
      /\ ~gWakeReinitPending /\ gWakeTries = 0 /\ gRecoveryEpisodes = 0
      /\ UNCHANGED gRecoveryEpisodes
  BY DEF Start, StartDeferred, StartInit, InitDSP, BudgetInv, PowerInv, BeforeLoad
<1>2. CASE ~hwReady' /\ \E hot : ScheduleRebuild(hot)
  BY <1>1, <1>2 DEF BudgetInv, BudgetStep, Budget!Next, Budget!Load, Budget!Round,
                    RoundsLeft, ScheduleRebuild
<1>3. CASE UNCHANGED retryVars
  BY <1>1, <1>3 DEF BudgetInv, BudgetStep, Budget!Next, Budget!Load, RoundsLeft,
                    retryVars
<1>4. CASE StartDeferred
  BY <1>1, <1>2, <1>4 DEF StartDeferred
<1>5. ASSUME NEW out \in {"ok", "bail", "fail"}, StartInit(out)
      PROVE  BudgetInv' /\ BudgetStep
  <2>1. CASE out = "bail"
    BY <1>1, <1>2, <1>5, <2>1 DEF StartInit, InitDSP
  <2>2. CASE out # "bail"
    BY <1>3, <1>5, <2>2 DEF StartInit
  <2> QED BY <2>1, <2>2
<1> QED BY <1>4, <1>5 DEF Start

\* The one action that spends a try.
LEMMA AttemptStep ==
  ASSUME TypeOK, BudgetInv, NEW out \in {"ok", "bail", "fail"}, RetryAttempt(out)
  PROVE  BudgetInv' /\ BudgetStep
<1>1. /\ gWakeReinitPending /\ ~hwReady /\ phase # "unloaded"
      /\ gWakeTries \in 0 .. MaxTries /\ gWakeTries < MaxTries
      /\ UNCHANGED gRecoveryEpisodes
  BY DEF RetryAttempt, RetryDue, RetryApplies, GateFree, Loaded, BudgetInv, TypeOK,
         CaptureTypes
<1>2. gWakeTries' = gWakeTries + 1 /\ gWakeTries' \in 0 .. MaxTries
  BY <1>1 DEF RetryAttempt, CountTo
<1>3. UNCHANGED RoundsLeft
  BY <1>1 DEF RoundsLeft
<1>4. CASE out = "ok"
  <2>1. hwReady' /\ ~gWakeReinitPending' /\ phase' # "unloaded"
    BY <1>4 DEF RetryAttempt, InitDSP
  <2>2. Budget!Succeed
    BY <1>1, <1>2, <1>3, <2>1 DEF Budget!Succeed
  <2> QED BY <2>1, <2>2 DEF BudgetInv, BudgetStep, Budget!Next
<1>5. CASE out # "ok"
  <2>1. /\ UNCHANGED <<hwReady, phase>>
        /\ gWakeReinitPending' = (gWakeTries' < MaxTries)
    BY <1>5 DEF RetryAttempt, InitDSP, AttemptFailed
  <2>2. gWakeReinitPending' = (MaxTries - gWakeTries' > 0)
    BY <1>2, <2>1
  <2>3. Budget!Fail
    BY <1>1, <1>2, <1>3, <2>1, <2>2 DEF Budget!Fail
  <2> QED BY <1>1, <1>2, <2>1, <2>3 DEF BudgetInv, BudgetStep, Budget!Next
<1> QED BY <1>4, <1>5

\* The tick as a whole.
LEMMA TickStep ==
  ASSUME TypeOK, PowerInv, BudgetInv, JackPoll
  PROVE  BudgetInv' /\ BudgetStep
<1>0. phase # "unloaded"
  BY DEF JackPoll, RetryIdle, RetryDeferred, RetryAttempt, RetryDue, RetryRearm,
         ExecutorIdle, ExecutorNothingToDo, ExecutorRestart, ExecutorDrainsPause,
         GateFree, Loaded, PowerInv, BeforeLoad
<1>1. CASE RetryIdle
  BY <1>0, <1>1, BudgetFrame DEF RetryIdle
<1>2. CASE RetryDeferred
  <2>1. gWakeReinitPending /\ gWakeTries \in 0 .. MaxTries
    BY <1>2 DEF RetryDeferred, RetryDue, RetryApplies, TypeOK, CaptureTypes
  <2>2. ~(gWakeTries >= MaxTries)
    BY <2>1 DEF BudgetInv
  <2>3. UNCHANGED gWakeReinitPending
    BY <1>2, <2>2 DEF RetryDeferred
  <2> QED BY <1>0, <1>2, <2>3, BudgetFrame DEF RetryDeferred
<1>3. ASSUME NEW out \in {"ok", "bail", "fail"}, RetryAttempt(out)
      PROVE  BudgetInv' /\ BudgetStep
  BY <1>3, AttemptStep
<1>4. ASSUME NEW ret \in CaptureResults, RetryRearm(ret) \/ ExecutorRestart(ret)
      PROVE  BudgetInv' /\ BudgetStep
  BY <1>0, <1>4, StartCaptureStep DEF RetryRearm, ExecutorRestart, EngineStartCapture
<1>5. CASE ExecutorIdle \/ ExecutorNothingToDo \/ ExecutorDrainsPause
  <2>1. UNCHANGED <<captureVars, phase>>
    BY <1>5 DEF ExecutorIdle, ExecutorNothingToDo, ExecutorDrainsPause
  <2> QED BY <1>0, <2>1, BudgetFrame DEF captureVars, retryVars
<1> QED BY <1>1, <1>2, <1>3, <1>4, <1>5 DEF JackPoll

\* User clients and the engine's clients.
LEMMA ClientStep ==
  ASSUME TypeOK, PowerInv, BudgetInv, UserCalls \/ Family
  PROVE  BudgetInv' /\ BudgetStep
<1>1. ASSUME NEW ret \in CaptureResults, UserStartCapture(ret) \/ EngineClientStart(ret)
      PROVE  BudgetInv' /\ BudgetStep
  <2>1. phase # "unloaded" /\ UNCHANGED phase
        /\ (StartCaptureGated(ret) \/ UNCHANGED captureVars)
    BY <1>1 DEF UserStartCapture, EngineClientStart, EngineStartCapture, GateFree,
                Loaded
  <2> QED BY <2>1, StartCaptureStep, BudgetFrame DEF captureVars, retryVars
<1>2. CASE UserStopCapture \/ EngineClientStop \/ FamilyPauseStops
  <2>1. phase # "unloaded" /\ UNCHANGED phase
        /\ (StopCaptureGated \/ UNCHANGED captureVars)
    BY <1>2 DEF UserStopCapture, EngineClientStop, FamilyPauseStops, GateFree, Loaded
  <2> QED BY <2>1, StopCaptureStep, BudgetFrame DEF captureVars, retryVars, PowerInv
<1>3. CASE FamilySleep \/ FamilyPauseFlips \/ FamilyWake \/ EngineRequestResume
  <2>1. UNCHANGED <<captureVars, phase>>
    BY <1>3 DEF FamilySleep, FamilyPauseFlips, FamilyWake, EngineRequestResume
  <2> QED BY <2>1 DEF captureVars, retryVars, BudgetInv, BudgetStep, Budget!vars,
                      RoundsLeft
<1> QED BY <1>1, <1>2, <1>3 DEF UserCalls, Family

\* Sleep, wake and the platform.
LEMMA PowerStep ==
  ASSUME QuietClients, PowerInv, BudgetInv, PowerCallbacks \/ Platform
  PROVE  BudgetInv' /\ BudgetStep
<1>1. CASE PowerOff
  <2>1. /\ ~hwReady' /\ ~gWakeReinitPending' /\ phase # "unloaded"
        /\ UNCHANGED <<gWakeTries, gRecoveryEpisodes, phase>>
    BY <1>1 DEF PowerOff, GateFree, Loaded
  <2>2. Budget!PowerDown
    BY <2>1 DEF Budget!PowerDown, RoundsLeft
  <2> QED BY <2>1, <2>2 DEF BudgetInv, BudgetStep, Budget!Next
<1>2. CASE PowerOn
  <2>1. /\ ~hwReady /\ ~hwReady' /\ ~gWakeReinitPending /\ gSleptOnce
        /\ phase # "unloaded" /\ UNCHANGED phase
    BY <1>2 DEF PowerOn, QuietClients, GateFree, Loaded, PowerInv, PoweredDownIsQuiet,
                PowerSequence
  <2>2. CASE RemapFails
    BY <1>2, <2>1, <2>2, BudgetFrame DEF PowerOn, RemapFails, retryVars
  <2>3. CASE RemapSucceeds
    BY <2>1, <2>3, AskStep DEF RemapSucceeds
  <2> QED BY <1>2, <2>1, <2>2, <2>3 DEF PowerOn
<1>3. CASE WillSleep \/ WakeNotice \/ Platform
  <2>1. /\ UNCHANGED <<hwReady, retryVars, gRecoveryEpisodes, phase>>
    BY <1>3 DEF WillSleep, WakeNotice, Platform, ControllerD3, ControllerD0,
                AppleHDAOutput, SleepAborted, captureVars
  <2> QED BY <2>1 DEF retryVars, BudgetInv, BudgetStep, Budget!vars, RoundsLeft
<1> QED BY <1>1, <1>2, <1>3 DEF PowerCallbacks

-----------------------------------------------------------------------------
\* The driver never works harder at bringing its DSP up than RecoveryBudget
\* allows: at most MaxEpisodes rounds of MaxTries attempts per demand, however
\* refused captures, timed-out IPCs, bails, sleeps and wakes interleave.
THEOREM ImplementsBudget == ASSUME QuietClients PROVE Spec => WithinBudget
<1>1. Init => BudgetInv /\ Budget!Init
  BY DEF Init, BudgetInv, Budget!Init, RoundsLeft
<1>2. TypeOK /\ PowerInv /\ BudgetInv /\ [Next]_vars => BudgetInv' /\ BudgetStep
  <2>1. CASE UNCHANGED vars
    BY <2>1 DEF vars, captureVars, retryVars, progressVars, BudgetInv, BudgetStep,
                Budget!vars, RoundsLeft
  <2> QED BY <2>1, LoadStep, TickStep, ClientStep, PowerStep DEF Next
<1>3. QED
  BY <1>1, <1>2, TypeCorrect, PowerInvariant, PTL
     DEF Spec, WithinBudget, Budget!Spec, BudgetStep

-----------------------------------------------------------------------------
(* The account behind it: what the driver may still spend is a number that *)
(* only goes down between two grants.                                      *)

\* A round bought at the price of one of the rounds left costs more than it gives.
LEMMA RoundCosts ==
  ASSUME NEW r \in Nat, r > 0, NEW t \in Nat, NEW T \in Nat
  PROVE  (r - 1) * (T + 1) + T < r * (T + 1) + t
<1> DEFINE spent == (r - 1) * (T + 1)
           all == r * (T + 1)
<1>1. spent = all - (T + 1)
  OBVIOUS
<1>2. all \in Nat
  OBVIOUS
<1> HIDE DEF spent, all
<1>3. spent + T < all + t
  BY <1>1, <1>2
<1> QED BY <1>3 DEF spent, all

LEMMA ProductInNat == \A r, T \in Nat : r * (T + 1) \in Nat
OBVIOUS

\* The tries left before and after a step, of T tries with a and b spent.
LEMMA TriesArithmetic ==
  \A T \in Nat : \A a, b \in 0 .. T :
    /\ T - a \in Nat
    /\ T - b = T - a => b = a
    /\ T - b = T => ~(b > a)
    /\ b = a => ~(b > a)
OBVIOUS

\* The rounds left of n when g episodes are counted.
LEMMA RoundsArithmetic ==
  \A n \in Nat \ {0} : \A g \in 0 .. n + 1 :
    LET r == IF g <= n THEN n - g ELSE 0 IN
    r \in 0 .. n /\ (r = n => g = 0)
OBVIOUS

\* Nothing takes an episode off the counter of a DSP that stays ready but a capture that starts.
CounterKept == isCapturing' \/ gRecoveryEpisodes' >= gRecoveryEpisodes

LEMMA CounterUp ==
  ASSUME TypeOK
  PROVE  /\ UNCHANGED gRecoveryEpisodes => CounterKept
         /\ ScheduleDspRecovery => CounterKept
<1>1. gRecoveryEpisodes \in 0 .. MaxEpisodes + 1 /\ MaxEpisodes \in Nat
  BY BudgetAssumption DEF TypeOK, CaptureTypes
<1>2. CountTo(MaxEpisodes + 1, gRecoveryEpisodes) >= gRecoveryEpisodes
  BY <1>1 DEF CountTo
<1>3. ASSUME ScheduleDspRecovery
      PROVE  \/ gRecoveryEpisodes' = gRecoveryEpisodes
             \/ gRecoveryEpisodes' = CountTo(MaxEpisodes + 1, gRecoveryEpisodes)
  BY <1>3 DEF ScheduleDspRecovery
<1> QED BY <1>1, <1>2, <1>3 DEF CounterKept

\* The gated calls on a ready DSP.
LEMMA CounterCalls ==
  ASSUME TypeOK, hwReady
  PROVE  /\ \A ret : StartCaptureGated(ret) => CounterKept
         /\ StopCaptureGated => CounterKept
<1>1. ASSUME NEW ret, StartCaptureGated(ret)
      PROVE  CounterKept
  <2>1. CASE CaptureAlreadyRunning
    BY <2>1, CounterUp DEF CaptureAlreadyRunning, captureVars
  <2>2. CASE CaptureStarted
    BY <2>2 DEF CaptureStarted, CounterKept
  <2>3. CASE ParamsTimeout \/ TriggerTimeout
    BY <2>3, CounterUp DEF ParamsTimeout, TriggerTimeout
  <2> QED BY <1>1, <2>1, <2>2, <2>3 DEF StartCaptureGated, CaptureRefused
<1>2. ASSUME StopCaptureGated
      PROVE  CounterKept
  BY <1>2, CounterUp DEF StopCaptureGated, captureVars
<1> QED BY <1>1, <1>2

LEMMA CounterStep ==
  ASSUME TypeOK, PowerInv, hwReady, [Next]_vars
  PROVE  CounterKept
<1>1. CASE UNCHANGED gRecoveryEpisodes
  BY <1>1, CounterUp
<1>2. CASE \/ \E ret : StartCaptureGated(ret)
           \/ StopCaptureGated
  BY <1>2, CounterCalls
<1>3. CASE Start
  BY <1>3 , <1>1 DEF Start, PowerInv, BeforeLoad, StartDeferred, StartInit
<1>4. CASE JackPoll
  BY <1>1, <1>2, <1>4
     DEF JackPoll, RetryIdle, RetryDeferred, RetryAttempt, RetryRearm, ExecutorIdle,
         ExecutorNothingToDo, ExecutorRestart, ExecutorDrainsPause, EngineStartCapture,
         captureVars
<1>5. CASE UserCalls
  BY <1>2, <1>5 DEF UserCalls, UserStartCapture, UserStopCapture
<1>6. CASE PowerCallbacks
  BY <1>1, <1>6 DEF PowerCallbacks, WillSleep, WakeNotice, PowerOff, PowerOn, captureVars
<1>7. CASE Platform
  BY <1>1, <1>7
     DEF Platform, ControllerD3, ControllerD0, AppleHDAOutput, SleepAborted, captureVars
<1>8. CASE Family
  BY <1>1, <1>2, <1>8
     DEF Family, EngineClientStart, EngineClientStop, FamilySleep, FamilyPauseStops,
         FamilyPauseFlips, FamilyWake, EngineRequestResume, EngineStartCapture, captureVars
<1>9. CASE UNCHANGED vars
  BY <1>1, <1>9 DEF vars, captureVars
<1> QED BY <1>3, <1>4, <1>5, <1>6, <1>7, <1>8, <1>9 DEF Next

\* One step of the account, by the step of the budget it is.
LEMMA EffortStep ==
  ASSUME TypeOK, TypeOK', PowerInv, BudgetInv, BudgetStep, [Next]_vars
  PROVE  EffortIsSpent /\ EffortIsGranted
<1>1. /\ MaxTries \in Nat /\ MaxEpisodes \in Nat \ {0}
      /\ gWakeTries \in 0 .. MaxTries /\ gWakeTries' \in 0 .. MaxTries
      /\ gRecoveryEpisodes \in 0 .. MaxEpisodes + 1
      /\ gRecoveryEpisodes' \in 0 .. MaxEpisodes + 1
  BY BudgetAssumption DEF TypeOK, CaptureTypes
<1>2. /\ RoundsLeft \in 0 .. MaxEpisodes /\ RoundsLeft' \in 0 .. MaxEpisodes
      /\ RoundsLeft' = MaxEpisodes => gRecoveryEpisodes' = 0
  BY <1>1, RoundsArithmetic DEF RoundsLeft
<1> DEFINE all == RoundsLeft * (MaxTries + 1)
           allNext == RoundsLeft' * (MaxTries + 1)
           left == MaxTries - gWakeTries
           leftNext == MaxTries - gWakeTries'
<1>3. all \in Nat /\ allNext \in Nat
  <2>1. RoundsLeft \in Nat /\ RoundsLeft' \in Nat /\ MaxTries \in Nat
    BY <1>1, <1>2
  <2> QED BY <2>1, ProductInNat
<1>4. Effort = all + left /\ Effort' = allNext + leftNext
  BY DEF Effort
<1>5. left \in Nat /\ leftNext \in Nat
  BY <1>1, TriesArithmetic
<1>6. leftNext = left \/ leftNext = MaxTries => ~(gWakeTries' > gWakeTries)
  BY <1>1, TriesArithmetic
<1>7. RoundsLeft' = RoundsLeft => allNext = all
  OBVIOUS
<1>8. RoundsLeft' = RoundsLeft /\ leftNext = left =>
        ~(gWakeTries' > gWakeTries) /\ ~(Effort' > Effort)
  <2> SUFFICES ASSUME RoundsLeft' = RoundsLeft, leftNext = left
               PROVE  ~(gWakeTries' > gWakeTries) /\ ~(Effort' > Effort)
    OBVIOUS
  <2>1. ~(gWakeTries' > gWakeTries)
    BY <1>6
  <2>2. allNext = all
    BY <1>7
  <2> HIDE DEF all, allNext, left, leftNext
  <2>3. ~(Effort' > Effort)
    BY <1>3, <1>4, <1>5, <2>2
  <2> QED BY <2>1, <2>3
<1>9. CASE Budget!Load
  <2>1. phase = "unloaded" /\ ~hwReady
    BY <1>9 DEF Budget!Load, PowerInv, BeforeLoad
  <2>2. leftNext = left \/ leftNext = MaxTries
    BY <1>9 DEF Budget!Load, Budget!Round
  <2>3. ~(gWakeTries' > gWakeTries)
    BY <1>6, <2>2
  <2> QED BY <2>1, <2>3 DEF EffortIsSpent, EffortIsGranted
<1>10. CASE Budget!Succeed \/ Budget!Fail
  <2>1. RoundsLeft' = RoundsLeft /\ leftNext = left - 1
    BY <1>10 DEF Budget!Succeed, Budget!Fail
  <2>2. allNext = all
    BY <1>7, <2>1
  <2> HIDE DEF all, allNext, left, leftNext
  <2>3. Effort' < Effort /\ ~(Effort' > Effort)
    BY <1>3, <1>4, <1>5, <2>1, <2>2
  <2> QED BY <2>3 DEF EffortIsSpent, EffortIsGranted
<1>11. CASE Budget!Recover
  <2>1. RoundsLeft > 0 /\ RoundsLeft' = RoundsLeft - 1 /\ leftNext = MaxTries
    BY <1>11 DEF Budget!Recover, Budget!Round
  <2>2. RoundsLeft \in Nat
    BY <1>1, <1>2
  <2> HIDE DEF left
  <2>3. (RoundsLeft - 1) * (MaxTries + 1) + MaxTries < RoundsLeft * (MaxTries + 1) + left
    BY <1>1, <1>5, <2>1, <2>2, RoundCosts
  <2>4. allNext = (RoundsLeft - 1) * (MaxTries + 1)
    BY <2>1
  <2>5. allNext + MaxTries < all + left
    BY <2>3, <2>4
  <2> HIDE DEF all, allNext, leftNext
  <2>6. Effort' < Effort /\ ~(Effort' > Effort)
    BY <1>1, <1>3, <1>4, <1>5, <2>1, <2>5
  <2> QED BY <2>6 DEF EffortIsSpent, EffortIsGranted
<1>12. CASE Budget!Ask
  <2>1. /\ ~hwReady /\ ~gWakeReinitPending /\ gWakeReinitPending'
        /\ leftNext = MaxTries
    BY <1>12 DEF Budget!Ask, Budget!Round
  <2>2. ~(gWakeTries' > gWakeTries)
    BY <1>6, <2>1
  <2> QED BY <2>1, <2>2 DEF EffortIsSpent, EffortIsGranted
<1>13. CASE Budget!Works
  <2>1. /\ hwReady /\ gWakeReinitPending' = gWakeReinitPending
        /\ RoundsLeft' = MaxEpisodes /\ leftNext = left
    BY <1>13 DEF Budget!Works
  <2>2. ~gWakeReinitPending'
    BY <2>1 DEF BudgetInv
  <2>3. ~(gWakeTries' > gWakeTries)
    BY <1>6, <2>1
  <2>4. gRecoveryEpisodes' = 0
    BY <1>2, <2>1
  <2>5. CounterKept
    BY <2>1, CounterStep
  <2>6. CASE isCapturing'
    BY <2>1, <2>2, <2>3, <2>6 DEF EffortIsSpent, EffortIsGranted
  <2>7. CASE gRecoveryEpisodes' >= gRecoveryEpisodes
    <3>1. gRecoveryEpisodes = 0
      BY <1>1, <2>4, <2>7
    <3>2. RoundsLeft' = RoundsLeft
      BY <1>1, <2>4, <3>1 DEF RoundsLeft
    <3> QED BY <1>8, <2>1, <2>2, <2>3, <3>2 DEF EffortIsSpent, EffortIsGranted
  <2> QED BY <2>5, <2>6, <2>7 DEF CounterKept
<1>14. CASE Budget!PowerDown \/ UNCHANGED Budget!vars
  <2>1. RoundsLeft' = RoundsLeft /\ leftNext = left
    BY <1>14 DEF Budget!PowerDown, Budget!vars
  <2>2. ~(hwReady /\ gWakeReinitPending')
    BY <1>14 DEF Budget!PowerDown, Budget!vars, BudgetInv
  <2> QED BY <1>8, <2>1, <2>2 DEF EffortIsSpent, EffortIsGranted
<1> QED BY <1>9, <1>10, <1>11, <1>12, <1>13, <1>14 DEF BudgetStep, Budget!Next

-----------------------------------------------------------------------------
\* The retrying ends: a finite account pays for every counted attempt and every ready DSP
\* declared dead, and only the load, a capture that runs, or a demand or a wake that finds a
\* dead DSP with nobody working on it pays in.  (gRecoveryEpisodes closed an "unbounded
\* livelock"; this is the measure that shows it closed, the safety half of
\* LatSOFRecoveryLiveness!RecoveryTerminates.)
THEOREM EffortPaid == ASSUME QuietClients PROVE Spec => EffortIsPaidFor
<1>1. Init => BudgetInv
  BY DEF Init, BudgetInv
<1>2. TypeOK /\ PowerInv /\ BudgetInv /\ [Next]_vars => BudgetInv' /\ BudgetStep
  <2>1. CASE UNCHANGED vars
    BY <2>1 DEF vars, captureVars, retryVars, progressVars, BudgetInv, BudgetStep,
                Budget!vars, RoundsLeft
  <2> QED BY <2>1, LoadStep, TickStep, ClientStep, PowerStep DEF Next
<1>3. TypeOK /\ TypeOK' /\ PowerInv /\ BudgetInv /\ BudgetStep /\ [Next]_vars =>
        EffortIsSpent /\ EffortIsGranted
  BY EffortStep
<1>4. QED
  BY <1>1, <1>2, <1>3, TypeCorrect, PowerInvariant, PTL DEF Spec, EffortIsPaidFor
=============================================================================
