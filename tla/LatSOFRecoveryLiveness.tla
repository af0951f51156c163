----------------------- MODULE LatSOFRecoveryLiveness -----------------------
(***************************************************************************)
(* What the recovery state machine of LatSOFAudioDevice must eventually    *)
(* do, under the fairness its scheduling gives: the 500 ms timer keeps     *)
(* firing, a thread waiting for the command gate gets it between two       *)
(* ticks, and the platform finishes the sleep or wake it has begun.        *)
(*                                                                         *)
(* Nothing is assumed of clients, of AppleHDA's output or of the firmware: *)
(* each property says instead from when on they must leave the driver      *)
(* alone (Undisturbed) or behave (Healthy) for it to converge.             *)
(***************************************************************************)
EXTENDS LatSOFAudioDevice

\* What a sleep or wake still has to do, under the command gate or outside it.
GatedMachinery ==
  WakeNotice \/ PowerOff \/ PowerOn \/ FamilyPauseStops \/ EngineRequestResume
UngatedMachinery ==
  FamilySleep \/ FamilyPauseFlips \/ FamilyWake \/ ControllerD3 \/ ControllerD0

Fairness ==
  /\ WF_vars(JackPoll)
  /\ SF_vars(GatedMachinery)
  /\ WF_vars(UngatedMachinery)

FairSpec == Spec /\ Fairness

-----------------------------------------------------------------------------
\* Somebody asks for something new: a client, the user closing the lid, or
\* AppleHDA changing what it does with its output.
Disturbance ==
  \/ UserCalls \/ EngineClientStop
  \/ \E ret \in CaptureResults : EngineClientStart(ret)
  \/ WillSleep \/ AppleHDAOutput

\* A load attempt fails, or a capture IPC times out.
Fault ==
  \/ gWakeTries' > gWakeTries /\ ~hwReady'
  \/ gRecoveryEpisodes' > gRecoveryEpisodes

Undisturbed == ~Disturbance
Healthy == ~Disturbance /\ ~Fault

\* Waiting for the output AppleHDA plays on is free and may last.
OutputPlaying == sd7 = "running"
BudgetSpent ==
  \/ ~hwReady /\ gWakeTries >= MaxTries
  \/ gRecoveryEpisodes > MaxEpisodes

\* A firmware that answers nothing cannot make the driver spin forever: left
\* alone by its clients, every rebuild round ends, however the faults fall
\* (README.md "bounded to three attempts"; scheduleDspRecovery).
RecoveryTerminates ==
  <>[][Undisturbed]_vars => <>[](gWakeReinitPending => OutputPlaying)

\* Once the firmware answers again, a latched capture demand is served, unless
\* a budget had been spent before: the retry round succeeds and re-arms.
DemandServed ==
  <>[][Healthy]_vars =>
    <>[](gWasCapturing => isCapturing \/ OutputPlaying \/ BudgetSpent)

\* A latched resume completes: whichever of the family's resume, the wake
\* callback, the rebuild and the sleep latch comes last, a later tick restarts the
\* held engine (or finds nobody holding it) and consumes the latch.
SessionRestored ==
  <>[][Healthy]_vars =>
    <>[](gEngineResumePending => OutputPlaying \/ BudgetSpent)
=============================================================================
