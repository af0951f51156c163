----------------------- MODULE LatSOFBudgetRefinement -----------------------
(***************************************************************************)
(* LatSOFAudioDevice implements RecoveryBudget: the episode counter, the   *)
(* try counter and the pending latch are that promise's rounds, tries and  *)
(* pending, whatever the ticks, callers, power callbacks and AppleHDA do   *)
(* in between.                                                             *)
(***************************************************************************)
EXTENDS LatSOFAudioDevice

\* Above its threshold the episode counter buys nothing more.
RoundsLeft ==
  IF gRecoveryEpisodes <= MaxEpisodes THEN MaxEpisodes - gRecoveryEpisodes ELSE 0

Budget == INSTANCE RecoveryBudget WITH
  Rounds <- MaxEpisodes, Tries <- MaxTries,
  loaded <- (phase # "unloaded"), ready <- hwReady,
  pending <- gWakeReinitPending,
  rounds <- RoundsLeft, tries <- MaxTries - gWakeTries

\* The retry engine, the recovery path, the demand refill and the wake path
\* share one budget and keep to it: no order of refused captures, stop IPCs that
\* time out, borrows that bail and wakes buys an attempt RecoveryBudget does not
\* grant.  (The "unbounded livelock" gRecoveryEpisodes was introduced to close.)
WithinBudget == Budget!Spec

\* What the driver may still spend before it gives the DSP up: attempts, and declaring it dead.
Effort == RoundsLeft * (MaxTries + 1) + (MaxTries - gWakeTries)

\* Every counted attempt and every ready DSP declared dead is paid for out of it.
EffortIsSpent ==
  gWakeTries' > gWakeTries \/ (hwReady /\ gWakeReinitPending') => Effort' < Effort

\* Only the load, a capture that runs, or a demand or a wake that finds a dead DSP with nobody
\* working on it pays in.
EffortIsGranted ==
  Effort' > Effort =>
    \/ phase = "unloaded"
    \/ hwReady /\ isCapturing'
    \/ ~hwReady /\ ~gWakeReinitPending /\ gWakeReinitPending'

\* The account behind the promise: between two grants the driver's efforts run down a finite
\* number, so gRecoveryEpisodes and gWakeTries do end the retrying they were introduced to end.
EffortIsPaidFor == [][EffortIsSpent /\ EffortIsGranted]_vars
=============================================================================
