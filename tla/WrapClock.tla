------------------------------ MODULE WrapClock ------------------------------
(***************************************************************************)
(* The kernel engine's clock (kext/LatSOFAudio/LatSOFKernelAudio.cpp): how *)
(* the capture DMA's position becomes the loop count and the time stamps   *)
(* that IOAudioFamily derives sample time from.                            *)
(*                                                                         *)
(* Time advances one unit per frame of a ring of Ring frames.  A timer of  *)
(* period Poll looks at the position; the workloop it runs on may be busy, *)
(* so a look may be late.  While the DSP is down the position means        *)
(* nothing and the timeline runs free; afterwards DMA starts again at      *)
(* frame 0.  Stamping may spin for a position edge, during which time      *)
(* passes; the spin fails when its reads are preempted (or is disabled).   *)
(***************************************************************************)
EXTENDS Integers

CONSTANTS
  Ring,        \* frames of the capture ring (kEngineFrames)
  Poll,        \* period of the wrap timer (kWrapPollMS)
  SpinMax,     \* longest edge spin (kEdgeDeadlineNS)
  Late,        \* a poll's lateness while capture runs
  OutageLate,  \* ... while the DSP is down or being rebuilt on the workloop
  Horizon,     \* bound: the time the model stops at
  MaxOutages   \* bound: outages of one session

ASSUME ClockAssumption ==
  /\ Ring \in Nat \ {0} /\ Poll \in Nat \ {0} /\ Poll + Late + SpinMax < Ring
  /\ SpinMax \in Nat /\ Late \in Nat /\ OutageLate \in Nat
  /\ Horizon \in Nat \ {0} /\ MaxOutages \in Nat

VARIABLES
  time,
  valid, dma,         \* capturePositionValid, and when DMA was last at frame 0
  engineRunning, lastWrapFrame, lastStampTime,
  pollDue,            \* when the wrap timer is due
  start, loops, stampTime,   \* the family's view: anchor, loop count, last stamp
  outages             \* outages of this session

clockVars == <<lastWrapFrame, lastStampTime, start, loops, stampTime>>
vars == <<time, valid, dma, engineRunning, pollDue, outages, clockVars>>

TypeOK ==
  /\ time \in 1 .. Horizon /\ valid \in BOOLEAN /\ dma \in 1 .. Horizon
  /\ engineRunning \in BOOLEAN /\ lastWrapFrame \in 0 .. Ring - 1
  /\ lastStampTime \in 0 .. Horizon /\ pollDue \in 0 .. Horizon + Poll
  /\ start \in (1 - SpinMax) .. Horizon /\ stampTime \in (1 - SpinMax) .. Horizon
  /\ loops \in 0 .. Horizon /\ outages \in 0 .. MaxOutages
  /\ valid => dma <= time

Init ==
  /\ time = 1 /\ valid \in BOOLEAN /\ dma = 1
  /\ engineRunning = FALSE /\ lastWrapFrame = 0 /\ lastStampTime = 0
  /\ pollDue = 0 /\ start = 1 /\ loops = 0 /\ stampTime = 1 /\ outages = 0

-----------------------------------------------------------------------------
\* The frame the DMA fills at time t.
FrameAt(t) == (t - dma') % Ring

\* takeTimeStamp(FALSE): a session's frame 0, `pos' frames before `at'.
StampStart(at, pos) ==
  /\ lastStampTime' = at
  /\ start' = at - pos /\ stampTime' = at - pos /\ loops' = 0

\* takeTimeStamp(TRUE): one more loop, begun `pos' frames before `at'.
StampLoop(at, pos) ==
  /\ lastStampTime' = at
  /\ stampTime' = at - pos /\ loops' = loops + 1
  /\ UNCHANGED start

\* Arming the timer, after whatever time the handler spent.
ArmPoll == pollDue' = time' + Poll

(* performAudioEngineStart: capture is started, or joined if a user client *)
(* had it running already; the anchor is taken from an edge if one is      *)
(* caught, else from a position read after the spin and a clock read       *)
(* before it.                                                              *)
PerformAudioEngineStart(spin, edged) ==
  /\ ~engineRunning /\ time + spin <= Horizon
  /\ engineRunning' = TRUE /\ outages' = 0
  /\ valid' = TRUE /\ dma' = (IF valid THEN dma ELSE time)
  /\ time' = time + spin
  /\ lastWrapFrame' = FrameAt(time')
  /\ StampStart(IF edged THEN time' ELSE time, lastWrapFrame')
  /\ ArmPoll

\* performAudioEngineStop; engineStopCapture stops the DMA.
PerformAudioEngineStop ==
  /\ engineRunning
  /\ engineRunning' = FALSE /\ valid' = FALSE
  /\ UNCHANGED <<time, dma, pollDue, outages, clockVars>>

-----------------------------------------------------------------------------
(* wrapTimerFired.                                                         *)

PollFires == engineRunning /\ time >= pollDue

\* Mutant: while the position means nothing, the timeline stands still.
FreeRunFrozen == UNCHANGED clockVars

\* No position: one loop per ring period of elapsed time, at its nominal time.
FreeRun ==
  /\ IF lastStampTime # 0 /\ time - lastStampTime >= Ring
     THEN StampLoop(lastStampTime + Ring, 0)
     ELSE UNCHANGED <<lastStampTime, start, loops, stampTime>>
  /\ UNCHANGED lastWrapFrame

PollNotReady ==
  /\ PollFires /\ ~valid
  /\ UNCHANGED <<time, valid, dma, engineRunning, outages>>
  /\ FreeRun
  /\ ArmPoll

PollNoWrap ==
  /\ PollFires /\ valid
  /\ UNCHANGED <<time, valid, dma, engineRunning, outages>>
  /\ FrameAt(time) >= lastWrapFrame
  /\ lastWrapFrame' = FrameAt(time)
  /\ ArmPoll
  /\ UNCHANGED <<lastStampTime, start, loops, stampTime>>

\* Mutant: the frame to compare with is not moved to the new loop.
WrapKeepsFrame(spin) ==
  /\ StampLoop(time, FrameAt(time))
  /\ UNCHANGED lastWrapFrame

\* Mutant: the fallback pairs the position with a clock read after the spin.
WrapLateClock(spin) ==
  /\ StampLoop(time + spin, FrameAt(time))
  /\ lastWrapFrame' = FrameAt(time)

\* A wrap stamped from the pair read before the spin.
WrapFallback(spin) ==
  /\ StampLoop(time, FrameAt(time))
  /\ lastWrapFrame' = FrameAt(time)

\* A wrap stamped from an edge: position and time read together.
WrapEdge(spin) ==
  /\ StampLoop(time + spin, FrameAt(time + spin))
  /\ lastWrapFrame' = FrameAt(time + spin)

\* The position moved backwards since the last poll.
PollWrap(spin, edged) ==
  /\ PollFires /\ valid /\ time + spin <= Horizon
  /\ UNCHANGED <<valid, dma, engineRunning, outages>>
  /\ FrameAt(time) < lastWrapFrame
  /\ time' = time + spin
  /\ IF edged THEN WrapEdge(spin) ELSE WrapFallback(spin)
  /\ ArmPoll

-----------------------------------------------------------------------------
(* External: time, and the owner's DSP.                                    *)

\* A due poll runs within its lateness; a rebuild may hold the workloop longer.
Tick ==
  /\ time < Horizon
  /\ engineRunning => time < pollDue + (IF valid THEN Late ELSE OutageLate)
  /\ time' = time + 1
  /\ UNCHANGED <<valid, dma, engineRunning, pollDue, outages, clockVars>>

\* Recovery, a sleep, or a user client's stop takes the position away.
CaptureLost ==
  /\ valid /\ outages < MaxOutages
  /\ valid' = FALSE
  /\ outages' = IF engineRunning THEN outages + 1 ELSE outages
  /\ UNCHANGED <<time, dma, engineRunning, pollDue, clockVars>>

\* Capture starts again: the stream was reset, so DMA begins at frame 0.
CaptureBack ==
  /\ ~valid /\ valid' = TRUE /\ dma' = time
  /\ UNCHANGED <<time, engineRunning, pollDue, outages, clockVars>>

\* A spin that caught an edge saw the position move.
Spins == ((0 .. SpinMax) \X {FALSE}) \cup ((1 .. SpinMax) \X {TRUE})

Next ==
  \/ \E s \in Spins : PerformAudioEngineStart(s[1], s[2])
  \/ PerformAudioEngineStop
  \/ PollNotReady \/ PollNoWrap
  \/ \E s \in Spins : PollWrap(s[1], s[2])
  \/ Tick \/ CaptureLost \/ CaptureBack

Spec == Init /\ [][Next]_vars
-----------------------------------------------------------------------------
(* Properties.                                                             *)

Abs(n) == IF n < 0 THEN -n ELSE n

\* How far the family's sample time is from elapsed host time at the last stamp.
Skew == stampTime - start - loops * Ring

\* A loop stamped from a position is stamped at the instant the DMA really passed
\* frame 0, however late the poll and however long its spin; and no stamp goes back, nor
\* names a time that has not come, through outages and restarts of the DMA at frame 0.
StampOnWrap ==
  [][loops' > loops =>
       /\ valid => (stampTime' - dma) % Ring = 0
       /\ stampTime' >= stampTime /\ stampTime' <= time']_vars

\* Without an outage no wrap is lost or counted twice (the skew is the anchor's, of
\* less than a spin); each outage is a discontinuity of less than two rings.
\* (wrapTimerFired: "sample time and host time stay locked together across the
\* outage".)
TimelineLocked == engineRunning => Abs(Skew) <= outages * 2 * Ring + SpinMax

Later(a, b) == IF a < b THEN b ELSE a

\* A ring and what may pass until a poll notices its end.
Span == Ring + Poll + Later(Late, OutageLate) + SpinMax

\* The timeline is never frozen for long ("a frozen fLastLoopTime stalls a client's read head
\* outright"): a DMA that runs gets its next stamp within a ring and a poll of the last one,
\* or of its start; and each outage holds the stamps up by as much at most, for the position
\* to compare with stays that of the DMA before ("lastWrapFrame deliberately untouched").
TimelineCurrent ==
  engineRunning =>
    /\ valid => time - Later(stampTime, dma) <= Span
    /\ time - stampTime <= (outages + 1) * Span
=============================================================================
