---------------------------- MODULE WrapClockProofs ----------------------------
(***************************************************************************)
(* The engine's clock for every ring, poll period, spin, lateness and      *)
(* number of outages: its types, where its stamps lie, and that sample     *)
(* time stays with host time.                                              *)
(***************************************************************************)
EXTENDS WrapClock, TLAPS

USE ClockAssumption

-----------------------------------------------------------------------------
(* Where the DMA passes frame 0.                                           *)

\* The instants at which a DMA that was at frame 0 at time d is there (again).
Passes(d) == {w \in Int : \E n \in Nat : w = d + Ring * n}

\* Quotient and remainder.
LEMMA Divided ==
  ASSUME NEW x \in Nat
  PROVE  x \div Ring \in Nat /\ x % Ring \in 0 .. Ring - 1 /\ x = Ring * (x \div Ring) + (x % Ring)
<1>1. x \div Ring \in Int /\ x % Ring \in 0 .. Ring - 1
  OBVIOUS
<1>2. x = Ring * (x \div Ring) + (x % Ring)
  OBVIOUS
<1> DEFINE q == x \div Ring
           r == x % Ring
<1>3. q \in Int /\ r \in 0 .. Ring - 1 /\ x = Ring * q + r
  BY <1>1, <1>2
<1> HIDE DEF q, r
<1>4. q >= 0
  <2> SUFFICES ASSUME q <= -1 PROVE FALSE
    BY <1>3
  <2>1. Ring * q <= Ring * (-1)
    BY <1>3
  <2> QED BY <1>3, <2>1
<1> QED BY <1>1, <1>2, <1>4 DEF q, r

LEMMA PassIsInt == ASSUME NEW d, NEW w \in Passes(d) PROVE w \in Int
BY DEF Passes

\* Two passes are a ring apart, or more.
LEMMA PassesApart ==
  ASSUME NEW d \in Int, NEW v \in Passes(d), NEW w \in Passes(d), v < w
  PROVE  v + Ring <= w
<1>1. PICK m \in Nat : v = d + Ring * m
  BY DEF Passes
<1>2. PICK n \in Nat : w = d + Ring * n
  BY DEF Passes
<1>3. m < n
  <2> SUFFICES ASSUME n <= m PROVE FALSE
    BY <1>1, <1>2
  <2>1. Ring * n <= Ring * m
    BY <1>1, <1>2
  <2> QED BY <1>1, <1>2, <2>1
<1>4. Ring * (m + 1) <= Ring * n
  BY <1>3
<1>5. Ring * (m + 1) = Ring * m + Ring
  OBVIOUS
<1> QED BY <1>1, <1>2, <1>4, <1>5

\* At a pass the DMA is at frame 0.
LEMMA PassIsFrameZero ==
  ASSUME NEW d \in Int, NEW w \in Passes(d)
  PROVE  (w - d) % Ring = 0
<1>1. PICK n \in Nat : w = d + Ring * n
  BY DEF Passes
<1> DEFINE x == Ring * n
           q == x \div Ring
           r == x % Ring
<1>2. x \in Nat
  OBVIOUS
<1>3. q \in Nat /\ r \in 0 .. Ring - 1 /\ x = Ring * q + r
  BY <1>2, Divided
<1> HIDE DEF q, r
<1>4. q = n
  <2>1. ~(q < n)
    <3> SUFFICES ASSUME q + 1 <= n PROVE FALSE
      BY <1>3
    <3>1. Ring * (q + 1) <= Ring * n
      BY <1>3
    <3>2. Ring * (q + 1) = Ring * q + Ring
      BY <1>3
    <3> QED BY <1>3, <3>1, <3>2
  <2>2. ~(n < q)
    <3> SUFFICES ASSUME n + 1 <= q PROVE FALSE
      BY <1>3
    <3>1. Ring * (n + 1) <= Ring * q
      BY <1>3
    <3>2. Ring * (n + 1) = Ring * n + Ring
      OBVIOUS
    <3> QED BY <1>3, <3>1, <3>2
  <2> QED BY <1>3, <2>1, <2>2
<1>5. r = 0
  BY <1>3, <1>4
<1>6. w - d = x
  BY <1>1
<1> QED BY <1>5, <1>6 DEF r

\* The frame the DMA fills at time t tells when it last passed frame 0.
LEMMA LastPass ==
  ASSUME NEW d \in Int, NEW t \in Int, d <= t
  PROVE  \E f \in 0 .. Ring - 1 : \E w \in Int :
           f = (t - d) % Ring /\ w = t - f /\ w \in Passes(d) /\ d <= w /\ t < w + Ring
<1> DEFINE x == t - d
           q == x \div Ring
           r == x % Ring
<1>1. x \in Nat
  OBVIOUS
<1>2. q \in Nat /\ r \in 0 .. Ring - 1 /\ x = Ring * q + r
  BY <1>1, Divided
<1> HIDE DEF q, r
<1>3. t - r = d + Ring * q /\ Ring * q \in Nat
  BY <1>2
<1>4. t - r \in Passes(d) /\ d <= t - r /\ t < (t - r) + Ring
  BY <1>2, <1>3 DEF Passes
<1>5. r = (t - d) % Ring
  BY DEF r
<1> QED BY <1>2, <1>4, <1>5

-----------------------------------------------------------------------------
(* Types, and where the stamps lie.                                        *)

\* When the timer was armed last.
Armed == pollDue - Poll

\* While the engine runs the last stamp was made by the last poll at the latest, a loop takes
\* an instant or more, and no stamp is after the DMA's last pass.
RunningInv ==
  /\ loops <= lastStampTime /\ 1 <= lastStampTime
  /\ stampTime <= lastStampTime /\ lastStampTime <= Armed /\ Armed <= time
  /\ valid => \E w \in Passes(dma) : w <= time /\ stampTime <= w

ClockInv == TypeOK /\ (engineRunning => RunningInv)

LEMMA SpinTypes == ASSUME NEW s \in Spins PROVE s[1] \in 0 .. SpinMax /\ s[2] \in BOOLEAN
<1>1. s \in ((0 .. SpinMax) \X {FALSE}) \cup ((1 .. SpinMax) \X {TRUE})
  BY DEF Spins
<1>2. CASE s \in (0 .. SpinMax) \X {FALSE}
  <2>1. s[1] \in 0 .. SpinMax /\ s[2] \in {FALSE}
    BY <1>2
  <2> QED BY <2>1
<1>3. CASE s \in (1 .. SpinMax) \X {TRUE}
  <2>1. s[1] \in 1 .. SpinMax /\ s[2] \in {TRUE}
    BY <1>3
  <2>2. s[1] \in 0 .. SpinMax
    BY <2>1
  <2>3. s[2] \in BOOLEAN
    BY <2>1
  <2> QED BY <2>2, <2>3
<1> QED BY <1>1, <1>2, <1>3

\* What a wrap is stamped from: a position and the time it was read at.
LEMMA PollWrapStamps ==
  ASSUME TypeOK, NEW s \in Spins, PollWrap(s[1], s[2])
  PROVE  \E spin \in 0 .. SpinMax : \E at \in Int :
           /\ time <= at /\ at <= time' /\ time' = time + spin /\ time' <= Horizon /\ pollDue' = time' + Poll
           /\ lastWrapFrame' = (at - dma) % Ring
           /\ lastStampTime' = at /\ stampTime' = at - lastWrapFrame'
           /\ loops' = loops + 1
           /\ UNCHANGED <<valid, dma, engineRunning, outages, start>>
           /\ engineRunning /\ valid /\ time >= pollDue
           /\ (time - dma) % Ring < lastWrapFrame
<1>1. s[1] \in 0 .. SpinMax /\ s[2] \in BOOLEAN
  BY SpinTypes
<1> DEFINE at == IF s[2] THEN time + s[1] ELSE time
<1>2. at \in Int /\ time <= at /\ at <= time + s[1]
  BY <1>1 DEF TypeOK
<1>3. /\ lastWrapFrame' = (at - dma) % Ring
      /\ lastStampTime' = at /\ stampTime' = at - lastWrapFrame'
      /\ loops' = loops + 1 /\ UNCHANGED start
  BY DEF PollWrap, WrapEdge, WrapFallback, StampLoop, FrameAt
<1>4. /\ time' = time + s[1] /\ time' <= Horizon /\ pollDue' = time' + Poll
      /\ UNCHANGED <<valid, dma, engineRunning, outages>>
      /\ engineRunning /\ valid /\ time >= pollDue
      /\ (time - dma) % Ring < lastWrapFrame
  BY DEF PollWrap, PollFires, ArmPoll, FrameAt
<1> HIDE DEF at
<1> QED BY <1>1, <1>2, <1>3, <1>4

\* The anchor of a session.
LEMMA StartStamps ==
  ASSUME TypeOK, NEW s \in Spins, PerformAudioEngineStart(s[1], s[2])
  PROVE  \E spin \in 0 .. SpinMax : \E at \in Int :
           /\ time <= at /\ at <= time' /\ time' = time + spin /\ time' <= Horizon /\ pollDue' = time' + Poll
           /\ dma' = (IF valid THEN dma ELSE time) /\ valid' = TRUE
           /\ engineRunning' = TRUE /\ outages' = 0
           /\ lastWrapFrame' = (time' - dma') % Ring
           /\ lastStampTime' = at /\ stampTime' = at - lastWrapFrame'
           /\ start' = stampTime' /\ loops' = 0
<1>1. s[1] \in 0 .. SpinMax /\ s[2] \in BOOLEAN
  BY SpinTypes
<1> DEFINE at == IF s[2] THEN time + s[1] ELSE time
<1>2. at \in Int /\ time <= at /\ at <= time + s[1]
  BY <1>1 DEF TypeOK
<1>3. /\ lastStampTime' = at /\ stampTime' = at - lastWrapFrame'
      /\ start' = stampTime' /\ loops' = 0
  BY DEF PerformAudioEngineStart, StampStart
<1>4. /\ time' = time + s[1] /\ time' <= Horizon /\ pollDue' = time' + Poll
      /\ dma' = (IF valid THEN dma ELSE time) /\ valid' = TRUE
      /\ engineRunning' = TRUE /\ outages' = 0
      /\ lastWrapFrame' = (time' - dma') % Ring
  BY DEF PerformAudioEngineStart, ArmPoll, FrameAt
<1> HIDE DEF at
<1> QED BY <1>1, <1>2, <1>3, <1>4

LEMMA ClockStarts ==
  ASSUME ClockInv, NEW s \in Spins, PerformAudioEngineStart(s[1], s[2])
  PROVE  ClockInv'
<1>1. TypeOK
  BY DEF ClockInv
<1>2. PICK spin \in 0 .. SpinMax : \E at \in Int :
           /\ time <= at /\ at <= time' /\ time' = time + spin /\ time' <= Horizon /\ pollDue' = time' + Poll
           /\ dma' = (IF valid THEN dma ELSE time) /\ valid' = TRUE
           /\ engineRunning' = TRUE /\ outages' = 0
           /\ lastWrapFrame' = (time' - dma') % Ring
           /\ lastStampTime' = at /\ stampTime' = at - lastWrapFrame'
           /\ start' = stampTime' /\ loops' = 0
  BY <1>1, StartStamps
<1>3. PICK at \in Int :
           time <= at /\ at <= time' /\ lastStampTime' = at /\ stampTime' = at - lastWrapFrame'
  BY <1>2
<1>4. dma' \in 1 .. Horizon /\ time' \in 1 .. Horizon /\ dma' <= time'
  BY <1>1, <1>2 DEF TypeOK
<1>5. PICK f \in 0 .. Ring - 1, w \in Int :
           /\ f = (time' - dma') % Ring /\ w = time' - f
           /\ w \in Passes(dma') /\ dma' <= w /\ time' < w + Ring
  <2>1. dma' \in Int /\ time' \in Int /\ dma' <= time'
    BY <1>4
  <2> QED BY <2>1, LastPass
<1>6. TypeOK'
  BY <1>1, <1>2, <1>3, <1>4, <1>5 DEF TypeOK
<1>7. RunningInv'
  <2>1. w <= time' /\ stampTime' <= w
    BY <1>1, <1>2, <1>3, <1>4, <1>5 DEF TypeOK
  <2>2. \E v \in Passes(dma') : v <= time' /\ stampTime' <= v
    BY <1>5, <2>1
  <2>3. /\ loops' <= lastStampTime' /\ 1 <= lastStampTime'
        /\ stampTime' <= lastStampTime' /\ lastStampTime' <= Armed' /\ Armed' <= time'
    BY <1>1, <1>2, <1>3, <1>4, <1>5 DEF TypeOK, Armed
  <2>4. (\E v \in Passes(dma) : v <= time /\ stampTime <= v)' <=>
        \E v \in Passes(dma') : v <= time' /\ stampTime' <= v
    BY DEF Passes
  <2> QED BY <2>2, <2>3, <2>4 DEF RunningInv
<1> QED BY <1>6, <1>7 DEF ClockInv

LEMMA ClockWraps ==
  ASSUME ClockInv, NEW s \in Spins, PollWrap(s[1], s[2])
  PROVE  /\ ClockInv'
         /\ stampTime' \in Passes(dma) /\ stampTime' >= stampTime /\ stampTime' <= time'
<1>1. TypeOK
  BY DEF ClockInv
<1>2. PICK spin \in 0 .. SpinMax : \E at \in Int :
           /\ time <= at /\ at <= time' /\ time' = time + spin /\ time' <= Horizon /\ pollDue' = time' + Poll
           /\ lastWrapFrame' = (at - dma) % Ring
           /\ lastStampTime' = at /\ stampTime' = at - lastWrapFrame'
           /\ loops' = loops + 1
           /\ UNCHANGED <<valid, dma, engineRunning, outages, start>>
           /\ engineRunning /\ valid /\ time >= pollDue
           /\ (time - dma) % Ring < lastWrapFrame
  BY <1>1, PollWrapStamps
<1>3. PICK at \in Int :
           /\ time <= at /\ at <= time' /\ lastWrapFrame' = (at - dma) % Ring
           /\ lastStampTime' = at /\ stampTime' = at - lastWrapFrame'
  BY <1>2
<1>4. RunningInv
  BY <1>2 DEF ClockInv
<1>5. /\ dma \in Int /\ at \in Int /\ time \in Int /\ dma <= time /\ time <= at /\ at <= time'
      /\ time' \in 1 .. Horizon
  BY <1>1, <1>2, <1>3 DEF TypeOK
<1>6. PICK f \in 0 .. Ring - 1, w \in Int :
           f = (at - dma) % Ring /\ w = at - f /\ w \in Passes(dma) /\ dma <= w /\ at < w + Ring
  <2>1. dma <= at
    BY <1>5
  <2> QED BY <1>5, <2>1, LastPass
<1>7. PICK v \in Int : v \in Passes(dma) /\ v <= time /\ stampTime <= v
  <2>1. PICK u \in Passes(dma) : u <= time /\ stampTime <= u
    BY <1>2, <1>4 DEF RunningInv
  <2> QED BY <2>1, PassIsInt
<1>8. v <= w
  <2>1. v < w + Ring
    BY <1>5, <1>6, <1>7
  <2> QED BY <1>5, <1>6, <1>7, <2>1, PassesApart
<1>9. /\ stampTime' = w /\ w >= stampTime /\ w <= time' /\ w \in Passes(dma)
      /\ lastWrapFrame' = f
  BY <1>1, <1>3, <1>5, <1>6, <1>7, <1>8 DEF TypeOK
<1>10. loops <= lastStampTime /\ lastStampTime + Poll <= time
  BY <1>1, <1>2, <1>4 DEF RunningInv, Armed, TypeOK
<1>11. TypeOK'
  BY <1>1, <1>2, <1>3, <1>4, <1>5, <1>6, <1>9, <1>10 DEF TypeOK, RunningInv
<1>12. RunningInv'
  <2>1. (\E u \in Passes(dma) : u <= time /\ stampTime <= u)'
    <3>1. dma' = dma
      BY <1>2
    <3>2. \E u \in Passes(dma') : u <= time' /\ stampTime' <= u
      BY <1>3, <1>9, <3>1
    <3> QED BY <3>2 DEF Passes
  <2>2. /\ loops' <= lastStampTime' /\ 1 <= lastStampTime'
        /\ stampTime' <= lastStampTime' /\ lastStampTime' <= Armed' /\ Armed' <= time'
    BY <1>1, <1>2, <1>3, <1>5, <1>6, <1>9, <1>10 DEF TypeOK, Armed
  <2> QED BY <2>1, <2>2 DEF RunningInv
<1> QED BY <1>9, <1>11, <1>12 DEF ClockInv

LEMMA ClockFreeRuns ==
  ASSUME ClockInv, PollNotReady
  PROVE  ClockInv' /\ stampTime' >= stampTime /\ stampTime' <= time'
<1>1. TypeOK /\ RunningInv /\ ~valid /\ engineRunning /\ pollDue <= time
  BY DEF ClockInv, PollNotReady, PollFires
<1>2. /\ UNCHANGED <<time, valid, dma, engineRunning, outages, start, lastWrapFrame>>
      /\ pollDue' = time + Poll
  BY DEF PollNotReady, FreeRun, ArmPoll, StampLoop
<1>3. \/ UNCHANGED <<lastStampTime, loops, stampTime>>
      \/ /\ time - lastStampTime >= Ring
         /\ lastStampTime' = lastStampTime + Ring /\ stampTime' = lastStampTime + Ring
         /\ loops' = loops + 1
  BY <1>1 DEF PollNotReady, FreeRun, StampLoop, TypeOK
<1>4. TypeOK'
  BY <1>1, <1>2, <1>3 DEF TypeOK, RunningInv
<1>5. RunningInv' /\ stampTime' >= stampTime /\ stampTime' <= time'
  BY <1>1, <1>2, <1>3 DEF TypeOK, RunningInv, Armed
<1> QED BY <1>4, <1>5 DEF ClockInv

LEMMA ClockLooks == ASSUME ClockInv, PollNoWrap PROVE ClockInv'
<1>1. TypeOK /\ RunningInv /\ valid /\ engineRunning /\ pollDue <= time
  BY DEF ClockInv, PollNoWrap, PollFires
<1>2. /\ UNCHANGED <<time, valid, dma, engineRunning, outages, start, lastStampTime, loops,
                     stampTime>>
      /\ pollDue' = time + Poll /\ lastWrapFrame' = (time - dma) % Ring
  BY DEF PollNoWrap, ArmPoll, FrameAt
<1>3. dma \in Int /\ time \in Int /\ dma <= time
  BY <1>1 DEF TypeOK
<1>4. lastWrapFrame' \in 0 .. Ring - 1
  BY <1>2, <1>3, LastPass
<1>5. TypeOK'
  BY <1>1, <1>2, <1>4 DEF TypeOK
<1>6. RunningInv'
  <2>1. (\E w \in Passes(dma) : w <= time /\ stampTime <= w)'
    BY <1>1, <1>2 DEF RunningInv, Passes
  <2> QED BY <1>1, <1>2, <2>1 DEF TypeOK, RunningInv, Armed
<1> QED BY <1>5, <1>6 DEF ClockInv

LEMMA ClockPasses ==
  ASSUME ClockInv, PerformAudioEngineStop \/ Tick \/ CaptureLost \/ CaptureBack
  PROVE  ClockInv'
<1>1. TypeOK
  BY DEF ClockInv
<1>2. CASE PerformAudioEngineStop
  BY <1>1, <1>2 DEF PerformAudioEngineStop, ClockInv, TypeOK, clockVars
<1>3. CASE Tick
  <2>1. TypeOK'
    BY <1>1, <1>3 DEF Tick, TypeOK, clockVars
  <2>2. ASSUME engineRunning' PROVE RunningInv'
    <3>1. RunningInv
      BY <1>3, <2>2 DEF Tick, ClockInv
    <3>2. (\E w \in Passes(dma) : w <= time /\ stampTime <= w)' \/ ~valid'
      <4> SUFFICES ASSUME valid PROVE (\E w \in Passes(dma) : w <= time /\ stampTime <= w)'
        BY <1>3 DEF Tick
      <4>1. PICK w \in Passes(dma) : w <= time /\ stampTime <= w
        BY <3>1 DEF RunningInv
      <4>2. w <= time'
        BY <1>1, <1>3, <4>1 DEF Tick, TypeOK, Passes
      <4> QED BY <1>3, <4>1, <4>2 DEF Tick, Passes, clockVars
    <3> QED BY <1>1, <1>3, <3>1, <3>2 DEF Tick, RunningInv, Armed, TypeOK, clockVars
  <2> QED BY <2>1, <2>2 DEF ClockInv
<1>4. CASE CaptureLost
  <2>1. TypeOK'
    <3>1. outages' \in 0 .. MaxOutages
      BY <1>1, <1>4 DEF CaptureLost, TypeOK
    <3> QED BY <1>1, <1>4, <3>1 DEF CaptureLost, TypeOK, clockVars
  <2>2. ASSUME engineRunning' PROVE RunningInv'
    <3>1. RunningInv /\ ~valid'
      BY <1>4, <2>2 DEF CaptureLost, ClockInv
    <3> QED BY <1>4, <3>1 DEF CaptureLost, RunningInv, Armed, clockVars
  <2> QED BY <2>1, <2>2 DEF ClockInv
<1>5. CASE CaptureBack
  <2>1. TypeOK'
    BY <1>1, <1>5 DEF CaptureBack, TypeOK, clockVars
  <2>2. ASSUME engineRunning' PROVE RunningInv'
    <3>1. RunningInv
      BY <1>5, <2>2 DEF CaptureBack, ClockInv
    <3>2. dma' \in Passes(dma') /\ dma' = time
      BY <1>1, <1>5 DEF CaptureBack, Passes, TypeOK
    <3>3. stampTime <= time
      BY <1>1, <3>1 DEF RunningInv, TypeOK, Armed
    <3>4. (\E w \in Passes(dma) : w <= time /\ stampTime <= w)'
      <4>1. dma' <= time' /\ stampTime' <= dma'
        BY <1>1, <1>5, <3>2, <3>3 DEF CaptureBack, clockVars, TypeOK
      <4>2. \E w \in Passes(dma') : w <= time' /\ stampTime' <= w
        BY <3>2, <4>1
      <4> QED BY <4>2 DEF Passes
    <3> QED BY <1>5, <3>1, <3>4 DEF CaptureBack, RunningInv, Armed, clockVars
  <2> QED BY <2>1, <2>2 DEF ClockInv
<1> QED BY <1>2, <1>3, <1>4, <1>5

LEMMA ClockInitially == Init => ClockInv
<1> SUFFICES ASSUME Init PROVE ClockInv
  OBVIOUS
<1>1. valid \in BOOLEAN /\ engineRunning \in BOOLEAN /\ ~engineRunning
  BY DEF Init
<1>2. /\ time \in 1 .. Horizon /\ dma \in 1 .. Horizon /\ dma <= time
      /\ lastWrapFrame \in 0 .. Ring - 1 /\ lastStampTime \in 0 .. Horizon
      /\ pollDue \in 0 .. Horizon + Poll /\ loops \in 0 .. Horizon
      /\ start \in (1 - SpinMax) .. Horizon /\ stampTime \in (1 - SpinMax) .. Horizon
      /\ outages \in 0 .. MaxOutages
  BY DEF Init
<1> QED BY <1>1, <1>2 DEF ClockInv, TypeOK

LEMMA ClockStep == ClockInv /\ [Next]_vars => ClockInv'
<1> SUFFICES ASSUME ClockInv, [Next]_vars PROVE ClockInv'
  OBVIOUS
<1>1. CASE UNCHANGED vars
  <2>1. TypeOK'
    BY <1>1 DEF vars, clockVars, ClockInv, TypeOK
  <2>2. RunningInv => RunningInv'
    BY <1>1 DEF vars, clockVars, RunningInv, Armed
  <2> QED BY <1>1, <2>1, <2>2 DEF vars, ClockInv
<1>2. ASSUME NEW s \in Spins, PerformAudioEngineStart(s[1], s[2]) PROVE ClockInv'
  BY <1>2, ClockStarts
<1>3. ASSUME NEW s \in Spins, PollWrap(s[1], s[2]) PROVE ClockInv'
  BY <1>3, ClockWraps
<1>4. CASE PollNotReady
  BY <1>4, ClockFreeRuns
<1>5. CASE PollNoWrap
  BY <1>5, ClockLooks
<1>6. CASE PerformAudioEngineStop \/ Tick \/ CaptureLost \/ CaptureBack
  BY <1>6, ClockPasses
<1> QED BY <1>1, <1>2, <1>3, <1>4, <1>5, <1>6 DEF Next

LEMMA ClockInvariant == Spec => []ClockInv
BY ClockInitially, ClockStep, PTL DEF Spec

\* Every time, frame and count of the clock stays in its range: a session makes no more loops
\* than instants have gone by, and no stamp lies before the capture by more than a spin.
THEOREM ClockTypes == Spec => []TypeOK
<1>1. ClockInv => TypeOK
  BY DEF ClockInv
<1> QED BY <1>1, ClockInvariant, PTL

\* However late the poll, however long its spin and whatever outages there were: a loop
\* stamped from a position names an instant the DMA passed frame 0, and stamps neither go back
\* nor name a time that has not come.
THEOREM StampsOnWraps == Spec => StampOnWrap
<1> DEFINE Stamped == loops' > loops =>
             /\ valid => (stampTime' - dma) % Ring = 0
             /\ stampTime' >= stampTime /\ stampTime' <= time'
<1>1. ClockInv /\ [Next]_vars => [Stamped]_vars
  <2> SUFFICES ASSUME ClockInv, Next PROVE Stamped
    OBVIOUS
  <2>1. TypeOK
    BY DEF ClockInv
  <2>2. ASSUME NEW s \in Spins, PerformAudioEngineStart(s[1], s[2]) PROVE Stamped
    <3>1. loops' = 0
      BY <2>2 DEF PerformAudioEngineStart, StampStart
    <3> QED BY <2>1, <3>1 DEF TypeOK
  <2>3. ASSUME NEW s \in Spins, PollWrap(s[1], s[2]) PROVE Stamped
    <3>1. dma \in Int
      BY <2>1 DEF TypeOK
    <3> QED BY <2>3, <3>1, ClockWraps, PassIsFrameZero
  <2>4. CASE PollNotReady
    BY <2>4, ClockFreeRuns DEF PollNotReady
  <2>5. CASE PollNoWrap \/ PerformAudioEngineStop \/ Tick \/ CaptureLost \/ CaptureBack
    <3>1. loops' = loops
      BY <2>5 DEF PollNoWrap, PerformAudioEngineStop, Tick, CaptureLost, CaptureBack, clockVars
    <3> QED BY <2>1, <3>1 DEF TypeOK
  <2> QED BY <2>2, <2>3, <2>4, <2>5 DEF Next
<1> QED BY <1>1, ClockInvariant, PTL DEF Spec, StampOnWrap

-----------------------------------------------------------------------------
(* Sample time and host time.                                              *)

\* Polls come within a ring of each other, two spins and their lateness included: 100 ms polls
\* and 2 ms spins against 341 ms.  While the DSP is down the workloop may be held no longer.
Prompt ==
  /\ Poll + Late + 2 * SpinMax < Ring
  /\ Poll + OutageLate + SpinMax < Ring

\* Where the last stamp would be if sample time had kept to the anchor, and a ring an outage.
Nominal == start + loops * Ring
Slack == outages * Ring

\* The last poll saw the DMA that runs now: the position it read is lastWrapFrame, of the pass w.
Seen(w) ==
  /\ stampTime <= w
  /\ lastStampTime <= w + lastWrapFrame /\ w + lastWrapFrame <= Armed
  /\ Armed <= w + lastWrapFrame + SpinMax
  /\ Nominal - Slack <= w /\ w <= Nominal + 2 * Slack + SpinMax

Synced == valid /\ time <= pollDue + Late /\ \E w \in Int : w \in Passes(dma) /\ Seen(w)

\* The position is gone, or is that of a DMA started since: lastWrapFrame is of an earlier one,
\* whose last pass is at most so far behind the last stamp, and behind the last poll.
Unsynced ==
  /\ outages >= 1
  /\ valid => stampTime <= dma
  /\ Nominal - Slack + Ring <= stampTime
  /\ lastStampTime - lastWrapFrame <= Nominal + 2 * Slack - 2 * Ring + SpinMax
  /\ Armed - lastWrapFrame <= Nominal + 2 * Slack - Ring + SpinMax

LockInv ==
  /\ time <= pollDue + Late \/ time <= pollDue + OutageLate
  /\ Nominal - Slack <= stampTime /\ stampTime <= Nominal + 2 * Slack + SpinMax
  /\ Synced \/ Unsynced

Locked == engineRunning => LockInv

LEMMA Products ==
  ASSUME TypeOK
  PROVE  /\ Nominal \in Int /\ Slack \in Nat
         /\ (loops + 1) * Ring = loops * Ring + Ring
         /\ (outages + 1) * Ring = outages * Ring + Ring
BY DEF TypeOK, Nominal, Slack

LEMMA NextPass == ASSUME NEW d \in Int, NEW w \in Passes(d) PROVE w + Ring \in Passes(d)
<1>1. PICK n \in Nat : w = d + Ring * n
  BY DEF Passes
<1>2. w + Ring = d + Ring * (n + 1) /\ w + Ring \in Int /\ n + 1 \in Nat
  BY <1>1
<1> QED BY <1>2 DEF Passes

\* The last pass before t is no earlier than any other before t.
LEMMA NoLaterPass ==
  ASSUME NEW d \in Int, NEW t \in Int, NEW v \in Int, NEW w \in Int,
         v \in Passes(d), w \in Passes(d), v <= t, t < w + Ring
  PROVE  v <= w
<1> SUFFICES ASSUME w < v PROVE FALSE
  OBVIOUS
<1>1. w + Ring <= v
  BY PassesApart
<1> QED BY <1>1

LEMMA LockStarts ==
  ASSUME Prompt, ClockInv, NEW s \in Spins, PerformAudioEngineStart(s[1], s[2])
  PROVE  LockInv'
<1>1. TypeOK
  BY DEF ClockInv
<1>2. PICK spin \in 0 .. SpinMax : \E at \in Int :
           /\ time <= at /\ at <= time' /\ time' = time + spin /\ time' <= Horizon
           /\ pollDue' = time' + Poll
           /\ dma' = (IF valid THEN dma ELSE time) /\ valid' = TRUE
           /\ engineRunning' = TRUE /\ outages' = 0
           /\ lastWrapFrame' = (time' - dma') % Ring
           /\ lastStampTime' = at /\ stampTime' = at - lastWrapFrame'
           /\ start' = stampTime' /\ loops' = 0
  BY <1>1, StartStamps
<1>3. PICK at \in Int :
           time <= at /\ at <= time' /\ lastStampTime' = at /\ stampTime' = at - lastWrapFrame'
  BY <1>2
<1>4. /\ dma' \in Int /\ time' \in Int /\ dma' <= time' /\ time' <= at + SpinMax
  BY <1>1, <1>2, <1>3 DEF TypeOK
<1>5. PICK f \in 0 .. Ring - 1, w \in Int :
           /\ f = (time' - dma') % Ring /\ w = time' - f
           /\ w \in Passes(dma') /\ dma' <= w /\ time' < w + Ring
  BY <1>4, LastPass
<1>6. lastWrapFrame' = f /\ stampTime' = at - f /\ Nominal' = at - f /\ Slack' = 0
  BY <1>2, <1>3, <1>5 DEF Nominal, Slack
<1>7. Armed' = time'
  BY <1>2, <1>4 DEF Armed
<1>8. Seen(w)'
  <2> DEFINE t == time'
  <2>1. t \in Int /\ at <= t /\ t <= at + SpinMax /\ w = t - f
    BY <1>3, <1>4, <1>5
  <2> HIDE DEF t
  <2>2. /\ at - f <= w /\ at <= w + f /\ w + f <= t /\ t <= w + f + SpinMax
        /\ (at - f) - 0 <= w /\ w <= (at - f) + 2 * 0 + SpinMax
    BY <2>1
  <2> QED BY <1>3, <1>6, <1>7, <2>2 DEF Seen, t
<1>9. Synced'
  BY <1>2, <1>4, <1>5, <1>8 DEF Synced
<1> QED BY <1>2, <1>3, <1>4, <1>6, <1>9 DEF LockInv

LEMMA LockWraps ==
  ASSUME Prompt, ClockInv, LockInv, NEW s \in Spins, PollWrap(s[1], s[2])
  PROVE  LockInv'
<1>1. TypeOK
  BY DEF ClockInv
<1>2. PICK spin \in 0 .. SpinMax : \E at \in Int :
           /\ time <= at /\ at <= time' /\ time' = time + spin /\ time' <= Horizon
           /\ pollDue' = time' + Poll
           /\ lastWrapFrame' = (at - dma) % Ring
           /\ lastStampTime' = at /\ stampTime' = at - lastWrapFrame'
           /\ loops' = loops + 1
           /\ UNCHANGED <<valid, dma, engineRunning, outages, start>>
           /\ engineRunning /\ valid /\ time >= pollDue
           /\ (time - dma) % Ring < lastWrapFrame
  BY <1>1, PollWrapStamps
<1>3. PICK at \in Int :
           /\ time <= at /\ at <= time + spin /\ lastWrapFrame' = (at - dma) % Ring
           /\ lastStampTime' = at /\ stampTime' = at - lastWrapFrame'
  BY <1>2
<1>4. RunningInv
  BY <1>2 DEF ClockInv
<1>5. /\ time \in Int /\ dma \in Int /\ dma <= time /\ lastWrapFrame \in 0 .. Ring - 1
      /\ pollDue \in Int /\ stampTime \in Int
  BY <1>1, <1>2 DEF TypeOK
<1>6. dma <= at
  BY <1>3, <1>5
<1>7. PICK f \in 0 .. Ring - 1, w \in Int :
           f = (at - dma) % Ring /\ w = at - f /\ w \in Passes(dma) /\ dma <= w /\ at < w + Ring
  BY <1>3, <1>5, <1>6, LastPass
<1>8. lastWrapFrame' = f /\ stampTime' = w /\ lastStampTime' = at
  BY <1>3, <1>7
<1>9. Nominal \in Int /\ Slack \in Nat /\ Nominal' = Nominal + Ring /\ Slack' = Slack
  BY <1>1, <1>2, Products DEF Nominal, Slack, TypeOK
<1>10. Nominal - Slack + Ring <= w /\ w <= Nominal + Ring + 2 * Slack + SpinMax
  <2>1. CASE Synced
    <3>1. PICK v \in Int : v \in Passes(dma) /\ Seen(v)
      BY <2>1 DEF Synced
    <3>2. /\ v + lastWrapFrame + Poll <= time
          /\ time <= v + lastWrapFrame + SpinMax + Poll + Late
          /\ Nominal - Slack <= v /\ v <= Nominal + 2 * Slack + SpinMax
      BY <1>2, <1>5, <2>1, <3>1 DEF Seen, Armed, Synced
    <3>3. PICK g \in 0 .. Ring - 1, u \in Int :
             g = (time - dma) % Ring /\ u = time - g /\ u \in Passes(dma) /\ time < u + Ring
      BY <1>5, LastPass
    <3>4. v < u
      BY <1>2, <1>5, <3>2, <3>3
    <3>5. v + Ring <= u
      BY <1>5, <3>1, <3>3, <3>4, PassesApart
    <3>6. u <= w
      BY <1>3, <1>5, <1>7, <3>3, NoLaterPass
    <3>7. w < v + Ring + Ring
      BY <1>3, <1>5, <1>7, <3>2 DEF Prompt
    <3>8. v + Ring \in Passes(dma) /\ v + Ring \in Int
      BY <1>5, <3>1, NextPass
    <3>9. ~(v + Ring < w)
      BY <1>5, <1>7, <3>7, <3>8, PassesApart
    <3> QED BY <1>9, <3>2, <3>5, <3>6, <3>9
  <2>2. CASE Unsynced
    <3>1. Nominal - Slack + Ring <= w
      BY <1>2, <1>5, <1>7, <1>9, <2>2 DEF Unsynced
    <3>2. w <= Armed + Poll + Late + SpinMax \/ w <= Armed + Poll + OutageLate + SpinMax
      BY <1>3, <1>5, <1>7 DEF LockInv, Armed
    <3>3. Armed \in Int /\ Armed <= Nominal + 2 * Slack - Ring + SpinMax + lastWrapFrame
      BY <1>5, <1>9, <2>2 DEF Unsynced, Armed
    <3> QED BY <1>5, <1>7, <1>9, <3>1, <3>2, <3>3 DEF Prompt
  <2> QED BY <2>1, <2>2 DEF LockInv
<1> DEFINE t == time + spin
<1>11. t \in Int /\ at <= t /\ t <= at + SpinMax /\ time' = t /\ pollDue' = t + Poll
  BY <1>2, <1>3, <1>5
<1>12. Armed' = t /\ time' <= pollDue' + Late
  BY <1>11 DEF Armed
<1> HIDE DEF t
<1>13. Seen(w)'
  <2>1. /\ w <= w /\ at <= w + f /\ w + f <= t /\ t <= w + f + SpinMax
        /\ (Nominal + Ring) - Slack <= w /\ w <= (Nominal + Ring) + 2 * Slack + SpinMax
    BY <1>7, <1>9, <1>10, <1>11
  <2> QED BY <1>8, <1>9, <1>12, <2>1 DEF Seen
<1>14. Synced'
  BY <1>2, <1>7, <1>12, <1>13 DEF Synced
<1>15. Nominal' - Slack' <= stampTime' /\ stampTime' <= Nominal' + 2 * Slack' + SpinMax
  <2>1. (Nominal + Ring) - Slack <= w /\ w <= (Nominal + Ring) + 2 * Slack + SpinMax
    BY <1>9, <1>10
  <2> QED BY <1>8, <1>9, <2>1
<1> QED BY <1>12, <1>14, <1>15 DEF LockInv

LEMMA LockLooks == ASSUME Prompt, ClockInv, LockInv, PollNoWrap PROVE LockInv'
<1>1. TypeOK /\ RunningInv /\ valid /\ engineRunning /\ pollDue <= time
  BY DEF ClockInv, PollNoWrap, PollFires
<1>2. /\ UNCHANGED <<time, valid, dma, engineRunning, outages, start, lastStampTime, loops,
                     stampTime>>
      /\ pollDue' = time + Poll /\ lastWrapFrame' = (time - dma) % Ring
      /\ lastWrapFrame' >= lastWrapFrame
  BY DEF PollNoWrap, ArmPoll, FrameAt
<1>3. /\ time \in Int /\ dma \in Int /\ dma <= time /\ lastWrapFrame \in 0 .. Ring - 1
      /\ pollDue \in Int /\ stampTime \in Int /\ lastStampTime \in Int
  BY <1>1 DEF TypeOK
<1>4. PICK f \in 0 .. Ring - 1, w \in Int :
           f = (time - dma) % Ring /\ w = time - f /\ w \in Passes(dma) /\ dma <= w /\ time < w + Ring
  BY <1>3, LastPass
<1>5. lastWrapFrame' = f /\ lastWrapFrame <= f
  BY <1>2, <1>4
<1>6. Nominal \in Int /\ Slack \in Nat /\ Nominal' = Nominal /\ Slack' = Slack
  BY <1>1, <1>2, Products DEF Nominal, Slack
<1>7. /\ stampTime <= w
      /\ Nominal - Slack <= w /\ w <= Nominal + 2 * Slack + SpinMax
  <2>1. CASE Synced
    <3>1. PICK v \in Int : v \in Passes(dma) /\ Seen(v)
      BY <2>1 DEF Synced
    <3>2. /\ v + lastWrapFrame + Poll <= time
          /\ time <= v + lastWrapFrame + SpinMax + Poll + Late
          /\ Nominal - Slack <= v /\ v <= Nominal + 2 * Slack + SpinMax
          /\ stampTime <= v
      BY <1>1, <1>3, <2>1, <3>1 DEF Seen, Armed, Synced
    <3>3. v <= w
      BY <1>3, <1>4, <3>1, <3>2, NoLaterPass
    <3>4. w < v + Ring
      BY <1>3, <1>4, <1>5, <3>2 DEF Prompt
    <3>5. ~(v < w)
      BY <1>3, <1>4, <3>1, <3>4, PassesApart
    <3> QED BY <1>6, <3>2, <3>3, <3>5
  <2>2. CASE Unsynced
    <3>1. stampTime <= w /\ Nominal - Slack <= w
      BY <1>1, <1>3, <1>4, <1>6, <2>2 DEF Unsynced
    <3>2. time <= Armed + Poll + Late \/ time <= Armed + Poll + OutageLate
      BY <1>3 DEF LockInv, Armed
    <3>3. Armed \in Int /\ Armed <= Nominal + 2 * Slack - Ring + SpinMax + lastWrapFrame
      BY <1>3, <1>6, <2>2 DEF Unsynced, Armed
    <3> QED BY <1>3, <1>4, <1>5, <1>6, <3>1, <3>2, <3>3 DEF Prompt
  <2> QED BY <2>1, <2>2 DEF LockInv
<1>8. Armed' = time /\ time' <= pollDue' + Late
  BY <1>2, <1>3 DEF Armed
<1>9. lastStampTime <= time
  BY <1>1, <1>3 DEF RunningInv, Armed
<1>10. Seen(w)'
  <2>1. lastStampTime <= w + f /\ w + f <= time /\ time <= w + f + SpinMax
    BY <1>3, <1>4, <1>9
  <2> QED BY <1>2, <1>5, <1>6, <1>7, <1>8, <2>1 DEF Seen
<1>11. Synced'
  BY <1>1, <1>2, <1>4, <1>8, <1>10 DEF Synced
<1> QED BY <1>2, <1>6, <1>8, <1>11 DEF LockInv

LEMMA LockFreeRuns == ASSUME Prompt, ClockInv, LockInv, PollNotReady PROVE LockInv'
<1>1. TypeOK /\ RunningInv /\ ~valid /\ engineRunning /\ pollDue <= time
  BY DEF ClockInv, PollNotReady, PollFires
<1>2. /\ UNCHANGED <<time, valid, dma, engineRunning, outages, start, lastWrapFrame>>
      /\ pollDue' = time + Poll
  BY DEF PollNotReady, FreeRun, ArmPoll, StampLoop
<1>3. /\ time \in Int /\ lastWrapFrame \in 0 .. Ring - 1 /\ pollDue \in Int
      /\ stampTime \in Int /\ lastStampTime \in Int /\ Nominal \in Int /\ Slack \in Nat
      /\ 1 <= lastStampTime /\ stampTime <= lastStampTime
  BY <1>1, Products DEF TypeOK, RunningInv
<1>4. Unsynced
  BY <1>1 DEF LockInv, Synced
<1>5. /\ lastStampTime - lastWrapFrame <= Nominal + 2 * Slack - 2 * Ring + SpinMax
      /\ Armed - lastWrapFrame <= Nominal + 2 * Slack - Ring + SpinMax
      /\ Nominal - Slack + Ring <= stampTime /\ outages >= 1
  BY <1>4 DEF Unsynced
<1>6. Armed' = time /\ time' <= pollDue' + Late /\ Slack' = Slack
  BY <1>2, <1>3 DEF Armed, Slack
<1>7. CASE time - lastStampTime >= Ring
  <2>1. /\ lastStampTime' = lastStampTime + Ring /\ stampTime' = lastStampTime + Ring
        /\ loops' = loops + 1
    BY <1>3, <1>7 DEF PollNotReady, FreeRun, StampLoop
  <2>2. Nominal' = Nominal + Ring
    BY <1>1, <1>2, <2>1, Products DEF Nominal, TypeOK
  <2> DEFINE l == lastStampTime + Ring
             n == Nominal + Ring
  <2>3. Armed \in Int /\ (time <= Armed + Poll + Late \/ time <= Armed + Poll + OutageLate)
    BY <1>3 DEF LockInv, Armed
  <2>4. time - lastWrapFrame <= n + 2 * Slack - Ring + SpinMax
    BY <1>3, <1>5, <2>3 DEF Prompt
  <2>5. /\ l - lastWrapFrame <= n + 2 * Slack - 2 * Ring + SpinMax
        /\ n - Slack + Ring <= l /\ n - Slack <= l /\ l <= n + 2 * Slack + SpinMax
    BY <1>3, <1>5
  <2>6. l = lastStampTime' /\ l = stampTime' /\ n = Nominal'
    BY <2>1, <2>2
  <2> HIDE DEF l, n
  <2>7. Unsynced'
    BY <1>1, <1>2, <1>5, <1>6, <2>4, <2>5, <2>6 DEF Unsynced
  <2> QED BY <1>6, <2>5, <2>6, <2>7 DEF LockInv
<1>8. CASE ~(time - lastStampTime >= Ring)
  <2>1. UNCHANGED <<lastStampTime, stampTime, loops>>
    BY <1>8 DEF PollNotReady, FreeRun
  <2>2. Nominal' = Nominal
    BY <1>2, <2>1 DEF Nominal
  <2>3. time - lastWrapFrame <= Nominal + 2 * Slack - Ring + SpinMax
    BY <1>3, <1>5, <1>8
  <2>4. Unsynced'
    BY <1>1, <1>2, <1>5, <1>6, <2>1, <2>2, <2>3 DEF Unsynced
  <2> QED BY <1>6, <2>1, <2>2, <2>4 DEF LockInv
<1> QED BY <1>7, <1>8

LEMMA LockLost == ASSUME Prompt, ClockInv, LockInv, engineRunning, CaptureLost PROVE LockInv'
<1>1. TypeOK
  BY DEF ClockInv
<1>2. /\ UNCHANGED <<time, dma, engineRunning, pollDue, start, loops, stampTime,
                     lastStampTime, lastWrapFrame>>
      /\ valid /\ valid' = FALSE /\ outages' = outages + 1
  BY DEF CaptureLost, clockVars
<1>3. /\ Nominal' = Nominal /\ Armed' = Armed /\ Slack' = Slack + Ring
      /\ Nominal \in Int /\ Slack \in Nat
  BY <1>1, <1>2, Products DEF Nominal, Armed, Slack
<1>4. /\ lastWrapFrame \in 0 .. Ring - 1 /\ stampTime \in Int /\ lastStampTime \in Int
      /\ pollDue \in Int /\ Armed \in Int /\ outages + 1 >= 1
  BY <1>1 DEF TypeOK, Armed
<1> DEFINE k == Slack + Ring
<1>5. /\ lastStampTime - lastWrapFrame <= Nominal + 2 * k - 2 * Ring + SpinMax
      /\ Armed - lastWrapFrame <= Nominal + 2 * k - Ring + SpinMax
  <2>1. CASE Synced
    <3>1. PICK w \in Int : Seen(w)
      BY <2>1 DEF Synced
    <3> QED BY <1>3, <1>4, <3>1 DEF Seen
  <2>2. CASE Unsynced
    BY <1>3, <1>4, <2>2 DEF Unsynced
  <2> QED BY <2>1, <2>2 DEF LockInv
<1>6. /\ Nominal - k + Ring <= stampTime /\ Nominal - k <= stampTime
      /\ stampTime <= Nominal + 2 * k + SpinMax
  BY <1>3, <1>4 DEF LockInv
<1>7. k = Slack'
  BY <1>3
<1> HIDE DEF k
<1>8. Unsynced'
  BY <1>2, <1>3, <1>4, <1>5, <1>6, <1>7 DEF Unsynced
<1> QED BY <1>2, <1>3, <1>6, <1>7, <1>8 DEF LockInv

LEMMA LockBack == ASSUME Prompt, ClockInv, LockInv, engineRunning, CaptureBack PROVE LockInv'
<1>1. TypeOK /\ RunningInv
  BY DEF ClockInv
<1>2. /\ UNCHANGED <<time, engineRunning, pollDue, outages, start, loops, stampTime,
                     lastStampTime, lastWrapFrame>>
      /\ ~valid /\ dma' = time
  BY DEF CaptureBack, clockVars
<1>3. Nominal' = Nominal /\ Armed' = Armed /\ Slack' = Slack
  BY <1>2 DEF Nominal, Armed, Slack
<1>4. stampTime <= dma'
  BY <1>1, <1>2 DEF RunningInv, TypeOK, Armed
<1>5. Unsynced'
  BY <1>2, <1>3, <1>4 DEF LockInv, Synced, Unsynced
<1> QED BY <1>2, <1>3, <1>5 DEF LockInv

LEMMA LockTicks == ASSUME Prompt, ClockInv, LockInv, engineRunning, Tick PROVE LockInv'
<1>1. TypeOK
  BY DEF ClockInv
<1>2. /\ UNCHANGED <<valid, dma, engineRunning, pollDue, outages, start, loops, stampTime,
                     lastStampTime, lastWrapFrame>>
      /\ time' = time + 1
  BY DEF Tick, clockVars
<1>3. Nominal' = Nominal /\ Armed' = Armed /\ Slack' = Slack
  BY <1>2 DEF Nominal, Armed, Slack
<1>4. /\ valid => time' <= pollDue' + Late
      /\ ~valid => time' <= pollDue' + OutageLate
  BY <1>1, <1>2 DEF Tick, TypeOK
<1>5. Synced => Synced'
  <2> SUFFICES ASSUME Synced PROVE Synced'
    OBVIOUS
  <2>1. PICK w \in Int : w \in Passes(dma) /\ Seen(w)
    BY DEF Synced
  <2>2. Seen(w)'
    BY <1>2, <1>3, <2>1 DEF Seen
  <2> QED BY <1>2, <1>4, <2>1, <2>2 DEF Synced
<1>6. Unsynced => Unsynced'
  BY <1>2, <1>3 DEF Unsynced
<1>7. time' <= pollDue' + Late \/ time' <= pollDue' + OutageLate
  BY <1>4
<1> QED BY <1>2, <1>3, <1>5, <1>6, <1>7 DEF LockInv

LEMMA LockStep == ASSUME Prompt PROVE ClockInv /\ Locked /\ [Next]_vars => Locked'
<1> SUFFICES ASSUME ClockInv, Locked, [Next]_vars, engineRunning' PROVE LockInv'
  BY DEF Locked
<1>1. CASE UNCHANGED vars
  <2>1. /\ UNCHANGED <<time, valid, dma, engineRunning, pollDue, outages, start, loops, stampTime,
                       lastStampTime, lastWrapFrame>>
        /\ LockInv
    BY <1>1 DEF vars, clockVars, Locked
  <2>2. Nominal' = Nominal /\ Armed' = Armed /\ Slack' = Slack
    BY <2>1 DEF Nominal, Armed, Slack
  <2>3. Synced => Synced'
    BY <2>1, <2>2 DEF Synced, Seen
  <2> QED BY <2>1, <2>2, <2>3 DEF LockInv, Unsynced
<1>2. ASSUME NEW s \in Spins, PerformAudioEngineStart(s[1], s[2]) PROVE LockInv'
  BY <1>2, LockStarts
<1>3. ASSUME NEW s \in Spins, PollWrap(s[1], s[2]) PROVE LockInv'
  <2>1. LockInv
    BY <1>3 DEF PollWrap, PollFires, Locked
  <2> QED BY <1>3, <2>1, LockWraps
<1>4. CASE PollNotReady
  BY <1>4, LockFreeRuns DEF PollNotReady, PollFires, Locked
<1>5. CASE PollNoWrap
  BY <1>5, LockLooks DEF PollNoWrap, PollFires, Locked
<1>6. CASE PerformAudioEngineStop
  BY <1>6 DEF PerformAudioEngineStop
<1>7. CASE Tick
  BY <1>7, LockTicks DEF Tick, Locked
<1>8. CASE CaptureLost
  BY <1>8, LockLost DEF CaptureLost, Locked
<1>9. CASE CaptureBack
  BY <1>9, LockBack DEF CaptureBack, Locked
<1> QED BY <1>1, <1>2, <1>3, <1>4, <1>5, <1>6, <1>7, <1>8, <1>9 DEF Next

\* Sample time and host time stay locked together: as long as polls come within a ring of each
\* other, no wrap is lost or counted twice, and each outage shifts sample time by less than two
\* rings, however many outages follow on each other and however long each lasts.
THEOREM ClockLocked == ASSUME Prompt PROVE Spec => []TimelineLocked
<1>1. Init => Locked
  BY DEF Init, Locked
<1>2. ClockInv /\ Locked /\ [Next]_vars => Locked'
  BY LockStep
<1>3. ClockInv /\ Locked => TimelineLocked
  <2> SUFFICES ASSUME ClockInv, LockInv PROVE Abs(Skew) <= outages * 2 * Ring + SpinMax
    BY DEF Locked, TimelineLocked
  <2>1. TypeOK
    BY DEF ClockInv
  <2>2. Nominal \in Int /\ Slack \in Nat /\ stampTime \in Int
    BY <2>1, Products DEF TypeOK
  <2>3. Skew = stampTime - Nominal /\ outages * 2 * Ring = 2 * Slack
    BY <2>1 DEF TypeOK, Skew, Nominal, Slack
  <2>4. Nominal - Slack <= stampTime /\ stampTime <= Nominal + 2 * Slack + SpinMax
    BY DEF LockInv
  <2> QED BY <2>2, <2>3, <2>4 DEF Abs
<1> QED BY <1>1, <1>2, <1>3, ClockInvariant, PTL DEF Spec

-----------------------------------------------------------------------------
(* The timeline is current.                                                *)

Hold == Later(Late, OutageLate)

\* How far outages may have held the stamps up.
HeldUp == outages * Span

\* A pass of the DMA, and the last poll when it was lastWrapFrame into that pass, are no
\* later than from says, but for the spin of a stamp.
Since(from, w) == w <= from + SpinMax /\ Armed <= from + lastWrapFrame + SpinMax

\* The last poll saw the DMA that runs now, in its pass w.
InPass(w) ==
  /\ Armed <= w + lastWrapFrame + SpinMax
  /\ Since(Later(stampTime, dma), w) /\ Since(stampTime + HeldUp, w)

Watched ==
  /\ valid /\ time <= pollDue + Late
  /\ \E w \in Int : w \in Passes(dma) /\ InPass(w)

\* No poll has seen the DMA yet, or there is none.  The further lastWrapFrame is from the
\* ring's start, the longer the stamp may be ago, and the sooner the DMA is found behind it.
Unwatched ==
  /\ outages >= 1
  /\ Armed - lastWrapFrame - stampTime <= HeldUp - Poll - Hold
  /\ valid => Armed <= dma

FreshInv ==
  /\ time <= pollDue + Hold
  /\ lastStampTime - stampTime <= lastWrapFrame
  /\ Watched \/ Unwatched

Fresh == engineRunning => FreshInv

LEMMA Spans ==
  ASSUME TypeOK, Prompt
  PROVE  /\ Hold \in Nat /\ Late <= Hold /\ OutageLate <= Hold /\ Poll + Hold < Ring
         /\ Span \in Nat /\ Span = Ring + Poll + Hold + SpinMax
         /\ HeldUp \in Nat /\ (outages + 1) * Span = HeldUp + Span
<1>1. /\ Hold \in Nat /\ Late <= Hold /\ OutageLate <= Hold /\ Poll + Hold < Ring
  BY DEF Hold, Later, Prompt
<1>2. Span = Ring + Poll + Hold + SpinMax /\ Span \in Nat
  BY <1>1 DEF Span, Hold
<1>3. outages \in Nat
  BY DEF TypeOK
<1> HIDE DEF Span
<1>4. outages * Span \in Nat /\ (outages + 1) * Span = outages * Span + Span
  BY <1>2, <1>3
<1> QED BY <1>1, <1>2, <1>4 DEF HeldUp

LEMMA FreshStarts ==
  ASSUME Prompt, ClockInv, NEW s \in Spins, PerformAudioEngineStart(s[1], s[2])
  PROVE  FreshInv'
<1>1. TypeOK
  BY DEF ClockInv
<1>2. PICK spin \in 0 .. SpinMax : \E at \in Int :
           /\ time <= at /\ at <= time' /\ time' = time + spin /\ time' <= Horizon
           /\ pollDue' = time' + Poll
           /\ dma' = (IF valid THEN dma ELSE time) /\ valid' = TRUE
           /\ engineRunning' = TRUE /\ outages' = 0
           /\ lastWrapFrame' = (time' - dma') % Ring
           /\ lastStampTime' = at /\ stampTime' = at - lastWrapFrame'
           /\ start' = stampTime' /\ loops' = 0
  BY <1>1, StartStamps
<1>3. PICK at \in Int :
           time <= at /\ at <= time' /\ lastStampTime' = at /\ stampTime' = at - lastWrapFrame'
  BY <1>2
<1>4. /\ dma' \in Int /\ time' \in Int /\ dma' <= time' /\ time' <= at + SpinMax
  BY <1>1, <1>2, <1>3 DEF TypeOK
<1>5. PICK f \in 0 .. Ring - 1, w \in Int :
           /\ f = (time' - dma') % Ring /\ w = time' - f
           /\ w \in Passes(dma') /\ dma' <= w /\ time' < w + Ring
  BY <1>4, LastPass
<1>6. lastWrapFrame' = f /\ stampTime' = at - f /\ Armed' = time'
  BY <1>2, <1>3, <1>4, <1>5 DEF Armed
<1>7. HeldUp' = 0
  BY <1>2 DEF HeldUp, Span, Later
<1>8. InPass(w)'
  <2> DEFINE t == time'
             d == dma'
             z == Later(at - f, d)
  <2>1. t \in Int /\ d \in Int /\ at <= t /\ t <= at + SpinMax /\ w = t - f
    BY <1>3, <1>4, <1>5
  <2>2. z \in Int /\ at - f <= z
    BY <2>1 DEF Later
  <2>3. z = Later(stampTime, dma)'
    BY <1>6 DEF Later
  <2>4. stampTime' + HeldUp' = at - f
    BY <1>6, <1>7
  <2> HIDE DEF t, d, z
  <2>5. /\ t <= w + f + SpinMax
        /\ w <= z + SpinMax /\ t <= z + f + SpinMax
        /\ w <= (at - f) + SpinMax /\ t <= (at - f) + f + SpinMax
    BY <2>1, <2>2
  <2> QED BY <1>6, <2>3, <2>4, <2>5 DEF InPass, Since, t
<1>9. time' <= pollDue' + Late /\ time' <= pollDue' + Hold'
  BY <1>1, <1>2, <1>4, Spans DEF Hold
<1>10. Watched'
  BY <1>2, <1>5, <1>8, <1>9 DEF Watched
<1>11. lastStampTime' - stampTime' <= lastWrapFrame'
  BY <1>3, <1>5, <1>6
<1> QED BY <1>9, <1>10, <1>11 DEF FreshInv

LEMMA FreshWraps ==
  ASSUME Prompt, ClockInv, NEW s \in Spins, PollWrap(s[1], s[2])
  PROVE  FreshInv'
<1>1. TypeOK
  BY DEF ClockInv
<1>2. PICK spin \in 0 .. SpinMax : \E at \in Int :
           /\ time <= at /\ at <= time' /\ time' = time + spin /\ time' <= Horizon
           /\ pollDue' = time' + Poll
           /\ lastWrapFrame' = (at - dma) % Ring
           /\ lastStampTime' = at /\ stampTime' = at - lastWrapFrame'
           /\ loops' = loops + 1
           /\ UNCHANGED <<valid, dma, engineRunning, outages, start>>
           /\ engineRunning /\ valid /\ time >= pollDue
           /\ (time - dma) % Ring < lastWrapFrame
  BY <1>1, PollWrapStamps
<1>3. PICK at \in Int :
           /\ time <= at /\ at <= time + spin /\ lastWrapFrame' = (at - dma) % Ring
           /\ lastStampTime' = at /\ stampTime' = at - lastWrapFrame'
  BY <1>2
<1>4. time \in Int /\ dma \in Int /\ dma <= time /\ dma <= at
  BY <1>1, <1>2, <1>3 DEF TypeOK
<1>5. PICK f \in 0 .. Ring - 1, w \in Int :
           f = (at - dma) % Ring /\ w = at - f /\ w \in Passes(dma) /\ dma <= w /\ at < w + Ring
  BY <1>3, <1>4, LastPass
<1>6. lastWrapFrame' = f /\ stampTime' = w /\ lastStampTime' = at
  BY <1>3, <1>5
<1> DEFINE t == time + spin
<1>7. t \in Int /\ at <= t /\ t <= at + SpinMax /\ time' = t /\ pollDue' = t + Poll
  BY <1>2, <1>3, <1>4
<1>8. Armed' = t
  BY <1>7 DEF Armed
<1> HIDE DEF t
<1>9. HeldUp' = HeldUp /\ HeldUp \in Nat
  BY <1>1, <1>2, Spans DEF HeldUp, Span, Later
<1>10. InPass(w)'
  <2>1. Later(stampTime, dma)' = w
    BY <1>2, <1>4, <1>5, <1>6 DEF Later
  <2>2. /\ t <= w + f + SpinMax /\ w <= w + SpinMax
        /\ w <= (w + HeldUp) + SpinMax /\ t <= (w + HeldUp) + f + SpinMax
    BY <1>5, <1>7, <1>9
  <2> QED BY <1>6, <1>8, <1>9, <2>1, <2>2 DEF InPass, Since
<1>11. time' <= pollDue' + Late /\ time' <= pollDue' + Hold'
  BY <1>1, <1>7, Spans DEF Hold
<1>12. Watched'
  BY <1>2, <1>5, <1>10, <1>11 DEF Watched
<1>13. lastStampTime' - stampTime' <= lastWrapFrame'
  BY <1>5, <1>6
<1> QED BY <1>11, <1>12, <1>13 DEF FreshInv

LEMMA FreshLooks == ASSUME Prompt, ClockInv, FreshInv, PollNoWrap PROVE FreshInv'
<1>1. TypeOK /\ RunningInv /\ valid /\ engineRunning /\ pollDue <= time
  BY DEF ClockInv, PollNoWrap, PollFires
<1>2. /\ UNCHANGED <<time, valid, dma, engineRunning, outages, start, lastStampTime, loops,
                     stampTime>>
      /\ pollDue' = time + Poll /\ lastWrapFrame' = (time - dma) % Ring
      /\ lastWrapFrame' >= lastWrapFrame
  BY DEF PollNoWrap, ArmPoll, FrameAt
<1>3. /\ time \in Int /\ dma \in Int /\ dma <= time /\ lastWrapFrame \in 0 .. Ring - 1
      /\ pollDue \in Int /\ stampTime \in Int /\ lastStampTime \in Int
  BY <1>1 DEF TypeOK
<1>4. PICK f \in 0 .. Ring - 1, w \in Int :
           f = (time - dma) % Ring /\ w = time - f /\ w \in Passes(dma) /\ dma <= w /\ time < w + Ring
  BY <1>3, LastPass
<1>5. lastWrapFrame' = f /\ lastWrapFrame <= f
  BY <1>2, <1>4
<1> DEFINE z == Later(stampTime, dma)
<1>6. z \in Int /\ dma <= z /\ stampTime <= z /\ z' = z
  BY <1>2, <1>3 DEF Later
<1>7. HeldUp \in Nat /\ HeldUp' = HeldUp /\ Hold \in Nat /\ Poll + Hold < Ring
  BY <1>1, <1>2, Spans DEF HeldUp, Span, Later
<1> HIDE DEF z
<1>8. w <= z + SpinMax /\ w <= stampTime + HeldUp + SpinMax
  <2>1. CASE Watched
    <3>1. PICK v \in Int : v \in Passes(dma) /\ InPass(v)
      BY <2>1 DEF Watched
    <3>2. /\ time <= v + lastWrapFrame + SpinMax + Poll + Late
          /\ v <= z + SpinMax /\ v <= stampTime + HeldUp + SpinMax
      BY <1>3, <1>6, <1>7, <2>1, <3>1 DEF InPass, Since, Armed, Watched, z
    <3>3. w < v + Ring
      BY <1>3, <1>4, <1>5, <3>2
    <3>4. ~(v < w)
      BY <1>3, <1>4, <3>1, <3>3, PassesApart
    <3> QED BY <1>3, <1>4, <1>6, <1>7, <3>2, <3>4
  <2>2. CASE Unwatched
    <3>1. time <= dma + Poll + Hold
      BY <1>1, <1>3, <1>7, <2>2 DEF Unwatched, FreshInv, Armed
    <3>2. dma \in Passes(dma)
      <4>1. dma = dma + Ring * 0
        BY <1>3
      <4> QED BY <1>3, <4>1 DEF Passes
    <3>3. w < dma + Ring
      BY <1>3, <1>4, <1>7, <3>1
    <3>4. w = dma
      BY <1>3, <1>4, <3>2, <3>3, PassesApart
    <3>5. time - lastWrapFrame <= stampTime + HeldUp
      BY <1>3, <1>7, <2>2 DEF Unwatched, FreshInv, Armed
    <3> QED BY <1>3, <1>4, <1>5, <1>6, <1>7, <3>4, <3>5
  <2> QED BY <2>1, <2>2 DEF FreshInv
<1>9. Armed' = time
  BY <1>2, <1>3 DEF Armed
<1>10. InPass(w)'
  <2>1. /\ time <= w + f + SpinMax /\ time <= z + f + SpinMax
        /\ time <= (stampTime + HeldUp) + f + SpinMax /\ w <= (stampTime + HeldUp) + SpinMax
    BY <1>3, <1>4, <1>6, <1>7, <1>8
  <2>2. Later(stampTime, dma)' = z
    BY <1>6 DEF z
  <2> QED BY <1>2, <1>5, <1>7, <1>8, <1>9, <2>1, <2>2 DEF InPass, Since
<1>11. time' <= pollDue' + Late /\ time' <= pollDue' + Hold'
  BY <1>1, <1>2, <1>3, Spans DEF Hold
<1>12. Watched'
  BY <1>1, <1>2, <1>4, <1>10, <1>11 DEF Watched
<1>13. lastStampTime' - stampTime' <= lastWrapFrame'
  BY <1>2, <1>3, <1>4, <1>5 DEF FreshInv
<1> QED BY <1>11, <1>12, <1>13 DEF FreshInv

LEMMA FreshFreeRuns == ASSUME Prompt, ClockInv, FreshInv, PollNotReady PROVE FreshInv'
<1>1. TypeOK /\ RunningInv /\ ~valid /\ engineRunning /\ pollDue <= time
  BY DEF ClockInv, PollNotReady, PollFires
<1>2. /\ UNCHANGED <<time, valid, dma, engineRunning, outages, start, lastWrapFrame>>
      /\ pollDue' = time + Poll
  BY DEF PollNotReady, FreeRun, ArmPoll, StampLoop
<1>3. /\ time \in Int /\ lastWrapFrame \in 0 .. Ring - 1 /\ pollDue \in Int
      /\ stampTime \in Int /\ lastStampTime \in Int /\ outages \in Nat
      /\ 1 <= lastStampTime /\ stampTime <= lastStampTime
  BY <1>1 DEF TypeOK, RunningInv
<1>4. /\ HeldUp \in Nat /\ HeldUp' = HeldUp /\ Hold \in Nat /\ Poll + Hold < Ring /\ Hold' = Hold
      /\ Span \in Nat /\ Span = Ring + Poll + Hold + SpinMax
  BY <1>1, <1>2, Spans DEF HeldUp, Span, Later, Hold
<1>5. Unwatched
  BY <1>1 DEF FreshInv, Watched
<1>6. Armed' = time
  BY <1>2, <1>3 DEF Armed
<1>7. Span <= HeldUp
  <2>1. outages >= 1
    BY <1>5 DEF Unwatched
  <2>2. Span * 1 <= Span * outages
    BY <1>3, <1>4, <2>1
  <2> QED BY <1>3, <1>4, <2>2 DEF HeldUp
<1>8. /\ lastStampTime' - stampTime' <= lastWrapFrame
      /\ time - lastWrapFrame - stampTime' <= HeldUp - Poll - Hold
  <2>1. CASE time - lastStampTime >= Ring
    <3>1. lastStampTime' = lastStampTime + Ring /\ stampTime' = lastStampTime + Ring
      BY <1>1, <1>3, <2>1 DEF PollNotReady, FreeRun, StampLoop
    <3>2. time - lastWrapFrame - stampTime <= HeldUp
      BY <1>3, <1>4, <1>5 DEF Unwatched, FreshInv, Armed
    <3> QED BY <1>3, <1>4, <3>1, <3>2
  <2>2. CASE ~(time - lastStampTime >= Ring)
    <3>1. UNCHANGED <<lastStampTime, stampTime>>
      BY <2>2 DEF PollNotReady, FreeRun
    <3>2. lastStampTime - stampTime <= lastWrapFrame
      BY DEF FreshInv
    <3>3. time - lastWrapFrame - stampTime <= Ring
      BY <1>3, <2>2, <3>2
    <3> QED BY <1>3, <1>4, <1>7, <3>1, <3>2, <3>3
  <2> QED BY <2>1, <2>2
<1>9. Unwatched'
  BY <1>1, <1>2, <1>4, <1>5, <1>6, <1>8 DEF Unwatched
<1> QED BY <1>2, <1>3, <1>4, <1>8, <1>9 DEF FreshInv

LEMMA FreshLost == ASSUME Prompt, ClockInv, FreshInv, engineRunning, CaptureLost PROVE FreshInv'
<1>1. TypeOK
  BY DEF ClockInv
<1>2. /\ UNCHANGED <<time, dma, engineRunning, pollDue, start, loops, stampTime,
                     lastStampTime, lastWrapFrame>>
      /\ valid /\ valid' = FALSE /\ outages' = outages + 1
  BY DEF CaptureLost, clockVars
<1>3. /\ HeldUp \in Nat /\ Hold \in Nat /\ Span = Ring + Poll + Hold + SpinMax
      /\ HeldUp' = HeldUp + Span
  BY <1>1, <1>2, Spans DEF HeldUp, Span, Later
<1>4. Hold' = Hold /\ Armed' = Armed
  BY <1>2 DEF Hold, Later, Armed
<1>5. /\ lastWrapFrame \in 0 .. Ring - 1 /\ stampTime \in Int /\ Armed \in Int
      /\ outages \in Nat
  BY <1>1 DEF TypeOK, Armed
<1>6. Armed - lastWrapFrame - stampTime <= HeldUp + Span - Poll - Hold
  <2>1. CASE Watched
    <3>1. Armed <= (stampTime + HeldUp) + lastWrapFrame + SpinMax
      BY <2>1 DEF Watched, InPass, Since
    <3> QED BY <1>3, <1>5, <3>1
  <2>2. CASE Unwatched
    BY <1>3, <1>5, <2>2 DEF Unwatched
  <2> QED BY <2>1, <2>2 DEF FreshInv
<1>7. Unwatched'
  <2>1. outages' >= 1
    BY <1>2, <1>5
  <2>2. Armed' - lastWrapFrame' - stampTime' <= HeldUp' - Poll - Hold'
    BY <1>2, <1>3, <1>4, <1>6
  <2> QED BY <1>2, <2>1, <2>2 DEF Unwatched
<1> QED BY <1>2, <1>4, <1>7 DEF FreshInv

LEMMA FreshBack == ASSUME Prompt, ClockInv, FreshInv, engineRunning, CaptureBack PROVE FreshInv'
<1>1. RunningInv
  BY DEF ClockInv
<1>2. /\ UNCHANGED <<time, engineRunning, pollDue, outages, start, loops, stampTime,
                     lastStampTime, lastWrapFrame>>
      /\ ~valid /\ dma' = time
  BY DEF CaptureBack, clockVars
<1>3. HeldUp' = HeldUp /\ Hold' = Hold /\ Armed' = Armed
  BY <1>2 DEF HeldUp, Span, Hold, Later, Armed
<1>4. Unwatched'
  BY <1>1, <1>2, <1>3 DEF FreshInv, Watched, Unwatched, RunningInv
<1> QED BY <1>2, <1>3, <1>4 DEF FreshInv

LEMMA FreshTicks == ASSUME Prompt, ClockInv, FreshInv, engineRunning, Tick PROVE FreshInv'
<1>1. TypeOK
  BY DEF ClockInv
<1>2. /\ UNCHANGED <<valid, dma, engineRunning, pollDue, outages, start, loops, stampTime,
                     lastStampTime, lastWrapFrame>>
      /\ time' = time + 1
  BY DEF Tick, clockVars
<1>3. HeldUp' = HeldUp /\ Hold' = Hold /\ Armed' = Armed
  BY <1>2 DEF HeldUp, Span, Hold, Later, Armed
<1>4. (valid => time' <= pollDue' + Late) /\ time' <= pollDue' + Hold
  <2>1. /\ valid => time' <= pollDue' + Late
        /\ ~valid => time' <= pollDue' + OutageLate
    BY <1>1, <1>2 DEF Tick, TypeOK
  <2>2. pollDue' \in Int /\ time' \in Int
    BY <1>1, <1>2 DEF TypeOK
  <2>3. Hold \in Nat /\ Late <= Hold /\ OutageLate <= Hold
    BY <1>1, Spans
  <2>4. time' <= pollDue' + Late \/ time' <= pollDue' + OutageLate
    BY <2>1
  <2>5. time' <= pollDue' + Hold
    <3> DEFINE t == time'
               p == pollDue'
               h == Hold
    <3>1. t \in Int /\ p \in Int /\ h \in Nat /\ Late \in Nat /\ OutageLate \in Nat
      BY <2>2, <2>3
    <3>2. Late <= h /\ OutageLate <= h
      BY <2>3
    <3>3. t <= p + Late \/ t <= p + OutageLate
      BY <2>4
    <3> HIDE DEF t, p, h
    <3>4. t <= p + h
      BY <3>1, <3>2, <3>3
    <3> QED BY <3>4 DEF t, p, h
  <2> QED BY <2>1, <2>5
<1>5. Watched => Watched'
  <2> SUFFICES ASSUME Watched PROVE Watched'
    OBVIOUS
  <2>1. PICK w \in Int : w \in Passes(dma) /\ InPass(w)
    BY DEF Watched
  <2>2. InPass(w)'
    BY <1>2, <1>3, <2>1 DEF InPass, Since, Later
  <2> QED BY <1>2, <1>4, <2>1, <2>2 DEF Watched
<1>6. Unwatched => Unwatched'
  BY <1>2, <1>3 DEF Unwatched
<1> QED BY <1>2, <1>3, <1>4, <1>5, <1>6 DEF FreshInv

LEMMA FreshStep == ASSUME Prompt PROVE ClockInv /\ Fresh /\ [Next]_vars => Fresh'
<1> SUFFICES ASSUME ClockInv, Fresh, [Next]_vars, engineRunning' PROVE FreshInv'
  BY DEF Fresh
<1>1. CASE UNCHANGED vars
  <2>1. /\ UNCHANGED <<time, valid, dma, engineRunning, pollDue, outages, start, loops, stampTime,
                       lastStampTime, lastWrapFrame>>
        /\ FreshInv
    BY <1>1 DEF vars, clockVars, Fresh
  <2>2. HeldUp' = HeldUp /\ Hold' = Hold /\ Armed' = Armed
    BY <2>1 DEF HeldUp, Span, Hold, Later, Armed
  <2>3. Watched => Watched'
    BY <2>1, <2>2 DEF Watched, InPass, Since, Later
  <2> QED BY <2>1, <2>2, <2>3 DEF FreshInv, Unwatched
<1>2. ASSUME NEW s \in Spins, PerformAudioEngineStart(s[1], s[2]) PROVE FreshInv'
  BY <1>2, FreshStarts
<1>3. ASSUME NEW s \in Spins, PollWrap(s[1], s[2]) PROVE FreshInv'
  BY <1>3, FreshWraps
<1>4. CASE PollNotReady
  BY <1>4, FreshFreeRuns DEF PollNotReady, PollFires, Fresh
<1>5. CASE PollNoWrap
  BY <1>5, FreshLooks DEF PollNoWrap, PollFires, Fresh
<1>6. CASE PerformAudioEngineStop
  BY <1>6 DEF PerformAudioEngineStop
<1>7. CASE Tick
  BY <1>7, FreshTicks DEF Tick, Fresh
<1>8. CASE CaptureLost
  BY <1>8, FreshLost DEF CaptureLost, Fresh
<1>9. CASE CaptureBack
  BY <1>9, FreshBack DEF CaptureBack, Fresh
<1> QED BY <1>1, <1>2, <1>3, <1>4, <1>5, <1>6, <1>7, <1>8, <1>9 DEF Next

\* The timeline is never frozen for long: a DMA that runs gets a stamp within a ring, a poll and
\* a spin of the last one or of its start, and each outage holds stamps up by as much at most,
\* however many outages follow on each other and however long each lasts.
THEOREM ClockCurrent == ASSUME Prompt PROVE Spec => []TimelineCurrent
<1>1. Init => Fresh
  BY DEF Init, Fresh
<1>2. ClockInv /\ Fresh /\ [Next]_vars => Fresh'
  BY FreshStep
<1>3. ClockInv /\ Fresh => TimelineCurrent
  <2> SUFFICES ASSUME ClockInv, FreshInv
               PROVE  /\ valid => time - Later(stampTime, dma) <= Span
                      /\ time - stampTime <= (outages + 1) * Span
    BY DEF Fresh, TimelineCurrent
  <2>1. TypeOK
    BY DEF ClockInv
  <2> DEFINE z == Later(stampTime, dma)
  <2>2. /\ lastWrapFrame \in 0 .. Ring - 1 /\ time \in Int /\ stampTime \in Int /\ dma \in Int
        /\ pollDue \in Int /\ z \in Int /\ dma <= z
    BY <2>1 DEF TypeOK, Later
  <2>3. /\ Hold \in Nat /\ Late <= Hold /\ Poll + Hold < Ring /\ Span \in Nat
        /\ Span = Ring + Poll + Hold + SpinMax
        /\ HeldUp \in Nat /\ (outages + 1) * Span = HeldUp + Span
    BY <2>1, Spans
  <2> HIDE DEF z
  <2>4. CASE Watched
    <3>1. /\ time <= Armed + Poll + Late /\ Armed \in Int
          /\ Armed <= z + lastWrapFrame + SpinMax
          /\ Armed <= (stampTime + HeldUp) + lastWrapFrame + SpinMax
      BY <2>2, <2>4 DEF Watched, InPass, Since, Armed, z
    <3>2. time - z <= Span /\ time - stampTime <= HeldUp + Span
      BY <2>2, <2>3, <3>1
    <3> QED BY <2>3, <3>2 DEF z
  <2>5. CASE Unwatched
    <3>1. /\ time <= Armed + Poll + Hold /\ Armed \in Int
          /\ Armed - lastWrapFrame - stampTime <= HeldUp - Poll - Hold
          /\ valid => Armed <= dma
      BY <2>2, <2>5 DEF Unwatched, FreshInv, Armed
    <3>2. time - stampTime <= HeldUp + Span
      BY <2>2, <2>3, <3>1
    <3>3. valid => time - z <= Span
      BY <2>2, <2>3, <3>1
    <3> QED BY <2>3, <3>2, <3>3 DEF z
  <2> QED BY <2>4, <2>5 DEF FreshInv
<1> QED BY <1>1, <1>2, <1>3, ClockInvariant, PTL DEF Spec
================================================================================
