------------------------------ MODULE PluginIO ------------------------------
(***************************************************************************)
(* The IO half of the HAL plug-in (plugin/LatSOFAudioPlugin.c): StartIO    *)
(* and StopIO count the clients under gPlugIn_StateMutex, the first one    *)
(* opens the driver, maps the capture ring and resets the clock, the last  *)
(* one unmaps it.  GetZeroTimeStamp builds the device's clock from the     *)
(* capture position under another mutex, gDevice_IOMutex, and              *)
(* DoIOOperation reads the ring under none.  What keeps them apart is the  *)
(* count, and that the HAL runs a client's IO only between its start and   *)
(* its stop.                                                               *)
(*                                                                         *)
(* One frame of the ring is one unit of host time: gDevice_HostTicksPer-   *)
(* Frame is 1.  Sample times are counted in rings.  Host time is counted   *)
(* from the last session's start, since no time outlives a session.        *)
(***************************************************************************)
EXTENDS Integers, FiniteSets

CONSTANTS
  Clients,      \* the HAL's clients of the device
  Nobody,       \* holder of a free mutex
  Ring,         \* kDevice_RingBufferSize
  Latency,      \* longest time GetZeroTimeStamp spends between clock and position
  MaxPoll,      \* the HAL asks for a time stamp at least this often while IO runs
  Horizon,      \* bound on the length of a session
  DspMayFail,   \* the DSP may go down and come back while IO runs
  KextMayDie    \* the driver may be unloaded under the plug-in's connection

ASSUME ClientsAssumption == Nobody \notin Clients /\ IsFiniteSet(Clients)
ASSUME TimeAssumption ==
  /\ Ring \in Nat \ {0} /\ Latency \in Nat /\ MaxPoll \in Nat \ {0} /\ Horizon \in Nat
  /\ MaxPoll < Ring
ASSUME FaultAssumption == DspMayFail \in BOOLEAN /\ KextMayDie \in BOOLEAN

VARIABLES
  pc,                       \* where each client's thread is
  gPlugIn_StateMutex, gDevice_IOMutex,
  gDevice_IOIsRunning,
  gKextConnection,          \* "none", "open", or "dead": open to a driver that is gone
  gCaptureBuffer,           \* is the ring mapped?
  gHWClk,                   \* wraps, last, wrapTime, primed
  gAnchor,                  \* the host-clock timeline: host time and stamps issued
  theCurrentHostTime,       \* GetZeroTimeStamp's local, of the client that stamps
  \* the driver and the host clock
  now, hwReady,
  asked,                    \* has this connection asked for capture?
  dmaStart,                 \* when the capture DMA was at frame 0, or Stopped
  \* history
  stamp,                    \* the last time stamp of the session, or NoStamp
  readAt,                   \* when the position was last read
  primedAt,                 \* when the DMA last was at frame 0 before the clock was primed
  outage                    \* was capture down at any time of this session?

lib == << gKextConnection, gCaptureBuffer >>
clock == << gHWClk, gAnchor >>
driver == << hwReady, asked, dmaStart >>
history == << stamp, readAt, primedAt, outage >>
vars == << pc, gPlugIn_StateMutex, gDevice_IOMutex, gDevice_IOIsRunning, lib, clock,
           theCurrentHostTime, now, driver, history >>

Stopped == -1
NoStamp == [sample |-> -1, host |-> -1]
ClockReset == [wraps |-> 0, last |-> 0, wrapTime |-> 0, primed |-> FALSE]
NoAnchor == [host |-> 0, stamps |-> 0]

Started == {"running", "stamping", "reading"}
\* The clients whose start has been counted and whose stop has not.
Counted == {c \in Clients : pc[c] \in Started \cup {"stop", "unmap"}}

InitPlugin ==
  /\ pc = [c \in Clients |-> "idle"]
  /\ gPlugIn_StateMutex = Nobody /\ gDevice_IOMutex = Nobody
  /\ gDevice_IOIsRunning = 0
  /\ gKextConnection = "none" /\ gCaptureBuffer = FALSE
  /\ gHWClk = ClockReset /\ gAnchor = NoAnchor
  /\ theCurrentHostTime = 0
  /\ stamp = NoStamp /\ readAt = 0 /\ primedAt = 0 /\ outage = FALSE

Init ==
  /\ InitPlugin
  /\ now = 0
  /\ hwReady \in BOOLEAN /\ asked = FALSE /\ dmaStart = Stopped

Goto(c, from, to) == pc[c] = from /\ pc' = [pc EXCEPT ![c] = to]

-----------------------------------------------------------------------------
\* The driver's side of the calls: a start is refused while the DSP is down, but the
\* driver latches the demand and starts the DMA when it is back.
KextStartCapture ==
  IF gKextConnection' = "open"
  THEN /\ asked' = TRUE
       /\ dmaStart' = IF hwReady THEN now' ELSE Stopped
  ELSE UNCHANGED << asked, dmaStart >>

KextStopCapture ==
  IF gKextConnection = "open"
  THEN asked' = FALSE /\ dmaStart' = Stopped
  ELSE UNCHANGED << asked, dmaStart >>

\* getCapturePosition: not gated, and 0 while the DSP is down.
CapturePosition == IF dmaStart = Stopped THEN 0 ELSE (now - dmaStart) % Ring

-----------------------------------------------------------------------------
\* StartIO takes the state mutex.
StartIOLock(c) ==
  /\ Goto(c, "idle", "start")
  /\ gPlugIn_StateMutex = Nobody /\ gPlugIn_StateMutex' = c
  /\ UNCHANGED << gDevice_IOMutex, gDevice_IOIsRunning, lib, clock, theCurrentHostTime, now,
                  driver, history >>

\* Mutant: A later client's start is not counted.
StartIOUncounted(c) ==
  /\ gDevice_IOIsRunning > 0
  /\ Goto(c, "start", "running")
  /\ gPlugIn_StateMutex' = Nobody
  /\ UNCHANGED << gDevice_IOMutex, gDevice_IOIsRunning, lib, clock, theCurrentHostTime, now,
                  driver, history >>

\* Mutant: A later client's start resets the clock as the first one's does.
StartIOBumpResets(c) ==
  /\ gDevice_IOIsRunning > 0
  /\ Goto(c, "start", "running")
  /\ gDevice_IOIsRunning' = gDevice_IOIsRunning + 1
  /\ gPlugIn_StateMutex' = Nobody
  /\ gHWClk' = ClockReset
  /\ UNCHANGED << gDevice_IOMutex, lib, gAnchor, theCurrentHostTime, now, driver, history >>

\* IO is already running: just bump the counter.
StartIOBump(c) ==
  /\ gDevice_IOIsRunning > 0
  /\ Goto(c, "start", "running")
  /\ gDevice_IOIsRunning' = gDevice_IOIsRunning + 1
  /\ gPlugIn_StateMutex' = Nobody
  /\ UNCHANGED << gDevice_IOMutex, lib, clock, theCurrentHostTime, now, driver, history >>

\* The first client: open the driver if there is no connection yet and a service is
\* found, map the ring if that works, reset the clock, start capture whatever the driver
\* answers.
StartIOFirst(c) ==
  /\ gDevice_IOIsRunning = 0
  /\ Goto(c, "start", "first")
  /\ now' = 0
  /\ gKextConnection' \in IF gKextConnection = "none" THEN {"none", "open"}
                          ELSE {gKextConnection}
  /\ gCaptureBuffer' \in {gCaptureBuffer, gCaptureBuffer \/ gKextConnection' = "open"}
  /\ gHWClk' = IF gKextConnection' = "none" THEN gHWClk ELSE ClockReset
  /\ KextStartCapture
  /\ stamp' = NoStamp /\ readAt' = 0 /\ primedAt' = 0
  /\ outage' = (dmaStart' = Stopped)
  /\ UNCHANGED << gPlugIn_StateMutex, gDevice_IOMutex, gDevice_IOIsRunning, gAnchor,
                  theCurrentHostTime, hwReady >>

StartIOCount(c) ==
  /\ Goto(c, "first", "running")
  /\ gDevice_IOIsRunning' = 1
  /\ gAnchor' = [host |-> now, stamps |-> 0]
  /\ gPlugIn_StateMutex' = Nobody
  /\ readAt' = now
  /\ UNCHANGED << gDevice_IOMutex, lib, gHWClk, theCurrentHostTime, now, driver, stamp,
                  primedAt, outage >>

StopIOLock(c) ==
  /\ Goto(c, "running", "stop")
  /\ gPlugIn_StateMutex = Nobody /\ gPlugIn_StateMutex' = c
  /\ UNCHANGED << gDevice_IOMutex, gDevice_IOIsRunning, lib, clock, theCurrentHostTime, now,
                  driver, history >>

\* Mutant: Whoever stops, stops capture.
StopIODropStops(c) ==
  /\ gDevice_IOIsRunning > 1
  /\ Goto(c, "stop", "idle")
  /\ gDevice_IOIsRunning' = gDevice_IOIsRunning - 1
  /\ gPlugIn_StateMutex' = Nobody
  /\ KextStopCapture
  /\ UNCHANGED << gDevice_IOMutex, lib, clock, theCurrentHostTime, now, hwReady, history >>

\* IO is still running for somebody else: just drop the counter.
StopIODrop(c) ==
  /\ gDevice_IOIsRunning > 1
  /\ Goto(c, "stop", "idle")
  /\ gDevice_IOIsRunning' = gDevice_IOIsRunning - 1
  /\ gPlugIn_StateMutex' = Nobody
  /\ UNCHANGED << gDevice_IOMutex, lib, clock, theCurrentHostTime, now, driver, history >>

\* The last client: stop capture, then unmap.
StopIOLast(c) ==
  /\ gDevice_IOIsRunning = 1
  /\ Goto(c, "stop", "unmap")
  /\ KextStopCapture
  /\ UNCHANGED << gPlugIn_StateMutex, gDevice_IOMutex, gDevice_IOIsRunning, lib, clock,
                  theCurrentHostTime, now, hwReady, history >>

StopIOUnmap(c) ==
  /\ Goto(c, "unmap", "idle")
  /\ gCaptureBuffer' = (gCaptureBuffer /\ gKextConnection = "none")
  /\ gDevice_IOIsRunning' = 0
  /\ gPlugIn_StateMutex' = Nobody
  /\ now' = 0 /\ stamp' = NoStamp /\ readAt' = 0 /\ primedAt' = 0 /\ outage' = FALSE
  /\ UNCHANGED << gDevice_IOMutex, gKextConnection, clock, theCurrentHostTime, driver >>

-----------------------------------------------------------------------------
\* GetZeroTimeStamp reads the clock first and asks the driver for the position then.
StampBegin(c) ==
  /\ Goto(c, "running", "stamping")
  /\ gDevice_IOMutex = Nobody /\ gDevice_IOMutex' = c
  /\ theCurrentHostTime' = now
  /\ UNCHANGED << gPlugIn_StateMutex, gDevice_IOIsRunning, lib, clock, now, driver, history >>

StampEnd(c) ==
  /\ Goto(c, "stamping", "running")
  /\ gDevice_IOMutex' = Nobody
  /\ readAt' = now
  /\ theCurrentHostTime' = 0
  /\ UNCHANGED << gPlugIn_StateMutex, gDevice_IOIsRunning, lib, now, driver, outage >>

\* Mutant: a wrap is placed at the time of the call that saw it, not back-dated.
WrappedFromNow(observed) ==
  [gHWClk EXCEPT !.wraps = @ + 1, !.wrapTime = theCurrentHostTime]

\* A position smaller than the last one is a wrap: advance one ring, and move an eighth of
\* the way to where the ring was seen to wrap.
Wrapped(observed) ==
  LET thePredicted == gHWClk.wrapTime + Ring
  IN [gHWClk EXCEPT !.wraps = @ + 1,
                    !.wrapTime = thePredicted + ((observed - thePredicted) \div 8)]

\* The hardware clock, after a position thePos read by a call begun at theCurrentHostTime.
ClockAfter(thePos) ==
  LET observed == theCurrentHostTime - thePos IN
  IF ~gHWClk.primed
    THEN [gHWClk EXCEPT !.wrapTime = observed, !.primed = TRUE, !.last = thePos]
    ELSE [(IF thePos < gHWClk.last THEN Wrapped(observed) ELSE gHWClk) EXCEPT !.last = thePos]

StampHardware(c) ==
  /\ gKextConnection = "open"
  /\ StampEnd(c)
  /\ gHWClk' = ClockAfter(CapturePosition)
  /\ stamp' = [sample |-> gHWClk'.wraps, host |-> gHWClk'.wrapTime]
  /\ primedAt' = IF gHWClk.primed THEN primedAt ELSE now - CapturePosition
  /\ UNCHANGED gAnchor

\* No connection, or the call failed: a timeline made from the host clock, one ring at
\* most further on each call.
StampFallback(c) ==
  /\ gKextConnection # "open"
  /\ StampEnd(c)
  /\ LET due == gAnchor.host + (gAnchor.stamps + 1) * Ring <= theCurrentHostTime
     IN gAnchor' = [gAnchor EXCEPT !.stamps = IF due THEN @ + 1 ELSE @]
  /\ stamp' = [sample |-> gAnchor'.stamps, host |-> gAnchor.host + gAnchor'.stamps * Ring]
  /\ UNCHANGED << gHWClk, primedAt >>

\* ReadInput: the ring is looked at once, then read frame by frame; without a ring the
\* input is silence.
ReadBegin(c) ==
  /\ gCaptureBuffer /\ gKextConnection # "none"
  /\ Goto(c, "running", "reading")
  /\ UNCHANGED << gPlugIn_StateMutex, gDevice_IOMutex, gDevice_IOIsRunning, lib, clock,
                  theCurrentHostTime, now, driver, history >>

ReadEnd(c) ==
  /\ Goto(c, "reading", "running")
  /\ UNCHANGED << gPlugIn_StateMutex, gDevice_IOMutex, gDevice_IOIsRunning, lib, clock,
                  theCurrentHostTime, now, driver, history >>
-----------------------------------------------------------------------------
\* The rest of the system.

\* Host time passes in a session.  The HAL's IO cycle asks for time stamps often enough,
\* and the call for the position does not take for ever.
InSession == \E c \in Clients : pc[c] \in Started \cup {"first", "stop", "unmap"}

Tick ==
  /\ now < Horizon
  /\ InSession
  /\ gDevice_IOMutex # Nobody => now - theCurrentHostTime < Latency
  /\ now - readAt < MaxPoll
  /\ now' = now + 1
  /\ UNCHANGED << pc, gPlugIn_StateMutex, gDevice_IOMutex, gDevice_IOIsRunning, lib, clock,
                  theCurrentHostTime, driver, history >>

\* A recovery or a sleep takes the DSP down, and its rebuild re-arms capture.
DspDown ==
  /\ DspMayFail /\ hwReady
  /\ hwReady' = FALSE /\ dmaStart' = Stopped
  /\ outage' = InSession
  /\ UNCHANGED << pc, gPlugIn_StateMutex, gDevice_IOMutex, gDevice_IOIsRunning, lib, clock,
                  theCurrentHostTime, now, asked, stamp, readAt, primedAt >>

DspUp ==
  /\ ~hwReady
  /\ hwReady' = TRUE /\ dmaStart' = IF asked THEN now ELSE Stopped
  /\ UNCHANGED << pc, gPlugIn_StateMutex, gDevice_IOMutex, gDevice_IOIsRunning, lib, clock,
                  theCurrentHostTime, now, asked, history >>

KextDies ==
  /\ KextMayDie /\ gKextConnection = "open"
  /\ gKextConnection' = "dead"
  /\ asked' = FALSE /\ dmaStart' = Stopped
  /\ outage' = InSession
  /\ UNCHANGED << pc, gPlugIn_StateMutex, gDevice_IOMutex, gDevice_IOIsRunning,
                  gCaptureBuffer, clock, theCurrentHostTime, now, hwReady, stamp, readAt,
                  primedAt >>

\* The process that hosts the plug-in dies at any point and is started again.  The kernel
\* closes its connection, and clientClose stops what it had asked for.
HostDies ==
  /\ pc' = [c \in Clients |-> "idle"]
  /\ gPlugIn_StateMutex' = Nobody /\ gDevice_IOMutex' = Nobody
  /\ gDevice_IOIsRunning' = 0
  /\ gKextConnection' = "none" /\ gCaptureBuffer' = FALSE
  /\ gHWClk' = ClockReset /\ gAnchor' = NoAnchor
  /\ KextStopCapture
  /\ theCurrentHostTime' = 0
  /\ now' = 0 /\ stamp' = NoStamp /\ readAt' = 0 /\ primedAt' = 0 /\ outage' = FALSE
  /\ UNCHANGED hwReady

StartIO(c) == StartIOLock(c) \/ StartIOBump(c) \/ StartIOFirst(c) \/ StartIOCount(c)
StopIO(c) == StopIOLock(c) \/ StopIODrop(c) \/ StopIOLast(c) \/ StopIOUnmap(c)
GetZeroTimeStamp(c) == StampBegin(c) \/ StampHardware(c) \/ StampFallback(c)
DoIOOperation(c) == ReadBegin(c) \/ ReadEnd(c)

Next ==
  \/ \E c \in Clients : StartIO(c) \/ StopIO(c) \/ GetZeroTimeStamp(c) \/ DoIOOperation(c)
  \/ Tick \/ DspDown \/ DspUp \/ KextDies \/ HostDies

Spec == Init /\ [][Next]_vars

-----------------------------------------------------------------------------
\* StartIO and StopIO take and release work only for the first and the last client
\* (LatSOFAudioPlugin.c:3881-3886): whatever the clients interleave, and after a crash of
\* the host too, the driver runs capture for this plug-in exactly while somebody's start
\* has been counted.  Only the call that is just changing it may be in between.  And
\* DoIOOperation, which tests gCaptureBuffer once and then reads all its frames without a
\* lock (4205-4237), never has the ring unmapped under it by another client's stop.
CaptureWhileCounted ==
  /\ gDevice_IOIsRunning = Cardinality(Counted)
  /\ asked => gKextConnection = "open"
  /\ (\A c \in Clients : pc[c] \notin {"first", "unmap"}) =>
       (asked <=> gDevice_IOIsRunning > 0 /\ gKextConnection = "open")
  /\ \A c \in Clients : pc[c] = "reading" => gCaptureBuffer

\* The clients that have the device: from the first one's open, or the count of a later one, to
\* the drop or the last one's stop.
Users == {c \in Clients : pc[c] \in Started \cup {"first", "stop"}}
Readers == {c \in Clients : pc[c] = "reading"}

Shared == INSTANCE SharedCapture WITH
  users <- Users, connection <- gKextConnection, capturing <- asked,
  mapped <- gCaptureBuffer, readers <- Readers

\* Seen from the clients the count, the mutex and the calls in two halves are one shared capture
\* (SharedCapture): the first start and the last stop alone open, map, start and stop, each in
\* one instant, and no start or stop of another client changes anything, nor leaks a mapping.
CaptureIsShared == Shared!Spec

\* GetZeroTimeStamp and the reset in StartIO hold different mutexes (3941-3946, 4044):
\* the clock is still never reset, nor the ring unmapped, beside a time stamp or a read.
IOExcludesRestart ==
  \A c, d \in Clients :
    pc[c] \in {"first", "unmap"} => pc[d] \notin Started

\* When the DMA was at frame 0 before the last read of the position.
LastWrap == readAt - gHWClk.last
Clean == ~outage /\ gKextConnection = "open" /\ gHWClk.primed /\ stamp # NoStamp

\* The time stamps are "anchored to real DMA wraps" (4054): unless capture was down in
\* between, the rings counted are the rings that went by, and the host time of a ring is
\* not after the instant the DMA passed frame 0, nor before it by more than a call takes,
\* although each wrap is corrected only an eighth of the way.
StampsFollowRing ==
  Clean => /\ LastWrap = primedAt + gHWClk.wraps * Ring
           /\ stamp.host \in (LastWrap - Latency) .. LastWrap

\* "Build a monotonic sample time" (193-194): within a session, through outages and with
\* any number of clients asking, neither time goes back, and sample time advances by at
\* most one ring between two stamps.  A driver that goes away ends the session.
StampsMonotonic ==
  [][stamp # NoStamp /\ stamp' # NoStamp /\ gKextConnection' # "dead" =>
       /\ stamp'.sample - stamp.sample \in {0, 1}
       /\ stamp'.host >= stamp.host]_vars

=============================================================================
