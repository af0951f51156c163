------------------------------- MODULE Teardown -------------------------------
(***************************************************************************)
(* The end of the driver: LatSOFAudioDevice::stop takes down, one by one,  *)
(* what other threads still call into: the sleep notifications, the 500 ms *)
(* tick, the audio child and its engine, the streams, power management,    *)
(* the command gate and at last the DMA buffers.                           *)
(*                                                                         *)
(* The engine belongs to the child, and IOAudioFamily frees it off the     *)
(* gate while the tick or setPowerState, on it, may be holding the         *)
(* pointer.  IOKit may also take the child down on its own, before stop or *)
(* while it runs.  The user client is stopped before the driver is.        *)
(***************************************************************************)

VARIABLES
  stop,                  \* what stop() has done last
  powerNotifier, jackTimer, pm, commandGate, buffers,   \* is it there?
  kernelAudio, engine,   \* are the pointers to the child and to its engine set?
  child, terminating,    \* how far the child's stop has come; is it asked for?
  gate, using,           \* the handler on the gate; does it hold the engine pointer?
  hwReady, isCapturing,
  dma,                   \* does the capture DMA write into its buffer?
  powered,               \* the power state last told
  gEngineResumePending, gSleepImminent, gWakeReinitPending, gWasCapturing,
  held, engineRunning, paused   \* the engine: has it clients, does it run, was it paused?

parts == << powerNotifier, jackTimer, pm, commandGate, buffers >>
pointers == << kernelAudio, engine >>
ending == << child, terminating >>
onGate == << gate, using >>
stream == << hwReady, isCapturing, dma, powered >>
latches == << gEngineResumePending, gSleepImminent, gWakeReinitPending, gWasCapturing >>
family == << held, engineRunning, paused >>
stopVars == << stop, parts, pointers, ending, onGate, stream, latches, family >>

Handlers == {"tick", "power"}

\* After a start() that succeeded; the child is not there if it could not be published.
StopInit ==
  /\ stop = "live"
  /\ powerNotifier = TRUE /\ jackTimer = TRUE /\ pm = TRUE /\ commandGate = TRUE /\ buffers = TRUE
  /\ kernelAudio \in BOOLEAN /\ engine = kernelAudio
  /\ child = (IF kernelAudio THEN "alive" ELSE "freed") /\ terminating = FALSE
  /\ gate = "free" /\ using = FALSE
  /\ hwReady = TRUE /\ isCapturing = FALSE /\ dma = FALSE /\ powered = TRUE
  /\ gEngineResumePending = FALSE /\ gSleepImminent = FALSE
  /\ gWakeReinitPending = FALSE /\ gWasCapturing = FALSE
  /\ held = FALSE /\ engineRunning = FALSE /\ paused = FALSE

-----------------------------------------------------------------------------
\* Parts of the gated functions.
GateFree == gate = "free" /\ UNCHANGED onGate

\* startCaptureGated, of a stream whose DSP answers; with the DSP down it latches the demand
\* and schedules the rebuild.
StartCapture == isCapturing' = TRUE /\ dma' = TRUE

StartRefused(demand) ==
  /\ gWasCapturing' = demand /\ gWakeReinitPending' = TRUE
  /\ UNCHANGED << isCapturing, dma >>

\* stopCaptureGated.
StopCapture ==
  /\ gWasCapturing' = FALSE
  /\ isCapturing' = FALSE
  /\ dma' = IF isCapturing THEN FALSE ELSE dma

\* shutdownForSleepGated: the controller's D3, if it follows, stops the DMA.
ShutdownForSleep(d3) ==
  /\ gWasCapturing' = (gWasCapturing \/ isCapturing)
  /\ hwReady' = FALSE /\ isCapturing' = FALSE
  /\ dma' = IF d3 THEN FALSE ELSE dma

-----------------------------------------------------------------------------
\* Callers of the gated paths.
\* sPowerInterestHandler: the notices of a sleep and of a wake.
Notice ==
  /\ powerNotifier /\ GateFree
  /\ gSleepImminent' \in BOOLEAN
  /\ UNCHANGED << stop, parts, pointers, ending, stream, family,
                  gEngineResumePending, gWakeReinitPending, gWasCapturing >>

\* The tick finishes a rebuild, which takes a powered DSP, and re-arms the capture it owes, ...
TickRebuilds ==
  /\ jackTimer /\ GateFree
  /\ gWakeReinitPending /\ ~hwReady /\ powered /\ gWakeReinitPending' = FALSE
  /\ hwReady' = TRUE
  /\ IF gWasCapturing THEN StartCapture ELSE UNCHANGED << isCapturing, dma >>
  /\ gWasCapturing' = FALSE
  /\ UNCHANGED << stop, parts, pointers, ending, powered, family,
                  gEngineResumePending, gSleepImminent >>

\* ... or gives up after its tries.
TickGivesUp ==
  /\ jackTimer /\ GateFree
  /\ gWakeReinitPending /\ ~hwReady /\ gWakeReinitPending' = FALSE
  /\ UNCHANGED << stop, parts, pointers, ending, stream, family,
                  gEngineResumePending, gSleepImminent, gWasCapturing >>

ResumeDue ==
  /\ gEngineResumePending /\ hwReady /\ ~gWakeReinitPending /\ ~gSleepImminent
  /\ kernelAudio

\* The resume executor takes the engine pointer, ...
TickTakesEngine ==
  /\ jackTimer /\ gate = "free" /\ ResumeDue /\ engine
  /\ gate' = "tick" /\ using' = TRUE
  /\ UNCHANGED << stop, parts, pointers, ending, stream, latches, family >>

\* ... finds none, ...
TickFindsNoEngine ==
  /\ jackTimer /\ GateFree /\ ResumeDue /\ ~engine
  /\ gEngineResumePending' = FALSE
  /\ UNCHANGED << stop, parts, pointers, ending, stream, family,
                  gSleepImminent, gWakeReinitPending, gWasCapturing >>

\* ... or uses it: completeDeferredResume starts an engine that has clients.
TickUsesEngine ==
  /\ gate = "tick" /\ gate' = "free" /\ using' = FALSE
  /\ IF held /\ ~engineRunning
       THEN StartCapture /\ engineRunning' = TRUE /\ paused' = FALSE
       ELSE UNCHANGED << isCapturing, dma, engineRunning, paused >>
  /\ gEngineResumePending' = FALSE
  /\ UNCHANGED << stop, parts, pointers, ending, hwReady, powered, held,
                  gSleepImminent, gWakeReinitPending, gWasCapturing >>

\* setPowerState(0), with the controller's D3.
PowerDown ==
  /\ pm /\ powered /\ GateFree
  /\ powered' = FALSE
  /\ gWakeReinitPending' = FALSE
  /\ ShutdownForSleep(TRUE)
  /\ UNCHANGED << stop, parts, pointers, ending, family, gEngineResumePending, gSleepImminent >>

\* setPowerState(1) schedules the rebuild and takes the engine pointer, if it is there, ...
PowerUp ==
  /\ pm /\ ~powered /\ gate = "free"
  /\ powered' = TRUE
  /\ gSleepImminent' = FALSE /\ gWakeReinitPending' = TRUE
  /\ IF ~gEngineResumePending /\ kernelAudio /\ engine
       THEN gate' = "power" /\ using' = TRUE
       ELSE UNCHANGED onGate
  /\ UNCHANGED << stop, parts, pointers, ending, hwReady, isCapturing, dma, family,
                  gEngineResumePending, gWasCapturing >>

\* ... to see whether it needs the deferred resume.
PowerUpUsesEngine ==
  /\ gate = "power" /\ gate' = "free" /\ using' = FALSE
  /\ gEngineResumePending' = (held /\ ~engineRunning)
  /\ UNCHANGED << stop, parts, pointers, ending, stream, family,
                  gSleepImminent, gWakeReinitPending, gWasCapturing >>

\* The user client's StartCapture and StopCapture.
UserStarts ==
  /\ stop = "live" /\ GateFree
  /\ IF hwReady THEN StartCapture /\ UNCHANGED << gWasCapturing, gWakeReinitPending >>
     ELSE StartRefused(TRUE)
  /\ UNCHANGED << stop, parts, pointers, ending, hwReady, powered, family,
                  gEngineResumePending, gSleepImminent >>

UserStops ==
  /\ stop = "live" /\ GateFree
  /\ StopCapture
  /\ UNCHANGED << stop, parts, pointers, ending, hwReady, powered, family,
                  gEngineResumePending, gSleepImminent, gWakeReinitPending >>

ChildServes == child \in {"alive", "told"}

\* IOAudioFamily starts and stops the engine for its clients, also while the child tells the
\* owner that it ends, ...
EngineStarts ==
  /\ ChildServes /\ ~held /\ GateFree
  /\ IF hwReady
       THEN /\ StartCapture /\ held' = TRUE /\ engineRunning' = TRUE
            /\ UNCHANGED << gWasCapturing, gWakeReinitPending >>
       ELSE StartRefused(FALSE) /\ UNCHANGED << held, engineRunning >>
  /\ UNCHANGED << stop, parts, pointers, ending, hwReady, powered, paused,
                  gEngineResumePending, gSleepImminent >>

EngineStops ==
  /\ ChildServes /\ held /\ GateFree
  /\ held' = FALSE /\ engineRunning' = FALSE /\ paused' = FALSE
  /\ IF engineRunning THEN StopCapture ELSE UNCHANGED << isCapturing, dma, gWasCapturing >>
  /\ UNCHANGED << stop, parts, pointers, ending, hwReady, powered,
                  gEngineResumePending, gSleepImminent, gWakeReinitPending >>

\* ... pauses it for a sleep ...
EnginePauses ==
  /\ ChildServes /\ engineRunning /\ GateFree
  /\ engineRunning' = FALSE /\ paused' = TRUE
  /\ StopCapture
  /\ UNCHANGED << stop, parts, pointers, ending, hwReady, powered, held,
                  gEngineResumePending, gSleepImminent, gWakeReinitPending >>

\* ... and resumes it, which latches the restart.
EngineResumes ==
  /\ ChildServes /\ paused /\ GateFree
  /\ paused' = FALSE
  /\ gEngineResumePending' = TRUE
  /\ UNCHANGED << stop, parts, pointers, ending, stream, held, engineRunning,
                  gSleepImminent, gWakeReinitPending, gWasCapturing >>

-----------------------------------------------------------------------------
\* The child's stop, in its own thread.
\* IOKit terminates it.
IOKitTerminatesChild ==
  /\ child = "alive" /\ terminating' = TRUE
  /\ UNCHANGED << stop, parts, pointers, child, onGate, stream, latches, family >>

\* Mutant: the pointer is cleared off the gate.
TearingDownUngated ==
  /\ terminating /\ child = "alive" /\ child' = "told"
  /\ gEngineResumePending' = FALSE /\ engine' = FALSE
  /\ UNCHANGED << stop, parts, kernelAudio, terminating, onGate, stream, family,
                  gSleepImminent, gWakeReinitPending, gWasCapturing >>

\* LatSOFKernelAudioDevice::stop first tells the owner: kernelAudioTearingDown.
TearingDown ==
  /\ terminating /\ child = "alive" /\ child' = "told"
  /\ commandGate => gate = "free"
  /\ gEngineResumePending' = FALSE /\ engine' = FALSE
  /\ UNCHANGED << stop, parts, kernelAudio, terminating, onGate, stream, family,
                  gSleepImminent, gWakeReinitPending, gWasCapturing >>

\* IOAudioDevice::stop stops an engine that runs, through the gate, ...
DeactivateEngine ==
  /\ child = "told" /\ child' = "quiet"
  /\ IF engineRunning THEN GateFree /\ StopCapture
     ELSE UNCHANGED << onGate, isCapturing, dma, gWasCapturing >>
  /\ held' = FALSE /\ engineRunning' = FALSE /\ paused' = FALSE
  /\ UNCHANGED << stop, parts, pointers, terminating, hwReady, powered,
                  gEngineResumePending, gSleepImminent, gWakeReinitPending >>

\* ... and frees it.
FreeEngine ==
  /\ child = "quiet" /\ child' = "freed"
  /\ UNCHANGED << stop, parts, pointers, terminating, onGate, stream, latches, family >>

-----------------------------------------------------------------------------
\* stop().
After(done, next) == stop = done /\ stop' = next

\* The user client is gone by now.
RemoveNotifier ==
  /\ After("live", "deaf")
  /\ powerNotifier' = FALSE
  /\ UNCHANGED << jackTimer, pm, commandGate, buffers, pointers, ending, onGate, stream,
                  latches, family >>

\* removeEventSource waits for the gate: no tick runs afterwards.
RemoveTimer ==
  /\ After("deaf", "tickless") /\ GateFree
  /\ jackTimer' = FALSE
  /\ UNCHANGED << powerNotifier, pm, commandGate, buffers, pointers, ending, stream,
                  latches, family >>

\* Mutant: the child is let go without being terminated.
ClearKernelAudioOnly ==
  /\ After("tickless", "childless") /\ GateFree
  /\ kernelAudio' = FALSE
  /\ UNCHANGED << parts, engine, ending, stream, latches, family >>

\* s_clearKernelAudio, and the child's termination asked for.
ClearKernelAudio ==
  /\ After("tickless", "childless") /\ GateFree
  /\ kernelAudio' = FALSE
  /\ terminating' = (terminating \/ kernelAudio)
  /\ UNCHANGED << parts, engine, child, stream, latches, family >>

\* terminate(kIOServiceSynchronous) has returned: s_stopPlayback and s_stopCapture.
StopStreams ==
  /\ child = "freed" /\ After("childless", "streamless") /\ GateFree
  /\ StopCapture
  /\ UNCHANGED << parts, pointers, ending, hwReady, powered, family,
                  gEngineResumePending, gSleepImminent, gWakeReinitPending >>

\* PMstop delivers setPowerState(0), and no D3 follows.
PMStop ==
  /\ After("streamless", "powerless") /\ GateFree
  /\ pm' = FALSE
  /\ IF powered THEN gWakeReinitPending' = FALSE /\ ShutdownForSleep(FALSE)
     ELSE UNCHANGED << gWakeReinitPending, gWasCapturing, hwReady, isCapturing, dma >>
  /\ UNCHANGED << powerNotifier, jackTimer, commandGate, buffers, pointers, ending, powered,
                  family, gEngineResumePending, gSleepImminent >>

RemoveGate ==
  /\ After("powerless", "gateless") /\ GateFree
  /\ commandGate' = FALSE
  /\ UNCHANGED << powerNotifier, jackTimer, pm, buffers, pointers, ending, stream,
                  latches, family >>

FreeBuffers ==
  /\ After("gateless", "stopped")
  /\ buffers' = FALSE
  /\ UNCHANGED << powerNotifier, jackTimer, pm, commandGate, pointers, ending, onGate, stream,
                  latches, family >>

Stop ==
  \/ RemoveNotifier \/ RemoveTimer \/ ClearKernelAudio \/ StopStreams
  \/ PMStop \/ RemoveGate \/ FreeBuffers

Child == TearingDown \/ DeactivateEngine \/ FreeEngine

Handler ==
  \/ TickRebuilds \/ TickGivesUp \/ TickTakesEngine \/ TickFindsNoEngine \/ TickUsesEngine
  \/ PowerUpUsesEngine

Calls ==
  \/ Notice \/ PowerDown \/ PowerUp
  \/ UserStarts \/ UserStops
  \/ EngineStarts \/ EngineStops \/ EnginePauses \/ EngineResumes

Stopped == stop = "stopped" /\ child = "freed" /\ UNCHANGED stopVars

StopNext == Handler \/ Calls \/ IOKitTerminatesChild \/ Child \/ Stop \/ Stopped

StopSpec == StopInit /\ [][StopNext]_stopVars

\* stop() runs, the child's thread runs, and a handler on the gate comes off it.  Calls keep
\* the gate from none of them for ever.
FairStopSpec ==
  /\ StopSpec
  /\ SF_stopVars(RemoveTimer \/ ClearKernelAudio \/ StopStreams \/ PMStop \/ RemoveGate)
  /\ WF_stopVars(FreeBuffers) /\ SF_stopVars(Child)
  /\ WF_stopVars(TickUsesEngine) /\ WF_stopVars(PowerUpUsesEngine)

-----------------------------------------------------------------------------
PartTypes ==
  /\ powerNotifier \in BOOLEAN /\ jackTimer \in BOOLEAN /\ pm \in BOOLEAN
  /\ commandGate \in BOOLEAN /\ buffers \in BOOLEAN

ChildTypes ==
  /\ kernelAudio \in BOOLEAN /\ engine \in BOOLEAN /\ terminating \in BOOLEAN
  /\ child \in {"alive", "told", "quiet", "freed"}

GateTypes == gate \in {"free"} \cup Handlers /\ using \in BOOLEAN

StreamTypes ==
  hwReady \in BOOLEAN /\ isCapturing \in BOOLEAN /\ dma \in BOOLEAN /\ powered \in BOOLEAN

LatchTypes ==
  /\ gEngineResumePending \in BOOLEAN /\ gSleepImminent \in BOOLEAN
  /\ gWakeReinitPending \in BOOLEAN /\ gWasCapturing \in BOOLEAN

FamilyTypes == held \in BOOLEAN /\ engineRunning \in BOOLEAN /\ paused \in BOOLEAN

StopTypes ==
  /\ stop \in {"live", "deaf", "tickless", "childless", "streamless", "powerless",
               "gateless", "stopped"}
  /\ PartTypes /\ ChildTypes /\ GateTypes /\ StreamTypes /\ LatchTypes /\ FamilyTypes
  /\ using <=> gate # "free"
  /\ isCapturing => hwReady /\ dma

\* Nothing that stop() frees is in use, or can still be got at.  The engine: "These gated
\* actions make every later gated reader see nullptr instead of freed memory" (3094-3096), so no
\* handler holds it, nor can, when it is freed.  The buffers: "a kext unload during capture
\* freed capDmaBuf below while SD1 was still DMA-writing into it" (2174-2176).  The command gate:
\* nobody is left who would go through it.
NoUseAfterFree ==
  /\ StopTypes
  /\ child = "freed" => ~using /\ ~(kernelAudio /\ engine)
  /\ ~buffers => ~dma
  /\ ~commandGate => ~powerNotifier /\ ~jackTimer /\ ~pm /\ child = "freed" /\ gate = "free"

\* stop() comes to its end, whatever calls into it.
StopEnds == stop = "deaf" ~> stop = "stopped"
=============================================================================
