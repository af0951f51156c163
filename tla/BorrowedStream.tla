--------------------------- MODULE BorrowedStream ---------------------------
(***************************************************************************)
(* initDSP (kext/LatSOFAudio/LatSOFAudioDevice.cpp) step by step: bringing *)
(* the DSP up means driving AppleHDA's first output stream for a while, on *)
(* an interrupt line and with global registers shared with AppleHDA, and   *)
(* leaving by any of a dozen exits.                                        *)
(*                                                                         *)
(* The caller holds the command gate all the way, so only AppleHDA moves   *)
(* between the steps.  The callers are start() and, once it is through,    *)
(* the tick.  LatSOFAudioDevice has their policy; here a call's patience   *)
(* and the end of the retry budget are free choices.  Status is the        *)
(* property people are told to read (INSTALL.md): here it keeps its first  *)
(* word, and the failure it quotes.                                        *)
(***************************************************************************)
CONSTANTS
  Tunes,           \* programmings AppleHDA gives its output stream
  sIdx, other      \* the borrowed stream's bit, and the rest, of PPCTL and SPIB

ASSUME StreamAssumption == sIdx # other

VARIABLES
  pc,                     \* where initDSP is; "idle" is outside of it
  caller,                 \* start(), then the tick; "gone" when the load failed
  patient,                \* this call waits for a clean descriptor
  hwReady, gWakeReinitPending,
  status, gLastInitFail,  \* what Status says; the failure a give-up will quote
  ended,                  \* history: how initDSP last ended
  fwBuf, bdlBuf,          \* the firmware image and its descriptor list
  irqArmed,               \* DSP to host interrupt enabled (ADSPIC, HIPCCTL)
  sd, ppctl, spib,        \* the stream descriptor; decouple and SPIB enables
  snap, valid, restored,  \* SdSnapshot: the registers, taken, handed back
  apple, appleBits,       \* what AppleHDA last wrote there
  usurped                 \* AppleHDA wrote while the stream was borrowed

bufVars    == <<fwBuf, bdlBuf>>
shareVars  == <<sd, ppctl, spib>>
snapVars   == <<snap, valid, restored>>
appleVars  == <<apple, appleBits, usurped>>
callerVars == <<caller, patient, hwReady, gWakeReinitPending, gLastInitFail>>
outcome    == <<status, ended>>
vars == <<pc, outcome, irqArmed, callerVars, bufVars, shareVars, snapVars,
          appleVars>>

Clean == [prog |-> "clean", run |-> FALSE]
AppleStates ==
  {Clean} \cup [prog : Tunes, run : BOOLEAN]
Loader == [prog |-> "firmware", run |-> FALSE]
ASSUME TuneAssumption == "firmware" \notin Tunes /\ "clean" \notin Tunes

Bits == SUBSET {sIdx, other}
Snapshots == [sd : AppleStates, ppctl : Bits, spib : Bits]
NoSnapshot == [sd |-> Clean, ppctl |-> {}, spib |-> {}]

\* Why initDSP fails; a bail and an FW_READY without a header quote nothing.
Early   == {"decode", "power", "memory"}
Reasons == Early \cup {"rom", "init", "load", "runtime"}
Says(word, why) == [says |-> word, why |-> why]
Statuses == [says : {"none", "OK", "deferred", "FAILED"},
             why : Reasons \cup {"none", "unknown"}]

CallTypes ==
  /\ pc \in {"idle", "settle", "bdl", "look", "borrow", "rom", "init", "load",
             "ready", "cleanup", "return"}
  /\ caller \in {"start", "tick", "gone"}
  /\ patient \in BOOLEAN /\ hwReady \in BOOLEAN /\ gWakeReinitPending \in BOOLEAN
  /\ status \in Statuses /\ gLastInitFail \in Reasons \cup {"unknown"}
  /\ ended \in Reasons \cup {"never", "ready", "bail", "header"}
  /\ fwBuf \in BOOLEAN /\ bdlBuf \in BOOLEAN /\ irqArmed \in BOOLEAN

StreamTypes ==
  /\ sd \in [prog : Tunes \cup {"clean", "firmware"}, run : BOOLEAN]
  /\ ppctl \in Bits /\ spib \in Bits
  /\ snap \in Snapshots /\ valid \in BOOLEAN /\ restored \in BOOLEAN
  /\ apple \in AppleStates /\ appleBits \in SUBSET {other} /\ usurped \in BOOLEAN

TypeOK == CallTypes /\ StreamTypes

Init ==
  /\ pc = "idle" /\ caller = "start" /\ patient = FALSE /\ hwReady = FALSE
  /\ gWakeReinitPending = FALSE
  /\ status = Says("none", "none") /\ gLastInitFail = "unknown" /\ ended = "never"
  /\ fwBuf = FALSE /\ bdlBuf = FALSE /\ irqArmed = FALSE
  /\ apple \in AppleStates /\ sd = apple
  /\ appleBits \in SUBSET {other} /\ ppctl = appleBits /\ spib = appleBits
  /\ usurped = FALSE
  /\ snap = NoSnapshot /\ valid = FALSE /\ restored = FALSE

-----------------------------------------------------------------------------
(* The steps of initDSP.                                                   *)

\* outputSdBusyState against the policy: a stream in use is not borrowed.
Busy(p) == sd.run \/ (sd # Clean /\ p)

\* An exit that says why.
Fails(why) == status' = Says("FAILED", why) /\ ended' = why

\* start() defers to the tick when it finds the stream in use.
StartDefers ==
  /\ pc = "idle" /\ caller = "start" /\ \E p \in BOOLEAN : Busy(p)
  /\ caller' = "tick" /\ gWakeReinitPending' = TRUE
  /\ status' = Says("deferred", "none")
  /\ UNCHANGED <<pc, patient, hwReady, gLastInitFail, ended, bufVars, irqArmed,
                 shareVars, snapVars, appleVars>>

\* start(), or the tick with a round pending, found the stream free.
Call ==
  /\ pc = "idle" /\ ~hwReady
  /\ caller = "start" \/ (caller = "tick" /\ gWakeReinitPending)
  /\ patient' \in BOOLEAN /\ ~Busy(patient')
  /\ pc' = "settle"
  /\ snap' = NoSnapshot /\ valid' = FALSE /\ restored' = FALSE
  /\ UNCHANGED <<caller, hwReady, gWakeReinitPending, gLastInitFail, outcome,
                 bufVars, irqArmed, shareVars, appleVars>>

\* The controller does not decode, the cores do not power up, or no memory:
\* nothing was borrowed or allocated (goto done, return).
BringUpFails ==
  /\ pc = "settle" /\ pc' = "return" /\ \E why \in Early : Fails(why)
  /\ UNCHANGED <<callerVars, bufVars, irqArmed, shareVars, snapVars, appleVars>>

AllocateFirmware ==
  /\ pc = "settle" /\ pc' = "bdl" /\ fwBuf' = TRUE
  /\ UNCHANGED <<callerVars, outcome, bdlBuf, irqArmed, shareVars,
                 snapVars, appleVars>>

BdlFails ==
  /\ pc = "bdl" /\ pc' = "return" /\ Fails("memory")
  /\ fwBuf' = FALSE
  /\ UNCHANGED <<callerVars, bdlBuf, irqArmed, shareVars, snapVars, appleVars>>

AllocateBdl ==
  /\ pc = "bdl" /\ pc' = "look" /\ bdlBuf' = TRUE
  /\ UNCHANGED <<callerVars, outcome, fwBuf, irqArmed, shareVars,
                 snapVars, appleVars>>

\* The last look: the preflight is 750 ms old by now.
LookBails ==
  /\ pc = "look" /\ Busy(patient)
  /\ gWakeReinitPending' = TRUE /\ pc' = "cleanup"
  /\ status' = Says("deferred", "none") /\ ended' = "bail"
  /\ UNCHANGED <<caller, patient, hwReady, gLastInitFail, bufVars, irqArmed,
                 shareVars, snapVars, appleVars>>

LookPasses ==
  /\ pc = "look" /\ ~Busy(patient)
  /\ pc' = "borrow"
  /\ UNCHANGED <<callerVars, outcome, bufVars, irqArmed,
                 shareVars, snapVars, appleVars>>

\* Snapshot, decouple, program the loader.
Borrow ==
  /\ pc = "borrow" /\ pc' = "rom"
  /\ snap' = [sd |-> sd, ppctl |-> ppctl, spib |-> spib] /\ valid' = TRUE
  /\ sd' = Loader
  /\ ppctl' = ppctl \cup {sIdx} /\ spib' = spib \cup {sIdx}
  /\ UNCHANGED <<callerVars, outcome, bufVars, irqArmed, restored, appleVars>>

\* The ROM does not answer the purge IPC.
RomTimeout ==
  /\ pc = "rom" /\ pc' = "cleanup" /\ Fails("rom")
  /\ UNCHANGED <<callerVars, bufVars, irqArmed, shareVars, snapVars, appleVars>>

RomAnswers ==
  /\ pc = "rom" /\ pc' = "init" /\ irqArmed' = TRUE
  /\ UNCHANGED <<callerVars, outcome, bufVars, shareVars, snapVars, appleVars>>

InitTimeout ==
  /\ pc = "init" /\ pc' = "cleanup" /\ Fails("init")
  /\ UNCHANGED <<callerVars, bufVars, irqArmed, shareVars, snapVars, appleVars>>

InitDone ==
  /\ pc = "init" /\ pc' = "load"
  /\ sd' = [sd EXCEPT !.run = TRUE]
  /\ UNCHANGED <<callerVars, outcome, bufVars, irqArmed, ppctl, spib,
                 snapVars, appleVars>>

\* Mutant: restored whenever it is asked for, from whatever the snapshot holds.
RestoreAgain ==
  /\ restored' = TRUE
  /\ sd' = snap.sd /\ ppctl' = snap.ppctl /\ spib' = snap.spib

(* sdRestore: hand the stream back once, and only if it was borrowed.  The *)
(* registers are written as they were, not bit by bit.                     *)
sdRestore ==
  IF valid /\ ~restored
  THEN /\ restored' = TRUE
       /\ sd' = snap.sd /\ ppctl' = snap.ppctl /\ spib' = snap.spib
  ELSE UNCHANGED <<shareVars, restored>>

\* FW_ENTERED or not, the stream goes back now.
LoadEnds(ok) ==
  /\ pc = "load" /\ sdRestore
  /\ IF ok THEN pc' = "ready" /\ UNCHANGED outcome
           ELSE pc' = "cleanup" /\ Fails("load")
  /\ UNCHANGED <<callerVars, bufVars, irqArmed, snap, valid, appleVars>>

\* FW_READY has no valid header: acknowledged, and nothing more is set up.
NoHeader ==
  /\ pc = "ready" /\ pc' = "cleanup"
  /\ status' = Says("OK", "none") /\ ended' = "header"
  /\ UNCHANGED <<callerVars, bufVars, irqArmed, shareVars, snapVars, appleVars>>

\* Not one pipeline IPC was acknowledged.
RuntimeDead ==
  /\ pc = "ready" /\ pc' = "cleanup" /\ Fails("runtime")
  /\ UNCHANGED <<callerVars, bufVars, irqArmed, shareVars, snapVars, appleVars>>

\* Enough of the topology was acknowledged.
TopologyUp ==
  /\ pc = "ready" /\ pc' = "cleanup" /\ hwReady' = TRUE
  /\ status' = Says("OK", "none") /\ ended' = "ready"
  /\ UNCHANGED <<caller, patient, gWakeReinitPending, gLastInitFail, bufVars, irqArmed,
                 shareVars, snapVars, appleVars>>

\* Every later exit lands here, success too.
Cleanup ==
  /\ pc = "cleanup" /\ pc' = "return"
  /\ irqArmed' = FALSE
  /\ sdRestore
  /\ fwBuf' = FALSE /\ bdlBuf' = FALSE
  /\ UNCHANGED <<callerVars, outcome, snap, valid, appleVars>>

-----------------------------------------------------------------------------
(* Around it: the caller, capture demands, recovery and AppleHDA.          *)

\* Mutant: only a failure is rewritten.
FailureRewritten ==
  IF status.says = "FAILED" THEN Says("deferred", status.why) ELSE status

(* The tick rewrites what an attempt that failed left in Status: a failure *)
(* is carried along, a bail's own text stands, anything else was not true. *)
StatusAfterFailure ==
  CASE status.says = "FAILED"   -> Says("deferred", status.why)
    [] status.says = "deferred" -> status
    [] OTHER                    -> Says("deferred", "none")

ReturnsReady ==
  /\ pc = "return" /\ hwReady
  /\ pc' = "idle" /\ caller' = "tick"
  /\ gWakeReinitPending' = (IF caller = "tick" THEN FALSE ELSE gWakeReinitPending)
  /\ UNCHANGED <<patient, hwReady, gLastInitFail, outcome, bufVars, irqArmed,
                 shareVars, snapVars, appleVars>>

\* The tick has tries left.
RetriesLater ==
  /\ pc = "return" /\ ~hwReady /\ caller = "tick"
  /\ pc' = "idle" /\ status' = StatusAfterFailure
  /\ gLastInitFail' = IF status.says = "FAILED" THEN status.why ELSE gLastInitFail
  /\ UNCHANGED <<caller, patient, hwReady, gWakeReinitPending, ended, bufVars,
                 irqArmed, shareVars, snapVars, appleVars>>

\* The tick has none: the failure it quotes is that of an earlier attempt.
GivesUp ==
  /\ pc = "return" /\ ~hwReady /\ caller = "tick"
  /\ pc' = "idle" /\ status' = Says("FAILED", gLastInitFail)
  /\ gWakeReinitPending' = FALSE
  /\ UNCHANGED <<caller, patient, hwReady, gLastInitFail, ended, bufVars, irqArmed,
                 shareVars, snapVars, appleVars>>

\* start() takes a bail for a deferral and any other failure for the end.
ReturnsToStart ==
  /\ pc = "return" /\ ~hwReady /\ caller = "start"
  /\ pc' = "idle"
  /\ IF gWakeReinitPending
     THEN caller' = "tick" /\ UNCHANGED status
     ELSE caller' = "gone" /\ status' = Says("FAILED", "none")
  /\ UNCHANGED <<patient, hwReady, gWakeReinitPending, gLastInitFail, ended, bufVars,
                 irqArmed, shareVars, snapVars, appleVars>>

\* startCaptureGated refused: a fresh round, if the last one is over.
DemandRefused ==
  /\ pc = "idle" /\ caller = "tick" /\ ~hwReady /\ ~gWakeReinitPending
  /\ gWakeReinitPending' = TRUE
  /\ UNCHANGED <<pc, caller, patient, hwReady, gLastInitFail, outcome, bufVars, irqArmed,
                 shareVars, snapVars, appleVars>>

\* scheduleDspRecovery.
Recover ==
  /\ pc = "idle" /\ caller = "tick" /\ hwReady
  /\ hwReady' = FALSE /\ gWakeReinitPending' = TRUE
  /\ UNCHANGED <<pc, caller, patient, gLastInitFail, outcome, bufVars, irqArmed,
                 shareVars, snapVars, appleVars>>

\* A sleep and its wake: the registers are back at their reset values.
SleepWake ==
  /\ pc = "idle" /\ caller = "tick"
  /\ hwReady' = FALSE /\ gWakeReinitPending' = TRUE
  /\ apple' = Clean /\ sd' = Clean /\ usurped' = FALSE
  /\ appleBits' = {} /\ ppctl' = {} /\ spib' = {} /\ irqArmed' = FALSE
  /\ UNCHANGED <<pc, caller, patient, gLastInitFail, outcome, bufVars, snapVars>>

\* Between the snapshot and its return.
Borrowed == valid /\ ~restored

\* AppleHDA programs, runs, stops or tears down its output, at any time.
AppleHDAOutput ==
  /\ apple' \in AppleStates \ {apple} /\ sd' = apple'
  /\ usurped' = Borrowed
  /\ UNCHANGED <<pc, outcome, irqArmed, callerVars, bufVars, ppctl, spib,
                 snapVars, appleBits>>

\* AppleHDA changes its bits of the shared registers.
AppleHDABits ==
  /\ ~Borrowed
  /\ appleBits' \in SUBSET {other}
  /\ ppctl' = (ppctl \ {other}) \cup appleBits'
  /\ spib' = (spib \ {other}) \cup appleBits'
  /\ UNCHANGED <<pc, outcome, irqArmed, callerVars, bufVars, sd, snapVars,
                 apple, usurped>>

Next ==
  \/ StartDefers \/ Call \/ BringUpFails \/ AllocateFirmware \/ BdlFails \/ AllocateBdl
  \/ LookBails \/ LookPasses \/ Borrow \/ RomTimeout \/ RomAnswers
  \/ InitTimeout \/ InitDone \/ (\E ok \in BOOLEAN : LoadEnds(ok))
  \/ NoHeader \/ RuntimeDead \/ TopologyUp \/ Cleanup
  \/ ReturnsReady \/ RetriesLater \/ GivesUp \/ ReturnsToStart
  \/ DemandRefused \/ Recover \/ SleepWake \/ AppleHDAOutput \/ AppleHDABits

Spec == Init /\ [][Next]_vars
-----------------------------------------------------------------------------
(* Properties.                                                             *)

\* initDSP leaves what it shares with AppleHDA as it found it, whichever of its exits it
\* takes.  The borrowed-stream contract: the descriptor and the shared registers are what
\* AppleHDA last wrote there, unless AppleHDA itself wrote them during the borrow; and even
\* then they are AppleHDA's, not the loader's.  Poll-only: outside initDSP the DSP cannot
\* assert the line AppleHDA shares.  And the firmware image and its list are freed.
LeftAsFound ==
  /\ TypeOK
  /\ ~Borrowed => /\ ~usurped => sd = apple
                  /\ sd \in AppleStates
                  /\ ppctl = appleBits /\ spib = appleBits
  /\ pc = "idle" => ~irqArmed /\ ~fwBuf /\ ~bdlBuf

\* Between two calls Status tells how initDSP last ended, through either caller and whatever
\* was scheduled since (INSTALL.md 245-259).  "OK" is said of a topology that came up and of
\* nothing else, though initDSP writes it for an FW_READY without a header too.  "deferred"
\* has a round pending, and quotes the failure of the last attempt, if that attempt failed
\* with one, and never that of an earlier attempt that a bail has overtaken.
StatusTellsOutcome ==
  pc = "idle" =>
    /\ status.says = "OK" <=> ended = "ready"
    /\ hwReady => ended = "ready"
    /\ status.says = "deferred" =>
         /\ gWakeReinitPending
         /\ status.why = IF ended \in Reasons THEN ended ELSE "none"
=============================================================================
