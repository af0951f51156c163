------------------------- MODULE BorrowedStreamProofs -------------------------
(***************************************************************************)
(* What bring-up shares with AppleHDA is handed back, and Status tells how *)
(* it ended, whichever exit it leaves by, for every programming AppleHDA   *)
(* may have given its stream.                                              *)
(***************************************************************************)
EXTENDS BorrowedStream, TLAPS

USE StreamAssumption, TuneAssumption

-----------------------------------------------------------------------------
(* What Status says.                                                       *)

\* On its way out, initDSP has said in Status how this very call ended.
Told ==
  \/ ended \in Reasons /\ status = Says("FAILED", ended)
  \/ ended = "bail"   /\ status = Says("deferred", "none") /\ gWakeReinitPending
  \/ ended = "header" /\ status = Says("OK", "none")
  \/ ended = "ready"  /\ status = Says("OK", "none") /\ hwReady

Inside == {"settle", "bdl", "look", "borrow", "rom", "init", "load", "ready"}
Leaving == {"cleanup", "return"}

\* A call is made of a DSP that is down, the tick's for a round that pends until it returns;
\* start()'s call leaves a round behind only by a bail.
StatusInv ==
  /\ StatusTellsOutcome
  /\ pc \in Inside => ~hwReady
  /\ pc \in Leaving => Told /\ (hwReady => ended = "ready")
  /\ caller = "tick" /\ pc # "idle" => gWakeReinitPending
  /\ caller = "start" /\ pc = "idle" => ended = "never"
  /\ caller = "start" /\ gWakeReinitPending => pc \in Leaving /\ ended = "bail"

LEMMA StatusInitially == Init => StatusInv
BY DEF Init, StatusInv, StatusTellsOutcome, Says, Inside, Leaving

\* A call begins; until it is on its way out it says nothing.
LEMMA StatusOnTheWayIn ==
  ASSUME StatusInv,
         \/ StartDefers \/ Call \/ AllocateFirmware \/ AllocateBdl \/ LookPasses
         \/ Borrow \/ RomAnswers \/ InitDone \/ LoadEnds(TRUE)
  PROVE  StatusInv'
<1>1. CASE StartDefers
  BY <1>1 DEF StatusInv, StatusTellsOutcome, Says, Inside, Leaving, Reasons, Early,
            StartDefers
<1>2. CASE ~StartDefers
  <2>1. /\ pc \in Inside \cup {"idle"} /\ pc' \in Inside /\ ~hwReady /\ ~hwReady'
        /\ caller' = caller /\ gWakeReinitPending' = gWakeReinitPending
        /\ caller = "tick" => gWakeReinitPending
    BY <1>2 DEF StatusInv, Inside, Call, AllocateFirmware, AllocateBdl, LookPasses, Borrow,
                RomAnswers, InitDone, LoadEnds, callerVars
  <2> QED BY <2>1 DEF StatusInv, StatusTellsOutcome, Inside, Leaving
<1> QED BY <1>1, <1>2

\* Each exit says its own.
LEMMA StatusOnTheWayOut ==
  ASSUME StatusInv,
         \/ BringUpFails \/ BdlFails \/ LookBails \/ RomTimeout \/ InitTimeout
         \/ LoadEnds(FALSE) \/ NoHeader \/ RuntimeDead \/ TopologyUp \/ Cleanup
  PROVE  StatusInv'
<1> USE DEF StatusInv, StatusTellsOutcome, Inside, Leaving, callerVars, outcome
<1>1. ASSUME NEW why \in Reasons, Fails(why), pc \in Inside, pc' \in Leaving,
             UNCHANGED callerVars
      PROVE  StatusInv'
  BY <1>1 DEF Fails, Told, Reasons, Early
<1>2. CASE BringUpFails
  BY <1>1, <1>2 DEF BringUpFails, Reasons
<1>3. CASE BdlFails
  BY <1>1, <1>3 DEF BdlFails, Reasons, Early
<1>4. CASE RomTimeout \/ InitTimeout \/ RuntimeDead
  BY <1>1, <1>4 DEF RomTimeout, InitTimeout, RuntimeDead, Reasons
<1>5. CASE LoadEnds(FALSE)
  BY <1>1, <1>5 DEF LoadEnds, Reasons
<1>6. CASE LookBails
  BY <1>6 DEF LookBails, Told
<1>7. CASE NoHeader
  BY <1>7 DEF NoHeader, Told
<1>8. CASE TopologyUp
  BY <1>8 DEF TopologyUp, Told
<1>9. CASE Cleanup
  BY <1>9 DEF Cleanup, Told
<1> QED BY <1>2, <1>3, <1>4, <1>5, <1>6, <1>7, <1>8, <1>9

\* Each caller rewrites what the call said, of the DSP's state as it is then.
LEMMA StatusOnReturn ==
  ASSUME StatusInv, ReturnsReady \/ RetriesLater \/ GivesUp \/ ReturnsToStart
  PROVE  StatusInv'
<1> USE DEF StatusInv, StatusTellsOutcome, Inside, Leaving, outcome
<1>1. pc = "return" /\ Told /\ (hwReady => ended = "ready")
  BY DEF ReturnsReady, RetriesLater, GivesUp, ReturnsToStart
<1>2. CASE ReturnsReady
  BY <1>1, <1>2 DEF ReturnsReady, Told, Says, Reasons, Early
<1>3. CASE RetriesLater
  <2>1. ~hwReady /\ gWakeReinitPending /\ ended # "ready"
    BY <1>1, <1>3 DEF RetriesLater, Told, Reasons, Early
  <2>2. status' = Says("deferred", IF ended \in Reasons THEN ended ELSE "none")
    BY <1>1, <1>3, <2>1 DEF RetriesLater, StatusAfterFailure, Told, Says, Reasons, Early
  <2> QED BY <1>3, <2>1, <2>2 DEF RetriesLater, Says, Reasons, Early
<1>4. CASE GivesUp
  <2>1. ~hwReady /\ ended # "ready" /\ status' = Says("FAILED", gLastInitFail)
    BY <1>1, <1>4 DEF GivesUp, Told, Reasons, Early
  <2> QED BY <1>4, <2>1 DEF GivesUp, Says
<1>5. CASE ReturnsToStart
  <2>1. ~hwReady /\ ended # "ready"
    BY <1>1, <1>5 DEF ReturnsToStart, Told, Reasons, Early
  <2>2. CASE gWakeReinitPending
    BY <1>1, <1>5, <2>1, <2>2 DEF ReturnsToStart, Told, Says, Reasons, Early
  <2>3. CASE ~gWakeReinitPending
    BY <1>5, <2>1, <2>3 DEF ReturnsToStart, Says
  <2> QED BY <2>2, <2>3
<1> QED BY <1>2, <1>3, <1>4, <1>5

\* Nothing else writes Status, and what makes a round pend, or ends the DSP, keeps it true.
LEMMA StatusBetweenCalls ==
  ASSUME StatusInv,
         \/ DemandRefused \/ Recover \/ SleepWake \/ AppleHDAOutput \/ AppleHDABits
         \/ UNCHANGED vars
  PROVE  StatusInv'
BY DEF StatusInv, StatusTellsOutcome, Told, Inside, Leaving, DemandRefused, Recover, SleepWake,
       AppleHDAOutput, AppleHDABits, vars, callerVars, outcome

LEMMA StatusStep == StatusInv /\ [Next]_vars => StatusInv'
<1> SUFFICES ASSUME StatusInv, [Next]_vars PROVE StatusInv'
  OBVIOUS
<1>1. ASSUME NEW ok \in BOOLEAN, LoadEnds(ok) PROVE StatusInv'
  BY <1>1, StatusOnTheWayIn, StatusOnTheWayOut
<1> QED BY <1>1, StatusOnTheWayIn, StatusOnTheWayOut, StatusOnReturn, StatusBetweenCalls
        DEF Next

-----------------------------------------------------------------------------
(* What is borrowed.                                                       *)

\* The stream is borrowed from the snapshot to the end of the load, or to the cleanup of an
\* exit taken in between; a call starts with a snapshot that was neither taken nor handed back.
BorrowedSteps ==
  /\ pc \in {"rom", "init", "load"} => Borrowed
  /\ pc \in {"idle", "ready", "return"} => ~Borrowed
  /\ pc \in {"settle", "bdl", "look", "borrow"} => ~valid /\ ~restored

\* While it is not, it is AppleHDA's; while it is, the snapshot is what AppleHDA is owed.
Owed ==
  /\ ~Borrowed => /\ ~usurped => sd = apple
                  /\ sd \in AppleStates
                  /\ ppctl = appleBits /\ spib = appleBits
  /\ Borrowed => /\ ~usurped => snap.sd = apple
                 /\ snap.ppctl = appleBits /\ snap.spib = appleBits

\* What each step has allocated and armed by then.
Held ==
  /\ pc \in {"idle", "settle", "return"} => ~fwBuf
  /\ pc \in {"idle", "settle", "bdl", "return"} => ~bdlBuf
  /\ pc \in {"idle", "settle", "bdl", "look", "borrow", "rom", "return"} => ~irqArmed

BorrowInv == TypeOK /\ BorrowedSteps /\ Owed /\ Held

\* The states a descriptor can be in.
SdStates == [prog : Tunes \cup {"clean", "firmware"}, run : BOOLEAN]

LEMMA CleanState == Clean \in AppleStates /\ Clean \in SdStates
<1>1. Clean \in AppleStates
  BY DEF AppleStates
<1>2. Clean \in SdStates
  BY DEF Clean, SdStates
<1> QED BY <1>1, <1>2

LEMMA AppleStatesTyped == ASSUME NEW s \in AppleStates PROVE s \in SdStates
<1>1. CASE s = Clean
  BY <1>1, CleanState
<1>2. CASE s \in [prog : Tunes, run : BOOLEAN]
  BY <1>2 DEF SdStates
<1> QED BY <1>1, <1>2 DEF AppleStates

LEMMA NoSnapshotTyped == NoSnapshot \in Snapshots
<1>1. {} \in Bits
  BY DEF Bits
<1> QED BY <1>1, CleanState DEF NoSnapshot, Snapshots

LEMMA OthersBits == ASSUME NEW b \in SUBSET {other} PROVE b \in Bits
BY DEF Bits

\* What is said of a failure, a bail, a success.
LEMMA SaysTyped ==
  ASSUME NEW word \in {"none", "OK", "deferred", "FAILED"},
         NEW why \in Reasons \cup {"none", "unknown"}
  PROVE  /\ Says(word, why) \in Statuses
         /\ Says(word, why).says = word /\ Says(word, why).why = why
BY DEF Says, Statuses

LEMMA FailsTyped ==
  ASSUME NEW why \in Reasons, Fails(why)
  PROVE  status' \in Statuses /\ ended' = why
BY SaysTyped DEF Fails

LEMMA BorrowInitially == Init => BorrowInv
<1> SUFFICES ASSUME Init PROVE BorrowInv
  OBVIOUS
<1>1. TypeOK
  <2>1. status \in Statuses
    BY SaysTyped DEF Init
  <2>2. CallTypes
    BY <2>1 DEF Init, CallTypes
  <2>3. StreamTypes
    BY NoSnapshotTyped, AppleStatesTyped, OthersBits DEF Init, StreamTypes, SdStates
  <2> QED BY <2>2, <2>3 DEF TypeOK
<1>2. BorrowedSteps /\ Owed /\ Held
  BY DEF Init, BorrowedSteps, Owed, Held, Borrowed
<1> QED BY <1>1, <1>2 DEF BorrowInv

\* The stream is not touched, and the step keeps to the order of the bring-up.
LEMMA BeforeBorrow ==
  ASSUME BorrowInv,
         \/ StartDefers \/ Call \/ BringUpFails \/ AllocateFirmware \/ BdlFails \/ AllocateBdl
         \/ LookBails \/ LookPasses
  PROVE  BorrowInv'
<1> USE DEF BorrowInv, callerVars, outcome, bufVars, shareVars, snapVars, appleVars
<1>1. TypeOK'
  <2>0. CASE StartDefers
    BY <2>0, SaysTyped DEF TypeOK, CallTypes, StreamTypes, StartDefers
  <2>1. CASE Call
    BY <2>1, NoSnapshotTyped DEF TypeOK, CallTypes, StreamTypes, Call
  <2>2. CASE BringUpFails
    BY <2>2, FailsTyped DEF TypeOK, CallTypes, StreamTypes, BringUpFails, Reasons
  <2>3. CASE AllocateFirmware
    BY <2>3 DEF TypeOK, CallTypes, StreamTypes, AllocateFirmware
  <2>4. CASE BdlFails
    <3>1. status' \in Statuses /\ ended' \in Reasons
      BY <2>4, FailsTyped DEF BdlFails, Reasons, Early
    <3>2. /\ pc' = "return" /\ fwBuf' = FALSE
          /\ UNCHANGED <<callerVars, bdlBuf, irqArmed, shareVars, snapVars, appleVars>>
      BY <2>4 DEF BdlFails
    <3>3. CallTypes'
      BY <3>1, <3>2 DEF TypeOK, CallTypes
    <3>4. StreamTypes'
      BY <3>2 DEF TypeOK, StreamTypes
    <3> QED BY <3>3, <3>4 DEF TypeOK
  <2>5. CASE AllocateBdl
    BY <2>5 DEF TypeOK, CallTypes, StreamTypes, AllocateBdl
  <2>6. CASE LookBails
    BY <2>6, SaysTyped DEF TypeOK, CallTypes, StreamTypes, LookBails
  <2>7. CASE LookPasses
    BY <2>7 DEF TypeOK, CallTypes, StreamTypes, LookPasses
  <2> QED BY <2>0, <2>1, <2>2, <2>3, <2>4, <2>5, <2>6, <2>7
<1>2. BorrowedSteps'
  BY DEF BorrowedSteps, Borrowed, StartDefers, Call, BringUpFails, AllocateFirmware, BdlFails,
         AllocateBdl, LookBails, LookPasses
<1>3. Owed'
  BY DEF BorrowedSteps, Owed, Borrowed, StartDefers, Call, BringUpFails, AllocateFirmware,
         BdlFails, AllocateBdl, LookBails, LookPasses
<1>4. Held'
  BY DEF Held, StartDefers, Call, BringUpFails, AllocateFirmware, BdlFails, AllocateBdl,
         LookBails, LookPasses
<1> QED BY <1>1, <1>2, <1>3, <1>4

\* The loader is in the stream, AppleHDA's programming in the snapshot.
LEMMA Borrowing ==
  ASSUME BorrowInv, Borrow
  PROVE  BorrowInv'
<1> USE DEF BorrowInv, callerVars, outcome, bufVars, appleVars
<1>1. ~Borrowed /\ ~restored'
  BY DEF BorrowedSteps, Borrow, Borrowed
<1>2. TypeOK'
  <2>1. snap' \in Snapshots
    <3>1. sd \in AppleStates /\ ppctl \in Bits /\ spib \in Bits
      BY <1>1 DEF Owed, TypeOK, CallTypes, StreamTypes
    <3> QED BY <3>1 DEF Snapshots, Borrow
  <2>2. sd' \in SdStates
    BY DEF Borrow, Loader, SdStates
  <2>3. ppctl' \in Bits /\ spib' \in Bits
    BY DEF TypeOK, CallTypes, StreamTypes, Borrow, Bits
  <2> QED BY <2>1, <2>2, <2>3 DEF TypeOK, CallTypes, StreamTypes, Borrow, SdStates
<1>3. BorrowedSteps'
  BY <1>1 DEF BorrowedSteps, Borrowed, Borrow
<1>4. Owed'
  BY <1>1 DEF Owed, Borrowed, Borrow
<1>5. Held'
  BY DEF Held, Borrow
<1> QED BY <1>2, <1>3, <1>4, <1>5

\* The ROM and the core either answer or do not; the snapshot is kept.
LEMMA WhileBorrowed ==
  ASSUME BorrowInv, RomTimeout \/ RomAnswers \/ InitTimeout \/ InitDone
  PROVE  BorrowInv'
<1> USE DEF BorrowInv, callerVars, outcome, bufVars, shareVars, snapVars, appleVars
<1>1. TypeOK'
  <2>1. CASE InitDone
    <3>1. sd' \in SdStates
      BY <2>1 DEF InitDone, TypeOK, CallTypes, StreamTypes, SdStates
    <3> QED BY <2>1, <3>1 DEF InitDone, TypeOK, CallTypes, StreamTypes, SdStates
  <2>2. CASE RomTimeout \/ InitTimeout
    BY <2>2, FailsTyped DEF TypeOK, CallTypes, StreamTypes, RomTimeout, InitTimeout, Reasons
  <2>3. CASE RomAnswers
    BY <2>3 DEF TypeOK, CallTypes, StreamTypes, RomAnswers
  <2> QED BY <2>1, <2>2, <2>3
<1>2. BorrowedSteps'
  BY DEF BorrowedSteps, Borrowed, RomTimeout, RomAnswers, InitTimeout, InitDone
<1>3. Owed'
  BY DEF BorrowedSteps, Owed, Borrowed, RomTimeout, RomAnswers, InitTimeout, InitDone
<1>4. Held'
  BY DEF Held, RomTimeout, RomAnswers, InitTimeout, InitDone
<1> QED BY <1>1, <1>2, <1>3, <1>4

\* Whether or not it finds something to hand back, sdRestore leaves AppleHDA what it is owed.
LEMMA RestoreReturns ==
  ASSUME BorrowInv, sdRestore, valid' = valid, snap' = snap, UNCHANGED appleVars
  PROVE  /\ ~Borrowed'
         /\ Owed'
         /\ sd' \in SdStates /\ ppctl' \in Bits /\ spib' \in Bits /\ restored' \in BOOLEAN
<1> USE DEF BorrowInv, appleVars
<1>1. CASE Borrowed
  <2>1. /\ restored' = TRUE
        /\ sd' = snap.sd /\ ppctl' = snap.ppctl /\ spib' = snap.spib
    BY <1>1 DEF sdRestore, Borrowed
  <2>2. snap.sd \in AppleStates /\ snap.ppctl \in Bits /\ snap.spib \in Bits
    BY DEF TypeOK, CallTypes, StreamTypes, Snapshots
  <2>3. sd' \in SdStates
    BY <2>1, <2>2, AppleStatesTyped
  <2>4. ~Borrowed'
    BY <2>1 DEF Borrowed
  <2>5. Owed'
    BY <1>1, <2>1, <2>2, <2>4 DEF Owed
  <2> QED BY <2>1, <2>2, <2>3, <2>4, <2>5
<1>2. CASE ~Borrowed
  <2>1. UNCHANGED <<sd, ppctl, spib, restored>>
    BY <1>2 DEF sdRestore, Borrowed, shareVars
  <2>2. ~Borrowed'
    BY <1>2, <2>1 DEF Borrowed
  <2>3. Owed'
    BY <1>2, <2>1, <2>2 DEF Owed
  <2>4. sd \in SdStates /\ ppctl \in Bits /\ spib \in Bits /\ restored \in BOOLEAN
    BY DEF TypeOK, CallTypes, StreamTypes, SdStates
  <2> QED BY <2>1, <2>2, <2>3, <2>4
<1> QED BY <1>1, <1>2

LEMMA LoadEnding ==
  ASSUME BorrowInv, NEW ok \in BOOLEAN, LoadEnds(ok)
  PROVE  BorrowInv'
<1> USE DEF BorrowInv, callerVars, outcome, bufVars, appleVars
<1>1. sdRestore /\ valid' = valid /\ snap' = snap /\ UNCHANGED appleVars
  BY DEF LoadEnds
<1>2. /\ ~Borrowed'
      /\ Owed'
      /\ sd' \in SdStates /\ ppctl' \in Bits /\ spib' \in Bits /\ restored' \in BOOLEAN
  BY <1>1, RestoreReturns
<1>3. TypeOK'
  <2>1. status' \in Statuses /\ ended' \in {ended, "load"}
    BY FailsTyped DEF LoadEnds, TypeOK, CallTypes, StreamTypes, Reasons
  <2> QED BY <1>1, <1>2, <2>1 DEF TypeOK, CallTypes, StreamTypes, LoadEnds, SdStates, Reasons
<1>4. BorrowedSteps' /\ Held'
  BY <1>2 DEF BorrowedSteps, Held, LoadEnds
<1> QED BY <1>2, <1>3, <1>4

LEMMA CleaningUp ==
  ASSUME BorrowInv, Cleanup
  PROVE  BorrowInv'
<1> USE DEF BorrowInv, callerVars, outcome, appleVars
<1>1. sdRestore /\ valid' = valid /\ snap' = snap /\ UNCHANGED appleVars
  BY DEF Cleanup
<1>2. /\ ~Borrowed'
      /\ Owed'
      /\ sd' \in SdStates /\ ppctl' \in Bits /\ spib' \in Bits /\ restored' \in BOOLEAN
  BY <1>1, RestoreReturns
<1>3. TypeOK'
  BY <1>1, <1>2 DEF TypeOK, CallTypes, StreamTypes, Cleanup, SdStates
<1>4. BorrowedSteps' /\ Held'
  BY <1>2 DEF BorrowedSteps, Held, Cleanup
<1> QED BY <1>2, <1>3, <1>4

\* The firmware is up or it is not, the call ends, and the next one is asked for.
LEMMA AfterBorrow ==
  ASSUME BorrowInv, StatusInv,
         \/ NoHeader \/ RuntimeDead \/ TopologyUp
         \/ ReturnsReady \/ RetriesLater \/ GivesUp \/ ReturnsToStart
         \/ DemandRefused \/ Recover
  PROVE  BorrowInv'
<1>1. UNCHANGED <<bufVars, irqArmed, shareVars, snapVars, appleVars>>
  BY DEF NoHeader, RuntimeDead, TopologyUp, ReturnsReady, RetriesLater, GivesUp,
         ReturnsToStart, DemandRefused, Recover
<1>2. \/ pc = "ready" /\ pc' = "cleanup"
      \/ pc = "return" /\ pc' = "idle"
      \/ pc = "idle" /\ pc' = "idle"
  BY DEF NoHeader, RuntimeDead, TopologyUp, ReturnsReady, RetriesLater, GivesUp,
         ReturnsToStart, DemandRefused, Recover
<1>3. CallTypes
  BY DEF BorrowInv, TypeOK
<1>4. CallTypes'
  <2>1. /\ fwBuf' \in BOOLEAN /\ bdlBuf' \in BOOLEAN /\ irqArmed' \in BOOLEAN
        /\ pc' \in {"idle", "cleanup"}
    BY <1>1, <1>2, <1>3 DEF CallTypes, bufVars
  <2>2. /\ caller' \in {"start", "tick", "gone"}
        /\ patient' \in BOOLEAN /\ hwReady' \in BOOLEAN /\ gWakeReinitPending' \in BOOLEAN
    BY <1>3 DEF CallTypes, callerVars, NoHeader, RuntimeDead, TopologyUp, ReturnsReady,
                RetriesLater, GivesUp, ReturnsToStart, DemandRefused, Recover
  <2>3. ended' \in {ended, "header", "runtime", "ready"}
    BY DEF outcome, Fails, NoHeader, RuntimeDead, TopologyUp, ReturnsReady, RetriesLater,
           GivesUp, ReturnsToStart, DemandRefused, Recover
  <2>4. status' \in Statuses
    <3>1. status.why \in Reasons \cup {"none", "unknown"}
      BY <1>3 DEF CallTypes, Statuses
    <3>2. CASE NoHeader \/ TopologyUp
      BY <3>2, SaysTyped DEF NoHeader, TopologyUp
    <3>3. CASE RuntimeDead
      BY <3>3, FailsTyped DEF RuntimeDead, Reasons
    <3>4. CASE RetriesLater
      BY <1>3, <3>1, <3>4, SaysTyped DEF RetriesLater, StatusAfterFailure, CallTypes
    <3>5. CASE GivesUp
      BY <1>3, <3>5, SaysTyped DEF GivesUp, CallTypes
    <3>6. CASE ReturnsToStart
      BY <1>3, <3>6, SaysTyped DEF ReturnsToStart, CallTypes
    <3>7. CASE ReturnsReady \/ DemandRefused \/ Recover
      BY <1>3, <3>7 DEF ReturnsReady, DemandRefused, Recover, outcome, CallTypes
    <3> QED BY <3>2, <3>3, <3>4, <3>5, <3>6, <3>7
  <2>5. gLastInitFail' \in Reasons \cup {"unknown"}
    <3>1. CASE RetriesLater
      <4>1. status.says = "FAILED" => status.why \in Reasons
        BY <3>1 DEF RetriesLater, StatusInv, Leaving, Told, Says
      <4> QED BY <1>3, <3>1, <4>1 DEF RetriesLater, CallTypes
    <3>2. CASE ~RetriesLater
      <4>1. gLastInitFail' = gLastInitFail
        BY <3>2 DEF callerVars, NoHeader, RuntimeDead, TopologyUp, ReturnsReady, GivesUp,
                    ReturnsToStart, DemandRefused, Recover
      <4> QED BY <1>3, <4>1 DEF CallTypes
    <3> QED BY <3>1, <3>2
  <2>6. ended' \in Reasons \cup {"never", "ready", "bail", "header"}
    BY <1>3, <2>3 DEF CallTypes, Reasons
  <2> QED BY <2>1, <2>2, <2>4, <2>5, <2>6 DEF CallTypes
<1>5. StreamTypes' /\ Owed'
  BY <1>1 DEF shareVars, snapVars, appleVars, BorrowInv, TypeOK, StreamTypes, Owed, Borrowed
<1>6. BorrowedSteps' /\ Held'
  BY <1>1, <1>2 DEF bufVars, snapVars, BorrowInv, BorrowedSteps, Held, Borrowed
<1> QED BY <1>4, <1>5, <1>6 DEF BorrowInv, TypeOK

\* AppleHDA's own moves, and those of the power domain.
LEMMA OutsideMoves ==
  ASSUME BorrowInv, SleepWake \/ AppleHDAOutput \/ AppleHDABits
  PROVE  BorrowInv'
<1> USE DEF BorrowInv, callerVars, outcome, bufVars, snapVars
<1>1. CASE SleepWake
  <2>1. TypeOK'
    <3>1. {} \in Bits /\ {} \in SUBSET {other}
      BY DEF Bits
    <3> QED BY <1>1, <3>1, CleanState DEF TypeOK, CallTypes, StreamTypes, SleepWake, SdStates
  <2>2. BorrowedSteps' /\ Held'
    BY <1>1 DEF BorrowedSteps, Held, Borrowed, SleepWake
  <2>3. Owed'
    BY <1>1, CleanState DEF BorrowedSteps, Owed, Borrowed, SleepWake, snapVars
  <2> QED BY <2>1, <2>2, <2>3
<1>2. CASE AppleHDAOutput
  <2>1. sd' = apple' /\ apple' \in AppleStates /\ sd' \in SdStates
    BY <1>2, AppleStatesTyped DEF AppleHDAOutput
  <2>2. Borrowed' = Borrowed
    BY <1>2 DEF AppleHDAOutput, Borrowed
  <2>3. TypeOK'
    BY <1>2, <2>1 DEF TypeOK, CallTypes, StreamTypes, AppleHDAOutput, Borrowed, SdStates
  <2>4. BorrowedSteps' /\ Held'
    BY <1>2, <2>2 DEF BorrowedSteps, Held, AppleHDAOutput
  <2>5. Owed'
    BY <1>2, <2>1, <2>2 DEF Owed, AppleHDAOutput
  <2> QED BY <2>3, <2>4, <2>5
<1>3. CASE AppleHDABits
  <2>1. ~Borrowed /\ Borrowed' = Borrowed /\ appleBits' \in SUBSET {other}
    BY <1>3 DEF AppleHDABits, Borrowed
  <2>2. ppctl' = appleBits' /\ spib' = appleBits'
    <3>1. ppctl = appleBits /\ spib = appleBits /\ appleBits \in SUBSET {other}
      BY <2>1 DEF Owed, TypeOK, CallTypes, StreamTypes
    <3>2. appleBits \ {other} = {}
      BY <3>1
    <3> QED BY <1>3, <3>1, <3>2 DEF AppleHDABits
  <2>3. TypeOK'
    BY <1>3, <2>1, <2>2, OthersBits DEF TypeOK, CallTypes, StreamTypes, AppleHDABits
  <2>4. BorrowedSteps' /\ Held'
    BY <1>3, <2>1 DEF BorrowedSteps, Held, AppleHDABits
  <2>5. Owed'
    BY <1>3, <2>1, <2>2 DEF Owed, AppleHDABits
  <2> QED BY <2>3, <2>4, <2>5
<1> QED BY <1>1, <1>2, <1>3

LEMMA BorrowStep == StatusInv /\ BorrowInv /\ [Next]_vars => BorrowInv'
<1> SUFFICES ASSUME StatusInv, BorrowInv, [Next]_vars PROVE BorrowInv'
  OBVIOUS
<1>1. CASE UNCHANGED vars
  BY <1>1 DEF vars, callerVars, outcome, bufVars, shareVars, snapVars, appleVars,
            BorrowInv, TypeOK, CallTypes, StreamTypes,
              BorrowedSteps, Owed, Held, Borrowed
<1>2. CASE Next
  BY <1>2, BeforeBorrow, Borrowing, WhileBorrowed, LoadEnding, CleaningUp, AfterBorrow,
     OutsideMoves DEF Next
<1> QED BY <1>1, <1>2

-----------------------------------------------------------------------------
\* Whatever AppleHDA had in its stream and its bits, and whichever exit initDSP takes, they
\* are back when the borrow is over (sdRestore, LatSOFAudioDevice.cpp), and outside of the
\* call nothing is armed and nothing allocated.
THEOREM StreamReturned == Spec => []LeftAsFound
<1>1. BorrowInv => LeftAsFound
  BY DEF BorrowInv, BorrowedSteps, Owed, Held, LeftAsFound
<1> QED BY <1>1, StatusInitially, StatusStep, BorrowInitially, BorrowStep, PTL DEF Spec

\* Status, between two calls, tells how the last one ended, whichever exits the calls before
\* it took, whichever caller made them, and whatever was scheduled, slept through or refused
\* since: "OK" is a topology that came up, "deferred" a pending round with the last attempt's
\* own failure (initDSP's exits and the rewrite by start() and jackPoll).
THEOREM StatusIsTold == Spec => []StatusTellsOutcome
<1>1. StatusInv => StatusTellsOutcome
  BY DEF StatusInv
<1> QED BY <1>1, StatusInitially, StatusStep, PTL DEF Spec
================================================================================
