--------------------------- MODULE PluginIOProofs ---------------------------
(***************************************************************************)
(* The client count of the HAL plug-in, for any number of clients: the     *)
(* mutex, the count, the driver's capture and the mapping of the ring go   *)
(* together at every step of StartIO and StopIO, through the loss of the   *)
(* driver and of the host process.  On it rests the clock (ClockInv): the  *)
(* time stamps follow the DMA, and never go back, for any ring.            *)
(***************************************************************************)
EXTENDS PluginIO, FiniteSetTheorems, TLAPS

\* Where a client is when its thread holds gPlugIn_StateMutex.
Holding == {"start", "first", "stop", "unmap"}
CountedAt == Started \cup {"stop", "unmap"}

IOTypes ==
  /\ pc \in [Clients -> Started \cup Holding \cup {"idle"}]
  /\ gDevice_IOIsRunning \in Nat
  /\ gKextConnection \in {"none", "open", "dead"}
  /\ gCaptureBuffer \in BOOLEAN /\ asked \in BOOLEAN

MutexHeld == \A c \in Clients : pc[c] \in Holding <=> gPlugIn_StateMutex = c

\* The first start is not counted yet, and the last stop still is.
CountKept ==
  /\ gDevice_IOIsRunning = Cardinality(Counted)
  /\ \A c \in Clients : /\ pc[c] = "first" => gDevice_IOIsRunning = 0
                        /\ pc[c] = "unmap" => gDevice_IOIsRunning = 1

\* What the driver has been asked for, also in the middle of a first start or a last stop.
AskedKept ==
  /\ asked => gKextConnection = "open"
  /\ \A c \in Clients : /\ pc[c] = "first" => (asked <=> gKextConnection = "open")
                        /\ pc[c] = "unmap" => ~asked
  /\ (\A c \in Clients : pc[c] \notin {"first", "unmap"}) =>
       (asked <=> gDevice_IOIsRunning > 0 /\ gKextConnection = "open")

RingKept == \A c \in Clients : pc[c] = "reading" => gCaptureBuffer

IOInv == IOTypes /\ MutexHeld /\ CountKept /\ AskedKept /\ RingKept

-----------------------------------------------------------------------------
(* The count.                                                              *)

LEMMA CountedFinite == IsFiniteSet(Counted) /\ Cardinality(Counted) \in Nat
<1>1. Counted \subseteq Clients
  BY DEF Counted
<1> QED BY <1>1, ClientsAssumption, FS_Subset, FS_CardinalityType

\* Nobody is counted at 0, and nobody but the client itself at 1.
LEMMA CountOfFew ==
  /\ Cardinality(Counted) = 0 => Counted = {}
  /\ \A c \in Counted : Cardinality(Counted) = 1 => Counted = {c}
<1>1. Cardinality(Counted) = 0 => Counted = {}
  BY CountedFinite, FS_EmptySet
<1>2. ASSUME NEW c \in Counted, Cardinality(Counted) = 1 PROVE Counted = {c}
  BY <1>2, CountedFinite, FS_Singleton
<1> QED BY <1>1, <1>2

\* A client that moves in or out of the counted places is counted in or out.
LEMMA CountMoves ==
  ASSUME IOTypes, NEW c \in Clients, NEW from, NEW to, Goto(c, from, to)
  PROVE  /\ from \in CountedAt /\ to \in CountedAt => Counted' = Counted
         /\ from \notin CountedAt /\ to \notin CountedAt => Counted' = Counted
         /\ from \notin CountedAt /\ to \in CountedAt =>
              Cardinality(Counted') = Cardinality(Counted) + 1
         /\ from \in CountedAt /\ to \notin CountedAt =>
              Cardinality(Counted') = Cardinality(Counted) - 1
<1>1. /\ pc[c] = from /\ pc'[c] = to /\ \A d \in Clients \ {c} : pc'[d] = pc[d]
  BY DEF Goto, IOTypes
<1>2. /\ from \in CountedAt /\ to \in CountedAt => Counted' = Counted
      /\ from \notin CountedAt /\ to \notin CountedAt => Counted' = Counted
  BY <1>1 DEF Counted, CountedAt
<1>3. ASSUME from \notin CountedAt, to \in CountedAt
      PROVE  Cardinality(Counted') = Cardinality(Counted) + 1
  <2>1. c \notin Counted /\ Counted' = Counted \cup {c}
    BY <1>1, <1>3 DEF Counted, CountedAt
  <2> QED BY <2>1, CountedFinite, FS_AddElement
<1>4. ASSUME from \in CountedAt, to \notin CountedAt
      PROVE  Cardinality(Counted') = Cardinality(Counted) - 1
  <2>1. c \in Counted /\ Counted' = Counted \ {c}
    BY <1>1, <1>4 DEF Counted, CountedAt
  <2> QED BY <2>1, CountedFinite, FS_RemoveElement
<1> QED BY <1>2, <1>3, <1>4

\* While a first start or a last stop is under way nobody else is counted, so no time stamp
\* is taken and no ring read.
LEMMA AloneInRestart ==
  ASSUME IOInv, NEW c \in Clients, pc[c] \in {"first", "unmap"}
  PROVE  \A d \in Clients : d # c => pc[d] \notin CountedAt
<1> USE DEF IOInv, CountKept, Counted, CountedAt
<1>1. CASE pc[c] = "first"
  BY <1>1, CountOfFew
<1>2. CASE pc[c] = "unmap"
  BY <1>2, CountOfFew
<1> QED BY <1>1, <1>2

-----------------------------------------------------------------------------
(* Steps.                                                                  *)

LEMMA InitIOInv == Init => IOInv
<1> SUFFICES ASSUME Init PROVE IOInv
  OBVIOUS
<1>1. Counted = {}
  BY DEF Init, InitPlugin, Counted, Started
<1>2. Cardinality({}) = 0
  BY FS_EmptySet
<1> QED BY <1>1, <1>2, ClientsAssumption DEF Init, InitPlugin, IOInv, IOTypes, MutexHeld, CountKept,
      AskedKept, RingKept, Holding, Started

core == << gDevice_IOIsRunning, lib, asked >>

\* A start or a stop takes the mutex.
LEMMA LockKeepsInv ==
  ASSUME IOInv, NEW c \in Clients, StartIOLock(c) \/ StopIOLock(c) PROVE IOInv'
<1>1. PICK from \in {"idle", "running"}, to \in {"start", "stop"} :
        /\ Goto(c, from, to) /\ (to = "start" <=> from = "idle")
        /\ gPlugIn_StateMutex = Nobody /\ gPlugIn_StateMutex' = c /\ UNCHANGED core
  BY DEF StartIOLock, StopIOLock, core, driver
<1>2. /\ pc[c] = from /\ pc'[c] = to /\ pc' \in [Clients -> Started \cup Holding \cup {"idle"}]
      /\ \A d \in Clients \ {c} : pc'[d] = pc[d]
  BY <1>1 DEF Goto, IOInv, IOTypes, Holding
<1>3. \A d \in Clients : pc[d] \notin Holding
  BY <1>1, ClientsAssumption DEF IOInv, MutexHeld
<1>4. IOTypes' /\ MutexHeld'
  BY <1>1, <1>2, <1>3 DEF IOInv, IOTypes, MutexHeld, core, lib, Holding
<1>5. Counted' = Counted
  BY <1>1, CountMoves DEF IOInv, CountedAt, Started
<1>6. CountKept' /\ AskedKept' /\ RingKept'
  BY <1>1, <1>2, <1>5 DEF IOInv, CountKept, AskedKept, RingKept, core, lib, Holding
<1> QED BY <1>4, <1>6 DEF IOInv

\* What a step of the thread that holds the mutex finds: it is alone at that.
LEMMA HolderAlone ==
  ASSUME IOInv, NEW c \in Clients, pc[c] \in Holding
  PROVE  \A d \in Clients \ {c} : pc[d] \notin Holding
BY DEF IOInv, MutexHeld

\* A counted or a dropped client while others run, and the end of a first start.
LEMMA ReleaseKeepsInv ==
  ASSUME IOInv, NEW c \in Clients, StartIOBump(c) \/ StopIODrop(c) \/ StartIOCount(c)
  PROVE  IOInv'
<1>1. PICK from \in {"start", "stop", "first"}, to \in {"running", "idle"} :
        /\ Goto(c, from, to) /\ (to = "idle" <=> from = "stop")
        /\ gPlugIn_StateMutex' = Nobody /\ UNCHANGED << lib, asked >>
        /\ from = "start" => gDevice_IOIsRunning > 0 /\ gDevice_IOIsRunning' = gDevice_IOIsRunning + 1
        /\ from = "stop" => gDevice_IOIsRunning > 1 /\ gDevice_IOIsRunning' = gDevice_IOIsRunning - 1
        /\ from = "first" => gDevice_IOIsRunning' = 1
  BY DEF StartIOBump, StopIODrop, StartIOCount, driver
<1>2. /\ pc[c] = from /\ pc'[c] = to /\ pc' \in [Clients -> Started \cup Holding \cup {"idle"}]
      /\ \A d \in Clients \ {c} : pc'[d] = pc[d]
  BY <1>1 DEF Goto, IOInv, IOTypes, Started
<1>3. \A d \in Clients : pc'[d] \notin Holding
  BY <1>1, <1>2, HolderAlone DEF Holding
<1>4. IOTypes' /\ MutexHeld'
  BY <1>1, <1>2, <1>3, ClientsAssumption DEF IOInv, IOTypes, MutexHeld, lib
<1>5. from = "first" => gDevice_IOIsRunning = 0
  BY <1>2 DEF IOInv, CountKept
<1>6. gDevice_IOIsRunning' = Cardinality(Counted')
  <2>1. from \in {"start", "first"} => Cardinality(Counted') = Cardinality(Counted) + 1
    BY <1>1, CountMoves DEF IOInv, CountedAt, Started
  <2>2. from = "stop" => Cardinality(Counted') = Cardinality(Counted) - 1
    BY <1>1, CountMoves DEF IOInv, CountedAt, Started
  <2> QED BY <1>1, <1>5, <2>1, <2>2 DEF IOInv, CountKept
<1>7. CountKept'
  BY <1>3, <1>6 DEF CountKept, Holding
<1>8. gDevice_IOIsRunning' > 0 /\ (asked <=> gKextConnection = "open")
  <2>1. CASE from = "first"
    BY <1>1, <1>2, <2>1 DEF IOInv, AskedKept
  <2>2. CASE from # "first"
    <3>1. \A d \in Clients : pc[d] \notin {"first", "unmap"}
      BY <1>1, <1>2, <2>2, HolderAlone DEF Holding
    <3> QED BY <1>1, <2>2, <3>1 DEF IOInv, AskedKept, IOTypes
  <2> QED BY <2>1, <2>2
<1>9. AskedKept' /\ RingKept'
  BY <1>1, <1>2, <1>3, <1>8 DEF IOInv, AskedKept, RingKept, lib, Holding
<1> QED BY <1>4, <1>7, <1>9 DEF IOInv

\* The first start opens the driver, maps the ring and asks for capture.
LEMMA FirstKeepsInv == ASSUME IOInv, NEW c \in Clients, StartIOFirst(c) PROVE IOInv'
<1>1. /\ pc[c] = "start" /\ pc'[c] = "first"
      /\ pc' \in [Clients -> Started \cup Holding \cup {"idle"}]
      /\ \A d \in Clients \ {c} : pc'[d] = pc[d]
  BY DEF StartIOFirst, Goto, IOInv, IOTypes, Holding
<1>2. /\ gDevice_IOIsRunning = 0 /\ UNCHANGED << gDevice_IOIsRunning, gPlugIn_StateMutex >>
      /\ gKextConnection' \in {gKextConnection, "none", "open"}
      /\ gKextConnection # "none" => gKextConnection' = gKextConnection
      /\ gCaptureBuffer' \in {gCaptureBuffer, gCaptureBuffer \/ gKextConnection' = "open"}
  BY DEF StartIOFirst
<1>3. ~asked
  <2>1. \A d \in Clients : pc[d] \notin {"first", "unmap"}
    BY <1>1, HolderAlone DEF Holding
  <2> QED BY <1>2, <2>1 DEF IOInv, AskedKept
<1>4. asked' = (gKextConnection' = "open")
  BY <1>2, <1>3 DEF StartIOFirst, KextStartCapture, IOInv, IOTypes
<1>5. Counted' = Counted
  BY CountMoves DEF StartIOFirst, IOInv, CountedAt, Started
<1>6. IOTypes' /\ MutexHeld'
  BY <1>1, <1>2, <1>4 DEF IOInv, IOTypes, MutexHeld, Holding
<1>7. CountKept'
  BY <1>1, <1>2, <1>5, HolderAlone DEF IOInv, CountKept, Holding
<1>8. AskedKept'
  BY <1>1, <1>4, HolderAlone DEF AskedKept, Holding
<1>9. RingKept'
  BY <1>1, <1>2 DEF IOInv, RingKept, IOTypes
<1> QED BY <1>6, <1>7, <1>8, <1>9 DEF IOInv

\* The last stop stops capture, ...
LEMMA LastKeepsInv == ASSUME IOInv, NEW c \in Clients, StopIOLast(c) PROVE IOInv'
<1>1. /\ pc[c] = "stop" /\ pc'[c] = "unmap"
      /\ pc' \in [Clients -> Started \cup Holding \cup {"idle"}]
      /\ \A d \in Clients \ {c} : pc'[d] = pc[d]
  BY DEF StopIOLast, Goto, IOInv, IOTypes, Holding
<1>2. /\ gDevice_IOIsRunning = 1 /\ UNCHANGED << gDevice_IOIsRunning, gPlugIn_StateMutex, lib >>
      /\ asked' = FALSE
  BY DEF StopIOLast, KextStopCapture, IOInv, AskedKept, IOTypes
<1>3. Counted' = Counted
  BY CountMoves DEF StopIOLast, IOInv, CountedAt, Started
<1>4. IOTypes' /\ MutexHeld'
  BY <1>1, <1>2 DEF IOInv, IOTypes, MutexHeld, Holding, lib
<1>5. CountKept'
  BY <1>1, <1>2, <1>3, HolderAlone DEF IOInv, CountKept, Holding
<1>6. AskedKept'
  BY <1>1, <1>2, HolderAlone DEF AskedKept, Holding
<1>7. RingKept'
  BY <1>1, <1>2 DEF IOInv, RingKept, lib
<1> QED BY <1>4, <1>5, <1>6, <1>7 DEF IOInv

\* ... and then unmaps the ring, which nobody reads.
LEMMA UnmapKeepsInv == ASSUME IOInv, NEW c \in Clients, StopIOUnmap(c) PROVE IOInv'
<1>1. /\ pc[c] = "unmap" /\ pc'[c] = "idle"
      /\ pc' \in [Clients -> Started \cup Holding \cup {"idle"}]
      /\ \A d \in Clients \ {c} : pc'[d] = pc[d]
  BY DEF StopIOUnmap, Goto, IOInv, IOTypes
<1>2. /\ gDevice_IOIsRunning' = 0 /\ gPlugIn_StateMutex' = Nobody
      /\ UNCHANGED << gKextConnection, asked >> /\ gCaptureBuffer' \in BOOLEAN
  BY DEF StopIOUnmap, driver
<1>3. /\ gDevice_IOIsRunning = 1 /\ ~asked
  BY <1>1 DEF IOInv, CountKept, AskedKept
<1>4. \A d \in Clients : pc'[d] \notin Holding \cup CountedAt
  BY <1>1, HolderAlone, AloneInRestart DEF Holding, CountedAt, Started
<1>5. IOTypes' /\ MutexHeld'
  BY <1>1, <1>2, <1>4, ClientsAssumption DEF IOInv, IOTypes, MutexHeld
<1>6. Cardinality(Counted') = 0
  <2>1. Counted' = {}
    BY <1>4 DEF Counted, CountedAt
  <2> QED BY <2>1, FS_EmptySet
<1>7. CountKept'
  BY <1>2, <1>4, <1>6 DEF CountKept, Holding
<1>8. AskedKept' /\ RingKept'
  BY <1>2, <1>3, <1>4 DEF AskedKept, RingKept, Holding, CountedAt, Started
<1> QED BY <1>5, <1>7, <1>8 DEF IOInv

\* Time stamps and reads stay among the started clients; a read begins with a ring.
LEMMA IOKeepsInv ==
  ASSUME IOInv, NEW c \in Clients, GetZeroTimeStamp(c) \/ DoIOOperation(c) PROVE IOInv'
<1>1. PICK from \in Started, to \in Started :
        /\ Goto(c, from, to) /\ UNCHANGED << core, gPlugIn_StateMutex >>
        /\ to = "reading" => gCaptureBuffer
  BY DEF GetZeroTimeStamp, DoIOOperation, StampBegin, StampHardware, StampFallback, StampEnd,
     ReadBegin, ReadEnd, core, driver, Started
<1>2. /\ pc[c] = from /\ pc'[c] = to /\ pc' \in [Clients -> Started \cup Holding \cup {"idle"}]
      /\ \A d \in Clients \ {c} : pc'[d] = pc[d]
  BY <1>1 DEF Goto, IOInv, IOTypes
<1>3. Counted' = Counted
  BY <1>1, CountMoves DEF IOInv, CountedAt
<1>4. IOTypes' /\ MutexHeld'
  BY <1>1, <1>2 DEF IOInv, IOTypes, MutexHeld, Holding, Started, core, lib
<1>5. CountKept' /\ AskedKept' /\ RingKept'
  BY <1>1, <1>2, <1>3 DEF IOInv, CountKept, AskedKept, RingKept, Started, core, lib
<1> QED BY <1>4, <1>5 DEF IOInv

\* Time, the DSP, and the driver's end.
LEMMA WorldKeepsInv ==
  ASSUME IOInv, Tick \/ DspDown \/ DspUp \/ KextDies \/ UNCHANGED vars PROVE IOInv'
<1>1. UNCHANGED << pc, gPlugIn_StateMutex, gDevice_IOIsRunning, gCaptureBuffer >>
  BY DEF Tick, DspDown, DspUp, KextDies, vars, lib
<1>2. Counted' = Counted
  BY <1>1 DEF Counted
<1>3. MutexHeld' /\ CountKept' /\ RingKept'
  BY <1>1, <1>2 DEF IOInv, MutexHeld, CountKept, RingKept
<1>4. CASE KextDies
  <2>1. gKextConnection' = "dead" /\ asked' = FALSE
    BY <1>4 DEF KextDies
  <2> QED BY <1>1, <1>3, <2>1 DEF IOInv, IOTypes, AskedKept
<1>5. CASE Tick \/ DspDown \/ DspUp \/ UNCHANGED vars
  <2>1. UNCHANGED << gKextConnection, asked >>
    BY <1>5 DEF Tick, DspDown, DspUp, vars, lib, driver
  <2> QED BY <1>1, <1>3, <2>1 DEF IOInv, IOTypes, AskedKept
<1> QED BY <1>4, <1>5

\* A crash of the host starts the counting anew, and takes the driver's capture with it.
LEMMA CrashKeepsInv == ASSUME IOInv, HostDies PROVE IOInv'
<1>1. /\ pc' = [c \in Clients |-> "idle"] /\ gPlugIn_StateMutex' = Nobody
      /\ gDevice_IOIsRunning' = 0 /\ gKextConnection' = "none" /\ gCaptureBuffer' = FALSE
  BY DEF HostDies
<1>2. asked' = FALSE
  BY DEF HostDies, KextStopCapture, IOInv, AskedKept, IOTypes
<1>3. Counted' = {} /\ Cardinality({}) = 0
  BY <1>1, FS_EmptySet DEF Counted, Started
<1> QED BY <1>1, <1>2, <1>3, ClientsAssumption DEF IOInv, IOTypes, MutexHeld, CountKept, AskedKept,
      RingKept, Holding, Started

LEMMA NextKeepsInv == IOInv /\ [Next]_vars => IOInv'
<1> SUFFICES ASSUME IOInv, [Next]_vars PROVE IOInv'
  OBVIOUS
<1>1. ASSUME NEW c \in Clients, StartIO(c) \/ StopIO(c) PROVE IOInv'
  BY <1>1, LockKeepsInv, ReleaseKeepsInv, FirstKeepsInv, LastKeepsInv, UnmapKeepsInv
     DEF StartIO, StopIO
<1> QED BY <1>1, IOKeepsInv, WorldKeepsInv, CrashKeepsInv DEF Next

\* The inductive invariant of StartIO and StopIO.
THEOREM IOInvariant == Spec => []IOInv
BY InitIOInv, NextKeepsInv, PTL DEF Spec

\* The count is the number of clients between their start and their stop; the driver captures
\* for this plug-in exactly while it is positive; and no ring is unmapped under a read.
THEOREM CountedCapture == Spec => []CaptureWhileCounted
<1>1. IOInv => CaptureWhileCounted
  BY DEF IOInv, CountKept, AskedKept, RingKept, CaptureWhileCounted
<1> QED BY <1>1, IOInvariant, PTL

\* The clock is not reset, nor the ring unmapped, beside a time stamp or a read, although
\* these hold another mutex or none.
THEOREM RestartExcluded == Spec => []IOExcludesRestart
<1>1. ASSUME IOInv PROVE IOExcludesRestart
  <2>1. ASSUME NEW c \in Clients, NEW d \in Clients, pc[c] \in {"first", "unmap"}
        PROVE  pc[d] \notin Started
    <3>1. CASE c = d
      BY <2>1, <3>1 DEF Started
    <3>2. CASE c # d
      BY <1>1, <2>1, <3>2, AloneInRestart DEF CountedAt
    <3> QED BY <3>1, <3>2
  <2> QED BY <2>1 DEF IOExcludesRestart
<1> QED BY <1>1, IOInvariant, PTL

-----------------------------------------------------------------------------
(* The ring and the clock's correction.                                    *)

USE TimeAssumption

\* Quotient and remainder.
LEMMA Divided ==
  ASSUME NEW R \in Nat \ {0}, NEW x \in Nat
  PROVE  /\ x \div R \in Nat /\ x % R \in 0 .. R - 1 /\ x = R * (x \div R) + (x % R)
         /\ x % R <= x
<1>1. x \div R \in Int
  OBVIOUS
<1>2. x % R \in 0 .. R - 1
  OBVIOUS
<1>3. x = R * (x \div R) + (x % R)
  OBVIOUS
<1>4. x \div R >= 0
  OBVIOUS
<1> DEFINE q == x \div R
           r == x % R
<1>5. q \in Nat /\ r \in 0 .. R - 1 /\ x = R * q + r
  BY <1>1, <1>2, <1>3, <1>4
<1> HIDE DEF q, r
<1>6. R * q \in Nat
  BY <1>5
<1>7. r <= x
  BY <1>5, <1>6
<1> QED BY <1>5, <1>7 DEF q, r

\* Multiples of the ring that differ by less than the ring are the same.
LEMMA Multiples ==
  ASSUME NEW R \in Nat \ {0}, NEW p \in Int, NEW q \in Int, R * p < R * q + R
  PROVE  p <= q
<1> SUFFICES ASSUME p >= q + 1 PROVE FALSE
  OBVIOUS
<1>1. R * p >= R * (q + 1)
  OBVIOUS
<1>2. R * (q + 1) = R * q + R
  OBVIOUS
<1> QED BY <1>1, <1>2

\* The DMA's last frame 0 is never taken back.
LEMMA WrapsGoOn ==
  ASSUME NEW x \in Nat, NEW y \in Nat, x <= y
  PROVE  x - (x % Ring) <= y - (y % Ring)
<1> DEFINE p == x \div Ring
           q == y \div Ring
           a == x % Ring
           b == y % Ring
<1>1. /\ p \in Nat /\ q \in Nat /\ a \in 0 .. Ring - 1 /\ b \in 0 .. Ring - 1
      /\ x = Ring * p + a /\ y = Ring * q + b
  BY Divided
<1> HIDE DEF p, q, a, b
<1>2. Ring * p \in Int /\ Ring * q \in Int
  BY <1>1
<1>3. Ring * p < Ring * q + Ring
  BY <1>1, <1>2
<1>4. p <= q
  BY <1>1, <1>3, Multiples
<1>5. Ring * p <= Ring * q
  BY <1>1, <1>4
<1>6. x - a <= y - b
  BY <1>1, <1>2, <1>5
<1> QED BY <1>6 DEF a, b

\* Less than a ring further on, a smaller position is one wrap and another is none.
LEMMA OneWrapAtMost ==
  ASSUME NEW x \in Nat, NEW y \in Nat, x <= y, y - x < Ring
  PROVE  /\ y % Ring >= x % Ring => y - (y % Ring) = x - (x % Ring)
         /\ y % Ring < x % Ring => y - (y % Ring) = x - (x % Ring) + Ring
<1> DEFINE p == x \div Ring
           q == y \div Ring
           a == x % Ring
           b == y % Ring
<1>1. /\ p \in Nat /\ q \in Nat /\ a \in 0 .. Ring - 1 /\ b \in 0 .. Ring - 1
      /\ x = Ring * p + a /\ y = Ring * q + b
  BY Divided
<1> HIDE DEF p, q, a, b
<1>2. Ring * p \in Int /\ Ring * q \in Int /\ Ring * (p + 1) = Ring * p + Ring
  BY <1>1
<1>3. CASE b >= a
  <2>1. Ring * p < Ring * q + Ring /\ Ring * q < Ring * p + Ring
    BY <1>1, <1>2, <1>3
  <2>2. p = q
    BY <1>1, <2>1, Multiples
  <2>3. y - b = x - a
    BY <1>1, <1>2, <2>2
  <2> QED BY <1>1, <1>3, <2>3 DEF a, b
<1>4. CASE b < a
  <2>1. Ring * (p + 1) < Ring * q + Ring /\ Ring * q < Ring * (p + 1) + Ring
    BY <1>1, <1>2, <1>4
  <2>2. p + 1 <= q /\ q <= p + 1
    BY <1>1, <2>1, Multiples
  <2>3. p + 1 = q
    BY <1>1, <2>2
  <2>4. Ring * q = Ring * p + Ring
    BY <1>2, <2>3
  <2>5. y - b = x - a + Ring
    BY <1>1, <1>2, <2>4
  <2> QED BY <1>1, <1>4, <2>5 DEF a, b
<1> QED BY <1>1, <1>3, <1>4

Eighth(pred, obs) == pred + ((obs - pred) \div 8)

\* An eighth of the way from the prediction to what was seen stays between the two; and while
\* the prediction is at most eight rings ahead it takes back a ring at most, and leaves seven.
LEMMA EighthOfTheWay ==
  ASSUME NEW pred \in Int, NEW obs \in Int
  PROVE  /\ Eighth(pred, obs) \in Int
         /\ obs >= pred => pred <= Eighth(pred, obs) /\ Eighth(pred, obs) <= obs
         /\ obs < pred => obs <= Eighth(pred, obs) /\ Eighth(pred, obs) <= pred
         /\ pred <= obs + 8 * Ring =>
              Eighth(pred, obs) >= pred - Ring /\ Eighth(pred, obs) <= obs + 7 * Ring
<1> DEFINE d == obs - pred
           k == d \div 8
           t == Eighth(pred, obs)
<1>1. d \in Int
  OBVIOUS
<1> HIDE DEF d
<1>2. k \in Int /\ 8 * k <= d /\ d < 8 * k + 8
  BY <1>1
<1>3. t = pred + k /\ d = obs - pred
  BY DEF d, Eighth
<1> HIDE DEF t
<1> HIDE DEF k
<1>4. t \in Int /\ (obs >= pred => pred <= t /\ t <= obs) /\ (obs < pred => obs <= t /\ t <= pred)
  BY <1>2, <1>3
<1>5. ASSUME pred <= obs + 8 * Ring PROVE t >= pred - Ring /\ t <= obs + 7 * Ring
  <2>1. t >= pred - Ring
    BY <1>2, <1>3, <1>5
  <2>2. t <= obs + 7 * Ring
    <3>1. 8 * t <= 8 * pred + d
      BY <1>2, <1>3
    <3>2. 8 * t <= 7 * pred + obs
      BY <1>3, <3>1, <1>4
    <3>3. 7 * pred <= 7 * obs + 56 * Ring
      BY <1>5
    <3> QED BY <1>4, <3>2, <3>3
  <2> QED BY <2>1, <2>2
<1> QED BY <1>4, <1>5 DEF t

-----------------------------------------------------------------------------
(* The inductive invariant of the clock.                                   *)

\* A client's IO runs, or its stop waits for the mutex.
Up == \E c \in Clients : pc[c] \in Started \cup {"stop"}

\* GetZeroTimeStamp's mutex is held from its look at the clock to the position.
StampMutex == \A c \in Clients : pc[c] = "stamping" <=> gDevice_IOMutex = c

\* No ring goes by between two looks at the position, nor more than a call takes in one.
TimeKept ==
  /\ now \in Nat /\ readAt \in Nat /\ theCurrentHostTime \in Nat
  /\ readAt <= now /\ now - readAt <= MaxPoll
  /\ \A c \in Clients : pc[c] = "stamping" =>
       /\ readAt <= theCurrentHostTime /\ theCurrentHostTime <= now
       /\ now - theCurrentHostTime <= Latency

\* The DMA runs only for somebody, and was started in this session.
DmaKept ==
  /\ hwReady \in BOOLEAN /\ dmaStart \in {Stopped} \cup Nat
  /\ dmaStart # Stopped => dmaStart <= now /\ asked /\ hwReady

HistoryTypes ==
  /\ gHWClk \in [wraps : Nat, last : 0 .. Ring - 1, wrapTime : Int, primed : BOOLEAN]
  /\ gAnchor \in [host : Nat, stamps : Nat]
  /\ stamp \in [sample : Int, host : Int] /\ primedAt \in Int /\ outage \in BOOLEAN

\* Stamps belong to a session; its first one primes the clock it began by resetting.
SessionKept ==
  /\ ~gHWClk.primed => gHWClk.wraps = 0
  /\ \A c \in Clients : pc[c] = "first" =>
       stamp = NoStamp /\ (gKextConnection = "open" => ~gHWClk.primed)
  /\ stamp # NoStamp => \E c \in Clients : pc[c] \in CountedAt
  /\ Up /\ gKextConnection = "open" /\ gHWClk.primed => stamp # NoStamp

\* The last stamp is the clock's, or the host clock's timeline.
StampKept ==
  /\ gKextConnection = "open" /\ stamp # NoStamp =>
       gHWClk.primed /\ stamp = [sample |-> gHWClk.wraps, host |-> gHWClk.wrapTime]
  /\ gKextConnection = "none" /\ stamp # NoStamp =>
       stamp = [sample |-> gAnchor.stamps, host |-> gAnchor.host + gAnchor.stamps * Ring]

\* The clock runs ahead of the DMA by seven rings at most, because it makes good an eighth of
\* its lead at every wrap it counts; and the DMA has gone on since the last look or was started
\* after it.
LeadKept ==
  gKextConnection = "open" /\ stamp # NoStamp =>
    /\ gHWClk.wrapTime <= LastWrap + 7 * Ring
    /\ dmaStart # Stopped =>
         dmaStart >= readAt \/ gHWClk.last = (readAt - dmaStart) % Ring

\* While capture has not been down, the DMA is the one started with the session, ...
CleanSession ==
  ~outage /\ (Up \/ \E c \in Clients : pc[c] = "first") =>
    dmaStart = 0 /\ gKextConnection = "open"

\* ... its wraps are counted and the clock is not ahead of it.
CleanKept ==
  ~outage /\ gKextConnection = "open" /\ stamp # NoStamp =>
    /\ gHWClk.last = readAt % Ring
    /\ LastWrap = primedAt + gHWClk.wraps * Ring
    /\ gHWClk.wrapTime \in (LastWrap - Latency) .. LastWrap

ClockInv ==
  /\ StampMutex /\ TimeKept /\ DmaKept /\ HistoryTypes /\ SessionKept
  /\ StampKept /\ LeadKept /\ CleanSession /\ CleanKept


\* What the invariant of the count says of the sessions: somebody is counted at a positive
\* count, and is no last stop while another call holds the mutex.
LEMMA CountedUp ==
  ASSUME IOInv, gDevice_IOIsRunning > 0, NEW c \in Clients, pc[c] \in {"start", "stop"}
  PROVE  Up
<1>1. Cardinality({}) = 0
  BY FS_EmptySet
<1>2. PICK d \in Clients : pc[d] \in CountedAt
  BY <1>1 DEF IOInv, CountKept, Counted, CountedAt
<1>3. pc[d] # "unmap"
  BY HolderAlone DEF Holding
<1> QED BY <1>2, <1>3 DEF Up, CountedAt

LEMMA ResetTypes ==
  /\ ClockReset \in [wraps : Nat, last : 0 .. Ring - 1, wrapTime : Int, primed : BOOLEAN]
  /\ NoAnchor \in [host : Nat, stamps : Nat] /\ NoStamp \in [sample : Int, host : Int]
<1>1. 0 \in 0 .. Ring - 1
  OBVIOUS
<1>2. ClockReset \in [wraps : Nat, last : 0 .. Ring - 1, wrapTime : Int, primed : BOOLEAN]
  BY <1>1 DEF ClockReset
<1> QED BY <1>2 DEF NoAnchor, NoStamp

LEMMA InitClockInv == Init => ClockInv
<1> SUFFICES ASSUME Init PROVE ClockInv
  OBVIOUS
<1>1. StampMutex /\ TimeKept /\ DmaKept
  BY ClientsAssumption DEF Init, InitPlugin, StampMutex, TimeKept, DmaKept, Stopped
<1>2. HistoryTypes
  <2>1. gHWClk = ClockReset /\ gAnchor = NoAnchor /\ stamp = NoStamp /\ primedAt = 0
    BY DEF Init, InitPlugin
  <2>2. outage \in BOOLEAN
    BY DEF Init, InitPlugin
  <2> QED BY <2>1, <2>2, ResetTypes DEF HistoryTypes
<1>3. SessionKept /\ StampKept /\ LeadKept /\ CleanSession /\ CleanKept
  BY DEF Init, InitPlugin, SessionKept, StampKept, LeadKept, CleanSession, CleanKept, Up, Started,
     CountedAt, ClockReset, NoStamp
<1> QED BY <1>1, <1>2, <1>3 DEF ClockInv

quiet == << gDevice_IOMutex, gKextConnection, clock, theCurrentHostTime, now, driver, history >>

\* A step that leaves the clock alone, begins no session and ends none with a stamp in it.
LEMMA QuietKeepsClock ==
  ASSUME ClockInv, UNCHANGED quiet,
         \A c \in Clients : /\ pc'[c] = "stamping" <=> pc[c] = "stamping"
                            /\ pc'[c] = "first" => pc[c] = "first",
         Up' => Up,
         (\E c \in Clients : pc[c] \in CountedAt) => (\E c \in Clients : pc'[c] \in CountedAt)
  PROVE  ClockInv'
<1>1. StampMutex' /\ TimeKept'
  BY DEF quiet, clock, history, ClockInv, StampMutex, TimeKept
<1>2. DmaKept' /\ HistoryTypes'
  BY DEF quiet, clock, driver, history, ClockInv, DmaKept, HistoryTypes
<1>3. SessionKept'
  BY DEF quiet, clock, history, ClockInv, SessionKept
<1>4. StampKept' /\ LeadKept'
  BY DEF quiet, clock, driver, history, ClockInv, StampKept, LeadKept, LastWrap
<1>5. CleanSession' /\ CleanKept'
  BY DEF quiet, clock, driver, history, ClockInv, CleanSession, CleanKept, LastWrap
<1> QED BY <1>1, <1>2, <1>3, <1>4, <1>5 DEF ClockInv

\* The calls that only count or lock, and a read.
LEMMA LocksKeepClock ==
  ASSUME IOInv, ClockInv, NEW c \in Clients,
         StartIOLock(c) \/ StopIOLock(c) \/ StartIOBump(c) \/ StopIODrop(c) \/ DoIOOperation(c)
  PROVE  ClockInv'
<1>1. PICK from \in Started \cup {"idle", "start", "stop"},
           to \in {"idle", "start", "running", "stop", "reading"} :
        /\ Goto(c, from, to) /\ UNCHANGED quiet /\ from # "stamping"
        /\ to \in {"stop", "reading"} => from = "running"
        /\ to = "running" => from = "reading" \/ (from = "start" /\ gDevice_IOIsRunning > 0)
        /\ to = "start" => from = "idle"
        /\ to = "idle" => from = "stop" /\ gDevice_IOIsRunning > 1
                          /\ gDevice_IOIsRunning' = gDevice_IOIsRunning - 1
  <2>1. CASE StartIOLock(c)
    BY <2>1 DEF StartIOLock, quiet, lib
  <2>2. CASE StopIOLock(c)
    BY <2>2 DEF StopIOLock, quiet, lib, Started
  <2>3. CASE StartIOBump(c)
    BY <2>3 DEF StartIOBump, quiet, lib
  <2>4. CASE StopIODrop(c)
    BY <2>4 DEF StopIODrop, quiet, lib
  <2>5. CASE ReadBegin(c)
    BY <2>5 DEF ReadBegin, quiet, lib, Started
  <2>6. CASE ReadEnd(c)
    BY <2>6 DEF ReadEnd, quiet, lib, Started
  <2> QED BY <2>1, <2>2, <2>3, <2>4, <2>5, <2>6 DEF DoIOOperation
<1>2. /\ pc[c] = from /\ pc'[c] = to /\ \A d \in Clients \ {c} : pc'[d] = pc[d]
  BY <1>1 DEF Goto, IOInv, IOTypes
<1>3. \A d \in Clients : /\ pc'[d] = "stamping" <=> pc[d] = "stamping"
                         /\ pc'[d] = "first" => pc[d] = "first"
  BY <1>1, <1>2
<1>4. to \in Started \cup {"stop"} => Up
  <2>1. CASE from = "start" /\ gDevice_IOIsRunning > 0
    BY <1>2, <2>1, CountedUp
  <2>2. CASE from \in Started
    BY <1>2, <2>2 DEF Up
  <2> QED BY <1>1, <2>1, <2>2 DEF Started
<1>5. Up' => Up
  BY <1>2, <1>4 DEF Up
<1>6. ASSUME \E d \in Clients : pc[d] \in CountedAt PROVE \E d \in Clients : pc'[d] \in CountedAt
  <2>1. CASE to # "idle"
    BY <1>1, <1>2, <1>6, <2>1 DEF CountedAt, Started
  <2>2. CASE to = "idle"
    <3>1. IOInv'
      BY <1>1, <2>2, ReleaseKeepsInv, LockKeepsInv, IOKeepsInv
    <3>2. gDevice_IOIsRunning' > 0
      BY <1>1, <2>2 DEF IOInv, IOTypes
    <3>3. gDevice_IOIsRunning' = Cardinality(Counted') /\ Cardinality({}) = 0
      BY <3>1, FS_EmptySet DEF IOInv, CountKept
    <3> QED BY <3>2, <3>3 DEF Counted, CountedAt
  <2> QED BY <2>1, <2>2
<1> QED BY <1>1, <1>3, <1>5, <1>6, QuietKeepsClock

\* The first start: nobody is counted, so the DMA is stopped until it is asked for here.
LEMMA FirstKeepsClock ==
  ASSUME IOInv, ClockInv, NEW c \in Clients, StartIOFirst(c) PROVE ClockInv'
<1>1. /\ pc[c] = "start" /\ pc'[c] = "first" /\ \A d \in Clients \ {c} : pc'[d] = pc[d]
      /\ gDevice_IOIsRunning = 0 /\ now' = 0 /\ stamp' = NoStamp /\ readAt' = 0 /\ primedAt' = 0
      /\ gHWClk' = (IF gKextConnection' = "none" THEN gHWClk ELSE ClockReset)
      /\ outage' = (dmaStart' = Stopped)
      /\ UNCHANGED << gDevice_IOMutex, gAnchor, theCurrentHostTime, hwReady >>
  BY DEF StartIOFirst, Goto, IOInv, IOTypes
<1>2. \A d \in Clients : pc[d] \notin CountedAt
  BY <1>1, CountOfFew DEF IOInv, CountKept, Counted, CountedAt
<1>3. ~asked /\ dmaStart = Stopped
  <2>1. \A d \in Clients : pc[d] \notin {"first", "unmap"}
    BY <1>1, HolderAlone DEF Holding
  <2> QED BY <1>1, <2>1 DEF IOInv, AskedKept, ClockInv, DmaKept
<1>4. /\ dmaStart' \in {Stopped, 0}
      /\ dmaStart' # Stopped => asked' /\ hwReady'
      /\ dmaStart' # Stopped => gKextConnection' = "open"
  BY <1>1, <1>3 DEF StartIOFirst, KextStartCapture
<1>5. \A d \in Clients : pc'[d] \notin CountedAt
  BY <1>1, <1>2 DEF CountedAt, Started
<1>6. StampMutex' /\ TimeKept'
  BY <1>1, <1>5 DEF ClockInv, StampMutex, TimeKept, CountedAt, Started
<1>7. DmaKept' /\ HistoryTypes'
  <2>1. DmaKept'
    BY <1>1, <1>4 DEF ClockInv, DmaKept
  <2>2. gHWClk' \in {gHWClk, ClockReset} /\ outage' \in BOOLEAN
    BY <1>1
  <2>3. HistoryTypes'
    BY <1>1, <2>2, ResetTypes DEF ClockInv, HistoryTypes
  <2> QED BY <2>1, <2>3
<1>8. SessionKept'
  BY <1>1, <1>5 DEF ClockInv, SessionKept, Up, CountedAt, ClockReset
<1>9. StampKept' /\ LeadKept' /\ CleanKept'
  BY <1>1 DEF StampKept, LeadKept, CleanKept
<1>10. CleanSession'
  BY <1>1, <1>4 DEF CleanSession
<1> QED BY <1>6, <1>7, <1>8, <1>9, <1>10 DEF ClockInv

\* ... and its end: the session's time stamps have yet to begin.
LEMMA CountKeepsClock ==
  ASSUME IOInv, ClockInv, NEW c \in Clients, StartIOCount(c) PROVE ClockInv'
<1>1. /\ pc[c] = "first" /\ pc'[c] = "running" /\ \A d \in Clients \ {c} : pc'[d] = pc[d]
      /\ gAnchor' = [host |-> now, stamps |-> 0] /\ readAt' = now
      /\ UNCHANGED << gDevice_IOMutex, gKextConnection, gHWClk, theCurrentHostTime, now, driver,
                      stamp, primedAt, outage >>
  BY DEF StartIOCount, Goto, IOInv, IOTypes, lib
<1>2. \A d \in Clients : d # c => pc[d] \notin CountedAt
  BY <1>1, AloneInRestart
<1>3. stamp = NoStamp /\ (gKextConnection = "open" => ~gHWClk.primed)
  BY <1>1 DEF ClockInv, SessionKept
<1>4. \A d \in Clients : pc'[d] # "stamping" /\ pc[d] # "stamping" /\ (pc'[d] = "first" => pc[d] = "first")
  BY <1>1, <1>2 DEF CountedAt, Started
<1>5. StampMutex' /\ TimeKept'
  BY <1>1, <1>4 DEF ClockInv, StampMutex, TimeKept
<1>6. DmaKept' /\ HistoryTypes'
  BY <1>1 DEF ClockInv, DmaKept, HistoryTypes, TimeKept, driver
<1>7. SessionKept'
  BY <1>1, <1>3, <1>4 DEF ClockInv, SessionKept
<1>8. StampKept' /\ LeadKept' /\ CleanKept'
  BY <1>1, <1>3 DEF StampKept, LeadKept, CleanKept
<1>9. CleanSession'
  BY <1>1 DEF ClockInv, CleanSession, driver
<1> QED BY <1>5, <1>6, <1>7, <1>8, <1>9 DEF ClockInv

\* The last stop stops the DMA, ...
LEMMA LastKeepsClock ==
  ASSUME IOInv, ClockInv, NEW c \in Clients, StopIOLast(c) PROVE ClockInv'
<1>1. /\ pc[c] = "stop" /\ pc'[c] = "unmap" /\ \A d \in Clients \ {c} : pc'[d] = pc[d]
      /\ UNCHANGED << gDevice_IOMutex, gKextConnection, clock, theCurrentHostTime, now, hwReady,
                      history >>
  BY DEF StopIOLast, Goto, IOInv, IOTypes, lib
<1>2. \A d \in Clients \ {c} : pc[d] \notin CountedAt
  BY <1>1, CountOfFew DEF StopIOLast, IOInv, CountKept, Counted, CountedAt
<1>3. dmaStart' = Stopped
  BY DEF StopIOLast, KextStopCapture, IOInv, AskedKept, ClockInv, DmaKept
<1>4. /\ ~Up' /\ \A d \in Clients : pc'[d] # "first"
      /\ \A d \in Clients : pc'[d] # "stamping" /\ pc[d] # "stamping"
  BY <1>1, <1>2, HolderAlone DEF Up, CountedAt, Started, Holding
<1>5. \E d \in Clients : pc'[d] \in CountedAt
  BY <1>1 DEF CountedAt
<1>6. StampMutex' /\ TimeKept'
  BY <1>1, <1>4 DEF ClockInv, StampMutex, TimeKept, history
<1>7. DmaKept' /\ HistoryTypes'
  BY <1>1, <1>3 DEF ClockInv, DmaKept, HistoryTypes, clock, history
<1>8. SessionKept' /\ CleanSession'
  BY <1>1, <1>4, <1>5 DEF ClockInv, SessionKept, CleanSession, clock
<1>9. StampKept' /\ LeadKept' /\ CleanKept'
  BY <1>1, <1>3 DEF ClockInv, StampKept, LeadKept, CleanKept, LastWrap, clock, history
<1> QED BY <1>6, <1>7, <1>8, <1>9 DEF ClockInv

\* ... and the session ends.
LEMMA UnmapKeepsClock ==
  ASSUME IOInv, ClockInv, NEW c \in Clients, StopIOUnmap(c) PROVE ClockInv'
<1>1. /\ pc[c] = "unmap" /\ pc'[c] = "idle" /\ \A d \in Clients \ {c} : pc'[d] = pc[d]
      /\ now' = 0 /\ stamp' = NoStamp /\ readAt' = 0 /\ primedAt' = 0 /\ outage' = FALSE
      /\ UNCHANGED << gDevice_IOMutex, clock, theCurrentHostTime, driver >>
  BY DEF StopIOUnmap, Goto, IOInv, IOTypes
<1>2. \A d \in Clients \ {c} : pc[d] \notin CountedAt /\ pc[d] # "first"
  BY <1>1, AloneInRestart, HolderAlone DEF Holding
<1>3. dmaStart = Stopped
  BY <1>1 DEF IOInv, AskedKept, ClockInv, DmaKept
<1>4. \A d \in Clients : /\ pc'[d] \notin Started \cup {"stop", "first"}
                         /\ pc[d] # "stamping" /\ pc'[d] # "stamping"
  BY <1>1, <1>2 DEF CountedAt, Started
<1>5. StampMutex' /\ TimeKept'
  BY <1>1, <1>4 DEF ClockInv, StampMutex, TimeKept
<1>6. DmaKept' /\ HistoryTypes'
  <2>1. DmaKept'
    BY <1>1, <1>3 DEF ClockInv, DmaKept, driver
  <2>2. HistoryTypes'
    <3>1. outage' \in BOOLEAN
      BY <1>1
    <3> QED BY <1>1, <3>1, ResetTypes DEF ClockInv, HistoryTypes, clock
  <2> QED BY <2>1, <2>2
<1>7. SessionKept' /\ CleanSession'
  BY <1>1, <1>4 DEF ClockInv, SessionKept, CleanSession, Up, clock
<1>8. StampKept' /\ LeadKept' /\ CleanKept'
  BY <1>1 DEF StampKept, LeadKept, CleanKept
<1> QED BY <1>5, <1>6, <1>7, <1>8 DEF ClockInv

\* A time stamp begins with a look at the clock.
LEMMA BeginKeepsClock ==
  ASSUME IOInv, ClockInv, NEW c \in Clients, StampBegin(c) PROVE ClockInv'
<1>1. /\ pc[c] = "running" /\ pc'[c] = "stamping" /\ \A d \in Clients \ {c} : pc'[d] = pc[d]
      /\ gDevice_IOMutex = Nobody /\ gDevice_IOMutex' = c /\ theCurrentHostTime' = now
      /\ UNCHANGED << gKextConnection, clock, now, driver, history >>
  BY DEF StampBegin, Goto, IOInv, IOTypes, lib
<1>2. \A d \in Clients : pc[d] # "stamping"
  BY <1>1, ClientsAssumption DEF ClockInv, StampMutex
<1>3. StampMutex'
  BY <1>1, <1>2 DEF StampMutex
<1>4. TimeKept'
  BY <1>1, <1>2 DEF ClockInv, TimeKept, history
<1>5. DmaKept' /\ HistoryTypes'
  BY <1>1 DEF ClockInv, DmaKept, HistoryTypes, clock, driver, history
<1>6. /\ Up /\ Up' /\ \A d \in Clients : pc'[d] = "first" => pc[d] = "first"
      /\ \E d \in Clients : pc'[d] \in CountedAt
  BY <1>1 DEF Up, CountedAt, Started
<1>7. SessionKept' /\ CleanSession'
  BY <1>1, <1>6 DEF ClockInv, SessionKept, CleanSession, clock, driver, history
<1>8. StampKept' /\ LeadKept' /\ CleanKept'
  BY <1>1 DEF ClockInv, StampKept, LeadKept, CleanKept, LastWrap, clock, driver, history
<1> QED BY <1>3, <1>4, <1>5, <1>7, <1>8 DEF ClockInv

\* What the end of a time stamp leaves to show about the clock and the stamp.
LEMMA EndOfStamp ==
  ASSUME IOInv, ClockInv, NEW c \in Clients, StampEnd(c)
  PROVE  /\ Up /\ Up' /\ StampMutex' /\ TimeKept' /\ DmaKept' /\ CleanSession'
         /\ \A d \in Clients : pc'[d] # "stamping" /\ pc[d] # "first" /\ pc'[d] # "first"
         /\ \E d \in Clients : pc'[d] \in CountedAt
         /\ readAt' = now
<1>1. /\ pc[c] = "stamping" /\ pc'[c] = "running" /\ \A d \in Clients \ {c} : pc'[d] = pc[d]
      /\ gDevice_IOMutex' = Nobody /\ readAt' = now /\ theCurrentHostTime' = 0
      /\ UNCHANGED << gKextConnection, now, driver, outage >>
  BY DEF StampEnd, Goto, IOInv, IOTypes, lib
<1>2. \A d \in Clients : pc'[d] # "stamping"
  BY <1>1 DEF ClockInv, StampMutex
<1>3. \A d \in Clients : pc[d] # "first" /\ pc'[d] # "first"
  BY <1>1, AloneInRestart DEF CountedAt, Started
<1>4. Up /\ Up' /\ \E d \in Clients : pc'[d] \in CountedAt
  BY <1>1 DEF Up, CountedAt, Started
<1>5. StampMutex'
  BY <1>1, <1>2, ClientsAssumption DEF StampMutex
<1>6. TimeKept'
  BY <1>1, <1>2 DEF ClockInv, TimeKept
<1>7. DmaKept' /\ CleanSession'
  BY <1>1, <1>4 DEF ClockInv, DmaKept, CleanSession, driver
<1> QED BY <1>1, <1>2, <1>3, <1>4, <1>5, <1>6, <1>7

\* The timeline of the host clock.
LEMMA FallbackStep ==
  ASSUME IOInv, ClockInv, NEW c \in Clients, StampFallback(c)
  PROVE  /\ gAnchor' \in [host : Nat, stamps : Nat] /\ gAnchor'.host = gAnchor.host
         /\ gAnchor'.stamps \in {gAnchor.stamps, gAnchor.stamps + 1}
         /\ stamp' = [sample |-> gAnchor'.stamps, host |-> gAnchor'.host + gAnchor'.stamps * Ring]
         /\ stamp' \in [sample : Int, host : Int]
<1>1. PICK more \in BOOLEAN :
        gAnchor' = [gAnchor EXCEPT !.stamps = IF more THEN @ + 1 ELSE @]
  BY DEF StampFallback
<1>2. stamp' = [sample |-> gAnchor'.stamps, host |-> gAnchor.host + gAnchor'.stamps * Ring]
  BY DEF StampFallback
<1>3. gAnchor \in [host : Nat, stamps : Nat]
  BY DEF ClockInv, HistoryTypes
<1>4. /\ gAnchor' \in [host : Nat, stamps : Nat] /\ gAnchor'.host = gAnchor.host
      /\ gAnchor'.stamps \in {gAnchor.stamps, gAnchor.stamps + 1}
  BY <1>1, <1>3
<1>5. gAnchor'.stamps * Ring \in Nat
  BY <1>4, <1>3
<1> QED BY <1>2, <1>4, <1>5

LEMMA FallbackKeepsClock ==
  ASSUME IOInv, ClockInv, NEW c \in Clients, StampFallback(c) PROVE ClockInv'
<1>1. /\ gKextConnection # "open" /\ StampEnd(c)
      /\ UNCHANGED << gKextConnection, gHWClk, primedAt, outage >>
  BY DEF StampFallback, StampEnd, lib
<1>2. /\ Up /\ Up' /\ StampMutex' /\ TimeKept' /\ DmaKept' /\ CleanSession'
      /\ \A d \in Clients : pc'[d] # "first"
      /\ \E d \in Clients : pc'[d] \in CountedAt
  BY <1>1, EndOfStamp
<1>3. HistoryTypes'
  BY <1>1, FallbackStep DEF ClockInv, HistoryTypes
<1>4. SessionKept'
  BY <1>1, <1>2 DEF ClockInv, SessionKept
<1>5. StampKept' /\ LeadKept' /\ CleanKept'
  BY <1>1, FallbackStep DEF StampKept, LeadKept, CleanKept
<1> QED BY <1>2, <1>3, <1>4, <1>5 DEF ClockInv

\* Time goes on only while time stamps are asked for often enough.
LEMMA TickKeepsClock == ASSUME IOInv, ClockInv, Tick PROVE ClockInv'
<1>1. /\ UNCHANGED << pc, gDevice_IOMutex, gKextConnection, clock, theCurrentHostTime, driver, history >>
      /\ gDevice_IOMutex # Nobody => now - theCurrentHostTime < Latency
      /\ now - readAt < MaxPoll /\ now' = now + 1
  BY DEF Tick, lib
<1>2. StampMutex'
  BY <1>1 DEF ClockInv, StampMutex
<1>3. TimeKept'
  <2>1. \A c \in Clients : pc[c] = "stamping" => gDevice_IOMutex # Nobody
    BY ClientsAssumption DEF ClockInv, StampMutex
  <2> QED BY <1>1, <2>1 DEF ClockInv, TimeKept, history
<1>4. DmaKept'
  BY <1>1 DEF ClockInv, DmaKept, TimeKept, driver, Stopped
<1>5. HistoryTypes' /\ SessionKept' /\ CleanSession'
  BY <1>1 DEF ClockInv, HistoryTypes, SessionKept, CleanSession, Up, clock, driver, history
<1>6. StampKept' /\ LeadKept' /\ CleanKept'
  BY <1>1 DEF ClockInv, StampKept, LeadKept, CleanKept, LastWrap, clock, driver, history
<1> QED BY <1>2, <1>3, <1>4, <1>5, <1>6 DEF ClockInv

\* Capture goes down in a session, with the DSP or with the driver.
LEMMA DownKeepsClock == ASSUME IOInv, ClockInv, DspDown \/ KextDies PROVE ClockInv'
<1>1. /\ UNCHANGED << pc, gDevice_IOMutex, clock, theCurrentHostTime, now, stamp, readAt, primedAt >>
      /\ gKextConnection' \in {gKextConnection, "dead"} /\ dmaStart' = Stopped
      /\ outage' = InSession /\ hwReady' \in BOOLEAN
  BY DEF DspDown, KextDies, lib, ClockInv, DmaKept
<1>2. StampMutex' /\ TimeKept' /\ DmaKept'
  BY <1>1 DEF ClockInv, StampMutex, TimeKept, DmaKept
<1>3. outage' \in BOOLEAN
  BY <1>1 DEF InSession
<1>4. HistoryTypes'
  BY <1>1, <1>3 DEF ClockInv, HistoryTypes, clock
<1>5. SessionKept'
  BY <1>1 DEF ClockInv, SessionKept, Up, clock
<1>6. StampKept' /\ LeadKept'
  BY <1>1 DEF ClockInv, StampKept, LeadKept, LastWrap, clock
<1>7. /\ Up \/ (\E c \in Clients : pc[c] = "first") => outage'
      /\ stamp # NoStamp => outage'
  BY <1>1 DEF InSession, Up, ClockInv, SessionKept, CountedAt
<1>8. CleanSession' /\ CleanKept'
  BY <1>1, <1>7 DEF CleanSession, CleanKept, Up
<1> QED BY <1>2, <1>4, <1>5, <1>6, <1>8 DEF ClockInv

\* The DSP comes back, and with it the capture somebody asked for.
LEMMA UpKeepsClock == ASSUME IOInv, ClockInv, DspUp PROVE ClockInv'
<1>1. /\ UNCHANGED << pc, gDevice_IOMutex, gKextConnection, clock, theCurrentHostTime, now, asked,
                      history >>
      /\ ~hwReady /\ hwReady' = TRUE /\ dmaStart' = IF asked THEN now ELSE Stopped
  BY DEF DspUp, lib
<1>2. dmaStart = Stopped /\ Stopped # 0
  BY <1>1 DEF ClockInv, DmaKept, Stopped
<1>3. StampMutex' /\ TimeKept' /\ DmaKept'
  BY <1>1 DEF ClockInv, StampMutex, TimeKept, DmaKept, history
<1>4. HistoryTypes' /\ SessionKept'
  BY <1>1 DEF ClockInv, HistoryTypes, SessionKept, Up, clock, history
<1>5. StampKept' /\ CleanKept'
  BY <1>1 DEF ClockInv, StampKept, CleanKept, LastWrap, clock, history
<1>6. LeadKept'
  BY <1>1 DEF ClockInv, LeadKept, TimeKept, LastWrap, clock, history
<1>7. CleanSession'
  BY <1>1, <1>2 DEF ClockInv, CleanSession, Up, history
<1> QED BY <1>3, <1>4, <1>5, <1>6, <1>7 DEF ClockInv

\* A crash of the host ends the session.
LEMMA CrashKeepsClock == ASSUME IOInv, ClockInv, HostDies PROVE ClockInv'
<1>1. /\ pc' = [c \in Clients |-> "idle"] /\ gDevice_IOMutex' = Nobody
      /\ gHWClk' = ClockReset /\ gAnchor' = NoAnchor /\ theCurrentHostTime' = 0
      /\ now' = 0 /\ stamp' = NoStamp /\ readAt' = 0 /\ primedAt' = 0 /\ outage' = FALSE
      /\ UNCHANGED hwReady
  BY DEF HostDies
<1>2. dmaStart' = Stopped
  BY DEF HostDies, KextStopCapture, IOInv, AskedKept, ClockInv, DmaKept
<1>3. StampMutex' /\ TimeKept' /\ DmaKept'
  BY <1>1, <1>2, ClientsAssumption DEF ClockInv, StampMutex, TimeKept, DmaKept
<1>4. HistoryTypes'
  <2>1. outage' \in BOOLEAN
    BY <1>1
  <2> QED BY <1>1, <2>1, ResetTypes DEF HistoryTypes
<1>5. SessionKept' /\ CleanSession'
  BY <1>1 DEF SessionKept, CleanSession, Up, Started, ClockReset
<1>6. StampKept' /\ LeadKept' /\ CleanKept'
  BY <1>1 DEF StampKept, LeadKept, CleanKept
<1> QED BY <1>3, <1>4, <1>5, <1>6 DEF ClockInv

\* What the driver answers, and where that puts the DMA's last frame 0: not before the last one
\* known, nor before it was started.
LEMMA PositionRead ==
  ASSUME ClockInv
  PROVE  /\ CapturePosition \in 0 .. Ring - 1 /\ CapturePosition <= now
         /\ dmaStart # Stopped => CapturePosition = (now - dmaStart) % Ring
         /\ gKextConnection = "open" /\ stamp # NoStamp => LastWrap <= now - CapturePosition
<1>1. /\ now \in Nat /\ readAt \in Nat /\ readAt <= now /\ gHWClk.last \in 0 .. Ring - 1
      /\ dmaStart # Stopped => dmaStart \in Nat /\ dmaStart <= now
  BY DEF ClockInv, TimeKept, DmaKept, HistoryTypes
<1>2. CASE dmaStart = Stopped
  <2>1. CapturePosition = 0
    BY <1>2 DEF CapturePosition
  <2>2. readAt - gHWClk.last <= now
    BY <1>1
  <2> QED BY <1>1, <1>2, <2>1, <2>2 DEF LastWrap
<1>3. CASE dmaStart # Stopped
  <2> DEFINE y == now - dmaStart
             pos == y % Ring
  <2>1. y \in Nat /\ y <= now
    BY <1>1, <1>3
  <2> HIDE DEF y
  <2>2. pos \in 0 .. Ring - 1 /\ pos <= y
    BY <2>1, Divided
  <2>3. CapturePosition = pos
    BY <1>3 DEF CapturePosition, y
  <2>4. ASSUME gKextConnection = "open", stamp # NoStamp PROVE LastWrap <= now - pos
    <3>1. dmaStart >= readAt \/ gHWClk.last = (readAt - dmaStart) % Ring
      BY <1>3, <2>4 DEF ClockInv, LeadKept
    <3>2. CASE dmaStart >= readAt
      <4>1. pos <= now - dmaStart
        BY <2>2 DEF y
      <4> HIDE DEF pos
      <4>2. readAt - gHWClk.last <= now - pos
        BY <1>1, <1>3, <2>2, <3>2, <4>1
      <4> QED BY <4>2 DEF LastWrap
    <3>3. CASE dmaStart < readAt /\ gHWClk.last = (readAt - dmaStart) % Ring
      <4> DEFINE x == readAt - dmaStart
      <4>1. x \in Nat /\ x <= y
        BY <1>1, <1>3, <3>3 DEF y
      <4>2. x - (x % Ring) <= y - pos
        BY <2>1, <4>1, WrapsGoOn
      <4>3. gHWClk.last = x % Ring
        BY <3>3
      <4>4. x = readAt - dmaStart /\ y = now - dmaStart
        BY DEF y
      <4> HIDE DEF x, pos
      <4>5. readAt - gHWClk.last <= now - pos
        BY <1>1, <1>3, <2>2, <4>1, <4>2, <4>3, <4>4
      <4> QED BY <4>5 DEF LastWrap
    <3> QED BY <1>1, <1>3, <3>1, <3>2, <3>3
  <2> HIDE DEF pos
  <2>5. pos <= now
    BY <1>1, <2>1, <2>2
  <2>6. CapturePosition = (now - dmaStart) % Ring
    BY <2>3 DEF pos, y
  <2> QED BY <1>3, <2>2, <2>3, <2>4, <2>5, <2>6
<1> QED BY <1>2, <1>3

\* What a position does to the clock, field by field.
LEMMA ClockStep ==
  ASSUME ClockInv, NEW pos \in 0 .. Ring - 1, NEW obs, obs = theCurrentHostTime - pos,
         NEW new, new = ClockAfter(pos)
  PROVE  /\ new \in [wraps : Nat, last : 0 .. Ring - 1, wrapTime : Int, primed : BOOLEAN]
         /\ new.primed /\ new.last = pos
         /\ ~gHWClk.primed => new.wraps = gHWClk.wraps /\ new.wrapTime = obs
         /\ gHWClk.primed /\ pos >= gHWClk.last =>
              new.wraps = gHWClk.wraps /\ new.wrapTime = gHWClk.wrapTime
         /\ gHWClk.primed /\ pos < gHWClk.last =>
              /\ new.wraps = gHWClk.wraps + 1
              /\ new.wrapTime = Eighth(gHWClk.wrapTime + Ring, obs)
<1>1. /\ gHWClk \in [wraps : Nat, last : 0 .. Ring - 1, wrapTime : Int, primed : BOOLEAN]
      /\ theCurrentHostTime \in Nat
  BY DEF ClockInv, HistoryTypes, TimeKept
<1>2. obs \in Int
  BY <1>1
<1> DEFINE pred == gHWClk.wrapTime + Ring
           t == Eighth(pred, obs)
<1>3. pred \in Int /\ t \in Int
  <2>1. pred \in Int
    BY <1>1
  <2> HIDE DEF pred
  <2> QED BY <1>2, <2>1, EighthOfTheWay
<1>4. CASE ~gHWClk.primed
  <2>1. new = [gHWClk EXCEPT !.wrapTime = obs, !.primed = TRUE, !.last = pos]
    BY <1>4 DEF ClockAfter
  <2> QED BY <1>1, <1>2, <1>4, <2>1
<1>5. CASE gHWClk.primed /\ pos >= gHWClk.last
  <2>1. new = [gHWClk EXCEPT !.last = pos]
    BY <1>1, <1>5 DEF ClockAfter
  <2> QED BY <1>1, <1>5, <2>1
<1>6. CASE gHWClk.primed /\ pos < gHWClk.last
  <2>1. new = [[gHWClk EXCEPT !.wraps = @ + 1, !.wrapTime = t] EXCEPT !.last = pos]
    BY <1>6 DEF ClockAfter, Wrapped, Eighth
  <2>2. gHWClk.wraps + 1 \in Nat /\ gHWClk.wraps \in Nat
    BY <1>1
  <2>3. /\ new \in [wraps : Nat, last : 0 .. Ring - 1, wrapTime : Int, primed : BOOLEAN]
        /\ new.last = pos /\ new.wraps = gHWClk.wraps + 1 /\ new.wrapTime = t
    BY <1>1, <1>3, <2>1, <2>2
  <2>4. new.primed
    BY <1>1, <1>6, <2>1
  <2> QED BY <1>1, <1>6, <2>3, <2>4
<1> QED BY <1>1, <1>4, <1>5, <1>6

\* A time stamp from the driver never goes back, and keeps the clock's lead.
LEMMA HardwareStep ==
  ASSUME IOInv, ClockInv, NEW c \in Clients, StampHardware(c),
         NEW V, V = now - CapturePosition
  PROVE  /\ V \in Int
         /\ gHWClk'.wrapTime <= V + 7 * Ring
         /\ gHWClk.primed => /\ gHWClk'.wraps \in {gHWClk.wraps, gHWClk.wraps + 1}
                             /\ gHWClk'.wrapTime >= gHWClk.wrapTime
<1> DEFINE pos == CapturePosition
           obs == theCurrentHostTime - pos
           new == ClockAfter(pos)
           W == LastWrap
           old == gHWClk.wrapTime
<1>1. /\ theCurrentHostTime \in Nat /\ readAt \in Nat /\ now \in Nat
      /\ readAt <= theCurrentHostTime /\ theCurrentHostTime <= now
  BY DEF StampHardware, StampEnd, Goto, ClockInv, TimeKept
<1>2. pos \in 0 .. Ring - 1 /\ pos <= now
  BY PositionRead
<1>3. gKextConnection = "open" /\ gHWClk' = new
  BY DEF StampHardware
<1>4. Up
  BY EndOfStamp DEF StampHardware
<1>5. gHWClk.primed => stamp # NoStamp
  BY <1>3, <1>4 DEF ClockInv, SessionKept
<1>6. gHWClk.primed => W <= V /\ old <= W + 7 * Ring
  BY <1>3, <1>5, PositionRead DEF ClockInv, LeadKept
<1>7. W = readAt - gHWClk.last /\ gHWClk.last \in 0 .. Ring - 1 /\ old \in Int /\ gHWClk.wraps \in Nat
  BY DEF ClockInv, HistoryTypes, LastWrap
<1>8. /\ ~gHWClk.primed => new.wrapTime = obs
      /\ gHWClk.primed /\ pos >= gHWClk.last => new.wraps = gHWClk.wraps /\ new.wrapTime = old
      /\ gHWClk.primed /\ pos < gHWClk.last =>
           new.wraps = gHWClk.wraps + 1 /\ new.wrapTime = Eighth(old + Ring, obs)
  BY <1>2, ClockStep
<1>9. V = now - pos /\ obs = theCurrentHostTime - pos
  OBVIOUS
<1> HIDE DEF pos, obs, new, W, old
<1>10. V \in Int /\ W \in Int /\ obs \in Int /\ obs <= V
  BY <1>1, <1>2, <1>7, <1>9
<1>11. CASE ~gHWClk.primed
  <2>1. new.wrapTime <= V + 7 * Ring
    BY <1>8, <1>10, <1>11
  <2> QED BY <1>3, <1>10, <1>11, <2>1
<1>12. CASE gHWClk.primed /\ pos >= gHWClk.last
  <2>1. new.wrapTime <= V + 7 * Ring /\ new.wrapTime >= old /\ new.wraps = gHWClk.wraps
    BY <1>6, <1>7, <1>8, <1>10, <1>12
  <2> QED BY <1>3, <1>10, <2>1 DEF old
<1>13. CASE gHWClk.primed /\ pos < gHWClk.last
  <2>1. obs > W
    BY <1>1, <1>2, <1>7, <1>9, <1>13
  <2> DEFINE pred == old + Ring
             t == Eighth(pred, obs)
  <2>2. pred \in Int /\ pred <= obs + 8 * Ring
    BY <1>6, <1>7, <1>10, <1>13, <2>1
  <2>3. new.wrapTime = t /\ new.wraps = gHWClk.wraps + 1
    BY <1>8, <1>13
  <2>4. t \in Int /\ t >= pred - Ring /\ t <= obs + 7 * Ring
    BY <1>10, <2>2, EighthOfTheWay
  <2> HIDE DEF t
  <2>5. t >= old /\ t <= V + 7 * Ring
    BY <1>7, <1>10, <2>4
  <2> QED BY <1>3, <1>10, <2>3, <2>5 DEF old
<1>14. gHWClk.primed \in BOOLEAN /\ (pos >= gHWClk.last \/ pos < gHWClk.last)
  BY <1>2, <1>7 DEF ClockInv, HistoryTypes
<1> QED BY <1>11, <1>12, <1>13, <1>14

\* The clock of a session in which capture has not been down: one wrap is counted for each
\* frame 0 the DMA passes, and the correction stays between the prediction and the look.
LEMMA CleanStep ==
  ASSUME IOInv, ClockInv, NEW c \in Clients, StampHardware(c), ~outage,
         NEW V, V = now - CapturePosition
  PROVE  /\ CapturePosition = now % Ring
         /\ V = primedAt' + gHWClk'.wraps * Ring
         /\ gHWClk'.wrapTime \in (V - Latency) .. V
<1> DEFINE pos == CapturePosition
           obs == theCurrentHostTime - pos
           new == ClockAfter(pos)
           old == gHWClk.wrapTime
           last == gHWClk.last
           wraps == gHWClk.wraps
<1>1. /\ theCurrentHostTime \in Nat /\ readAt \in Nat /\ now \in Nat
      /\ readAt <= now /\ now - readAt < Ring
      /\ theCurrentHostTime <= now /\ now - theCurrentHostTime <= Latency
  BY DEF StampHardware, StampEnd, Goto, ClockInv, TimeKept
<1>2. /\ gKextConnection = "open" /\ gHWClk' = new
      /\ primedAt' = IF gHWClk.primed THEN primedAt ELSE now - pos
  BY DEF StampHardware
<1>3. Up
  BY EndOfStamp DEF StampHardware
<1>4. pos = now % Ring
  <2>1. dmaStart = 0 /\ dmaStart # Stopped
    BY <1>3 DEF ClockInv, CleanSession, Stopped
  <2>2. now - 0 = now
    BY <1>1
  <2> QED BY <2>1, <2>2, PositionRead
<1>5. pos \in 0 .. Ring - 1 /\ pos <= now
  BY PositionRead
<1>6. old \in Int /\ last \in 0 .. Ring - 1 /\ wraps \in Nat /\ primedAt \in Int
  BY DEF ClockInv, HistoryTypes
<1>7. gHWClk.primed => /\ last = readAt % Ring
                       /\ readAt - last = primedAt + wraps * Ring
                       /\ old \in (readAt - last - Latency) .. (readAt - last)
  BY <1>2, <1>3 DEF ClockInv, SessionKept, CleanKept, LastWrap
<1>8. ~gHWClk.primed => wraps = 0
  BY DEF ClockInv, SessionKept
<1>9. /\ ~gHWClk.primed => new.wraps = wraps /\ new.wrapTime = obs
      /\ gHWClk.primed /\ pos >= last => new.wraps = wraps /\ new.wrapTime = old
      /\ gHWClk.primed /\ pos < last => new.wraps = wraps + 1 /\ new.wrapTime = Eighth(old + Ring, obs)
  BY <1>5, ClockStep
<1>10. /\ pos >= readAt % Ring => now - pos = readAt - (readAt % Ring)
       /\ pos < readAt % Ring => now - pos = readAt - (readAt % Ring) + Ring
  BY <1>1, <1>4, OneWrapAtMost
<1>11. V = now - pos /\ obs = theCurrentHostTime - pos
  OBVIOUS
<1> HIDE DEF pos, obs, new, old, last, wraps
<1>12. V \in Int /\ obs \in Int /\ obs \in (V - Latency) .. V
  BY <1>1, <1>5, <1>11
<1> DEFINE since == primedAt'
           w == new.wraps
           t == new.wrapTime
           Goal == V = since + w * Ring /\ t \in (V - Latency) .. V
<1>13. ASSUME ~gHWClk.primed PROVE Goal
  <2>1. since = V /\ w = 0 /\ t = obs
    BY <1>2, <1>8, <1>9, <1>11, <1>13
  <2> HIDE DEF since, w, t
  <2>2. w * Ring = 0
    BY <2>1
  <2> QED BY <1>12, <2>1, <2>2
<1>14. ASSUME gHWClk.primed, pos >= last PROVE Goal
  <2>1. since = primedAt /\ w = wraps /\ t = old /\ V = readAt - last
    BY <1>2, <1>7, <1>9, <1>10, <1>11, <1>14
  <2> HIDE DEF since, w, t
  <2> QED BY <1>7, <1>14, <2>1
<1>15. ASSUME gHWClk.primed, pos < last PROVE Goal
  <2>1. /\ since = primedAt /\ w = wraps + 1 /\ t = Eighth(old + Ring, obs)
        /\ V = readAt - last + Ring
    BY <1>2, <1>7, <1>9, <1>10, <1>11, <1>15
  <2>2. (wraps + 1) * Ring = wraps * Ring + Ring /\ wraps * Ring \in Int
    BY <1>6
  <2>3. V = primedAt + (wraps + 1) * Ring
    BY <1>6, <1>7, <1>15, <2>1, <2>2
  <2> DEFINE pred == old + Ring
  <2>4. pred \in Int /\ pred \in (V - Latency) .. V
    BY <1>1, <1>6, <1>7, <1>15, <2>1
  <2> HIDE DEF pred
  <2>5. Eighth(pred, obs) \in (V - Latency) .. V
    <3> DEFINE e == Eighth(pred, obs)
    <3>1. /\ e \in Int
          /\ obs >= pred => pred <= e /\ e <= obs
          /\ obs < pred => obs <= e /\ e <= pred
      BY <1>12, <2>4, EighthOfTheWay
    <3> HIDE DEF e
    <3>2. e \in (V - Latency) .. V
      BY <1>12, <2>4, <3>1
    <3> QED BY <3>2 DEF e
  <2>6. t = Eighth(pred, obs)
    BY <2>1 DEF pred
  <2> HIDE DEF since, w, t
  <2> QED BY <2>1, <2>3, <2>5, <2>6
<1>16. gHWClk.primed \in BOOLEAN /\ (pos >= last \/ pos < last)
  BY <1>5, <1>6 DEF ClockInv, HistoryTypes
<1>17. Goal
  BY <1>13, <1>14, <1>15, <1>16
<1> QED BY <1>2, <1>4, <1>17 DEF pos

LEMMA HardwareKeepsClock ==
  ASSUME IOInv, ClockInv, NEW c \in Clients, StampHardware(c) PROVE ClockInv'
<1> DEFINE pos == CapturePosition
           V == now - pos
<1>1. /\ gKextConnection = "open" /\ StampEnd(c) /\ gHWClk' = ClockAfter(pos)
      /\ stamp' = [sample |-> gHWClk'.wraps, host |-> gHWClk'.wrapTime]
      /\ primedAt' = IF gHWClk.primed THEN primedAt ELSE V
      /\ UNCHANGED << gKextConnection, gAnchor, dmaStart, now, outage >>
  BY DEF StampHardware, StampEnd, lib, driver
<1>2. /\ Up /\ Up' /\ StampMutex' /\ TimeKept' /\ DmaKept' /\ CleanSession' /\ readAt' = now
      /\ \A d \in Clients : pc'[d] # "first"
      /\ \E d \in Clients : pc'[d] \in CountedAt
  BY <1>1, EndOfStamp
<1>3. /\ pos \in 0 .. Ring - 1 /\ pos <= now
      /\ dmaStart # Stopped => pos = (now - dmaStart) % Ring
  BY PositionRead
<1>4. /\ gHWClk' \in [wraps : Nat, last : 0 .. Ring - 1, wrapTime : Int, primed : BOOLEAN]
      /\ gHWClk'.primed /\ gHWClk'.last = pos
  BY <1>1, <1>3, ClockStep
<1>5. /\ V \in Int /\ gHWClk'.wrapTime <= V + 7 * Ring
      /\ ~outage => /\ pos = now % Ring /\ V = primedAt' + gHWClk'.wraps * Ring
                    /\ gHWClk'.wrapTime \in (V - Latency) .. V
  BY HardwareStep, CleanStep
<1>6. LastWrap' = V
  BY <1>2, <1>4 DEF LastWrap
<1>7. HistoryTypes'
  <2>1. primedAt' \in Int /\ outage' \in BOOLEAN
    BY <1>1, <1>5 DEF ClockInv, HistoryTypes
  <2>2. stamp' \in [sample : Int, host : Int]
    BY <1>1, <1>4
  <2> QED BY <1>1, <1>4, <2>1, <2>2 DEF ClockInv, HistoryTypes
<1> HIDE DEF pos, V
<1>8. stamp' # NoStamp
  BY <1>1, <1>4 DEF NoStamp
<1>9. SessionKept'
  BY <1>2, <1>4, <1>8 DEF SessionKept
<1>10. StampKept'
  BY <1>1, <1>4 DEF StampKept
<1>11. LeadKept' /\ CleanKept'
  BY <1>1, <1>2, <1>3, <1>4, <1>5, <1>6 DEF LeadKept, CleanKept
<1> QED BY <1>2, <1>7, <1>9, <1>10, <1>11 DEF ClockInv

LEMMA NextKeepsClock == IOInv /\ ClockInv /\ [Next]_vars => ClockInv'
<1> SUFFICES ASSUME IOInv, ClockInv, [Next]_vars PROVE ClockInv'
  OBVIOUS
<1>1. ASSUME NEW c \in Clients, StartIO(c) \/ StopIO(c) \/ GetZeroTimeStamp(c) \/ DoIOOperation(c)
      PROVE  ClockInv'
  BY <1>1, LocksKeepClock, FirstKeepsClock, CountKeepsClock, LastKeepsClock, UnmapKeepsClock,
     BeginKeepsClock, HardwareKeepsClock, FallbackKeepsClock DEF StartIO, StopIO, GetZeroTimeStamp
<1>2. CASE UNCHANGED vars
  BY <1>2, QuietKeepsClock DEF vars, quiet, lib, Up
<1> QED BY <1>1, <1>2, TickKeepsClock, DownKeepsClock, UpKeepsClock, CrashKeepsClock DEF Next

\* The inductive invariant of the clock.
THEOREM ClockInvariant == Spec => [](IOInv /\ ClockInv)
BY InitIOInv, NextKeepsInv, InitClockInv, NextKeepsClock, PTL DEF Spec

\* For any ring, any number of clients and any length of a session: unless capture was down in
\* between, the stamps count the rings that went by, and a ring's host time is at most a call's
\* length before the DMA passed frame 0 and never after it.
THEOREM StampsFollowDMA == Spec => []StampsFollowRing
<1>1. ASSUME ClockInv PROVE StampsFollowRing
  <2>1. SUFFICES ASSUME Clean PROVE LastWrap = primedAt + gHWClk.wraps * Ring
                                    /\ stamp.host \in (LastWrap - Latency) .. LastWrap
    BY DEF StampsFollowRing
  <2>2. stamp.host = gHWClk.wrapTime
    BY <1>1, <2>1 DEF Clean, ClockInv, StampKept
  <2> QED BY <1>1, <2>1, <2>2 DEF Clean, ClockInv, CleanKept
<1> QED BY <1>1, ClockInvariant, PTL

\* Within a session, through every outage, neither time of the stamps goes back, and none is
\* more than a ring of sample time after the one before.
THEOREM StampsForward == Spec => StampsMonotonic
<1> DEFINE Forward == stamp # NoStamp /\ stamp' # NoStamp /\ gKextConnection' # "dead" =>
                        /\ stamp'.sample - stamp.sample \in {0, 1}
                        /\ stamp'.host >= stamp.host
<1>1. ASSUME IOInv, ClockInv, [Next]_vars PROVE [Forward]_vars
  <2> SUFFICES ASSUME stamp # NoStamp, stamp' # NoStamp, gKextConnection' # "dead"
               PROVE  stamp'.sample - stamp.sample \in {0, 1} /\ stamp'.host >= stamp.host
    OBVIOUS
  <2>1. stamp \in [sample : Int, host : Int] /\ gHWClk \in [wraps : Nat, last : 0 .. Ring - 1,
                                                            wrapTime : Int, primed : BOOLEAN]
    BY <1>1 DEF ClockInv, HistoryTypes
  <2>2. CASE UNCHANGED stamp
    BY <2>1, <2>2
  <2>3. ASSUME NEW c \in Clients, StampHardware(c)
        PROVE  stamp'.sample - stamp.sample \in {0, 1} /\ stamp'.host >= stamp.host
    <3>1. /\ gHWClk.primed /\ stamp.sample = gHWClk.wraps /\ stamp.host = gHWClk.wrapTime
      BY <1>1, <2>3 DEF StampHardware, ClockInv, StampKept
    <3>2. stamp'.sample = gHWClk'.wraps /\ stamp'.host = gHWClk'.wrapTime
      BY <2>3 DEF StampHardware
    <3>3. gHWClk'.wraps \in {gHWClk.wraps, gHWClk.wraps + 1} /\ gHWClk'.wrapTime >= gHWClk.wrapTime
      BY <1>1, <2>3, <3>1, HardwareStep
    <3> QED BY <2>1, <3>1, <3>2, <3>3
  <2>4. ASSUME NEW c \in Clients, StampFallback(c)
        PROVE  stamp'.sample - stamp.sample \in {0, 1} /\ stamp'.host >= stamp.host
    <3> DEFINE n == gAnchor.stamps
               m == gAnchor'.stamps
               h == gAnchor.host
    <3>1. gKextConnection = "none"
      BY <1>1, <2>4 DEF StampFallback, StampEnd, lib, IOInv, IOTypes
    <3>2. stamp.sample = n /\ stamp.host = h + n * Ring /\ h \in Nat /\ n \in Nat
      BY <1>1, <3>1 DEF ClockInv, StampKept, HistoryTypes
    <3>3. stamp'.sample = m /\ stamp'.host = h + m * Ring /\ m \in {n, n + 1}
      BY <1>1, <2>4, FallbackStep
    <3> HIDE DEF n, m, h
    <3>4. (n + 1) * Ring = n * Ring + Ring /\ n * Ring \in Int
      BY <3>2
    <3>5. m - n \in {0, 1} /\ h + m * Ring >= h + n * Ring
      BY <3>2, <3>3, <3>4
    <3> QED BY <3>2, <3>3, <3>5
  <2>5. ASSUME NEW c \in Clients, StartIO(c) \/ StopIO(c) \/ StampBegin(c) \/ DoIOOperation(c)
        PROVE  UNCHANGED stamp
    BY <2>5 DEF StartIO, StopIO, StartIOLock, StartIOBump, StartIOFirst, StartIOCount, StopIOLock,
       StopIODrop, StopIOLast, StopIOUnmap, StampBegin, DoIOOperation, ReadBegin, ReadEnd, history
  <2>6. CASE Tick \/ DspDown \/ DspUp \/ KextDies \/ HostDies \/ UNCHANGED vars
    BY <2>2, <2>6 DEF Tick, DspDown, DspUp, KextDies, HostDies, vars, history
  <2> QED BY <1>1, <2>2, <2>3, <2>4, <2>5, <2>6 DEF Next, GetZeroTimeStamp
<1> QED BY <1>1, ClockInvariant, PTL DEF Spec, StampsMonotonic
-----------------------------------------------------------------------------
(* The plug-in implements one shared capture.                              *)

\* The ring is mapped through a connection, and for somebody.
MapKept ==
  gCaptureBuffer =>
    gKextConnection # "none" /\ \E c \in Clients : pc[c] \in CountedAt \cup {"first"}

SharedInv == IOInv /\ MapKept

sharedVars == << Users, gKextConnection, asked, gCaptureBuffer, Readers >>

UserAt == Started \cup {"first", "stop"}

\* A client that moves in or out of the users' places becomes a user or is none any more.
LEMMA UserMoves ==
  ASSUME IOTypes, NEW c \in Clients, NEW from, NEW to, Goto(c, from, to)
  PROVE  /\ (from \in UserAt <=> to \in UserAt) => Users' = Users
         /\ from \notin UserAt /\ to \in UserAt => c \notin Users /\ Users' = Users \cup {c}
         /\ from \in UserAt /\ to \notin UserAt => c \in Users /\ Users' = Users \ {c}
         /\ from # "reading" /\ to # "reading" => Readers' = Readers /\ c \notin Readers
         /\ from # "reading" /\ to = "reading" => Readers' = Readers \cup {c}
         /\ from = "reading" /\ to # "reading" => Readers' = Readers \ {c}
<1>1. /\ pc[c] = from /\ pc'[c] = to /\ \A d \in Clients \ {c} : pc'[d] = pc[d]
  BY DEF Goto, IOTypes
<1>2. \A d \in Clients : /\ d \in Users <=> pc[d] \in UserAt
                         /\ d \in Users' <=> pc'[d] \in UserAt
                         /\ d \in Readers <=> pc[d] = "reading"
                         /\ d \in Readers' <=> pc'[d] = "reading"
  BY DEF Users, Readers, UserAt
<1>3. Users \subseteq Clients /\ Users' \subseteq Clients
      /\ Readers \subseteq Clients /\ Readers' \subseteq Clients
  BY DEF Users, Readers
<1> QED BY <1>1, <1>2, <1>3

\* Where no first start and no last stop is under way the users are the counted clients.
LEMMA UsersCounted ==
  ASSUME IOInv, \A d \in Clients : pc[d] \notin {"first", "unmap"}
  PROVE  Users = Counted
BY DEF Users, Counted, IOInv, IOTypes, Started

\* Users come and go by the count, and a thread that holds the mutex is in no such half.
LEMMA HolderCounts ==
  ASSUME IOInv, NEW c \in Clients, pc[c] \in {"start", "stop"}
  PROVE  Users = Counted
<1>1. \A d \in Clients : pc[d] \notin {"first", "unmap"}
  BY HolderAlone DEF Holding
<1> QED BY <1>1, UsersCounted

\* The locks, the end of a first start, a time stamp, the clock and the DSP: nothing shared.
LEMMA LocksShareNothing ==
  ASSUME IOInv, NEW c \in Clients,
         StartIOLock(c) \/ StopIOLock(c) \/ StartIOCount(c) \/ GetZeroTimeStamp(c)
  PROVE  UNCHANGED sharedVars
<1>1. PICK from \in {"idle", "running", "first", "stamping"},
           to \in {"start", "stop", "running", "stamping"} :
        /\ Goto(c, from, to) /\ UNCHANGED << lib, asked >>
        /\ from = "idle" <=> to = "start"
  BY DEF StartIOLock, StopIOLock, StartIOCount, GetZeroTimeStamp, StampBegin, StampHardware,
         StampFallback, StampEnd, driver
<1>2. Users' = Users /\ Readers' = Readers
  BY <1>1, UserMoves DEF IOInv, UserAt, Started
<1> QED BY <1>1, <1>2 DEF sharedVars, lib

\* The first start.
LEMMA FirstShares == ASSUME SharedInv, NEW c \in Clients, StartIOFirst(c) PROVE Shared!FirstStart(c)
<1> USE DEF SharedInv
<1>1. /\ Goto(c, "start", "first") /\ gDevice_IOIsRunning = 0 /\ pc[c] = "start"
      /\ gKextConnection' \in IF gKextConnection = "none" THEN {"none", "open"}
                                                        ELSE {gKextConnection}
      /\ gCaptureBuffer' \in {gCaptureBuffer, gCaptureBuffer \/ gKextConnection' = "open"}
  BY DEF StartIOFirst, Goto
<1>2. Users = {}
  BY <1>1, HolderCounts, CountOfFew DEF IOInv, CountKept
<1>3. Users' = {c} /\ Readers' = Readers
  BY <1>1, <1>2, UserMoves DEF IOInv, UserAt, Started
<1>4. ~gCaptureBuffer
  <2>1. \A d \in Clients : pc[d] \notin CountedAt \cup {"first"}
    BY <1>1, <1>2, HolderAlone DEF Users, CountedAt, Started, Holding
  <2> QED BY <2>1 DEF MapKept
<1>5. ~asked
  BY <1>1, HolderAlone DEF IOInv, AskedKept, Holding
<1>6. asked' = (gKextConnection' = "open")
  BY <1>5 DEF StartIOFirst, KextStartCapture, IOInv, IOTypes
<1>7. gCaptureBuffer' => gKextConnection' = "open"
  BY <1>1, <1>4
<1> QED BY <1>1, <1>2, <1>3, <1>4, <1>6, <1>7 DEF Shared!FirstStart

\* A later start, and a stop that is not the last.
LEMMA BumpShares == ASSUME IOInv, NEW c \in Clients, StartIOBump(c) PROVE Shared!LaterStart(c)
<1>1. /\ Goto(c, "start", "running") /\ gDevice_IOIsRunning > 0 /\ pc[c] = "start"
      /\ UNCHANGED << lib, asked >>
  BY DEF StartIOBump, Goto, driver
<1>2. c \notin Users /\ Users' = Users \cup {c} /\ Readers' = Readers
  BY <1>1, UserMoves DEF IOInv, UserAt, Started
<1>3. Users # {}
  <2>1. Cardinality({}) = 0
    BY FS_EmptySet
  <2> QED BY <1>1, <2>1, HolderCounts DEF IOInv, CountKept
<1> QED BY <1>1, <1>2, <1>3 DEF Shared!LaterStart, lib

LEMMA DropShares == ASSUME IOInv, NEW c \in Clients, StopIODrop(c) PROVE Shared!EarlierStop(c)
<1>1. /\ Goto(c, "stop", "idle") /\ gDevice_IOIsRunning > 1 /\ pc[c] = "stop"
      /\ UNCHANGED << lib, asked >>
  BY DEF StopIODrop, Goto, driver
<1>2. c \in Users /\ c \notin Readers /\ Users' = Users \ {c} /\ Readers' = Readers
  BY <1>1, UserMoves DEF IOInv, UserAt, Started
<1>3. Users # {c}
  <2>1. Cardinality({c}) = 1
    BY FS_Singleton
  <2> QED BY <1>1, <2>1, HolderCounts DEF IOInv, CountKept
<1> QED BY <1>1, <1>2, <1>3 DEF Shared!EarlierStop, lib

\* The last stop, and the unmapping that follows it.
LEMMA LastShares == ASSUME IOInv, NEW c \in Clients, StopIOLast(c) PROVE Shared!LastStop(c)
<1>1. /\ Goto(c, "stop", "unmap") /\ gDevice_IOIsRunning = 1 /\ pc[c] = "stop" /\ UNCHANGED lib
      /\ asked' = FALSE
  BY DEF StopIOLast, Goto, KextStopCapture, IOInv, AskedKept, IOTypes
<1>2. c \in Users /\ c \notin Readers /\ Users' = Users \ {c} /\ Readers' = Readers
  BY <1>1, UserMoves DEF IOInv, UserAt, Started
<1>3. Users = {c}
  BY <1>1, <1>2, HolderCounts, CountOfFew DEF IOInv, CountKept
<1> QED BY <1>1, <1>2, <1>3 DEF Shared!LastStop, lib

LEMMA UnmapShares == ASSUME SharedInv, NEW c \in Clients, StopIOUnmap(c) PROVE Shared!Unmap
<1> USE DEF SharedInv
<1>1. /\ Goto(c, "unmap", "idle") /\ pc[c] = "unmap" /\ UNCHANGED << gKextConnection, asked >>
      /\ gCaptureBuffer' = FALSE
  BY DEF StopIOUnmap, Goto, driver, MapKept, IOInv, IOTypes
<1>2. Users' = Users /\ Readers' = Readers
  BY <1>1, UserMoves DEF IOInv, UserAt, Started
<1>3. Users = {}
  BY <1>1, AloneInRestart, HolderAlone DEF Users, CountedAt, Started, Holding
<1> QED BY <1>1, <1>2, <1>3 DEF Shared!Unmap

\* A read.
LEMMA ReadShares ==
  ASSUME IOInv, NEW c \in Clients, DoIOOperation(c) PROVE Shared!Read(c) \/ Shared!EndRead(c)
<1>1. CASE ReadBegin(c)
  <2>1. Goto(c, "running", "reading") /\ pc[c] = "running" /\ gCaptureBuffer
        /\ UNCHANGED << lib, asked >>
    BY <1>1 DEF ReadBegin, Goto, driver
  <2>2. Users' = Users /\ c \in Users /\ Readers' = Readers \cup {c}
    BY <2>1, UserMoves DEF IOInv, UserAt, Users, Started
  <2> QED BY <2>1, <2>2 DEF Shared!Read, lib
<1>2. CASE ReadEnd(c)
  <2>1. Goto(c, "reading", "running") /\ UNCHANGED << lib, asked >>
    BY <1>2 DEF ReadEnd, driver
  <2>2. Users' = Users /\ Readers' = Readers \ {c}
    BY <2>1, UserMoves DEF IOInv, UserAt, Started
  <2> QED BY <2>1, <2>2 DEF Shared!EndRead, lib
<1> QED BY <1>1, <1>2 DEF DoIOOperation

\* The driver's end, and the host's.
LEMMA DiesShares == ASSUME KextDies PROVE Shared!DriverGoes
BY DEF KextDies, Shared!DriverGoes, Users, Readers

LEMMA CrashShares == ASSUME IOInv, HostDies PROVE Shared!Crash
<1>1. \A c \in Clients : pc'[c] = "idle"
  BY DEF HostDies
<1>2. asked' = FALSE
  BY DEF HostDies, KextStopCapture, IOInv, AskedKept, IOTypes
<1>3. Users' = {} /\ Readers' = {}
  BY <1>1 DEF Users, Readers, Started
<1> QED BY <1>2, <1>3 DEF HostDies, Shared!Crash, Shared!Nothing
\* The mapping goes with the last client.
LEMMA NextKeepsMap == SharedInv /\ [Next]_vars => MapKept'
<1> SUFFICES ASSUME SharedInv, [Next]_vars, gCaptureBuffer' PROVE MapKept'
  BY DEF MapKept
<1> USE DEF SharedInv, MapKept
<1> DEFINE Somebody == \E c \in Clients : pc[c] \in CountedAt \cup {"first"}
<1>1. ASSUME NEW c \in Clients, StartIOFirst(c) PROVE MapKept'
  <2>1. Goto(c, "start", "first") /\ pc'[c] = "first"
    BY <1>1 DEF StartIOFirst, Goto, IOInv, IOTypes
  <2>2. gKextConnection' # "none"
    BY <1>1 DEF StartIOFirst, IOInv, IOTypes
  <2> QED BY <2>1, <2>2
<1>2. ASSUME NEW c \in Clients, StopIOUnmap(c) PROVE FALSE
  BY <1>2 DEF StopIOUnmap, IOInv, IOTypes
<1>3. CASE HostDies
  BY <1>3 DEF HostDies
<1>4. CASE KextDies \/ Tick \/ DspDown \/ DspUp \/ UNCHANGED vars
  BY <1>4 DEF KextDies, Tick, DspDown, DspUp, vars, lib
<1>5. ASSUME NEW c \in Clients, StopIODrop(c) PROVE MapKept'
  <2>1. Shared!EarlierStop(c)
    BY <1>5, DropShares
  <2>2. PICK d \in Clients : d \in Users'
    BY <2>1 DEF Shared!EarlierStop, Users
  <2>3. pc'[d] \in CountedAt \cup {"first"} /\ UNCHANGED lib
    BY <1>5, <2>2 DEF Users, CountedAt, StopIODrop
  <2> QED BY <2>3 DEF lib
<1>6. ASSUME NEW c \in Clients,
             \/ StartIOLock(c) \/ StartIOBump(c) \/ StartIOCount(c) \/ StopIOLock(c)
             \/ StopIOLast(c) \/ GetZeroTimeStamp(c) \/ DoIOOperation(c)
      PROVE  MapKept'
  <2>1. PICK from, to : /\ Goto(c, from, to) /\ UNCHANGED lib
                        /\ from \in CountedAt \cup {"first"} => to \in CountedAt \cup {"first"}
    BY <1>6 DEF StartIOLock, StartIOBump, StartIOCount, StopIOLock, StopIOLast,
           GetZeroTimeStamp, StampBegin, StampHardware, StampFallback, StampEnd,
           DoIOOperation, ReadBegin, ReadEnd, CountedAt, Started
  <2>2. \A d \in Clients : pc[d] \in CountedAt \cup {"first"} => pc'[d] \in CountedAt \cup {"first"}
    BY <2>1 DEF Goto, IOInv, IOTypes
  <2> QED BY <2>1, <2>2 DEF lib
<1> QED BY <1>1, <1>2, <1>3, <1>4, <1>5, <1>6 DEF Next, StartIO, StopIO

LEMMA SharedInvariant == Spec => []SharedInv
<1>1. Init => SharedInv
  BY InitIOInv DEF Init, InitPlugin, SharedInv, MapKept
<1>2. SharedInv /\ [Next]_vars => SharedInv'
  BY NextKeepsInv, NextKeepsMap DEF SharedInv
<1> QED BY <1>1, <1>2, PTL DEF Spec

\* Every step of the plug-in is one of the shared capture, or changes nothing of it.
LEMMA NextShares == SharedInv /\ [Next]_vars => [Shared!Next]_(Shared!vars)
<1> SUFFICES ASSUME SharedInv, [Next]_vars PROVE Shared!Next \/ UNCHANGED sharedVars
  BY DEF Shared!vars, sharedVars
<1>1. IOInv
  BY DEF SharedInv
<1>2. ASSUME NEW c \in Clients, StartIO(c) \/ StopIO(c) \/ GetZeroTimeStamp(c) \/ DoIOOperation(c)
      PROVE  Shared!Next \/ UNCHANGED sharedVars
  BY <1>1, <1>2, LocksShareNothing, FirstShares, BumpShares, DropShares, LastShares, UnmapShares,
     ReadShares DEF StartIO, StopIO, Shared!Next
<1>3. CASE Tick \/ DspDown \/ DspUp \/ UNCHANGED vars
  BY <1>3 DEF Tick, DspDown, DspUp, vars, lib, driver, sharedVars, Users, Readers
<1> QED BY <1>1, <1>2, <1>3, DiesShares, CrashShares DEF Next, Shared!Next

\* Seen from any number of clients the count, the mutex and the calls in two halves are one
\* shared capture: the first start and the last stop alone open, map, start and stop.
THEOREM ImplementsSharedCapture == Spec => CaptureIsShared
<1>1. Init => Shared!Init
  BY DEF Init, InitPlugin, Shared!Init, Shared!Nothing, Users, Readers, Started
<1> QED BY <1>1, SharedInvariant, NextShares, PTL DEF Spec, CaptureIsShared, Shared!Spec
\* The shared capture is there exactly while somebody has the device and the driver is there,
\* with no exception for a call half done, and no reader is left without a ring.
THEOREM CaptureIsForUsers == Spec => []Shared!CapturesForUsers
<1> USE DEF Shared!CapturesForUsers
<1>1. Shared!Init => Shared!CapturesForUsers
  BY DEF Shared!Init, Shared!Nothing
<1>2. Shared!CapturesForUsers /\ [Shared!Next]_(Shared!vars) => Shared!CapturesForUsers'
  <2> SUFFICES ASSUME Shared!CapturesForUsers, [Shared!Next]_(Shared!vars)
               PROVE  Shared!CapturesForUsers'
    OBVIOUS
  <2>1. ASSUME NEW c \in Clients, Shared!FirstStart(c) PROVE Shared!CapturesForUsers'
    BY <2>1 DEF Shared!FirstStart
  <2>2. ASSUME NEW c \in Clients, Shared!LaterStart(c) PROVE Shared!CapturesForUsers'
    BY <2>2 DEF Shared!LaterStart
  <2>3. ASSUME NEW c \in Clients, Shared!EarlierStop(c) PROVE Shared!CapturesForUsers'
    BY <2>3 DEF Shared!EarlierStop
  <2>4. ASSUME NEW c \in Clients, Shared!LastStop(c) PROVE Shared!CapturesForUsers'
    BY <2>4 DEF Shared!LastStop
  <2>5. ASSUME NEW c \in Clients, Shared!Read(c) \/ Shared!EndRead(c)
        PROVE  Shared!CapturesForUsers'
    BY <2>5 DEF Shared!Read, Shared!EndRead
  <2>6. CASE Shared!Unmap \/ Shared!DriverGoes
    BY <2>6 DEF Shared!Unmap, Shared!DriverGoes
  <2>7. CASE Shared!Crash
    BY <2>7 DEF Shared!Crash, Shared!Nothing
  <2>8. CASE UNCHANGED Shared!vars
    BY <2>8 DEF Shared!vars
  <2> QED BY <2>1, <2>2, <2>3, <2>4, <2>5, <2>6, <2>7, <2>8 DEF Shared!Next
<1> QED BY <1>1, <1>2, ImplementsSharedCapture, PTL DEF CaptureIsShared, Shared!Spec
=============================================================================
