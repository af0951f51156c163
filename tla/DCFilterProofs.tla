--------------------------- MODULE DCFilterProofs ---------------------------
(***************************************************************************)
(* The types of the filter's state, that no frame goes into it twice, and  *)
(* that a client alone is filtered without a break, for any clients, ring  *)
(* and block sizes.                                                        *)
(***************************************************************************)
EXTENDS DCFilter, TLAPS

\* Quotient and remainder.
LEMMA Divided ==
  ASSUME NEW R \in Nat \ {0}, NEW x \in Nat
  PROVE  /\ x \div R \in Int /\ x % R \in 0 .. R - 1 /\ x = R * (x \div R) + (x % R)
<1>1. x \div R \in Int
  OBVIOUS
<1>2. x % R \in 0 .. R - 1
  OBVIOUS
<1>3. x = R * (x \div R) + (x % R)
  OBVIOUS
<1> QED BY <1>1, <1>2, <1>3

\* Multiples of the ring that differ by less than the ring are the same.
LEMMA Multiples ==
  ASSUME NEW R \in Nat \ {0}, NEW p \in Int, NEW q \in Int, R * p < R * q + R
  PROVE  p <= q
<1> SUFFICES ASSUME p >= q + 1 PROVE FALSE
  OBVIOUS
<1>1. R * p >= R * (q + 1)
  OBVIOUS
<1>2. R * (q + 1) = R * q + R
  OBVIOUS
<1> QED BY <1>1, <1>2

LEMMA Remainder ==
  ASSUME NEW R \in Nat \ {0}, NEW x \in Nat, NEW k \in Int, NEW r \in 0 .. R - 1, x = R * k + r
  PROVE  x % R = r
<1> DEFINE q == x \div R
           s == x % R
<1>1. q \in Int /\ s \in 0 .. R - 1 /\ x = R * q + s
  BY Divided
<1> HIDE DEF q, s
<1>2. R * q \in Int /\ R * k \in Int
  BY <1>1
<1>3. R * q < R * k + R /\ R * k < R * q + R
  BY <1>1, <1>2
<1>4. q = k
  BY <1>1, <1>3, Multiples
<1> QED BY <1>1, <1>2, <1>4 DEF s

\* Counting on from a place of the ring.
LEMMA CountedOn ==
  ASSUME NEW R \in Nat \ {0}, NEW f \in Nat, NEW n \in Nat
  PROVE  ((f % R) + n) % R = (f + n) % R
<1> DEFINE p == f \div R
           y == (f % R) + n
           k == y \div R
           r == y % R
<1>1. p \in Int /\ f % R \in Nat /\ f = R * p + (f % R)
  BY Divided
<1>2. y \in Nat /\ f + n = R * p + y
  BY <1>1
<1>3. k \in Int /\ r \in 0 .. R - 1 /\ y = R * k + r
  BY <1>2, Divided
<1> HIDE DEF p, y, k, r
<1>4. R * p + R * k = R * (p + k)
  BY <1>1, <1>3
<1>5. f + n = R * (p + k) + r /\ p + k \in Int
  BY <1>1, <1>2, <1>3, <1>4
<1> DEFINE z == f + n
<1>6. z \in Nat /\ z = R * (p + k) + r
  BY <1>5
<1> HIDE DEF z
<1>7. z % R = r
  BY <1>3, <1>5, <1>6, Remainder
<1> QED BY <1>7 DEF r, y, z

\* A frame at the place of another one in the ring, and not a whole ring behind it, is not
\* behind it.
LEMMA SamePlace ==
  ASSUME NEW R \in Nat \ {0}, NEW f \in Nat, NEW g \in Nat, f % R = g % R, f > g - R
  PROVE  f >= g
<1> DEFINE p == f \div R
           q == g \div R
           r == f % R
<1>1. p \in Int /\ q \in Int /\ r \in Int /\ f = R * p + r /\ g = R * q + r
  BY Divided
<1> HIDE DEF p, q, r
<1>2. R * p \in Int /\ R * q \in Int
  BY <1>1
<1>3. R * q < R * p + R
  BY <1>1, <1>2
<1>4. q <= p
  BY <1>1, <1>3, Multiples
<1>5. R * q <= R * p
  BY <1>1, <1>4
<1> QED BY <1>1, <1>2, <1>5

-----------------------------------------------------------------------------
\* Every client reads in the ring; the kept state is of a frame the DMA has written, and of the
\* ring's place it is ready for.
FilterInv ==
  /\ TypeOK
  /\ \A c \in Clients : at[c] > head - Ring /\ at[c] <= head
  /\ dcState <= head
  /\ IF dcState = Zero THEN dcNextFrame = kDCSeedPending ELSE dcNextFrame = dcState % Ring

LEMMA InitFilter == Init => FilterInv
<1> SUFFICES ASSUME Init PROVE FilterInv
  OBVIOUS
<1>1. at \in [Clients -> 0 .. Horizon] /\ smooth \in [Clients -> BOOLEAN] /\ head \in 0 .. Horizon
  BY FilterAssumption DEF Init
<1>2. TypeOK
  BY <1>1 DEF Init, TypeOK
<1>3. \A c \in Clients : at[c] > head - Ring /\ at[c] <= head
  BY FilterAssumption DEF Init
<1> QED BY <1>2, <1>3 DEF Init, FilterInv, Zero

LEMMA StartKeepsFilter == ASSUME FilterInv, PerformAudioEngineStart PROVE FilterInv'
<1>1. head' \in 0 .. Horizon /\ running' \in BOOLEAN
  BY FilterAssumption DEF FilterInv, TypeOK, PerformAudioEngineStart
<1>2. /\ at' \in [Clients -> 0 .. Horizon]
      /\ \A c \in Clients : at'[c] > head' - Ring /\ at'[c] <= head'
  BY DEF PerformAudioEngineStart
<1>3. dcNextFrame' = kDCSeedPending /\ dcState' = Zero
  BY DEF PerformAudioEngineStart, ResetFilter
<1>4. /\ block' \in [Clients -> Blocks] /\ readers' = {} /\ skipped' = {}
      /\ smooth' \in [Clients -> BOOLEAN]
  BY FilterAssumption DEF PerformAudioEngineStart
<1>5. TypeOK'
  BY <1>1, <1>2, <1>3, <1>4 DEF TypeOK
<1> QED BY <1>1, <1>2, <1>3, <1>5 DEF FilterInv, Zero

\* A client's block: kept only where the state stands, and then the state moves on to the
\* frame after it, which is past the one it stood at.
LEMMA ConvertKeepsFilter ==
  ASSUME FilterInv, NEW c \in Clients, ConvertInputSamples(c)
  PROVE  FilterInv' /\ (dcState' # dcState => dcState' > dcState)
<1> DEFINE n == block[c]
           first == at[c] % Ring
<1>0. Ring \in Nat \ {0} /\ Horizon \in Nat /\ block[c] \in Blocks /\ Blocks \subseteq 1 .. Ring
  BY FilterAssumption DEF FilterInv, TypeOK
<1>1. /\ n \in Nat \ {0} /\ at[c] \in Nat /\ head \in Nat /\ at[c] + n <= head
      /\ at[c] > head - Ring /\ head <= Horizon /\ Ring \in Nat \ {0} /\ Horizon \in Nat
  <2>0. block[c] \in 1 .. Ring
    BY <1>0
  <2>1. n \in Nat \ {0} /\ n = block[c]
    BY <1>0, <2>0
  <2> HIDE DEF n
  <2>2. at[c] + n <= head
    BY <2>1 DEF ConvertInputSamples
  <2>3. at[c] \in 0 .. Horizon /\ head \in 0 .. Horizon /\ at[c] > head - Ring
    BY DEF FilterInv, TypeOK
  <2> QED BY <1>0, <2>1, <2>2, <2>3
<1>2. first \in 0 .. Ring - 1 /\ After(first, n) = (at[c] + n) % Ring
  BY <1>1, Divided, CountedOn DEF After
<1> DEFINE z == at[c] + n
           MovedOn ==
             /\ dcState' \in 0 .. Horizon /\ dcState' <= head /\ dcState' # Zero
             /\ dcNextFrame' = dcState' % Ring /\ dcNextFrame' \in 0 .. Ring - 1
             /\ dcState' > dcState
<1>3. z \in 0 .. Horizon /\ z <= head /\ z # Zero /\ z % Ring \in 0 .. Ring - 1
  <2>1. z \in Nat /\ z <= head /\ z # Zero
    BY <1>1 DEF Zero
  <2> HIDE DEF z
  <2> QED BY <1>1, <2>1, Divided
<1>4. ASSUME Contiguous(first) PROVE z > dcState
  <2>1. CASE dcState = Zero
    BY <1>1, <2>1 DEF Zero
  <2>2. CASE dcState # Zero
    <3>1. dcState \in Nat /\ dcState <= head /\ dcNextFrame = dcState % Ring
      BY <1>1, <2>2 DEF FilterInv, TypeOK
    <3>2. dcNextFrame # kDCSeedPending
      <4>1. dcState % Ring \in 0 .. Ring - 1
        BY <1>1, <3>1, Divided
      <4> QED BY <1>1, <3>1, <4>1 DEF kDCSeedPending
    <3>3. at[c] % Ring = dcState % Ring
      BY <1>4, <3>1, <3>2 DEF Contiguous, Expected
    <3>4. at[c] > dcState - Ring
      BY <1>1, <3>1
    <3>5. at[c] >= dcState
      BY <1>1, <3>1, <3>3, <3>4, SamePlace
    <3> QED BY <1>1, <3>1, <3>5
  <2> QED BY <2>1, <2>2
<1>5. MovedOn \/ UNCHANGED filter
  <2>1. CASE Contiguous(first)
    <3>1. dcNextFrame' = z % Ring /\ dcState' = z
      BY <1>2, <2>1 DEF ConvertInputSamples
    <3>2. z > dcState
      BY <1>4, <2>1
    <3> HIDE DEF z
    <3> QED BY <1>3, <3>1, <3>2
  <2>2. CASE ~Contiguous(first)
    BY <2>2 DEF ConvertInputSamples, Contiguous, Expected, filter
  <2> QED BY <2>1, <2>2
<1>6. /\ at' = [at EXCEPT ![c] = z] /\ UNCHANGED << running, head, block, skipped >>
      /\ readers' = readers \cup {c} /\ smooth' \in [Clients -> BOOLEAN]
  <2>1. smooth \in [Clients -> BOOLEAN]
    BY DEF FilterInv, TypeOK
  <2> QED BY <2>1 DEF ConvertInputSamples, engine
<1>7. /\ at' \in [Clients -> 0 .. Horizon]
      /\ \A d \in Clients : at'[d] > head - Ring /\ at'[d] <= head
  <2>1. z > head - Ring
    BY <1>1
  <2> HIDE DEF z
  <2> QED BY <1>3, <1>6, <2>1 DEF FilterInv, TypeOK
<1> HIDE DEF n, z, first
<1>8. dcNextFrame' \in {kDCSeedPending} \cup 0 .. Ring - 1 /\ dcState' \in {Zero} \cup 0 .. Horizon
  BY <1>5 DEF FilterInv, TypeOK, filter
<1>9. TypeOK'
  BY <1>6, <1>7, <1>8 DEF FilterInv, TypeOK
<1>10. /\ dcState' <= head'
       /\ IF dcState' = Zero THEN dcNextFrame' = kDCSeedPending ELSE dcNextFrame' = dcState' % Ring
  BY <1>5, <1>6 DEF FilterInv, filter
<1>11. FilterInv'
  BY <1>6, <1>7, <1>9, <1>10 DEF FilterInv
<1> QED BY <1>5, <1>11 DEF filter

\* The engine's stop, the DMA and a client that goes on elsewhere leave the state alone.
LEMMA ElsewhereKeepsFilter ==
  ASSUME FilterInv,
         \/ PerformAudioEngineStop \/ Capture \/ UNCHANGED vars
         \/ \E c \in Clients : Skip(c)
  PROVE  FilterInv' /\ UNCHANGED filter
<1>0. UNCHANGED filter
  BY DEF PerformAudioEngineStop, Capture, Skip, vars
<1>1. CASE PerformAudioEngineStop \/ UNCHANGED vars
  <2>1. /\ running' \in BOOLEAN
        /\ UNCHANGED << head, block, at, dcNextFrame, dcState, readers, skipped, smooth >>
    BY <1>1 DEF PerformAudioEngineStop, vars, engine, filter, history, FilterInv, TypeOK
  <2> QED BY <1>0, <2>1 DEF FilterInv, TypeOK
<1>2. CASE Capture
  <2>1. /\ head' = head + 1 /\ head < Horizon /\ \A c \in Clients : at[c] > head + 1 - Ring
        /\ UNCHANGED << running, block, at, dcNextFrame, dcState, readers, skipped, smooth >>
    BY <1>2 DEF Capture, filter, history
  <2>2. TypeOK'
    BY <2>1, FilterAssumption DEF FilterInv, TypeOK
  <2>3. \A c \in Clients : at'[c] > head' - Ring /\ at'[c] <= head'
    BY <2>1, FilterAssumption DEF FilterInv, TypeOK
  <2>4. dcState' <= head'
    BY <2>1, FilterAssumption DEF FilterInv, TypeOK, Zero
  <2> QED BY <1>0, <2>1, <2>2, <2>3, <2>4 DEF FilterInv
<1>3. ASSUME NEW c \in Clients, Skip(c) PROVE FilterInv'
  <2>1. PICK f \in 0 .. Horizon : InRing(f) /\ at' = [at EXCEPT ![c] = f]
    BY <1>3 DEF Skip
  <2>2. UNCHANGED << running, head, block, dcNextFrame, dcState, readers, smooth >>
        /\ skipped' = skipped \cup (readers \cap {c})
    BY <1>3 DEF Skip, engine, filter
  <2>3. TypeOK'
    BY <2>1, <2>2 DEF FilterInv, TypeOK
  <2>4. \A d \in Clients : at'[d] > head' - Ring /\ at'[d] <= head'
    BY <2>1, <2>2 DEF FilterInv, TypeOK, InRing
  <2> QED BY <2>2, <2>3, <2>4 DEF FilterInv
<1> QED BY <1>0, <1>1, <1>2, <1>3

LEMMA FilterInvariant == Spec => []FilterInv
<1>1. FilterInv /\ [Next]_vars => FilterInv'
  BY StartKeepsFilter, ConvertKeepsFilter, ElsewhereKeepsFilter DEF Next
<1> QED BY <1>1, InitFilter, PTL DEF Spec

\* The place the state is ready for is one of the ring, and the clients stay in the ring.
THEOREM FilterTypes == Spec => []TypeOK
BY FilterInvariant, PTL DEF FilterInv

\* Whatever blocks however many clients read, of whatever ring, no frame goes into the kept
\* state twice nor before an earlier one.
THEOREM SteppedOnce == Spec => NoDoubleStep
<1>1. FilterInv /\ [Next]_vars => [running /\ dcState' # dcState => dcState' > dcState]_vars
  <2> SUFFICES ASSUME FilterInv, [Next]_vars, running, dcState' # dcState
               PROVE  dcState' > dcState
    OBVIOUS
  <2>1. PICK c \in Clients : ConvertInputSamples(c)
    <3>1. ~PerformAudioEngineStart
      BY DEF PerformAudioEngineStart
    <3> QED BY <3>1, ElsewhereKeepsFilter DEF Next, filter
  <2> QED BY <2>1, ConvertKeepsFilter
<1> QED BY <1>1, FilterInvariant, PTL DEF Spec, NoDoubleStep
-----------------------------------------------------------------------------
\* Before the first block of a start the kept state is new; while one client has read, and has
\* not skipped, it is ready for that client's next block.
LoneReader ==
  /\ readers = {} => dcState = Zero
  /\ \A c \in Clients : readers = {c} /\ c \notin skipped => dcState = at[c] /\ smooth[c]

\* The only reader's block is the one the state stands at.
LEMMA LoneReaderConverts ==
  ASSUME FilterInv, LoneReader, NEW c \in Clients, ConvertInputSamples(c)
  PROVE  LoneReader'
<1>1. /\ readers' = readers \cup {c} /\ UNCHANGED skipped
      /\ skipped \subseteq readers /\ at[c] \in Nat
      /\ at \in [Clients -> 0 .. Horizon] /\ smooth \in [Clients -> BOOLEAN]
  BY FilterAssumption DEF ConvertInputSamples, FilterInv, TypeOK
<1> SUFFICES ASSUME NEW d \in Clients, readers' = {d}, d \notin skipped'
             PROVE  dcState' = at'[d] /\ smooth'[d]
  BY <1>1 DEF LoneReader
<1>2. d = c /\ (readers = {} \/ (readers = {c} /\ c \notin skipped))
  BY <1>1
<1>3. dcState = IF c \in readers THEN at[c] ELSE Zero
  BY <1>2 DEF LoneReader
<1>4. Contiguous(at[c] % Ring)
  <2>1. CASE readers = {}
    BY <1>3, <2>1 DEF FilterInv, Contiguous, Expected
  <2>2. CASE readers # {}
    <3>1. dcState = at[c] /\ dcState # Zero
      BY <1>1, <1>2, <1>3, <2>2 DEF Zero
    <3>2. dcNextFrame = at[c] % Ring
      BY <3>1 DEF FilterInv
    <3> QED BY <3>2 DEF Contiguous, Expected
  <2> QED BY <2>1, <2>2
<1>5. dcState' = at[c] + block[c] /\ at' = [at EXCEPT ![c] = at[c] + block[c]]
  BY <1>4 DEF ConvertInputSamples
<1>6. at'[c] = at[c] + block[c]
  BY <1>1, <1>5
<1>7. smooth'[c] = (dcState = IF c \in readers THEN at[c] ELSE Zero)
  BY <1>1 DEF ConvertInputSamples
<1>8. smooth'[c]
  BY <1>3, <1>7
<1> QED BY <1>2, <1>5, <1>6, <1>8

\* A start makes the state new; another client, or one that skips, does not count.
LEMMA LoneReaderElsewhere ==
  ASSUME FilterInv, LoneReader,
         \/ PerformAudioEngineStart \/ PerformAudioEngineStop \/ Capture \/ UNCHANGED vars
         \/ \E c \in Clients : Skip(c)
  PROVE  LoneReader'
<1>1. CASE PerformAudioEngineStart
  BY <1>1 DEF PerformAudioEngineStart, ResetFilter, LoneReader
<1>2. CASE PerformAudioEngineStop \/ Capture \/ UNCHANGED vars
  BY <1>2 DEF PerformAudioEngineStop, Capture, vars, engine, filter, history, LoneReader
<1>3. ASSUME NEW c \in Clients, Skip(c) PROVE LoneReader'
  <2>1. /\ UNCHANGED << filter, readers, smooth >> /\ skipped' = skipped \cup (readers \cap {c})
        /\ \E f \in 0 .. Horizon : at' = [at EXCEPT ![c] = f]
    BY <1>3 DEF Skip
  <2>2. \A d \in Clients : d # c => at'[d] = at[d]
    BY <2>1 DEF FilterInv, TypeOK
  <2>3. ASSUME NEW d \in Clients, readers' = {d}, d \notin skipped'
        PROVE  dcState' = at'[d] /\ smooth'[d]
    <3>1. d # c /\ d \notin skipped /\ readers = {d}
      BY <2>1, <2>3
    <3> QED BY <2>1, <2>2, <3>1 DEF LoneReader, filter
  <2> QED BY <2>1, <2>3 DEF LoneReader, filter
<1> QED BY <1>1, <1>2, <1>3

\* A client that is the only one to read since the engine started, and has not been overloaded,
\* has every block filtered by a state ready for it: from wherever in the ring it began, over
\* the ring's end, for every ring and block size.
THEOREM LoneClientSmooth == Spec => []SingleClientSmooth
<1>1. Init => LoneReader
  BY DEF Init, LoneReader
<1>2. FilterInv /\ LoneReader /\ [Next]_vars => LoneReader'
  BY LoneReaderConverts, LoneReaderElsewhere DEF Next
<1>3. LoneReader => SingleClientSmooth
  BY DEF LoneReader, SingleClientSmooth
<1> QED BY <1>1, <1>2, <1>3, FilterInvariant, PTL DEF Spec
=============================================================================
