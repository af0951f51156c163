------------------------------- MODULE DCFilter -------------------------------
(***************************************************************************)
(* LatSOFKernelAudioEngine::convertInputSamples: the samples the capture   *)
(* DMA left in the ring go to each client through one high-pass filter,    *)
(* whose state is kept from block to block.  IOAudioFamily calls it once   *)
(* per client and block, one call at a time.  A client reads its blocks    *)
(* one after the other, at its own pace within the ring, and after an      *)
(* overload goes on somewhere else.                                        *)
(*                                                                         *)
(* A filter state is named by the frame it is ready for: the one after the *)
(* last it was fed.  Frames are counted from the start of the DMA; the     *)
(* code sees them modulo the ring.                                         *)
(***************************************************************************)
EXTENDS Integers, FiniteSets

CONSTANTS
  Clients,
  Ring,        \* frames of the ring (kEngineFrames)
  Blocks,      \* block sizes the clients may use
  Horizon      \* bound: frames the DMA writes

ASSUME FilterAssumption ==
  /\ Ring \in Nat \ {0} /\ Horizon \in Nat
  /\ Blocks \subseteq 1 .. Ring /\ Blocks # {}

VARIABLES
  running, head,        \* is the engine running, and the frame the DMA writes next
  block, at,            \* each client's block size and next frame
  dcNextFrame,          \* ring position the kept state is ready for, or kDCSeedPending
  dcState,              \* the kept state (dcX1, dcY1): Zero, or the frame it is ready for
  readers, skipped,     \* of this start: the clients that read, and those that skipped since
  smooth                \* did a client's last block go through a state ready for it?

engine == << running, head >>
filter == << dcNextFrame, dcState >>
history == << readers, skipped, smooth >>
vars == << engine, block, at, filter, history >>

kDCSeedPending == -1
Zero == -1

\* Frames that are in the ring, and the one about to be.
InRing(f) == f > head - Ring /\ f <= head

Init ==
  /\ running = FALSE /\ head = 0
  /\ block \in [Clients -> Blocks] /\ at = [c \in Clients |-> 0]
  /\ dcNextFrame = kDCSeedPending /\ dcState = Zero
  /\ readers = {} /\ skipped = {}
  /\ smooth = [c \in Clients |-> TRUE]

-----------------------------------------------------------------------------
ResetFilter == dcNextFrame' = kDCSeedPending /\ dcState' = Zero

\* performAudioEngineStart: the DMA starts at frame 0, or was running already.
PerformAudioEngineStart ==
  /\ ~running /\ running' = TRUE
  /\ head' \in {0, head}
  /\ block' \in [Clients -> Blocks]
  /\ at' \in [Clients -> {f \in 0 .. Horizon : f > head' - Ring /\ f <= head'}]
  /\ ResetFilter
  /\ readers' = {} /\ skipped' = {}
  /\ smooth' = [c \in Clients |-> TRUE]

PerformAudioEngineStop ==
  /\ running /\ running' = FALSE
  /\ UNCHANGED << head, block, at, filter, history >>

\* Mutant: the expected frame starts at 0, as before "round 2".
ExpectedFromZero(first) == IF dcNextFrame = kDCSeedPending THEN 0 ELSE dcNextFrame

\* The frame a client must read to go on where the state stands; the first one seeds it.
Expected(first) == IF dcNextFrame = kDCSeedPending THEN first ELSE dcNextFrame

\* Mutant: every client's block is kept.
ContiguousAlways(first) == TRUE

Contiguous(first) == first = Expected(first)

After(first, n) == (first + n) % Ring

\* convertInputSamples: the block goes through a copy of the kept state; the copy is kept if
\* the block was the one the state was ready for.
ConvertInputSamples(c) ==
  LET first == at[c] % Ring
  IN /\ running /\ at[c] + block[c] <= head
     /\ at' = [at EXCEPT ![c] = @ + block[c]]
     /\ IF Contiguous(first)
          THEN dcNextFrame' = After(first, block[c]) /\ dcState' = at[c] + block[c]
          ELSE dcNextFrame' = Expected(first) /\ UNCHANGED dcState
     /\ smooth' = [smooth EXCEPT ![c] = dcState = IF c \in readers THEN at[c] ELSE Zero]
     /\ readers' = readers \cup {c}
     /\ UNCHANGED << engine, block, skipped >>

-----------------------------------------------------------------------------
\* External: the DMA and the clients.
\* The DMA writes a frame.
Capture ==
  /\ running /\ head < Horizon
  /\ \A c \in Clients : at[c] > head + 1 - Ring
  /\ head' = head + 1
  /\ UNCHANGED << running, block, at, filter, history >>

\* An overload, or a client that comes late: it goes on elsewhere in the ring.
Skip(c) ==
  /\ running
  /\ \E f \in 0 .. Horizon : InRing(f) /\ f # at[c] /\ at' = [at EXCEPT ![c] = f]
  /\ skipped' = skipped \cup (readers \cap {c})
  /\ UNCHANGED << engine, block, filter, readers, smooth >>

Next ==
  \/ PerformAudioEngineStart \/ PerformAudioEngineStop
  \/ Capture
  \/ \E c \in Clients : ConvertInputSamples(c) \/ Skip(c)

Spec == Init /\ [][Next]_vars

-----------------------------------------------------------------------------
TypeOK ==
  /\ running \in BOOLEAN /\ head \in 0 .. Horizon
  /\ block \in [Clients -> Blocks] /\ at \in [Clients -> 0 .. Horizon]
  /\ dcNextFrame \in {kDCSeedPending} \cup 0 .. Ring - 1
  /\ dcState \in {Zero} \cup 0 .. Horizon
  /\ readers \subseteq Clients /\ skipped \subseteq readers
  /\ smooth \in [Clients -> BOOLEAN]

\* "Letting both advance the filter state double-steps it" (LatSOFKernelAudio.cpp:527-528): however
\* the blocks of several clients overlap, no frame goes into the kept state twice, nor does one
\* go in before an earlier one.
NoDoubleStep == [][running /\ dcState' # dcState => dcState' > dcState]_vars

\* "A normal single client" (534) is filtered without a break from wherever in the ring it
\* starts, over the end of the ring and over restarts of the engine.
SingleClientSmooth ==
  \A c \in Clients : readers = {c} /\ c \notin skipped => smooth[c]

=============================================================================
