--------------------------- MODULE RecoveryBudget ---------------------------
(***************************************************************************)
(* What the driver promises about its efforts to bring a DSP up, without   *)
(* saying how: no tick, descriptor, stream bit, latch or power callback.   *)
(*                                                                         *)
(* A DSP that is not ready is worked on in rounds of at most Tries counted *)
(* attempts.  A round ends with a ready DSP, with no try left, or with the *)
(* power-down that makes it pointless.  Declaring a ready DSP dead buys a  *)
(* new round at the price of one of Rounds, and only two things give       *)
(* rounds back: a capture that started, and somebody asking for a DSP that *)
(* nobody is working on.  So a firmware that loads but answers nothing is  *)
(* rebuilt at most Rounds times per demand, each with at most Tries tries. *)
(***************************************************************************)
EXTENDS Naturals

CONSTANTS Rounds, Tries

VARIABLES loaded, ready, pending, rounds, tries

vars == <<loaded, ready, pending, rounds, tries>>

Init ==
  /\ ~loaded /\ ~ready /\ ~pending
  /\ rounds = Rounds /\ tries = Tries

\* A full round, with r rounds left after it.
Round(r) ==
  /\ ~ready' /\ pending'
  /\ tries' = Tries /\ rounds' = r

\* Loading may use one uncounted attempt; it may also leave the DSP to a round.
Load ==
  /\ ~loaded /\ loaded'
  /\ \/ ~pending' /\ UNCHANGED <<rounds, tries>>
     \/ Round(Rounds)

Succeed ==
  /\ pending /\ tries > 0
  /\ ready' /\ ~pending' /\ tries' = tries - 1
  /\ UNCHANGED <<loaded, rounds>>

Fail ==
  /\ pending /\ tries > 0
  /\ tries' = tries - 1
  /\ pending' = (tries' > 0)
  /\ UNCHANGED <<loaded, ready, rounds>>

\* The ready DSP is declared dead.
Recover == ready /\ rounds > 0 /\ Round(rounds - 1) /\ UNCHANGED loaded

\* Somebody asks for a DSP nobody is working on: a refused capture, or a wake.
Ask == loaded /\ ~ready /\ ~pending /\ Round(Rounds) /\ UNCHANGED loaded

\* Capture runs: the DSP has proved itself.
Works == ready /\ rounds' = Rounds /\ UNCHANGED <<loaded, ready, pending, tries>>

PowerDown == ~ready' /\ ~pending' /\ UNCHANGED <<loaded, rounds, tries>>

Next == Load \/ Succeed \/ Fail \/ Recover \/ Ask \/ Works \/ PowerDown

Spec == Init /\ [][Next]_vars
=============================================================================
