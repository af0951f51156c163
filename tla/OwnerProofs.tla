---------------------------- MODULE OwnerProofs ----------------------------
(***************************************************************************)
(* Proofs about two ends of the owner's life: the last stage of its tick   *)
(* (AfgKeepAlive, for every number of ticks and failures) and its stop()   *)
(* (Teardown).                                                             *)
(*                                                                         *)
(* StaticIsBounded follows from the belt counter: between two ticks the    *)
(* looks that found a powered-down group driven are at most the looks the  *)
(* belt has counted since it last fired, because an answered question      *)
(* either finds the group up or raises it (BeltInv). No step of a tick runs*)
(* in a stage that has retired (Working).                                  *)
(*                                                                         *)
(* NoUseAfterFree follows from the order of stop() (TornDown): who holds   *)
(* the engine's pointer is on the gate, and the child, which clears it on  *)
(* the gate, cannot have gone further meanwhile (EngineHeld); a DMA that   *)
(* writes belongs to a capture, and nobody can start one once the child is *)
(* gone and the tick with it (DmaStops).                                   *)
(***************************************************************************)
EXTENDS AfgKeepAlive, Teardown, TLAPS

\* What a look does to the two dividers and to the trigger.
LEMMA LookCounts ==
  ASSUME TypeOK, Look
  PROVE  /\ gAfgBeltTick' \in 0 .. kAfgBeltTicks - 1
         /\ gAfgSenseTick' \in 0 .. kAfgSenseTicks - 1
         /\ due' \in BOOLEAN
         /\ sd = "running" /\ ~due' => gAfgBeltTick' = gAfgBeltTick + 1
<1> USE AfgAssumption DEF AfgAssumption, TypeOK
<1>1. due' = (Rebuild \/ Belt)
  BY DEF Look
<1>2. due' \in BOOLEAN
  BY <1>1 DEF Rebuild, Belt
<1>3. CASE due'
  <2>1. gAfgBeltTick' = 0
    BY <1>3 DEF Look
  <2> QED BY <1>2, <1>3, <2>1 DEF Look, SenseDue
<1>4. CASE ~due'
  <2>1. ~Belt
    BY <1>1, <1>4
  <2>2. gAfgBeltTick' = IF sd = "running" THEN gAfgBeltTick + 1 ELSE gAfgBeltTick
    BY <1>4 DEF Look
  <2> QED BY <1>2, <1>4, <2>1, <2>2 DEF Look, SenseDue, Belt
<1> QED BY <1>3, <1>4

-----------------------------------------------------------------------------
(* The types.                                                              *)

\* A retired stage takes no tick.
Working == pc # "idle" => gAfgIciFails < kAfgIciFailLimit

AfgInv == TypeOK /\ Working

\* Every step of the stage keeps the types and leaves a retired stage idle.
LEMMA TickTypes == ASSUME AfgInv, Tick PROVE AfgInv'
<1> USE DEF AfgInv, TypeOK, Working
<1>1. CASE Look
  <2>1. pc' \in {"idle", "sense", "ask", "raise"}
    BY <1>1 DEF Look, EndOrAsk
  <2>2. /\ gAfgLastSd' \in (SdStates \ {"silent"}) \cup {"unseen"}
        /\ gAfgLastSig' \in Sigs /\ drivenDown' \in Nat
    BY <1>1 DEF Look
  <2>3. /\ gAfgIciFails < kAfgIciFailLimit
        /\ UNCHANGED <<gAfgJackWasIn, gAfgIciFails, codecVars, outputVars, idleRaises>>
    BY <1>1 DEF Look
  <2> QED BY <1>1, <2>1, <2>2, <2>3, LookCounts DEF codecVars, outputVars
<1>2. CASE Sense \/ SenseUnanswered
  BY <1>2 DEF Sense, SenseUnanswered, EndOrAsk, JackSeen, lookVars, codecVars, outputVars
<1>3. CASE Ask
  BY <1>3, AfgAssumption DEF AfgAssumption, Ask, lookVars, codecVars, outputVars
<1>4. CASE AskUnanswered
  BY <1>4, AfgAssumption DEF AfgAssumption, AskUnanswered, lookVars, codecVars, outputVars
<1>5. CASE Raise \/ RaiseUnanswered
  BY <1>5 DEF Raise, RaiseUnanswered, IdleRaise, lookVars, outputVars
<1> QED BY <1>1, <1>2, <1>3, <1>4, <1>5 DEF Tick

\* AppleHDA, the jack, sleep and wake keep the types and leave the stage alone.
LEMMA WorldTypes ==
  ASSUME AfgInv, OutputMoves \/ IdlePolicy \/ JackMoves \/ Sleep \/ Wake
  PROVE  AfgInv' /\ UNCHANGED driverVars
<1> USE DEF AfgInv, TypeOK, Working, driverVars, lookVars
<1>1. CASE OutputMoves
  BY <1>1 DEF OutputMoves, Restored
<1>2. CASE IdlePolicy
  BY <1>2 DEF IdlePolicy, outputVars, historyVars
<1>3. CASE JackMoves
  BY <1>3 DEF JackMoves, Restored, outputVars
<1>4. CASE Sleep
  BY <1>4 DEF Sleep, SdStates
<1>5. CASE Wake
  BY <1>5 DEF Wake, historyVars
<1> QED BY <1>1, <1>2, <1>3, <1>4, <1>5

\* A step that changes no variable keeps the types.
LEMMA StutterTypes == ASSUME AfgInv, UNCHANGED vars PROVE AfgInv'
BY DEF AfgInv, TypeOK, Working, vars, driverVars, lookVars, codecVars, outputVars,
       historyVars

\* The driver starts with the stage idle and its counters at zero.
LEMMA InitTypes == Init => AfgInv
<1>1. /\ 0 \in 0 .. kAfgSenseTicks - 1 /\ 0 \in 0 .. kAfgBeltTicks - 1
      /\ 0 \in 0 .. kAfgIciFailLimit /\ 0 \in Nat
  BY AfgAssumption DEF AfgAssumption
<1>2. Init => TypeOK
  BY <1>1 DEF Init, TypeOK
<1> QED BY <1>2 DEF Init, AfgInv, Working

\* Every variable keeps its type, and a retired stage stays idle.
LEMMA AfgInvariant == Spec => []AfgInv
<1>1. AfgInv /\ [Next]_vars => AfgInv'
  BY TickTypes, WorldTypes, StutterTypes DEF Next
<1> QED BY InitTypes, <1>1, PTL DEF Spec

\* Every variable keeps its type, whatever the dividers and the limit are.
THEOREM AfgTypes == Spec => []TypeOK
<1>1. AfgInv => TypeOK
  BY DEF AfgInv
<1> QED BY AfgInvariant, <1>1, PTL

-----------------------------------------------------------------------------
(* Audio driven through a powered-down group.                              *)

\* What the looks have seen, against what the belt has counted.
BeltInv ==
  /\ drivenDown <= kAfgBeltTicks
  /\ afg = "D0" => drivenDown = 0
  /\ pc = "idle" => drivenDown <= gAfgBeltTick
  /\ pc = "sense" => drivenDown = 0
  /\ ~mapped => pc = "idle" /\ drivenDown = 0

\* A look counts one more tick, or asks.
LEMMA LookBelt == ASSUME TypeOK, BeltInv, Look PROVE BeltInv'
<1> USE AfgAssumption DEF AfgAssumption, TypeOK, BeltInv
<1>1. /\ pc = "idle" /\ mapped' = mapped /\ mapped /\ afg' = afg
      /\ drivenDown' = IF sd = "running" /\ afg = "D3" THEN drivenDown + 1 ELSE 0
  BY DEF Look, codecVars, outputVars
<1>2. CASE sd = "running" /\ afg = "D3"
  <2>1. pc' = IF due' THEN "ask" ELSE "idle"
    BY <1>2 DEF Look, SenseDue, EndOrAsk
  <2>2. ~due' => gAfgBeltTick' = gAfgBeltTick + 1
    BY <1>2, LookCounts
  <2> QED BY <1>1, <1>2, <2>1, <2>2
<1>3. CASE ~(sd = "running" /\ afg = "D3")
  <2>1. gAfgBeltTick' \in 0 .. kAfgBeltTicks - 1
    BY LookCounts
  <2> QED BY <1>1, <1>3, <2>1
<1> QED BY <1>2, <1>3

\* After the look a tick drives nothing more, and it only returns to idle with
\* the group up, or with the count at zero.
LEMMA TickBelt == ASSUME TypeOK, BeltInv, Tick PROVE BeltInv'
<1> USE DEF TypeOK, BeltInv
<1>1. CASE Look
  BY <1>1, LookBelt
<1>2. CASE Sense \/ SenseUnanswered
  BY <1>2 DEF Sense, SenseUnanswered, EndOrAsk, lookVars, codecVars, outputVars
<1>3. CASE Ask
  BY <1>3 DEF Ask, lookVars, codecVars, outputVars
<1>4. CASE AskUnanswered
  BY <1>4, AfgAssumption DEF AfgAssumption, AskUnanswered, lookVars, codecVars, outputVars
<1>5. CASE Raise \/ RaiseUnanswered
  BY <1>5, AfgAssumption DEF AfgAssumption, Raise, RaiseUnanswered, lookVars, outputVars
<1> QED BY <1>1, <1>2, <1>3, <1>4, <1>5 DEF Tick

\* AppleHDA, the jack, sleep and wake add nothing to the count, and a group they
\* raise takes it to zero.
LEMMA WorldBelt ==
  ASSUME TypeOK, BeltInv, OutputMoves \/ IdlePolicy \/ JackMoves \/ Sleep \/ Wake
  PROVE  BeltInv'
<1> USE AfgAssumption DEF AfgAssumption, TypeOK, BeltInv, driverVars, lookVars
<1>1. CASE OutputMoves
  BY <1>1 DEF OutputMoves, Restored
<1>2. CASE IdlePolicy
  BY <1>2 DEF IdlePolicy, outputVars, historyVars
<1>3. CASE JackMoves
  BY <1>3 DEF JackMoves, Restored, outputVars
<1>4. CASE Sleep
  BY <1>4 DEF Sleep
<1>5. CASE Wake
  BY <1>5 DEF Wake, historyVars
<1> QED BY <1>1, <1>2, <1>3, <1>4, <1>5

\* Nothing is driven before the first look.
LEMMA InitBelt == Init => BeltInv
BY AfgAssumption DEF AfgAssumption, Init, BeltInv

\* Audio is driven through a powered-down group for at most kAfgBeltTicks looks
\* of the tick while the commands are answered, whatever the dividers are.
THEOREM BoundedStatic == Spec => []StaticIsBounded
<1>1. TypeOK /\ BeltInv /\ [Next]_vars => BeltInv'
  <2>1. TypeOK /\ BeltInv /\ UNCHANGED vars => BeltInv'
    BY DEF BeltInv, vars, driverVars, lookVars, codecVars, outputVars, historyVars
  <2> QED BY TickBelt, WorldBelt, <2>1 DEF Next
<1>2. AfgInv => TypeOK
  BY DEF AfgInv
<1>3. BeltInv => StaticIsBounded
  BY DEF BeltInv, StaticIsBounded
<1> QED BY InitBelt, AfgInvariant, <1>1, <1>2, <1>3, PTL DEF Spec
-----------------------------------------------------------------------------
(* The codec's idle policy.                                                *)

\* What may still raise an idle codec: a tick that has decided to ask, a descriptor not yet
\* looked at, an insert not yet seen.  Nothing adds to them but AppleHDA's output and the jack.
InHand == IF pc \in {"ask", "raise"} \/ (pc = "sense" /\ due) THEN 1 ELSE 0
Unlooked == IF Rebuild THEN 1 ELSE 0
Unseen == IF jack /\ ~gAfgJackWasIn THEN 1 ELSE 0

FightInv ==
  /\ sd # "running" => idleRaises + InHand + Unlooked + Unseen <= 3
  /\ sd = "running" => idleRaises = 0
  /\ ~mapped => pc = "idle" /\ idleRaises = 0

\* There are three causes, each of at most one raise.
LEMMA Causes ==
  /\ InHand \in 0 .. 1 /\ Unlooked \in 0 .. 1 /\ Unseen \in 0 .. 1
  /\ (InHand \in 0 .. 1 /\ Unlooked \in 0 .. 1 /\ Unseen \in 0 .. 1)'
<1>1. InHand \in 0 .. 1 /\ Unlooked \in 0 .. 1 /\ Unseen \in 0 .. 1
  BY DEF InHand, Unlooked, Unseen
<1>2. (InHand \in 0 .. 1 /\ Unlooked \in 0 .. 1 /\ Unseen \in 0 .. 1)'
  BY DEF InHand, Unlooked, Unseen
<1> QED BY <1>1, <1>2

\* While the output and the jack stay where they are, a cause that is used up is gone.
LEMMA LookSpends ==
  ASSUME TypeOK, FightInv, Look, sd # "running"
  PROVE  InHand' + Unlooked' + Unseen' <= InHand + Unlooked + Unseen
<1>1. /\ pc = "idle" /\ UNCHANGED <<sd, sig, jack, gAfgJackWasIn>>
  BY DEF Look, codecVars, outputVars
<1>2. due' = Rebuild
  BY DEF Look, Belt, Rebuild
<1>3. Unseen' = Unseen
  BY <1>1 DEF Unseen
<1>4. ~Rebuild'
  <2>1. CASE sd = "silent"
    BY <1>1, <2>1 DEF Rebuild
  <2>2. CASE sd # "silent"
    BY <1>1, <2>2 DEF Rebuild, Look
  <2> QED BY <2>1, <2>2
<1>5. Unlooked' = 0
  BY <1>4 DEF Unlooked
<1>6. InHand' <= Unlooked
  <2>1. CASE Rebuild
    BY <2>1, Causes DEF Unlooked
  <2>2. CASE ~Rebuild
    <3>1. ~due' /\ pc' \in {"sense", "idle"}
      BY <1>2, <2>2 DEF Look, EndOrAsk
    <3>2. InHand' = 0
      BY <3>1 DEF InHand
    <3> QED BY <3>2, <2>2 DEF Unlooked
  <2> QED BY <2>1, <2>2
<1>7. InHand = 0
  BY <1>1 DEF InHand
<1> DEFINE a == InHand'  b == Unlooked  d == Unseen
<1>8. a \in 0 .. 1 /\ b \in 0 .. 1 /\ d \in 0 .. 1 /\ a <= b
  BY <1>6, Causes
<1> HIDE DEF a, b, d
<1>9. a + 0 + d <= 0 + b + d
  BY <1>8
<1> QED BY <1>3, <1>5, <1>7, <1>9 DEF a, b, d

\* The answer to the jack question turns an unseen insert into a question in hand.
LEMMA SenseSpends ==
  ASSUME TypeOK, Sense \/ SenseUnanswered
  PROVE  InHand' + Unlooked' + Unseen' <= InHand + Unlooked + Unseen
<1>1. /\ pc = "sense" /\ UNCHANGED <<sd, sig, jack, gAfgLastSd, gAfgLastSig>>
  BY DEF Sense, SenseUnanswered, lookVars, codecVars, outputVars
<1>2. Unlooked' = Unlooked
  BY <1>1 DEF Unlooked, Rebuild
<1>3. CASE Sense
  <2>1. Unseen' = 0
    BY <1>3 DEF Sense, JackSeen, codecVars, Unseen
  <2>2. CASE due \/ (jack /\ ~gAfgJackWasIn)
    <3>1. InHand = 1 \/ Unseen = 1
      BY <1>1, <2>2 DEF InHand, Unseen
    <3> DEFINE a == InHand'  b == InHand  u == Unlooked  d == Unseen
    <3>2. a \in 0 .. 1 /\ b \in 0 .. 1 /\ u \in 0 .. 1 /\ d \in 0 .. 1 /\ (b = 1 \/ d = 1)
      BY <3>1, Causes
    <3> HIDE DEF a, b, u, d
    <3>3. a + u + 0 <= b + u + d
      BY <3>2
    <3> QED BY <1>2, <2>1, <3>3 DEF a, b, u, d
  <2>3. CASE ~(due \/ (jack /\ ~gAfgJackWasIn))
    <3>1. ~due' /\ pc' = "idle"
      BY <1>3, <2>3 DEF Sense, EndOrAsk
    <3>2. InHand' = 0
      BY <3>1 DEF InHand
    <3> DEFINE b == InHand  u == Unlooked  d == Unseen
    <3>3. b \in 0 .. 1 /\ u \in 0 .. 1 /\ d \in 0 .. 1
      BY Causes
    <3> HIDE DEF b, u, d
    <3>4. 0 + u + 0 <= b + u + d
      BY <3>3
    <3> QED BY <1>2, <2>1, <3>2, <3>4 DEF b, u, d
  <2> QED BY <2>2, <2>3
<1>4. CASE SenseUnanswered
  <2>1. Unseen' = Unseen
    BY <1>1, <1>4 DEF SenseUnanswered, Unseen
  <2>2. InHand' <= InHand
    BY <1>1, <1>4 DEF SenseUnanswered, EndOrAsk, InHand
  <2> DEFINE a == InHand'  b == InHand  u == Unlooked  d == Unseen
  <2>3. a \in 0 .. 1 /\ b \in 0 .. 1 /\ u \in 0 .. 1 /\ d \in 0 .. 1 /\ a <= b
    BY <2>2, Causes
  <2> HIDE DEF a, b, u, d
  <2>4. a + u + d <= b + u + d
    BY <2>3
  <2> QED BY <1>2, <2>1, <2>4 DEF a, b, u, d
<1> QED BY <1>3, <1>4

\* Both questions and the raise: the one in hand is spent, at most on one raise.
LEMMA QuestionSpends ==
  ASSUME TypeOK, Ask \/ AskUnanswered \/ Raise \/ RaiseUnanswered
  PROVE  /\ Unlooked' = Unlooked /\ Unseen' = Unseen
         /\ InHand = 1
         /\ idleRaises' \in {idleRaises, idleRaises + 1}
         /\ idleRaises' # idleRaises => InHand' = 0 /\ sd # "running"
<1>1. /\ pc \in {"ask", "raise"} /\ UNCHANGED <<due, sd, sig, jack, gAfgLastSd, gAfgLastSig>>
      /\ UNCHANGED gAfgJackWasIn
  BY DEF Ask, AskUnanswered, Raise, RaiseUnanswered, lookVars, codecVars, outputVars
<1>2. Unlooked' = Unlooked /\ Unseen' = Unseen /\ InHand = 1
  BY <1>1 DEF Unlooked, Rebuild, Unseen, InHand
<1>3. CASE Ask \/ AskUnanswered
  BY <1>2, <1>3 DEF Ask, AskUnanswered
<1>4. CASE Raise \/ RaiseUnanswered
  <2>1. pc' = "idle" /\ IdleRaise
    BY <1>4 DEF Raise, RaiseUnanswered
  <2>2. InHand' = 0
    BY <2>1 DEF InHand
  <2> QED BY <1>2, <2>1, <2>2 DEF IdleRaise
<1> QED BY <1>3, <1>4

LEMMA TickSpends == ASSUME TypeOK, FightInv, Tick PROVE FightInv'
<1>1. sd' = sd /\ mapped' = mapped /\ mapped
  BY DEF Tick, Look, Sense, SenseUnanswered, Ask, AskUnanswered, Raise, RaiseUnanswered,
         outputVars, FightInv
<1> DEFINE i == idleRaises  a == InHand  b == Unlooked  d == Unseen
           j == idleRaises'  x == InHand'  y == Unlooked'  z == Unseen'
<1>2. /\ i \in Nat /\ a \in Nat /\ b \in Nat /\ d \in Nat
      /\ x \in 0 .. 1 /\ y \in Nat /\ z \in Nat
  BY Causes DEF TypeOK
<1>3. sd # "running" => i + a + b + d <= 3
  BY DEF FightInv
<1>4. CASE Look \/ Sense \/ SenseUnanswered
  <2>1. j = i
    BY <1>4 DEF Look, Sense, SenseUnanswered
  <2>2. sd # "running" => x + y + z <= a + b + d
    BY <1>4, LookSpends, SenseSpends
  <2>3. sd = "running" => i = 0
    BY DEF FightInv
  <2> HIDE DEF i, a, b, d, j, x, y, z
  <2>4. sd # "running" => j + x + y + z <= 3
    BY <1>2, <1>3, <2>1, <2>2
  <2> QED BY <1>1, <2>1, <2>3, <2>4 DEF FightInv, i, j, x, y, z
<1>5. CASE Ask \/ AskUnanswered \/ Raise \/ RaiseUnanswered
  <2>1. /\ y = b /\ z = d /\ a = 1 /\ j \in {i, i + 1}
        /\ j # i => x = 0 /\ sd # "running"
    BY <1>5, QuestionSpends
  <2>2. sd = "running" => i = 0
    BY DEF FightInv
  <2> HIDE DEF i, a, b, d, j, x, y, z
  <2>3. sd # "running" => j + x + y + z <= 3
    BY <1>2, <1>3, <2>1
  <2>4. sd = "running" => j = 0
    BY <2>1, <2>2
  <2> QED BY <1>1, <2>3, <2>4 DEF FightInv, j, x, y, z
<1> QED BY <1>4, <1>5 DEF Tick

\* A move of AppleHDA's output or of the jack, and a sleep, start the count again.
LEMMA MoveStartsAgain ==
  ASSUME TypeOK, FightInv, OutputMoves \/ IdlePolicy \/ JackMoves \/ Sleep \/ Wake
  PROVE  FightInv'
<1>1. ASSUME idleRaises' = 0 PROVE idleRaises' + InHand' + Unlooked' + Unseen' <= 3
  <2> DEFINE j == idleRaises'  x == InHand'  y == Unlooked'  z == Unseen'
  <2>1. j = 0 /\ x \in 0 .. 1 /\ y \in 0 .. 1 /\ z \in 0 .. 1
    BY <1>1, Causes
  <2> HIDE DEF j, x, y, z
  <2>2. j + x + y + z <= 3
    BY <2>1
  <2> QED BY <2>2 DEF j, x, y, z
<1>2. CASE OutputMoves \/ JackMoves
  <2>1. idleRaises' = 0 /\ UNCHANGED <<pc, mapped>>
    BY <1>2 DEF OutputMoves, JackMoves, outputVars, driverVars
  <2> QED BY <1>1, <2>1 DEF FightInv
<1>3. CASE Sleep
  BY <1>1, <1>3 DEF Sleep, driverVars, FightInv
<1>4. CASE Wake
  <2>1. idleRaises' = 0 /\ mapped'
    BY <1>4 DEF Wake, historyVars, FightInv
  <2> QED BY <1>1, <2>1 DEF FightInv
<1>5. CASE IdlePolicy
  <2>1. UNCHANGED <<driverVars, jack, outputVars, idleRaises>>
    BY <1>5 DEF IdlePolicy, historyVars
  <2>2. InHand' = InHand /\ Unlooked' = Unlooked /\ Unseen' = Unseen
    BY <2>1 DEF driverVars, lookVars, outputVars, InHand, Unlooked, Rebuild, Unseen
  <2> QED BY <2>1, <2>2 DEF driverVars, outputVars, FightInv
<1> QED BY <1>2, <1>3, <1>4, <1>5

LEMMA InitFight == Init => FightInv
<1> SUFFICES ASSUME Init PROVE FightInv
  OBVIOUS
<1>1. idleRaises = 0 /\ mapped /\ InHand = 0
  BY DEF Init, InHand
<1> QED BY <1>1, Causes DEF FightInv

\* Between two moves of AppleHDA's output or of the jack, the driver raises an idle codec three
\* times at most and then leaves AppleHDA's idle policy alone, whatever the dividers are.
THEOREM IdlePolicyKept == Spec => []NoIdleFight
<1>1. TypeOK /\ FightInv /\ [Next]_vars => FightInv'
  <2>1. TypeOK /\ FightInv /\ UNCHANGED vars => FightInv'
    <3> SUFFICES ASSUME FightInv, UNCHANGED vars PROVE FightInv'
      OBVIOUS
    <3>1. InHand' = InHand /\ Unlooked' = Unlooked /\ Unseen' = Unseen
      BY DEF vars, driverVars, lookVars, codecVars, outputVars, InHand, Unlooked, Rebuild, Unseen
    <3> QED BY <3>1 DEF vars, driverVars, outputVars, historyVars, FightInv
  <2> QED BY TickSpends, MoveStartsAgain, <2>1 DEF Next
<1>2. AfgInv => TypeOK
  BY DEF AfgInv
<1>3. AfgInv /\ FightInv => NoIdleFight
  <2> SUFFICES ASSUME TypeOK, FightInv PROVE idleRaises <= 3
    BY DEF AfgInv, NoIdleFight
  <2>1. CASE sd = "running"
    BY <2>1 DEF FightInv
  <2>2. CASE sd # "running"
    <3> DEFINE i == idleRaises  a == InHand  b == Unlooked  d == Unseen
    <3>1. i \in Nat /\ a \in 0 .. 1 /\ b \in 0 .. 1 /\ d \in 0 .. 1 /\ i + a + b + d <= 3
      BY <2>2, Causes DEF TypeOK, FightInv
    <3> HIDE DEF i, a, b, d
    <3>2. i <= 3
      BY <3>1
    <3> QED BY <3>2 DEF i
  <2> QED BY <2>1, <2>2
<1> QED BY InitFight, AfgInvariant, <1>1, <1>2, <1>3, PTL DEF Spec
-----------------------------------------------------------------------------
(* stop().                                                                 *)

\* What is there, by how far stop() has come; the child is gone before its streams are
\* stopped, and the pointer to it before it is waited for.
TornDown ==
  /\ powerNotifier <=> stop = "live"
  /\ jackTimer <=> stop \in {"live", "deaf"}
  /\ pm <=> stop \in {"live", "deaf", "tickless", "childless", "streamless"}
  /\ commandGate <=> stop \notin {"gateless", "stopped"}
  /\ buffers <=> stop # "stopped"
  /\ kernelAudio => stop \in {"live", "deaf", "tickless"}
  /\ child # "freed" => stop \in {"live", "deaf", "tickless", "childless"}

\* The engine's pointer is cleared before the child gives the engine up, and on the gate: who
\* has read it there and still uses it has a child that is alive.
EngineHeld ==
  /\ engine => child = "alive"
  /\ using => child = "alive"
  /\ gate = "tick" => jackTimer /\ hwReady
  /\ gate = "power" => pm

\* The DMA writes for a capture, and none outlives the stop of the streams.
DmaStops == dma => isCapturing /\ stop \in {"live", "deaf", "tickless", "childless"}

StopInv == StopTypes /\ TornDown /\ EngineHeld /\ DmaStops

\* Everything is there, and nothing captures, when start() has succeeded.
LEMMA InitStop == StopInit => StopInv
<1> SUFFICES ASSUME StopInit PROVE StopInv
  OBVIOUS
<1>1. PartTypes /\ ChildTypes /\ GateTypes
  BY DEF StopInit, PartTypes, ChildTypes, GateTypes
<1>2. StreamTypes /\ LatchTypes /\ FamilyTypes
  BY DEF StopInit, StreamTypes, LatchTypes, FamilyTypes
<1>3. TornDown /\ EngineHeld /\ DmaStops
  BY DEF StopInit, TornDown, EngineHeld, DmaStops
<1> QED BY <1>1, <1>2, <1>3 DEF StopInit, StopTypes, StopInv

\* Every step of stop(), of the child and of their callers keeps the types.
LEMMA StopStepTypes == ASSUME StopTypes, EngineHeld, StopNext PROVE StopTypes'
<1> USE DEF StopTypes, parts, pointers, ending, onGate, stream, latches, family, After, GateFree,
            StartCapture, StartRefused, StopCapture, ShutdownForSleep
<1> USE DEF StopNext, Stopped, stopVars
<1> USE DEF Handler, TickRebuilds, TickGivesUp, TickTakesEngine, TickFindsNoEngine,
            TickUsesEngine, PowerUpUsesEngine
<1> USE DEF Calls, Notice, PowerDown, PowerUp, UserStarts, UserStops, EngineStarts,
            EngineStops, EnginePauses, EngineResumes
<1> USE DEF Child, IOKitTerminatesChild, TearingDown, DeactivateEngine, FreeEngine
<1> USE DEF Stop, RemoveNotifier, RemoveTimer, ClearKernelAudio, StopStreams, PMStop,
            RemoveGate, FreeBuffers
<1>1. PartTypes'
  BY DEF PartTypes
<1>2. ChildTypes'
  BY DEF ChildTypes
<1>3. GateTypes'
  BY DEF GateTypes, Handlers
<1>4. StreamTypes'
  BY DEF StreamTypes
<1>5. LatchTypes'
  BY DEF LatchTypes
<1>6. FamilyTypes'
  BY DEF FamilyTypes
<1>7. (stop \in {"live", "deaf", "tickless", "childless", "streamless", "powerless",
             "gateless", "stopped"})'
  OBVIOUS
<1>8. (using <=> gate # "free")'
  <2>1. \/ UNCHANGED onGate
        \/ (using' = FALSE /\ gate' = "free") \/ (using' = TRUE /\ gate' \in Handlers)
    BY DEF Handlers
  <2> QED BY <2>1 DEF Handlers
<1>9. (isCapturing => hwReady /\ dma)'
  <2>1. CASE TickRebuilds
    BY <2>1
  <2>2. CASE TickUsesEngine
    BY <2>2 DEF EngineHeld
  <2>3. CASE ~TickRebuilds /\ ~TickUsesEngine
    BY <2>3
  <2> QED BY <2>1, <2>2, <2>3
<1> QED BY <1>1, <1>2, <1>3, <1>4, <1>5, <1>6, <1>7, <1>8, <1>9

\* Only stop() removes a part, one by one, and it waits for the child before the streams.
LEMMA StopStepOrder == ASSUME StopInv, StopNext PROVE TornDown'
<1> USE DEF StopInv, TornDown, parts, pointers, ending, After
<1>1. CASE Handler \/ Calls
  <2>1. UNCHANGED << stop, parts, pointers, ending >>
    BY <1>1 DEF Handler, TickRebuilds, TickGivesUp, TickTakesEngine, TickFindsNoEngine,
           TickUsesEngine, PowerUpUsesEngine, Calls, Notice, PowerDown, PowerUp, UserStarts,
           UserStops, EngineStarts, EngineStops, EnginePauses, EngineResumes
  <2> QED BY <2>1
<1>2. CASE IOKitTerminatesChild \/ Child
  <2>1. UNCHANGED << stop, parts, kernelAudio >> /\ child # "freed"
    BY <1>2 DEF IOKitTerminatesChild, Child, TearingDown, DeactivateEngine, FreeEngine
  <2> QED BY <2>1
<1>3. CASE RemoveNotifier
  BY <1>3 DEF RemoveNotifier
<1>4. CASE RemoveTimer
  BY <1>4 DEF RemoveTimer
<1>5. CASE ClearKernelAudio
  BY <1>5 DEF ClearKernelAudio
<1>6. CASE StopStreams
  BY <1>6 DEF StopStreams
<1>7. CASE PMStop
  BY <1>7 DEF PMStop
<1>8. CASE RemoveGate
  BY <1>8 DEF RemoveGate
<1>9. CASE FreeBuffers
  BY <1>9 DEF FreeBuffers
<1> QED BY <1>1, <1>2, <1>3, <1>4, <1>5, <1>6, <1>7, <1>8, <1>9 DEF StopNext, Stop, Stopped, stopVars

\* Who takes the pointer takes it on the gate and from a child that is alive; the child clears
\* it only when the gate is free.
LEMMA StopStepEngine == ASSUME StopInv, StopNext PROVE EngineHeld'
<1> USE DEF EngineHeld
<1>1. StopTypes /\ TornDown /\ EngineHeld
  BY DEF StopInv
<1>2. CASE Handler
  <2> USE <1>1 DEF parts, pointers, ending, onGate, stream, GateFree
  <2>1. CASE TickTakesEngine
    BY <2>1 DEF TickTakesEngine, ResumeDue
  <2>2. CASE TickUsesEngine \/ PowerUpUsesEngine
    <3>1. gate' = "free" /\ using' = FALSE /\ UNCHANGED << engine, child >>
      BY <2>2 DEF TickUsesEngine, PowerUpUsesEngine
    <3> QED BY <3>1
  <2>3. CASE TickRebuilds
    BY <2>3 DEF TickRebuilds
  <2>4. CASE TickGivesUp \/ TickFindsNoEngine
    BY <2>4 DEF TickGivesUp, TickFindsNoEngine
  <2> QED BY <1>2, <2>1, <2>2, <2>3, <2>4 DEF Handler
<1>3. CASE PowerUp
  BY <1>1, <1>3 DEF PowerUp, parts, pointers, ending, onGate
<1>4. CASE Calls /\ ~PowerUp
  <2>1. UNCHANGED << parts, pointers, ending, onGate >> /\ gate' = "free"
    BY <1>4 DEF Calls, Notice, PowerDown, UserStarts, UserStops, EngineStarts, EngineStops,
           EnginePauses, EngineResumes, GateFree, onGate
  <2> QED BY <1>1, <2>1 DEF parts, pointers, ending, onGate
<1>5. CASE IOKitTerminatesChild
  BY <1>1, <1>5 DEF IOKitTerminatesChild, parts, pointers, onGate, stream
<1>6. CASE TearingDown
  <2>1. commandGate
    BY <1>1, <1>6 DEF TearingDown, TornDown
  <2>2. gate = "free" /\ ~using
    BY <1>1, <1>6, <2>1 DEF TearingDown, StopTypes, GateTypes
  <2> QED BY <1>6, <2>2 DEF TearingDown, parts, onGate, stream
<1>7. CASE DeactivateEngine \/ FreeEngine
  <2>1. ~engine /\ ~using /\ gate = "free"
    BY <1>1, <1>7 DEF DeactivateEngine, FreeEngine, StopTypes, GateTypes
  <2>2. UNCHANGED << engine, using, gate >>
    BY <1>7 DEF DeactivateEngine, FreeEngine, pointers, onGate, GateFree
  <2> QED BY <2>1, <2>2
<1>8. CASE RemoveTimer \/ ClearKernelAudio \/ StopStreams \/ PMStop \/ RemoveGate
  <2>1. gate = "free" /\ UNCHANGED << gate, using, engine, child >>
    BY <1>8 DEF RemoveTimer, ClearKernelAudio, StopStreams, PMStop, RemoveGate, GateFree,
           pointers, ending, onGate
  <2> QED BY <1>1, <2>1
<1>9. CASE RemoveNotifier \/ FreeBuffers
  BY <1>1, <1>9 DEF RemoveNotifier, FreeBuffers, pointers, ending, onGate, stream
<1> QED BY <1>1, <1>2, <1>3, <1>4, <1>5, <1>6, <1>7, <1>8, <1>9
        DEF StopNext, Child, Stop, Stopped, stopVars, parts, pointers, ending, onGate, stream

\* A capture starts only while the tick, the user client or the child is there.
LEMMA StopStepDma == ASSUME StopInv, StopNext PROVE DmaStops'
<1> USE DEF StopInv, DmaStops, TornDown, EngineHeld, ChildServes, parts, pointers, ending, onGate,
            stream, After, GateFree, StartCapture, StartRefused, StopCapture, ShutdownForSleep
<1>1. CASE Handler
  BY <1>1 DEF Handler, TickRebuilds, TickGivesUp, TickTakesEngine, TickFindsNoEngine,
           TickUsesEngine, PowerUpUsesEngine
<1>2. CASE Calls
  BY <1>2 DEF Calls, Notice, PowerDown, PowerUp, UserStarts, UserStops, EngineStarts,
           EngineStops, EnginePauses, EngineResumes
<1>3. CASE IOKitTerminatesChild \/ Child
  BY <1>3 DEF IOKitTerminatesChild, Child, TearingDown, DeactivateEngine, FreeEngine
<1>4. CASE Stop
  BY <1>4 DEF Stop, RemoveNotifier, RemoveTimer, ClearKernelAudio, StopStreams, PMStop,
           RemoveGate, FreeBuffers
<1> QED BY <1>1, <1>2, <1>3, <1>4 DEF StopNext, Stopped, stopVars

\* The parts, the engine and the DMA are as far as stop() has come, at every moment.
LEMMA StopInvariant == StopSpec => []StopInv
<1>1. StopInv /\ [StopNext]_stopVars => StopInv'
  <2>1. StopInv /\ StopNext => StopInv'
    BY StopStepTypes, StopStepOrder, StopStepEngine, StopStepDma DEF StopInv
  <2>2. StopInv /\ UNCHANGED stopVars => StopInv'
    <3> SUFFICES ASSUME StopInv, UNCHANGED stopVars PROVE StopInv'
      OBVIOUS
    <3> USE DEF StopInv, stopVars, parts, pointers, ending, onGate, stream, latches, family
    <3>1. (PartTypes /\ ChildTypes)'
      BY DEF StopTypes, PartTypes, ChildTypes
    <3>2. (GateTypes /\ StreamTypes)'
      BY DEF StopTypes, GateTypes, StreamTypes
    <3>3. (LatchTypes /\ FamilyTypes)'
      BY DEF StopTypes, LatchTypes, FamilyTypes
    <3>4. StopTypes'
      BY <3>1, <3>2, <3>3 DEF StopTypes
    <3>5. (TornDown /\ EngineHeld /\ DmaStops)'
      BY DEF TornDown, EngineHeld, DmaStops
    <3> QED BY <3>4, <3>5
  <2> QED BY <2>1, <2>2
<1> QED BY InitStop, <1>1, PTL DEF StopSpec

\* Whatever calls into the driver while it stops, and whoever takes the child down: no handler
\* holds, or can get at, an engine that is freed; no DMA writes into freed buffers; and nobody
\* is left who would go through a removed gate.
THEOREM NothingUsedAfterFree == StopSpec => []NoUseAfterFree
<1>1. StopInv => NoUseAfterFree
  <2> SUFFICES ASSUME StopInv PROVE NoUseAfterFree
    OBVIOUS
  <2>1. StopTypes /\ TornDown /\ EngineHeld /\ DmaStops
    BY DEF StopInv
  <2>2. child = "freed" => ~using /\ ~(kernelAudio /\ engine)
    BY <2>1 DEF EngineHeld
  <2>3. ~buffers => ~dma
    BY <2>1 DEF TornDown, DmaStops
  <2>4. ~commandGate => ~powerNotifier /\ ~jackTimer /\ ~pm /\ child = "freed"
    BY <2>1 DEF TornDown
  <2>5. ~jackTimer /\ ~pm => gate = "free"
    BY <2>1 DEF EngineHeld, StopTypes, GateTypes, Handlers
  <2> QED BY <2>1, <2>2, <2>3, <2>4, <2>5 DEF NoUseAfterFree
<1> QED BY StopInvariant, <1>1, PTL
=============================================================================
