---------------------------- MODULE AfgKeepAlive ----------------------------
(***************************************************************************)
(* The tick's last stage in kext/LatSOFAudio/LatSOFAudioDevice.cpp: it     *)
(* powers the codec's Audio Function Group up when AppleHDA starts         *)
(* streaming without having done so, through the controller's immediate    *)
(* command interface.                                                      *)
(*                                                                         *)
(* A tick looks at AppleHDA's output descriptor, may poll the headphone    *)
(* jack, may ask for the group's power state and may raise it; AppleHDA,   *)
(* the jack and the codec's idle policy move between these steps, and any  *)
(* command may go unanswered (AppleHDA owns the interface, or a timeout).  *)
(* latsof_afgwake=1; the published counters and the log are left out.      *)
(***************************************************************************)
EXTENDS Naturals

CONSTANTS
  Sigs,              \* signatures BDL^CBL^FMT AppleHDA gives the descriptor
  kAfgSenseTicks,    \* ticks per poll of the jack (2)
  kAfgBeltTicks,     \* ticks per check of a running output (20)
  kAfgIciFailLimit   \* consecutive unanswered questions before retiring (8)

ASSUME AfgAssumption ==
  /\ Sigs # {} /\ kAfgSenseTicks \in Nat \ {0}
  /\ kAfgBeltTicks \in Nat \ {0} /\ kAfgIciFailLimit \in Nat \ {0}

VARIABLES
  pc,            \* where the tick's stage is; "idle" between two ticks
  due,           \* rebuild || belt || jackIn
  gAfgLastSd, gAfgLastSig, gAfgSenseTick, gAfgJackWasIn, gAfgBeltTick,
  gAfgIciFails,
  sd, sig,       \* AppleHDA's output descriptor
  jack, afg,     \* headphones present; the group's actual power state
  mapped,        \* hdaBase
  \* history, read by the properties only
  drivenDown,    \* looks in a row that found a powered-down group driven
  idleRaises     \* raises at idle since AppleHDA or the jack last moved

lookVars    == <<gAfgLastSd, gAfgLastSig, gAfgSenseTick, gAfgBeltTick>>
codecVars   == <<jack, afg>>
outputVars  == <<sd, sig, mapped>>
historyVars == <<drivenDown, idleRaises>>
driverVars  == <<pc, due, lookVars, gAfgJackWasIn, gAfgIciFails>>
vars == <<driverVars, codecVars, outputVars, historyVars>>

\* outputSdBusyState: -1, 0, 2, 1; and -2, the value before the first look.
SdStates == {"silent", "clean", "programmed", "running"}

TypeOK ==
  /\ pc \in {"idle", "sense", "ask", "raise"} /\ due \in BOOLEAN
  /\ gAfgLastSd \in (SdStates \ {"silent"}) \cup {"unseen"} /\ gAfgLastSig \in Sigs
  /\ gAfgSenseTick \in 0 .. kAfgSenseTicks - 1
  /\ gAfgBeltTick \in 0 .. kAfgBeltTicks - 1
  /\ gAfgJackWasIn \in BOOLEAN /\ gAfgIciFails \in 0 .. kAfgIciFailLimit
  /\ sd \in SdStates /\ sig \in Sigs /\ mapped \in BOOLEAN
  /\ jack \in BOOLEAN /\ afg \in {"D0", "D3"}
  /\ drivenDown \in Nat /\ idleRaises \in Nat

Init ==
  /\ pc = "idle" /\ due = FALSE
  /\ gAfgLastSd = "unseen" /\ gAfgLastSig \in Sigs /\ gAfgSenseTick = 0
  /\ gAfgJackWasIn = FALSE /\ gAfgBeltTick = 0 /\ gAfgIciFails = 0
  /\ sd \in SdStates /\ sig \in Sigs /\ mapped = TRUE
  /\ jack \in BOOLEAN /\ afg \in {"D0", "D3"}
  /\ drivenDown = 0 /\ idleRaises = 0

-----------------------------------------------------------------------------
(* The tick.                                                               *)

\* AppleHDA (re)built its engine: the armed descriptor's class or its
\* programming changed since the last look.
Rebuild ==
  /\ sd \in {"programmed", "running"}
  /\ sd # gAfgLastSd \/ sig # gAfgLastSig

\* Mutant: the slow check is left to the rebuild trigger.
NoBelt == FALSE
\* Mutant: one tick late.
BeltLate == sd = "running" /\ gAfgBeltTick + 1 > kAfgBeltTicks

Belt == sd = "running" /\ gAfgBeltTick + 1 >= kAfgBeltTicks

SenseDue == sd # "running" /\ gAfgSenseTick + 1 >= kAfgSenseTicks

EndOrAsk(ask) == pc' = IF ask THEN "ask" ELSE "idle"

\* One look at the descriptor decides what this tick does.
Look ==
  /\ pc = "idle" /\ mapped /\ gAfgIciFails < kAfgIciFailLimit
  /\ IF sd = "silent"
       THEN UNCHANGED <<gAfgLastSd, gAfgLastSig>>
       ELSE gAfgLastSd' = sd /\ gAfgLastSig' = sig
  /\ due' = (Rebuild \/ Belt)
  /\ gAfgBeltTick' =
       IF due' THEN 0
       ELSE IF sd = "running" THEN gAfgBeltTick + 1 ELSE gAfgBeltTick
  /\ gAfgSenseTick' =
       IF sd = "running" THEN gAfgSenseTick
       ELSE IF SenseDue THEN 0 ELSE gAfgSenseTick + 1
  /\ IF SenseDue
       THEN pc' = "sense"
       ELSE EndOrAsk(due')
  /\ drivenDown' = IF sd = "running" /\ afg = "D3" THEN drivenDown + 1 ELSE 0
  /\ UNCHANGED <<gAfgJackWasIn, gAfgIciFails, codecVars, outputVars, idleRaises>>

\* Mutant: an insert is remembered, a removal is not noticed.
JackWasInForgotten == UNCHANGED gAfgJackWasIn

JackSeen == gAfgJackWasIn' = jack

\* GET_PIN_SENSE: absent to present is worth a question.
Sense ==
  /\ pc = "sense" /\ sd # "silent"
  /\ JackSeen
  /\ due' = (due \/ (jack /\ ~gAfgJackWasIn))
  /\ EndOrAsk(due')
  /\ UNCHANGED <<lookVars, gAfgIciFails, codecVars, outputVars, drivenDown,
                 idleRaises>>

SenseUnanswered ==
  /\ pc = "sense"
  /\ EndOrAsk(due)
  /\ UNCHANGED <<due, lookVars, gAfgJackWasIn, gAfgIciFails, codecVars,
                 outputVars, drivenDown, idleRaises>>

\* GET_POWER_STATE: raise the group only when it is down.
Ask ==
  /\ pc = "ask" /\ sd # "silent"
  /\ gAfgIciFails' = 0
  /\ pc' = IF afg = "D0" THEN "idle" ELSE "raise"
  /\ UNCHANGED <<due, lookVars, gAfgJackWasIn, codecVars, outputVars,
                 drivenDown, idleRaises>>

\* The failure that makes kAfgIciFailLimit retires this stage for good.
AskUnanswered ==
  /\ pc = "ask" /\ pc' = "idle"
  /\ gAfgIciFails' = gAfgIciFails + 1
  /\ drivenDown' = 0
  /\ UNCHANGED <<due, lookVars, gAfgJackWasIn, codecVars, outputVars, idleRaises>>

IdleRaise == idleRaises' = IF sd = "running" THEN idleRaises ELSE idleRaises + 1

\* SET_POWER_STATE D0, with the result of the command not looked at.
Raise ==
  /\ pc = "raise" /\ sd # "silent" /\ pc' = "idle"
  /\ afg' = "D0" /\ drivenDown' = 0
  /\ IdleRaise
  /\ UNCHANGED <<due, lookVars, gAfgJackWasIn, gAfgIciFails, jack, outputVars>>

\* Never sent, or sent and its answer lost.
RaiseUnanswered ==
  /\ pc = "raise" /\ pc' = "idle"
  /\ afg' \in {afg, "D0"} /\ drivenDown' = 0
  /\ IdleRaise
  /\ UNCHANGED <<due, lookVars, gAfgJackWasIn, gAfgIciFails, jack, outputVars>>

Tick ==
  \/ Look \/ Sense \/ SenseUnanswered \/ Ask \/ AskUnanswered
  \/ Raise \/ RaiseUnanswered

-----------------------------------------------------------------------------
(* AppleHDA, the jack and sleep.                                           *)

Restored == drivenDown' = IF afg' = "D0" THEN 0 ELSE drivenDown

\* AppleHDA (re)programs, starts or stops its output; starting it powers the
\* group up, except on the path where it does not.
OutputMoves ==
  /\ mapped
  /\ sd' \in SdStates /\ sig' \in Sigs /\ <<sd', sig'>> # <<sd, sig>>
  /\ IF sd' = "running" /\ sd # "running" THEN afg' \in {afg, "D0"} ELSE UNCHANGED afg
  /\ Restored /\ idleRaises' = 0
  /\ UNCHANGED <<driverVars, jack, mapped>>

\* AppleHDA drops the group when the engine idles.
IdlePolicy ==
  /\ sd # "running" /\ afg = "D0" /\ afg' = "D3"
  /\ UNCHANGED <<driverVars, jack, outputVars, historyVars>>

\* A plug or an unplug; a replug makes AppleHDA initialise the codec again.
JackMoves ==
  /\ jack' = ~jack /\ afg' \in {afg, "D0"}
  /\ Restored /\ idleRaises' = 0
  /\ UNCHANGED <<driverVars, outputVars>>

\* setPowerState runs on the tick's workloop; no tick until the wake.
Sleep ==
  /\ mapped /\ pc = "idle"
  /\ mapped' = FALSE /\ sd' = "silent" /\ afg' = "D3"
  /\ drivenDown' = 0 /\ idleRaises' = 0
  /\ UNCHANGED <<driverVars, jack, sig>>

Wake ==
  /\ ~mapped /\ mapped' = TRUE
  /\ sd' \in SdStates \ {"running"} /\ sig' \in Sigs /\ afg' \in {"D0", "D3"}
  /\ UNCHANGED <<driverVars, jack, historyVars>>

Next == Tick \/ OutputMoves \/ IdlePolicy \/ JackMoves \/ Sleep \/ Wake

Spec == Init /\ [][Next]_vars
-----------------------------------------------------------------------------
(* Properties.                                                             *)

\* Audio is driven through a powered-down codec for at most kAfgBeltTicks ticks
\* while the commands are answered: whatever AppleHDA did between two ticks to
\* hide its rebuild, the slow check of a running output comes in time.
StaticIsBounded == drivenDown <= kAfgBeltTicks

\* The driver does not fight AppleHDA's idle policy: between two moves of
\* AppleHDA's output or of the jack it raises an idle codec a few times at most
\* (once for what a tick under way had seen, once for the descriptor, once for the
\* jack), and then leaves it in D3.
NoIdleFight == idleRaises <= 3

=============================================================================
