------------------------------- MODULE SetRate -------------------------------
(***************************************************************************)
(* contrib/latsof-setrate.c --enforce: a resident tool that puts the       *)
(* sample rate of AppleHDA's analog output back after an app has changed   *)
(* it, and must not do so while a jack plug has the codec rebuilt.         *)
(*                                                                         *)
(* Time advances a second at a time (kPollSecs).  A tick looks once a      *)
(* second and writes in a step of its own; Core Audio's notifications come *)
(* on a thread of Core Audio's, some time after what they tell of.  Times  *)
(* are kept as ages, which stop where the code no longer tells them apart. *)
(* Log lines and the one-shot mode are left out.                           *)
(***************************************************************************)
EXTENDS Naturals, FiniteSets

CONSTANTS
  Engines,       \* analog output engines (kTargetUID) that come and go
  kSettleSecs, kBackoffSecs, kBurstWindow, kBurstLimit,
  RebuildSecs,   \* longest rebuild of the codec after a jack plug ("within ~1 s")
  Lag            \* longest delivery of a notification

ASSUME RateAssumption ==
  /\ kSettleSecs \in Nat \ {0} /\ kBackoffSecs \in Nat /\ kSettleSecs <= kBackoffSecs
  /\ kBurstWindow \in Nat \ {0} /\ kBurstWindow <= kBackoffSecs /\ kBurstLimit \in Nat \ {0}
  /\ RebuildSecs \in Nat /\ RebuildSecs < kSettleSecs /\ Lag \in Nat

VARIABLES
  step,          \* "launch", "wait", "pin", and "done" until the next second
  activityAge,   \* now - gLastActivity
  burstAge,      \* now - gBurstStart
  gBurstCount, gSettle, gWatched,
  \* Core Audio
  present, wrong,   \* engines there are; those whose rate is not gWant
  building,         \* seconds since a jack plug began each engine's rebuild
  news,             \* ages of the notifications under way
  \* history, read by the properties only
  recent            \* ages of the tool's writes of the last kBurstWindow seconds

toolVars  == <<activityAge, burstAge, gBurstCount, gSettle, gWatched>>
soundVars == <<present, wrong, building, news>>
rateVars == <<step, toolVars, soundVars, recent>>

Built == RebuildSecs + 1    \* no rebuild under way

RateInit ==
  /\ step = "launch" /\ activityAge = 0 /\ burstAge = 0 /\ gBurstCount = 0
  /\ gSettle = kSettleSecs /\ gWatched = {}
  /\ present \in SUBSET Engines /\ wrong \in SUBSET present
  /\ building = [e \in Engines |-> Built] /\ news = {} /\ recent = {}

-----------------------------------------------------------------------------
(* The tool.                                                               *)

\* A listener hears of a change of its engine after a while.
Tell(heard) == news' = IF heard THEN news \cup {0} ELSE news

(* pin_all: write the rate of every engine whose rate is wrong; a write    *)
(* can fail.                                                               *)
PinAll ==
  \E failed \in SUBSET (present \cap wrong) :
    /\ wrong' = wrong \ (present \ failed)
    /\ Tell((present \cap wrong \cap gWatched) \ failed # {})

\* watch_devices: listen to the engines there are, and to no other.
ListensTo == present

\* main: pin at once, then listen.
Launch ==
  /\ step = "launch" /\ step' = "done"
  /\ PinAll
  /\ gWatched' = ListensTo /\ activityAge' = 0 /\ burstAge' = 0
  /\ UNCHANGED <<gBurstCount, gSettle, present, building, recent>>

\* Mutant: listeners are registered once and for all.
OnRateChangeKeepsListeners ==
  \E age \in news :
    /\ step # "launch" /\ news' = news \ {age}
    /\ activityAge' = 0
    /\ UNCHANGED <<step, burstAge, gBurstCount, gSettle, gWatched, present, wrong, building,
                   recent>>

\* on_change: note that something moved, and listen to the engines there are.
OnRateChange ==
  \E age \in news :
    /\ step # "launch" /\ news' = news \ {age}
    /\ activityAge' = 0 /\ gWatched' = ListensTo
    /\ UNCHANGED <<step, burstAge, gBurstCount, gSettle, present, wrong, building,
                   recent>>

\* Mutant: one engine at the wanted rate is enough.
AllRatesWrong == present # {} /\ present \subseteq wrong

RateIsWrong == present \cap wrong # {}

\* Mutant: a wrong rate is enough.
QuietForgotten == TRUE

Quiet == activityAge >= gSettle

TickIdle ==
  /\ step = "wait" /\ step' = "done"
  /\ ~RateIsWrong \/ ~Quiet
  /\ UNCHANGED <<toolVars, soundVars, recent>>

\* Mutant: every correction begins a window.
BurstForgotten == 1

\* One more correction; a window that is over starts anew with it.
BurstCount == IF burstAge > kBurstWindow THEN 1 ELSE gBurstCount + 1

\* enforce_tick decides to correct, and whom it is fighting.
TickActs ==
  /\ step = "wait" /\ step' = "pin"
  /\ RateIsWrong /\ Quiet
  /\ gBurstCount' = BurstCount
  /\ burstAge' = IF burstAge > kBurstWindow THEN 0 ELSE burstAge
  /\ gSettle' = IF gBurstCount' > kBurstLimit THEN kBackoffSecs
                ELSE IF gBurstCount' <= 1 THEN kSettleSecs ELSE gSettle
  /\ UNCHANGED <<activityAge, gWatched, soundVars, recent>>

\* ... and corrects.
TickPins ==
  /\ step = "pin" /\ step' = "done"
  /\ PinAll
  /\ activityAge' = 0
  /\ recent' = IF RateIsWrong THEN recent \cup {0} ELSE recent
  /\ UNCHANGED <<burstAge, gBurstCount, gSettle, gWatched, present, building>>

Tick == TickIdle \/ TickActs \/ TickPins

-----------------------------------------------------------------------------
(* External: time, Core Audio, apps and the jack.                          *)

Older(age, limit) == IF age < limit THEN age + 1 ELSE limit

\* A second passes; notifications and rebuilds take no longer than they may.
Second ==
  /\ step = "done" /\ step' = "wait"
  /\ Lag \notin news /\ \A e \in Engines : building[e] # RebuildSecs
  /\ activityAge' = Older(activityAge, kBackoffSecs)
  /\ burstAge' = Older(burstAge, kBurstWindow + 1)
  /\ building' = [e \in Engines |-> Older(building[e], Built)]
  /\ news' = {age + 1 : age \in news}
  /\ recent' = {age + 1 : age \in recent} \ {kBurstWindow}
  /\ UNCHANGED <<gBurstCount, gSettle, gWatched, present, wrong>>

\* An app takes the rate away, or gives it back.
AppSetsRate(e) ==
  /\ e \in present /\ building[e] = Built
  /\ wrong' = IF e \in wrong THEN wrong \ {e} ELSE wrong \cup {e}
  /\ Tell(e \in gWatched)
  /\ UNCHANGED <<step, toolVars, present, building, recent>>

\* A plug has AppleHDA pass through another rate while it rebuilds the codec...
JackPlug(e) ==
  /\ e \in present /\ building[e] = Built
  /\ building' = [building EXCEPT ![e] = 0]
  /\ wrong' = wrong \cup {e}
  /\ Tell(e \in gWatched)
  /\ UNCHANGED <<step, toolVars, present, recent>>

\* ... and come back by itself.
Rebuilt(e) ==
  /\ building[e] # Built
  /\ building' = [building EXCEPT ![e] = Built]
  /\ wrong' = wrong \ {e}
  /\ Tell(e \in gWatched)
  /\ UNCHANGED <<step, toolVars, present, recent>>

\* An engine comes or goes; the device list is always listened to.
EngineMoves(e) ==
  /\ present' = IF e \in present THEN present \ {e} ELSE present \cup {e}
  /\ wrong' \in {wrong \ {e}, (wrong \cup {e}) \cap present'}
  /\ building' = [building EXCEPT ![e] = Built]
  /\ Tell(step # "launch")
  /\ UNCHANGED <<step, toolVars, recent>>

Disturbance ==
  \E e \in Engines : AppSetsRate(e) \/ JackPlug(e) \/ EngineMoves(e)

RateNext ==
  \/ Launch \/ OnRateChange \/ Tick \/ Second \/ Disturbance
  \/ \E e \in Engines : Rebuilt(e)

RateSpec == RateInit /\ [][RateNext]_rateVars

\* The timer fires, notifications arrive and a rebuild ends.
Fairness ==
  /\ WF_rateVars(Launch \/ Tick) /\ WF_rateVars(Second) /\ WF_rateVars(OnRateChange)
  /\ WF_rateVars(\E e \in Engines : Rebuilt(e))

FairRateSpec == RateSpec /\ Fairness
-----------------------------------------------------------------------------
(* Properties.                                                             *)

\* latsof-setrate.c:159, "The whole safety of this mode is one rule": the tick does
\* not write into a rebuild whose notification has had the time to arrive, also when
\* the engine has just appeared and nobody listens to it yet, when another engine has
\* been wrong all along, or when notifications are late.
RebuildProtected ==
  [][step = "pin" /\ step' = "done" =>
       \A e \in present \cap wrong : building[e] = Built \/ building[e] <= Lag]_rateVars

\* The tool listens to exactly the engines there are, once the last notification has
\* arrived: a change of the device set while listeners are renewed is not lost.
ListensToAll == step # "launch" /\ news = {} => gWatched = present

\* "we never become the noisy party": whatever resets the rate, and however two of
\* the tool's windows meet in it, any kBurstWindow seconds see at most
\* 2 * kBurstLimit + 1 corrections.
FightBounded == Cardinality(recent) <= 2 * kBurstLimit + 1

\* A write that failed.
WriteFails == step = "pin" /\ step' = "done" /\ wrong' \cap present # {}

\* A rate an app holds is put right in the end, also after a backoff: once nothing
\* moves and writes succeed, every engine ends up, and stays, at the wanted rate.
HeldRateCorrected ==
  <>[][~Disturbance /\ ~WriteFails]_rateVars => <>[](present \cap wrong = {})
=============================================================================
