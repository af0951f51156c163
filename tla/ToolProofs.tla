------------------------------ MODULE ToolProofs ------------------------------
(***************************************************************************)
(* The two resident tools of contrib/, which share no state.               *)
(*                                                                         *)
(* What latsof-afgwake may write, for any devices and any bounds: a write  *)
(* that corrects is made for a device that ran when the thread looked, and *)
(* a write that arms the group has a notification of a jack event of its   *)
(* own, whatever the two threads do to each other's connection.            *)
(*                                                                         *)
(* When latsof-setrate may write, for any engines, settle time, window and *)
(* limit: never into a rebuild it had time to hear of, and not for ever    *)
(* against an app that takes the rate back.                                *)
(***************************************************************************)
EXTENDS AfgWake, SetRate, FiniteSetTheorems, TLAPS

Places == {"idle", "look", "open", "opening", "call", "close", "closed"}
Arming == {"before", "prearm"}
Correcting == {"read", "write", "after"}
Doings == {"nothing"} \cup Arming \cup Correcting

ToolTypes ==
  /\ pc \in [Threads -> Places] /\ doing \in [Threads -> Doings]
  /\ stopped \in [Threads -> BOOLEAN]
  /\ gPort \in {"none", "live", "dead"} /\ listening \in BOOLEAN

\* A thread that is not on its way to a verb does nothing, and only the listener arms.
Owned ==
  /\ \A t \in Threads : doing[t] = "nothing" <=> pc[t] \in {"idle", "look"}
  /\ doing["main"] \notin Arming

\* A look that found a device is followed up while one runs, unless all stopped since.
Followed ==
  \A t \in Threads : doing[t] \in Correcting => running # {} \/ stopped[t]

-----------------------------------------------------------------------------
(* Steps of the threads.                                                   *)

\* What Goto moves is one thread.
LEMMA GotoMoves ==
  ASSUME ToolTypes, NEW t \in Threads, NEW where \in Places, NEW what \in Doings,
         Goto(t, where, what)
  PROVE  /\ pc' \in [Threads -> Places] /\ doing' \in [Threads -> Doings]
         /\ pc'[t] = where /\ doing'[t] = what
         /\ \A u \in Threads \ {t} : pc'[u] = pc[u] /\ doing'[u] = doing[u]
BY DEF ToolTypes, Goto

\* What may follow a verb for a thread that does what was: the same kind of work, a look, or
\* nothing.
After(was, where, what) ==
  /\ what = "nothing" <=> where \in {"idle", "look"}
  /\ what \in Arming => what = "prearm" /\ was = "before"
  /\ what \in Correcting => was \in Correcting

LEMMA FollowsMoves ==
  ASSUME ToolTypes, NEW t \in Threads, NEW state, Follows(t, state)
  PROVE  \E where \in Places, what \in Doings :
           Goto(t, where, what) /\ After(doing[t], where, what)
BY DEF Follows, After, Places, Doings, Arming, Correcting

\* Moves of a thread: as its last verb lets it, staying at its verb, or from idle or a look.
Moves(t) ==
  \E where \in Places, what \in Doings :
    /\ Goto(t, where, what)
    /\ \/ After(doing[t], where, what) /\ pc[t] \notin {"idle", "look"}
       \/ what = doing[t] /\ (where \in {"idle", "look"} <=> pc[t] \in {"idle", "look"})

\* A thread stays at its verb, or goes on to what may follow it.
LEMMA StaysMoves ==
  ASSUME ToolTypes, NEW t \in Threads, NEW where \in Places \ {"idle", "look"},
         pc[t] \notin {"idle", "look"}, Goto(t, where, doing[t])
  PROVE  Moves(t)
<1>1. doing[t] \in Doings
  BY DEF ToolTypes
<1> QED BY <1>1 DEF Moves

LEMMA FollowsIsMove ==
  ASSUME ToolTypes, NEW t \in Threads, NEW state, Follows(t, state),
         pc[t] \notin {"idle", "look"}
  PROVE  Moves(t)
BY FollowsMoves DEF Moves

LEMMA StepMoves ==
  ASSUME ToolTypes, NEW t \in Threads, Step(t), ~Look(t)
  PROVE  /\ Moves(t)
         /\ UNCHANGED << listening, hal, counts, heard, stopped >>
         /\ prearms' # prearms => prearms' = prearms + 1 /\ doing[t] = "prearm"
<1>1. ASSUME OpenHas(t) \/ VerbFails(t) \/ OpenFinds(t) \/ OpenConnects(t) \/ Verb(t)
             \/ ClosePort(t) \/ ForgetPort(t)
      PROVE  pc[t] \notin {"idle", "look"}
  BY <1>1 DEF OpenHas, VerbFails, OpenFinds, OpenConnects, Verb, ClosePort, ForgetPort, At
<1>2. CASE OpenHas(t)
  BY <1>1, <1>2, StaysMoves DEF OpenHas, Places, history
<1>3. CASE VerbFails(t)
  BY <1>1, <1>3, StaysMoves DEF VerbFails, Places, history
<1>4. CASE OpenFinds(t)
  BY <1>1, <1>4, StaysMoves, FollowsIsMove DEF OpenFinds, Places, history
<1>5. CASE OpenConnects(t)
  BY <1>1, <1>5, StaysMoves, FollowsIsMove DEF OpenConnects, Places, history
<1>6. CASE Verb(t)
  BY <1>1, <1>6, FollowsIsMove DEF Verb
<1>7. CASE ClosePort(t)
  BY <1>1, <1>7, StaysMoves, FollowsIsMove DEF ClosePort, Places, history
<1>8. CASE ForgetPort(t)
  BY <1>1, <1>8, FollowsIsMove DEF ForgetPort, history
<1> QED BY <1>2, <1>3, <1>4, <1>5, <1>6, <1>7, <1>8 DEF Step

-----------------------------------------------------------------------------
(* The invariant.                                                          *)

\* A notification that was heard is being armed for, or was armed for once at most.
Armed ==
  /\ pending \in Nat /\ prearms \in Nat /\ heard \in Nat
  /\ prearms + (IF doing["listener"] \in Arming THEN 1 ELSE 0) <= heard

WakeInv == ToolTypes /\ Owned /\ Followed /\ Armed

LEMMA InitWakeInv == Init => WakeInv
<1> USE DEF Init, Places, Doings, Arming, Correcting, Threads
<1>1. Init => ToolTypes
  BY DEF ToolTypes
<1>2. Init => Owned /\ Followed
  BY DEF Owned, Followed
<1>3. Init => Armed
  BY DEF Armed
<1> QED BY <1>1, <1>2, <1>3 DEF WakeInv

LEMMA StepKeepsInv == ASSUME WakeInv, NEW t \in Threads, Step(t), ~Look(t) PROVE WakeInv'
<1> USE DEF WakeInv
<1>1. PICK where \in Places, what \in Doings :
        /\ Goto(t, where, what)
        /\ \/ After(doing[t], where, what) /\ pc[t] \notin {"idle", "look"}
           \/ what = doing[t] /\ (where \in {"idle", "look"} <=> pc[t] \in {"idle", "look"})
  BY StepMoves DEF Moves
<1>2. /\ pc' \in [Threads -> Places] /\ doing' \in [Threads -> Doings]
      /\ pc'[t] = where /\ doing'[t] = what
      /\ \A u \in Threads \ {t} : pc'[u] = pc[u] /\ doing'[u] = doing[u]
  BY <1>1, GotoMoves
<1>3. /\ UNCHANGED << listening, running, pending, heard, stopped >>
      /\ prearms' # prearms => prearms' = prearms + 1 /\ doing[t] = "prearm"
  BY StepMoves DEF hal, counts
<1>4. gPort' \in {"none", "live", "dead"}
  BY DEF Step, Look, OpenHas, OpenFinds, OpenConnects, Verb, VerbFails, ClosePort, ForgetPort,
         ToolTypes
<1>5. ToolTypes'
  BY <1>2, <1>3, <1>4 DEF ToolTypes
<1>6. Owned'
  <2>1. \A u \in Threads : doing'[u] = "nothing" <=> pc'[u] \in {"idle", "look"}
    BY <1>1, <1>2 DEF Owned, After
  <2>2. CASE t = "main"
    <3>1. what \notin Arming
      BY <1>1, <2>2 DEF Owned, After, Arming
    <3> QED BY <1>2, <2>1, <2>2, <3>1 DEF Owned
  <2>3. CASE t # "main"
    <3>1. doing'["main"] = doing["main"]
      BY <1>2, <2>3 DEF Threads
    <3> QED BY <2>1, <3>1 DEF Owned
  <2> QED BY <2>2, <2>3
<1>7. Followed'
  BY <1>1, <1>2, <1>3 DEF Followed, After
<1>8. Armed'
  <2>1. CASE t = "main"
    <3>1. doing'["listener"] = doing["listener"] /\ prearms' = prearms
      BY <1>2, <1>3, <2>1 DEF Threads, Owned, Arming
    <3> QED BY <1>3, <3>1 DEF Armed
  <2>2. CASE t = "listener"
    <3>1. doing'["listener"] \in Arming => doing["listener"] \in Arming
      BY <1>1, <1>2, <2>2 DEF After, Arming
    <3>2. CASE prearms' = prearms
      BY <1>3, <3>1, <3>2 DEF Armed
    <3>3. CASE prearms' # prearms
      <4>1. doing["listener"] = "prearm" /\ doing'["listener"] \notin Arming
        BY <2>2, <3>3 DEF Step, Look, OpenHas, OpenFinds, OpenConnects, Verb, VerbFails,
           ClosePort, ForgetPort, history, Follows, Goto, Arming, ToolTypes
      <4> QED BY <1>3, <3>3, <4>1 DEF Armed, Arming
    <3> QED BY <3>2, <3>3
  <2> QED BY <2>1, <2>2 DEF Threads
<1> QED BY <1>5, <1>6, <1>7, <1>8

\* Looks, notifications and the timer begin what the threads do.
LEMMA BeginKeepsInv ==
  ASSUME WakeInv,
         \/ \E t \in Threads : Look(t)
         \/ ListenAll \/ Backstop \/ OnChange \/ OnChangeJack
  PROVE  WakeInv'
<1> USE DEF WakeInv, At, Places, Doings, Arming, Correcting, hal, counts, history
<1>1. ASSUME NEW t \in Threads, Look(t) PROVE WakeInv'
  <2>1. PICK what \in {"read", "nothing"} :
          /\ Goto(t, IF what = "read" THEN "open" ELSE "idle", what)
          /\ what = "read" => running # {}
    BY <1>1 DEF Look
  <2>2. /\ pc' \in [Threads -> Places] /\ doing' \in [Threads -> Doings]
        /\ pc'[t] = (IF what = "read" THEN "open" ELSE "idle") /\ doing'[t] = what
        /\ \A u \in Threads \ {t} : pc'[u] = pc[u] /\ doing'[u] = doing[u]
    BY <2>1, GotoMoves
  <2>3. /\ UNCHANGED << gPort, listening, running, pending, heard, prearms >>
        /\ stopped' = [stopped EXCEPT ![t] = FALSE]
    BY <1>1 DEF Look
  <2>4. ToolTypes'
    BY <2>2, <2>3 DEF ToolTypes
  <2>5. Owned'
    <3>1. doing'["main"] \in {doing["main"], "read", "nothing"}
      BY <2>2 DEF Threads
    <3>2. \A u \in Threads : doing'[u] = "nothing" <=> pc'[u] \in {"idle", "look"}
      BY <2>2 DEF Owned
    <3> QED BY <3>1, <3>2 DEF Owned
  <2>6. Followed'
    BY <2>1, <2>2, <2>3 DEF ToolTypes, Followed
  <2>7. Armed'
    BY <2>2, <2>3 DEF Armed, Threads
  <2> QED BY <2>4, <2>5, <2>6, <2>7
<1>2. CASE ListenAll
  BY <1>2 DEF ListenAll, ToolTypes, Owned, Followed, Armed
<1>3. CASE Backstop
  <2>1. /\ pc' = [pc EXCEPT !["main"] = "look"] /\ doing' = [doing EXCEPT !["main"] = "nothing"]
        /\ UNCHANGED << gPort, listening, running, pending, heard, prearms, stopped >>
    BY <1>3 DEF Backstop, Goto
  <2> QED BY <2>1 DEF ToolTypes, Owned, Followed, Armed, Threads
<1>4. CASE OnChange
  <2>1. /\ pc' = [pc EXCEPT !["listener"] = "look"]
        /\ doing' = [doing EXCEPT !["listener"] = "nothing"]
        /\ UNCHANGED << gPort, listening, running, pending, heard, prearms, stopped >>
    BY <1>4 DEF OnChange, Goto
  <2> QED BY <2>1 DEF ToolTypes, Owned, Followed, Armed, Threads
<1>5. CASE OnChangeJack
  <2>1. /\ pc["listener"] = "idle" /\ pending > 0 /\ pending' = pending - 1 /\ heard' = heard + 1
        /\ pc' = [pc EXCEPT !["listener"] = "open"]
        /\ doing' = [doing EXCEPT !["listener"] = "before"]
        /\ UNCHANGED << gPort, listening, running, prearms, stopped >>
    BY <1>5 DEF OnChangeJack, Goto
  <2>2. doing["listener"] = "nothing" /\ doing'["listener"] = "before"
    BY <2>1 DEF ToolTypes, Owned, Threads
  <2>3. ToolTypes' /\ Owned' /\ Followed'
    BY <2>1, <2>2 DEF ToolTypes, Owned, Followed, Threads
  <2>4. Armed'
    BY <2>1, <2>2 DEF Armed
  <2> QED BY <2>3, <2>4
<1> QED BY <1>1, <1>2, <1>3, <1>4, <1>5

LEMMA WorldKeepsInv ==
  ASSUME WakeInv, Idles \/ ProviderComes \/ Environment
  PROVE  WakeInv'
<1> USE DEF WakeInv, ToolTypes, Owned, Followed, Armed, tool, codec, hal, counts, history
<1>1. CASE Idles \/ ProviderComes
  BY <1>1 DEF Idles, ProviderComes
<1>2. ASSUME NEW d \in Devices, DeviceStarts(d) PROVE WakeInv'
  BY <1>2 DEF DeviceStarts
<1>3. ASSUME NEW d \in Devices, DeviceStops(d) PROVE WakeInv'
  BY <1>3 DEF DeviceStops
<1>4. CASE JackMoves
  <2>1. pending' \in Nat
    BY <1>4, BoundsAssumption DEF JackMoves
  <2> QED BY <1>4, <2>1 DEF JackMoves
<1>5. CASE ProviderGoes
  BY <1>5 DEF ProviderGoes
<1> QED BY <1>1, <1>2, <1>3, <1>4, <1>5 DEF Environment

LEMMA StutterKeepsInv == ASSUME WakeInv, UNCHANGED vars PROVE WakeInv'
BY DEF WakeInv, ToolTypes, Owned, Followed, Armed, vars, tool, hal, counts, history

LEMMA NextKeepsInv == WakeInv /\ [Next]_vars => WakeInv'
BY StepKeepsInv, BeginKeepsInv, WorldKeepsInv, StutterKeepsInv DEF Next, Step

\* The inductive invariant of the tool.
THEOREM WakeInvariant == Spec => []WakeInv
BY InitWakeInv, NextKeepsInv, PTL DEF Spec

-----------------------------------------------------------------------------
(* The rest of the types: a connection is live only under a provider.      *)

WorldTypes ==
  /\ gPort = "live" => provider
  /\ afg \in {D0, D3} /\ stale \in BOOLEAN /\ provider \in BOOLEAN
  /\ running \subseteq Devices

LEMMA NextWorldTypes == WorldTypes /\ [Next]_vars => WorldTypes'
<1> SUFFICES ASSUME WorldTypes, [Next]_vars PROVE WorldTypes'
  OBVIOUS
<1> USE DEF WorldTypes, codec, hal
<1>1. ASSUME NEW t \in Threads, Step(t) PROVE WorldTypes'
  BY <1>1 DEF Step, OpenHas, OpenFinds, OpenConnects, Verb, VerbFails, ClosePort, ForgetPort, Look
<1>2. CASE ListenAll \/ Backstop \/ OnChange \/ OnChangeJack
  BY <1>2 DEF ListenAll, Backstop, OnChange, OnChangeJack
<1>3. CASE Idles \/ ProviderComes
  BY <1>3 DEF Idles, ProviderComes, tool
<1>4. ASSUME NEW d \in Devices, DeviceStarts(d) \/ DeviceStops(d) PROVE WorldTypes'
  BY <1>4 DEF DeviceStarts, DeviceStops, tool
<1>5. CASE JackMoves \/ ProviderGoes
  BY <1>5 DEF JackMoves, ProviderGoes, tool
<1>6. CASE UNCHANGED vars
  BY <1>6 DEF vars, tool
<1> QED BY <1>1, <1>2, <1>3, <1>4, <1>5, <1>6 DEF Next, Environment

\* The types, for any devices and any bounds.
THEOREM WakeTypes == Spec => []TypeOK
<1>1. Init => WorldTypes
  BY DEF Init, WorldTypes
<1>2. WakeInv /\ WorldTypes => TypeOK
  BY DEF WakeInv, ToolTypes, Owned, Armed, WorldTypes, TypeOK, Places, Doings, Arming, Correcting
<1> QED BY <1>1, <1>2, WakeInvariant, NextWorldTypes, PTL DEF Spec

\* However many notifications one jack event brings, however often AppleHDA idles the group
\* between them, whatever calls fail and whoever closes the connection meanwhile: the group is
\* armed at most once for each notification of a jack event that on_change was called with.
THEOREM PrearmsBounded == Spec => []OnePrearmPerNotice
<1>1. WakeInv => OnePrearmPerNotice
  BY DEF WakeInv, Armed, OnePrearmPerNotice
<1> QED BY <1>1, WakeInvariant, PTL

\* A correcting write is made while a device runs, unless the last one stopped since the look.
THEOREM WritesFollowLooks == Spec => WritesWhileRunning
<1>1. WakeInv /\ [Next]_vars =>
        [\A t \in Threads :
           doing[t] = "write" /\ doing'[t] = "after" => running # {} \/ stopped[t]]_vars
  BY DEF WakeInv, Followed, Correcting
<1> QED BY <1>1, WakeInvariant, PTL DEF Spec, WritesWhileRunning

-----------------------------------------------------------------------------
(* latsof-setrate: what its ages have heard of.                            *)

USE RateAssumption

RateTypes ==
  /\ step \in {"launch", "wait", "pin", "done"}
  /\ activityAge \in Nat /\ burstAge \in Nat /\ gBurstCount \in 0 .. kBurstLimit + 1
  /\ gSettle \in {kSettleSecs, kBackoffSecs}
  /\ present \subseteq Engines /\ building \in [Engines -> 0 .. Built]
  /\ news \subseteq 0 .. Lag /\ recent \subseteq 0 .. kBurstWindow - 1

\* A notification under way is at least as old as the rebuild.
Coming(e) == \E age \in news : age >= building[e]

\* A change of the set of engines is heard of, or will be; and so is each rebuild, be it by a
\* notification of it, or by one that is on its way since before and ends the quiet as well.
Heard ==
  /\ step = "launch" => gWatched = {} /\ news = {} /\ recent = {} /\ gBurstCount = 0
  /\ step # "launch" =>
       /\ gWatched # present => news # {}
       /\ \A e \in Engines : building[e] # Built => activityAge <= building[e] \/ Coming(e)

\* A tick that has decided to write has heard of every rebuild but those of this moment.
PinHeard == step = "pin" => \A e \in Engines : building[e] = Built \/ building[e] <= Lag

\* The tool's writes of the burst window under way, and the others that are recent.
Since == {age \in recent : age <= burstAge}
Before == recent \ Since

\* The count has counted those of its window; a count beyond the limit has the tool wait until
\* all of them are old; and a window is as old as its last write at least, or older when it has
\* more than one.
Fought ==
  /\ \A age \in recent : activityAge <= age
  /\ Cardinality(Before) <= kBurstLimit
  /\ Cardinality(Since) + (IF step = "pin" THEN 1 ELSE 0) <= gBurstCount
  /\ gBurstCount > kBurstLimit => gSettle = kBackoffSecs
  /\ gBurstCount >= 2 => burstAge >= 1
  /\ step # "pin" /\ burstAge <= kBurstWindow =>
       activityAge + (IF gBurstCount >= 2 THEN 1 ELSE 0) <= burstAge

HeardInv == RateTypes /\ Heard /\ PinHeard
RateInv == HeardInv /\ Fought

LEMMA BuiltLasts == Built \in Nat /\ Built = RebuildSecs + 1 /\ Built <= kSettleSecs
BY DEF Built

\* The sets of ages are finite.
LEMMA AgesFinite ==
  ASSUME RateTypes
  PROVE  /\ IsFiniteSet(recent) /\ IsFiniteSet(Since) /\ IsFiniteSet(Before)
         /\ Cardinality(Since) \in Nat /\ Cardinality(Before) \in Nat
         /\ Cardinality(recent) <= Cardinality(Since) + Cardinality(Before)
<1>1. IsFiniteSet(0 .. kBurstWindow - 1)
  BY FS_Interval
<1>2. IsFiniteSet(recent)
  BY <1>1, FS_Subset DEF RateTypes
<1>3. IsFiniteSet(Since) /\ IsFiniteSet(Before)
  BY <1>2, FS_Subset DEF Since, Before
<1>4. recent = Since \cup Before /\ Since \cap Before = {}
  BY DEF Since, Before
<1>5. Cardinality(Since) \in Nat /\ Cardinality(Before) \in Nat
  BY <1>3, FS_CardinalityType
<1>6. Cardinality(Since \cap Before) = 0
  BY <1>4, FS_EmptySet
<1>7. Cardinality(Since \cup Before) =
        Cardinality(Since) + Cardinality(Before) - Cardinality(Since \cap Before)
  BY <1>3, FS_Union
<1>8. Cardinality(recent) = Cardinality(Since) + Cardinality(Before)
  BY <1>4, <1>5, <1>6, <1>7
<1> QED BY <1>2, <1>3, <1>5, <1>8

-----------------------------------------------------------------------------
(* Its steps.                                                              *)

LEMMA InitRateInv == RateInit => RateInv
<1> SUFFICES ASSUME RateInit PROVE RateInv
  OBVIOUS
<1>1. RateTypes
  BY BuiltLasts DEF RateInit, RateTypes
<1>2. Heard /\ PinHeard
  BY DEF RateInit, Heard, PinHeard
<1>3. Since = {} /\ Before = {} /\ Cardinality({}) = 0
  BY FS_EmptySet DEF RateInit, Since, Before
<1>4. Fought
  BY <1>3 DEF RateInit, Fought
<1> QED BY <1>1, <1>2, <1>4 DEF RateInv, HeardInv

\* What may happen to the notifications beside a step: one more, or none.
Told == news' = news \/ news' = news \cup {0}

\* The fight is none of Core Audio's.
LEMMA FightFrame ==
  ASSUME Fought, UNCHANGED << step, burstAge, gBurstCount, gSettle, recent >>,
         activityAge' = activityAge \/ activityAge' = 0, RateTypes
  PROVE  Fought'
<1>1. Since' = Since /\ Before' = Before
  BY DEF Since, Before
<1>2. \A age \in recent : age \in Nat
  BY DEF RateTypes
<1>3. (\A age \in recent : activityAge <= age)'
  BY <1>2 DEF Fought
<1>4. (step # "pin" /\ burstAge <= kBurstWindow =>
         activityAge + (IF gBurstCount >= 2 THEN 1 ELSE 0) <= burstAge)'
  BY DEF Fought, RateTypes
<1> QED BY <1>1, <1>3, <1>4 DEF Fought

\* An app sets a rate, a plug has an engine rebuilt, or an engine comes or goes.
LEMMA DisturbanceKeepsHeard == ASSUME HeardInv, Disturbance PROVE HeardInv'
<1> USE DEF HeardInv
<1>1. /\ UNCHANGED << step, toolVars, recent >>
  BY DEF Disturbance, AppSetsRate, JackPlug, EngineMoves, toolVars
<1>2. PICK e \in Engines : AppSetsRate(e) \/ JackPlug(e) \/ EngineMoves(e)
  BY DEF Disturbance
<1>3. /\ present' \subseteq Engines /\ Told
      /\ building' \in {building, [building EXCEPT ![e] = 0], [building EXCEPT ![e] = Built]}
  <2>1. CASE AppSetsRate(e)
    BY <2>1 DEF AppSetsRate, RateTypes, Tell, Told
  <2>2. CASE JackPlug(e)
    BY <2>2 DEF JackPlug, RateTypes, Tell, Told
  <2>3. CASE EngineMoves(e)
    BY <2>3 DEF EngineMoves, RateTypes, Tell, Told
  <2> QED BY <1>2, <2>1, <2>2, <2>3
<1>4. RateTypes'
  <2>1. 0 \in 0 .. Lag /\ 0 \in 0 .. Built /\ Built \in 0 .. Built
    BY BuiltLasts
  <2>2. news' \subseteq 0 .. Lag
    BY <1>3, <2>1 DEF Told, RateTypes
  <2>3. building' \in [Engines -> 0 .. Built]
    BY <1>3, <2>1 DEF RateTypes
  <2> QED BY <1>1, <1>3, <2>2, <2>3 DEF RateTypes, toolVars
<1>5. \A d \in Engines : building'[d] \in {building[d], 0, Built}
  BY <1>3 DEF RateTypes
<1>6. PinHeard'
  BY <1>1, <1>5, BuiltLasts DEF PinHeard
<1>7. step = "launch" => news' = {}
  BY <1>2 DEF Heard, AppSetsRate, JackPlug, EngineMoves, Tell
<1>8. ASSUME step # "launch" PROVE gWatched' # present' => news' # {}
  BY <1>1, <1>2, <1>8 DEF Heard, AppSetsRate, JackPlug, EngineMoves, Tell, toolVars
<1>9. ASSUME step # "launch", NEW d \in Engines, building'[d] # Built
      PROVE  activityAge' <= building'[d] \/ Coming(d)'
  <2>1. CASE building'[d] = building[d]
    <3>1. activityAge <= building[d] \/ Coming(d)
      BY <1>9, <2>1 DEF Heard
    <3>2. news \subseteq news'
      BY <1>3 DEF Told
    <3> QED BY <1>1, <2>1, <3>1, <3>2 DEF Coming, toolVars
  <2>2. CASE building'[d] # building[d]
    <3>1. d = e /\ JackPlug(e) /\ building'[d] = 0
      BY <1>2, <1>5, <1>9, <2>2 DEF AppSetsRate, JackPlug, EngineMoves, RateTypes
    <3>2. news' # {}
      BY <1>9, <3>1 DEF JackPlug, Tell, Heard
    <3>3. \A age \in news' : age >= 0
      BY <1>4 DEF RateTypes
    <3> QED BY <3>1, <3>2, <3>3 DEF Coming
  <2> QED BY <2>1, <2>2
<1>10. Heard'
  BY <1>1, <1>7, <1>8, <1>9 DEF Heard, toolVars
<1> QED BY <1>4, <1>6, <1>10

LEMMA RebuiltKeepsHeard ==
  ASSUME HeardInv, NEW e \in Engines, Rebuilt(e) PROVE HeardInv'
<1> USE DEF HeardInv
<1>1. /\ UNCHANGED << step, toolVars, present, recent >> /\ Told
      /\ building' = [building EXCEPT ![e] = Built]
  BY DEF Rebuilt, Tell, Told
<1>2. RateTypes'
  <2>1. 0 \in 0 .. Lag /\ Built \in 0 .. Built
    BY BuiltLasts
  <2>2. news' \subseteq 0 .. Lag
    BY <1>1, <2>1 DEF Told, RateTypes
  <2>3. building' \in [Engines -> 0 .. Built]
    BY <1>1, <2>1 DEF RateTypes
  <2> QED BY <1>1, <2>2, <2>3 DEF RateTypes, toolVars
<1>3. \A d \in Engines : building'[d] \in {building[d], Built}
  BY <1>1 DEF RateTypes
<1>4. PinHeard'
  BY <1>1, <1>3 DEF PinHeard
<1>5. step = "launch" => news' = {}
  BY DEF Heard, Rebuilt, Tell
<1>6. news \subseteq news'
  BY <1>1 DEF Told
<1>7. ASSUME step # "launch", NEW d \in Engines, building'[d] # Built
      PROVE  activityAge' <= building'[d] \/ Coming(d)'
  <2>1. building'[d] = building[d] /\ (activityAge <= building[d] \/ Coming(d))
    BY <1>3, <1>7 DEF Heard
  <2> QED BY <1>1, <1>6, <2>1 DEF Coming, toolVars
<1>8. Heard'
  BY <1>1, <1>5, <1>6, <1>7 DEF Heard, toolVars
<1> QED BY <1>2, <1>4, <1>8

\* A notification arrives: what it tells of, and all that happened since, is no longer quiet.
LEMMA ChangeKeepsHeard == ASSUME HeardInv, OnRateChange PROVE HeardInv'
<1> USE DEF HeardInv
<1>1. /\ step # "launch" /\ activityAge' = 0 /\ gWatched' = present /\ news' \subseteq news
      /\ UNCHANGED << step, burstAge, gBurstCount, gSettle, present, building, recent >>
  BY DEF OnRateChange, ListensTo
<1>2. RateTypes'
  BY <1>1 DEF RateTypes
<1>3. PinHeard'
  BY <1>1 DEF PinHeard
<1>4. \A d \in Engines : activityAge' <= building'[d]
  BY <1>1 DEF RateTypes
<1>5. Heard'
  BY <1>1, <1>4 DEF Heard
<1> QED BY <1>2, <1>3, <1>5

\* The tick decides: a quiet longer than any rebuild has only notifications under way to fear.
LEMMA ActsKeepsHeard ==
  ASSUME HeardInv, TickActs, gBurstCount' \in 0 .. kBurstLimit + 1 PROVE HeardInv'
<1> USE DEF HeardInv
<1>1. /\ step = "wait" /\ step' = "pin" /\ activityAge >= gSettle
      /\ burstAge' \in {burstAge, 0} /\ gSettle' \in {gSettle, kSettleSecs, kBackoffSecs}
      /\ UNCHANGED << activityAge, gWatched, present, building, news, recent >>
  BY DEF TickActs, Quiet, soundVars
<1>2. RateTypes'
  BY <1>1 DEF RateTypes
<1>3. ASSUME NEW e \in Engines, building[e] # Built PROVE building[e] <= Lag
  <2>1. building[e] \in 0 .. Built /\ building[e] <= RebuildSecs
    BY <1>3, BuiltLasts DEF RateTypes
  <2>2. activityAge >= kSettleSecs
    BY <1>1 DEF RateTypes
  <2>3. Coming(e)
    BY <1>1, <1>3, <2>1, <2>2 DEF Heard, RateTypes
  <2> QED BY <2>1, <2>3 DEF Coming, RateTypes
<1>4. PinHeard'
  BY <1>1, <1>3 DEF PinHeard
<1>5. Heard'
  BY <1>1 DEF Heard, Coming
<1> QED BY <1>2, <1>4, <1>5

\* The writes of a launch and of a tick.
LEMMA PinsKeepHeard ==
  ASSUME HeardInv, Launch \/ TickPins PROVE HeardInv'
<1> USE DEF HeardInv
<1>1. /\ step' = "done" /\ activityAge' = 0 /\ Told
      /\ UNCHANGED << gBurstCount, gSettle, present, building >>
  BY DEF Launch, TickPins, PinAll, Tell, Told
<1>2. burstAge' \in {burstAge, 0} /\ recent' \in {recent, recent \cup {0}}
  BY DEF Launch, TickPins
<1>3. RateTypes'
  <2>1. 0 \in 0 .. Lag /\ 0 \in 0 .. kBurstWindow - 1
    OBVIOUS
  <2>2. news' \subseteq 0 .. Lag /\ recent' \subseteq 0 .. kBurstWindow - 1
    BY <1>1, <1>2, <2>1 DEF Told, RateTypes
  <2> QED BY <1>1, <1>2, <2>2 DEF RateTypes
<1>4. gWatched' # present' => news' # {}
  <2>1. CASE Launch
    BY <2>1 DEF Launch, ListensTo
  <2>2. CASE TickPins
    BY <1>1, <2>2 DEF TickPins, Heard, Told
  <2> QED BY <2>1, <2>2
<1>5. \A d \in Engines : activityAge' <= building'[d]
  BY <1>1 DEF RateTypes
<1>6. Heard' /\ PinHeard'
  BY <1>1, <1>4, <1>5 DEF Heard, PinHeard
<1> QED BY <1>3, <1>6

\* A second passes for all alike.
LEMMA SecondKeepsHeard == ASSUME HeardInv, Second PROVE HeardInv'
<1> USE DEF HeardInv
<1>1. /\ step = "done" /\ step' = "wait" /\ Lag \notin news
      /\ \A e \in Engines : building[e] # RebuildSecs
      /\ activityAge' = Older(activityAge, kBackoffSecs)
      /\ burstAge' = Older(burstAge, kBurstWindow + 1)
      /\ building' = [e \in Engines |-> Older(building[e], Built)]
      /\ news' = {age + 1 : age \in news}
      /\ recent' = {age + 1 : age \in recent} \ {kBurstWindow}
      /\ UNCHANGED << gBurstCount, gSettle, gWatched, present >>
  BY DEF Second
<1>2. news' \subseteq 0 .. Lag
  BY <1>1 DEF RateTypes
<1>3. recent' \subseteq 0 .. kBurstWindow - 1
  <2> SUFFICES ASSUME NEW age \in recent PROVE age + 1 # kBurstWindow => age + 1 \in 0 .. kBurstWindow - 1
    BY <1>1
  <2> QED BY DEF RateTypes
<1>4. building' \in [Engines -> 0 .. Built]
  BY <1>1, BuiltLasts DEF RateTypes, Older
<1>5. activityAge' \in Nat /\ burstAge' \in Nat /\ activityAge' <= activityAge + 1
  BY <1>1 DEF RateTypes, Older
<1>6. RateTypes'
  BY <1>1, <1>2, <1>3, <1>4, <1>5 DEF RateTypes
<1>7. ASSUME NEW d \in Engines, building'[d] # Built
      PROVE  building'[d] = building[d] + 1 /\ building[d] # Built
  BY <1>1, <1>7, BuiltLasts DEF RateTypes, Older
<1>8. ASSUME NEW d \in Engines, building'[d] # Built
      PROVE  activityAge' <= building'[d] \/ Coming(d)'
  <2>1. building'[d] = building[d] + 1 /\ building[d] # Built /\ building[d] \in Nat
    BY <1>7, <1>8 DEF RateTypes
  <2>2. CASE activityAge <= building[d]
    BY <1>5, <2>1, <2>2 DEF RateTypes
  <2>3. CASE Coming(d)
    <3>1. PICK age \in news : age >= building[d]
      BY <2>3 DEF Coming
    <3>2. age + 1 \in news' /\ age + 1 >= building[d] + 1
      BY <1>1, <2>1, <3>1 DEF RateTypes
    <3> QED BY <2>1, <3>2 DEF Coming
  <2> QED BY <1>1, <2>1, <2>2, <2>3 DEF Heard
<1>9. gWatched' # present' => news' # {}
  BY <1>1 DEF Heard
<1>10. Heard' /\ PinHeard'
  BY <1>1, <1>8, <1>9 DEF Heard, PinHeard
<1> QED BY <1>6, <1>10

-----------------------------------------------------------------------------
(* The fight.                                                              *)

\* The tick decides: a window that is over has no more recent writes than its limit, because
\* one that went beyond it had the tool wait for longer than they are recent.
LEMMA ActsKeepFight == ASSUME RateInv, TickActs PROVE gBurstCount' \in 0 .. kBurstLimit + 1 /\ Fought'
<1> USE DEF RateInv, HeardInv
<1>1. /\ step = "wait" /\ step' = "pin" /\ activityAge >= gSettle
      /\ gBurstCount' = IF burstAge > kBurstWindow THEN 1 ELSE gBurstCount + 1
      /\ burstAge' = IF burstAge > kBurstWindow THEN 0 ELSE burstAge
      /\ gBurstCount' > kBurstLimit => gSettle' = kBackoffSecs
      /\ UNCHANGED << activityAge, recent >>
  BY DEF TickActs, Quiet, BurstCount
<1>2. /\ activityAge >= 1 /\ \A age \in recent : age \in Nat /\ age < kBurstWindow /\ activityAge <= age
      /\ gBurstCount \in Nat /\ gBurstCount <= kBurstLimit + 1 /\ burstAge \in Nat /\ activityAge \in Nat
  BY <1>1 DEF RateTypes, Fought
<1>3. gBurstCount > kBurstLimit => activityAge >= kBurstWindow
  BY <1>1, <1>2 DEF Fought
<1>4. CASE burstAge > kBurstWindow
  <2>1. Since = recent
    BY <1>2, <1>4 DEF Since
  <2>2. Since' = {}
    BY <1>1, <1>2, <1>4 DEF Since
  <2>3. Before' = recent
    BY <1>1, <2>2 DEF Before
  <2>4. Cardinality(Since) <= gBurstCount /\ Cardinality(Since) \in Nat
    BY <1>1, AgesFinite DEF Fought
  <2>5. Cardinality(Before') <= kBurstLimit
    <3>1. CASE gBurstCount <= kBurstLimit
      BY <1>2, <2>1, <2>3, <2>4, <3>1
    <3>2. CASE gBurstCount > kBurstLimit
      <4>1. recent = {}
        BY <1>2, <1>3, <3>2
      <4> QED BY <2>3, <4>1, FS_EmptySet
    <3> QED BY <1>2, <3>1, <3>2
  <2>6. Cardinality(Since') = 0
    BY <2>2, FS_EmptySet
  <2> QED BY <1>1, <1>2, <1>4, <2>5, <2>6 DEF Fought
<1>5. CASE ~(burstAge > kBurstWindow)
  <2>1. gBurstCount <= kBurstLimit
    BY <1>1, <1>2, <1>3, <1>5 DEF Fought
  <2>2. gBurstCount' = gBurstCount + 1 /\ burstAge' = burstAge
    BY <1>1, <1>5
  <2>3. Since' = Since /\ Before' = Before
    BY <1>1, <2>2 DEF Since, Before
  <2>4. burstAge >= 1
    BY <1>1, <1>2, <1>5 DEF Fought
  <2>5. Cardinality(Since) + 1 <= gBurstCount + 1
    BY <1>1, <1>2, AgesFinite DEF Fought
  <2> QED BY <1>1, <1>2, <2>1, <2>2, <2>3, <2>4, <2>5 DEF Fought
<1> QED BY <1>4, <1>5

\* The write was counted when it was decided.
LEMMA PinsKeepFight == ASSUME RateInv, TickPins PROVE Fought'
<1> USE DEF RateInv, HeardInv
<1>1. /\ step = "pin" /\ step' = "done" /\ activityAge' = 0 /\ recent' \in {recent, recent \cup {0}}
      /\ UNCHANGED << burstAge, gBurstCount, gSettle >>
  BY DEF TickPins
<1>2. /\ \A age \in recent' : activityAge' <= age
      /\ gBurstCount \in Nat /\ burstAge \in Nat
  BY <1>1 DEF RateTypes
<1>3. Since' \subseteq Since \cup {0} /\ Before' \subseteq Before
  BY <1>1, <1>2 DEF Since, Before
<1>4. /\ IsFiniteSet(Since) /\ IsFiniteSet(Before)
      /\ Cardinality(Since) \in Nat /\ Cardinality(Before) \in Nat
  BY AgesFinite
<1>5. IsFiniteSet(Since \cup {0}) /\ Cardinality(Since \cup {0}) <= Cardinality(Since) + 1
  BY <1>4, FS_AddElement
<1>6. /\ Cardinality(Since') <= Cardinality(Since \cup {0}) /\ Cardinality(Since') \in Nat
      /\ Cardinality(Before') <= Cardinality(Before) /\ Cardinality(Before') \in Nat
  BY <1>3, <1>4, <1>5, FS_Subset, FS_CardinalityType
<1>7. Cardinality(Since \cup {0}) \in Nat
  BY <1>5, FS_CardinalityType
<1>8. Cardinality(Before') <= kBurstLimit
  BY <1>4, <1>6 DEF Fought
<1>9. Cardinality(Since') <= gBurstCount
  BY <1>1, <1>2, <1>4, <1>5, <1>6, <1>7 DEF Fought
<1>10. /\ gBurstCount' >= 2 => burstAge' >= 1
       /\ activityAge' + (IF gBurstCount' >= 2 THEN 1 ELSE 0) <= burstAge'
  BY <1>1, <1>2 DEF Fought
<1> QED BY <1>1, <1>2, <1>6, <1>8, <1>9, <1>10 DEF Fought

\* A set of ages that all grew by one is no larger.
LEMMA OlderAges ==
  ASSUME NEW S \in SUBSET Nat, IsFiniteSet(S), NEW T \in SUBSET {age + 1 : age \in S}
  PROVE  IsFiniteSet(T) /\ Cardinality(T) <= Cardinality(S)
<1> DEFINE U == {age + 1 : age \in S}
           f == [age \in S |-> age + 1]
<1>1. f \in Surjection(S, U)
  BY DEF Surjection
<1>2. IsFiniteSet(U) /\ Cardinality(U) <= Cardinality(S)
  BY <1>1, FS_Surjection
<1>3. /\ IsFiniteSet(T) /\ Cardinality(T) <= Cardinality(U)
      /\ Cardinality(S) \in Nat /\ Cardinality(T) \in Nat /\ Cardinality(U) \in Nat
  BY <1>2, FS_Subset, FS_CardinalityType
<1> HIDE DEF U
<1> QED BY <1>2, <1>3

LEMMA SecondKeepsFight == ASSUME RateInv, Second PROVE Fought'
<1> USE DEF RateInv, HeardInv
<1>1. /\ step = "done" /\ step' = "wait"
      /\ activityAge' = Older(activityAge, kBackoffSecs)
      /\ burstAge' = Older(burstAge, kBurstWindow + 1)
      /\ recent' = {age + 1 : age \in recent} \ {kBurstWindow}
      /\ UNCHANGED << gBurstCount, gSettle >>
  BY DEF Second
<1>2. /\ activityAge \in Nat /\ burstAge \in Nat /\ gBurstCount \in Nat
      /\ recent \subseteq Nat /\ \A age \in recent : age < kBurstWindow
  BY DEF RateTypes
<1>3. /\ activityAge' <= activityAge + 1 /\ activityAge' \in Nat
      /\ \/ burstAge' = burstAge + 1
         \/ burstAge' = kBurstWindow + 1 /\ burstAge >= kBurstWindow + 1
  BY <1>1, <1>2 DEF Older
<1>4. \A age \in recent' : activityAge' <= age
  BY <1>1, <1>2, <1>3 DEF Fought
<1>5. Since' \in SUBSET {age + 1 : age \in Since}
  BY <1>1, <1>2, <1>3 DEF Since
<1>6. Before' \in SUBSET {age + 1 : age \in Before}
  BY <1>1, <1>2, <1>3 DEF Since, Before
<1>7. Since \in SUBSET Nat /\ Before \in SUBSET Nat /\ IsFiniteSet(Since) /\ IsFiniteSet(Before)
  BY <1>2, AgesFinite DEF Since, Before
<1>8. /\ IsFiniteSet(Since') /\ Cardinality(Since') <= Cardinality(Since)
      /\ IsFiniteSet(Before') /\ Cardinality(Before') <= Cardinality(Before)
  BY <1>5, <1>6, <1>7, OlderAges
<1>9. /\ Cardinality(Since) \in Nat /\ Cardinality(Before) \in Nat
      /\ Cardinality(Since') \in Nat /\ Cardinality(Before') \in Nat
  BY <1>7, <1>8, FS_CardinalityType
<1>10. Cardinality(Before') <= kBurstLimit /\ Cardinality(Since') <= gBurstCount
  BY <1>1, <1>2, <1>8, <1>9 DEF Fought
<1>11. gBurstCount' >= 2 => burstAge' >= 1
  BY <1>1, <1>2, <1>3
<1>12. burstAge' <= kBurstWindow => activityAge' + (IF gBurstCount' >= 2 THEN 1 ELSE 0) <= burstAge'
  BY <1>1, <1>2, <1>3 DEF Fought
<1>13. gBurstCount' > kBurstLimit => gSettle' = kBackoffSecs
  BY <1>1 DEF Fought
<1> QED BY <1>1, <1>2, <1>4, <1>9, <1>10, <1>11, <1>12, <1>13 DEF Fought

\* Nothing has been written before the launch, and the launch counts for nothing.
LEMMA LaunchKeepsFight == ASSUME RateInv, Launch PROVE Fought'
<1>1. /\ step' = "done" /\ activityAge' = 0 /\ burstAge' = 0 /\ recent' = {} /\ gBurstCount' = 0
      /\ UNCHANGED gSettle
  BY DEF Launch, RateInv, HeardInv, Heard
<1>2. Since' = {} /\ Before' = {} /\ Cardinality({}) = 0
  BY <1>1, FS_EmptySet DEF Since, Before
<1> QED BY <1>1, <1>2 DEF Fought

LEMMA NextKeepsRate == RateInv /\ [RateNext]_rateVars => RateInv'
<1> SUFFICES ASSUME RateInv, [RateNext]_rateVars PROVE RateInv'
  OBVIOUS
<1> USE DEF RateInv
<1>1. CASE Launch
  BY <1>1, PinsKeepHeard, LaunchKeepsFight
<1>2. CASE OnRateChange
  <2>1. UNCHANGED << step, burstAge, gBurstCount, gSettle, recent >> /\ activityAge' = 0
    BY <1>2 DEF OnRateChange
  <2> QED BY <1>2, <2>1, ChangeKeepsHeard, FightFrame DEF HeardInv
<1>3. CASE TickActs
  BY <1>3, ActsKeepFight, ActsKeepsHeard
<1>4. CASE TickPins
  BY <1>4, PinsKeepHeard, PinsKeepFight
<1>5. CASE Second
  BY <1>5, SecondKeepsHeard, SecondKeepsFight
<1>6. CASE Disturbance \/ \E e \in Engines : Rebuilt(e)
  <2>1. UNCHANGED << step, toolVars, recent >>
    BY <1>6 DEF Disturbance, AppSetsRate, JackPlug, EngineMoves, Rebuilt, toolVars
  <2> QED BY <1>6, <2>1, DisturbanceKeepsHeard, RebuiltKeepsHeard, FightFrame DEF HeardInv, toolVars
<1>7. CASE TickIdle \/ UNCHANGED rateVars
  <2>1. /\ step' = step \/ (step = "wait" /\ step' = "done")
        /\ UNCHANGED << activityAge, burstAge, gBurstCount, gSettle, gWatched, present, building,
                        news, recent >>
    BY <1>7 DEF TickIdle, rateVars, toolVars, soundVars
  <2>2. HeardInv'
    BY <2>1 DEF HeardInv, RateTypes, Heard, PinHeard, Coming
  <2>3. Since' = Since /\ Before' = Before
    BY <2>1 DEF Since, Before
  <2>4. Fought'
    BY <2>1, <2>3 DEF Fought
  <2> QED BY <2>2, <2>4
<1> QED BY <1>1, <1>2, <1>3, <1>4, <1>5, <1>6, <1>7 DEF RateNext, Tick

\* The inductive invariant of latsof-setrate.
THEOREM RateInvariant == RateSpec => []RateInv
BY InitRateInv, NextKeepsRate, PTL DEF RateSpec

\* For any settle time that is longer than a rebuild and any delay of the notifications, the
\* tick writes into no rebuild that is older than the delay.
THEOREM RebuildsAreLeft == RateSpec => RebuildProtected
<1>1. ASSUME RateInv, RateNext
      PROVE  step = "pin" /\ step' = "done" =>
               \A e \in present \cap wrong : building[e] = Built \/ building[e] <= Lag
  BY <1>1 DEF RateInv, HeardInv, PinHeard, RateTypes
<1> QED BY <1>1, RateInvariant, PTL DEF RateSpec, RebuildProtected

\* Once no notification is under way the tool listens to the engines there are, however many
\* come and go.
THEOREM NobodyUnheard == RateSpec => []ListensToAll
<1>1. RateInv => ListensToAll
  BY DEF RateInv, HeardInv, Heard, ListensToAll
<1> QED BY <1>1, RateInvariant, PTL

\* Whatever resets the rate, any window sees at most twice the limit and one of corrections.
THEOREM FightEnds == RateSpec => []FightBounded
<1>1. ASSUME RateInv PROVE FightBounded
  <2>1. /\ Cardinality(recent) <= Cardinality(Since) + Cardinality(Before)
        /\ Cardinality(Since) \in Nat /\ Cardinality(Before) \in Nat /\ IsFiniteSet(recent)
    BY <1>1, AgesFinite DEF RateInv, HeardInv
  <2>2. Cardinality(recent) \in Nat
    BY <2>1, FS_CardinalityType
  <2>3. Cardinality(Before) <= kBurstLimit /\ Cardinality(Since) <= kBurstLimit + 1
    BY <1>1, <2>1 DEF RateInv, HeardInv, RateTypes, Fought
  <2> QED BY <2>1, <2>2, <2>3 DEF FightBounded
<1> QED BY <1>1, RateInvariant, PTL

=============================================================================
