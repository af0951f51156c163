------------------------------- MODULE AfgWake -------------------------------
(***************************************************************************)
(* contrib/latsof-afgwake.c: a user-space daemon that forces the codec's   *)
(* Audio Function Group into D0 when audio runs while it is powered down.  *)
(* It looks when CoreAudio notifies it, on the HAL's notification thread,  *)
(* and every 15 s, on the main thread's run loop.  Both go through one     *)
(* connection to AppleALC, gPort, which they open, use, and close on a     *)
(* failed call without a lock.                                             *)
(*                                                                         *)
(* AppleHDA powers the group down when the analog device idles and, after  *)
(* a jack was inserted meanwhile, starts it without powering it up.        *)
(***************************************************************************)
EXTENDS Integers, FiniteSets

CONSTANTS
  Analog,        \* the device that plays through the codec
  Others,        \* devices that do not: HDMI, the microphone
  MaxStarts,     \* bound on the starts of devices
  MaxJacks,      \* bound on the jack events
  JackNotices,   \* most notifications one jack event brings
  MaxDeaths      \* bound on the times AppleALC's provider goes away

ASSUME DevicesAssumption == Analog \notin Others /\ IsFiniteSet(Others)
ASSUME BoundsAssumption ==
  MaxStarts \in Nat /\ MaxJacks \in Nat /\ MaxDeaths \in Nat /\ JackNotices \in Nat

VARIABLES
  \* the tool
  pc,            \* where the two threads are
  doing,         \* the verb a thread executes, and what for
  gPort,         \* none, a connection, or one that is closed or lost its provider
  listening,     \* has listen_all run?
  pending,       \* notifications of jack events still to deliver
  \* AppleHDA, AppleALC and the kernel
  afg,           \* the group's actual power state
  stale,         \* a jack went in while the group was down: a start will not restore it
  running,       \* devices running IO
  provider,      \* does AppleALC publish its provider?
  \* history
  starts, jacks, deaths,
  heard,         \* notifications of jack events delivered
  prearms,       \* writes made on one
  stopped        \* did all devices stop since a thread looked?

tool == << pc, doing, gPort, listening >>
codec == << afg, stale >>
hal == << running, pending >>
counts == << starts, jacks, deaths >>
history == << heard, prearms, stopped >>
vars == << tool, provider, codec, hal, counts, history >>

Threads == {"listener", "main"}
Devices == {Analog} \cup Others
D0 == 0
D3 == 3

Init ==
  /\ pc = [t \in Threads |-> IF t = "main" THEN "look" ELSE "idle"]
  /\ doing = [t \in Threads |-> "nothing"]
  /\ gPort = "live" /\ provider = TRUE
  /\ listening = FALSE
  /\ pending = 0
  /\ running \in SUBSET Devices
  /\ afg \in {D0, D3}
  /\ stale \in BOOLEAN
  /\ starts = 0 /\ jacks = 0 /\ deaths = 0
  /\ heard = 0 /\ prearms = 0
  /\ stopped = [t \in Threads |-> FALSE]

-----------------------------------------------------------------------------
\* The tool.
At(t, where) == pc[t] = where
Goto(t, where, what) ==
  pc' = [pc EXCEPT ![t] = where] /\ doing' = [doing EXCEPT ![t] = what]

\* What follows a verb that returned state, or failed: for a jack event the look at the
\* running devices, for a correction a read of what it did.
Failed == -1
Follows(t, state) ==
  \/ doing[t] = "before" /\ state > D0 /\ Goto(t, "open", "prearm")
  \/ doing[t] = "before" /\ state <= D0 /\ Goto(t, "look", "nothing")
  \/ doing[t] = "prearm" /\ Goto(t, "look", "nothing")
  \/ doing[t] = "read" /\ state > D0 /\ Goto(t, "open", "write")
  \/ doing[t] = "read" /\ state <= D0 /\ Goto(t, "idle", "nothing")
  \/ doing[t] = "write" /\ state # Failed /\ Goto(t, "open", "after")
  \/ doing[t] = "write" /\ state = Failed /\ Goto(t, "idle", "nothing")
  \/ doing[t] = "after" /\ Goto(t, "idle", "nothing")

\* codec_open: the connection there is, else a new one if the provider is found.
OpenHas(t) ==
  /\ At(t, "open") /\ gPort # "none"
  /\ Goto(t, "call", doing[t])
  /\ UNCHANGED << gPort, listening, provider, codec, hal, counts, history >>

OpenFinds(t) ==
  /\ At(t, "open") /\ gPort = "none"
  /\ IF provider THEN Goto(t, "opening", doing[t]) ELSE Follows(t, Failed)
  /\ UNCHANGED << gPort, listening, provider, codec, hal, counts, history >>

\* IOServiceOpen: the provider may have gone meanwhile, and the other thread may have opened a
\* connection, which this one replaces.
OpenConnects(t) ==
  /\ At(t, "opening")
  /\ IF provider THEN gPort' = "live" /\ Goto(t, "call", doing[t])
     ELSE gPort' = "none" /\ Follows(t, Failed)
  /\ UNCHANGED << listening, provider, codec, hal, counts, history >>

Writes == {"prearm", "write"}

\* codec_verb: the call, on what gPort is by now.
Verb(t) ==
  /\ At(t, "call") /\ gPort = "live"
  /\ Follows(t, afg)
  /\ afg' = IF doing[t] \in Writes THEN D0 ELSE afg
  /\ prearms' = IF doing[t] = "prearm" THEN prearms + 1 ELSE prearms
  /\ UNCHANGED << gPort, listening, provider, stale, hal, counts, heard, stopped >>

VerbFails(t) ==
  /\ At(t, "call") /\ gPort # "live"
  /\ Goto(t, "close", doing[t])
  /\ UNCHANGED << gPort, listening, provider, codec, hal, counts, history >>

\* Mutant: a failed call does not close the connection.
KeepPort(t) ==
  /\ At(t, "close")
  /\ Follows(t, Failed)
  /\ UNCHANGED << gPort, listening, provider, codec, hal, counts, history >>

\* codec_close: whatever gPort is by now, closed and then forgotten.
ClosePort(t) ==
  /\ At(t, "close")
  /\ IF gPort # "none" THEN gPort' = "dead" /\ Goto(t, "closed", doing[t])
     ELSE Follows(t, Failed) /\ UNCHANGED gPort
  /\ UNCHANGED << listening, provider, codec, hal, counts, history >>

ForgetPort(t) ==
  /\ At(t, "closed")
  /\ gPort' = "none"
  /\ Follows(t, Failed)
  /\ UNCHANGED << listening, provider, codec, hal, counts, history >>

\* Mutant: the group is read whether or not anything runs.
LookAlways(t) ==
  /\ At(t, "look")
  /\ Goto(t, "open", "read")
  /\ stopped' = [stopped EXCEPT ![t] = FALSE]
  /\ UNCHANGED << gPort, listening, provider, codec, hal, counts, heard, prearms >>

\* any_device_running, and correct_if_wrong if one is.
Look(t) ==
  /\ At(t, "look")
  /\ IF running # {} THEN Goto(t, "open", "read") ELSE Goto(t, "idle", "nothing")
  /\ stopped' = [stopped EXCEPT ![t] = FALSE]
  /\ UNCHANGED << gPort, listening, provider, codec, hal, counts, heard, prearms >>

\* main: the first look done, the listeners are registered, on the devices there are.
ListenAll ==
  /\ At("main", "idle") /\ ~listening
  /\ listening' = TRUE
  /\ UNCHANGED << pc, doing, gPort, provider, codec, hal, counts, history >>

\* The timer of the run loop, which only main runs.
Backstop ==
  /\ At("main", "idle") /\ listening
  /\ Goto("main", "look", "nothing")
  /\ UNCHANGED << gPort, listening, provider, codec, hal, counts, history >>

\* A notification is a hint to look.  Many things notify, and the start of a device that came
\* after listen_all does not: it may come at any time or never.
OnChange ==
  /\ At("listener", "idle") /\ listening
  /\ Goto("listener", "look", "nothing")
  /\ UNCHANGED << gPort, listening, provider, codec, hal, counts, history >>

\* A notification of a jack event, of either selector, arms the group before it looks.
OnChangeJack ==
  /\ At("listener", "idle") /\ pending > 0
  /\ pending' = pending - 1 /\ heard' = heard + 1
  /\ Goto("listener", "open", "before")
  /\ UNCHANGED << gPort, listening, provider, codec, running, counts, prearms, stopped >>

Step(t) ==
  \/ OpenHas(t) \/ OpenFinds(t) \/ OpenConnects(t)
  \/ Verb(t) \/ VerbFails(t) \/ ClosePort(t) \/ ForgetPort(t)
  \/ Look(t)

-----------------------------------------------------------------------------
\* The rest of the system.
\* A device starts.  AppleHDA powers the group up, unless a jack went in while it was down.
DeviceStarts(d) ==
  /\ starts < MaxStarts /\ starts' = starts + 1
  /\ d \notin running /\ running' = running \cup {d}
  /\ afg' = IF d = Analog /\ ~stale THEN D0 ELSE afg
  /\ UNCHANGED << tool, provider, stale, pending, jacks, deaths, history >>

DeviceStops(d) ==
  /\ d \in running /\ running' = running \ {d}
  /\ stopped' = [t \in Threads |-> stopped[t] \/ running' = {}]
  /\ UNCHANGED << tool, provider, codec, pending, counts, heard, prearms >>

\* AppleHDA's idle policy.
Idles ==
  /\ Analog \notin running /\ afg = D0
  /\ afg' = D3
  /\ UNCHANGED << tool, provider, stale, hal, counts, history >>

\* A jack goes in or out.  While the device runs it is a full re-init of the path.  Two
\* selectors are listened to on every device: the event may be notified of several times,
\* once, when the calls coincide, or not at all.
JackMoves ==
  /\ jacks < MaxJacks /\ jacks' = jacks + 1
  /\ IF Analog \in running THEN afg' = D0 /\ stale' = FALSE
     ELSE stale' = (afg = D3) /\ UNCHANGED afg
  /\ \E n \in 0 .. JackNotices : pending' = IF listening THEN pending + n ELSE pending
  /\ UNCHANGED << tool, provider, running, starts, deaths, history >>

\* Sleep or a reload of AppleALC.
ProviderGoes ==
  /\ deaths < MaxDeaths /\ deaths' = deaths + 1
  /\ provider /\ provider' = FALSE
  /\ gPort' = IF gPort = "live" THEN "dead" ELSE gPort
  /\ UNCHANGED << pc, doing, listening, codec, hal, starts, jacks, history >>

ProviderComes ==
  /\ ~provider /\ provider' = TRUE
  /\ UNCHANGED << tool, codec, hal, counts, history >>

Environment ==
  \/ \E d \in Devices : DeviceStarts(d) \/ DeviceStops(d)
  \/ JackMoves
  \/ ProviderGoes

Next ==
  \/ \E t \in Threads : Step(t)
  \/ ListenAll \/ Backstop \/ OnChange \/ OnChangeJack
  \/ Idles \/ ProviderComes
  \/ Environment

Spec == Init /\ [][Next]_vars

\* The system runs both threads, the timer of the run loop fires, AppleHDA idles an unused
\* codec and AppleALC comes back after a sleep.  No notification need come.
FairSpec ==
  /\ Spec
  /\ \A t \in Threads : WF_vars(Step(t))
  /\ WF_vars(ListenAll) /\ WF_vars(Backstop)
  /\ WF_vars(Idles) /\ WF_vars(ProviderComes)

-----------------------------------------------------------------------------
TypeOK ==
  /\ pc \in [Threads -> {"idle", "look", "open", "opening", "call", "close", "closed"}]
  /\ doing \in [Threads -> {"nothing", "before", "prearm", "read", "write", "after"}]
  /\ \A t \in Threads : doing[t] = "nothing" <=> pc[t] \in {"idle", "look"}
  /\ gPort \in {"none", "live", "dead"} /\ (gPort = "live" => provider)
  /\ afg \in {D0, D3} /\ stale \in BOOLEAN /\ provider \in BOOLEAN /\ listening \in BOOLEAN
  /\ running \subseteq Devices /\ pending \in Nat
  /\ heard \in Nat /\ prearms \in Nat
  /\ stopped \in [Threads -> BOOLEAN]

\* "Correct only the state that cannot be legitimate" (145-149): what is not the arming of a
\* jack event is written while some device runs, except when the last one stopped after the
\* thread had looked.
WritesWhileRunning ==
  [][\A t \in Threads :
       doing[t] = "write" /\ doing'[t] = "after" => running # {} \/ stopped[t]]_vars

\* The arming write is the one that no look justifies: each has a notification of a jack event
\* of its own behind it, so that neither a call that failed and the connection opened again nor
\* the timer nor another notification has the tool fight AppleHDA's idle policy (209-211).
\* It is one for each notification, not "one write per jack event" (207-208).
OnePrearmPerNotice == prearms <= heard

\* The fault is corrected: sound that plays through a group that is down does not go on
\* like that, whichever notifications were missed and however long the provider was away.
\* It is true only once notifications cease: while they come, the two threads may close each
\* other's new connection for ever.
NotificationsCease == <>[]At("listener", "idle")
RunningIsWoken ==
  NotificationsCease =>
    (Analog \in running /\ afg = D3 ~> afg = D0 \/ Analog \notin running)

=============================================================================
