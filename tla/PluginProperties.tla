-------------------------- MODULE PluginProperties --------------------------
(***************************************************************************)
(* The property half of the HAL plug-in (plugin/LatSOFAudioPlugin.c): the  *)
(* HAL's threads ask for the size of a property, then for its value, set   *)
(* properties, and are told of what changed.  The state behind them, one   *)
(* set of globals for the box, the streams and the controls, is guarded by *)
(* gPlugIn_StateMutex, but the lists of the plug-in object read            *)
(* gBox_Acquired without it, notifications are sent after it is released,  *)
(* one of them from a dispatched block, and whether the box is acquired is *)
(* kept in the HAL's storage across the crash of the process that hosts    *)
(* the plug-in.                                                            *)
(*                                                                         *)
(* What a property takes and returns is in PluginObjects; here are the     *)
(* properties whose value changes.  A section that only takes the mutex,   *)
(* changes one thing and releases it is one step.                          *)
(***************************************************************************)
EXTENDS PluginObjects

CONSTANTS
  Threads,      \* the HAL's threads
  Nobody,       \* holder of a free mutex
  Names,        \* strings the box can be named with
  DefaultName,  \* the constant string it is named with at start
  NoName,       \* NULL, or the local of a thread that holds no name
  Directions,   \* the input and the output: a stream and three controls each
  MaxVolume,    \* 1.0 as a scalar volume, in steps; decibels count in steps squared
  MaxRefs,      \* UINT32_MAX, the largest count of references
  MaxSets       \* bound on the properties set in the life of a host process

ASSUME ThreadsAssumption == Nobody \notin Threads
ASSUME NamesAssumption == DefaultName \notin Names /\ NoName \notin Names \cup {DefaultName}
ASSUME BoundsAssumption == MaxVolume \in Nat \ {0} /\ MaxRefs \in Nat \ {0} /\ MaxSets \in Nat

VARIABLES
  gPlugIn_StateMutex,
  gPlugIn_Host,         \* has Initialize been called in this process?
  gPlugIn_RefCount,
  gBox_Acquired, gBox_Name,
  gStream_IsActive, gVolume, gMute,   \* of each direction
  storage,              \* the HAL's storage: what was last stored of the flag
  pc,                   \* where each thread is
  call,                 \* what its call is about
  blocks,               \* dispatched blocks that have not run
  \* history
  retains,              \* references the plug-in holds on each name
  seen,                 \* values gBox_Acquired had since a thread asked for the size
  untold,               \* properties changed that the HAL was not told of since
  sets                  \* properties set in this process

box == << gBox_Acquired, gBox_Name, retains >>
controls == << gStream_IsActive, gVolume, gMute >>
threads == << pc, call, seen >>
vars == << gPlugIn_StateMutex, gPlugIn_Host, gPlugIn_RefCount, box, controls, storage, threads,
           blocks, untold, sets >>

At(object, p) == << object, p >>
\* The lists, whose length the flag decides.
Lists == {At("PlugIn", "OwnedObjects"), At("PlugIn", "DeviceList"), At("Box", "DeviceList")}

NoCall == [about |-> At("none", "none"), room |-> 0, answer |-> 0, changed |-> {},
           name |-> NoName]

\* What a host process starts with.
InitProcess ==
  /\ gPlugIn_StateMutex = Nobody /\ gPlugIn_Host = FALSE /\ gPlugIn_RefCount = 0
  /\ gBox_Acquired = TRUE /\ gBox_Name = NoName
  /\ gStream_IsActive = [d \in Directions |-> TRUE]
  /\ gVolume = [d \in Directions |-> MaxVolume]
  /\ gMute = [d \in Directions |-> FALSE]
  /\ pc = [c \in Threads |-> "idle"] /\ call = [c \in Threads |-> NoCall]
  /\ blocks = 0
  /\ retains = [n \in Names |-> 0] /\ seen = [c \in Threads |-> {}]
  /\ untold = {} /\ sets = 0

Init == InitProcess /\ storage \in {{}, {TRUE}, {FALSE}}

Lock(c) == gPlugIn_StateMutex = Nobody /\ gPlugIn_StateMutex' = c
Locked == gPlugIn_StateMutex = Nobody /\ UNCHANGED gPlugIn_StateMutex
Goto(c, from, to) == pc[c] = from /\ pc' = [pc EXCEPT ![c] = to]
\* A thread of the HAL enters the plug-in, once it is initialized.
Enter(c, to) == gPlugIn_Host /\ Goto(c, "idle", to)

-----------------------------------------------------------------------------
\* The life of the plug-in.

\* The stored flag is read back.  The name is looked for under the same key, where no string
\* ever is: it starts as the constant.
Initialize ==
  /\ ~gPlugIn_Host /\ gPlugIn_Host' = TRUE
  /\ gBox_Acquired' = IF storage = {} THEN gBox_Acquired ELSE TRUE \in storage
  /\ gBox_Name' = IF gBox_Name = NoName THEN DefaultName ELSE gBox_Name
  /\ UNCHANGED << gPlugIn_StateMutex, gPlugIn_RefCount, retains, controls, storage, threads,
                  blocks, untold, sets >>

\* QueryInterface counts without a limit and AddRef stops at the largest UInt32: the model
\* asks for no interface once it is reached.
AddRef ==
  /\ gPlugIn_Host /\ Locked
  /\ gPlugIn_RefCount < MaxRefs
  /\ gPlugIn_RefCount' = gPlugIn_RefCount + 1
  /\ UNCHANGED << gPlugIn_Host, box, controls, storage, threads, blocks, untold, sets >>

Release ==
  /\ gPlugIn_Host /\ Locked
  /\ gPlugIn_RefCount > 0
  /\ gPlugIn_RefCount' = gPlugIn_RefCount - 1
  /\ UNCHANGED << gPlugIn_Host, box, controls, storage, threads, blocks, untold, sets >>

\* The host process dies and is started again: all but the storage is as at first.
HostDies ==
  /\ gPlugIn_Host
  /\ gPlugIn_StateMutex' = Nobody /\ gPlugIn_Host' = FALSE /\ gPlugIn_RefCount' = 0
  /\ gBox_Acquired' = TRUE /\ gBox_Name' = NoName
  /\ gStream_IsActive' = [d \in Directions |-> TRUE]
  /\ gVolume' = [d \in Directions |-> MaxVolume]
  /\ gMute' = [d \in Directions |-> FALSE]
  /\ pc' = [c \in Threads |-> "idle"] /\ call' = [c \in Threads |-> NoCall]
  /\ blocks' = 0
  /\ retains' = [n \in Names |-> 0] /\ seen' = [c \in Threads |-> {}]
  /\ untold' = {} /\ sets' = 0
  /\ UNCHANGED storage

-----------------------------------------------------------------------------
\* Reading a list: its size first, then as much of it as there is room for.
LengthOf(a, acquired) ==
  IF a[1] = "PlugIn" THEN PlugInListLength(a[2], acquired) ELSE IF acquired THEN 1 ELSE 0

\* The size of the box's list is read under the mutex, the plug-in's without it.
AskSize(c, a) ==
  /\ Enter(c, "asked")
  /\ a[1] = "Box" => gPlugIn_StateMutex = Nobody
  /\ call' = [call EXCEPT ![c] =
       [NoCall EXCEPT !.about = a, !.room = LengthOf(a, gBox_Acquired) * Word]]
  /\ seen' = [seen EXCEPT ![c] = {gBox_Acquired}]
  /\ UNCHANGED << gPlugIn_StateMutex, gPlugIn_Host, gPlugIn_RefCount, box, controls, storage,
                  blocks, untold, sets >>

Answer(c, n) == call' = [call EXCEPT ![c].answer = n]

Reading(c) ==
  UNCHANGED << gPlugIn_Host, gPlugIn_RefCount, box, controls, storage, seen, blocks, untold,
               sets >>


\* The plug-in's list with no more room than its length by a first look at the flag is
\* filled, with more it is cut to the length by a second look.
GetPlugInListFits(c) ==
  /\ call[c].about[1] = "PlugIn"
  /\ Goto(c, "asked", "answered")
  /\ call[c].room \div Word <= LengthOf(call[c].about, gBox_Acquired)
  /\ Answer(c, call[c].room \div Word)
  /\ Reading(c) /\ UNCHANGED gPlugIn_StateMutex

GetPlugInListClamps(c) ==
  /\ call[c].about[1] = "PlugIn"
  /\ Goto(c, "asked", "clamping")
  /\ call[c].room \div Word > LengthOf(call[c].about, gBox_Acquired)
  /\ Reading(c) /\ UNCHANGED << call, gPlugIn_StateMutex >>

GetPlugInListClamped(c) ==
  /\ Goto(c, "clamping", "answered")
  /\ Answer(c, LengthOf(call[c].about, gBox_Acquired))
  /\ Reading(c) /\ UNCHANGED gPlugIn_StateMutex

\* Mutant: the list of the box's devices is filled whether or not it is acquired.
GetBoxDeviceListStale(c) ==
  /\ call[c].about = At("Box", "DeviceList")
  /\ Goto(c, "asked", "answered")
  /\ Locked
  /\ call[c].room >= IF gBox_Acquired THEN Word ELSE 0
  /\ Answer(c, 1)
  /\ Reading(c)

GetBoxDeviceList(c) ==
  /\ call[c].about = At("Box", "DeviceList")
  /\ Goto(c, "asked", "answered")
  /\ Locked
  /\ call[c].room >= IF gBox_Acquired THEN Word ELSE 0
  /\ Answer(c, IF gBox_Acquired THEN 1 ELSE 0)
  /\ Reading(c)

\* The box is acquired and there is no room for its device: the failure leaves by the label
\* past the unlock, and the mutex stays taken.
GetBoxDeviceListFails(c) ==
  /\ call[c].about = At("Box", "DeviceList")
  /\ Goto(c, "asked", "answered")
  /\ Lock(c)
  /\ gBox_Acquired /\ call[c].room < Word
  /\ Answer(c, Error)
  /\ Reading(c)

\* The box's name: the pointer is copied under the mutex and retained after it.
GetBoxNameCopies(c) ==
  /\ Enter(c, "retaining")
  /\ Locked
  /\ gBox_Name # NoName
  /\ call' = [call EXCEPT ![c] = [NoCall EXCEPT !.name = gBox_Name]]
  /\ Reading(c)

\* Back in the HAL, which owns what it was given.
Return(c) ==
  /\ \/ Goto(c, "answered", "idle")
     \/ Goto(c, "retaining", "idle")
  /\ call' = [call EXCEPT ![c] = NoCall]
  /\ seen' = [seen EXCEPT ![c] = {}]
  /\ UNCHANGED << gPlugIn_StateMutex, gPlugIn_Host, gPlugIn_RefCount, box, controls, storage,
                  blocks, untold, sets >>

-----------------------------------------------------------------------------
\* Setting a property.
Changing(c, properties) ==
  /\ sets < MaxSets /\ sets' = sets + 1
  /\ call' = [call EXCEPT ![c] = [NoCall EXCEPT !.changed = properties]]
  /\ untold' = untold \cup properties

\* A string retained while it is the box's name.  A name of NULL is neither retained nor
\* released, nor is the constant.
Held(r, n, by) == IF n \in Names THEN [r EXCEPT ![n] = @ + by] ELSE r

SetBoxName(c, n) ==
  /\ Enter(c, "notifying") /\ Locked
  /\ retains' = Held(Held(retains, n, 1), gBox_Name, -1)
  /\ gBox_Name' = n
  /\ Changing(c, {At("Box", "Name")})
  /\ UNCHANGED << gPlugIn_Host, gPlugIn_RefCount, gBox_Acquired, controls, storage, seen,
                  blocks >>

\* What the HAL is told of when the flag changes, by the thread and by the block.
AcquiredChanges == {At("Box", "Acquired"), At("Box", "DeviceList")}

\* Mutant: the caller of the set is told of the flag and nobody of the box's list.
SetBoxAcquiredQuietly(c, acquired) ==
  /\ Enter(c, "storing") /\ Lock(c)
  /\ gBox_Acquired # acquired /\ gBox_Acquired' = acquired
  /\ sets < MaxSets /\ sets' = sets + 1
  /\ call' = [call EXCEPT ![c] = [NoCall EXCEPT !.changed = {At("Box", "Acquired")}]]
  /\ untold' = untold \cup AcquiredChanges \cup {At("PlugIn", "DeviceList")}
  /\ seen' = [d \in Threads |-> IF seen[d] = {} THEN {} ELSE seen[d] \cup {acquired}]
  /\ UNCHANGED << gPlugIn_Host, gPlugIn_RefCount, gBox_Name, retains, controls, storage, blocks >>

\* A set of the value it has is nothing; another one keeps the mutex until it is stored.
SetBoxAcquired(c, acquired) ==
  /\ Enter(c, "storing") /\ Lock(c)
  /\ gBox_Acquired # acquired /\ gBox_Acquired' = acquired
  /\ sets < MaxSets /\ sets' = sets + 1
  /\ call' = [call EXCEPT ![c] = [NoCall EXCEPT !.changed = AcquiredChanges]]
  /\ untold' = untold \cup AcquiredChanges \cup {At("PlugIn", "DeviceList")}
  /\ seen' = [d \in Threads |-> IF seen[d] = {} THEN {} ELSE seen[d] \cup {acquired}]
  /\ UNCHANGED << gPlugIn_Host, gPlugIn_RefCount, gBox_Name, retains, controls, storage, blocks >>

\* WriteToStorage and the dispatch of the block, still under the mutex.
StoreAcquired(c) ==
  /\ Goto(c, "storing", "notifying")
  /\ storage' = {gBox_Acquired}
  /\ blocks' = blocks + 1
  /\ gPlugIn_StateMutex' = Nobody
  /\ UNCHANGED << gPlugIn_Host, gPlugIn_RefCount, box, controls, call, seen, untold, sets >>

SetControl(c, properties) ==
  /\ Enter(c, "notifying") /\ Locked
  /\ Changing(c, properties)
  /\ UNCHANGED << gPlugIn_Host, gPlugIn_RefCount, box, storage, seen, blocks >>

SetStreamIsActive(c, d, active) ==
  /\ gStream_IsActive[d] # active
  /\ SetControl(c, {<< "Stream", "IsActive", d >>})
  /\ gStream_IsActive' = [gStream_IsActive EXCEPT ![d] = active]
  /\ UNCHANGED << gVolume, gMute >>

SetMute(c, d, mute) ==
  /\ gMute[d] # mute
  /\ SetControl(c, {<< "Mute", "Value", d >>})
  /\ gMute' = [gMute EXCEPT ![d] = mute]
  /\ UNCHANGED << gStream_IsActive, gVolume >>

Clamped(v, most) == IF v < 0 THEN 0 ELSE IF v > most THEN most ELSE v
\* Decibels from the least of the range: the square of the scalar, and back.
Decibels(scalar) == scalar * scalar
Scalar(decibels) == CHOOSE s \in 0 .. MaxVolume : Decibels(s) = decibels
VolumeChanges(d) ==
  {<< "Volume", "ScalarValue", d >>, << "Volume", "DecibelValue", d >>}

\* The two faces of a volume, both told of whichever is set.
SetVolume(c, d, volume) ==
  /\ gVolume[d] # volume
  /\ SetControl(c, VolumeChanges(d))
  /\ gVolume' = [gVolume EXCEPT ![d] = volume]
  /\ UNCHANGED << gStream_IsActive, gMute >>
SetScalarValue(c, d, scalar) == SetVolume(c, d, Clamped(scalar, MaxVolume))
SetDecibelValue(c, d, decibels) ==
  SetVolume(c, d, Scalar(Clamped(decibels, Decibels(MaxVolume))))

\* SetPropertyData tells the HAL when the mutex is free again.
Notify(c) ==
  /\ Goto(c, "notifying", "idle")
  /\ untold' = untold \ call[c].changed
  /\ call' = [call EXCEPT ![c] = NoCall]
  /\ UNCHANGED << gPlugIn_StateMutex, gPlugIn_Host, gPlugIn_RefCount, box, controls, storage,
                  seen, blocks, sets >>

\* The dispatched block tells it of the plug-in's list of devices.
BlockRuns ==
  /\ blocks > 0 /\ blocks' = blocks - 1
  /\ untold' = untold \ {At("PlugIn", "DeviceList")}
  /\ UNCHANGED << gPlugIn_StateMutex, gPlugIn_Host, gPlugIn_RefCount, box, controls, storage,
                  threads, sets >>

-----------------------------------------------------------------------------
Get(c) ==
  \/ \E a \in Lists : AskSize(c, a)
  \/ GetPlugInListFits(c) \/ GetPlugInListClamps(c) \/ GetPlugInListClamped(c)
  \/ GetBoxDeviceList(c) \/ GetBoxDeviceListFails(c)
  \/ GetBoxNameCopies(c)
  \/ Return(c)

\* Scalars and decibels beyond both ends of the range; between them, those with a scalar.
Set(c) ==
  \/ \E n \in Names \cup {NoName} : SetBoxName(c, n)
  \/ \E acquired \in BOOLEAN : SetBoxAcquired(c, acquired)
  \/ StoreAcquired(c)
  \/ \E d \in Directions :
       \/ \E active \in BOOLEAN : SetStreamIsActive(c, d, active)
       \/ \E mute \in BOOLEAN : SetMute(c, d, mute)
       \/ \E scalar \in -1 .. (MaxVolume + 1) : SetScalarValue(c, d, scalar)
       \/ \E decibels \in {Decibels(s) : s \in 0 .. MaxVolume}
                          \cup {-1, Decibels(MaxVolume) + 1} : SetDecibelValue(c, d, decibels)
  \/ Notify(c)

Next ==
  \/ Initialize \/ AddRef \/ Release \/ HostDies
  \/ \E c \in Threads : Get(c) \/ Set(c)
  \/ BlockRuns

Spec == Init /\ [][Next]_vars
-----------------------------------------------------------------------------
\* The translations of a UID refuse what the HAL passes, the UID of the box comes without
\* its size, and the second sample rate is not written.
KnownGaps ==
  {At("PlugIn", "TranslateUIDToBox"), At("PlugIn", "TranslateUIDToDevice"), At("Box", "BoxUID"),
   At("Device", "AvailableNominalSampleRates")}

\* The five switches of a class agree, for an object of that class.
ClassAgrees(class, scope, acquired) ==
  LET has == HasProperty(class, scope)
      settable == IsPropertySettable(class)
      size == GetPropertyDataSize(class, scope, acquired)
      data == GetPropertyData(class, scope, acquired)
  IN /\ has \subseteq DOMAIN settable \cap DOMAIN size \cap DOMAIN data
     /\ {p \in DOMAIN settable : settable[p]} = SetPropertyData(class)
     /\ \A p \in {p \in has : At(class, p) \notin KnownGaps} :
          /\ AcceptsQualifier(p, HalQualifier(p))
          /\ Reply(data[p], size[p]) = size[p]
          /\ AllWritten(data[p], size[p])
     /\ \A a \in Lists : class = a[1] => size[a[2]] = LengthOf(a, acquired) * Word

\* "For each object, this driver implements all the required properties" (691): the five
\* switches of a class agree.  What an object claims to have has a size, a value and an
\* answer to whether it is settable, what is settable is taken by the set and nothing else
\* is, and a buffer of the size named gets the whole value, every byte of it written.  The size
\* of a list is that of the list as it is.
SwitchesAgree ==
  \A class \in Classes, scope \in Scopes : ClassAgrees(class, scope, gBox_Acquired)

\* A list read in two calls, with the flag looked at up to three times and not always under
\* the mutex (1062, 1081, 1165, 1235, 1518, 1689): what comes back is the list as it was at some
\* moment since its size was asked, never an item too many, and the one failure there is
\* needs the box to have been acquired in between.
ListsAreSnapshots ==
  \A c \in Threads : pc[c] = "answered" =>
    IF call[c].answer = Error THEN seen[c] = BOOLEAN
    ELSE \E acquired \in seen[c] : call[c].answer = LengthOf(call[c].about, acquired)

\* "The new value is different from the old value, so save it" and "send any notifications"
\* (1778, 932): a change of a property the HAL listens to is always followed by telling it,
\* and as long as it has not been, the thread that changed it or a dispatched block is still
\* to do so, whatever others set in the meantime.  And a flag that is read under the mutex
\* is the one a restart of the host would find.
ChangesArePublished ==
  /\ \A a \in untold :
       \/ \E c \in Threads : pc[c] \in {"storing", "notifying"} /\ a \in call[c].changed
       \/ /\ a = At("PlugIn", "DeviceList")
          /\ blocks > 0 \/ \E c \in Threads : pc[c] = "storing"
  /\ gPlugIn_Host /\ gPlugIn_StateMutex = Nobody => storage \subseteq {gBox_Acquired}
=============================================================================
