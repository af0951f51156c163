----------------------- MODULE PluginPropertiesProofs -----------------------
(***************************************************************************)
(* The lists, the notifications and the stored flag of the HAL plug-in,    *)
(* for any threads, names and directions.                                  *)
(***************************************************************************)
EXTENDS PluginProperties, TLAPS

Places ==
  {"idle", "asked", "clamping", "answered", "retaining", "storing", "notifying"}
Properties ==
  Lists \cup {At("Box", "Name"), At("Box", "Acquired")}
  \cup ({"Stream", "Mute", "Volume"} \X {"IsActive", "Value", "ScalarValue", "DecibelValue"}
        \X Directions)
Calls ==
  [about : Lists \cup {At("none", "none")}, room : Nat, answer : Nat \cup {Error},
   changed : SUBSET Properties, name : Names \cup {DefaultName, NoName}]

CallTypes ==
  /\ pc \in [Threads -> Places] /\ call \in [Threads -> Calls]
  /\ seen \in [Threads -> SUBSET BOOLEAN]
  /\ gPlugIn_Host \in BOOLEAN /\ gBox_Acquired \in BOOLEAN
  /\ gBox_Name \in Names \cup {DefaultName, NoName}

-----------------------------------------------------------------------------
(* The sizes of the lists.                                                 *)

LEMMA ListSizes ==
  ASSUME NEW a \in Lists, NEW acquired \in BOOLEAN
  PROVE  /\ LengthOf(a, acquired) \in 0 .. 2
         /\ LengthOf(a, acquired) * Word \in Nat
         /\ (LengthOf(a, acquired) * Word) \div Word = LengthOf(a, acquired)
<1>1. LengthOf(a, acquired) \in 0 .. 2
  BY DEF Lists, At, LengthOf, PlugInListLength
<1> QED BY <1>1 DEF Word

-----------------------------------------------------------------------------
(* What a step of one thread changes of the calls.                         *)

Others(c) ==
  /\ pc' \in [Threads -> Places] /\ call' \in [Threads -> Calls]
  /\ \A d \in Threads \ {c} : pc'[d] = pc[d] /\ call'[d] = call[d]

LEMMA GotoOthers ==
  ASSUME CallTypes, NEW c \in Threads, NEW from, NEW to \in Places, Goto(c, from, to),
         NEW k \in Calls, call' = [call EXCEPT ![c] = k]
  PROVE  Others(c) /\ pc[c] = from /\ pc'[c] = to /\ call'[c] = k
BY DEF CallTypes, Goto, Others

LEMMA NoCallIsCall == NoCall \in Calls
BY DEF NoCall, Calls

\* The parts of the state that the lists and the calls are about.
listed == << gPlugIn_Host, gBox_Acquired, gBox_Name >>

\* A question for a size.
LEMMA AskMoves ==
  ASSUME CallTypes, NEW c \in Threads, NEW a \in Lists, AskSize(c, a)
  PROVE  /\ Others(c) /\ gPlugIn_Host /\ pc[c] = "idle" /\ pc'[c] = "asked"
         /\ call'[c].about = a /\ call'[c].room = LengthOf(a, gBox_Acquired) * Word
         /\ seen' = [seen EXCEPT ![c] = {gBox_Acquired}] /\ UNCHANGED << listed, storage >>
<1> DEFINE k == [NoCall EXCEPT !.about = a, !.room = LengthOf(a, gBox_Acquired) * Word]
<1>1. k \in Calls /\ k.about = a /\ k.room = LengthOf(a, gBox_Acquired) * Word
  BY ListSizes, NoCallIsCall DEF CallTypes, Calls
<1>2. call' = [call EXCEPT ![c] = k]
  BY DEF AskSize
<1>3. /\ Goto(c, "idle", "asked") /\ gPlugIn_Host
      /\ seen' = [seen EXCEPT ![c] = {gBox_Acquired}] /\ UNCHANGED << listed, storage >>
  BY DEF AskSize, Enter, box, listed
<1> HIDE DEF k
<1>4. Others(c) /\ pc[c] = "idle" /\ pc'[c] = "asked" /\ call'[c] = k
  BY <1>1, <1>2, <1>3, GotoOthers DEF Places
<1> QED BY <1>1, <1>3, <1>4

\* The answers.
AnswerSteps(c) ==
  GetPlugInListFits(c) \/ GetPlugInListClamped(c) \/ GetBoxDeviceList(c)
  \/ GetBoxDeviceListFails(c)

LEMMA AnswerMoves ==
  ASSUME CallTypes, NEW c \in Threads, NEW n \in Nat \cup {Error}, NEW from,
         Goto(c, from, "answered"), Answer(c, n)
  PROVE  /\ Others(c) /\ pc[c] = from /\ pc'[c] = "answered"
         /\ call'[c].answer = n /\ call'[c].about = call[c].about
<1> DEFINE k == [call[c] EXCEPT !.answer = n]
<1>1. k \in Calls /\ k.answer = n /\ k.about = call[c].about
  BY DEF CallTypes, Calls
<1>2. call' = [call EXCEPT ![c] = k]
  BY DEF Answer, CallTypes
<1> HIDE DEF k
<1> QED BY <1>1, <1>2, GotoOthers DEF Places

\* A property set: the thread that changed it is to tell the HAL of it.
LEMMA ChangeMoves ==
  ASSUME CallTypes, NEW c \in Threads, NEW to \in Places, NEW properties \in SUBSET Properties,
         Enter(c, to), call' = [call EXCEPT ![c] = [NoCall EXCEPT !.changed = properties]]
  PROVE  /\ Others(c) /\ gPlugIn_Host /\ pc[c] = "idle" /\ pc'[c] = to
         /\ call'[c].changed = properties
<1> DEFINE k == [NoCall EXCEPT !.changed = properties]
<1>1. k \in Calls /\ k.changed = properties
  BY NoCallIsCall DEF Calls
<1>2. Goto(c, "idle", to) /\ gPlugIn_Host
  BY DEF Enter
<1>3. call' = [call EXCEPT ![c] = k]
  OBVIOUS
<1> HIDE DEF k
<1>4. Others(c) /\ pc[c] = "idle" /\ pc'[c] = to /\ call'[c] = k
  BY <1>1, <1>2, <1>3, GotoOthers
<1> QED BY <1>1, <1>2, <1>4

SetControls(c) ==
  \E d \in Directions :
    \/ \E active \in BOOLEAN : SetStreamIsActive(c, d, active)
    \/ \E mute \in BOOLEAN : SetMute(c, d, mute)
    \/ \E scalar \in -1 .. (MaxVolume + 1) : SetScalarValue(c, d, scalar)
    \/ \E decibels \in {Decibels(s) : s \in 0 .. MaxVolume}
                       \cup {-1, Decibels(MaxVolume) + 1} : SetDecibelValue(c, d, decibels)

\* Whatever control is set, to whatever value.
LEMMA ControlMoves ==
  ASSUME CallTypes, NEW c \in Threads, SetControls(c)
  PROVE  \E properties \in SUBSET Properties :
           /\ Others(c) /\ gPlugIn_Host /\ pc[c] = "idle" /\ pc'[c] = "notifying"
           /\ call'[c].changed = properties /\ untold' = untold \cup properties
           /\ gPlugIn_StateMutex = Nobody
           /\ UNCHANGED << listed, storage, seen, blocks, retains, gPlugIn_StateMutex >>
<1>1. PICK properties \in SUBSET Properties : SetControl(c, properties)
  <2>1. PICK d \in Directions :
          \/ \E active \in BOOLEAN : SetStreamIsActive(c, d, active)
          \/ \E mute \in BOOLEAN : SetMute(c, d, mute)
          \/ \E scalar \in -1 .. (MaxVolume + 1) : SetScalarValue(c, d, scalar)
          \/ \E decibels \in {Decibels(s) : s \in 0 .. MaxVolume}
                             \cup {-1, Decibels(MaxVolume) + 1} : SetDecibelValue(c, d, decibels)
    BY DEF SetControls
  <2>2. /\ {<< "Stream", "IsActive", d >>} \in SUBSET Properties
        /\ {<< "Mute", "Value", d >>} \in SUBSET Properties
        /\ VolumeChanges(d) \in SUBSET Properties
    BY DEF Properties, VolumeChanges
  <2>3. \/ SetControl(c, {<< "Stream", "IsActive", d >>})
        \/ SetControl(c, {<< "Mute", "Value", d >>})
        \/ SetControl(c, VolumeChanges(d))
    BY <2>1 DEF SetStreamIsActive, SetMute, SetScalarValue, SetDecibelValue, SetVolume
  <2> QED BY <2>2, <2>3
<1>2. /\ Enter(c, "notifying") /\ Locked /\ Changing(c, properties)
      /\ UNCHANGED << gPlugIn_Host, box, storage, seen, blocks >>
  BY <1>1 DEF SetControl
<1>3. /\ Others(c) /\ gPlugIn_Host /\ pc[c] = "idle" /\ pc'[c] = "notifying"
      /\ call'[c].changed = properties
  BY <1>2, ChangeMoves DEF Changing, Places
<1> QED BY <1>2, <1>3 DEF Changing, Locked, box, listed

\* The end of a call.
LEMMA EndMoves ==
  ASSUME CallTypes, NEW c \in Threads, NEW from \in Places, Goto(c, from, "idle"),
         call' = [call EXCEPT ![c] = NoCall]
  PROVE  Others(c) /\ pc[c] = from /\ pc'[c] = "idle"
BY NoCallIsCall, GotoOthers DEF Places

-----------------------------------------------------------------------------
(* The lists.                                                              *)

ReadingAt == {"asked", "clamping", "answered"}

\* A thread that reads a list has seen the flag there is, and asked for room for the list by a
\* flag it has seen.
ListsInv ==
  /\ CallTypes
  /\ ~gPlugIn_Host => \A c \in Threads : pc[c] = "idle"
  /\ \A c \in Threads :
       pc[c] \in ReadingAt =>
         /\ call[c].about \in Lists /\ gBox_Acquired \in seen[c]
         /\ \E acquired \in seen[c] : call[c].room = LengthOf(call[c].about, acquired) * Word
  /\ ListsAreSnapshots

\* Whatever one thread does but read, and the flag as it was: nothing of the lists changes.
LEMMA ElsewhereKeepsLists ==
  ASSUME ListsInv, NEW c \in Threads, Others(c), pc'[c] \in Places \ ReadingAt,
         gPlugIn_Host \/ pc[c] # "idle",
         UNCHANGED << gPlugIn_Host, gBox_Acquired >>,
         gBox_Name' \in Names \cup {DefaultName, NoName},
         seen' = seen \/ seen' = [seen EXCEPT ![c] = {}]
  PROVE  ListsInv'
<1>1. CallTypes'
  BY DEF ListsInv, CallTypes, Others
<1>2. gPlugIn_Host'
  BY DEF ListsInv
<1>3. \A d \in Threads \ {c} : seen'[d] = seen[d]
  BY DEF ListsInv, CallTypes
<1>4. \A d \in Threads : pc'[d] \in ReadingAt => d # c
  OBVIOUS
<1>5. \A d \in Threads :
        pc'[d] \in ReadingAt =>
          /\ call'[d].about \in Lists /\ gBox_Acquired' \in seen'[d]
          /\ \E acquired \in seen'[d] : call'[d].room = LengthOf(call'[d].about, acquired) * Word
  BY <1>3, <1>4 DEF ListsInv, Others
<1>6. ListsAreSnapshots'
  BY <1>3, <1>4 DEF ListsInv, ListsAreSnapshots, Others, ReadingAt
<1> QED BY <1>1, <1>2, <1>5, <1>6 DEF ListsInv

\* What a list's thread may be with, at each of its places.
ListOf(c) ==
  pc[c] \in ReadingAt =>
    /\ call[c].about \in Lists /\ gBox_Acquired \in seen[c]
    /\ \E acquired \in seen[c] : call[c].room = LengthOf(call[c].about, acquired) * Word
AnswerOf(c) ==
  pc[c] = "answered" =>
    IF call[c].answer = Error THEN seen[c] = BOOLEAN
    ELSE \E acquired \in seen[c] : call[c].answer = LengthOf(call[c].about, acquired)

\* One thread reads on, and the flag is as it was.
LEMMA ReaderKeepsLists ==
  ASSUME ListsInv, NEW c \in Threads, Others(c), UNCHANGED listed,
         gPlugIn_Host \/ pc[c] # "idle",
         seen' \in [Threads -> SUBSET BOOLEAN],
         \A d \in Threads \ {c} : seen'[d] = seen[d],
         ListOf(c)', AnswerOf(c)'
  PROVE  ListsInv'
<1>1. CallTypes'
  BY DEF ListsInv, CallTypes, Others, listed
<1>2. gPlugIn_Host'
  BY DEF ListsInv, listed
<1>3. \A d \in Threads : ListOf(d)' /\ AnswerOf(d)'
  <2>1. ASSUME NEW d \in Threads, d # c PROVE ListOf(d)' /\ AnswerOf(d)'
    <3>1. pc'[d] = pc[d] /\ call'[d] = call[d] /\ seen'[d] = seen[d]
          /\ gBox_Acquired' = gBox_Acquired
      BY <2>1 DEF Others, listed
    <3>2. ListOf(d) /\ AnswerOf(d)
      BY DEF ListsInv, ListsAreSnapshots, ListOf, AnswerOf
    <3> QED BY <3>1, <3>2 DEF ListOf, AnswerOf
  <2> QED BY <2>1
<1> QED BY <1>1, <1>2, <1>3 DEF ListsInv, ListsAreSnapshots, ListOf, AnswerOf

LEMMA AskKeepsLists ==
  ASSUME ListsInv, NEW c \in Threads, NEW a \in Lists, AskSize(c, a) PROVE ListsInv'
<1>1. /\ Others(c) /\ gPlugIn_Host /\ pc'[c] = "asked"
      /\ call'[c].about = a /\ call'[c].room = LengthOf(a, gBox_Acquired) * Word
      /\ seen' = [seen EXCEPT ![c] = {gBox_Acquired}] /\ UNCHANGED listed
  BY AskMoves DEF ListsInv
<1>2. seen' \in [Threads -> SUBSET BOOLEAN] /\ seen'[c] = {gBox_Acquired}
      /\ \A d \in Threads \ {c} : seen'[d] = seen[d]
  BY <1>1 DEF ListsInv, CallTypes
<1>3. ListOf(c)' /\ AnswerOf(c)'
  BY <1>1, <1>2 DEF ListOf, AnswerOf, listed
<1> QED BY <1>1, <1>2, <1>3, ReaderKeepsLists

\* An answer that some flag seen explains.
LEMMA AnswerKeepsLists ==
  ASSUME ListsInv, NEW c \in Threads, NEW from \in {"asked", "clamping"},
         NEW n \in Nat \cup {Error}, Goto(c, from, "answered"), Answer(c, n),
         UNCHANGED << listed, seen >>,
         IF n = Error THEN seen[c] = BOOLEAN
         ELSE \E acquired \in seen[c] : n = LengthOf(call[c].about, acquired)
  PROVE  ListsInv'
<1> USE DEF ListOf, AnswerOf, ReadingAt
<1>1. CallTypes /\ ListOf(c) /\ seen' \in [Threads -> SUBSET BOOLEAN]
  BY DEF ListsInv, CallTypes
<1>2. /\ Others(c) /\ pc[c] = from /\ pc'[c] = "answered"
      /\ call'[c].answer = n /\ call'[c].about = call[c].about
  BY <1>1, AnswerMoves
<1>3. call'[c].room = call[c].room
  BY <1>1 DEF Answer, CallTypes, Calls
<1>4. ListOf(c)'
  BY <1>1, <1>2, <1>3 DEF listed
<1>5. AnswerOf(c)'
  BY <1>2
<1> QED BY <1>1, <1>2, <1>4, <1>5, ReaderKeepsLists

\* What a reader at its list knows.
LEMMA ReaderKnows ==
  ASSUME ListsInv, NEW c \in Threads, pc[c] \in {"asked", "clamping"}
  PROVE  /\ call[c].about \in Lists /\ gBox_Acquired \in seen[c] /\ seen[c] \subseteq BOOLEAN
         /\ LengthOf(call[c].about, gBox_Acquired) \in Nat
         /\ \E acquired \in seen[c] :
              /\ call[c].room = LengthOf(call[c].about, acquired) * Word
              /\ call[c].room \div Word = LengthOf(call[c].about, acquired)
              /\ call[c].room \div Word \in Nat
<1>1. /\ call[c].about \in Lists /\ gBox_Acquired \in seen[c] /\ seen[c] \subseteq BOOLEAN
      /\ \E acquired \in seen[c] : call[c].room = LengthOf(call[c].about, acquired) * Word
  BY DEF ListsInv, CallTypes, ReadingAt
<1> QED BY <1>1, ListSizes

\* The plug-in's list: as much as was asked room for, or the length by another look.
LEMMA PlugInListKeepsLists ==
  ASSUME ListsInv, NEW c \in Threads,
         GetPlugInListFits(c) \/ GetPlugInListClamps(c) \/ GetPlugInListClamped(c)
  PROVE  ListsInv'
<1>1. UNCHANGED << listed, seen >>
  BY DEF GetPlugInListFits, GetPlugInListClamps, GetPlugInListClamped, Reading, box, listed
<1>2. CASE GetPlugInListFits(c)
  <2> DEFINE n == call[c].room \div Word
  <2>1. pc[c] = "asked" /\ Goto(c, "asked", "answered") /\ Answer(c, n)
    BY <1>2 DEF GetPlugInListFits, Goto
  <2>2. n \in Nat /\ \E acquired \in seen[c] : n = LengthOf(call[c].about, acquired)
    BY <2>1, ReaderKnows
  <2> HIDE DEF n
  <2> QED BY <1>1, <2>1, <2>2, AnswerKeepsLists DEF Error
<1>3. CASE GetPlugInListClamps(c)
  <2>1. /\ pc[c] = "asked" /\ pc'[c] = "clamping" /\ call' = call /\ Others(c)
    BY <1>3 DEF ListsInv, GetPlugInListClamps, Goto, Others, CallTypes, Places
  <2>2. ListOf(c)'
    BY <1>1, <2>1 DEF ListsInv, ListOf, ReadingAt, listed
  <2>3. seen' \in [Threads -> SUBSET BOOLEAN] /\ AnswerOf(c)'
    BY <1>1, <2>1 DEF ListsInv, CallTypes, AnswerOf
  <2> QED BY <1>1, <2>1, <2>2, <2>3, ReaderKeepsLists
<1>4. CASE GetPlugInListClamped(c)
  <2> DEFINE n == LengthOf(call[c].about, gBox_Acquired)
  <2>1. pc[c] = "clamping" /\ Goto(c, "clamping", "answered") /\ Answer(c, n)
    BY <1>4 DEF GetPlugInListClamped, Goto
  <2>2. n \in Nat /\ \E acquired \in seen[c] : n = LengthOf(call[c].about, acquired)
    BY <2>1, ReaderKnows
  <2> HIDE DEF n
  <2> QED BY <1>1, <2>1, <2>2, AnswerKeepsLists DEF Error
<1> QED BY <1>2, <1>3, <1>4

\* The box's list, read or refused: a refusal for want of room means that the box was not
\* acquired when the size was asked.
LEMMA BoxListKeepsLists ==
  ASSUME ListsInv, NEW c \in Threads, GetBoxDeviceList(c) \/ GetBoxDeviceListFails(c)
  PROVE  ListsInv'
<1> DEFINE n == IF GetBoxDeviceList(c) THEN IF gBox_Acquired THEN 1 ELSE 0 ELSE Error
<1>1. /\ call[c].about = At("Box", "DeviceList") /\ pc[c] = "asked"
      /\ Goto(c, "asked", "answered") /\ Answer(c, n) /\ UNCHANGED << listed, seen >>
      /\ n = Error => gBox_Acquired /\ call[c].room < Word
      /\ n # Error => n = IF gBox_Acquired THEN 1 ELSE 0
  BY DEF GetBoxDeviceList, GetBoxDeviceListFails, Goto, Reading, box, listed, Error
<1>2. \A acquired : LengthOf(call[c].about, acquired) = IF acquired THEN 1 ELSE 0
  BY <1>1 DEF LengthOf, At
<1>3. /\ gBox_Acquired \in seen[c] /\ seen[c] \subseteq BOOLEAN
      /\ \E acquired \in seen[c] : call[c].room = LengthOf(call[c].about, acquired) * Word
  BY <1>1, ReaderKnows
<1>4. n = Error => seen[c] = BOOLEAN
  <2> SUFFICES ASSUME n = Error PROVE seen[c] = BOOLEAN
    OBVIOUS
  <2>1. TRUE \in seen[c]
    BY <1>1, <1>3
  <2>2. FALSE \in seen[c]
    <3>1. PICK acquired \in seen[c] : call[c].room = LengthOf(call[c].about, acquired) * Word
      BY <1>3
    <3>2. CASE acquired = TRUE
      <4>1. call[c].room = 1 * Word
        BY <1>2, <3>1, <3>2
      <4> QED BY <1>1, <4>1 DEF Word
    <3>3. CASE acquired # TRUE
      BY <1>3, <3>3
    <3> QED BY <3>2, <3>3
  <2> QED BY <1>3, <2>1, <2>2
<1>5. n # Error => \E acquired \in seen[c] : n = LengthOf(call[c].about, acquired)
  BY <1>1, <1>2, <1>3
<1>6. n \in Nat \cup {Error}
  OBVIOUS
<1> HIDE DEF n
<1> QED BY <1>1, <1>4, <1>5, <1>6, AnswerKeepsLists

\* The flag changes for every thread that reads a list.
LEMMA AcquiredKeepsLists ==
  ASSUME ListsInv, NEW c \in Threads, NEW acquired \in BOOLEAN, SetBoxAcquired(c, acquired)
  PROVE  ListsInv'
<1>1. AcquiredChanges \in SUBSET Properties
  BY DEF AcquiredChanges, Properties, Lists
<1>2. Others(c) /\ gPlugIn_Host /\ pc'[c] = "storing"
  BY <1>1, ChangeMoves DEF SetBoxAcquired, ListsInv, Places
<1>3. /\ gBox_Acquired' = acquired /\ UNCHANGED << gPlugIn_Host, gBox_Name >>
      /\ seen' = [d \in Threads |-> IF seen[d] = {} THEN {} ELSE seen[d] \cup {acquired}]
  BY DEF SetBoxAcquired
<1>4. CallTypes'
  BY <1>2, <1>3 DEF ListsInv, CallTypes, Others
<1>5. ASSUME NEW d \in Threads PROVE ListOf(d)' /\ AnswerOf(d)'
  <2>1. CASE d = c
    BY <1>2, <2>1 DEF ListOf, AnswerOf, ReadingAt
  <2>2. CASE d # c
    <3>1. pc'[d] = pc[d] /\ call'[d] = call[d] /\ seen[d] \subseteq seen'[d]
          /\ seen[d] \subseteq BOOLEAN /\ seen'[d] \subseteq BOOLEAN
          /\ (seen[d] # {} => acquired \in seen'[d])
      BY <1>2, <1>3, <2>2 DEF Others, ListsInv, CallTypes
    <3>2. ListOf(d) /\ AnswerOf(d)
      BY DEF ListsInv, ListsAreSnapshots, ListOf, AnswerOf
    <3>3. ListOf(d)'
      BY <1>3, <3>1, <3>2 DEF ListOf, ReadingAt
    <3>4. AnswerOf(d)'
      <4>1. CASE call[d].answer = Error
        BY <3>1, <3>2, <4>1 DEF AnswerOf
      <4>2. CASE call[d].answer # Error
        BY <3>1, <3>2, <4>2 DEF AnswerOf
      <4> QED BY <4>1, <4>2
    <3> QED BY <3>3, <3>4
  <2> QED BY <2>1, <2>2
<1> QED BY <1>2, <1>3, <1>4, <1>5 DEF ListsInv, ListsAreSnapshots, ListOf, AnswerOf

\* The steps of a thread that does not read a list.
LEMMA CallKeepsLists ==
  ASSUME ListsInv, NEW c \in Threads,
         \/ GetBoxNameCopies(c) \/ Return(c) \/ StoreAcquired(c) \/ SetControls(c) \/ Notify(c)
         \/ \E n \in Names \cup {NoName} : SetBoxName(c, n)
  PROVE  ListsInv'
<1> USE DEF Places, ReadingAt
<1>0. CallTypes
  BY DEF ListsInv
<1>1. CASE GetBoxNameCopies(c)
  <2> DEFINE k == [NoCall EXCEPT !.name = gBox_Name]
  <2>1. k \in Calls
    BY <1>0, NoCallIsCall DEF Calls, CallTypes
  <2>2. /\ Goto(c, "idle", "retaining") /\ call' = [call EXCEPT ![c] = k] /\ gPlugIn_Host
        /\ UNCHANGED << listed, seen >>
    BY <1>1 DEF GetBoxNameCopies, Enter, Reading, box, listed
  <2> HIDE DEF k
  <2>3. Others(c) /\ pc'[c] = "retaining"
    BY <1>0, <2>1, <2>2, GotoOthers
  <2> QED BY <1>0, <2>2, <2>3, ElsewhereKeepsLists DEF CallTypes, listed
<1>2. CASE Return(c) \/ Notify(c)
  <2>1. PICK from \in {"answered", "retaining", "notifying"} :
          /\ Goto(c, from, "idle") /\ call' = [call EXCEPT ![c] = NoCall]
          /\ UNCHANGED listed /\ (seen' = seen \/ seen' = [seen EXCEPT ![c] = {}])
    BY <1>2 DEF Return, Notify, box, listed
  <2>2. Others(c) /\ pc[c] = from /\ pc'[c] = "idle"
    BY <1>0, <2>1, EndMoves
  <2> QED BY <1>0, <2>1, <2>2, ElsewhereKeepsLists DEF CallTypes, listed
<1>3. CASE StoreAcquired(c)
  <2>1. Others(c) /\ pc[c] = "storing" /\ pc'[c] = "notifying"
    BY <1>0, <1>3 DEF StoreAcquired, Goto, Others, CallTypes
  <2> QED BY <1>0, <1>3, <2>1, ElsewhereKeepsLists DEF StoreAcquired, CallTypes, box
<1>4. CASE SetControls(c)
  <2>1. /\ Others(c) /\ gPlugIn_Host /\ pc'[c] = "notifying" /\ UNCHANGED << listed, seen >>
    BY <1>0, <1>4, ControlMoves
  <2> QED BY <1>0, <2>1, ElsewhereKeepsLists DEF CallTypes, listed
<1>5. ASSUME NEW n \in Names \cup {NoName}, SetBoxName(c, n) PROVE ListsInv'
  <2>1. {At("Box", "Name")} \in SUBSET Properties
    BY DEF Properties
  <2>2. Others(c) /\ gPlugIn_Host /\ pc'[c] = "notifying"
    BY <1>0, <1>5, <2>1, ChangeMoves DEF SetBoxName, Changing
  <2> QED BY <1>0, <1>5, <2>2, ElsewhereKeepsLists DEF SetBoxName
<1> QED BY <1>1, <1>2, <1>3, <1>4, <1>5

\* The process and its block.
LEMMA ProcessKeepsLists ==
  ASSUME ListsInv,
         Initialize \/ AddRef \/ Release \/ HostDies \/ BlockRuns \/ UNCHANGED vars
  PROVE  ListsInv'
<1>1. CASE Initialize
  <2>1. /\ ~gPlugIn_Host /\ UNCHANGED << pc, call, seen >>
        /\ gPlugIn_Host' = TRUE
        /\ gBox_Acquired' = (IF storage = {} THEN gBox_Acquired ELSE TRUE \in storage)
        /\ gBox_Name' = (IF gBox_Name = NoName THEN DefaultName ELSE gBox_Name)
    BY <1>1 DEF Initialize, threads
  <2> DEFINE stored == TRUE \in storage
  <2>2. stored \in BOOLEAN
    OBVIOUS
  <2> HIDE DEF stored
  <2>3. gBox_Acquired' = gBox_Acquired \/ gBox_Acquired' = stored
    BY <2>1 DEF stored
  <2>4. gBox_Acquired' \in BOOLEAN
    BY <2>2, <2>3 DEF ListsInv, CallTypes
  <2>5. gBox_Name' \in Names \cup {DefaultName, NoName} /\ gPlugIn_Host' \in BOOLEAN
    BY <2>1 DEF ListsInv, CallTypes
  <2>6. CallTypes' /\ gPlugIn_Host'
    BY <2>1, <2>4, <2>5 DEF ListsInv, CallTypes
  <2>7. \A c \in Threads : pc'[c] = "idle"
    BY <2>1 DEF ListsInv
  <2>8. \A c \in Threads : pc'[c] \notin ReadingAt
    BY <2>7 DEF ReadingAt
  <2>9. ListsAreSnapshots'
    BY <2>8 DEF ListsAreSnapshots, ReadingAt
  <2> QED BY <2>6, <2>8, <2>9 DEF ListsInv
<1>2. CASE AddRef \/ Release \/ BlockRuns \/ UNCHANGED vars
  <2>1. UNCHANGED << pc, call, seen, listed >>
    BY <1>2 DEF AddRef, Release, BlockRuns, vars, threads, box, listed
  <2> QED BY <2>1 DEF ListsInv, CallTypes, ListsAreSnapshots, listed
<1>3. CASE HostDies
  <2>1. /\ pc' = [c \in Threads |-> "idle"] /\ call' = [c \in Threads |-> NoCall]
        /\ seen' = [c \in Threads |-> {}] /\ gPlugIn_Host' = FALSE
        /\ gBox_Acquired' = TRUE /\ gBox_Name' = NoName
    BY <1>3 DEF HostDies
  <2>2. \A c \in Threads : pc'[c] = "idle" /\ pc'[c] \notin ReadingAt
    BY <2>1 DEF ReadingAt
  <2>3. CallTypes'
    BY <2>1, NoCallIsCall DEF CallTypes, Places
  <2>4. ListsAreSnapshots'
    BY <2>2 DEF ListsAreSnapshots
  <2> QED BY <2>2, <2>3, <2>4 DEF ListsInv
<1> QED BY <1>1, <1>2, <1>3

LEMMA ListsInvariant == Spec => []ListsInv
<1>1. Init => ListsInv
  <2> SUFFICES ASSUME Init PROVE ListsInv
    OBVIOUS
  <2>1. \A c \in Threads : pc[c] = "idle" /\ pc[c] \notin ReadingAt
    BY DEF Init, InitProcess, ReadingAt
  <2>2. CallTypes
    BY NoCallIsCall DEF Init, InitProcess, CallTypes, Places
  <2>3. ListsAreSnapshots
    BY <2>1 DEF ListsAreSnapshots
  <2> QED BY <2>1, <2>2, <2>3 DEF ListsInv
<1>2. ListsInv /\ [Next]_vars => ListsInv'
  <2> SUFFICES ASSUME ListsInv, [Next]_vars PROVE ListsInv'
    OBVIOUS
  <2>1. ASSUME NEW c \in Threads, Get(c) PROVE ListsInv'
    BY <2>1, AskKeepsLists, PlugInListKeepsLists, BoxListKeepsLists, CallKeepsLists DEF Get
  <2>2. ASSUME NEW c \in Threads, Set(c) PROVE ListsInv'
    BY <2>2, AcquiredKeepsLists, CallKeepsLists DEF Set, SetControls
  <2> QED BY <2>1, <2>2, ProcessKeepsLists DEF Next
<1> QED BY <1>1, <1>2, PTL DEF Spec

\* A list read in two calls, the second of which may look at the flag twice and none of them
\* under one mutex, is the list as it was at some moment since its size was asked.
THEOREM ListsAreOfOneMoment == Spec => []ListsAreSnapshots
BY ListsInvariant, PTL DEF ListsInv

-----------------------------------------------------------------------------
(* What the HAL is told of, and what it keeps.                             *)

Telling == {"storing", "notifying"}

ToldInv ==
  /\ storage \in {{}, {TRUE}, {FALSE}}
  /\ blocks \in Nat
  /\ ChangesArePublished

\* One thread goes on.
Alone(c, from, to) ==
  /\ pc[c] = from /\ pc'[c] = to
  /\ \A d \in Threads \ {c} : pc'[d] = pc[d] /\ call'[d] = call[d]

LEMMA GoesAlone ==
  ASSUME CallTypes, NEW c \in Threads, NEW from, NEW to, Goto(c, from, to),
         (\E k : call' = [call EXCEPT ![c] = k]) \/ call' = call
  PROVE  Alone(c, from, to)
BY DEF CallTypes, Goto, Alone

\* A step that changes nothing the HAL listens to, of a thread with nothing to tell.
LEMMA QuietKeepsTold ==
  ASSUME ToldInv, NEW c \in Threads, NEW from, NEW to, Alone(c, from, to), from \notin Telling,
         UNCHANGED << untold, blocks, storage, gPlugIn_Host, gBox_Acquired >>,
         gPlugIn_StateMutex' # Nobody \/ UNCHANGED gPlugIn_StateMutex
  PROVE  ToldInv'
<1>1. \A d \in Threads : pc[d] \in Telling => pc'[d] = pc[d] /\ call'[d] = call[d]
  BY DEF Alone
<1> QED BY <1>1 DEF ToldInv, ChangesArePublished, Telling

\* A property is set, and is to be told of.
LEMMA ChangeKeepsTold ==
  ASSUME ToldInv, NEW c \in Threads, NEW to, Alone(c, "idle", to), to \in Telling,
         NEW properties, call'[c].changed = properties,
         untold' = untold \cup properties
         \/ /\ to = "storing" /\ untold' = untold \cup properties \cup {At("PlugIn", "DeviceList")},
         UNCHANGED << blocks, storage, gPlugIn_Host >>,
         gPlugIn_StateMutex' # Nobody \/ UNCHANGED << gPlugIn_StateMutex, gBox_Acquired >>
  PROVE  ToldInv'
<1>1. \A d \in Threads : pc[d] \in Telling => pc'[d] = pc[d] /\ call'[d] = call[d]
  BY DEF Alone, Telling
<1>2. pc'[c] = to
  BY DEF Alone
<1>3. ASSUME NEW a \in untold'
      PROVE  \/ \E d \in Threads : pc'[d] \in {"storing", "notifying"} /\ a \in call'[d].changed
             \/ /\ a = At("PlugIn", "DeviceList")
                /\ blocks' > 0 \/ \E d \in Threads : pc'[d] = "storing"
  <2>1. CASE a \in untold
    BY <1>1, <2>1 DEF ToldInv, ChangesArePublished, Telling
  <2>2. CASE a \in properties
    BY <1>2, <2>2 DEF Telling
  <2>3. CASE to = "storing" /\ a = At("PlugIn", "DeviceList")
    BY <1>2, <2>3
  <2> QED BY <2>1, <2>2, <2>3
<1> QED BY <1>3 DEF ToldInv, ChangesArePublished

LEMMA GetKeepsTold ==
  ASSUME ListsInv, ToldInv, NEW c \in Threads, Get(c) PROVE ToldInv'
<1> USE DEF Telling
<1>0. CallTypes
  BY DEF ListsInv
<1>1. CASE \E a \in Lists : AskSize(c, a)
  <2>1. /\ Goto(c, "idle", "asked") /\ \E k : call' = [call EXCEPT ![c] = k]
        /\ UNCHANGED << untold, blocks, storage, gPlugIn_Host, gBox_Acquired, gPlugIn_StateMutex >>
    BY <1>1 DEF AskSize, Enter, box
  <2>2. Alone(c, "idle", "asked")
    BY <1>0, <2>1, GoesAlone
  <2> QED BY <2>1, <2>2, QuietKeepsTold
<1>2. CASE GetPlugInListClamps(c)
  <2>1. /\ Goto(c, "asked", "clamping") /\ call' = call
        /\ UNCHANGED << untold, blocks, storage, gPlugIn_Host, gBox_Acquired, gPlugIn_StateMutex >>
    BY <1>2 DEF GetPlugInListClamps, Reading, box
  <2>2. Alone(c, "asked", "clamping")
    BY <1>0, <2>1, GoesAlone
  <2> QED BY <2>1, <2>2, QuietKeepsTold
<1>3. CASE AnswerSteps(c)
  <2>1. PICK from \in {"asked", "clamping"} : Goto(c, from, "answered")
    BY <1>3 DEF AnswerSteps, GetPlugInListFits, GetPlugInListClamped, GetBoxDeviceList,
                GetBoxDeviceListFails
  <2>2. /\ \E k : call' = [call EXCEPT ![c] = k]
        /\ UNCHANGED << untold, blocks, storage, gPlugIn_Host, gBox_Acquired >>
        /\ gPlugIn_StateMutex' = c \/ UNCHANGED gPlugIn_StateMutex
    <3>1. PICK n : Answer(c, n)
      BY <1>3 DEF AnswerSteps, GetPlugInListFits, GetPlugInListClamped, GetBoxDeviceList,
                  GetBoxDeviceListFails
    <3>2. call' = [call EXCEPT ![c] = [call[c] EXCEPT !.answer = n]]
      BY <1>0, <3>1 DEF Answer, CallTypes
    <3> QED BY <1>3, <3>2 DEF AnswerSteps, GetPlugInListFits, GetPlugInListClamped,
                        GetBoxDeviceList, GetBoxDeviceListFails, Reading, Locked, Lock, box
  <2>3. Alone(c, from, "answered")
    BY <1>0, <2>1, <2>2, GoesAlone
  <2> QED BY <2>2, <2>3, QuietKeepsTold, ThreadsAssumption
<1>4. CASE GetBoxNameCopies(c)
  <2>1. /\ Goto(c, "idle", "retaining") /\ \E k : call' = [call EXCEPT ![c] = k]
        /\ UNCHANGED << untold, blocks, storage, gPlugIn_Host, gBox_Acquired, gPlugIn_StateMutex >>
    BY <1>4 DEF GetBoxNameCopies, Enter, Reading, Locked, box
  <2>2. Alone(c, "idle", "retaining")
    BY <1>0, <2>1, GoesAlone
  <2> QED BY <2>1, <2>2, QuietKeepsTold
<1>5. CASE Return(c)
  <2>1. PICK from \in {"answered", "retaining"} : Goto(c, from, "idle")
    BY <1>5 DEF Return
  <2>2. /\ \E k : call' = [call EXCEPT ![c] = k]
        /\ UNCHANGED << untold, blocks, storage, gPlugIn_Host, gBox_Acquired, gPlugIn_StateMutex >>
    BY <1>5 DEF Return, box
  <2>3. Alone(c, from, "idle")
    BY <1>0, <2>1, <2>2, GoesAlone
  <2> QED BY <2>2, <2>3, QuietKeepsTold
<1> QED BY <1>1, <1>2, <1>3, <1>4, <1>5 DEF Get, AnswerSteps

LEMMA SetKeepsTold ==
  ASSUME ListsInv, ToldInv, NEW c \in Threads, Set(c) PROVE ToldInv'
<1> USE DEF Telling
<1>0. CallTypes
  BY DEF ListsInv
<1>1. ASSUME NEW n \in Names \cup {NoName}, SetBoxName(c, n) PROVE ToldInv'
  <2> DEFINE properties == {At("Box", "Name")}
  <2>1. /\ Goto(c, "idle", "notifying") /\ untold' = untold \cup properties
        /\ call' = [call EXCEPT ![c] = [NoCall EXCEPT !.changed = properties]]
        /\ UNCHANGED << blocks, storage, gPlugIn_Host, gBox_Acquired, gPlugIn_StateMutex >>
    BY <1>1 DEF SetBoxName, Enter, Changing, Locked
  <2>2. call'[c].changed = properties
    BY <1>0, <2>1 DEF CallTypes, NoCall
  <2>3. Alone(c, "idle", "notifying")
    BY <1>0, <2>1, GoesAlone
  <2> HIDE DEF properties
  <2> QED BY <2>1, <2>2, <2>3, ChangeKeepsTold
<1>2. ASSUME NEW acquired \in BOOLEAN, SetBoxAcquired(c, acquired) PROVE ToldInv'
  <2>1. /\ Goto(c, "idle", "storing")
        /\ untold' = untold \cup AcquiredChanges \cup {At("PlugIn", "DeviceList")}
        /\ call' = [call EXCEPT ![c] = [NoCall EXCEPT !.changed = AcquiredChanges]]
        /\ UNCHANGED << blocks, storage, gPlugIn_Host >> /\ gPlugIn_StateMutex' = c
    BY <1>2 DEF SetBoxAcquired, Enter, Lock
  <2>2. call'[c].changed = AcquiredChanges
    BY <1>0, <2>1 DEF CallTypes, NoCall
  <2>3. Alone(c, "idle", "storing")
    BY <1>0, <2>1, GoesAlone
  <2> QED BY <2>1, <2>2, <2>3, ChangeKeepsTold, ThreadsAssumption
<1>3. CASE SetControls(c)
  <2>1. PICK properties \in SUBSET Properties :
          /\ Others(c) /\ pc[c] = "idle" /\ pc'[c] = "notifying"
          /\ call'[c].changed = properties /\ untold' = untold \cup properties
          /\ UNCHANGED << listed, storage, blocks, gPlugIn_StateMutex >>
    BY <1>0, <1>3, ControlMoves
  <2>2. Alone(c, "idle", "notifying")
    BY <2>1 DEF Others, Alone
  <2> QED BY <2>1, <2>2, ChangeKeepsTold DEF listed
<1>4. CASE StoreAcquired(c)
  <2>1. /\ Goto(c, "storing", "notifying") /\ call' = call /\ storage' = {gBox_Acquired}
        /\ blocks' = blocks + 1
        /\ UNCHANGED << untold, gPlugIn_Host, gBox_Acquired >>
    BY <1>4 DEF StoreAcquired, box
  <2>2. \A d \in Threads : pc[d] \in Telling => pc'[d] \in Telling
    BY <1>0, <2>1 DEF CallTypes, Goto
  <2>3. blocks' \in Nat /\ blocks' > 0
    BY <2>1 DEF ToldInv
  <2>4. storage' \in {{}, {TRUE}, {FALSE}} /\ storage' \subseteq {gBox_Acquired'}
    BY <1>0, <2>1 DEF CallTypes
  <2> QED BY <2>1, <2>2, <2>3, <2>4 DEF ToldInv, ChangesArePublished
<1>5. CASE Notify(c)
  <2>1. /\ Goto(c, "notifying", "idle") /\ call' = [call EXCEPT ![c] = NoCall]
        /\ untold' = untold \ call[c].changed
        /\ UNCHANGED << blocks, storage, gPlugIn_Host, gBox_Acquired, gPlugIn_StateMutex >>
    BY <1>5 DEF Notify, box
  <2>2. Alone(c, "notifying", "idle")
    BY <1>0, <2>1, GoesAlone
  <2>3. \A a \in untold', d \in Threads :
          pc[d] \in Telling /\ (a \in call[d].changed \/ pc[d] = "storing") =>
            pc'[d] = pc[d] /\ call'[d] = call[d]
    BY <2>1, <2>2 DEF Alone
  <2> QED BY <2>1, <2>3 DEF ToldInv, ChangesArePublished
<1> QED BY <1>1, <1>2, <1>3, <1>4, <1>5 DEF Set, SetControls

LEMMA ProcessKeepsTold ==
  ASSUME ListsInv, ToldInv,
         Initialize \/ AddRef \/ Release \/ HostDies \/ BlockRuns \/ UNCHANGED vars
  PROVE  ToldInv'
<1>1. CASE Initialize
  <2>1. /\ UNCHANGED << pc, call, untold, blocks, storage >>
        /\ gBox_Acquired' = (IF storage = {} THEN gBox_Acquired ELSE TRUE \in storage)
    BY <1>1 DEF Initialize, threads
  <2>2. storage' \subseteq {gBox_Acquired'}
    <3>1. CASE storage = {}
      BY <2>1, <3>1
    <3>2. CASE storage = {TRUE}
      BY <2>1, <3>2
    <3>3. CASE storage = {FALSE}
      <4> DEFINE stored == TRUE \in storage
      <4>1. ~stored /\ stored \in BOOLEAN /\ storage # {}
        BY <3>3
      <4>2. gBox_Acquired' = stored
        BY <2>1, <4>1
      <4> HIDE DEF stored
      <4>3. gBox_Acquired' = FALSE
        BY <4>1, <4>2
      <4> QED BY <2>1, <3>3, <4>3
    <3> QED BY <3>1, <3>2, <3>3 DEF ToldInv
  <2> QED BY <2>1, <2>2 DEF ToldInv, ChangesArePublished
<1>2. CASE AddRef \/ Release \/ UNCHANGED vars
  <2>1. UNCHANGED << pc, call, untold, blocks, storage, gPlugIn_Host, gBox_Acquired,
                     gPlugIn_StateMutex >>
    BY <1>2 DEF AddRef, Release, Locked, vars, threads, box
  <2> QED BY <2>1 DEF ToldInv, ChangesArePublished
<1>3. CASE HostDies
  <2>1. untold' = {} /\ blocks' = 0 /\ gPlugIn_Host' = FALSE /\ UNCHANGED storage
    BY <1>3 DEF HostDies
  <2> QED BY <2>1 DEF ToldInv, ChangesArePublished
<1>4. CASE BlockRuns
  <2>1. /\ UNCHANGED << pc, call, storage, gPlugIn_Host, gBox_Acquired, gPlugIn_StateMutex >>
        /\ blocks > 0 /\ blocks' = blocks - 1 /\ untold' = untold \ {At("PlugIn", "DeviceList")}
    BY <1>4 DEF BlockRuns, threads, box
  <2>2. blocks' \in Nat
    BY <2>1 DEF ToldInv
  <2> QED BY <2>1, <2>2 DEF ToldInv, ChangesArePublished
<1> QED BY <1>1, <1>2, <1>3, <1>4

LEMMA ToldInvariant == Spec => []ToldInv
<1>1. Init => ToldInv
  <2> SUFFICES ASSUME Init PROVE ToldInv
    OBVIOUS
  <2>1. /\ storage \in {{}, {TRUE}, {FALSE}} /\ blocks = 0 /\ untold = {}
        /\ gPlugIn_Host = FALSE
    BY DEF Init, InitProcess
  <2> QED BY <2>1 DEF ToldInv, ChangesArePublished
<1>2. ListsInv /\ ToldInv /\ [Next]_vars => ToldInv'
  BY GetKeepsTold, SetKeepsTold, ProcessKeepsTold DEF Next
<1> QED BY <1>1, <1>2, ListsInvariant, PTL DEF Spec

\* What was set and not told of yet has someone who will tell it, and the flag that is read
\* under the mutex is the one a restart finds.
THEOREM ChangesAreKept == Spec => []ChangesArePublished
BY ToldInvariant, PTL DEF ToldInv

-----------------------------------------------------------------------------
(* The references of the box's name.                                       *)

\* The plug-in holds one reference on its box's name and none on any other, however names
\* are set over each other, and over the constant it starts with (1738-1748).
NameIsHeld == retains = [n \in Names |-> IF gBox_Name = n THEN 1 ELSE 0]

THEOREM OneReference == Spec => []NameIsHeld
<1>1. Init => NameIsHeld
  BY NamesAssumption DEF Init, InitProcess, NameIsHeld
<1>2. NameIsHeld /\ [Next]_vars => NameIsHeld'
  <2> SUFFICES ASSUME NameIsHeld, [Next]_vars PROVE NameIsHeld'
    OBVIOUS
  <2>1. CASE Initialize
    BY <2>1, NamesAssumption DEF Initialize, NameIsHeld
  <2>2. CASE HostDies
    BY <2>2, NamesAssumption DEF HostDies, NameIsHeld
  <2>3. ASSUME NEW c \in Threads, NEW n \in Names \cup {NoName}, SetBoxName(c, n)
        PROVE  NameIsHeld'
    <3>1. retains' = Held(Held(retains, n, 1), gBox_Name, -1) /\ gBox_Name' = n
      BY <2>3 DEF SetBoxName
    <3>2. CASE n \in Names
      <4>1. Held(retains, n, 1) = [retains EXCEPT ![n] = @ + 1]
        BY <3>2 DEF Held
      <4> DEFINE both == [retains EXCEPT ![n] = @ + 1]
      <4>2. /\ both \in [Names -> Int]
            /\ \A m \in Names :
                 both[m] = (IF m = n THEN 1 ELSE 0) + IF gBox_Name = m THEN 1 ELSE 0
        BY <3>2 DEF NameIsHeld
      <4> HIDE DEF both
      <4>3. retains' = Held(both, gBox_Name, -1)
        BY <3>1, <4>1 DEF both
      <4>4. retains' \in [Names -> Int]
            /\ \A m \in Names : retains'[m] = IF m = n THEN 1 ELSE 0
        BY <4>2, <4>3 DEF Held
      <4> QED BY <3>1, <4>4 DEF NameIsHeld
    <3>3. CASE n = NoName
      <4>1. retains' = Held(retains, gBox_Name, -1) /\ \A m \in Names : n # m
        BY <3>1, <3>3, NamesAssumption DEF Held
      <4>2. /\ retains \in [Names -> Int]
            /\ \A m \in Names : retains[m] = IF gBox_Name = m THEN 1 ELSE 0
        BY DEF NameIsHeld
      <4>3. retains' \in [Names -> Int] /\ \A m \in Names : retains'[m] = 0
        BY <4>1, <4>2 DEF Held
      <4> QED BY <3>1, <4>1, <4>3 DEF NameIsHeld
    <3> QED BY <3>2, <3>3
  <2>4. ASSUME NEW c \in Threads,
               Get(c) \/ SetControls(c) \/ StoreAcquired(c) \/ Notify(c)
               \/ \E acquired \in BOOLEAN : SetBoxAcquired(c, acquired)
        PROVE  NameIsHeld'
    <3>1. UNCHANGED << gBox_Name, retains >>
      BY <2>4 DEF Get, AskSize, GetPlugInListFits, GetPlugInListClamps, GetPlugInListClamped,
                  GetBoxDeviceList, GetBoxDeviceListFails, GetBoxNameCopies, Return, Reading,
                  SetControls, SetStreamIsActive, SetMute, SetScalarValue, SetDecibelValue,
                  SetVolume, SetControl, StoreAcquired, Notify, SetBoxAcquired, box
    <3> QED BY <3>1 DEF NameIsHeld
  <2>5. CASE AddRef \/ Release \/ BlockRuns \/ UNCHANGED vars
    BY <2>5 DEF AddRef, Release, BlockRuns, vars, box, NameIsHeld
  <2> QED BY <2>1, <2>2, <2>3, <2>4, <2>5 DEF Next, Set, SetControls
<1> QED BY <1>1, <1>2, PTL DEF Spec

-----------------------------------------------------------------------------
(* The five switches of each class.                                        *)

\* A buffer of the size named gets the whole value.
Fits(size, data, p) ==
  Reply(data[p], size[p]) = size[p] /\ AllWritten(data[p], size[p])

\* One of one piece, whose need is its size.
LEMMA ValueFits ==
  ASSUME NEW size, NEW data, NEW p, NEW n \in Nat, size[p] = n, data[p] = Value(n)
  PROVE  Fits(size, data, p)
BY DEF Fits, Reply, Value, AllWritten

\* One of as many items as were counted.
LEMMA ListFits ==
  ASSUME NEW size, NEW data, NEW p, NEW n \in 0 .. 4, NEW w \in Nat \ {0},
         size[p] = n * w, data[p] = List(w, n)
  PROVE  Fits(size, data, p)
<1>1. (n * w) \div w = n
  OBVIOUS
<1>2. Least(n, n) = n
  BY DEF Least
<1>3. /\ List(w, n).list /\ List(w, n).item = w /\ List(w, n).most = n
      /\ List(w, n).written = n
  BY DEF List, Items
<1> QED BY <1>1, <1>2, <1>3 DEF Fits, Reply, AllWritten

\* The translations apart, what the HAL passes as a qualifier is taken.
LEMMA Qualifiers ==
  \A p : p \notin {"TranslateUIDToBox", "TranslateUIDToDevice"} =>
           AcceptsQualifier(p, HalQualifier(p))
BY DEF AcceptsQualifier, HalQualifier

\* The lists that depend on the flag.
LEMMA Lengths ==
  \A acquired \in BOOLEAN :
    /\ LengthOf(At("PlugIn", "OwnedObjects"), acquired) = IF acquired THEN 2 ELSE 1
    /\ LengthOf(At("PlugIn", "DeviceList"), acquired) = IF acquired THEN 1 ELSE 0
    /\ LengthOf(At("Box", "DeviceList"), acquired) = IF acquired THEN 1 ELSE 0
BY DEF LengthOf, At, PlugInListLength

\* The classes, one by one: what each group of properties answers is read off the tables.
LEMMA PlugInAgrees ==
  ASSUME NEW scope \in Scopes, NEW acquired \in BOOLEAN
  PROVE  ClassAgrees("PlugIn", scope, acquired)
<1> DEFINE size == GetPlugInPropertyDataSize(acquired)
           data == GetPlugInPropertyData(acquired)
<1>1. /\ HasProperty("PlugIn", scope) = HasPlugInProperty
      /\ IsPropertySettable("PlugIn") = IsPlugInPropertySettable
      /\ GetPropertyDataSize("PlugIn", scope, acquired) = size
      /\ GetPropertyData("PlugIn", scope, acquired) = data
      /\ SetPropertyData("PlugIn") = SetPlugInPropertyData
  BY DEF HasProperty, IsPropertySettable, GetPropertyDataSize, GetPropertyData, SetPropertyData,
         Controls
<1>2. DOMAIN size = HasPlugInProperty /\ DOMAIN data = HasPlugInProperty
  BY DEF GetPlugInPropertyDataSize, GetPlugInPropertyData, ++, Each, HasPlugInProperty
<1>3. /\ DOMAIN IsPlugInPropertySettable = HasPlugInProperty
      /\ {p \in HasPlugInProperty : IsPlugInPropertySettable[p]} = SetPlugInPropertyData
  BY DEF IsPlugInPropertySettable, Each, SetPlugInPropertyData
<1>4. \A p \in {"OwnedObjects", "DeviceList", "BoxList"} :
        /\ size[p] = PlugInListLength(p, acquired) * Word
        /\ data[p] = List(Word, PlugInListLength(p, acquired))
        /\ PlugInListLength(p, acquired) \in 0 .. 2
  <2>1. \A p \in {"OwnedObjects", "DeviceList", "BoxList"} :
          /\ size[p] = PlugInListLength(p, acquired) * Word
          /\ data[p] = List(Word, PlugInListLength(p, acquired))
    BY DEF GetPlugInPropertyDataSize, GetPlugInPropertyData, ++
  <2>2. \A p \in {"OwnedObjects", "DeviceList", "BoxList"} :
          PlugInListLength(p, acquired) \in 0 .. 2
    BY DEF PlugInListLength
  <2> QED BY <2>1, <2>2
<1>5. size["Manufacturer"] = Pointer /\ data["Manufacturer"] = Value(Pointer)
  BY DEF GetPlugInPropertyDataSize, GetPlugInPropertyData, ++, Each
<1>6. /\ size["ResourceBundle"] = Pointer
      /\ data["ResourceBundle"] = [Value(Word) EXCEPT !.gives = Pointer]
  BY DEF GetPlugInPropertyDataSize, GetPlugInPropertyData, ++, Each
<1>7. \A p \in {"BaseClass", "Class", "Owner"} : size[p] = Word /\ data[p] = Value(Word)
  BY DEF GetPlugInPropertyDataSize, GetPlugInPropertyData, ++, Each
<1>8. \A p \in HasPlugInProperty \ {"TranslateUIDToBox", "TranslateUIDToDevice"} :
        Fits(size, data, p)
  <2>1. \A p \in {"OwnedObjects", "DeviceList", "BoxList"} : Fits(size, data, p)
    BY <1>4, ListFits DEF Word
  <2>2. Fits(size, data, "Manufacturer")
    BY <1>5, ValueFits DEF Pointer
  <2>3. Fits(size, data, "ResourceBundle")
    BY <1>6 DEF Fits, Reply, Value, AllWritten, Word, Pointer
  <2>4. \A p \in {"BaseClass", "Class", "Owner"} : Fits(size, data, p)
    BY <1>7, ValueFits DEF Word
  <2> QED BY <2>1, <2>2, <2>3, <2>4 DEF HasPlugInProperty
<1>9. \A p : p \in {"TranslateUIDToBox", "TranslateUIDToDevice"} => At("PlugIn", p) \in KnownGaps
  BY DEF KnownGaps
<1>10. \A a \in Lists : a[1] = "PlugIn" => size[a[2]] = LengthOf(a, acquired) * Word
  BY <1>4 DEF Lists, At, LengthOf
<1> HIDE DEF size, data
<1> QED BY <1>1, <1>2, <1>3, <1>8, <1>9, <1>10, Qualifiers DEF ClassAgrees, Fits

LEMMA BoxAgrees ==
  ASSUME NEW scope \in Scopes, NEW acquired \in BOOLEAN
  PROVE  ClassAgrees("Box", scope, acquired)
<1> DEFINE size == GetBoxPropertyDataSize(acquired)
           data == GetBoxPropertyData(acquired)
           pointers == {"Name", "ModelName", "Manufacturer", "SerialNumber", "FirmwareVersion"}
<1>1. /\ HasProperty("Box", scope) = HasBoxProperty
      /\ IsPropertySettable("Box") = IsBoxPropertySettable
      /\ GetPropertyDataSize("Box", scope, acquired) = size
      /\ GetPropertyData("Box", scope, acquired) = data
      /\ SetPropertyData("Box") = SetBoxPropertyData
  BY DEF HasProperty, IsPropertySettable, GetPropertyDataSize, GetPropertyData, SetPropertyData,
         Controls
<1>2. DOMAIN size = HasBoxProperty /\ DOMAIN data = HasBoxProperty
  BY DEF GetBoxPropertyDataSize, GetBoxPropertyData, ++, Each, HasBoxProperty, BoxWords
<1>3. /\ DOMAIN IsBoxPropertySettable = HasBoxProperty
      /\ {p \in HasBoxProperty : IsBoxPropertySettable[p]} = SetBoxPropertyData
  BY DEF IsBoxPropertySettable, SetBoxPropertyData, HasBoxProperty
<1>4. /\ size["DeviceList"] = IF acquired THEN Word ELSE 0
      /\ data["DeviceList"] = IF acquired THEN Value(Word) ELSE List(Word, 0)
      /\ size["OwnedObjects"] = 0 /\ data["OwnedObjects"] = List(Word, 0)
  BY DEF GetBoxPropertyDataSize, GetBoxPropertyData, ++, Each
<1>5. \A p \in pointers : size[p] = Pointer /\ data[p] = Value(Pointer)
  BY DEF GetBoxPropertyDataSize, GetBoxPropertyData, ++, Each
<1>6. \A p \in BoxWords : size[p] = Word /\ data[p] = Value(Word)
  BY DEF GetBoxPropertyDataSize, GetBoxPropertyData, ++, Each, BoxWords
<1>7. \A p \in HasBoxProperty \ {"BoxUID"} : Fits(size, data, p)
  <2>1. Fits(size, data, "OwnedObjects") /\ Fits(size, data, "DeviceList")
    <3> HIDE DEF size, data
    <3>1. Word \in Nat \ {0} /\ 0 * Word = 0
      BY DEF Word
    <3>2. Fits(size, data, "OwnedObjects")
      BY <1>4, <3>1, ListFits
    <3>3. CASE acquired
      BY <1>4, <3>1, <3>2, <3>3, ValueFits
    <3>4. CASE ~acquired
      BY <1>4, <3>1, <3>2, <3>4, ListFits
    <3> QED BY <3>3, <3>4
  <2>2. \A p \in pointers : Fits(size, data, p)
    BY <1>5, ValueFits DEF Pointer
  <2>3. \A p \in BoxWords : Fits(size, data, p)
    BY <1>6, ValueFits DEF Word
  <2> QED BY <2>1, <2>2, <2>3 DEF HasBoxProperty, BoxWords
<1>8. At("Box", "BoxUID") \in KnownGaps
  BY DEF KnownGaps
<1>9. \A a \in Lists : a[1] = "Box" => size[a[2]] = LengthOf(a, acquired) * Word
  <2>1. LengthOf(At("Box", "DeviceList"), acquired) * Word = IF acquired THEN Word ELSE 0
    BY Lengths DEF Word
  <2>2. \A a \in Lists : a[1] = "Box" => a = At("Box", "DeviceList") /\ a[2] = "DeviceList"
    BY DEF Lists, At
  <2> QED BY <1>4, <2>1, <2>2
<1>10. \A p \in HasBoxProperty : p \notin {"TranslateUIDToBox", "TranslateUIDToDevice"}
  BY DEF HasBoxProperty
<1> HIDE DEF size, data
<1> QED BY <1>1, <1>2, <1>3, <1>7, <1>8, <1>9, <1>10, Qualifiers DEF ClassAgrees, Fits

LEMMA DeviceAgrees ==
  ASSUME NEW scope \in Scopes, NEW acquired \in BOOLEAN
  PROVE  ClassAgrees("Device", scope, acquired)
<1> DEFINE size == GetDevicePropertyDataSize(scope)
           data == GetDevicePropertyData(scope)
           all == HasDeviceProperty("input")
           sided == {"OwnedObjects", "Streams"}
           lists == {"ControlList", "RelatedDevices"}
<1>1. /\ HasProperty("Device", scope) = HasDeviceProperty(scope)
      /\ IsPropertySettable("Device") = IsDevicePropertySettable
      /\ GetPropertyDataSize("Device", scope, acquired) = size
      /\ GetPropertyData("Device", scope, acquired) = data
      /\ SetPropertyData("Device") = SetDevicePropertyData
  BY DEF HasProperty, IsPropertySettable, GetPropertyDataSize, GetPropertyData, SetPropertyData,
         Controls
<1>2. HasDeviceProperty(scope) \subseteq all
  BY DEF HasDeviceProperty
<1> DEFINE listSizes == DeviceListSizes(scope)
           listData == DeviceLists(scope)
           inLists == sided \cup lists \cup {"AvailableNominalSampleRates"}
<1>3. DOMAIN listSizes = inLists /\ DOMAIN listData = inLists
  BY DEF DeviceListSizes, DeviceLists, ++, Each
<1>4. /\ listSizes["OwnedObjects"] = (IF scope = "output" THEN 0 ELSE 4) * Word
      /\ listData["OwnedObjects"] = List(Word, IF scope = "output" THEN 0 ELSE 4)
      /\ listSizes["Streams"] = (IF scope = "output" THEN 0 ELSE 1) * Word
      /\ listData["Streams"] = List(Word, IF scope = "output" THEN 0 ELSE 1)
  BY DEF DeviceListSizes, DeviceLists, ++, Each
<1>5. /\ listSizes["ControlList"] = 3 * Word /\ listData["ControlList"] = List(Word, 3)
      /\ listSizes["RelatedDevices"] = 1 * Word /\ listData["RelatedDevices"] = List(Word, 1)
  BY DEF DeviceListSizes, DeviceLists, ++, Each
<1>6. /\ size = listSizes ++ Each({"PreferredChannelsForStereo"}, 2 * Word)
                ++ Each({"PreferredChannelLayout"}, StereoLayout)
                ++ Each(DeviceWords, Word) ++ Each(DevicePointers, Pointer)
      /\ data = listData ++ Each({"PreferredChannelsForStereo"}, Value(2 * Word))
                ++ Each({"PreferredChannelLayout"}, Value(StereoLayout))
                ++ Each(DeviceWords, Value(Word)) ++ Each(DevicePointers, Value(Pointer))
  BY DEF GetDevicePropertyDataSize, GetDevicePropertyData
<1> HIDE DEF listSizes, listData, size, data
<1>7. DOMAIN size = all /\ DOMAIN data = all
  <2>1. all = inLists \cup {"PreferredChannelsForStereo", "PreferredChannelLayout"}
              \cup DeviceWords \cup DevicePointers
    BY DEF HasDeviceProperty, DirectedDeviceProperties, DeviceWords, DevicePointers
  <2> HIDE DEF all, inLists
  <2> QED BY <1>3, <1>6, <2>1 DEF ++, Each
<1>8. /\ DOMAIN IsDevicePropertySettable = all
      /\ {p \in all : IsDevicePropertySettable[p]} = SetDevicePropertyData
  BY DEF IsDevicePropertySettable, SetDevicePropertyData, HasDeviceProperty
<1>9. \A p \in inLists : size[p] = listSizes[p] /\ data[p] = listData[p]
  <2> HIDE DEF inLists
  <2> QED BY <1>3, <1>6 DEF ++, Each
<1>10. /\ size["PreferredChannelsForStereo"] = 2 * Word
      /\ data["PreferredChannelsForStereo"] = Value(2 * Word)
      /\ size["PreferredChannelLayout"] = StereoLayout
      /\ data["PreferredChannelLayout"] = Value(StereoLayout)
  BY <1>3, <1>6 DEF ++, Each
<1>11. \A p \in DeviceWords : size[p] = Word /\ data[p] = Value(Word)
  <2>1. \A p \in DeviceWords :
          p \notin inLists \cup {"PreferredChannelsForStereo", "PreferredChannelLayout"}
    BY DEF DeviceWords
  <2> HIDE DEF inLists
  <2> QED BY <1>3, <1>6, <2>1 DEF ++, Each
<1>12. \A p \in DevicePointers : size[p] = Pointer /\ data[p] = Value(Pointer)
  <2>1. \A p \in DevicePointers :
          /\ p \notin inLists \cup {"PreferredChannelsForStereo", "PreferredChannelLayout"}
          /\ p \notin DeviceWords
    BY DEF DeviceWords, DevicePointers
  <2> HIDE DEF inLists
  <2> QED BY <1>3, <1>6, <2>1 DEF ++, Each
<1>13. \A p \in all \ {"AvailableNominalSampleRates"} : Fits(size, data, p)
  <2> HIDE DEF size, data
  <2>1. \A p \in sided : Fits(size, data, p)
    BY <1>4, <1>9, ListFits DEF Word
  <2>2. \A p \in lists : Fits(size, data, p)
    BY <1>5, <1>9, ListFits DEF Word
  <2>3. /\ Fits(size, data, "PreferredChannelsForStereo")
        /\ Fits(size, data, "PreferredChannelLayout")
    BY <1>10, ValueFits DEF Word, StereoLayout
  <2>4. \A p \in DeviceWords : Fits(size, data, p)
    BY <1>11, ValueFits DEF Word
  <2>5. \A p \in DevicePointers : Fits(size, data, p)
    BY <1>12, ValueFits DEF Pointer
  <2> QED BY <2>1, <2>2, <2>3, <2>4, <2>5
             DEF HasDeviceProperty, DirectedDeviceProperties, DeviceWords, DevicePointers
<1>14. At("Device", "AvailableNominalSampleRates") \in KnownGaps
  BY DEF KnownGaps
<1>15. \A a \in Lists : a[1] # "Device"
  BY DEF Lists, At
<1>16. \A p \in all : p \notin {"TranslateUIDToBox", "TranslateUIDToDevice"}
  BY DEF HasDeviceProperty, DirectedDeviceProperties
<1> HIDE DEF size, data, all
<1> QED BY <1>1, <1>2, <1>7, <1>8, <1>13, <1>14, <1>15, <1>16, Qualifiers DEF ClassAgrees, Fits

LEMMA StreamAgrees ==
  ASSUME NEW scope \in Scopes, NEW acquired \in BOOLEAN
  PROVE  ClassAgrees("Stream", scope, acquired)
<1> DEFINE size == GetStreamPropertyDataSize
           data == GetStreamPropertyData
           formats == {"VirtualFormat", "PhysicalFormat"}
           available == {"AvailableVirtualFormats", "AvailablePhysicalFormats"}
<1>1. /\ HasProperty("Stream", scope) = HasStreamProperty
      /\ IsPropertySettable("Stream") = IsStreamPropertySettable
      /\ GetPropertyDataSize("Stream", scope, acquired) = size
      /\ GetPropertyData("Stream", scope, acquired) = data
      /\ SetPropertyData("Stream") = SetStreamPropertyData
  BY DEF HasProperty, IsPropertySettable, GetPropertyDataSize, GetPropertyData, SetPropertyData,
         Controls
<1>2. DOMAIN size = HasStreamProperty /\ DOMAIN data = HasStreamProperty
  BY DEF GetStreamPropertyDataSize, GetStreamPropertyData, ++, Each, HasStreamProperty,
         StreamWords
<1>3. /\ DOMAIN IsStreamPropertySettable = HasStreamProperty
      /\ {p \in HasStreamProperty : IsStreamPropertySettable[p]} = SetStreamPropertyData
  BY DEF IsStreamPropertySettable, SetStreamPropertyData, HasStreamProperty
<1>4. size["OwnedObjects"] = 0 * Word /\ data["OwnedObjects"] = List(Word, 0)
  BY DEF GetStreamPropertyDataSize, GetStreamPropertyData, ++, Each, Word
<1>5. \A p \in formats : size[p] = Format /\ data[p] = Value(Format)
  BY DEF GetStreamPropertyDataSize, GetStreamPropertyData, ++, Each
<1>6. \A p \in available : size[p] = 2 * RangedFormat /\ data[p] = List(RangedFormat, 2)
  BY DEF GetStreamPropertyDataSize, GetStreamPropertyData, ++, Each
<1>7. \A p \in StreamWords : size[p] = Word /\ data[p] = Value(Word)
  BY DEF GetStreamPropertyDataSize, GetStreamPropertyData, ++, Each, StreamWords
<1>8. \A p \in HasStreamProperty : Fits(size, data, p)
  <2> HIDE DEF size, data
  <2>1. Fits(size, data, "OwnedObjects")
    BY <1>4, ListFits DEF Word
  <2>2. \A p \in formats : Fits(size, data, p)
    BY <1>5, ValueFits DEF Format
  <2>3. \A p \in available : Fits(size, data, p)
    BY <1>6, ListFits DEF RangedFormat
  <2>4. \A p \in StreamWords : Fits(size, data, p)
    BY <1>7, ValueFits DEF Word
  <2> QED BY <2>1, <2>2, <2>3, <2>4 DEF HasStreamProperty, StreamWords
<1>9. \A a \in Lists : a[1] # "Stream"
  BY DEF Lists, At
<1>10. \A p \in HasStreamProperty : p \notin {"TranslateUIDToBox", "TranslateUIDToDevice"}
  BY DEF HasStreamProperty
<1> HIDE DEF size, data
<1> QED BY <1>1, <1>2, <1>3, <1>8, <1>9, <1>10, Qualifiers DEF ClassAgrees, Fits

\* What the three controls have in common, beneath what is their own.
LEMMA ControlTypes ==
  ASSUME NEW class \in Controls, NEW scope \in Scopes, NEW acquired \in BOOLEAN
  PROVE  /\ HasProperty(class, scope) = HasControlProperty[class]
         /\ IsPropertySettable(class) = IsControlPropertySettable(class)
         /\ GetPropertyDataSize(class, scope, acquired) = GetControlPropertyDataSize[class]
         /\ GetPropertyData(class, scope, acquired) = GetControlPropertyData[class]
         /\ SetPropertyData(class) = SetControlPropertyData[class]
         /\ \A a \in Lists : a[1] # class
<1>1. class \notin {"PlugIn", "Box", "Device", "Stream"}
  BY DEF Controls
<1>2. \A a \in Lists : a[1] # class
  BY <1>1 DEF Lists, At
<1> QED
  BY <1>1, <1>2
     DEF HasProperty, IsPropertySettable, GetPropertyDataSize, GetPropertyData, SetPropertyData

\* What every control answers.
basicSizes == Each({"OwnedObjects"}, 0) ++ Each(ControlBasics, Word)
basicData == Each({"OwnedObjects"}, List(Word, 0)) ++ Each(ControlBasics, Value(Word))

LEMMA Basics ==
  /\ DOMAIN basicSizes = ControlBasics /\ DOMAIN basicData = ControlBasics
  /\ \A p \in ControlBasics : Fits(basicSizes, basicData, p)
<1>1. DOMAIN basicSizes = ControlBasics /\ DOMAIN basicData = ControlBasics
  BY DEF basicSizes, basicData, ++, Each, ControlBasics
<1>2. basicSizes["OwnedObjects"] = 0 * Word /\ basicData["OwnedObjects"] = List(Word, 0)
  BY DEF basicSizes, basicData, ++, Each, Word
<1>3. \A p \in ControlBasics \ {"OwnedObjects"} :
        basicSizes[p] = Word /\ basicData[p] = Value(Word)
  BY DEF basicSizes, basicData, ++, Each, ControlBasics
<1>4. Fits(basicSizes, basicData, "OwnedObjects")
  BY <1>2, ListFits DEF Word
<1>5. \A p \in ControlBasics \ {"OwnedObjects"} : Fits(basicSizes, basicData, p)
  BY <1>3, ValueFits DEF Word
<1> QED BY <1>1, <1>4, <1>5

\* A control whose own properties fit agrees.
LEMMA ControlAgreesBy ==
  ASSUME NEW class \in Controls, NEW scope \in Scopes, NEW acquired \in BOOLEAN,
         NEW own, NEW size, NEW data,
         GetControlPropertyDataSize[class] = size, GetControlPropertyData[class] = data,
         HasControlProperty[class] = ControlBasics \cup own,
         ControlSettable[class] \subseteq own,
         SetControlPropertyData[class] = ControlSettable[class],
         DOMAIN size = ControlBasics \cup own, DOMAIN data = ControlBasics \cup own,
         \A p \in ControlBasics : size[p] = basicSizes[p] /\ data[p] = basicData[p],
         \A p \in own : Fits(size, data, p),
         {"TranslateUIDToBox", "TranslateUIDToDevice"} \cap own = {}
  PROVE  ClassAgrees(class, scope, acquired)
<1>1. /\ DOMAIN IsControlPropertySettable(class) = ControlBasics \cup own
      /\ {p \in ControlBasics \cup own : IsControlPropertySettable(class)[p]}
           = SetControlPropertyData[class]
  BY DEF IsControlPropertySettable
<1>2. \A p \in ControlBasics \cup own : Fits(size, data, p)
  BY Basics DEF Fits
<1>3. \A p \in ControlBasics \cup own : p \notin {"TranslateUIDToBox", "TranslateUIDToDevice"}
  BY DEF ControlBasics
<1> QED BY <1>1, <1>2, <1>3, ControlTypes, Qualifiers DEF ClassAgrees, Fits

LEMMA VolumeAgrees ==
  ASSUME NEW scope \in Scopes, NEW acquired \in BOOLEAN
  PROVE  ClassAgrees("Volume", scope, acquired)
<1> DEFINE size == GetControlPropertyDataSize["Volume"]
           data == GetControlPropertyData["Volume"]
           words == {"ScalarValue", "DecibelValue", "ConvertScalarToDecibels",
                     "ConvertDecibelsToScalar"}
           own == {"DecibelRange"} \cup words
<1>1. /\ size = Each({"DecibelRange"}, ValueRange) ++ basicSizes ++ Each(words, Word)
      /\ data = Each({"DecibelRange"}, Value(ValueRange)) ++ basicData ++ Each(words, Value(Word))
  BY DEF GetControlPropertyDataSize, GetControlPropertyData, basicSizes, basicData
<1>2. "Volume" \in Controls /\ own \cap ControlBasics = {} /\ "DecibelRange" \notin words
  BY DEF Controls, ControlBasics
<1>3. /\ HasControlProperty["Volume"] = ControlBasics \cup own
      /\ ControlSettable["Volume"] \subseteq own
      /\ SetControlPropertyData["Volume"] = ControlSettable["Volume"]
  BY DEF HasControlProperty, ControlSettable, SetControlPropertyData
<1>4. {"TranslateUIDToBox", "TranslateUIDToDevice"} \cap own = {}
  OBVIOUS
<1> HIDE DEF size, data, words
<1>5. DOMAIN size = ControlBasics \cup own /\ DOMAIN data = ControlBasics \cup own
  BY <1>1, Basics DEF ++, Each
<1>6. \A p \in ControlBasics : size[p] = basicSizes[p] /\ data[p] = basicData[p]
  BY <1>1, <1>2, Basics DEF ++, Each
<1>7. size["DecibelRange"] = ValueRange /\ data["DecibelRange"] = Value(ValueRange)
  BY <1>1, <1>2, Basics DEF ++, Each
<1>8. \A p \in words : size[p] = Word /\ data[p] = Value(Word)
  BY <1>1, <1>2, Basics DEF ++, Each
<1>9. \A p \in own : Fits(size, data, p)
  BY <1>7, <1>8, ValueFits DEF Word, ValueRange
<1>10. GetControlPropertyDataSize["Volume"] = size /\ GetControlPropertyData["Volume"] = data
  BY DEF size, data
<1> HIDE DEF own
<1> QED BY <1>2, <1>3, <1>4, <1>5, <1>6, <1>9, <1>10, ControlAgreesBy

LEMMA MuteAgrees ==
  ASSUME NEW scope \in Scopes, NEW acquired \in BOOLEAN
  PROVE  ClassAgrees("Mute", scope, acquired)
<1> DEFINE size == GetControlPropertyDataSize["Mute"]
           data == GetControlPropertyData["Mute"]
           own == {"Value"}
<1>1. /\ size = Each({"Value"}, Word) ++ basicSizes
      /\ data = Each({"Value"}, Value(Word)) ++ basicData
  BY DEF GetControlPropertyDataSize, GetControlPropertyData, basicSizes, basicData
<1>2. "Mute" \in Controls /\ own \cap ControlBasics = {}
  BY DEF Controls, ControlBasics
<1>3. /\ HasControlProperty["Mute"] = ControlBasics \cup own
      /\ ControlSettable["Mute"] \subseteq own
      /\ SetControlPropertyData["Mute"] = ControlSettable["Mute"]
  BY DEF HasControlProperty, ControlSettable, SetControlPropertyData
<1>4. {"TranslateUIDToBox", "TranslateUIDToDevice"} \cap own = {}
  OBVIOUS
<1> HIDE DEF size, data
<1>5. DOMAIN size = ControlBasics \cup own /\ DOMAIN data = ControlBasics \cup own
  BY <1>1, Basics DEF ++, Each
<1>6. \A p \in ControlBasics : size[p] = basicSizes[p] /\ data[p] = basicData[p]
  BY <1>1, <1>2, Basics DEF ++, Each
<1>7. size["Value"] = Word /\ data["Value"] = Value(Word)
  BY <1>1, <1>2, Basics DEF ++, Each
<1>8. \A p \in own : Fits(size, data, p)
  BY <1>7, ValueFits DEF Word
<1> HIDE DEF own
<1> QED BY <1>2, <1>3, <1>4, <1>5, <1>6, <1>8, ControlAgreesBy DEF size, data

LEMMA DataSourceAgrees ==
  ASSUME NEW scope \in Scopes, NEW acquired \in BOOLEAN
  PROVE  ClassAgrees("DataSource", scope, acquired)
<1> DEFINE size == GetControlPropertyDataSize["DataSource"]
           data == GetControlPropertyData["DataSource"]
           own == {"CurrentItem", "AvailableItems", "ItemName"}
<1>1. /\ size = Each({"CurrentItem"}, Word)
                ++ Each({"AvailableItems"}, kDataSource_NumberItems * Word)
                ++ Each({"ItemName"}, Pointer) ++ basicSizes
      /\ data = Each({"CurrentItem"}, Value(Word))
                ++ Each({"AvailableItems"}, List(Word, kDataSource_NumberItems))
                ++ Each({"ItemName"}, Value(Pointer)) ++ basicData
  BY DEF GetControlPropertyDataSize, GetControlPropertyData, basicSizes, basicData
<1>2. "DataSource" \in Controls /\ own \cap ControlBasics = {}
  BY DEF Controls, ControlBasics
<1>3. /\ HasControlProperty["DataSource"] = ControlBasics \cup own
      /\ ControlSettable["DataSource"] \subseteq own
      /\ SetControlPropertyData["DataSource"] = ControlSettable["DataSource"]
  BY DEF HasControlProperty, ControlSettable, SetControlPropertyData
<1>4. {"TranslateUIDToBox", "TranslateUIDToDevice"} \cap own = {}
  OBVIOUS
<1> HIDE DEF size, data
<1>5. DOMAIN size = ControlBasics \cup own /\ DOMAIN data = ControlBasics \cup own
  BY <1>1, Basics DEF ++, Each
<1>6. \A p \in ControlBasics : size[p] = basicSizes[p] /\ data[p] = basicData[p]
  BY <1>1, <1>2, Basics DEF ++, Each
<1>7. /\ size["CurrentItem"] = Word /\ data["CurrentItem"] = Value(Word)
      /\ size["AvailableItems"] = kDataSource_NumberItems * Word
      /\ data["AvailableItems"] = List(Word, kDataSource_NumberItems)
      /\ size["ItemName"] = Pointer /\ data["ItemName"] = Value(Pointer)
  BY <1>1 DEF ++, Each
<1>8. \A p \in own : Fits(size, data, p)
  <2>1. Fits(size, data, "CurrentItem") /\ Fits(size, data, "ItemName")
    BY <1>7, ValueFits DEF Word, Pointer
  <2>2. Fits(size, data, "AvailableItems")
    BY <1>7, ListFits DEF Word, kDataSource_NumberItems
  <2> QED BY <2>1, <2>2
<1> HIDE DEF own
<1> QED BY <1>2, <1>3, <1>4, <1>5, <1>6, <1>8, ControlAgreesBy DEF size, data

LEMMA ClassesAgree ==
  ASSUME NEW class \in Classes, NEW scope \in Scopes, NEW acquired \in BOOLEAN
  PROVE  ClassAgrees(class, scope, acquired)
<1>1. class \in {"PlugIn", "Box", "Device", "Stream", "Volume", "Mute", "DataSource"}
  BY DEF Classes, Controls
<1> QED BY <1>1, PlugInAgrees, BoxAgrees, DeviceAgrees, StreamAgrees, VolumeAgrees, MuteAgrees,
           DataSourceAgrees

\* The switches agree for every object, in every scope and whatever the flag is: what the HAL asks
\* one after the other is never answered by halves, but for the four known gaps.
THEOREM SwitchesAlwaysAgree == Spec => []SwitchesAgree
<1>1. ListsInv => SwitchesAgree
  BY ClassesAgree DEF ListsInv, CallTypes, SwitchesAgree
<1> QED BY <1>1, ListsInvariant, PTL
=============================================================================
