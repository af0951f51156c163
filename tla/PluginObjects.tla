---------------------------- MODULE PluginObjects ----------------------------
(***************************************************************************)
(* The property tables of the HAL plug-in (plugin/LatSOFAudioPlugin.c).    *)
(* Each class of object answers five questions with a switch of its own:   *)
(* has it a property, is it settable, how many bytes is its value, what is *)
(* the value, and what does a new value do.  The HAL asks them one after   *)
(* the other and takes for granted that they agree.                        *)
(*                                                                         *)
(* A property is named by its selector without the prefix of its constant, *)
(* a size is in bytes, and a value is known by the room it asks for, the   *)
(* bytes it says it returned and the items it wrote.                       *)
(***************************************************************************)
EXTENDS Integers

Word == 4           \* UInt32, Float32, AudioClassID, AudioObjectID, scope, element
Pointer == 8        \* CFStringRef, CFURLRef, and Float64
ValueRange == 16    \* AudioValueRange
Format == 40        \* AudioStreamBasicDescription
RangedFormat == 56  \* AudioStreamRangedDescription
StereoLayout == 12 + 2 * 20

Scopes == {"global", "input", "output"}

\* A value of one piece: an error if the room is less than need.
Value(need) == [list |-> FALSE, need |-> need, gives |-> need]
\* A list: as many of its items as there is room for, of which the first are written.
Items(item, most, written) ==
  [list |-> TRUE, item |-> item, most |-> most, written |-> written]
List(item, most) == Items(item, most, most)

\* What outDataSize holds when the code does not assign it.
Unset == -1
Error == -2

Least(a, b) == IF a < b THEN a ELSE b
\* The bytes a call with that much room says it returned.
Reply(entry, room) ==
  IF entry.list THEN Least(room \div entry.item, entry.most) * entry.item
  ELSE IF room < entry.need THEN Error ELSE entry.gives
\* Were all the items it says it returned written?
AllWritten(entry, room) ==
  entry.list => Least(room \div entry.item, entry.most) <= entry.written

\* A table is the answers to groups of properties, the first that has a property answering.
Each(properties, x) == [p \in properties |-> x]

f ++ g == [p \in DOMAIN f \cup DOMAIN g |-> IF p \in DOMAIN f THEN f[p] ELSE g[p]]

-----------------------------------------------------------------------------
\* The plug-in.  Its lists depend on whether the box is acquired.
HasPlugInProperty ==
  {"BaseClass", "Class", "Owner", "Manufacturer", "OwnedObjects", "BoxList", "TranslateUIDToBox",
   "DeviceList", "TranslateUIDToDevice", "ResourceBundle"}

IsPlugInPropertySettable == Each(HasPlugInProperty, FALSE)

PlugInListLength(p, acquired) ==
  [OwnedObjects |-> IF acquired THEN 2 ELSE 1,
   DeviceList |-> IF acquired THEN 1 ELSE 0,
   BoxList |-> 1][p]

GetPlugInPropertyDataSize(acquired) ==
  [p \in {"OwnedObjects", "DeviceList", "BoxList"} |-> PlugInListLength(p, acquired) * Word]
  ++ Each({"Manufacturer", "ResourceBundle"}, Pointer)
  ++ Each({"BaseClass", "Class", "Owner", "TranslateUIDToBox", "TranslateUIDToDevice"}, Word)

GetPlugInPropertyData(acquired) ==
  [p \in {"OwnedObjects", "DeviceList", "BoxList"} |->
     List(Word, PlugInListLength(p, acquired))]
  ++ Each({"Manufacturer"}, Value(Pointer))
  ++ Each({"ResourceBundle"}, [Value(Word) EXCEPT !.gives = Pointer])
  ++ Each({"BaseClass", "Class", "Owner", "TranslateUIDToBox", "TranslateUIDToDevice"},
          Value(Word))

SetPlugInPropertyData == {}

-----------------------------------------------------------------------------
\* The box.
HasBoxProperty ==
  {"BaseClass", "Class", "Owner", "Name", "ModelName", "Manufacturer", "OwnedObjects", "Identify",
   "SerialNumber", "FirmwareVersion", "BoxUID", "TransportType", "HasAudio", "HasVideo", "HasMIDI",
   "IsProtected", "Acquired", "AcquisitionFailed", "DeviceList"}

IsBoxPropertySettable ==
  [p \in HasBoxProperty |-> p \in {"Name", "Identify", "Acquired"}]

BoxWords ==
  {"BaseClass", "Class", "Owner", "Identify", "TransportType", "HasAudio", "HasVideo", "HasMIDI",
   "IsProtected", "Acquired", "AcquisitionFailed"}

GetBoxPropertyDataSize(acquired) ==
  Each({"DeviceList"}, IF acquired THEN Word ELSE 0)
  ++ Each({"OwnedObjects"}, 0)
  ++ Each({"Name", "ModelName", "Manufacturer", "SerialNumber", "FirmwareVersion", "BoxUID"},
          Pointer)
  ++ Each(BoxWords, Word)

\* Nothing is said of the size of the UID, and the list of devices of an acquired box is
\* not cut to the room there is.
GetBoxPropertyData(acquired) ==
  Each({"DeviceList"}, IF acquired THEN Value(Word) ELSE List(Word, 0))
  ++ Each({"OwnedObjects"}, List(Word, 0))
  ++ Each({"Name", "ModelName", "Manufacturer", "SerialNumber", "FirmwareVersion"},
          Value(Pointer))
  ++ Each({"BoxUID"}, [Value(Pointer) EXCEPT !.gives = Unset])
  ++ Each(BoxWords, Value(Word))

SetBoxPropertyData == {"Name", "Identify", "Acquired"}

-----------------------------------------------------------------------------
\* The device: an input device, with nothing on the output side.
DirectedDeviceProperties ==
  {"DeviceCanBeDefaultDevice", "DeviceCanBeDefaultSystemDevice", "Latency", "SafetyOffset",
   "PreferredChannelsForStereo", "PreferredChannelLayout"}

HasDeviceProperty(scope) ==
  {"BaseClass", "Class", "Owner", "Name", "Manufacturer", "OwnedObjects", "DeviceUID", "ModelUID",
   "TransportType", "RelatedDevices", "ClockDomain", "DeviceIsAlive", "DeviceIsRunning",
   "ControlList", "NominalSampleRate", "AvailableNominalSampleRates", "IsHidden",
   "ZeroTimeStampPeriod", "Icon", "Streams"}
  \cup (IF scope \in {"input", "output"} THEN DirectedDeviceProperties ELSE {})

IsDevicePropertySettable ==
  [p \in HasDeviceProperty("input") |-> p = "NominalSampleRate"]

DeviceWords ==
  {"BaseClass", "Class", "Owner", "TransportType", "ClockDomain", "DeviceIsAlive",
   "DeviceIsRunning", "DeviceCanBeDefaultDevice", "DeviceCanBeDefaultSystemDevice", "Latency",
   "SafetyOffset", "IsHidden", "ZeroTimeStampPeriod"}
DevicePointers ==
  {"Name", "Manufacturer", "DeviceUID", "ModelUID", "NominalSampleRate", "Icon"}

\* Mutant: the size still counts the controls of both sides.
DeviceListSizesOfBothSides(scope) ==
  Each({"OwnedObjects"}, (IF scope = "output" THEN 0 ELSE 4) * Word)
  ++ Each({"Streams"}, (IF scope = "output" THEN 0 ELSE 1) * Word)
  ++ Each({"ControlList"}, 6 * Word) ++ Each({"RelatedDevices"}, 1 * Word)
  ++ Each({"AvailableNominalSampleRates"}, 2 * ValueRange)

DeviceListSizes(scope) ==
  Each({"OwnedObjects"}, (IF scope = "output" THEN 0 ELSE 4) * Word)
  ++ Each({"Streams"}, (IF scope = "output" THEN 0 ELSE 1) * Word)
  ++ Each({"ControlList"}, 3 * Word) ++ Each({"RelatedDevices"}, 1 * Word)
  ++ Each({"AvailableNominalSampleRates"}, 2 * ValueRange)

\* Two rates are returned and one is written.
DeviceLists(scope) ==
  Each({"OwnedObjects"}, List(Word, IF scope = "output" THEN 0 ELSE 4))
  ++ Each({"Streams"}, List(Word, IF scope = "output" THEN 0 ELSE 1))
  ++ Each({"ControlList"}, List(Word, 3)) ++ Each({"RelatedDevices"}, List(Word, 1))
  ++ Each({"AvailableNominalSampleRates"}, Items(ValueRange, 2, 1))

GetDevicePropertyDataSize(scope) ==
  DeviceListSizes(scope)
  ++ Each({"PreferredChannelsForStereo"}, 2 * Word)
  ++ Each({"PreferredChannelLayout"}, StereoLayout)
  ++ Each(DeviceWords, Word) ++ Each(DevicePointers, Pointer)

GetDevicePropertyData(scope) ==
  DeviceLists(scope)
  ++ Each({"PreferredChannelsForStereo"}, Value(2 * Word))
  ++ Each({"PreferredChannelLayout"}, Value(StereoLayout))
  ++ Each(DeviceWords, Value(Word)) ++ Each(DevicePointers, Value(Pointer))

SetDevicePropertyData == {"NominalSampleRate"}

-----------------------------------------------------------------------------
\* The streams, one for each direction.
HasStreamProperty ==
  {"BaseClass", "Class", "Owner", "OwnedObjects", "IsActive", "Direction", "TerminalType",
   "StartingChannel", "Latency", "VirtualFormat", "PhysicalFormat", "AvailableVirtualFormats",
   "AvailablePhysicalFormats"}

IsStreamPropertySettable ==
  [p \in HasStreamProperty |-> p \in {"IsActive", "VirtualFormat", "PhysicalFormat"}]

StreamWords ==
  {"BaseClass", "Class", "Owner", "IsActive", "Direction", "TerminalType", "StartingChannel",
   "Latency"}

GetStreamPropertyDataSize ==
  Each({"OwnedObjects"}, 0)
  ++ Each({"VirtualFormat", "PhysicalFormat"}, Format)
  ++ Each({"AvailableVirtualFormats", "AvailablePhysicalFormats"}, 2 * RangedFormat)
  ++ Each(StreamWords, Word)

GetStreamPropertyData ==
  Each({"OwnedObjects"}, List(Word, 0))
  ++ Each({"VirtualFormat", "PhysicalFormat"}, Value(Format))
  ++ Each({"AvailableVirtualFormats", "AvailablePhysicalFormats"}, List(RangedFormat, 2))
  ++ Each(StreamWords, Value(Word))

SetStreamPropertyData == {"IsActive", "VirtualFormat", "PhysicalFormat"}

-----------------------------------------------------------------------------
\* The controls, three for each direction: a volume, a mute and a data source.
Controls == {"Volume", "Mute", "DataSource"}

ControlBasics == {"BaseClass", "Class", "Owner", "OwnedObjects", "Scope", "Element"}

HasControlProperty ==
  [Volume |-> ControlBasics \cup {"ScalarValue", "DecibelValue", "DecibelRange",
                                  "ConvertScalarToDecibels", "ConvertDecibelsToScalar"},
   Mute |-> ControlBasics \cup {"Value"},
   DataSource |-> ControlBasics \cup {"CurrentItem", "AvailableItems", "ItemName"}]

ControlSettable ==
  [Volume |-> {"ScalarValue", "DecibelValue"}, Mute |-> {"Value"}, DataSource |-> {"CurrentItem"}]

IsControlPropertySettable(control) ==
  [p \in HasControlProperty[control] |-> p \in ControlSettable[control]]

kDataSource_NumberItems == 1

GetControlPropertyDataSize ==
  LET basics == Each({"OwnedObjects"}, 0) ++ Each(ControlBasics, Word)
  IN [Volume |-> Each({"DecibelRange"}, ValueRange) ++ basics
                 ++ Each({"ScalarValue", "DecibelValue", "ConvertScalarToDecibels",
                          "ConvertDecibelsToScalar"}, Word),
      Mute |-> Each({"Value"}, Word) ++ basics,
      DataSource |-> Each({"CurrentItem"}, Word)
                     ++ Each({"AvailableItems"}, kDataSource_NumberItems * Word)
                     ++ Each({"ItemName"}, Pointer) ++ basics]

GetControlPropertyData ==
  LET basics == Each({"OwnedObjects"}, List(Word, 0)) ++ Each(ControlBasics, Value(Word))
  IN [Volume |-> Each({"DecibelRange"}, Value(ValueRange)) ++ basics
                 ++ Each({"ScalarValue", "DecibelValue", "ConvertScalarToDecibels",
                          "ConvertDecibelsToScalar"}, Value(Word)),
      Mute |-> Each({"Value"}, Value(Word)) ++ basics,
      DataSource |-> Each({"CurrentItem"}, Value(Word))
                     ++ Each({"AvailableItems"}, List(Word, kDataSource_NumberItems))
                     ++ Each({"ItemName"}, Value(Pointer)) ++ basics]

SetControlPropertyData ==
  [Volume |-> {"ScalarValue", "DecibelValue"}, Mute |-> {"Value"}, DataSource |-> {"CurrentItem"}]

-----------------------------------------------------------------------------
\* The dispatchers: the class of the object picks the table.
Classes == {"PlugIn", "Box", "Device", "Stream"} \cup Controls

HasProperty(class, scope) ==
  CASE class = "PlugIn" -> HasPlugInProperty
    [] class = "Box" -> HasBoxProperty
    [] class = "Device" -> HasDeviceProperty(scope)
    [] class = "Stream" -> HasStreamProperty
    [] class \in Controls -> HasControlProperty[class]

IsPropertySettable(class) ==
  CASE class = "PlugIn" -> IsPlugInPropertySettable
    [] class = "Box" -> IsBoxPropertySettable
    [] class = "Device" -> IsDevicePropertySettable
    [] class = "Stream" -> IsStreamPropertySettable
    [] class \in Controls -> IsControlPropertySettable(class)

GetPropertyDataSize(class, scope, acquired) ==
  CASE class = "PlugIn" -> GetPlugInPropertyDataSize(acquired)
    [] class = "Box" -> GetBoxPropertyDataSize(acquired)
    [] class = "Device" -> GetDevicePropertyDataSize(scope)
    [] class = "Stream" -> GetStreamPropertyDataSize
    [] class \in Controls -> GetControlPropertyDataSize[class]

GetPropertyData(class, scope, acquired) ==
  CASE class = "PlugIn" -> GetPlugInPropertyData(acquired)
    [] class = "Box" -> GetBoxPropertyData(acquired)
    [] class = "Device" -> GetDevicePropertyData(scope)
    [] class = "Stream" -> GetStreamPropertyData
    [] class \in Controls -> GetControlPropertyData[class]

SetPropertyData(class) ==
  CASE class = "PlugIn" -> SetPlugInPropertyData
    [] class = "Box" -> SetBoxPropertyData
    [] class = "Device" -> SetDevicePropertyData
    [] class = "Stream" -> SetStreamPropertyData
    [] class \in Controls -> SetControlPropertyData[class]

\* The qualifiers the HAL passes: a UID to translate, or the item whose name is wanted.
HalQualifier(p) ==
  CASE p \in {"TranslateUIDToBox", "TranslateUIDToDevice"} -> Pointer
    [] p = "ItemName" -> Word
    [] OTHER -> 0

\* The translations refuse a qualifier of the size of a CFStringRef, the name of an item
\* one that is not a UInt32.
AcceptsQualifier(p, size) ==
  CASE p \in {"TranslateUIDToBox", "TranslateUIDToDevice"} -> size # Pointer
    [] p = "ItemName" -> size = Word
    [] OTHER -> TRUE

=============================================================================
