---------------------------- MODULE SharedCapture ----------------------------
(***************************************************************************)
(* What the HAL plug-in promises about the one capture its clients share:  *)
(* the first user opens the driver, maps the ring and asks for capture,    *)
(* the last one gives both back, and nothing changes for those in between. *)
(* No mutexes, no count, no calls half done.                               *)
(***************************************************************************)
CONSTANT Clients

VARIABLES
  users,        \* who has the device started
  connection,   \* "none", "open", or "dead": open to a driver that is gone
  capturing,    \* does the driver capture for this plug-in?
  mapped,       \* is the ring there to be read?
  readers       \* who is reading it

vars == << users, connection, capturing, mapped, readers >>

Nothing ==
  << users, connection, capturing, mapped, readers >> = << {}, "none", FALSE, FALSE, {} >>

Init == Nothing

\* The driver may not be found, the ring not be mapped; then the input is silence.
FirstStart(c) ==
  /\ users = {} /\ users' = {c}
  /\ connection' \in IF connection = "none" THEN {"none", "open"} ELSE {connection}
  /\ capturing' = (connection' = "open")
  /\ ~mapped /\ (mapped' => connection' = "open")
  /\ UNCHANGED readers

LaterStart(c) ==
  /\ users # {} /\ c \notin users /\ users' = users \cup {c}
  /\ UNCHANGED << connection, capturing, mapped, readers >>

EarlierStop(c) ==
  /\ c \in users \ readers /\ users' = users \ {c} /\ users' # {}
  /\ UNCHANGED << connection, capturing, mapped, readers >>

LastStop(c) ==
  /\ users = {c} /\ c \notin readers /\ users' = {}
  /\ capturing' = FALSE
  /\ UNCHANGED << connection, mapped, readers >>

Unmap ==
  /\ users = {} /\ mapped' = FALSE
  /\ UNCHANGED << users, connection, capturing, readers >>

Read(c) ==
  /\ c \in users /\ mapped
  /\ readers' = readers \cup {c}
  /\ UNCHANGED << users, connection, capturing, mapped >>

EndRead(c) ==
  /\ readers' = readers \ {c}
  /\ UNCHANGED << users, connection, capturing, mapped >>

DriverGoes ==
  /\ connection = "open" /\ connection' = "dead" /\ capturing' = FALSE
  /\ UNCHANGED << users, mapped, readers >>

Crash == Nothing'

Next ==
  \/ \E c \in Clients : \/ FirstStart(c) \/ LaterStart(c) \/ EarlierStop(c) \/ LastStop(c)
                        \/ Read(c) \/ EndRead(c)
  \/ Unmap \/ DriverGoes \/ Crash

Spec == Init /\ [][Next]_vars

\* What this comes to at every moment: the driver captures exactly while somebody has the device
\* and the driver is there, and who reads has the device and a ring that stays mapped.
CapturesForUsers ==
  /\ capturing <=> users # {} /\ connection = "open"
  /\ mapped => connection # "none"
  /\ readers \subseteq users /\ (readers # {} => mapped)
=============================================================================
