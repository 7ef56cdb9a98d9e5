----------------------------- MODULE DlService ------------------------------
(***************************************************************************)
(* What layer 2 promises its users while a link is established: segments   *)
(* of messages are carried in order, without loss or duplicate, both ways, *)
(* and a DL_DATA_CNF means that the message has reached the network.       *)
(***************************************************************************)
EXTENDS Naturals, Sequences

CONSTANTS
  Messages,        \* messages of RR
  Segments(_),     \* the segments of a message
  Confirms,        \* messages RR wants confirmed
  NetMessages       \* the messages of the network, in their order

VARIABLES
  given,       \* segments RR handed over, in order
  carried,     \* segments the network has received, in order
  confirmed,   \* messages confirmed to RR, in order
  indicated    \* messages indicated to RR, in order

svars == <<given, carried, confirmed, indicated>>

Init == given = <<>> /\ carried = <<>> /\ confirmed = <<>> /\ indicated = <<>>

Give(m) ==
  /\ given' = given \o Segments(m)
  /\ UNCHANGED <<carried, confirmed, indicated>>

Carry ==
  /\ Len(carried) < Len(given)
  /\ carried' = Append(carried, given[Len(carried) + 1])
  /\ UNCHANGED <<given, confirmed, indicated>>

\* A message is confirmed once, after its last segment was carried.
Last(m) == Segments(m)[Len(Segments(m))]

Confirm(m) ==
  /\ m \in Confirms
  /\ \E i \in DOMAIN carried : carried[i] = Last(m)
  /\ \A i \in DOMAIN confirmed : confirmed[i] # m
  /\ confirmed' = Append(confirmed, m)
  /\ UNCHANGED <<given, carried, indicated>>

Indicate ==
  /\ Len(indicated) < Len(NetMessages)
  /\ indicated' = Append(indicated, NetMessages[Len(indicated) + 1])
  /\ UNCHANGED <<given, carried, confirmed>>

Next ==
  \/ \E m \in Messages : Give(m) \/ Confirm(m)
  \/ Carry
  \/ Indicate

Spec == Init /\ [][Next]_svars
=============================================================================
