-------------------------------- MODULE SmsMt -------------------------------
(***************************************************************************)
(* Delivery of short messages: the MT slot of the SMS entity, the queues   *)
(* between it and MM, the connections the network opens, the service       *)
(* centre and the SIM.  There is one slot: a message that comes while it   *)
(* is in use is refused on its own connection.  The service centre deletes *)
(* a message for which it gets an RP-ACK, so the RP-ACK must not be sent   *)
(* before the message is in the SIM.                                       *)
(***************************************************************************)
EXTENDS SmsRelay

CONSTANTS
  MaxDeliveries,   \* bound: messages of the service centre
  MaxFailures,     \* bound: connections MM fails or loses
  MaxQueue,        \* bound: messages in a queue
  SlowSim          \* the SIM may take so long that the slot is in use again

ASSUME BoundsAssumption ==
  MaxDeliveries \in Nat /\ MaxFailures \in Nat /\ MaxQueue \in Nat /\ SlowSim \in BOOLEAN
\* A message is known by its reference.
ASSUME ReferencesAssumption == MaxDeliveries <= RefCount

VARIABLES
  toMM,            \* queue from SMS to MM
  toSMS,           \* queue from MM to SMS
  conn,            \* MM: connections "none", "open", "lost"
  net,             \* network: transaction on a connection, or None
  writes,          \* messages the SIM is to write
  stored,          \* messages written or shown
  acked,           \* messages for which the service centre got an RP-ACK
  deliveries, failures

mtVars == <<sms, toMM, toSMS, conn, net, writes, stored, acked, deliveries, failures>>

FromMM(m, t, cause, d) == [m |-> m, ti |-> t, cause |-> cause, d |-> d]

MtInit ==
  /\ sms = cp_init("MT")
  /\ toMM = <<>> /\ toSMS = <<>>
  /\ conn = [t \in MtTis |-> "none"]
  /\ net = [t \in MtTis |-> None]
  /\ writes = <<>> /\ stored = {} /\ acked = {}
  /\ deliveries = 0 /\ failures = 0

Told(u) == \E i \in DOMAIN sms'.up : sms'.up[i] = u

(***************************************************************************)
(* SMS and the SIM                                                         *)
(***************************************************************************)
\* What the SMS entity sends goes into the queue of MM.
SmsStep ==
  /\ toMM' = toMM \o sms'.out
  /\ UNCHANGED <<conn, net, acked, deliveries, failures>>

\* A message handed over is to be written into the SIM, or is shown at once.
HandOver ==
  /\ writes' = IF Told("store") THEN Append(writes, sms'.msg_ref) ELSE writes
  /\ stored' = IF Told("shown") THEN stored \cup {sms'.msg_ref} ELSE stored

\* A write is done before a failed transaction is followed by the next one in
\* the slot.  It may take longer than TR2M.
SimInTime == writes = <<>> \/ SlowSim

Handle(m) ==
  \/ m.m = "ESTABLISH_IND" /\ (sms.rl = "IDLE" => SimInTime) /\ EstablishInd(m.ti, m.d)
  \/ m.m = "RELEASE_IND" /\ ReleaseInd(m.ti, m.cause)
  \/ m.m = "ERROR_IND" /\ ErrorInd(m.ti, m.cause)
  \/ m.m = "DATA_IND" /\ DataInd(m.ti, m.d)

SmsReceives ==
  /\ toSMS # <<>>
  /\ toSMS' = Tail(toSMS)
  /\ Handle(Head(toSMS))
  /\ SmsStep
  /\ HandOver

\* The timers run for tens of seconds; the queues are emptied long before.
Timeout(T) == toMM = <<>> /\ toSMS = <<>> /\ T /\ SmsStep /\ HandOver /\ UNCHANGED toSMS
SmsTC1M == Timeout(TC1M)
SmsTR2M == Timeout(TR2M)

SimAnswers ==
  /\ writes # <<>>
  /\ writes' = Tail(writes)
  /\ \E ok \in BOOLEAN :
       /\ SimUpdateCnf(ok)
       /\ stored' = IF ok THEN stored \cup {Head(writes)} ELSE stored
  /\ SmsStep
  /\ UNCHANGED toSMS

(***************************************************************************)
(* MM and the network                                                      *)
(***************************************************************************)
Outside == UNCHANGED <<sms, writes, stored>>
Indicate(m) == Len(toSMS) < MaxQueue /\ toSMS' = Append(toSMS, m)

\* An RP-ACK or RP-ERROR ends the transaction for the network, which owes the
\* CP-ACK; an RP-ACK with another reference is no answer.
Transaction(m) ==
  CASE m.cp = "CP_DATA"  -> [ref |-> m.ref, owes |-> TRUE]
    [] m.cp = "CP_ERROR" -> None
    [] m.cp = "CP_ACK"   -> net[m.ti]

MMReceives ==
  /\ toMM # <<>>
  /\ toMM' = Tail(toMM)
  /\ LET m == Head(toMM)
         arrives == m.m = "DATA_REQ" /\ conn[m.ti] = "open"
     IN  /\ conn' = [conn EXCEPT ![m.ti] = IF m.m = "RELEASE_REQ" THEN "none" ELSE @]
         /\ net' = [net EXCEPT ![m.ti] = CASE m.m = "RELEASE_REQ" -> None
                                           [] m.m = "DATA_REQ" /\ arrives -> Transaction(m)
                                           [] m.m = "DATA_REQ" /\ ~arrives -> @]
         /\ acked' = IF arrives /\ m.rp = "RP_ACK" /\ net[m.ti] # None /\ net[m.ti].ref = m.ref
                     THEN acked \cup {m.ref} ELSE acked
  /\ Outside
  /\ UNCHANGED <<toSMS, deliveries, failures>>

\* The network opens a connection for a message, also while it is still busy
\* with another one or while it owes a CP-ACK.  Opening one again takes longer
\* than MM and SMS take for what is left of the last one in their queues.
NetworkDelivers(t, tp) ==
  /\ conn[t] = "none"
  /\ deliveries < MaxDeliveries
  /\ \A i \in DOMAIN toMM : toMM[i].ti # t
  /\ \A i \in DOMAIN toSMS : toSMS[i].ti # t
  /\ deliveries' = deliveries + 1
  /\ conn' = [conn EXCEPT ![t] = "open"]
  /\ net' = [net EXCEPT ![t] = [ref |-> deliveries, owes |-> FALSE]]
  /\ Indicate(FromMM("ESTABLISH_IND", t, "", Downlink("CP_DATA", "RP_DATA", deliveries, tp)))
  /\ Outside
  /\ UNCHANGED <<toMM, acked, failures>>

NetworkAnswers(t) ==
  /\ conn[t] = "open" /\ net[t] # None /\ net[t].owes
  /\ net' = [net EXCEPT ![t] = None]
  /\ \E cp \in {"CP_ACK", "CP_ERROR"} :
       Indicate(FromMM("DATA_IND", t, "", Downlink(cp, "", 0, "")))
  /\ Outside
  /\ UNCHANGED <<toMM, conn, acked, deliveries, failures>>

Breaks(t, to, m, cause) ==
  /\ conn[t] = "open"
  /\ failures < MaxFailures
  /\ failures' = failures + 1
  /\ conn' = [conn EXCEPT ![t] = to]
  /\ net' = [net EXCEPT ![t] = None]
  /\ Indicate(FromMM(m, t, cause, Downlink("", "", 0, "")))
  /\ Outside
  /\ UNCHANGED <<toMM, acked, deliveries>>

\* After a radio link failure MM keeps the connection until SMS releases it.
MMReleases(t, cause) == Breaks(t, "none", "RELEASE_IND", cause)
MMLoses(t, cause)    == Breaks(t, "lost", "ERROR_IND", cause)

MtNext ==
  \/ SmsReceives
  \/ SmsTC1M
  \/ SmsTR2M
  \/ SimAnswers
  \/ MMReceives
  \/ \E t \in MtTis :
       \/ \E tp \in TpTypes : NetworkDelivers(t, tp)
       \/ NetworkAnswers(t)
       \/ \E cause \in Causes : MMReleases(t, cause) \/ MMLoses(t, cause)

\* Tasks run, timers expire, the SIM answers.  Nothing is asked of the network.
MtFairness ==
  /\ WF_mtVars(SmsReceives) /\ WF_mtVars(MMReceives) /\ WF_mtVars(SimAnswers)
  /\ WF_mtVars(SmsTC1M) /\ WF_mtVars(SmsTR2M)

MtSpec == MtInit /\ [][MtNext]_mtVars /\ MtFairness

(***************************************************************************)
(* Properties                                                              *)
(***************************************************************************)
\* The service centre forgets a message only when the SIM has it or it was
\* shown, although the confirmation of the SIM names no message (STATE_NET in
\* tl_sim_update_rec_cnf_net).
AckedIsStored == acked \subseteq stored

\* The slot in use has its connection, and no more than that one is left when
\* all is handled: a refused or failed message leaves none behind.
Quiet == toMM = <<>> /\ toSMS = <<>>
HoldsItsConnection ==
  Quiet => /\ sms.cp # "IDLE" => sms.ti # 0 /\ conn[sms.ti] = "open"
           /\ \A t \in MtTis : conn[t] # "none" => t = sms.ti

\* Every message is answered or its connection ends, whatever the network
\* leaves out, and the slot is free again for the next.
DeliveryEnds ==
  /\ \A t \in MtTis : conn[t] # "none" ~> conn[t] = "none"
  /\ sms.ti # 0 ~> sms.ti = 0

=============================================================================
