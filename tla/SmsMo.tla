-------------------------------- MODULE SmsMo -------------------------------
(***************************************************************************)
(* Submission of short messages: the MO slot of the SMS entity, the two    *)
(* queues between it and MM, the connections of MM and the network.  MM    *)
(* and SMS are tasks with a queue each, so a request and an indication may *)
(* cross: MM may lose a connection that SMS has just released, or may      *)
(* confirm one that SMS has given up.  On an open connection nothing is    *)
(* lost (the link is acknowledged); a lost connection loses what is left.  *)
(* The network answers each message once, and may also never answer.       *)
(***************************************************************************)
EXTENDS SmsRelay

CONSTANTS
  MaxSubmits,      \* bound: messages submitted
  MaxFailures,     \* bound: connections MM fails or loses
  MaxQueue,        \* bound: messages in a queue
  Stray,           \* the network may answer with an RP message out of place
  PrepareFails     \* the message cannot be built when the connection is there

ASSUME BoundsAssumption ==
  /\ MaxSubmits \in Nat /\ MaxFailures \in Nat /\ MaxQueue \in Nat
  /\ Stray \in BOOLEAN /\ PrepareFails \in BOOLEAN

VARIABLES
  toMM,            \* queue from SMS to MM
  toSMS,           \* queue from MM to SMS
  conn,            \* MM: connections "none", "pending", "open", "lost"
  rx,              \* network: message received on a connection and not answered, or None
  accepted,        \* messages the service centre accepted
  sent,            \* messages confirmed as sent to the user
  submits, failures,
  mixed            \* history: an indication of an older transaction was taken for this one

moVars == <<sms, toMM, toSMS, conn, rx, accepted, sent, submits, failures, mixed>>

\* From MM: the indications, with the network's message in a DATA_IND.
FromMM(m, t, cause, d) == [m |-> m, ti |-> t, cause |-> cause, d |-> d]
NoData == Downlink("", "", 0, "")

MoInit ==
  /\ sms = cp_init("MO")
  /\ toMM = <<>> /\ toSMS = <<>>
  /\ conn = [t \in MoTis |-> "none"]
  /\ rx = [t \in MoTis |-> None]
  /\ accepted = {} /\ sent = {}
  /\ submits = 0 /\ failures = 0
  /\ mixed = FALSE

\* A step of the SMS entity: what it sends goes into the queue of MM, and the
\* user learns of a message that was sent.
SmsStep ==
  /\ toMM' = toMM \o sms'.out
  /\ sent' = IF "submit_ok" \in {sms'.up[i] : i \in DOMAIN sms'.up}
             THEN sent \cup {sms.tp_mr} ELSE sent
  /\ UNCHANGED <<conn, rx, accepted, failures>>

(***************************************************************************)
(* SMS                                                                     *)
(***************************************************************************)
UserSubmits ==
  /\ submits < MaxSubmits
  /\ submits' = submits + 1
  /\ \E auto_rep \in BOOLEAN : SubmitReq(auto_rep)
  /\ SmsStep
  /\ UNCHANGED <<toSMS, mixed>>

\* The timers run for tens of seconds, the queues are emptied long before.
Timeout(T) == toMM = <<>> /\ toSMS = <<>> /\ T /\ SmsStep /\ UNCHANGED <<toSMS, submits, mixed>>
SmsTC1M == Timeout(TC1M)
SmsTR1M == Timeout(TR1M)

Handle(m) ==
  \/ /\ m.m = "ESTABLISH_CNF"
     /\ \E prepared \in {TRUE} \cup {~PrepareFails} : EstablishCnf(m.ti, prepared)
  \/ m.m = "RELEASE_IND" /\ ReleaseInd(m.ti, m.cause)
  \/ m.m = "ERROR_IND" /\ ErrorInd(m.ti, m.cause)
  \/ m.m = "DATA_IND" /\ DataInd(m.ti, m.d)

OfOlderTransaction(m) ==
  m.m # "DATA_IND" /\ sms.cp # "IDLE"
    /\ m.ti # IF sms.cp = "PENDING" THEN sms.timer_ti ELSE sms.ti

SmsReceives ==
  /\ toSMS # <<>>
  /\ toSMS' = Tail(toSMS)
  /\ Handle(Head(toSMS))
  /\ SmsStep
  /\ mixed' = (mixed \/ OfOlderTransaction(Head(toSMS)))
  /\ UNCHANGED submits

(***************************************************************************)
(* MM and the network                                                      *)
(***************************************************************************)
MMStep == UNCHANGED <<sms, sent, submits, mixed>>

\* What the network gets of a CP-DATA: the message, still without CP-ACK.
Received(m) ==
  IF m.cp = "CP_DATA" /\ m.rp = "RP_DATA" THEN [ref |-> m.ref, acked |-> FALSE] ELSE rx[m.ti]

MMReceives ==
  /\ toMM # <<>>
  /\ toMM' = Tail(toMM)
  /\ LET m == Head(toMM) IN
     /\ conn' = [conn EXCEPT ![m.ti] = CASE m.m = "ESTABLISH_REQ" -> "pending"
                                         [] m.m = "RELEASE_REQ"   -> "none"
                                         [] m.m = "DATA_REQ"      -> @]
     /\ rx' = [rx EXCEPT ![m.ti] = CASE m.m # "DATA_REQ" -> None
                                     [] m.m = "DATA_REQ" /\ conn[m.ti] = "open" -> Received(m)
                                     [] m.m = "DATA_REQ" /\ conn[m.ti] # "open" -> @]
  /\ MMStep
  /\ UNCHANGED <<toSMS, accepted, failures>>

Indicate(m) == Len(toSMS) < MaxQueue /\ toSMS' = Append(toSMS, m)

MMConfirms(t) ==
  /\ conn[t] = "pending"
  /\ conn' = [conn EXCEPT ![t] = "open"]
  /\ Indicate(FromMM("ESTABLISH_CNF", t, "", NoData))
  /\ MMStep
  /\ UNCHANGED <<toMM, rx, accepted, failures>>

\* A request rejected or a connection released by the network
MMReleases(t, cause) ==
  /\ conn[t] \in {"pending", "open"}
  /\ failures < MaxFailures
  /\ failures' = failures + 1
  /\ conn' = [conn EXCEPT ![t] = "none"]
  /\ rx' = [rx EXCEPT ![t] = None]
  /\ Indicate(FromMM("RELEASE_IND", t, cause, NoData))
  /\ MMStep
  /\ UNCHANGED <<toMM, accepted>>

\* A radio link failure: MM keeps the connection until SMS releases it.
MMLoses(t, cause) ==
  /\ conn[t] = "open"
  /\ failures < MaxFailures
  /\ failures' = failures + 1
  /\ conn' = [conn EXCEPT ![t] = "lost"]
  /\ rx' = [rx EXCEPT ![t] = None]
  /\ Indicate(FromMM("ERROR_IND", t, cause, NoData))
  /\ MMStep
  /\ UNCHANGED <<toMM, accepted>>

NetworkStep == MMStep /\ UNCHANGED <<toMM, conn, failures>>

NetworkAcks(t) ==
  /\ conn[t] = "open" /\ rx[t] # None /\ ~rx[t].acked
  /\ rx' = [rx EXCEPT ![t].acked = TRUE]
  /\ Indicate(FromMM("DATA_IND", t, "", Downlink("CP_ACK", "", 0, "")))
  /\ UNCHANGED accepted
  /\ NetworkStep

\* The answer of the service centre; a message it already has is a duplicate.
Answers(ref) ==
  IF ref \in accepted THEN {"RP_DUPLICATE"} ELSE {"RP_ACK", "RP_TEMPORARY", "RP_PERMANENT"}

NetworkAnswers(t) ==
  /\ conn[t] = "open" /\ rx[t] # None
  /\ \E rp \in Answers(rx[t].ref) \cup (IF Stray THEN {"RP_OTHER"} ELSE {}) :
       /\ Indicate(FromMM("DATA_IND", t, "", Downlink("CP_DATA", rp, rx[t].ref, "")))
       /\ accepted' = IF rp = "RP_ACK" THEN accepted \cup {rx[t].ref} ELSE accepted
  /\ rx' = [rx EXCEPT ![t] = None]
  /\ NetworkStep

NetworkRejects(t) ==
  /\ conn[t] = "open" /\ rx[t] # None
  /\ Indicate(FromMM("DATA_IND", t, "", Downlink("CP_ERROR", "", 0, "")))
  /\ rx' = [rx EXCEPT ![t] = None]
  /\ UNCHANGED accepted
  /\ NetworkStep

MoNext ==
  \/ UserSubmits
  \/ SmsTC1M
  \/ SmsTR1M
  \/ SmsReceives
  \/ MMReceives
  \/ \E t \in MoTis :
       \/ MMConfirms(t)
       \/ \E cause \in Causes : MMReleases(t, cause) \/ MMLoses(t, cause)
       \/ NetworkAcks(t)
       \/ NetworkAnswers(t)
       \/ NetworkRejects(t)

\* The scheduler runs a task whose queue is not empty, and a running timer
\* expires.  Nothing is asked of MM or the network beyond taking its messages.
MoFairness ==
  WF_moVars(SmsReceives) /\ WF_moVars(MMReceives) /\ WF_moVars(SmsTC1M) /\ WF_moVars(SmsTR1M)

MoSpec == MoInit /\ [][MoNext]_moVars /\ MoFairness

(***************************************************************************)
(* Properties                                                              *)
(***************************************************************************)
\* The submission implements its service: a message is confirmed as sent
\* only if the service centre accepted that message.  RL does not compare
\* references and CP does not compare the transaction identifiers of an MO
\* slot (rl_data_ind, csf_get_sms_instance), so it holds only until an
\* indication of an older transaction was taken for the present one: after
\* that an identifier is used again while MM still has its connection, and the
\* answer to one message may confirm the next.
Service == INSTANCE SmsService WITH
  Messages  <- Refs,
  NoMessage <- None,
  pending   <- IF sms.tl \in {"ESTABLISH", "SEND"} THEN sms.tp_mr ELSE None,
  accepted  <- accepted,
  sent      <- sent

ImplementsService ==
  Service!ServiceInit /\ [][~mixed' => Service!ServiceNext]_(Service!serviceVars)

\* A submission that TL has accepted is under way in RL: rl_establish_req
\* never finds RL busy with something else.
SubmitIsServed == sms.tl = "ESTABLISH" /\ sms.est = "SEND" => sms.rl = "ESTABLISH"

\* The message to be built after the connection is there is still kept:
\* csf_free_sms_instance frees it on several paths.
SduIsKept == ~mixed => (sms.tl = "ESTABLISH" /\ sms.est = "SEND" => sms.sdu)

\* When SMS has no connection and all is handled, MM has none either: the
\* radio connection is not held for a transaction nobody will release.
ConnectionsReleased ==
  (sms.cp = "IDLE" /\ toMM = <<>> /\ toSMS = <<>> /\ ~mixed) =>
    \A t \in MoTis : conn[t] = "none"

\* A submission is confirmed, unless its repetition cannot be established:
\* tl_timeout_ind ignores that timeout, and TL stays in TL_ESTABLISH.
Repeating == sms.tl = "ESTABLISH" /\ sms.est = "RTX" /\ sms.rl = "IDLE"
SubmitIsConfirmed == sms.tl \in {"ESTABLISH", "SEND"} ~> (sms.tl = "IDLE" \/ Repeating)

=============================================================================
