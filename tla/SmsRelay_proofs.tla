--------------------------- MODULE SmsRelay_proofs ---------------------------
(***************************************************************************)
(* Theorems about a transaction slot of the SMS entity, for any number of  *)
(* transaction identifiers, references and repetitions, and for any MM,    *)
(* network, SIM and user.  The proof follows the layers: what CP does to   *)
(* the slot, what RL does with CP, what TL does with RL, the handlers.     *)
(***************************************************************************)
EXTENDS SmsRelay, SequenceTheorems, TLAPS

-----------------------------------------------------------------------------
(* The data. *)

\* The numbers of a slot: what they start from and how they are stepped.
LEMMA NumberTypes ==
  /\ 0 \in Tis /\ 0 \in Refs /\ 0 \in Retx /\ 0 \in TlRetx /\ TL_MAX_RETANS \in TlRetx
  /\ MoTis \subseteq Tis /\ MtTis \subseteq Tis
  /\ \A t \in Tis : (t + 1) % MoTiCount \in Tis
  /\ \A r \in Refs : (r + 1) % RefCount \in Refs
  /\ \A n \in Retx : ~(n >= MAX_RETRANS) => n + 1 \in Retx
  /\ \A n \in TlRetx : n < TL_MAX_RETANS => n + 1 \in TlRetx
BY CountsAssumption, TisAssumption DEF Tis, MoTis, Refs, Retx, TlRetx

\* The messages a slot keeps and sends, and what it tells.
LEMMA DataTypes ==
  /\ None \in Kept
  /\ \A m \in Messages : m \in Kept /\ m # None
  /\ \A m \in Kept : m # None => m \in Messages
  /\ <<>> \in Sent /\ <<>> \in Tellings
  /\ \A q \in Sent, m \in Messages : Append(q, m) \in Sent
  /\ \A q \in Tellings : /\ Append(q, "submit_ok") \in Tellings
                         /\ Append(q, "submit_failed") \in Tellings
                         /\ Append(q, "submit_busy") \in Tellings
                         /\ Append(q, "store") \in Tellings
                         /\ Append(q, "shown") \in Tellings
<1>1. /\ None \in Kept
      /\ \A m \in Messages : m \in Kept /\ m # None
      /\ \A m \in Kept : m # None => m \in Messages
  BY NoneAssumption DEF Kept
<1>2. /\ <<>> \in Sent
      /\ \A q \in Sent, m \in Messages : Append(q, m) \in Sent
  BY DEF Sent
<1>3. /\ <<>> \in Tellings
      /\ \A q \in Tellings : /\ Append(q, "submit_ok") \in Tellings
                             /\ Append(q, "submit_failed") \in Tellings
                             /\ Append(q, "submit_busy") \in Tellings
                             /\ Append(q, "store") \in Tellings
                             /\ Append(q, "shown") \in Tellings
  BY DEF Tellings
<1> QED BY <1>1, <1>2, <1>3

\* The messages to MM are built of a transaction identifier and a reference.
LEMMA MessageTypes ==
  ASSUME NEW t \in Tis, NEW ref \in Refs
  PROVE  /\ ToMM("ESTABLISH_REQ", t, "", "", 0) \in Messages
         /\ ToMM("RELEASE_REQ", t, "", "", 0) \in Messages
         /\ ToMM("DATA_REQ", t, "CP_ACK", "", 0) \in Messages
         /\ ToMM("DATA_REQ", t, "CP_ERROR", "", 0) \in Messages
         /\ \A rp \in {"RP_DATA", "RP_ACK", "RP_ERROR"} :
              ToMM("DATA_REQ", t, "CP_DATA", rp, ref) \in Messages
BY NumberTypes DEF ToMM, Messages

\* The fields of a slot.
LEMMA SlotTypes ==
  ASSUME NEW s \in Slots
  PROVE  /\ s.ti \in Tis /\ s.msg_ref \in Refs /\ s.out \in Seq(Messages) /\ s.up \in Tellings
         /\ s.data_req \in Kept /\ s.retx \in Retx /\ s.r_flag \in BOOLEAN
         /\ s.cp_ack_pending \in BOOLEAN
BY DEF Slots, Sent

-----------------------------------------------------------------------------
(* The elements of a queue *)

Items(q) == {q[i] : i \in DOMAIN q}

LEMMA ItemsAppend ==
  ASSUME NEW S, NEW q \in Seq(S), NEW m \in S
  PROVE  Items(Append(q, m)) = Items(q) \cup {m}
<1>1. /\ DOMAIN q = 1 .. Len(q) /\ DOMAIN Append(q, m) = 1 .. Len(q) + 1 /\ Len(q) \in Nat
      /\ \A i \in 1 .. Len(q) : Append(q, m)[i] = q[i]
      /\ Append(q, m)[Len(q) + 1] = m
  OBVIOUS
<1>2. \A x \in Items(Append(q, m)) : x \in Items(q) \cup {m}
  BY <1>1 DEF Items
<1>3. \A x \in Items(q) \cup {m} : x \in Items(Append(q, m))
  BY <1>1 DEF Items
<1> QED BY <1>2, <1>3

LEMMA ItemsConcat ==
  ASSUME NEW S, NEW q \in Seq(S), NEW r \in Seq(S)
  PROVE  /\ q \o r \in Seq(S)
         /\ Items(q \o r) = Items(q) \cup Items(r)
<1>1. Range(q \o r) = Range(q) \cup Range(r)
  BY RangeConcatenation
<1>2. \A p : Items(p) = Range(p)
  BY DEF Items, Range
<1> QED BY <1>1, <1>2

LEMMA ItemsTail ==
  ASSUME NEW S, NEW q \in Seq(S), q # <<>>
  PROVE  /\ Head(q) \in S /\ Tail(q) \in Seq(S)
         /\ Items(q) = {Head(q)} \cup Items(Tail(q))
         /\ \A i \in DOMAIN Tail(q) : i + 1 \in DOMAIN q /\ Tail(q)[i] = q[i + 1]
         /\ 1 \in DOMAIN q /\ Head(q) = q[1]
<1>1. /\ Head(q) \in S /\ Tail(q) \in Seq(S) /\ Len(q) \in Nat \ {0}
      /\ DOMAIN q = 1 .. Len(q) /\ DOMAIN Tail(q) = 1 .. Len(q) - 1 /\ Head(q) = q[1]
      /\ \A i \in 1 .. Len(q) - 1 : Tail(q)[i] = q[i + 1]
  OBVIOUS
<1>2. \A x \in Items(q) : x \in {Head(q)} \cup Items(Tail(q))
  <2> TAKE x \in Items(q)
  <2>1. PICK i \in 1 .. Len(q) : x = q[i]
    BY <1>1 DEF Items
  <2>2. CASE i = 1
    BY <2>1, <2>2, <1>1
  <2>3. CASE i # 1
    <3>1. i - 1 \in DOMAIN Tail(q) /\ Tail(q)[i - 1] = x
      BY <2>1, <2>3, <1>1
    <3> QED BY <3>1 DEF Items
  <2> QED BY <2>2, <2>3
<1>3. \A x \in {Head(q)} \cup Items(Tail(q)) : x \in Items(q)
  BY <1>1 DEF Items
<1>4. Items(q) = {Head(q)} \cup Items(Tail(q))
  BY <1>2, <1>3
<1> QED BY <1>1, <1>4

LEMMA ItemsTyped ==
  ASSUME NEW S, NEW q \in Seq(S)
  PROVE  /\ Items(q) \subseteq S
         /\ Items(q) = {} => q = <<>>
         /\ Items(<<>>) = {}
BY EmptySeq DEF Items

\* The messages that close a connection and acknowledge and answer on it.
RelReq(t)          == ToMM("RELEASE_REQ", t, "", "", 0)
CpAck(t)           == ToMM("DATA_REQ", t, "CP_ACK", "", 0)
CpError(t)         == ToMM("DATA_REQ", t, "CP_ERROR", "", 0)
Answer(t, rp, ref) == ToMM("DATA_REQ", t, "CP_DATA", rp, ref)

-----------------------------------------------------------------------------
(* The invariant, in two halves: RL and TL, and CP under them. *)

Woken(s) ==
  /\ s.rl \in {"ESTABLISH", "WAIT_FOR_ACK"} => s.tr1m
  /\ s.rl = "WAIT_FOR_SEND_ACK" => s.tr2m

Repeatable(s) == s.cp = "WAIT_FOR_ACK" => s.data_req # None /\ s.tc1m

\* The MT slot never establishes and never submits.
Passive(s) ==
  s.inst = "MT" => /\ s.rl \notin {"ESTABLISH", "WAIT_FOR_ACK"}
                   /\ s.tl \notin {"ESTABLISH", "SEND"}

UpperInv(s) ==
  /\ s \in Slots
  /\ Woken(s)
  /\ Passive(s)
  /\ s.rl = "ESTABLISH" => s.tl = "ESTABLISH"
  /\ s.rl = "WAIT_FOR_ACK" <=> s.tl = "SEND"

Acked(s) ==
  s.cp_ack_pending =>
    \/ s.cp \in {"IDLE", "PENDING"}
    \/ s.cp = "ESTABLISHED" /\ s.rl = "WAIT_FOR_SEND_ACK"

LowerInv(s) ==
  /\ Repeatable(s)
  /\ Acked(s)
  /\ s.cp = "PENDING" => s.rl = "ESTABLISH"
  /\ s.rl = "ESTABLISH" => s.cp \in {"IDLE", "PENDING"}

SlotInv(s) == UpperInv(s) /\ LowerInv(s)

IInv == SlotInv(sms)

\* CP leaves what belongs to RL and TL as it is.
Below(s, r) ==
  /\ r.inst = s.inst /\ r.rl = s.rl /\ r.tl = s.tl /\ r.tr1m = s.tr1m /\ r.tr2m = s.tr2m
  /\ r.est = s.est /\ r.net = s.net /\ r.tl_retx = s.tl_retx

\* And what it does not send it leaves as it is, too.
Still(s, r) ==
  /\ Below(s, r)
  /\ r.cp = s.cp /\ r.data_req = s.data_req /\ r.tc1m = s.tc1m /\ r.ti = s.ti

-----------------------------------------------------------------------------
(* CP *)

\* Sending and telling change nothing else.
LEMMA SendStep ==
  ASSUME NEW s \in Slots
  PROVE  /\ \A m \in Messages : /\ Send(s, m) \in Slots
                                /\ Still(s, Send(s, m))
                                /\ Send(s, m).cp_ack_pending = s.cp_ack_pending
         /\ \A u \in {"submit_ok", "submit_failed", "submit_busy", "store", "shown"} :
              /\ Tell(s, u) \in Slots
              /\ Still(s, Tell(s, u))
              /\ Tell(s, u).cp_ack_pending = s.cp_ack_pending
<1> USE DataTypes DEF Still, Below
<1>1. \A m \in Messages : /\ Send(s, m) \in Slots
                          /\ Still(s, Send(s, m))
                          /\ Send(s, m).cp_ack_pending = s.cp_ack_pending
  BY DEF Slots, Send
<1>2. \A u \in {"submit_ok", "submit_failed", "submit_busy", "store", "shown"} :
        /\ Tell(s, u) \in Slots
        /\ Still(s, Tell(s, u))
        /\ Tell(s, u).cp_ack_pending = s.cp_ack_pending
  BY DEF Slots, Tell
<1> QED BY <1>1, <1>2

\* A release request is sent (cp_send_release_req), and an instance is freed.
LEMMA FreeStep ==
  ASSUME NEW s \in Slots, NEW t \in Tis
  PROVE  /\ cp_send_release_req(s, t) \in Slots
         /\ Still(s, cp_send_release_req(s, t))
         /\ cp_send_release_req(s, t).cp_ack_pending = s.cp_ack_pending
         /\ csf_free_sms_instance(s, t) \in Slots
         /\ Below(s, csf_free_sms_instance(s, t))
         /\ csf_free_sms_instance(s, t).cp = s.cp
         /\ csf_free_sms_instance(s, t).data_req = s.data_req
         /\ csf_free_sms_instance(s, t).tc1m = s.tc1m
         /\ csf_free_sms_instance(s, t).cp_ack_pending = s.cp_ack_pending
<1>1. /\ cp_send_release_req(s, t) \in Slots
      /\ Still(s, cp_send_release_req(s, t))
      /\ cp_send_release_req(s, t).cp_ack_pending = s.cp_ack_pending
  BY SendStep, MessageTypes, NumberTypes DEF cp_send_release_req
<1>2. /\ csf_free_sms_instance(s, t) \in Slots
      /\ Below(s, csf_free_sms_instance(s, t))
      /\ csf_free_sms_instance(s, t).cp = s.cp
      /\ csf_free_sms_instance(s, t).data_req = s.data_req
      /\ csf_free_sms_instance(s, t).tc1m = s.tc1m
      /\ csf_free_sms_instance(s, t).cp_ack_pending = s.cp_ack_pending
  BY NumberTypes DEF csf_free_sms_instance, Slots, Below
<1> QED BY <1>1, <1>2

\* After a CP-ACK, and before a CP-ERROR, none is owed.
LEMMA AckStep ==
  ASSUME NEW s \in Slots
  PROVE  /\ cp_build_cp_ack(s) \in Slots
         /\ Still(s, cp_build_cp_ack(s))
         /\ cp_build_cp_ack(s).cp_ack_pending = FALSE
         /\ AckPending(s) \in Slots
         /\ Still(s, AckPending(s))
         /\ AckPending(s).cp_ack_pending = FALSE
         /\ cp_build_cp_error(s) \in Slots
         /\ Still(s, cp_build_cp_error(s))
         /\ cp_build_cp_error(s).cp_ack_pending = FALSE
<1>1. s.ti \in Tis
  BY DEF Slots
<1>2. /\ cp_build_cp_ack(s) \in Slots
      /\ Still(s, cp_build_cp_ack(s))
      /\ cp_build_cp_ack(s).cp_ack_pending = FALSE
  <2> DEFINE u == [s EXCEPT !.cp_ack_pending = FALSE]
  <2>1. u \in Slots /\ Still(s, u) /\ u.cp_ack_pending = FALSE
    BY DEF Slots, Still, Below
  <2> HIDE DEF u
  <2>2. ToMM("DATA_REQ", s.ti, "CP_ACK", "", 0) \in Messages
    BY <1>1, MessageTypes, NumberTypes
  <2>3. cp_build_cp_ack(s) = Send(u, ToMM("DATA_REQ", s.ti, "CP_ACK", "", 0))
    BY DEF cp_build_cp_ack, u
  <2>4. /\ cp_build_cp_ack(s) \in Slots
        /\ Still(u, cp_build_cp_ack(s))
        /\ cp_build_cp_ack(s).cp_ack_pending = u.cp_ack_pending
    BY <2>1, <2>2, <2>3, SendStep
  <2> QED BY <2>1, <2>4 DEF Still, Below
<1>3. /\ AckPending(s) \in Slots
      /\ Still(s, AckPending(s))
      /\ AckPending(s).cp_ack_pending = FALSE
  BY <1>2 DEF AckPending, Still, Below
<1>4. ToMM("DATA_REQ", s.ti, "CP_ERROR", "", 0) \in Messages
  BY <1>1, MessageTypes, NumberTypes
<1>5. /\ cp_build_cp_error(s) \in Slots
      /\ Still(s, cp_build_cp_error(s))
      /\ cp_build_cp_error(s).cp_ack_pending = FALSE
  BY <1>3, <1>4, SendStep DEF cp_build_cp_error, Still, Below
<1> QED BY <1>2, <1>3, <1>5

\* The flags of CP change without a message.
LEMMA FlagStep ==
  ASSUME NEW s \in Slots
  PROVE  /\ \A b \in BOOLEAN : /\ [s EXCEPT !.r_flag = b] \in Slots
                               /\ Still(s, [s EXCEPT !.r_flag = b])
                               /\ [s EXCEPT !.r_flag = b].cp_ack_pending = s.cp_ack_pending
         /\ Aborted(s) \in Slots
         /\ Below(s, Aborted(s))
         /\ Aborted(s).cp = "IDLE" /\ Aborted(s).ti = s.ti
<1>1. \A b \in BOOLEAN : /\ [s EXCEPT !.r_flag = b] \in Slots
                         /\ Still(s, [s EXCEPT !.r_flag = b])
                         /\ [s EXCEPT !.r_flag = b].cp_ack_pending = s.cp_ack_pending
  BY DEF Slots, Still, Below
<1>2. /\ Aborted(s) \in Slots
      /\ Below(s, Aborted(s))
      /\ Aborted(s).cp = "IDLE" /\ Aborted(s).ti = s.ti
  BY DEF Slots, Aborted, Below
<1> QED BY <1>1, <1>2

\* A connection is asked for (cp_establish_req).
LEMMA CpEstablishStep ==
  ASSUME NEW s \in Slots, NEW t \in Tis
  PROVE  /\ cp_establish_req(s, t) \in Slots
         /\ Below(s, cp_establish_req(s, t))
         /\ cp_establish_req(s, t).cp = "PENDING"
<1> DEFINE u == [s EXCEPT !.cp = "PENDING"]
<1>1. u \in Slots /\ Below(s, u) /\ u.cp = "PENDING"
  BY DEF Slots, Below
<1>2. ToMM("ESTABLISH_REQ", t, "", "", 0) \in Messages
  BY MessageTypes, NumberTypes
<1>3. cp_establish_req(s, t) = Send(u, ToMM("ESTABLISH_REQ", t, "", "", 0))
  BY DEF cp_establish_req, u
<1> HIDE DEF u
<1>4. cp_establish_req(s, t) \in Slots /\ Still(u, cp_establish_req(s, t))
  BY <1>1, <1>2, <1>3, SendStep
<1> QED BY <1>1, <1>4 DEF Still, Below

\* A CP-DATA that is sent is kept and timed, and the CP-ACK goes first; outside
\* of a connection none is sent (cp_data_req).
Queued(s, r) ==
  /\ s.cp = "ESTABLISHED" => /\ r.cp = "WAIT_FOR_ACK" /\ r.data_req # None
                             /\ r.tc1m = TRUE /\ r.cp_ack_pending = FALSE
  /\ s.cp # "ESTABLISHED" => r = s

LEMMA CpDataStep ==
  ASSUME NEW s \in Slots, NEW rp \in {"RP_DATA", "RP_ACK", "RP_ERROR"}, NEW ref \in Refs
  PROVE  /\ cp_data_req(s, rp, ref) \in Slots
         /\ Below(s, cp_data_req(s, rp, ref))
         /\ Queued(s, cp_data_req(s, rp, ref))
<1>1. CASE s.cp = "ESTABLISHED"
  <2> DEFINE m == ToMM("DATA_REQ", s.ti, "CP_DATA", rp, ref)
             a == AckPending(s)
             u == [a EXCEPT !.cp = "WAIT_FOR_ACK", !.retx = 0, !.data_req = m, !.tc1m = TRUE]
  <2>1. s.ti \in Tis
    BY DEF Slots
  <2>2. m \in Messages /\ m # None /\ m \in Kept
    BY <2>1, MessageTypes, DataTypes
  <2>3. a \in Slots /\ Still(s, a) /\ a.cp_ack_pending = FALSE
    BY AckStep
  <2>4. cp_data_req(s, rp, ref) = Send(u, m)
    BY <1>1 DEF cp_data_req, Transmit
  <2> HIDE DEF m, a
  <2>5. /\ u \in Slots /\ Below(a, u) /\ u.cp = "WAIT_FOR_ACK" /\ u.data_req = m
        /\ u.tc1m = TRUE /\ u.cp_ack_pending = FALSE
    BY <2>2, <2>3, NumberTypes DEF Slots, Below
  <2> HIDE DEF u
  <2>6. /\ cp_data_req(s, rp, ref) \in Slots
        /\ Still(u, cp_data_req(s, rp, ref))
        /\ cp_data_req(s, rp, ref).cp_ack_pending = u.cp_ack_pending
    BY <2>2, <2>4, <2>5, SendStep
  <2> QED BY <1>1, <2>2, <2>3, <2>5, <2>6 DEF Still, Below, Queued
<1>2. CASE s.cp # "ESTABLISHED"
  BY <1>2 DEF cp_data_req, Below, Queued
<1> QED BY <1>1, <1>2

\* A release closes an established connection, is put off while a CP-ACK is
\* awaited, and changes nothing of what is kept and timed (cp_release_req).
LEMMA CpReleaseStep ==
  ASSUME NEW s \in Slots, NEW t \in Tis
  PROVE  /\ cp_release_req(s, t) \in Slots
         /\ Below(s, cp_release_req(s, t))
         /\ cp_release_req(s, t).data_req = s.data_req
         /\ cp_release_req(s, t).tc1m = s.tc1m
         /\ cp_release_req(s, t).cp = IF s.cp = "ESTABLISHED" THEN "IDLE" ELSE s.cp
         /\ s.cp = "WAIT_FOR_ACK" => cp_release_req(s, t).cp_ack_pending = s.cp_ack_pending
<1> DEFINE a == AckPending(s)
<1>1. a \in Slots /\ Still(s, a)
  BY AckStep
<1>2. s.cp \in {"IDLE", "PENDING", "ESTABLISHED", "WAIT_FOR_ACK"}
  BY DEF Slots
<1>3. CASE s.cp = "IDLE"
  <2> DEFINE u == [s EXCEPT !.r_flag = FALSE]
  <2>1. u \in Slots /\ Still(s, u)
    BY FlagStep
  <2>2. cp_release_req(s, t) = csf_free_sms_instance(u, t)
    BY <1>3 DEF cp_release_req
  <2> HIDE DEF u
  <2> QED BY <1>3, <2>1, <2>2, FreeStep DEF Still, Below
<1>4. CASE s.cp = "WAIT_FOR_ACK"
  BY <1>4, FlagStep DEF cp_release_req, Still, Below
<1>5. CASE s.cp = "PENDING"
  <2> DEFINE u == [a EXCEPT !.r_flag = FALSE]
  <2>1. u \in Slots /\ Still(a, u)
    BY <1>1, FlagStep
  <2>2. cp_release_req(s, t) = cp_send_release_req(u, t)
    BY <1>5 DEF cp_release_req
  <2> HIDE DEF u, a
  <2> QED BY <1>1, <1>5, <2>1, <2>2, FreeStep DEF Still, Below
<1>6. CASE s.cp = "ESTABLISHED"
  <2> DEFINE u == [a EXCEPT !.r_flag = FALSE, !.cp = "IDLE"]
  <2>1. cp_release_req(s, t) = cp_send_release_req(u, t)
    BY <1>6 DEF cp_release_req
  <2> HIDE DEF a
  <2>2. /\ u \in Slots /\ Below(a, u) /\ u.cp = "IDLE" /\ u.data_req = a.data_req
        /\ u.tc1m = a.tc1m
    BY <1>1 DEF Slots, Below
  <2> HIDE DEF u
  <2> QED BY <1>1, <1>6, <2>1, <2>2, FreeStep DEF Still, Below
<1> QED BY <1>2, <1>3, <1>4, <1>5, <1>6

\* After cp_abort_req, and after Release, CP is idle.
LEMMA CpAbortStep ==
  ASSUME NEW s \in Slots
  PROVE  /\ cp_abort_req(s) \in Slots
         /\ Below(s, cp_abort_req(s))
         /\ cp_abort_req(s).cp = "IDLE"
         /\ cp_abort_req(s).data_req = s.data_req
<1>1. s.cp \in {"IDLE", "PENDING", "ESTABLISHED", "WAIT_FOR_ACK"} /\ s.ti \in Tis
  BY DEF Slots
<1>2. CASE s.cp = "IDLE"
  BY <1>2 DEF cp_abort_req, Below
<1>3. CASE s.cp = "PENDING"
  <2>1. cp_abort_req(s) = cp_send_release_req(Aborted(s), s.ti)
    BY <1>3 DEF cp_abort_req
  <2>2. Aborted(s).data_req = s.data_req
    BY DEF Aborted, Slots
  <2>3. /\ Aborted(s) \in Slots /\ Below(s, Aborted(s)) /\ Aborted(s).cp = "IDLE"
        /\ cp_abort_req(s) \in Slots /\ Still(Aborted(s), cp_abort_req(s))
    BY <1>1, <2>1, FlagStep, FreeStep
  <2> QED BY <2>2, <2>3 DEF Still, Below
<1>4. CASE s.cp \in {"ESTABLISHED", "WAIT_FOR_ACK"}
  <2> DEFINE e == cp_build_cp_error(s)
             u == IF s.cp = "ESTABLISHED" THEN Aborted(e) ELSE [Aborted(e) EXCEPT !.tc1m = FALSE]
  <2>1. cp_abort_req(s) = cp_send_release_req(u, s.ti)
    BY <1>4 DEF cp_abort_req
  <2>2. e \in Slots /\ Still(s, e)
    BY AckStep
  <2> HIDE DEF e
  <2>3. u \in Slots /\ Below(e, u) /\ u.cp = "IDLE" /\ u.data_req = e.data_req
    BY <2>2, ZenonT(40) DEF Aborted, Slots, Below
  <2> HIDE DEF u
  <2> QED BY <1>1, <2>1, <2>2, <2>3, FreeStep DEF Still, Below
<1> QED BY <1>1, <1>2, <1>3, <1>4

\* What the answers of RL rely on: no CP-DATA is owed a CP-ACK once another
\* one waits for its own.
Orderly(s) ==
  /\ Repeatable(s)
  /\ s.cp # "PENDING"
  /\ s.cp = "WAIT_FOR_ACK" => s.cp_ack_pending = FALSE

\* Every answer (cp_data_req) leaves the connection waiting, or there is none.
LEMMA AnswerStep ==
  ASSUME NEW s \in Slots, Orderly(s),
         NEW rp \in {"RP_DATA", "RP_ACK", "RP_ERROR"}, NEW ref \in Refs
  PROVE  /\ cp_data_req(s, rp, ref) \in Slots
         /\ Below(s, cp_data_req(s, rp, ref))
         /\ Orderly(cp_data_req(s, rp, ref))
         /\ cp_data_req(s, rp, ref).cp # "ESTABLISHED"
<1> DEFINE r == cp_data_req(s, rp, ref)
<1>1. r \in Slots /\ Below(s, r) /\ Queued(s, r)
  BY CpDataStep
<1> HIDE DEF r
<1>2. Orderly(r) /\ r.cp # "ESTABLISHED"
  BY <1>1 DEF Orderly, Repeatable, Queued
<1> QED BY <1>1, <1>2 DEF r

\* So does every release (cp_release_req).
LEMMA HangUpStep ==
  ASSUME NEW s \in Slots, Orderly(s), NEW t \in Tis
  PROVE  /\ cp_release_req(s, t) \in Slots
         /\ Below(s, cp_release_req(s, t))
         /\ Orderly(cp_release_req(s, t))
         /\ cp_release_req(s, t).cp # "ESTABLISHED"
         /\ s.cp # "WAIT_FOR_ACK" => cp_release_req(s, t).cp = "IDLE"
BY CpReleaseStep DEF Orderly, Repeatable, Slots

\* What CP does below RL and TL does not disturb them.
LEMMA UpperKept ==
  ASSUME NEW s, UpperInv(s), NEW r \in Slots, Below(s, r)
  PROVE  UpperInv(r)
BY DEF UpperInv, Below, Woken, Passive

\* Where the connection waits or is gone, CP is in order whatever RL does.
LEMMA LowerHolds ==
  ASSUME NEW s, Orderly(s), s.cp # "ESTABLISHED", s.cp = "IDLE" \/ s.rl # "ESTABLISH",
         s \in Slots
  PROVE  LowerInv(s)
BY DEF Orderly, LowerInv, Acked, Slots

-----------------------------------------------------------------------------
(* RL and TL *)

\* RL has nothing under way, and TL waits for no report.
Resting(s) == s.rl = "IDLE" /\ s.tl # "SEND" /\ Passive(s)

\* Where RL rests and the connection waits or is gone, all is in order.
LEMMA RestHolds ==
  ASSUME NEW s \in Slots, Resting(s), Orderly(s), s.cp # "ESTABLISHED"
  PROVE  SlotInv(s)
<1>1. UpperInv(s)
  BY DEF Resting, UpperInv, Woken, Slots
<1>2. s.rl # "ESTABLISH"
  BY DEF Resting
<1>3. LowerInv(s)
  BY <1>2, LowerHolds
<1> QED BY <1>1, <1>3 DEF SlotInv

\* What closes a step of RL leaves the connection so, and TL as it is.
Answering(s, r) ==
  /\ r \in Slots /\ Orderly(r) /\ r.cp # "ESTABLISHED"
  /\ r.rl = "IDLE" /\ r.tl = s.tl /\ r.inst = s.inst

\* The report to the network, positive or negative, ends the work of RL.
LEMMA ReportStep ==
  ASSUME NEW s \in Slots, Orderly(s), s.rl = "WAIT_FOR_SEND_ACK"
  PROVE  Answering(s, rl_report_req_error(s)) /\ Answering(s, rl_report_req_ack(s))
<1> DEFINE u == [s EXCEPT !.rl = "IDLE", !.tr2m = FALSE]
<1>1. /\ u \in Slots /\ u.rl = "IDLE" /\ u.tl = s.tl /\ u.inst = s.inst
      /\ u.msg_ref = s.msg_ref /\ u.msg_ref \in Refs
  BY DEF Slots
<1>2. Orderly(u)
  BY DEF Orderly, Repeatable, Slots
<1>3. /\ rl_report_req_error(s) = cp_data_req(u, "RP_ERROR", u.msg_ref)
      /\ ReportAck(s) = cp_data_req(u, "RP_ACK", u.msg_ref)
      /\ rl_report_req_ack(s) = cp_release_req(ReportAck(s), s.ti)
  BY <1>1 DEF rl_report_req_error, rl_report_req_ack, ReportAck
<1> HIDE DEF u
<1>4. /\ Below(u, rl_report_req_error(s)) /\ rl_report_req_error(s) \in Slots
      /\ Orderly(rl_report_req_error(s)) /\ rl_report_req_error(s).cp # "ESTABLISHED"
  BY <1>1, <1>2, <1>3, AnswerStep
<1>5. /\ Below(u, ReportAck(s)) /\ ReportAck(s) \in Slots /\ Orderly(ReportAck(s))
  BY <1>1, <1>2, <1>3, AnswerStep
<1>6. s.ti \in Tis
  BY DEF Slots
<1>7. /\ Below(ReportAck(s), rl_report_req_ack(s)) /\ rl_report_req_ack(s) \in Slots
      /\ Orderly(rl_report_req_ack(s)) /\ rl_report_req_ack(s).cp # "ESTABLISHED"
  BY <1>3, <1>5, <1>6, HangUpStep
<1>8. Answering(s, rl_report_req_error(s))
  BY <1>1, <1>4 DEF Answering, Below
<1>9. Answering(s, rl_report_req_ack(s))
  BY <1>1, <1>5, <1>7 DEF Answering, Below
<1> QED BY <1>8, <1>9

\* The report of RL to TL ends the work of TL, and the connection with it
\* (tl_report_ind).  A duplicate is reported only once the CP-DATA is
\* acknowledged: the message kept for its repetition is given up then.
LEMMA TlReportStep ==
  ASSUME NEW s \in Slots, s.rl = "IDLE", Orderly(s), NEW cause,
         cause = "RP_DUPLICATE" => s.cp # "WAIT_FOR_ACK"
  PROVE  /\ SlotInv(tl_report_ind(s, cause))
         /\ s.cp # "WAIT_FOR_ACK" => tl_report_ind(s, cause).cp = "IDLE"
<1> DEFINE c == ConfirmSubmit(s, cause)
           p == Report(s, cause)
           q == Closed(p)
           r == tl_report_ind(s, cause)
<1>1. c \in Slots /\ c.rl = "IDLE" /\ c.cp = s.cp /\ Orderly(c)
  <2> DEFINE u == [s EXCEPT !.data_req = IF cause = "ok" THEN @ ELSE None]
  <2>1. /\ u \in Slots /\ u.rl = "IDLE" /\ u.cp = s.cp /\ u.tc1m = s.tc1m
        /\ u.cp_ack_pending = s.cp_ack_pending
        /\ cause = "ok" => u.data_req = s.data_req
    BY DataTypes DEF Slots
  <2>2. c = IF cause = "ok" \/ IsDuplicate(s, cause)
            THEN Tell(u, "submit_ok") ELSE Tell(s, "submit_failed")
    BY DEF ConfirmSubmit
  <2> HIDE DEF u, c
  <2>3. CASE cause = "ok" \/ IsDuplicate(s, cause)
    <3>1. Orderly(u)
      BY <2>1, <2>3 DEF Orderly, Repeatable, IsDuplicate
    <3>2. c \in Slots /\ Still(u, c) /\ c.cp_ack_pending = u.cp_ack_pending
      BY <2>1, <2>2, <2>3, SendStep
    <3> QED BY <2>1, <3>1, <3>2 DEF Still, Below, Orderly, Repeatable
  <2>4. CASE ~(cause = "ok" \/ IsDuplicate(s, cause))
    <3>1. c \in Slots /\ Still(s, c) /\ c.cp_ack_pending = s.cp_ack_pending
      BY <2>2, <2>4, SendStep
    <3> QED BY <3>1 DEF Still, Below, Orderly, Repeatable
  <2> QED BY <2>3, <2>4
<1>2. p \in Slots /\ p.rl = "IDLE" /\ p.cp = s.cp /\ Orderly(p)
  <2>1. CASE s.tl \in {"ESTABLISH", "SEND"}
    BY <1>1, <2>1 DEF Report
  <2>2. CASE s.tl = "RECEIVE"
    <3>1. p = [s EXCEPT !.net = IF cause = "ok" THEN @ ELSE "IDLE"]
      BY <2>2 DEF Report
    <3> HIDE DEF p
    <3> QED BY <3>1 DEF Slots, Orderly, Repeatable
  <2>3. CASE s.tl = "IDLE"
    BY <2>3 DEF Report
  <2>4. s.tl \in {"ESTABLISH", "SEND", "RECEIVE", "IDLE"}
    BY DEF Slots
  <2> QED BY <2>1, <2>2, <2>3, <2>4
<1> HIDE DEF c, p
<1>3. q \in Slots /\ q.rl = "IDLE" /\ q.tl = "IDLE" /\ q.cp = s.cp /\ Orderly(q)
  BY <1>2 DEF Closed, Slots, Orderly, Repeatable
<1>4. r = cp_release_req(q, s.ti) /\ s.ti \in Tis
  BY DEF tl_report_ind, rl_release_req, p, Slots
<1> HIDE DEF q, r
<1>5. /\ r \in Slots /\ Below(q, r) /\ Orderly(r) /\ r.cp # "ESTABLISHED"
      /\ q.cp # "WAIT_FOR_ACK" => r.cp = "IDLE"
  BY <1>3, <1>4, HangUpStep
<1>6. Resting(r)
  BY <1>3, <1>5 DEF Resting, Below, Passive
<1>7. SlotInv(r)
  BY <1>5, <1>6, RestHolds
<1> QED BY <1>3, <1>5, <1>7 DEF r

\* A message that arrives is written to the SIM under TR2M, or it is answered
\* at once (tl_data_ind).
LEMMA TlDataStep ==
  ASSUME NEW s \in Slots, s.rl = "WAIT_FOR_SEND_ACK", s.tr2m, s.cp = "ESTABLISHED",
         s.tl # "SEND", Passive(s), NEW tp \in TpTypes
  PROVE  SlotInv(tl_data_ind(s, tp))
<1>1. Orderly(s) /\ s.ti \in Tis
  BY DEF Orderly, Repeatable, Slots
<1>2. CASE tp = "sim"
  <2> DEFINE u == [s EXCEPT !.tl = "RECEIVE", !.net = "WRITE"]
             r == Tell(u, "store")
  <2>1. tl_data_ind(s, tp) = r
    BY <1>2 DEF tl_data_ind, tl_handle_message
  <2>2. /\ u \in Slots /\ u.rl = s.rl /\ u.tr2m = s.tr2m /\ u.cp = s.cp /\ u.tl = "RECEIVE"
    BY DEF Slots
  <2> HIDE DEF u
  <2>3. r \in Slots /\ Still(u, r)
    BY <2>2, SendStep
  <2> HIDE DEF r
  <2>4. /\ r.rl = "WAIT_FOR_SEND_ACK" /\ r.tr2m = s.tr2m /\ r.cp = "ESTABLISHED"
        /\ r.tl = "RECEIVE"
    BY <2>2, <2>3 DEF Still, Below
  <2> QED BY <2>1, <2>3, <2>4
          DEF SlotInv, UpperInv, LowerInv, Woken, Passive, Repeatable, Acked
<1>3. CASE tp = "shown"
  <2> DEFINE u == [s EXCEPT !.tl = "IDLE"]
             v == Tell(u, "shown")
             r == rl_report_req_ack(v)
  <2>1. tl_data_ind(s, tp) = r
    BY <1>3 DEF tl_data_ind, tl_handle_message
  <2>2. /\ u \in Slots /\ u.rl = s.rl /\ u.cp = s.cp /\ u.tl = "IDLE" /\ u.inst = s.inst
    BY DEF Slots
  <2> HIDE DEF u
  <2>3. v \in Slots /\ Still(u, v)
    BY <2>2, SendStep
  <2> HIDE DEF v
  <2>4. Orderly(v) /\ v.rl = "WAIT_FOR_SEND_ACK" /\ v.tl = "IDLE"
    BY <2>2, <2>3 DEF Still, Below, Orderly, Repeatable
  <2>5. Answering(v, r)
    BY <2>3, <2>4, ReportStep
  <2> HIDE DEF r
  <2> QED BY <2>1, <2>4, <2>5, RestHolds DEF Answering, Resting, Passive
<1>4. CASE tp = "full"
  <2> DEFINE u == [s EXCEPT !.tl = "IDLE"]
             v == rl_report_req_error(u)
             r == cp_release_req(v, s.ti)
  <2>1. tl_data_ind(s, tp) = r
    BY <1>4 DEF tl_data_ind, tl_handle_message, rl_release_req
  <2>2. /\ u \in Slots /\ u.rl = s.rl /\ u.tl = "IDLE" /\ Orderly(u)
    BY <1>1 DEF Slots, Orderly, Repeatable
  <2> HIDE DEF u
  <2>3. Answering(u, v)
    BY <2>2, ReportStep
  <2> HIDE DEF v
  <2>4. r \in Slots /\ Below(v, r) /\ Orderly(r) /\ r.cp # "ESTABLISHED"
    BY <1>1, <2>3, HangUpStep DEF Answering
  <2> HIDE DEF r
  <2> QED BY <2>1, <2>2, <2>3, <2>4, RestHolds DEF Answering, Resting, Passive, Below
<1>5. CASE tp = "invalid"
  <2> DEFINE v == rl_report_req_error(s)
             r == cp_release_req(v, s.ti)
  <2>1. tl_data_ind(s, tp) = r
    BY <1>5 DEF tl_data_ind, rl_release_req
  <2>2. Answering(s, v)
    BY <1>1, ReportStep
  <2> HIDE DEF v
  <2>3. r \in Slots /\ Below(v, r) /\ Orderly(r) /\ r.cp # "ESTABLISHED"
    BY <1>1, <2>2, HangUpStep DEF Answering
  <2> HIDE DEF r
  <2> QED BY <2>1, <2>2, <2>3, RestHolds DEF Answering, Resting, Passive, Below
<1> QED BY <1>2, <1>3, <1>4, <1>5 DEF TpTypes

\* The loss of the connection either leaves RL waiting for TR1M or resets it
\* (rl_error_ind).
LEMMA RlErrorStep ==
  ASSUME NEW s, UpperInv(s), s.cp = "IDLE", NEW cause \in {"norm", "other", "timeout"}
  PROVE  /\ SlotInv(rl_error_ind(s, cause))
         /\ rl_error_ind(s, cause).cp = "IDLE"
<1>1. /\ s \in Slots /\ s.ti \in Tis /\ s.tr1m \in BOOLEAN
      /\ s.rl \in {"IDLE", "ESTABLISH", "ESTABLISHED", "WAIT_FOR_ACK", "WAIT_FOR_SEND_ACK"}
  BY DEF UpperInv, Slots
<1>2. CASE AwaitsRetry(s, cause)
  <2> DEFINE r == [s EXCEPT !.tr1m = @ \/ s.rl = "ESTABLISH" \/ cause = "timeout"]
  <2>1. rl_error_ind(s, cause) = r
    BY <1>2 DEF rl_error_ind
  <2>2. r \in Slots
    BY <1>1 DEF Slots
  <2>3. /\ r.cp = "IDLE" /\ r.rl = s.rl /\ r.tl = s.tl /\ r.inst = s.inst
        /\ r.tr2m = s.tr2m /\ (s.tr1m => r.tr1m)
    BY <1>1 DEF Slots
  <2> HIDE DEF r
  <2>4. UpperInv(r)
    BY <2>2, <2>3 DEF UpperInv, Woken, Passive
  <2>5. LowerInv(r)
    BY <2>3 DEF LowerInv, Repeatable, Acked
  <2> QED BY <2>1, <2>3, <2>4, <2>5 DEF SlotInv
<1>3. CASE ~AwaitsRetry(s, cause)
  <2> DEFINE t1 == s.tr1m /\ s.rl \notin {"ESTABLISH", "WAIT_FOR_ACK"}
             t2 == s.tr2m /\ s.rl # "WAIT_FOR_SEND_ACK"
             u == [s EXCEPT !.rl = "IDLE", !.tr1m = t1, !.tr2m = t2]
             v == AfterError(s)
  <2>1. t1 \in BOOLEAN /\ t2 \in BOOLEAN
    OBVIOUS
  <2>2. v = csf_free_sms_instance(u, s.ti)
    BY <1>1 DEF AfterError, Slots
  <2> HIDE DEF t1, t2
  <2>3. /\ u \in Slots /\ u.rl = "IDLE" /\ u.cp = "IDLE" /\ u.tl = s.tl /\ u.inst = s.inst
    BY <1>1, <2>1 DEF Slots
  <2> HIDE DEF u, v
  <2>4. v \in Slots /\ v.rl = "IDLE" /\ v.cp = "IDLE" /\ v.tl = s.tl /\ v.inst = s.inst
    BY <1>1, <2>2, <2>3, FreeStep DEF Below
  <2>5. Orderly(v)
    BY <2>4 DEF Orderly, Repeatable
  <2>6. CASE s.rl # "IDLE"
    <3>1. rl_error_ind(s, cause) = tl_report_ind(v, cause)
      BY <1>3, <2>6 DEF rl_error_ind, v
    <3> QED BY <2>4, <2>5, <3>1, TlReportStep
  <2>7. CASE s.rl = "IDLE"
    <3>1. rl_error_ind(s, cause) = v
      BY <1>3, <2>7 DEF rl_error_ind, v
    <3>2. Resting(v)
      BY <2>4, <2>7 DEF Resting, UpperInv, Passive
    <3> QED BY <2>4, <2>5, <3>1, <3>2, RestHolds
  <2> QED BY <2>6, <2>7
<1> QED BY <1>2, <1>3

\* The answer of the network to a submission ends it, or leaves RL waiting for
\* the repetition (rl_data_ind_wait_for_ack).
LEMMA RlAnswerStep ==
  ASSUME NEW s, UpperInv(s), s.cp = "ESTABLISHED", s.rl = "WAIT_FOR_ACK",
         NEW d, d.rp \in RpTypes \cup {"RP_DATA"}, d.ref \in Refs
  PROVE  SlotInv(rl_data_ind_wait_for_ack(s, d))
<1> DEFINE a == Answered(s)
<1>1. s \in Slots /\ s.ti \in Tis /\ Orderly(s) /\ s.tl = "SEND"
  BY DEF UpperInv, Slots, Orderly, Repeatable
<1>2. a \in Slots /\ a.rl = "IDLE" /\ a.cp = "ESTABLISHED" /\ Orderly(a)
  BY <1>1 DEF Answered, Slots, Orderly, Repeatable
<1>3. CASE d.rp = "RP_ACK"
  <2> DEFINE v == tl_report_ind(a, "ok")
             r == AcknowledgedBy(v)
  <2>1. rl_data_ind_wait_for_ack(s, d) = r
    BY <1>3 DEF rl_data_ind_wait_for_ack
  <2> HIDE DEF a
  <2>2. SlotInv(v) /\ v.cp = "IDLE"
    BY <1>2, TlReportStep
  <2> HIDE DEF v
  <2>3. v \in Slots
    BY <2>2 DEF SlotInv, UpperInv
  <2>4. /\ r \in Slots /\ r.cp = "IDLE" /\ r.rl = v.rl /\ r.tl = v.tl /\ r.inst = v.inst
        /\ r.tr1m = v.tr1m /\ r.tr2m = v.tr2m
    BY <2>2, <2>3, DataTypes DEF AcknowledgedBy, Slots
  <2> HIDE DEF r
  <2>5. UpperInv(r)
    BY <2>2, <2>4 DEF SlotInv, UpperInv, Woken, Passive
  <2>6. LowerInv(r)
    BY <2>4 DEF LowerInv, Repeatable, Acked
  <2> QED BY <2>1, <2>5, <2>6 DEF SlotInv
<1>4. CASE d.rp = "RP_TEMPORARY" /\ MayRepeat(s)
  <2> DEFINE u == [s EXCEPT !.tr1m = TRUE]
             r == cp_release_req(u, s.ti)
  <2>1. rl_data_ind_wait_for_ack(s, d) = r
    BY <1>4 DEF rl_data_ind_wait_for_ack
  <2>2. u \in Slots /\ UpperInv(u) /\ u.cp = "ESTABLISHED" /\ Orderly(u)
    BY <1>1 DEF UpperInv, Woken, Passive, Slots, Orderly, Repeatable
  <2> HIDE DEF u
  <2>3. r \in Slots /\ Below(u, r) /\ Orderly(r) /\ r.cp = "IDLE"
    BY <1>1, <2>2, HangUpStep
  <2> HIDE DEF r
  <2>4. UpperInv(r)
    BY <2>2, <2>3, UpperKept
  <2>5. LowerInv(r)
    BY <2>3, LowerHolds
  <2> QED BY <2>1, <2>4, <2>5 DEF SlotInv
<1>5. CASE \/ d.rp = "RP_TEMPORARY" /\ ~MayRepeat(s)
           \/ d.rp \in {"RP_PERMANENT", "RP_DUPLICATE"}
  <2>1. rl_data_ind_wait_for_ack(s, d) = tl_report_ind(a, d.rp)
    BY <1>5 DEF rl_data_ind_wait_for_ack
  <2> HIDE DEF a
  <2> QED BY <1>2, <2>1, TlReportStep
<1>6. CASE d.rp \in {"RP_DATA", "RP_OTHER"}
  <2> DEFINE v == cp_data_req(a, "RP_ERROR", d.ref)
  <2>1. rl_data_ind_wait_for_ack(s, d) = tl_report_ind(v, "other")
    BY <1>6 DEF rl_data_ind_wait_for_ack
  <2> HIDE DEF a
  <2>2. v \in Slots /\ Below(a, v) /\ Orderly(v)
    BY <1>2, AnswerStep
  <2> HIDE DEF v
  <2>3. v.rl = "IDLE"
    BY <1>2, <2>2 DEF Below
  <2> QED BY <2>1, <2>2, <2>3, TlReportStep
<1> QED BY <1>3, <1>4, <1>5, <1>6 DEF RpTypes

\* A CP-DATA of the network on a connection (rl_data_ind).
LEMMA RlDataStep ==
  ASSUME NEW s, UpperInv(s), s.cp = "ESTABLISHED", s.rl # "ESTABLISH",
         NEW d, d.rp \in RpTypes \cup {"RP_DATA"}, d.ref \in Refs,
         d.rp = "RP_DATA" => d.tp \in TpTypes
  PROVE  SlotInv(rl_data_ind(s, d))
<1>1. s \in Slots /\ s.ti \in Tis /\ Orderly(s)
  BY DEF UpperInv, Slots, Orderly, Repeatable
<1>2. CASE s.rl \in {"IDLE", "ESTABLISHED"} /\ d.rp = "RP_DATA"
  <2> DEFINE u == [s EXCEPT !.rl = "WAIT_FOR_SEND_ACK", !.msg_ref = d.ref, !.tr2m = TRUE]
  <2>1. rl_data_ind(s, d) = tl_data_ind(u, d.tp)
    BY <1>2 DEF rl_data_ind
  <2>2. /\ u \in Slots /\ u.rl = "WAIT_FOR_SEND_ACK" /\ u.tr2m /\ u.cp = "ESTABLISHED"
        /\ u.tl = s.tl /\ u.inst = s.inst
    BY <1>1 DEF Slots
  <2> HIDE DEF u
  <2>3. u.tl # "SEND" /\ Passive(u)
    BY <1>2, <2>2 DEF UpperInv, Passive
  <2> QED BY <1>2, <2>1, <2>2, <2>3, TlDataStep
<1>3. CASE s.rl \in {"IDLE", "ESTABLISHED"} /\ d.rp # "RP_DATA"
  <2> DEFINE u == [s EXCEPT !.msg_ref = d.ref]
             v == cp_data_req(u, "RP_ERROR", d.ref)
             w == cp_release_req(v, s.ti)
             r == csf_free_sms_instance(w, s.ti)
  <2>1. rl_data_ind(s, d) = r
    BY <1>3 DEF rl_data_ind, Unexpected
  <2>2. u \in Slots /\ Orderly(u) /\ Below(s, u)
    BY <1>1 DEF Slots, Orderly, Repeatable, Below
  <2> HIDE DEF u
  <2>3. v \in Slots /\ Below(u, v) /\ Orderly(v)
    BY <2>2, AnswerStep
  <2> HIDE DEF v
  <2>4. w \in Slots /\ Below(v, w) /\ Orderly(w) /\ w.cp # "ESTABLISHED"
    BY <1>1, <2>3, HangUpStep
  <2> HIDE DEF w
  <2>5. /\ r \in Slots /\ Below(w, r) /\ r.cp = w.cp /\ r.data_req = w.data_req
        /\ r.tc1m = w.tc1m /\ r.cp_ack_pending = w.cp_ack_pending
    BY <1>1, <2>4, FreeStep
  <2> HIDE DEF r
  <2>6. Orderly(r) /\ r.cp # "ESTABLISHED" /\ Below(s, r)
    BY <2>2, <2>3, <2>4, <2>5 DEF Orderly, Repeatable, Below
  <2>7. UpperInv(r)
    BY <2>5, <2>6, UpperKept
  <2>8. LowerInv(r)
    BY <2>5, <2>6, LowerHolds DEF Below
  <2> QED BY <2>1, <2>7, <2>8 DEF SlotInv
<1>4. CASE s.rl = "WAIT_FOR_ACK"
  <2>1. rl_data_ind(s, d) = rl_data_ind_wait_for_ack(s, d)
    BY <1>4 DEF rl_data_ind
  <2> QED BY <1>4, <2>1, RlAnswerStep
<1>5. CASE s.rl = "WAIT_FOR_SEND_ACK"
  <2> DEFINE r == cp_data_req(s, "RP_ERROR", d.ref)
  <2>1. rl_data_ind(s, d) = r
    BY <1>5 DEF rl_data_ind
  <2>2. r \in Slots /\ Below(s, r) /\ Orderly(r) /\ r.cp # "ESTABLISHED"
    BY <1>1, AnswerStep
  <2> HIDE DEF r
  <2>3. UpperInv(r)
    BY <2>2, UpperKept
  <2>4. LowerInv(r)
    BY <2>2, LowerHolds DEF Below
  <2> QED BY <2>1, <2>3, <2>4 DEF SlotInv
<1> QED BY <1>1, <1>2, <1>3, <1>4, <1>5 DEF Slots

\* A connection is asked for (rl_establish_req): RL waits for it under TR1M.
LEMMA RlEstablishStep ==
  ASSUME NEW s \in Slots, s.rl = "IDLE", s.tl = "ESTABLISH", s.inst = "MO", NEW t \in Tis
  PROVE  SlotInv(rl_establish_req(s, t))
<1> DEFINE u == [s EXCEPT !.rl = "ESTABLISH", !.timer_ti = t, !.tr1m = TRUE]
           r == cp_establish_req(u, t)
<1>1. rl_establish_req(s, t) = r
  BY DEF rl_establish_req
<1>2. u \in Slots /\ u.rl = "ESTABLISH" /\ u.tl = "ESTABLISH" /\ u.inst = "MO" /\ u.tr1m = TRUE
  BY DEF Slots
<1> HIDE DEF u
<1>3. r \in Slots /\ Below(u, r) /\ r.cp = "PENDING"
  BY <1>2, CpEstablishStep
<1> HIDE DEF r
<1>4. r.rl = "ESTABLISH" /\ r.tl = "ESTABLISH" /\ r.inst = "MO" /\ r.tr1m = TRUE
  BY <1>2, <1>3 DEF Below
<1>5. UpperInv(r)
  BY <1>3, <1>4 DEF UpperInv, Woken, Passive
<1>6. LowerInv(r)
  BY <1>3, <1>4 DEF LowerInv, Repeatable, Acked
<1> QED BY <1>1, <1>5, <1>6 DEF SlotInv

\* TR1M ends the waiting of TL, too: the submission is repeated or given up
\* (tl_timeout_ind).
LEMMA TlTimeoutStep ==
  ASSUME NEW s \in Slots, s.rl = "IDLE", s.cp = "IDLE", s.inst = "MO",
         s.tl \in {"ESTABLISH", "SEND"}
  PROVE  SlotInv(tl_timeout_ind(s))
<1>1. /\ s.est \in {"SEND", "RTX"} /\ s.ti \in Tis /\ s.tl_retx \in TlRetx
      /\ csf_get_new_mo_ti(s) \in Tis
  BY NumberTypes DEF Slots, csf_get_new_mo_ti
<1>2. MayRepeat(s) => s.tl_retx + 1 \in TlRetx
  BY <1>1, NumberTypes DEF MayRepeat
<1>3. CASE s.tl = "ESTABLISH" /\ s.est = "RTX"
  <2>1. tl_timeout_ind(s) = s
    BY <1>3 DEF tl_timeout_ind, FirstTime
  <2>2. Resting(s) /\ Orderly(s)
    BY <1>3 DEF Resting, Passive, Orderly, Repeatable
  <2> QED BY <2>1, <2>2, RestHolds
<1>4. CASE FirstTime(s) /\ MayRepeat(s)
  <2> DEFINE u == [s EXCEPT !.tl_retx = @ + 1]
  <2>1. tl_timeout_ind(s) = rl_establish_req(u, csf_get_new_mo_ti(u))
    BY <1>4 DEF tl_timeout_ind, FirstTime, tl_establish_connection
  <2>2. /\ u \in Slots /\ u.rl = "IDLE" /\ u.tl = "ESTABLISH" /\ u.inst = "MO"
        /\ csf_get_new_mo_ti(u) \in Tis
    BY <1>1, <1>2, <1>4 DEF Slots, FirstTime, csf_get_new_mo_ti
  <2> HIDE DEF u
  <2> QED BY <2>1, <2>2, RlEstablishStep
<1>5. CASE s.tl = "SEND" /\ MayRepeat(s)
  <2> DEFINE u == [s EXCEPT !.tl_retx = @ + 1, !.tl = "ESTABLISH", !.est = "RTX"]
  <2>1. tl_timeout_ind(s) = rl_establish_req(u, csf_get_new_mo_ti(u))
    BY <1>5 DEF tl_timeout_ind, FirstTime, tl_establish_connection
  <2>2. /\ u \in Slots /\ u.rl = "IDLE" /\ u.tl = "ESTABLISH" /\ u.inst = "MO"
        /\ csf_get_new_mo_ti(u) \in Tis
    BY <1>1, <1>2, <1>5 DEF Slots, csf_get_new_mo_ti
  <2> HIDE DEF u
  <2> QED BY <2>1, <2>2, RlEstablishStep
<1>6. CASE (FirstTime(s) \/ s.tl = "SEND") /\ ~MayRepeat(s)
  <2> DEFINE u == Closed(s)
             r == Tell(u, "submit_failed")
  <2>1. tl_timeout_ind(s) = r
    BY <1>6 DEF tl_timeout_ind, FirstTime, GiveUp
  <2>2. u \in Slots /\ u.rl = "IDLE" /\ u.tl = "IDLE" /\ u.cp = "IDLE"
    BY DEF Slots, Closed
  <2> HIDE DEF u
  <2>3. r \in Slots /\ Still(u, r)
    BY <2>2, SendStep
  <2> HIDE DEF r
  <2>4. Resting(r) /\ Orderly(r) /\ r.cp = "IDLE"
    BY <2>2, <2>3 DEF Still, Below, Resting, Passive, Orderly, Repeatable
  <2> QED BY <2>1, <2>3, <2>4, RestHolds
<1> QED BY <1>1, <1>3, <1>4, <1>5, <1>6 DEF FirstTime

-----------------------------------------------------------------------------
(* The indications of MM *)

\* What the network may send.
LEMMA NetworkTypes ==
  ASSUME NEW d \in NetworkMessages
  PROVE  /\ d.cp \in {"CP_ACK", "CP_ERROR", "CP_UNKNOWN", "FAULTY", "CP_DATA"}
         /\ d.ref \in Refs
         /\ d.cp = "CP_DATA" => d.rp \in RpTypes \cup {"RP_DATA", "RP_FAULTY"}
         /\ d.rp = "RP_DATA" => d.tp \in TpTypes
BY NumberTypes DEF NetworkMessages, RpTypes

\* The invariant depends on nothing that sending, freeing and the flags change.
LEMMA StillKept ==
  ASSUME NEW s, SlotInv(s), NEW r \in Slots, Below(s, r), r.cp = s.cp,
         r.data_req = s.data_req, r.tc1m = s.tc1m,
         r.cp_ack_pending => s.cp_ack_pending
  PROVE  SlotInv(r)
<1>1. UpperInv(r)
  BY UpperKept DEF SlotInv
<1>2. LowerInv(r)
  BY DEF SlotInv, LowerInv, Repeatable, Acked, Below
<1> QED BY <1>1, <1>2 DEF SlotInv

\* Freeing, releasing towards MM, a CP-ERROR, a new identifier: none disturbs it.
LEMMA KeptSteps ==
  ASSUME NEW s, SlotInv(s), NEW t \in Tis
  PROVE  /\ SlotInv(csf_free_sms_instance(s, t))
         /\ SlotInv(cp_send_release_req(s, t))
         /\ SlotInv(cp_build_cp_error(s))
         /\ SlotInv([s EXCEPT !.r_flag = FALSE])
         /\ SlotInv([s EXCEPT !.ti = t, !.cp_ack_pending = FALSE])
         /\ SlotInv(Fresh(s))
<1>1. s \in Slots
  BY DEF SlotInv, UpperInv
<1>2. SlotInv(csf_free_sms_instance(s, t))
  <2> DEFINE r == csf_free_sms_instance(s, t)
  <2>1. /\ r \in Slots /\ Below(s, r) /\ r.cp = s.cp /\ r.data_req = s.data_req
        /\ r.tc1m = s.tc1m /\ r.cp_ack_pending = s.cp_ack_pending
    BY <1>1, FreeStep
  <2> HIDE DEF r
  <2>2. SlotInv(r)
    BY <2>1, StillKept
  <2> QED BY <2>2 DEF r
<1>3. SlotInv(cp_send_release_req(s, t))
  <2> DEFINE r == cp_send_release_req(s, t)
  <2>1. r \in Slots /\ Still(s, r) /\ r.cp_ack_pending = s.cp_ack_pending
    BY <1>1, FreeStep
  <2> HIDE DEF r
  <2>2. SlotInv(r)
    BY <2>1, StillKept DEF Still
  <2> QED BY <2>2 DEF r
<1>4. SlotInv(cp_build_cp_error(s))
  <2> DEFINE r == cp_build_cp_error(s)
  <2>1. r \in Slots /\ Still(s, r) /\ r.cp_ack_pending = FALSE
    BY <1>1, AckStep
  <2> HIDE DEF r
  <2>2. SlotInv(r)
    BY <2>1, StillKept DEF Still
  <2> QED BY <2>2 DEF r
<1>5. SlotInv([s EXCEPT !.r_flag = FALSE])
  <2> DEFINE r == [s EXCEPT !.r_flag = FALSE]
  <2>1. r \in Slots /\ Still(s, r) /\ r.cp_ack_pending = s.cp_ack_pending
    BY <1>1, FlagStep
  <2> HIDE DEF r
  <2>2. SlotInv(r)
    BY <2>1, StillKept DEF Still
  <2> QED BY <2>2 DEF r
<1>6. SlotInv([s EXCEPT !.ti = t, !.cp_ack_pending = FALSE])
  <2> DEFINE r == [s EXCEPT !.ti = t, !.cp_ack_pending = FALSE]
  <2>1. /\ r \in Slots /\ Below(s, r) /\ r.cp = s.cp /\ r.data_req = s.data_req
        /\ r.tc1m = s.tc1m /\ r.cp_ack_pending = FALSE
    BY <1>1 DEF Slots, Below
  <2> HIDE DEF r
  <2>2. SlotInv(r)
    BY <2>1, StillKept
  <2> QED BY <2>2 DEF r
<1>7. SlotInv(Fresh(s))
  <2> DEFINE r == Fresh(s)
  <2>1. /\ r \in Slots /\ Below(s, r) /\ r.cp = s.cp /\ r.data_req = s.data_req
        /\ r.tc1m = s.tc1m /\ r.cp_ack_pending = s.cp_ack_pending
    BY <1>1, DataTypes DEF Slots, Below, Fresh
  <2> HIDE DEF r
  <2>2. SlotInv(r)
    BY <2>1, StillKept
  <2> QED BY <2>2 DEF r
<1> QED BY <1>2, <1>3, <1>4, <1>5, <1>6, <1>7

\* Release and StopTC1M leave RL and TL as they are.
LEMMA ReleaseStep ==
  ASSUME NEW s, UpperInv(s)
  PROVE  /\ UpperInv(Release(s)) /\ Release(s).cp = "IDLE"
         /\ UpperInv(StopTC1M(s)) /\ StopTC1M(s).cp = s.cp
         /\ UpperInv(cp_build_cp_error(s))
<1>1. s \in Slots /\ s.ti \in Tis
  BY DEF UpperInv, Slots
<1>2. UpperInv(Release(s)) /\ Release(s).cp = "IDLE"
  <2> DEFINE u == cp_send_release_req(s, s.ti)
             r == Release(s)
  <2>1. u \in Slots /\ Still(s, u)
    BY <1>1, FreeStep
  <2>2. r = [u EXCEPT !.cp = "IDLE", !.r_flag = FALSE]
    BY DEF Release
  <2> HIDE DEF u, r
  <2>3. r \in Slots /\ Below(u, r) /\ r.cp = "IDLE"
    BY <2>1, <2>2 DEF Slots, Below
  <2>4. Below(s, r)
    BY <2>1, <2>3 DEF Still, Below
  <2>5. UpperInv(r)
    BY <2>3, <2>4, UpperKept
  <2> QED BY <2>3, <2>5 DEF r
<1>3. UpperInv(StopTC1M(s)) /\ StopTC1M(s).cp = s.cp
  <2> DEFINE r == StopTC1M(s)
  <2>1. r \in Slots /\ Below(s, r) /\ r.cp = s.cp
    BY <1>1 DEF StopTC1M, Slots, Below
  <2> HIDE DEF r
  <2>2. UpperInv(r)
    BY <2>1, UpperKept
  <2> QED BY <2>1, <2>2 DEF r
<1>4. UpperInv(cp_build_cp_error(s))
  <2>1. cp_build_cp_error(s) \in Slots /\ Below(s, cp_build_cp_error(s))
    BY <1>1, AckStep DEF Still
  <2> QED BY <2>1, UpperKept
<1> QED BY <1>2, <1>3, <1>4

\* The errors of the protocol end the connection and are reported to RL.
LEMMA CpErrorStep ==
  ASSUME NEW s, UpperInv(s)
  PROVE  /\ SlotInv(cp_send_err_ind_errcs(s))
         /\ SlotInv(cp_send_err_ind_msg_type_unknown(s))
         /\ SlotInv(cp_send_err_ind_msg_not_comp(s))
         /\ \A cause \in {"norm", "other", "timeout"} : SlotInv(rl_error_ind(Release(s), cause))
<1>1. \A cause \in {"norm", "other", "timeout"} : SlotInv(rl_error_ind(Release(s), cause))
  BY ReleaseStep, RlErrorStep
<1>2. SlotInv(rl_error_ind(Release(cp_build_cp_error(s)), "other"))
  <2>1. UpperInv(cp_build_cp_error(s))
    BY ReleaseStep
  <2>2. /\ UpperInv(Release(cp_build_cp_error(s)))
        /\ Release(cp_build_cp_error(s)).cp = "IDLE"
    BY <2>1, ReleaseStep
  <2> QED BY <2>2, RlErrorStep
<1> QED BY <1>1, <1>2
        DEF cp_send_err_ind_errcs, cp_send_err_ind_msg_type_unknown, cp_send_err_ind_msg_not_comp

\* A CP-ACK ends the waiting of CP, and the connection whose release was put off.
LEMMA CpAckStep ==
  ASSUME NEW s, SlotInv(s)
  PROVE  /\ SlotInv(cp_data_ind_cp_ack(s))
         /\ s.cp = "WAIT_FOR_ACK" /\ ~s.r_flag =>
              /\ cp_data_ind_cp_ack(s).cp = "ESTABLISHED"
              /\ cp_data_ind_cp_ack(s).rl = s.rl
<1>1. s \in Slots /\ UpperInv(s) /\ s.ti \in Tis
  BY DEF SlotInv, UpperInv, Slots
<1> DEFINE r == cp_data_ind_cp_ack(s)
<1>2. CASE s.cp = "ESTABLISHED"
  <2>1. r = cp_send_err_ind_msg_not_comp(s)
    BY <1>2 DEF cp_data_ind_cp_ack, Connected
  <2> HIDE DEF r
  <2>2. SlotInv(r)
    BY <1>1, <2>1, CpErrorStep
  <2> QED BY <1>2, <2>2 DEF r
<1>3. CASE s.cp = "WAIT_FOR_ACK" /\ s.r_flag
  <2> DEFINE u == Release(StopTC1M(s))
  <2>1. r = csf_free_sms_instance(u, s.ti)
    BY <1>3 DEF cp_data_ind_cp_ack, Connected
  <2>2. UpperInv(u) /\ u.cp = "IDLE"
    BY <1>1, ReleaseStep
  <2> HIDE DEF u, r
  <2>3. u \in Slots /\ Orderly(u)
    BY <2>2 DEF UpperInv, Orderly, Repeatable
  <2>4. SlotInv(u)
    BY <2>2, <2>3, LowerHolds DEF SlotInv
  <2>5. SlotInv(r)
    BY <1>1, <2>1, <2>4, KeptSteps
  <2> QED BY <1>3, <2>5 DEF r
<1>4. CASE s.cp = "WAIT_FOR_ACK" /\ ~s.r_flag
  <2>1. r = [s EXCEPT !.cp = "ESTABLISHED", !.tc1m = FALSE]
    BY <1>4 DEF cp_data_ind_cp_ack, Connected
  <2> HIDE DEF r
  <2>2. /\ r \in Slots /\ Below(s, r) /\ r.cp = "ESTABLISHED" /\ r.rl = s.rl
        /\ r.cp_ack_pending = s.cp_ack_pending
    BY <1>1, <2>1 DEF Slots, Below
  <2>3. UpperInv(r)
    BY <1>1, <2>2, UpperKept
  <2>4. LowerInv(r)
    BY <1>4, <2>2 DEF SlotInv, LowerInv, Repeatable, Acked
  <2> QED BY <2>2, <2>3, <2>4 DEF SlotInv, r
<1>5. CASE ~Connected(s)
  BY <1>5 DEF cp_data_ind_cp_ack, Connected
<1> QED BY <1>2, <1>3, <1>4, <1>5 DEF Connected

\* A CP-DATA is a CP-ACK, too, while one is awaited.
LEMMA CpDataIndStep ==
  ASSUME NEW s, SlotInv(s),
         NEW d, d.rp \in RpTypes \cup {"RP_DATA"}, d.ref \in Refs,
         d.rp = "RP_DATA" => d.tp \in TpTypes
  PROVE  SlotInv(cp_data_ind_cp_data(s, d))
<1>1. s \in Slots /\ UpperInv(s)
  BY DEF SlotInv, UpperInv
<1>2. ASSUME NEW u, SlotInv(u), u.cp = "ESTABLISHED"
      PROVE  SlotInv(PassToRl(u, d))
  <2> DEFINE v == [u EXCEPT !.cp_ack_pending = TRUE]
  <2>1. u \in Slots /\ UpperInv(u) /\ u.rl # "ESTABLISH"
    BY <1>2 DEF SlotInv, UpperInv, LowerInv
  <2>2. v \in Slots /\ Below(u, v) /\ v.cp = "ESTABLISHED"
    BY <1>2, <2>1 DEF Slots, Below
  <2>3. PassToRl(u, d) = rl_data_ind(v, d)
    BY DEF PassToRl
  <2> HIDE DEF v
  <2>4. UpperInv(v) /\ v.rl # "ESTABLISH"
    BY <2>1, <2>2, UpperKept DEF Below
  <2> QED BY <2>2, <2>3, <2>4, RlDataStep
<1>3. CASE s.cp = "WAIT_FOR_ACK" /\ s.r_flag
  <2>1. cp_data_ind_cp_data(s, d) = cp_send_err_ind_msg_not_comp(StopTC1M(s))
    BY <1>3 DEF cp_data_ind_cp_data, Connected
  <2>2. UpperInv(StopTC1M(s))
    BY <1>1, ReleaseStep
  <2> QED BY <2>1, <2>2, CpErrorStep
<1>4. CASE s.cp = "WAIT_FOR_ACK" /\ ~s.r_flag
  <2>1. cp_data_ind_cp_data(s, d) = PassToRl(cp_data_ind_cp_ack(s), d)
    BY <1>4 DEF cp_data_ind_cp_data, Connected
  <2>2. SlotInv(cp_data_ind_cp_ack(s)) /\ cp_data_ind_cp_ack(s).cp = "ESTABLISHED"
    BY <1>4, CpAckStep
  <2> QED BY <1>2, <2>1, <2>2
<1>5. CASE s.cp = "ESTABLISHED"
  <2>1. cp_data_ind_cp_data(s, d) = PassToRl(s, d)
    BY <1>5 DEF cp_data_ind_cp_data, Connected
  <2> QED BY <1>2, <1>5, <2>1
<1>6. CASE ~Connected(s)
  <2>1. cp_data_ind_cp_data(s, d) = s
    BY <1>6 DEF cp_data_ind_cp_data, Connected
  <2> QED BY <2>1
<1> QED BY <1>3, <1>4, <1>5, <1>6 DEF Connected

\* A message that cannot be decoded (for_ccd_error_check): an RP-ERROR is sent
\* for a CP-DATA, a CP-ERROR and the end of the connection follow on any other.
LEMMA ErrorCheckStep ==
  ASSUME NEW s, SlotInv(s), NEW t \in Tis, NEW d, d.ref \in Refs
  PROVE  SlotInv(for_ccd_error_check(s, t, d))
<1>1. s \in Slots /\ UpperInv(s) /\ s.ti \in Tis
  BY DEF SlotInv, UpperInv, Slots
<1>2. CASE d.cp = "CP_DATA" /\ s.cp = "ESTABLISHED"
  <2> DEFINE v == cp_data_req(s, "RP_ERROR", d.ref)
  <2>1. for_ccd_error_check(s, t, d)
          = csf_free_sms_instance(cp_send_release_req(v, s.ti), s.ti)
    BY <1>2 DEF for_ccd_error_check, for_ccd_rp_error_send
  <2>2. Orderly(s) /\ s.rl # "ESTABLISH"
    BY <1>2 DEF Orderly, Repeatable, SlotInv, LowerInv
  <2>3. v \in Slots /\ Below(s, v) /\ Orderly(v) /\ v.cp # "ESTABLISHED"
    BY <1>1, <2>2, AnswerStep
  <2> HIDE DEF v
  <2>4. UpperInv(v) /\ LowerInv(v)
    BY <1>1, <2>2, <2>3, UpperKept, LowerHolds DEF Below
  <2>5. SlotInv(cp_send_release_req(v, s.ti))
    BY <1>1, <2>4, KeptSteps DEF SlotInv
  <2> QED BY <1>1, <2>1, <2>5, KeptSteps
<1>3. CASE ~(d.cp = "CP_DATA" /\ s.cp = "ESTABLISHED")
  <2> DEFINE e == cp_build_cp_error(s)
             u == cp_send_release_req(e, t)
             v == [u EXCEPT !.cp = "IDLE", !.r_flag = FALSE]
  <2>1. for_ccd_error_check(s, t, d) = csf_free_sms_instance(rl_error_ind(v, "other"), t)
    BY <1>3 DEF for_ccd_error_check, for_ccd_cp_error
  <2>2. SlotInv(e)
    BY <1>1, KeptSteps
  <2> HIDE DEF e
  <2>3. SlotInv(u)
    BY <2>2, KeptSteps
  <2> HIDE DEF u
  <2>4. u \in Slots /\ UpperInv(u)
    BY <2>3 DEF SlotInv, UpperInv
  <2>5. v \in Slots /\ Below(u, v) /\ v.cp = "IDLE"
    BY <2>4 DEF Slots, Below
  <2> HIDE DEF v
  <2>6. UpperInv(v)
    BY <2>4, <2>5, UpperKept
  <2>7. SlotInv(rl_error_ind(v, "other"))
    BY <2>5, <2>6, RlErrorStep
  <2> QED BY <2>1, <2>7, KeptSteps
<1> QED BY <1>2, <1>3

\* A data indication on our transaction, or on any MO transaction.
LEMMA DataIndStep ==
  ASSUME NEW s, SlotInv(s), NEW t \in Tis, NEW d \in NetworkMessages
  PROVE  SlotInv(for_mmsms_data_ind(s, t, d))
<1>1. s \in Slots /\ UpperInv(s)
  BY DEF SlotInv, UpperInv
<1>2. UpperInv(StopTC1M(s))
  BY <1>1, ReleaseStep
<1>3. /\ SlotInv(cp_data_ind_cp_error(s))
      /\ SlotInv(cp_data_ind_cp_unknown(s))
  BY <1>2, CpErrorStep DEF cp_data_ind_cp_error, cp_data_ind_cp_unknown
<1>4. SlotInv(cp_data_ind_cp_ack(s))
  BY CpAckStep
<1>5. SlotInv(NextMessage(s, t, d))
  <2>1. CASE Undecodable(d)
    <3>1. NextMessage(s, t, d) = for_ccd_error_check(s, t, d)
      <4>1. ~(d.cp = "CP_DATA" /\ d.rp # "RP_FAULTY") /\ d.cp \notin {"CP_ACK", "CP_ERROR", "CP_UNKNOWN"}
        BY <2>1 DEF Undecodable, NetworkMessages
      <4> QED BY <2>1, <4>1 DEF NextMessage
    <3> QED BY <3>1, NetworkTypes, ErrorCheckStep
  <2>2. CASE ~Undecodable(d) /\ d.cp = "CP_DATA"
    <3>1. NextMessage(s, t, d) = cp_data_ind_cp_data(s, d)
      BY <2>2 DEF NextMessage, Undecodable
    <3>2. d.rp \in RpTypes \cup {"RP_DATA"} /\ d.ref \in Refs /\ (d.rp = "RP_DATA" => d.tp \in TpTypes)
      BY <2>2, NetworkTypes DEF Undecodable
    <3> QED BY <3>1, <3>2, CpDataIndStep
  <2>3. CASE ~Undecodable(d) /\ d.cp = "CP_ACK"
    <3>1. NextMessage(s, t, d) = cp_data_ind_cp_ack(s)
      BY <2>3 DEF NextMessage
    <3> QED BY <1>4, <3>1
  <2>4. CASE ~Undecodable(d) /\ d.cp = "CP_ERROR"
    <3>1. NextMessage(s, t, d) = cp_data_ind_cp_error(s)
      BY <2>4 DEF NextMessage
    <3> QED BY <1>3, <3>1
  <2>5. CASE ~Undecodable(d) /\ d.cp = "CP_UNKNOWN"
    <3>1. NextMessage(s, t, d) = cp_data_ind_cp_unknown(s)
      BY <2>5 DEF NextMessage
    <3> QED BY <1>3, <3>1
  <2> QED BY <2>1, <2>2, <2>3, <2>4, <2>5, NetworkTypes DEF Undecodable
<1> QED BY <1>5 DEF for_mmsms_data_ind

\* The first message of a transaction of the network (for_mmsms_establish_ind):
\* it opens the connection, or the message is refused and the slot left alone.
LEMMA EstablishIndStep ==
  ASSUME NEW s, SlotInv(s), s.inst = "MT", NEW t \in Tis, NEW d \in NetworkMessages
  PROVE  SlotInv(for_mmsms_establish_ind(s, t, d))
<1>1. ASSUME NEW u, SlotInv(u)
      PROVE  SlotInv(Forget(u)) /\ u.ti \in Tis
  <2>1. u.ti \in Tis
    BY <1>1 DEF SlotInv, UpperInv, Slots
  <2> QED BY <1>1, <2>1, KeptSteps DEF Forget
<1>2. ASSUME NEW u, SlotInv(u), u.inst = "MT"
      PROVE  SlotInv(FirstMessage(u, t, d))
  <2>1. u \in Slots /\ UpperInv(u)
    BY <1>2 DEF SlotInv, UpperInv
  <2>2. SlotInv([cp_build_cp_error(u) EXCEPT !.r_flag = FALSE]) /\ SlotInv([u EXCEPT !.r_flag = FALSE])
    BY <1>2, KeptSteps, NumberTypes
  <2>3. /\ SlotInv(cp_est_ind_cp_ack(u))
        /\ SlotInv(cp_est_ind_cp_error(u))
        /\ SlotInv(cp_est_ind_cp_unknown(u))
    BY <1>1, <1>2, <2>2 DEF cp_est_ind_cp_ack, cp_est_ind_cp_error, cp_est_ind_cp_unknown
  <2>4. CASE Undecodable(d)
    <3>1. FirstMessage(u, t, d) = for_ccd_error_check(u, t, d)
      <4>1. ~(d.cp = "CP_DATA" /\ d.rp # "RP_FAULTY") /\ d.cp \notin {"CP_ACK", "CP_ERROR", "CP_UNKNOWN"}
        BY <2>4 DEF Undecodable, NetworkMessages
      <4> QED BY <2>4, <4>1 DEF FirstMessage
    <3> QED BY <1>2, <3>1, NetworkTypes, ErrorCheckStep
  <2>5. CASE ~Undecodable(d) /\ d.cp = "CP_DATA"
    <3> DEFINE a == cp_build_cp_ack(u)
               v == [a EXCEPT !.cp = "ESTABLISHED", !.r_flag = FALSE]
    <3>1. /\ FirstMessage(u, t, d) = cp_est_ind_cp_data(u, d)
          /\ cp_est_ind_cp_data(u, d) = IF u.cp = "IDLE" THEN rl_data_ind(v, d) ELSE u
      BY <2>5 DEF FirstMessage, Undecodable, cp_est_ind_cp_data
    <3>2. d.rp \in RpTypes \cup {"RP_DATA"} /\ d.ref \in Refs /\ (d.rp = "RP_DATA" => d.tp \in TpTypes)
      BY <2>5, NetworkTypes DEF Undecodable
    <3>3. a \in Slots /\ Still(u, a)
      BY <2>1, AckStep
    <3> HIDE DEF a
    <3>4. v \in Slots /\ Below(a, v) /\ v.cp = "ESTABLISHED"
      BY <3>3 DEF Slots, Below
    <3> HIDE DEF v
    <3>5. Below(u, v)
      BY <3>3, <3>4 DEF Still, Below
    <3>6. UpperInv(v)
      BY <2>1, <3>4, <3>5, UpperKept
    <3>7. v.rl # "ESTABLISH"
      BY <1>2, <3>5, <3>6 DEF Below, UpperInv, Passive
    <3>8. SlotInv(rl_data_ind(v, d))
      BY <3>2, <3>4, <3>6, <3>7, RlDataStep
    <3> QED BY <1>2, <3>1, <3>8
  <2>6. CASE ~Undecodable(d) /\ d.cp = "CP_ACK"
    <3>1. FirstMessage(u, t, d) = cp_est_ind_cp_ack(u)
      BY <2>6 DEF FirstMessage
    <3> QED BY <2>3, <3>1
  <2>7. CASE ~Undecodable(d) /\ d.cp = "CP_ERROR"
    <3>1. FirstMessage(u, t, d) = cp_est_ind_cp_error(u)
      BY <2>7 DEF FirstMessage
    <3> QED BY <2>3, <3>1
  <2>8. CASE ~Undecodable(d) /\ d.cp = "CP_UNKNOWN"
    <3>1. FirstMessage(u, t, d) = cp_est_ind_cp_unknown(u)
      BY <2>8 DEF FirstMessage
    <3> QED BY <2>3, <3>1
  <2> QED BY <2>4, <2>5, <2>6, <2>7, <2>8, NetworkTypes DEF Undecodable
<1>3. ASSUME NEW u, SlotInv(u)
      PROVE  SlotInv(Refuse(u, t, d))
  <2> DEFINE m == ToMM("DATA_REQ", t, "CP_DATA", "RP_ERROR", d.ref)
             v == IF d.cp = "CP_DATA" THEN Send(u, m) ELSE u
  <2>1. Refuse(u, t, d) = cp_send_release_req(v, t)
    BY DEF Refuse
  <2>2. m \in Messages /\ u \in Slots
    BY <1>3, MessageTypes, NetworkTypes DEF SlotInv, UpperInv
  <2> HIDE DEF m
  <2>3. /\ Send(u, m) \in Slots /\ Still(u, Send(u, m))
        /\ Send(u, m).cp_ack_pending = u.cp_ack_pending
    BY <2>2, SendStep
  <2>4. SlotInv(Send(u, m))
    BY <1>3, <2>3, StillKept DEF Still
  <2>5. SlotInv(v)
    BY <1>3, <2>4
  <2> HIDE DEF v
  <2> QED BY <2>1, <2>5, KeptSteps
<1>4. ASSUME NEW u, SlotInv(u), u.inst = "MT"
      PROVE  SlotInv(Accept(u, t, d))
  <2> DEFINE v == [u EXCEPT !.ti = t, !.cp_ack_pending = FALSE]
  <2>1. SlotInv(v)
    BY <1>4, KeptSteps
  <2>2. v.inst = "MT"
    BY <1>4 DEF SlotInv, UpperInv, Slots
  <2>3. Accept(u, t, d) = IF u.ti = 0 THEN FirstMessage(v, t, d) ELSE Refuse(u, t, d)
    BY DEF Accept
  <2> HIDE DEF v
  <2> QED BY <1>2, <1>3, <1>4, <2>1, <2>2, <2>3
<1>5. SlotInv(for_get_new_mt_instance(s)) /\ for_get_new_mt_instance(s).inst = "MT"
  <2>1. CASE s.ti # 0 /\ s.cp = "WAIT_FOR_ACK" /\ s.r_flag
    <3>1. for_get_new_mt_instance(s) = cp_data_ind_cp_ack(s)
      BY <2>1 DEF for_get_new_mt_instance
    <3> DEFINE u == StopTC1M(s)
    <3>2. cp_data_ind_cp_ack(s) = csf_free_sms_instance(Release(u), s.ti)
      BY <2>1 DEF cp_data_ind_cp_ack, Connected
    <3>3. u \in Slots /\ u.inst = "MT"
      BY DEF StopTC1M, SlotInv, UpperInv, Slots
    <3> HIDE DEF u
    <3>4. Release(u).inst = "MT"
      BY <3>3 DEF Release, cp_send_release_req, Send, Slots
    <3>5. Release(u) \in Slots /\ s.ti \in Tis
      <4>1. UpperInv(u)
        BY ReleaseStep DEF SlotInv, u
      <4>2. UpperInv(Release(u))
        BY <4>1, ReleaseStep
      <4>3. s \in Slots /\ Release(u) \in Slots
        BY <4>2 DEF UpperInv, SlotInv
      <4>4. s.ti \in Tis
        BY <4>3 DEF Slots
      <4> QED BY <4>3, <4>4
    <3>6. cp_data_ind_cp_ack(s).inst = "MT"
      <4>1. Below(Release(u), cp_data_ind_cp_ack(s))
        BY <3>2, <3>5, FreeStep
      <4> QED BY <3>4, <4>1 DEF Below
    <3> QED BY <3>1, <3>6, CpAckStep
  <2>2. CASE ~(s.ti # 0 /\ s.cp = "WAIT_FOR_ACK" /\ s.r_flag)
    BY <2>2 DEF for_get_new_mt_instance
  <2> QED BY <2>1, <2>2
<1> QED BY <1>4, <1>5 DEF for_mmsms_establish_ind

\* The connection is there: the message is sent, or the submission is given up
\* because it could not be built (tl_establish_cnf).
LEMMA TlEstablishStep ==
  ASSUME NEW s \in Slots, s.rl = "ESTABLISHED", s.cp = "ESTABLISHED", s.tl = "ESTABLISH",
         s.inst = "MO", s.cp_ack_pending = FALSE, NEW prepared \in BOOLEAN
  PROVE  SlotInv(tl_establish_cnf(s, prepared))
<1>1. s.est \in {"SEND", "RTX"} /\ s.tp_mr \in Refs /\ s.ti \in Tis
  BY DEF Slots
<1>2. SlotInv(rl_data_req([s EXCEPT !.tl = "SEND"]))
  <2> DEFINE u == [s EXCEPT !.tl = "SEND"]
             v == [u EXCEPT !.rl = "WAIT_FOR_ACK", !.msg_ref = u.tp_mr, !.tr1m = TRUE]
             r == cp_data_req(v, "RP_DATA", s.tp_mr)
  <2>1. u \in Slots /\ u.rl = "ESTABLISHED" /\ u.tp_mr = s.tp_mr
    BY DEF Slots
  <2>2. rl_data_req(u) = r
    BY <2>1 DEF rl_data_req
  <2>3. /\ v \in Slots /\ v.rl = "WAIT_FOR_ACK" /\ v.tl = "SEND" /\ v.tr1m = TRUE
        /\ v.inst = "MO" /\ v.cp = "ESTABLISHED"
    BY <1>1, <2>1 DEF Slots
  <2> HIDE DEF v
  <2>4. Orderly(v)
    BY <2>3 DEF Orderly, Repeatable
  <2>5. r \in Slots /\ Below(v, r) /\ Orderly(r) /\ r.cp # "ESTABLISHED"
    BY <1>1, <2>3, <2>4, AnswerStep
  <2> HIDE DEF r
  <2>6. UpperInv(v)
    BY <2>3 DEF UpperInv, Woken, Passive
  <2>7. UpperInv(r)
    BY <2>5, <2>6, UpperKept
  <2>8. LowerInv(r)
    BY <2>3, <2>5, LowerHolds DEF Below
  <2>9. SlotInv(r)
    BY <2>7, <2>8 DEF SlotInv
  <2> QED BY <2>2, <2>9
<1>3. SlotInv(tl_send_failure([s EXCEPT !.tl = "IDLE"]))
  <2> DEFINE u == [s EXCEPT !.tl = "IDLE"]
             v == cp_release_req(u, u.ti)
             r == Tell(v, "submit_failed")
  <2>1. tl_send_failure(u) = r
    BY DEF tl_send_failure, rl_release_req
  <2>2. /\ u \in Slots /\ u.rl = "ESTABLISHED" /\ u.tl = "IDLE" /\ u.cp = "ESTABLISHED"
        /\ u.ti \in Tis /\ Orderly(u)
    BY DEF Slots, Orderly, Repeatable
  <2> HIDE DEF u
  <2>3. v \in Slots /\ Below(u, v) /\ Orderly(v) /\ v.cp = "IDLE"
    BY <2>2, HangUpStep
  <2> HIDE DEF v
  <2>4. UpperInv(v)
    BY <2>2, <2>3 DEF Below, UpperInv, Woken, Passive
  <2>5. SlotInv(v)
    BY <2>3, <2>4, LowerHolds DEF SlotInv
  <2>6. r \in Slots /\ Still(v, r) /\ r.cp_ack_pending = v.cp_ack_pending
    BY <2>3, SendStep
  <2> HIDE DEF r
  <2>7. SlotInv(r)
    BY <2>5, <2>6, StillKept DEF Still
  <2> QED BY <2>1, <2>7 DEF u
<1>4. SlotInv(s)
  BY DEF SlotInv, UpperInv, LowerInv, Woken, Passive, Repeatable, Acked
<1>5. CASE s.est = "SEND"
  <2>1. tl_establish_cnf(s, prepared) = tl_establish_cnf_send(s, prepared)
    BY <1>5 DEF tl_establish_cnf
  <2> QED BY <1>2, <1>3, <2>1 DEF tl_establish_cnf_send
<1>6. CASE s.est = "RTX"
  <2>1. tl_establish_cnf(s, prepared) = tl_establish_cnf_rtx(s)
    BY <1>6 DEF tl_establish_cnf
  <2> QED BY <1>2, <1>4, <2>1 DEF tl_establish_cnf_rtx
<1> QED BY <1>1, <1>5, <1>6

\* MM has established the connection (cp_mmsms_establish_cnf): RL is told only
\* when CP asked for it.
LEMMA EstablishCnfStep ==
  ASSUME NEW s, SlotInv(s), NEW t \in Tis, NEW prepared \in BOOLEAN
  PROVE  SlotInv(cp_mmsms_establish_cnf(s, t, prepared))
<1>1. s \in Slots
  BY DEF SlotInv, UpperInv
<1>2. CASE s.cp = "PENDING"
  <2> DEFINE u == [s EXCEPT !.cp = "ESTABLISHED", !.ti = t, !.cp_ack_pending = FALSE]
             v == [u EXCEPT !.rl = "ESTABLISHED", !.tr1m = FALSE]
  <2>1. s.rl = "ESTABLISH" /\ s.tl = "ESTABLISH" /\ s.inst = "MO"
    BY <1>1, <1>2 DEF SlotInv, UpperInv, LowerInv, Passive, Slots
  <2>2. /\ u \in Slots /\ u.rl = "ESTABLISH" /\ u.tl = "ESTABLISH" /\ u.inst = "MO"
        /\ u.cp = "ESTABLISHED" /\ u.cp_ack_pending = FALSE
    BY <1>1, <2>1 DEF Slots
  <2>3. cp_mmsms_establish_cnf(s, t, prepared) = rl_establish_cnf(u, prepared)
    BY <1>2 DEF cp_mmsms_establish_cnf
  <2> HIDE DEF u
  <2>4. rl_establish_cnf(u, prepared) = tl_establish_cnf(v, prepared)
    BY <2>2 DEF rl_establish_cnf
  <2>5. /\ v \in Slots /\ v.rl = "ESTABLISHED" /\ v.tl = "ESTABLISH" /\ v.inst = "MO"
        /\ v.cp = "ESTABLISHED" /\ v.cp_ack_pending = FALSE
    BY <2>2 DEF Slots
  <2> HIDE DEF v
  <2> QED BY <2>3, <2>4, <2>5, TlEstablishStep
<1>3. CASE s.cp # "PENDING"
  <2>1. cp_mmsms_establish_cnf(s, t, prepared) = [s EXCEPT !.ti = t, !.cp_ack_pending = FALSE]
    BY <1>3 DEF cp_mmsms_establish_cnf
  <2> QED BY <2>1, KeptSteps, ZenonT(40)
<1> QED BY <1>2, <1>3

\* MM takes the connection away (cp_mmsms_error_ind, cp_mmsms_release_ind).
LEMMA LossStep ==
  ASSUME NEW s, SlotInv(s), NEW t \in Tis, NEW cause \in Causes
  PROVE  /\ SlotInv(cp_mmsms_error_ind(s, t, cause))
         /\ SlotInv(cp_mmsms_release_ind(s, t, cause))
<1>1. cause \in {"norm", "other", "timeout"}
  BY DEF Causes
<1>2. ASSUME NEW u, SlotInv(u)
      PROVE  /\ UpperInv(ErrorAt(u, t)) /\ ErrorAt(u, t).cp = "IDLE"
             /\ UpperInv(ReleaseAt(u, t)) /\ ReleaseAt(u, t).cp = "IDLE"
  <2> DEFINE v == StopTC1M(u)
             w == Lost(u)
             e == ErrorAt(u, t)
             r == ReleaseAt(u, t)
  <2>1. u \in Slots /\ u.retx \in Retx /\ u.ti \in Tis /\ u.r_flag \in BOOLEAN /\ 0 \in Retx
    BY <1>2, NumberTypes DEF SlotInv, UpperInv, Slots
  <2>2. v \in Slots /\ UpperInv(v)
    BY <1>2, ReleaseStep DEF SlotInv, UpperInv
  <2>3. w = [v EXCEPT !.cp = "IDLE", !.retx = IF u.cp = "WAIT_FOR_ACK" THEN 0 ELSE @]
    BY DEF Lost
  <2> HIDE DEF v, w
  <2>4. w \in Slots /\ Below(v, w) /\ w.cp = "IDLE"
    BY <2>1, <2>2, <2>3 DEF Slots, Below
  <2>5. e \in Slots /\ Below(w, e) /\ e.cp = "IDLE"
    <3>1. e = [w EXCEPT !.ti = IF u.cp \in {"PENDING", "WAIT_FOR_ACK"} THEN t ELSE @,
                        !.r_flag = @ /\ u.cp \notin {"PENDING", "WAIT_FOR_ACK"}]
      BY DEF ErrorAt, w
    <3> HIDE DEF e
    <3> QED BY <2>4, <3>1 DEF Slots, Below
  <2>6. r \in Slots /\ Below(w, r) /\ r.cp = "IDLE"
    <3>1. r = [w EXCEPT !.ti = IF u.cp = "PENDING" THEN t ELSE @, !.r_flag = FALSE]
      BY DEF ReleaseAt, w
    <3> HIDE DEF r
    <3> QED BY <2>4, <3>1 DEF Slots, Below
  <2> HIDE DEF e, r
  <2>7. UpperInv(w)
    BY <2>2, <2>4, UpperKept
  <2>8. UpperInv(e) /\ UpperInv(r)
    BY <2>5, <2>6, <2>7, UpperKept
  <2> QED BY <2>5, <2>6, <2>8 DEF e, r
<1>3. SlotInv(cp_send_release_req(s, t))
  BY KeptSteps
<1>4. SlotInv(cp_mmsms_error_ind(s, t, cause))
  <2> DEFINE u == cp_send_release_req(s, t)
  <2>1. SlotInv(csf_free_sms_instance(u, t))
    BY <1>3, KeptSteps
  <2>2. SlotInv(rl_error_ind(ErrorAt(u, t), cause))
    BY <1>1, <1>2, <1>3, RlErrorStep
  <2> QED BY <2>1, <2>2 DEF cp_mmsms_error_ind
<1>5. SlotInv(cp_mmsms_release_ind(s, t, cause))
  <2>1. SlotInv(rl_error_ind(ReleaseAt(s, t), cause))
    BY <1>1, <1>2, RlErrorStep
  <2>2. SlotInv(csf_free_sms_instance(s, t))
    BY KeptSteps
  <2> QED BY <2>1, <2>2 DEF cp_mmsms_release_ind
<1> QED BY <1>4, <1>5

-----------------------------------------------------------------------------
(* The user, the timers and the SIM *)

\* A submission: it is begun, or refused while another one is under way.
LEMMA SubmitStep ==
  ASSUME NEW s, SlotInv(s), s.inst = "MO", NEW auto_rep \in BOOLEAN
  PROVE  SlotInv(tl_mnsms_submit_req(s, auto_rep))
<1>1. s \in Slots /\ UpperInv(s)
  BY DEF SlotInv, UpperInv
<1>2. CASE s.tl = "IDLE"
  <2> DEFINE n == IF auto_rep THEN 0 ELSE TL_MAX_RETANS
             p == (s.tp_mr + 1) % RefCount
             u == [s EXCEPT !.tl = "ESTABLISH", !.est = "SEND", !.sdu = TRUE,
                            !.tl_retx = n, !.tp_mr = p]
  <2>1. tl_mnsms_submit_req(s, auto_rep) = rl_establish_req(u, csf_get_new_mo_ti(u))
    BY <1>2 DEF tl_mnsms_submit_req, tl_establish_connection
  <2>2. n \in TlRetx /\ p \in Refs
    BY <1>1, NumberTypes DEF Slots
  <2> HIDE DEF n, p
  <2>3. /\ u \in Slots /\ Below(s, [u EXCEPT !.tl = s.tl, !.est = s.est, !.tl_retx = s.tl_retx])
        /\ u.tl = "ESTABLISH" /\ u.inst = "MO" /\ u.rl = s.rl /\ u.cp = s.cp
        /\ u.data_req = s.data_req /\ u.tc1m = s.tc1m /\ u.cp_ack_pending = s.cp_ack_pending
        /\ u.tr1m = s.tr1m /\ u.tr2m = s.tr2m /\ u.ti = s.ti
    BY <1>1, <2>2 DEF Slots, Below
  <2> HIDE DEF u
  <2>4. csf_get_new_mo_ti(u) \in Tis
    BY <1>1, <2>3, NumberTypes DEF csf_get_new_mo_ti, Slots
  <2>5. CASE s.rl = "IDLE"
    BY <2>1, <2>3, <2>4, <2>5, RlEstablishStep
  <2>6. CASE s.rl # "IDLE"
    <3>1. rl_establish_req(u, csf_get_new_mo_ti(u)) = u
      BY <2>3, <2>6 DEF rl_establish_req
    <3>2. UpperInv(u)
      BY <1>1, <1>2, <2>3 DEF UpperInv, Woken, Passive
    <3>3. LowerInv(u)
      BY <2>3 DEF SlotInv, LowerInv, Repeatable, Acked
    <3> QED BY <2>1, <3>1, <3>2, <3>3 DEF SlotInv
  <2> QED BY <2>5, <2>6
<1>3. CASE s.tl # "IDLE"
  <2> DEFINE r == Tell(s, "submit_busy")
  <2>1. tl_mnsms_submit_req(s, auto_rep) = r
    BY <1>3 DEF tl_mnsms_submit_req
  <2>2. r \in Slots /\ Still(s, r) /\ r.cp_ack_pending = s.cp_ack_pending
    BY <1>1, SendStep
  <2> HIDE DEF r
  <2>3. SlotInv(r)
    BY <2>2, StillKept DEF Still
  <2> QED BY <2>1, <2>3
<1> QED BY <1>2, <1>3

\* TC1M: the CP-DATA kept is sent again, or the connection given up (tim_tc1m).
LEMMA TC1MStep ==
  ASSUME NEW s, SlotInv(s)
  PROVE  SlotInv(tim_tc1m([s EXCEPT !.tc1m = FALSE]))
<1> DEFINE u == [s EXCEPT !.tc1m = FALSE]
<1>1. s \in Slots /\ UpperInv(s) /\ LowerInv(s)
  BY DEF SlotInv, UpperInv
<1>2. /\ u \in Slots /\ Below(s, u) /\ u.cp = s.cp /\ u.data_req = s.data_req
      /\ u.cp_ack_pending = s.cp_ack_pending /\ u.retx \in Retx
  BY <1>1 DEF Slots, Below
<1> HIDE DEF u
<1>3. UpperInv(u)
  BY <1>1, <1>2, UpperKept
<1>4. CASE u.cp # "WAIT_FOR_ACK"
  <2>1. tim_tc1m(u) = u
    BY <1>4 DEF tim_tc1m
  <2>2. LowerInv(u)
    BY <1>1, <1>2, <1>4 DEF LowerInv, Repeatable, Acked, Below
  <2> QED BY <1>3, <2>1, <2>2 DEF SlotInv, u
<1>5. CASE u.cp = "WAIT_FOR_ACK" /\ u.retx >= MAX_RETRANS
  <2>1. tim_tc1m(u) = rl_error_ind(Release(u), "timeout")
    BY <1>2, <1>5, CountsAssumption DEF tim_tc1m, Retx
  <2>2. SlotInv(rl_error_ind(Release(u), "timeout"))
    BY <1>3, CpErrorStep
  <2> QED BY <2>1, <2>2 DEF u
<1>6. CASE u.cp = "WAIT_FOR_ACK" /\ ~(u.retx >= MAX_RETRANS)
  <2> DEFINE n == u.retx + 1
             v == [u EXCEPT !.retx = n, !.tc1m = TRUE]
             r == Send(v, u.data_req)
  <2>1. tim_tc1m(u) = r
    BY <1>2, <1>6, CountsAssumption DEF tim_tc1m, Repeat, Retx, Slots
  <2>2. n \in Retx
    BY <1>2, <1>6, NumberTypes
  <2> HIDE DEF n
  <2>3. /\ v \in Slots /\ Below(u, v) /\ v.cp = "WAIT_FOR_ACK" /\ v.data_req = u.data_req
        /\ v.tc1m = TRUE /\ v.cp_ack_pending = u.cp_ack_pending
    BY <1>2, <1>6, <2>2 DEF Slots, Below
  <2> HIDE DEF v
  <2>4. u.data_req # None /\ u.data_req \in Kept
    BY <1>1, <1>2, <1>6 DEF LowerInv, Repeatable, Slots
  <2>5. u.data_req \in Messages
    BY <2>4, DataTypes
  <2>6. r \in Slots /\ Still(v, r) /\ r.cp_ack_pending = v.cp_ack_pending
    BY <2>3, <2>5, SendStep
  <2> HIDE DEF r
  <2>7. UpperInv(r)
    BY <1>3, <2>3, <2>6, UpperKept DEF Still, Below
  <2>8. LowerInv(r)
    BY <1>1, <1>2, <1>6, <2>3, <2>4, <2>6
       DEF LowerInv, Repeatable, Acked, Still, Below
  <2> QED BY <2>1, <2>7, <2>8 DEF SlotInv, u
<1> QED BY <1>4, <1>5, <1>6 DEF u

\* TR1M: the connection is given up and TL repeats the submission, or gives it
\* up (tim_tr1m).
LEMMA TR1MStep ==
  ASSUME NEW s, SlotInv(s)
  PROVE  SlotInv(tim_tr1m([s EXCEPT !.tr1m = FALSE]))
<1> DEFINE u == [s EXCEPT !.tr1m = FALSE]
<1>1. s \in Slots /\ UpperInv(s) /\ LowerInv(s)
  BY DEF SlotInv, UpperInv
<1>2. /\ u \in Slots /\ u.cp = s.cp /\ u.rl = s.rl /\ u.tl = s.tl /\ u.inst = s.inst
      /\ u.tr2m = s.tr2m /\ u.data_req = s.data_req /\ u.tc1m = s.tc1m
      /\ u.cp_ack_pending = s.cp_ack_pending /\ u.timer_ti \in Tis /\ u.ti \in Tis
      /\ s.inst \in {"MO", "MT"}
  BY <1>1 DEF Slots
<1> HIDE DEF u
<1>3. CASE u.rl \in {"ESTABLISH", "WAIT_FOR_ACK"}
  <2> DEFINE n == IF u.rl = "ESTABLISH" THEN u.timer_ti ELSE u.ti
             v == [u EXCEPT !.rl = "IDLE", !.ti = n]
             w == cp_abort_req(v)
  <2>1. tim_tr1m(u) = tl_timeout_ind(w)
    <3>1. CASE u.rl = "ESTABLISH"
      BY <3>1 DEF tim_tr1m
    <3>2. CASE u.rl = "WAIT_FOR_ACK"
      <4>1. v = [u EXCEPT !.rl = "IDLE"]
        BY <1>2, <3>2 DEF Slots
      <4> QED BY <3>2, <4>1 DEF tim_tr1m
    <3> QED BY <1>3, <3>1, <3>2
  <2>2. n \in Tis
    BY <1>2
  <2> HIDE DEF n
  <2>3. /\ v \in Slots /\ v.rl = "IDLE" /\ v.tl = s.tl /\ v.inst = s.inst
    BY <1>2, <2>2 DEF Slots
  <2> HIDE DEF v
  <2>4. w \in Slots /\ Below(v, w) /\ w.cp = "IDLE"
    BY <2>3, CpAbortStep
  <2> HIDE DEF w
  <2>5. s.tl \in {"ESTABLISH", "SEND"} /\ s.inst = "MO"
    BY <1>1, <1>2, <1>3 DEF UpperInv, Passive
  <2>6. SlotInv(tl_timeout_ind(w))
    BY <2>3, <2>4, <2>5, TlTimeoutStep DEF Below
  <2> QED BY <2>1, <2>6 DEF u
<1>4. CASE u.rl \notin {"ESTABLISH", "WAIT_FOR_ACK"}
  <2>1. tim_tr1m(u) = u
    BY <1>4 DEF tim_tr1m
  <2>2. UpperInv(u)
    BY <1>1, <1>2, <1>4 DEF UpperInv, Woken, Passive
  <2>3. LowerInv(u)
    BY <1>1, <1>2 DEF LowerInv, Repeatable, Acked
  <2> QED BY <2>1, <2>2, <2>3 DEF SlotInv, u
<1> QED BY <1>3, <1>4

\* TR2M: the message that was not stored in time is answered with an RP-ERROR
\* (tim_tr2m).
LEMMA TR2MStep ==
  ASSUME NEW s, SlotInv(s)
  PROVE  SlotInv(tim_tr2m([s EXCEPT !.tr2m = FALSE]))
<1> DEFINE u == [s EXCEPT !.tr2m = FALSE]
<1>1. s \in Slots /\ UpperInv(s) /\ LowerInv(s)
  BY DEF SlotInv, UpperInv
<1>2. /\ u \in Slots /\ u.cp = s.cp /\ u.rl = s.rl /\ u.tl = s.tl /\ u.inst = s.inst
      /\ u.tr1m = s.tr1m /\ u.data_req = s.data_req /\ u.tc1m = s.tc1m
      /\ u.cp_ack_pending = s.cp_ack_pending
  BY <1>1 DEF Slots
<1> HIDE DEF u
<1>3. CASE u.rl = "WAIT_FOR_SEND_ACK"
  <2>1. tim_tr2m(u) = tl_report_ind(rl_report_req_error(u), "timeout")
    BY <1>3 DEF tim_tr2m
  <2>2. Orderly(u)
    BY <1>1, <1>2, <1>3 DEF Orderly, Repeatable, LowerInv, Acked, Slots
  <2>3. Answering(u, rl_report_req_error(u))
    BY <1>2, <1>3, <2>2, ReportStep
  <2> QED BY <2>1, <2>3, TlReportStep DEF Answering, u
<1>4. CASE u.rl # "WAIT_FOR_SEND_ACK"
  <2>1. tim_tr2m(u) = u
    BY <1>4 DEF tim_tr2m
  <2>2. UpperInv(u)
    BY <1>1, <1>2, <1>4 DEF UpperInv, Woken, Passive
  <2>3. LowerInv(u)
    BY <1>1, <1>2 DEF LowerInv, Repeatable, Acked
  <2> QED BY <2>1, <2>2, <2>3 DEF SlotInv, u
<1> QED BY <1>3, <1>4

\* The SIM has stored the message, or has not (tl_sim_update_rec_cnf_net).
LEMMA SimStep ==
  ASSUME NEW s, SlotInv(s), s.inst = "MT", NEW stored \in BOOLEAN
  PROVE  SlotInv(tl_sim_update_rec_cnf_net(s, stored))
<1>1. s \in Slots /\ UpperInv(s) /\ LowerInv(s) /\ s.net \in {"IDLE", "WRITE"} /\ s.ti \in Tis
  BY DEF SlotInv, UpperInv, Slots
<1>2. ASSUME NEW u, SlotInv(u), u.inst = "MT"
      PROVE  SlotInv(NetIdle(u))
  <2> DEFINE r == NetIdle(u)
  <2>1. u \in Slots /\ UpperInv(u) /\ LowerInv(u)
    BY <1>2 DEF SlotInv, UpperInv
  <2>2. /\ r \in Slots /\ r.cp = u.cp /\ r.rl = u.rl /\ r.tl = "IDLE" /\ r.inst = "MT"
        /\ r.tr1m = u.tr1m /\ r.tr2m = u.tr2m /\ r.data_req = u.data_req
        /\ r.tc1m = u.tc1m /\ r.cp_ack_pending = u.cp_ack_pending
    BY <1>2, <2>1 DEF NetIdle, Slots
  <2> HIDE DEF r
  <2>3. UpperInv(r)
    BY <1>2, <2>1, <2>2 DEF UpperInv, Woken, Passive
  <2>4. LowerInv(r)
    BY <2>1, <2>2 DEF LowerInv, Repeatable, Acked
  <2>5. SlotInv(r)
    BY <2>3, <2>4 DEF SlotInv
  <2> QED BY <2>5 DEF r
<1>3. s.rl = "WAIT_FOR_SEND_ACK" => Orderly(s) /\ s.tl # "SEND"
  BY <1>1 DEF Orderly, Repeatable, UpperInv, LowerInv, Acked, Slots
<1>4. ASSUME NEW r, s.rl = "WAIT_FOR_SEND_ACK", Answering(s, r)
      PROVE  SlotInv(r) /\ r.inst = "MT" /\ Orderly(r)
  <2>1. Resting(r)
    BY <1>3, <1>4, <1>1 DEF Answering, Resting, Passive, UpperInv
  <2> QED BY <1>4, <2>1, RestHolds DEF Answering
<1>5. ASSUME NEW r, SlotInv(r), r.inst = "MT"
      PROVE  /\ SlotInv(cp_release_req(r, s.ti)) /\ cp_release_req(r, s.ti).inst = "MT"
  <2> DEFINE q == cp_release_req(r, s.ti)
  <2>1. r \in Slots /\ UpperInv(r) /\ LowerInv(r)
    BY <1>5 DEF SlotInv, UpperInv
  <2>2. /\ q \in Slots /\ Below(r, q) /\ q.data_req = r.data_req /\ q.tc1m = r.tc1m
        /\ q.cp = IF r.cp = "ESTABLISHED" THEN "IDLE" ELSE r.cp
        /\ r.cp = "WAIT_FOR_ACK" => q.cp_ack_pending = r.cp_ack_pending
    BY <1>1, <2>1, CpReleaseStep
  <2> HIDE DEF q
  <2>3. UpperInv(q)
    BY <2>1, <2>2, UpperKept
  <2>4. LowerInv(q)
    BY <2>1, <2>2 DEF LowerInv, Repeatable, Acked, Below, Slots
  <2> QED BY <1>5, <2>2, <2>3, <2>4 DEF SlotInv, Below, q
<1>6. SlotInv(rl_report_req_ack(s)) /\ rl_report_req_ack(s).inst = "MT"
  <2>1. CASE s.rl = "WAIT_FOR_SEND_ACK"
    BY <1>1, <1>3, <1>4, <2>1, ReportStep
  <2>2. CASE s.rl # "WAIT_FOR_SEND_ACK"
    BY <2>2 DEF rl_report_req_ack
  <2> QED BY <2>1, <2>2
<1>7. SlotInv(rl_report_req_error(s)) /\ rl_report_req_error(s).inst = "MT"
  <2>1. CASE s.rl = "WAIT_FOR_SEND_ACK"
    BY <1>1, <1>3, <1>4, <2>1, ReportStep
  <2>2. CASE s.rl # "WAIT_FOR_SEND_ACK"
    BY <2>2 DEF rl_report_req_error
  <2> QED BY <2>1, <2>2
<1>8. CASE s.net = "IDLE"
  BY <1>8 DEF tl_sim_update_rec_cnf_net
<1>9. CASE s.net = "WRITE" /\ stored
  <2>1. tl_sim_update_rec_cnf_net(s, stored) = NetIdle(rl_report_req_ack(s))
    BY <1>9 DEF tl_sim_update_rec_cnf_net
  <2> QED BY <1>2, <1>6, <2>1
<1>10. CASE s.net = "WRITE" /\ ~stored
  <2>1. tl_sim_update_rec_cnf_net(s, stored)
          = NetIdle(cp_release_req(rl_report_req_error(s), s.ti))
    BY <1>10 DEF tl_sim_update_rec_cnf_net, rl_release_req
  <2> QED BY <1>2, <1>5, <1>7, <2>1
<1> QED BY <1>1, <1>8, <1>9, <1>10

-----------------------------------------------------------------------------
(* The theorems *)

\* cp_init leaves both slots idle.
LEMMA InitStep == Init => IInv
<1>1. ASSUME NEW inst \in {"MO", "MT"}
      PROVE  SlotInv(cp_init(inst))
  <2>1. cp_init(inst) \in Slots
    BY NumberTypes, DataTypes DEF cp_init, Slots
  <2>2. /\ cp_init(inst).rl = "IDLE" /\ cp_init(inst).tl = "IDLE"
        /\ cp_init(inst).cp = "IDLE"
    BY DEF cp_init
  <2> QED BY <2>1, <2>2 DEF SlotInv, UpperInv, LowerInv, Woken, Passive, Repeatable, Acked
<1> QED BY <1>1 DEF Init, IInv

\* Every step is a handler that begins with nothing sent.
LEMMA NextStep == IInv /\ [Next]_sms => IInv'
<1> SUFFICES ASSUME IInv, [Next]_sms PROVE IInv'
  OBVIOUS
<1> DEFINE f == Fresh(sms)
<1>1. SlotInv(f) /\ f.inst = sms.inst /\ f.ti = sms.ti
  <2>1. SlotInv(sms) /\ 0 \in Tis /\ sms \in Slots
    BY NumberTypes DEF IInv, SlotInv, UpperInv
  <2>2. SlotInv(f)
    BY <2>1, KeptSteps
  <2> QED BY <2>1, <2>2 DEF Fresh, Slots
<1> HIDE DEF f
<1>2. ASSUME NEW auto_rep \in BOOLEAN, SubmitReq(auto_rep)
      PROVE  IInv'
  <2>1. f.inst = "MO" /\ sms' = tl_mnsms_submit_req(f, auto_rep)
    BY <1>1, <1>2 DEF SubmitReq, IsMo, f
  <2> QED BY <1>1, <2>1, SubmitStep DEF IInv
<1>3. ASSUME NEW t \in Tis, NEW prepared \in BOOLEAN, EstablishCnf(t, prepared)
      PROVE  IInv'
  <2>1. sms' = cp_mmsms_establish_cnf(f, t, prepared)
    BY <1>3 DEF EstablishCnf, f
  <2> QED BY <1>1, <2>1, EstablishCnfStep DEF IInv
<1>4. ASSUME NEW t \in Tis, NEW cause \in Causes, ErrorInd(t, cause) \/ ReleaseInd(t, cause)
      PROVE  IInv'
  <2>1. \/ sms' = cp_mmsms_error_ind(f, t, cause)
        \/ sms' = cp_mmsms_release_ind(f, t, cause)
    BY <1>4 DEF ErrorInd, ReleaseInd, f
  <2> QED BY <1>1, <2>1, LossStep DEF IInv
<1>5. ASSUME NEW t \in Tis, NEW d \in NetworkMessages, DataInd(t, d)
      PROVE  IInv'
  <2>1. sms' = for_mmsms_data_ind(f, t, d)
    BY <1>5 DEF DataInd, f
  <2>2. SlotInv(for_mmsms_data_ind(f, t, d))
    BY <1>1, DataIndStep
  <2> QED BY <2>1, <2>2 DEF IInv
<1>6. ASSUME NEW t \in Tis, NEW d \in NetworkMessages, EstablishInd(t, d)
      PROVE  IInv'
  <2>1. f.inst = "MT" /\ sms' = for_mmsms_establish_ind(f, t, d)
    BY <1>1, <1>6 DEF EstablishInd, IsMt, f
  <2>2. SlotInv(for_mmsms_establish_ind(f, t, d))
    BY <1>1, <2>1, EstablishIndStep
  <2> QED BY <2>1, <2>2 DEF IInv
<1>7. CASE TC1M
  <2>1. sms' = tim_tc1m([f EXCEPT !.tc1m = FALSE])
    BY <1>7 DEF TC1M, f
  <2> QED BY <1>1, <2>1, TC1MStep DEF IInv
<1>8. CASE TR1M
  <2>1. sms' = tim_tr1m([f EXCEPT !.tr1m = FALSE])
    BY <1>8 DEF TR1M, f
  <2> QED BY <1>1, <2>1, TR1MStep DEF IInv
<1>9. CASE TR2M
  <2>1. sms' = tim_tr2m([f EXCEPT !.tr2m = FALSE])
    BY <1>9 DEF TR2M, f
  <2> QED BY <1>1, <2>1, TR2MStep DEF IInv
<1>10. ASSUME NEW stored \in BOOLEAN, SimUpdateCnf(stored)
       PROVE  IInv'
  <2>1. f.inst = "MT" /\ sms' = tl_sim_update_rec_cnf_net(f, stored)
    BY <1>1, <1>10 DEF SimUpdateCnf, IsMt, f
  <2> QED BY <1>1, <2>1, SimStep DEF IInv
<1>11. CASE UNCHANGED sms
  BY <1>11 DEF IInv
<1> QED BY <1>2, <1>3, <1>4, <1>5, <1>6, <1>7, <1>8, <1>9, <1>10, <1>11 DEF Next

\* Every reachable slot satisfies the invariant, whatever MM, the network, the
\* SIM and the user do.
THEOREM SmsInvariant == Spec => []IInv
BY InitStep, NextStep, PTL DEF Spec

\* A slot holds the values the code gives it: in particular, MM is sent only
\* messages that are whole, also where the CP-DATA kept for repetition is sent
\* again (tim_tc1m), and no count exceeds MAX_RETRANS or TL_MAX_RETANS.
THEOREM SmsTypeCorrect == Spec => []TypeOK
<1>1. IInv => TypeOK
  BY DEF IInv, SlotInv, UpperInv, TypeOK
<1> QED BY <1>1, SmsInvariant, PTL

\* A CP-DATA that waits for its CP-ACK is kept and timed (cp_data_req, tim_tc1m).
\* The report of TL gives the kept message up (tl_report_ind, RP_DUPLICATE), and
\* so does an RP-ACK: the theorem says that neither happens while CP waits.
THEOREM SmsRetransmitExists == Spec => []RetransmitExists
<1>1. IInv => RetransmitExists
  BY DEF IInv, SlotInv, LowerInv, Repeatable, RetransmitExists
<1> QED BY <1>1, SmsInvariant, PTL

\* A relay that waits is timed (rl_establish_req, rl_data_req, rl_error_ind,
\* rl_data_ind): no loss of the connection and no answer leaves it without.
THEOREM SmsWaitIsTimed == Spec => []WaitIsTimed
<1>1. IInv => WaitIsTimed
  BY DEF IInv, SlotInv, UpperInv, Woken, WaitIsTimed
<1> QED BY <1>1, SmsInvariant, PTL

\* CP, RL and TL agree on what they wait for (cp_mmsms_establish_cnf,
\* rl_establish_cnf, tl_establish_cnf, tl_report_ind, tl_timeout_ind).
THEOREM SmsLayersAgree == Spec => []LayersAgree
<1>1. IInv => LayersAgree
  BY DEF IInv, SlotInv, UpperInv, LowerInv, LayersAgree
<1> QED BY <1>1, SmsInvariant, PTL

\* On a connection the CP-ACK of a CP-DATA is owed only while RL has its answer
\* still to give: every answer, release and error of cp_data_req, cp_release_req
\* and cp_build_cp_error has sent it.
THEOREM SmsAckIsSent == Spec => []AckIsSent
<1>1. IInv => AckIsSent
  BY DEF IInv, SlotInv, LowerInv, Acked, AckIsSent
<1> QED BY <1>1, SmsInvariant, PTL

=============================================================================
