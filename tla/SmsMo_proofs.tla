---------------------------- MODULE SmsMo_proofs ----------------------------
(***************************************************************************)
(* Theorems about the submission of short messages, for any number of      *)
(* submissions, transaction identifiers (but one), lost connections and    *)
(* repetitions and any bound of the queues: a submission that TL accepted  *)
(* is under way in RL, its message is kept, no connection of MM is left    *)
(* over, and what is confirmed as sent was accepted by the service centre. *)
(*                                                                         *)
(* The MO slot, driven by MM, the network and the user, is in one of six   *)
(* situations.  The first part of the proof computes what each handler     *)
(* does in each of them; the second part follows the two queues.           *)
(***************************************************************************)
EXTENDS SmsMo, SmsRelay_proofs

\* The transactions have identifiers to alternate between, the network answers
\* in place, and the message can be built when the connection is there.
Regular == MoTiCount > 1 /\ Stray = FALSE /\ PrepareFails = FALSE

-----------------------------------------------------------------------------
(* The slot *)

EstReq(t)        == ToMM("ESTABLISH_REQ", t, "", "", 0)
Submission(t, n) == ToMM("DATA_REQ", t, "CP_DATA", "RP_DATA", n)

\* A repetition has a message to repeat.
Keeps(s) == s.est = "RTX" => s.data_req # None

\* Nothing is under way; a connection is asked for; it was refused and will be
\* asked for again; nobody asks again; the message is sent; it will be sent again.
Idle(s)      == s.cp = "IDLE" /\ s.rl = "IDLE" /\ s.tl = "IDLE"
Asking(s)    == s.cp = "PENDING" /\ s.rl = "ESTABLISH" /\ s.tl = "ESTABLISH" /\ Keeps(s)
Waiting(s)   == s.cp = "IDLE" /\ s.rl = "ESTABLISH" /\ s.tl = "ESTABLISH" /\ Keeps(s)
Stuck(s)     == s.cp = "IDLE" /\ s.rl = "IDLE" /\ s.tl = "ESTABLISH" /\ s.est = "RTX"
Sending(s)   == /\ Connected(s) /\ s.rl = "WAIT_FOR_ACK" /\ s.tl = "SEND"
                /\ s.cp_ack_pending = FALSE
                /\ s.data_req \in Messages /\ s.data_req.m = "DATA_REQ" /\ s.data_req.ref = s.tp_mr
Resending(s) == s.cp = "IDLE" /\ s.rl = "WAIT_FOR_ACK" /\ s.tl = "SEND" /\ s.data_req # None

MoSlot(s) ==
  /\ s \in Slots /\ s.inst = "MO" /\ s.r_flag = FALSE /\ s.ti \in MoTis /\ s.timer_ti \in MoTis
  /\ Idle(s) \/ Asking(s) \/ Waiting(s) \/ Stuck(s) \/ Sending(s) \/ Resending(s)

\* All but what is sent and told, the timers and their counts is the same.
Alike(s, r) ==
  /\ r \in Slots
  /\ r.inst = s.inst /\ r.cp = s.cp /\ r.rl = s.rl /\ r.tl = s.tl /\ r.est = s.est
  /\ r.r_flag = s.r_flag /\ r.cp_ack_pending = s.cp_ack_pending
  /\ r.ti = s.ti /\ r.timer_ti = s.timer_ti /\ r.tp_mr = s.tp_mr /\ r.tl_retx = s.tl_retx
  /\ r.data_req = s.data_req

\* The transaction is the same.
Kin(s, r) ==
  /\ r \in Slots
  /\ r.inst = s.inst /\ r.est = s.est /\ r.r_flag = FALSE
  /\ r.ti = s.ti /\ r.timer_ti = s.timer_ti /\ r.tp_mr = s.tp_mr

LEMMA MoTiTypes ==
  /\ \A t \in MoTis : t \in Tis /\ t \notin MtTis /\ (t + 1) % MoTiCount \in MoTis
  /\ MoTiCount > 1 => \A t \in MoTis : (t + 1) % MoTiCount # t
  /\ 0 \in MoTis
<1>1. MoTiCount \in Nat \ {0}
  BY CountsAssumption
<1>2. ASSUME NEW t \in MoTis
      PROVE  t \in Tis /\ t \notin MtTis /\ (t + 1) % MoTiCount \in MoTis
  BY <1>1, TisAssumption DEF MoTis, Tis
<1>3. ASSUME NEW t \in MoTis, MoTiCount > 1
      PROVE  (t + 1) % MoTiCount # t
  <2>1. CASE t + 1 < MoTiCount
    BY <2>1, <1>1 DEF MoTis
  <2>2. CASE t + 1 = MoTiCount
    <3>1. (t + 1) % MoTiCount = 0
      BY <2>2, <1>1
    <3> QED BY <3>1, <2>2, <1>1, <1>3
  <2> QED BY <2>1, <2>2, <1>1 DEF MoTis
<1>4. 0 \in MoTis
  BY <1>1 DEF MoTis
<1> QED BY <1>2, <1>3, <1>4

LEMMA MoMessages ==
  ASSUME NEW t \in MoTis, NEW n \in Refs
  PROVE  /\ EstReq(t) \in Messages /\ RelReq(t) \in Messages /\ CpAck(t) \in Messages
         /\ CpError(t) \in Messages /\ Submission(t, n) \in Messages
         /\ Submission(t, n) \in Kept /\ Submission(t, n) # None
         /\ Submission(t, n).m = "DATA_REQ" /\ Submission(t, n).ref = n
         /\ Submission(t, n).ti = t
<1>1. t \in Tis
  BY MoTiTypes
<1>2. /\ EstReq(t) \in Messages /\ RelReq(t) \in Messages /\ CpAck(t) \in Messages
      /\ CpError(t) \in Messages /\ Submission(t, n) \in Messages
  BY <1>1, MessageTypes DEF EstReq, RelReq, CpAck, CpError, Submission
<1>3. /\ Submission(t, n).m = "DATA_REQ" /\ Submission(t, n).ref = n
      /\ Submission(t, n).ti = t
  BY DEF Submission, ToMM
<1>4. Submission(t, n) \in Kept /\ Submission(t, n) # None
  BY <1>2, DataTypes
<1> QED BY <1>2, <1>3, <1>4

\* What the requests of CP are.
LEMMA CpRequests ==
  ASSUME NEW s, NEW t
  PROVE  /\ cp_send_release_req(s, t) = Send(s, RelReq(t))
         /\ cp_establish_req(s, t) = Send([s EXCEPT !.cp = "PENDING"], EstReq(t))
         /\ cp_build_cp_ack(s) = Send([s EXCEPT !.cp_ack_pending = FALSE], CpAck(s.ti))
         /\ cp_build_cp_error(s) = Send(AckPending(s), CpError(s.ti))
         /\ \A n : Transmit(s, ToMM("DATA_REQ", s.ti, "CP_DATA", "RP_DATA", n))
                     = Transmit(s, Submission(s.ti, n))
BY Zenon DEF cp_send_release_req, RelReq, cp_establish_req, EstReq, cp_build_cp_ack, CpAck,
     cp_build_cp_error, CpError, Submission

LEMMA SendAlike ==
  ASSUME NEW s \in Slots, NEW m \in Messages
  PROVE  /\ Alike(s, Send(s, m))
         /\ Send(s, m).out = Append(s.out, m) /\ Send(s, m).up = s.up
         /\ Send(s, m).sdu = s.sdu
<1>1. Send(s, m) \in Slots
  BY SendStep
<1> QED BY <1>1 DEF Send, Alike, Slots

LEMMA TellAlike ==
  ASSUME NEW s \in Slots, NEW u \in {"submit_ok", "submit_failed", "submit_busy"}
  PROVE  /\ Alike(s, Tell(s, u))
         /\ Tell(s, u).up = Append(s.up, u) /\ Tell(s, u).out = s.out
         /\ Tell(s, u).sdu = s.sdu
<1>1. Tell(s, u) \in Slots
  BY SendStep
<1> QED BY <1>1 DEF Tell, Alike, Slots

\* An identifier of our own is not given back.
LEMMA FreeAlike ==
  ASSUME NEW s \in Slots, s.ti \in MoTis, NEW t \in MoTis
  PROVE  /\ Alike(s, csf_free_sms_instance(s, t))
         /\ csf_free_sms_instance(s, t).out = s.out
         /\ csf_free_sms_instance(s, t).up = s.up
<1>1. csf_free_sms_instance(s, t) \in Slots
  BY MoTiTypes, FreeStep
<1>2. t \notin MtTis
  BY MoTiTypes
<1> QED BY <1>1, <1>2 DEF csf_free_sms_instance, Alike, Slots

\* With the CP-ACK that is owed, if one is
Owed(s) == IF s.cp_ack_pending THEN Append(s.out, CpAck(s.ti)) ELSE s.out

LEMMA AckAlike ==
  ASSUME NEW s \in Slots, s.ti \in MoTis
  PROVE  /\ Alike([s EXCEPT !.cp_ack_pending = FALSE], AckPending(s))
         /\ AckPending(s).out = Owed(s) /\ AckPending(s).up = s.up
         /\ AckPending(s).sdu = s.sdu
<1> DEFINE u == [s EXCEPT !.cp_ack_pending = FALSE]
<1>1. /\ u \in Slots /\ u.out = s.out /\ u.up = s.up /\ u.sdu = s.sdu
  BY DEF Slots
<1>2. CASE s.cp_ack_pending
  <2>1. AckPending(s) = Send(u, CpAck(s.ti))
    BY <1>2, CpRequests DEF AckPending
  <2>2. CpAck(s.ti) \in Messages
    BY MoMessages, NumberTypes
  <2> HIDE DEF u
  <2> QED BY <1>1, <1>2, <2>1, <2>2, SendAlike DEF Owed, u
<1>3. CASE ~s.cp_ack_pending
  <2>1. AckPending(s) = s
    BY <1>3 DEF AckPending
  <2>2. s.cp_ack_pending = FALSE
    BY <1>3 DEF Slots
  <2> QED BY <1>1, <1>3, <2>1, <2>2 DEF Owed, Alike, Slots
<1> QED BY <1>2, <1>3

\* CP ends a connection that waits for nothing.
LEMMA CloseMo ==
  ASSUME NEW s \in Slots, s.cp = "ESTABLISHED", s.ti \in MoTis
  PROVE  LET r == cp_release_req(s, s.ti) IN
         /\ Kin(s, r) /\ r.cp = "IDLE" /\ r.rl = s.rl /\ r.tl = s.tl
         /\ r.data_req = s.data_req /\ r.tl_retx = s.tl_retx /\ r.sdu = s.sdu
         /\ r.out = Append(Owed(s), RelReq(s.ti)) /\ r.up = s.up
<1> DEFINE a == AckPending(s)
           b == [a EXCEPT !.r_flag = FALSE, !.cp = "IDLE"]
           r == cp_release_req(s, s.ti)
<1>1. RelReq(s.ti) \in Messages
  BY MoMessages, NumberTypes
<1>2. /\ a \in Slots /\ a.inst = s.inst /\ a.rl = s.rl /\ a.tl = s.tl /\ a.est = s.est
      /\ a.ti = s.ti /\ a.timer_ti = s.timer_ti /\ a.tp_mr = s.tp_mr /\ a.tl_retx = s.tl_retx
      /\ a.data_req = s.data_req /\ a.out = Owed(s) /\ a.up = s.up /\ a.sdu = s.sdu
  BY AckAlike DEF Alike, Slots
<1>3. r = Send(b, RelReq(s.ti))
  BY CpRequests DEF cp_release_req
<1> HIDE DEF a
<1>4. /\ b \in Slots /\ b.inst = s.inst /\ b.rl = s.rl /\ b.tl = s.tl /\ b.est = s.est
      /\ b.ti = s.ti /\ b.timer_ti = s.timer_ti /\ b.tp_mr = s.tp_mr /\ b.tl_retx = s.tl_retx
      /\ b.data_req = s.data_req /\ b.out = Owed(s) /\ b.up = s.up /\ b.sdu = s.sdu
      /\ b.cp = "IDLE" /\ b.r_flag = FALSE
  BY <1>2 DEF Slots
<1> HIDE DEF b, r
<1>5. Alike(b, r) /\ r.out = Append(b.out, RelReq(s.ti)) /\ r.up = b.up /\ r.sdu = b.sdu
  BY <1>1, <1>3, <1>4, SendAlike
<1> QED BY <1>4, <1>5 DEF Alike, Kin, r

\* TL's report to the user ends the submission, and the connection with it.
LEMMA ReportMo ==
  ASSUME NEW s \in Slots, s.inst = "MO", s.ti \in MoTis, s.r_flag = FALSE,
         s.cp \in {"IDLE", "ESTABLISHED"}, s.rl = "IDLE", s.tl \in {"ESTABLISH", "SEND"},
         NEW cause
  PROVE  LET r == tl_report_ind(s, cause) IN
         /\ Kin(s, r) /\ Idle(r)
         /\ r.out = IF s.cp = "IDLE" THEN s.out ELSE Append(Owed(s), RelReq(s.ti))
         /\ \E u \in {"submit_ok", "submit_failed"} :
              /\ r.up = Append(s.up, u)
              /\ u = "submit_ok" => cause \in {"ok", "RP_DUPLICATE"}
<1> DEFINE d == IF cause = "ok" THEN s.data_req ELSE None
           a == [s EXCEPT !.data_req = d]
           p == Report(s, cause)
           q == Closed(p)
           r == tl_report_ind(s, cause)
<1>1. p = ConfirmSubmit(s, cause)
  BY DEF Report
<1>2. /\ a \in Slots /\ a.inst = "MO" /\ a.cp = s.cp /\ a.rl = "IDLE" /\ a.tl = s.tl
      /\ a.est = s.est /\ a.r_flag = FALSE /\ a.ti = s.ti /\ a.timer_ti = s.timer_ti
      /\ a.tp_mr = s.tp_mr /\ a.cp_ack_pending = s.cp_ack_pending /\ a.out = s.out /\ a.up = s.up
  BY DataTypes DEF Slots
<1>3. \E u \in {"submit_ok", "submit_failed"} :
        /\ u = "submit_ok" => cause \in {"ok", "RP_DUPLICATE"}
        /\ p = Tell(a, u) \/ p = Tell(s, u)
  BY <1>1 DEF ConfirmSubmit, IsDuplicate
<1>4. PICK u \in {"submit_ok", "submit_failed"} :
        /\ u = "submit_ok" => cause \in {"ok", "RP_DUPLICATE"}
        /\ p = Tell(a, u) \/ p = Tell(s, u)
  BY <1>3
<1> HIDE DEF a, p
<1>5. /\ p \in Slots /\ p.inst = "MO" /\ p.cp = s.cp /\ p.rl = "IDLE" /\ p.tl = s.tl
      /\ p.est = s.est /\ p.r_flag = FALSE /\ p.ti = s.ti /\ p.timer_ti = s.timer_ti
      /\ p.tp_mr = s.tp_mr /\ p.cp_ack_pending = s.cp_ack_pending /\ p.out = s.out
      /\ p.up = Append(s.up, u)
  BY <1>2, <1>4, TellAlike DEF Alike
<1>6. /\ q \in Slots /\ q.inst = "MO" /\ q.cp = s.cp /\ q.rl = "IDLE" /\ q.tl = "IDLE"
      /\ q.est = s.est /\ q.r_flag = FALSE /\ q.ti = s.ti /\ q.timer_ti = s.timer_ti
      /\ q.tp_mr = s.tp_mr /\ q.cp_ack_pending = s.cp_ack_pending /\ q.out = s.out
      /\ q.up = Append(s.up, u)
  BY <1>5 DEF Closed, Slots
<1>7. r = cp_release_req(q, q.ti)
  <2>1. r = rl_release_req(q, s.ti)
    BY <1>6 DEF tl_report_ind, p
  <2> QED BY <1>6, <2>1 DEF rl_release_req
<1> HIDE DEF q, r
<1>8. /\ Kin(s, r) /\ Idle(r) /\ r.up = Append(s.up, u)
      /\ r.out = IF s.cp = "IDLE" THEN s.out ELSE Append(Owed(s), RelReq(s.ti))
  <2>1. CASE s.cp = "IDLE"
    <3> DEFINE z == [q EXCEPT !.r_flag = FALSE]
    <3>1. /\ Alike(q, z) /\ z.out = q.out /\ z.up = q.up /\ z.ti = q.ti
      BY <1>6 DEF Alike, Slots
    <3>2. r = csf_free_sms_instance(z, q.ti)
      BY <1>6, <1>7, <2>1 DEF cp_release_req
    <3> HIDE DEF z
    <3>3. Alike(z, r) /\ r.out = z.out /\ r.up = z.up
      BY <1>6, <3>1, <3>2, FreeAlike DEF Alike
    <3> QED BY <1>6, <2>1, <3>1, <3>3 DEF Alike, Kin, Idle
  <2>2. CASE s.cp = "ESTABLISHED"
    <3>1. /\ Kin(q, r) /\ r.cp = "IDLE" /\ r.rl = q.rl /\ r.tl = q.tl
          /\ r.out = Append(Owed(q), RelReq(q.ti)) /\ r.up = q.up
      BY <1>6, <1>7, <2>2, CloseMo DEF Idle
    <3>2. Owed(q) = Owed(s)
      BY <1>6 DEF Owed
    <3> QED BY <1>6, <2>2, <3>1, <3>2 DEF Kin, Idle
  <2> QED BY <2>1, <2>2
<1> QED BY <1>4, <1>8 DEF r

\* The connection is gone, with no message of CP to send.
Ended(s, r) ==
  \/ Alike(s, r) /\ r.up = s.up /\ r.sdu = s.sdu
  \/ Kin(s, r) /\ Idle(r) /\ r.up = Append(s.up, "submit_failed")

LEMMA ErrorMo ==
  ASSUME NEW s \in Slots, s.inst = "MO", s.ti \in MoTis, s.r_flag = FALSE, s.cp = "IDLE",
         \/ s.rl = "ESTABLISH" /\ s.tl = "ESTABLISH"
         \/ s.rl = "WAIT_FOR_ACK" /\ s.tl = "SEND",
         NEW cause \in {"norm", "other", "timeout"}
  PROVE  Ended(s, rl_error_ind(s, cause)) /\ rl_error_ind(s, cause).out = s.out
<1> DEFINE b == s.tr1m \/ s.rl = "ESTABLISH" \/ cause = "timeout"
           w == [s EXCEPT !.tr1m = b]
           x == [s EXCEPT !.rl = "IDLE",
                          !.tr1m = @ /\ s.rl \notin {"ESTABLISH", "WAIT_FOR_ACK"},
                          !.tr2m = @ /\ s.rl # "WAIT_FOR_SEND_ACK"]
           a == AfterError(s)
           r == rl_error_ind(s, cause)
<1>1. CASE AwaitsRetry(s, cause)
  <2>1. r = w
    BY <1>1 DEF rl_error_ind
  <2>2. b \in BOOLEAN
    OBVIOUS
  <2> HIDE DEF b
  <2>3. Alike(s, w) /\ w.out = s.out /\ w.up = s.up /\ w.sdu = s.sdu
    BY <2>2 DEF Alike, Slots
  <2> QED BY <2>1, <2>3 DEF Ended
<1>2. CASE ~AwaitsRetry(s, cause)
  <2>1. r = tl_report_ind(a, cause)
    BY <1>2 DEF rl_error_ind
  <2>2. /\ x \in Slots /\ x.inst = "MO" /\ x.cp = "IDLE" /\ x.rl = "IDLE" /\ x.tl = s.tl
        /\ x.est = s.est /\ x.r_flag = FALSE /\ x.ti = s.ti /\ x.timer_ti = s.timer_ti
        /\ x.tp_mr = s.tp_mr /\ x.out = s.out /\ x.up = s.up
    BY DEF Slots
  <2>3. a = csf_free_sms_instance(x, x.ti)
    BY <2>2 DEF AfterError
  <2> HIDE DEF x, a, r
  <2>4. Alike(x, a) /\ a.out = x.out /\ a.up = x.up
    BY <2>2, <2>3, FreeAlike
  <2>5. /\ a \in Slots /\ a.inst = "MO" /\ a.cp = "IDLE" /\ a.rl = "IDLE" /\ a.tl = s.tl
        /\ a.est = s.est /\ a.r_flag = FALSE /\ a.ti = s.ti /\ a.timer_ti = s.timer_ti
        /\ a.tp_mr = s.tp_mr /\ a.out = s.out /\ a.up = s.up
    BY <2>2, <2>4 DEF Alike
  <2>6. /\ Kin(a, r) /\ Idle(r) /\ r.out = a.out
        /\ \E u \in {"submit_ok", "submit_failed"} :
             /\ r.up = Append(a.up, u)
             /\ u = "submit_ok" => cause \in {"ok", "RP_DUPLICATE"}
    <3>1. a.cp \in {"IDLE", "ESTABLISHED"} /\ a.tl \in {"ESTABLISH", "SEND"} /\ a.ti \in MoTis
      BY <2>5
    <3>2. /\ Kin(a, tl_report_ind(a, cause)) /\ Idle(tl_report_ind(a, cause))
          /\ tl_report_ind(a, cause).out
               = IF a.cp = "IDLE" THEN a.out ELSE Append(Owed(a), RelReq(a.ti))
          /\ \E u \in {"submit_ok", "submit_failed"} :
               /\ tl_report_ind(a, cause).up = Append(a.up, u)
               /\ u = "submit_ok" => cause \in {"ok", "RP_DUPLICATE"}
      BY <2>5, <3>1, ReportMo
    <3> QED BY <2>1, <2>5, <3>2
  <2>7. r.up = Append(s.up, "submit_failed")
    BY <2>5, <2>6
  <2> QED BY <2>5, <2>6, <2>7 DEF Kin, Ended, r
<1> QED BY <1>1, <1>2

\* The next transaction is asked for.
NextTi(s) == (s.ti + 1) % MoTiCount

Begins(s, r) ==
  /\ r \in Slots /\ r.inst = s.inst /\ r.cp = "PENDING" /\ r.rl = "ESTABLISH" /\ r.tl = s.tl
  /\ r.est = s.est /\ r.r_flag = s.r_flag /\ r.ti = s.ti /\ r.timer_ti = NextTi(s)
  /\ r.tp_mr = s.tp_mr /\ r.data_req = s.data_req /\ r.sdu = s.sdu
  /\ r.out = Append(s.out, EstReq(NextTi(s))) /\ r.up = s.up

LEMMA EstablishMo ==
  ASSUME NEW s \in Slots, s.rl = "IDLE", s.ti \in MoTis
  PROVE  Begins(s, tl_establish_connection(s))
<1> DEFINE t == NextTi(s)
           u == [s EXCEPT !.rl = "ESTABLISH", !.timer_ti = t, !.tr1m = TRUE]
           v == [u EXCEPT !.cp = "PENDING"]
           r == tl_establish_connection(s)
<1>1. t \in MoTis /\ t \in Tis
  BY MoTiTypes DEF NextTi
<1>2. EstReq(t) \in Messages
  BY <1>1, MoMessages, NumberTypes
<1>3. r = Send(v, EstReq(t))
  <2>1. r = rl_establish_req(s, t)
    BY DEF tl_establish_connection, csf_get_new_mo_ti, NextTi
  <2>2. r = cp_establish_req(u, t)
    BY <2>1 DEF rl_establish_req
  <2> HIDE DEF u, r, t
  <2> QED BY <2>2, CpRequests
<1> HIDE DEF t
<1>4. /\ u \in Slots /\ u.inst = s.inst /\ u.cp = s.cp /\ u.rl = "ESTABLISH" /\ u.tl = s.tl
      /\ u.est = s.est /\ u.r_flag = s.r_flag /\ u.ti = s.ti /\ u.timer_ti = t
      /\ u.tp_mr = s.tp_mr /\ u.data_req = s.data_req /\ u.sdu = s.sdu
      /\ u.out = s.out /\ u.up = s.up
  BY <1>1 DEF Slots
<1> HIDE DEF u
<1>5. /\ v \in Slots /\ v.inst = s.inst /\ v.cp = "PENDING" /\ v.rl = "ESTABLISH" /\ v.tl = s.tl
      /\ v.est = s.est /\ v.r_flag = s.r_flag /\ v.ti = s.ti /\ v.timer_ti = t
      /\ v.tp_mr = s.tp_mr /\ v.data_req = s.data_req /\ v.sdu = s.sdu
      /\ v.out = s.out /\ v.up = s.up
  BY <1>4 DEF Slots
<1> HIDE DEF v, r
<1>6. Alike(v, r) /\ r.out = Append(v.out, EstReq(t)) /\ r.up = v.up /\ r.sdu = v.sdu
  BY <1>2, <1>3, <1>5, SendAlike
<1> QED BY <1>5, <1>6 DEF Alike, Begins, r, t

-----------------------------------------------------------------------------
(* The handlers of the MO slot *)

\* A handler begins with nothing sent and nothing told.
Blank(s) == MoSlot(s) /\ s.out = <<>> /\ s.up = <<>>

LEMMA SubmitMo ==
  ASSUME NEW s, Blank(s), NEW auto_rep \in BOOLEAN
  PROVE  LET r == tl_mnsms_submit_req(s, auto_rep) IN
         /\ Idle(s) => /\ MoSlot(r) /\ Asking(r) /\ r.est = "SEND" /\ r.sdu = TRUE
                       /\ r.ti = s.ti /\ r.timer_ti = NextTi(s)
                       /\ r.out = <<EstReq(NextTi(s))>> /\ r.up = <<>>
         /\ ~Idle(s) => /\ Alike(s, r) /\ r.sdu = s.sdu
                        /\ r.out = <<>> /\ r.up = <<"submit_busy">>
<1> DEFINE n == IF auto_rep THEN 0 ELSE TL_MAX_RETANS
           p == (s.tp_mr + 1) % RefCount
           u == [s EXCEPT !.tl = "ESTABLISH", !.est = "SEND", !.sdu = TRUE,
                          !.tl_retx = n, !.tp_mr = p]
           r == tl_mnsms_submit_req(s, auto_rep)
<1>1. /\ s \in Slots /\ s.inst = "MO" /\ s.r_flag = FALSE /\ s.ti \in MoTis
      /\ s.out = <<>> /\ s.up = <<>>
  BY DEF Blank, MoSlot
<1>2. n \in TlRetx /\ p \in Refs
  BY <1>1, NumberTypes DEF Slots
<1> HIDE DEF n, p
<1>3. CASE Idle(s)
  <2>1. r = tl_establish_connection(u)
    BY <1>3 DEF tl_mnsms_submit_req, Idle, n, p
  <2>2. /\ u \in Slots /\ u.inst = "MO" /\ u.cp = "IDLE" /\ u.rl = "IDLE" /\ u.tl = "ESTABLISH"
        /\ u.est = "SEND" /\ u.r_flag = FALSE /\ u.ti = s.ti /\ u.sdu = TRUE
        /\ u.out = <<>> /\ u.up = <<>>
    BY <1>1, <1>2, <1>3 DEF Slots, Idle
  <2> HIDE DEF u, r
  <2>3. Begins(u, r)
    BY <1>1, <2>1, <2>2, EstablishMo
  <2>4. NextTi(u) = NextTi(s) /\ NextTi(s) \in MoTis
    BY <1>1, <2>2, MoTiTypes DEF NextTi
  <2>5. r.out = <<EstReq(NextTi(s))>>
    BY <2>2, <2>3, <2>4 DEF Begins
  <2>6. Asking(r) /\ r.est = "SEND" /\ r.sdu = TRUE /\ r.ti = s.ti /\ r.timer_ti = NextTi(s)
        /\ r.up = <<>> /\ r \in Slots /\ r.inst = "MO" /\ r.r_flag = FALSE
    BY <2>2, <2>3, <2>4 DEF Begins, Asking, Keeps
  <2> QED BY <1>1, <1>3, <2>4, <2>5, <2>6 DEF MoSlot, r
<1>4. CASE ~Idle(s)
  <2>1. s.tl # "IDLE"
    BY <1>4 DEF Blank, MoSlot, Idle, Asking, Waiting, Stuck, Sending, Resending
  <2>2. r = Tell(s, "submit_busy")
    BY <2>1 DEF tl_mnsms_submit_req
  <2> HIDE DEF r
  <2>3. Alike(s, r) /\ r.sdu = s.sdu /\ r.out = <<>> /\ r.up = <<"submit_busy">>
    BY <1>1, <2>2, TellAlike
  <2> QED BY <1>4, <2>3 DEF r
<1> QED BY <1>3, <1>4

\* A slot whose situation and transaction are the same is in order as well.
LEMMA AlikeMo ==
  ASSUME NEW s, MoSlot(s), NEW r, Alike(s, r)
  PROVE  /\ MoSlot(r)
         /\ Idle(s) <=> Idle(r)
         /\ Asking(s) <=> Asking(r)
         /\ Waiting(s) <=> Waiting(r)
         /\ Stuck(s) <=> Stuck(r)
         /\ Sending(s) <=> Sending(r)
         /\ Resending(s) <=> Resending(r)
         /\ Connected(s) <=> Connected(r)
BY DEF MoSlot, Alike, Idle, Asking, Waiting, Stuck, Sending, Resending, Keeps, Connected

\* The connection is there: the message is built and sent on it.
LEMMA ConfirmMo ==
  ASSUME NEW s, Blank(s), NEW t \in MoTis
  PROVE  LET r == cp_mmsms_establish_cnf(s, t, TRUE) IN
         /\ Asking(s) =>
              /\ MoSlot(r) /\ Sending(r) /\ r.ti = t /\ r.timer_ti = s.timer_ti
              /\ r.tp_mr = s.tp_mr /\ r.cp = "WAIT_FOR_ACK"
              /\ r.data_req = Submission(t, s.tp_mr) /\ r.out = <<r.data_req>> /\ r.up = <<>>
         /\ ~Asking(s) =>
              /\ r = [s EXCEPT !.ti = t, !.cp_ack_pending = FALSE]
              /\ MoSlot(r) /\ r.out = <<>> /\ r.up = <<>>
<1> DEFINE u == [s EXCEPT !.cp = "ESTABLISHED", !.ti = t, !.cp_ack_pending = FALSE]
           v == [u EXCEPT !.rl = "ESTABLISHED", !.tr1m = FALSE]
           w == [v EXCEPT !.tl = "SEND"]
           x == [w EXCEPT !.rl = "WAIT_FOR_ACK", !.msg_ref = w.tp_mr, !.tr1m = TRUE]
           m == Submission(t, s.tp_mr)
           y == [x EXCEPT !.cp = "WAIT_FOR_ACK", !.retx = 0, !.data_req = m, !.tc1m = TRUE]
           z == [s EXCEPT !.ti = t, !.cp_ack_pending = FALSE]
           r == cp_mmsms_establish_cnf(s, t, TRUE)
<1>1. /\ s \in Slots /\ s.inst = "MO" /\ s.r_flag = FALSE /\ s.ti \in MoTis /\ s.timer_ti \in MoTis
      /\ s.out = <<>> /\ s.up = <<>> /\ t \in Tis /\ s.tp_mr \in Refs /\ 0 \in Retx
      /\ s.est \in {"SEND", "RTX"}
  BY NumberTypes DEF Blank, MoSlot, Slots
<1>2. /\ m \in Messages /\ m \in Kept /\ m # None /\ m.m = "DATA_REQ" /\ m.ref = s.tp_mr
  BY <1>1, MoMessages
<1>3. CASE Asking(s)
  <2>1. r = rl_establish_cnf(u, TRUE)
    BY <1>3 DEF cp_mmsms_establish_cnf, Asking
  <2>2. /\ u \in Slots /\ u.inst = "MO" /\ u.cp = "ESTABLISHED" /\ u.rl = "ESTABLISH"
        /\ u.tl = "ESTABLISH" /\ u.est = s.est /\ u.r_flag = FALSE /\ u.ti = t
        /\ u.timer_ti = s.timer_ti /\ u.tp_mr = s.tp_mr /\ u.data_req = s.data_req
        /\ u.cp_ack_pending = FALSE /\ u.out = <<>> /\ u.up = <<>>
    BY <1>1, <1>3 DEF Slots, Asking
  <2> HIDE DEF u, m, r
  <2>3. r = tl_establish_cnf(v, TRUE)
    BY <2>1, <2>2 DEF rl_establish_cnf
  <2>4. /\ v \in Slots /\ v.inst = "MO" /\ v.cp = "ESTABLISHED" /\ v.rl = "ESTABLISHED"
        /\ v.tl = "ESTABLISH" /\ v.est = s.est /\ v.r_flag = FALSE /\ v.ti = t
        /\ v.timer_ti = s.timer_ti /\ v.tp_mr = s.tp_mr /\ v.data_req = s.data_req
        /\ v.cp_ack_pending = FALSE /\ v.out = <<>> /\ v.up = <<>>
    BY <2>2 DEF Slots
  <2> HIDE DEF v
  <2>5. r = rl_data_req(w)
    <3>1. CASE s.est = "SEND"
      <4>1. r = tl_establish_cnf_send(v, TRUE)
        BY <2>3, <2>4, <3>1 DEF tl_establish_cnf
      <4> QED BY <4>1 DEF tl_establish_cnf_send
    <3>2. CASE s.est = "RTX"
      <4>1. r = tl_establish_cnf_rtx(v)
        BY <2>3, <2>4, <3>2 DEF tl_establish_cnf
      <4>2. v.data_req # None
        BY <1>3, <2>4, <3>2 DEF Asking, Keeps
      <4> QED BY <4>1, <4>2 DEF tl_establish_cnf_rtx
    <3> QED BY <1>1, <3>1, <3>2
  <2>6. /\ w \in Slots /\ w.inst = "MO" /\ w.cp = "ESTABLISHED" /\ w.rl = "ESTABLISHED"
        /\ w.tl = "SEND" /\ w.est = s.est /\ w.r_flag = FALSE /\ w.ti = t
        /\ w.timer_ti = s.timer_ti /\ w.tp_mr = s.tp_mr /\ w.tp_mr \in Refs
        /\ w.cp_ack_pending = FALSE /\ w.out = <<>> /\ w.up = <<>>
    BY <1>1, <2>4 DEF Slots
  <2> HIDE DEF w
  <2>7. r = cp_data_req(x, "RP_DATA", w.tp_mr)
    BY <2>5, <2>6 DEF rl_data_req
  <2>8. /\ x \in Slots /\ x.inst = "MO" /\ x.cp = "ESTABLISHED" /\ x.rl = "WAIT_FOR_ACK"
        /\ x.tl = "SEND" /\ x.est = s.est /\ x.r_flag = FALSE /\ x.ti = t
        /\ x.timer_ti = s.timer_ti /\ x.tp_mr = s.tp_mr
        /\ x.cp_ack_pending = FALSE /\ x.out = <<>> /\ x.up = <<>>
    BY <2>6 DEF Slots
  <2> HIDE DEF x
  <2>9. r = Send(y, m)
    <3>1. AckPending(x) = x
      BY <2>8 DEF AckPending
    <3>2. r = Transmit(x, ToMM("DATA_REQ", x.ti, "CP_DATA", "RP_DATA", s.tp_mr))
      BY <2>6, <2>7, <2>8, <3>1 DEF cp_data_req
    <3>3. r = Transmit(x, Submission(x.ti, s.tp_mr))
      BY <3>2, CpRequests
    <3>4. r = Transmit(x, m)
      BY <3>3, <2>8 DEF m
    <3> QED BY <3>4 DEF Transmit
  <2>10. /\ y \in Slots /\ y.inst = "MO" /\ y.cp = "WAIT_FOR_ACK" /\ y.rl = "WAIT_FOR_ACK"
         /\ y.tl = "SEND" /\ y.est = s.est /\ y.r_flag = FALSE /\ y.ti = t
         /\ y.timer_ti = s.timer_ti /\ y.tp_mr = s.tp_mr /\ y.data_req = m
         /\ y.cp_ack_pending = FALSE /\ y.out = <<>> /\ y.up = <<>>
    BY <1>1, <1>2, <2>8 DEF Slots
  <2> HIDE DEF y
  <2>11. Alike(y, r) /\ r.out = <<m>> /\ r.up = <<>>
    BY <1>2, <2>9, <2>10, SendAlike
  <2>12. /\ r \in Slots /\ r.inst = "MO" /\ r.cp = "WAIT_FOR_ACK" /\ r.rl = "WAIT_FOR_ACK"
         /\ r.tl = "SEND" /\ r.r_flag = FALSE /\ r.ti = t
         /\ r.timer_ti = s.timer_ti /\ r.tp_mr = s.tp_mr /\ r.data_req = m
         /\ r.cp_ack_pending = FALSE
    BY <2>10, <2>11 DEF Alike
  <2>13. Sending(r)
    BY <1>2, <2>12 DEF Sending, Connected
  <2>14. MoSlot(r)
    BY <1>1, <2>12, <2>13 DEF MoSlot
  <2> QED BY <1>3, <2>11, <2>12, <2>13, <2>14 DEF r, m
<1>4. CASE ~Asking(s)
  <2>1. s.cp # "PENDING"
    BY <1>4 DEF Blank, MoSlot, Idle, Asking, Waiting, Stuck, Sending, Resending, Connected
  <2>2. r = z
    BY <2>1 DEF cp_mmsms_establish_cnf
  <2>3. /\ z \in Slots /\ z.inst = "MO" /\ z.cp = s.cp /\ z.rl = s.rl /\ z.tl = s.tl
        /\ z.est = s.est /\ z.r_flag = FALSE /\ z.ti = t /\ z.timer_ti = s.timer_ti
        /\ z.tp_mr = s.tp_mr /\ z.data_req = s.data_req /\ z.cp_ack_pending = FALSE
        /\ z.out = <<>> /\ z.up = <<>>
    BY <1>1 DEF Slots
  <2> HIDE DEF z
  <2>4. MoSlot(z)
    BY <1>1, <2>3 DEF Blank, MoSlot, Idle, Asking, Waiting, Stuck, Sending, Resending, Keeps,
          Connected
  <2> QED BY <1>4, <2>2, <2>3, <2>4 DEF z, r
<1> QED BY <1>3, <1>4

LEMMA Pairs ==
  ASSUME NEW S, NEW a \in S, NEW b \in S
  PROVE  Append(<<a>>, b) = <<a, b>>
<1>1. <<a>> \in Seq(S) /\ Len(<<a>>) = 1 /\ <<a>>[1] = a
  OBVIOUS
<1>2. Append(<<a>>, b) \in Seq(S) /\ <<a, b>> \in Seq(S)
  BY <1>1
<1>3. /\ Len(Append(<<a>>, b)) = 2 /\ Len(<<a, b>>) = 2
      /\ \A i \in 1 .. 2 : Append(<<a>>, b)[i] = <<a, b>>[i]
  BY <1>1
<1> QED BY <1>2, <1>3, SeqEqual

\* The connection is over: the user is told, or the submission is made again.
Leaves(s, r) ==
  /\ Kin(s, r)
  /\ \/ Idle(r) /\ r.up \in {<<"submit_ok">>, <<"submit_failed">>}
     \/ Resending(r) /\ r.up = <<>>

Failed(r) == r.up # <<"submit_ok">>

LEMMA LeavesMo ==
  ASSUME NEW s, MoSlot(s), NEW r, Leaves(s, r)
  PROVE  MoSlot(r)
BY DEF MoSlot, Leaves, Kin

LEMMA EndedLeaves ==
  ASSUME NEW s, NEW r, Ended(s, r), s.up = <<>>, s.cp = "IDLE", s.r_flag = FALSE,
         s.rl = "WAIT_FOR_ACK", s.tl = "SEND", s.data_req # None
  PROVE  Leaves(s, r) /\ Failed(r)
<1>1. CASE Alike(s, r) /\ r.up = s.up
  <2>1. Kin(s, r) /\ Resending(r)
    BY <1>1 DEF Alike, Kin, Resending
  <2> QED BY <1>1, <2>1 DEF Leaves, Failed
<1>2. CASE Kin(s, r) /\ Idle(r) /\ r.up = Append(s.up, "submit_failed")
  <2>1. r.up = <<"submit_failed">>
    BY <1>2
  <2> QED BY <1>2, <2>1 DEF Leaves, Failed
<1> QED BY <1>1, <1>2 DEF Ended

\* CP gives the connection up, and RL learns of it.
LEMMA ReleaseMo ==
  ASSUME NEW s, MoSlot(s), Sending(s), NEW u, Alike(s, u), u.up = <<>>,
         NEW cause \in {"norm", "other", "timeout"}
  PROVE  LET r == rl_error_ind(Release(u), cause) IN
         Leaves(s, r) /\ Failed(r) /\ r.out = Append(u.out, RelReq(s.ti))
<1> DEFINE v == Send(u, RelReq(s.ti))
           w == Release(u)
           r == rl_error_ind(w, cause)
<1>1. /\ u \in Slots /\ u.inst = "MO" /\ u.rl = "WAIT_FOR_ACK" /\ u.tl = "SEND" /\ u.est = s.est
      /\ u.ti = s.ti /\ u.ti \in MoTis /\ u.timer_ti = s.timer_ti /\ u.tp_mr = s.tp_mr
      /\ u.data_req = s.data_req /\ s.data_req # None
  BY NoneAssumption DEF MoSlot, Sending, Alike
<1>2. RelReq(s.ti) \in Messages
  BY <1>1, MoMessages, NumberTypes
<1>3. Alike(u, v) /\ v.out = Append(u.out, RelReq(s.ti)) /\ v.up = <<>>
  BY <1>1, <1>2, SendAlike
<1>4. w = [v EXCEPT !.cp = "IDLE", !.r_flag = FALSE]
  BY <1>1, CpRequests DEF Release
<1> HIDE DEF v, w
<1>5. /\ v \in Slots /\ v.inst = "MO" /\ v.rl = "WAIT_FOR_ACK" /\ v.tl = "SEND" /\ v.est = s.est
      /\ v.ti = s.ti /\ v.timer_ti = s.timer_ti /\ v.tp_mr = s.tp_mr /\ v.data_req = s.data_req
  BY <1>1, <1>3 DEF Alike
<1>6. /\ w \in Slots /\ w.inst = "MO" /\ w.rl = "WAIT_FOR_ACK" /\ w.tl = "SEND" /\ w.est = s.est
      /\ w.ti = s.ti /\ w.timer_ti = s.timer_ti /\ w.tp_mr = s.tp_mr /\ w.data_req = s.data_req
      /\ w.cp = "IDLE" /\ w.r_flag = FALSE /\ w.out = v.out /\ w.up = v.up
  BY <1>4, <1>5 DEF Slots
<1>7. Ended(w, r) /\ r.out = w.out
  BY <1>1, <1>6, ErrorMo
<1> HIDE DEF r
<1>8. Leaves(w, r) /\ Failed(r)
  <2>1. w.up = <<>> /\ w.data_req # None
    BY <1>1, <1>3, <1>6
  <2> QED BY <1>6, <1>7, <2>1, EndedLeaves
<1>9. Leaves(s, r)
  BY <1>6, <1>8 DEF Leaves, Kin, MoSlot
<1> QED BY <1>3, <1>6, <1>7, <1>8, <1>9 DEF r, w

\* The RP message of the service centre: acknowledged, refused for good, or
\* refused for now and to be submitted again.
RpAnswers == {"RP_ACK", "RP_TEMPORARY", "RP_PERMANENT", "RP_DUPLICATE"}
Confirms  == {"RP_ACK", "RP_DUPLICATE"}

LEMMA AnswerMo ==
  ASSUME NEW s, MoSlot(s), Sending(s), s.out = <<>>, s.up = <<>>, s.cp = "ESTABLISHED",
         NEW d, d.rp \in RpAnswers
  PROVE  LET r == PassToRl(s, d) IN
         /\ Leaves(s, r) /\ r.out = <<CpAck(s.ti), RelReq(s.ti)>>
         /\ ~Failed(r) => d.rp \in Confirms
<1> DEFINE u == [s EXCEPT !.cp_ack_pending = TRUE]
           a == Answered(u)
           b == [u EXCEPT !.tr1m = TRUE]
           r == PassToRl(s, d)
<1>1. /\ s \in Slots /\ s.inst = "MO" /\ s.ti \in MoTis /\ s.r_flag = FALSE
      /\ s.rl = "WAIT_FOR_ACK" /\ s.tl = "SEND" /\ s.data_req # None
      /\ s.out \in Seq(Messages)
  BY SlotTypes, NoneAssumption DEF MoSlot, Sending
<1>2. CpAck(s.ti) \in Messages /\ RelReq(s.ti) \in Messages
  BY <1>1, MoMessages, NumberTypes
<1>3. /\ u \in Slots /\ u.inst = "MO" /\ u.cp = "ESTABLISHED" /\ u.rl = "WAIT_FOR_ACK"
      /\ u.tl = "SEND" /\ u.est = s.est /\ u.r_flag = FALSE /\ u.ti = s.ti
      /\ u.timer_ti = s.timer_ti /\ u.tp_mr = s.tp_mr /\ u.data_req = s.data_req
      /\ u.cp_ack_pending = TRUE /\ u.out = <<>> /\ u.up = <<>>
  BY <1>1 DEF Slots
<1>4. r = rl_data_ind(u, d)
  BY DEF PassToRl
<1> HIDE DEF u, r
<1>5. r = rl_data_ind_wait_for_ack(u, d)
  BY <1>3, <1>4 DEF rl_data_ind
<1>6. /\ a \in Slots /\ a.inst = "MO" /\ a.cp = "ESTABLISHED" /\ a.rl = "IDLE"
      /\ a.tl = "SEND" /\ a.est = s.est /\ a.r_flag = FALSE /\ a.ti = s.ti
      /\ a.timer_ti = s.timer_ti /\ a.tp_mr = s.tp_mr
      /\ a.cp_ack_pending = TRUE /\ a.out = <<>> /\ a.up = <<>>
  BY <1>3 DEF Slots, Answered
<1> HIDE DEF a
<1>7. ASSUME NEW cause
      PROVE  LET q == tl_report_ind(a, cause) IN
             /\ Leaves(s, q) /\ q.out = <<CpAck(s.ti), RelReq(s.ti)>>
             /\ ~Failed(q) => cause \in {"ok", "RP_DUPLICATE"}
             /\ Idle(q)
  <2> DEFINE q == tl_report_ind(a, cause)
  <2>1. a.cp \in {"IDLE", "ESTABLISHED"} /\ a.tl \in {"ESTABLISH", "SEND"} /\ a.ti \in MoTis
    BY <1>1, <1>6
  <2>2. /\ Kin(a, q) /\ Idle(q)
        /\ q.out = IF a.cp = "IDLE" THEN a.out ELSE Append(Owed(a), RelReq(a.ti))
        /\ \E v \in {"submit_ok", "submit_failed"} :
             /\ q.up = Append(a.up, v)
             /\ v = "submit_ok" => cause \in {"ok", "RP_DUPLICATE"}
    BY <1>6, <2>1, ReportMo
  <2> HIDE DEF q
  <2>3. q.out = <<CpAck(s.ti), RelReq(s.ti)>>
    <3>1. Owed(a) = <<CpAck(s.ti)>>
      BY <1>6 DEF Owed
    <3>2. q.out = Append(Owed(a), RelReq(s.ti))
      BY <1>6, <2>2
    <3> QED BY <1>2, <3>1, <3>2, Pairs
  <2>4. PICK v \in {"submit_ok", "submit_failed"} :
             /\ q.up = <<v>>
             /\ v = "submit_ok" => cause \in {"ok", "RP_DUPLICATE"}
    BY <1>6, <2>2
  <2>5. Kin(s, q)
    BY <1>1, <1>6, <2>2 DEF Kin
  <2>6. Leaves(s, q) /\ (~Failed(q) => cause \in {"ok", "RP_DUPLICATE"})
    BY <2>2, <2>4, <2>5 DEF Leaves, Failed
  <2> QED BY <2>2, <2>3, <2>6 DEF q
<1>8. CASE d.rp = "RP_ACK"
  <2> DEFINE q == tl_report_ind(a, "ok")
  <2>1. r = AcknowledgedBy(q)
    BY <1>5, <1>8 DEF rl_data_ind_wait_for_ack, a
  <2>2. Leaves(s, q) /\ q.out = <<CpAck(s.ti), RelReq(s.ti)>> /\ Idle(q)
    BY <1>7
  <2> HIDE DEF q
  <2>3. q \in Slots /\ q.cp = "IDLE" /\ q.tl = "IDLE"
    BY <2>2 DEF Leaves, Kin, Idle
  <2>4. Kin(s, r) /\ Idle(r) /\ r.out = q.out /\ r.up = q.up
    BY <2>1, <2>2, <2>3, DataTypes DEF AcknowledgedBy, Slots, Leaves, Kin, Idle
  <2>5. ~Resending(q)
    BY <2>3 DEF Resending
  <2> QED BY <1>8, <2>2, <2>4, <2>5 DEF Leaves, Confirms, r
<1>9. CASE d.rp = "RP_TEMPORARY" /\ MayRepeat(u)
  <2>1. r = cp_release_req(b, b.ti)
    BY <1>3, <1>5, <1>9 DEF rl_data_ind_wait_for_ack, Slots
  <2>2. /\ b \in Slots /\ b.inst = "MO" /\ b.cp = "ESTABLISHED" /\ b.rl = "WAIT_FOR_ACK"
        /\ b.tl = "SEND" /\ b.est = s.est /\ b.r_flag = FALSE /\ b.ti = s.ti
        /\ b.timer_ti = s.timer_ti /\ b.tp_mr = s.tp_mr /\ b.data_req = s.data_req
        /\ b.cp_ack_pending = TRUE /\ b.out = <<>> /\ b.up = <<>>
    BY <1>3 DEF Slots
  <2> HIDE DEF b
  <2>3. /\ Kin(b, r) /\ r.cp = "IDLE" /\ r.rl = b.rl /\ r.tl = b.tl
        /\ r.data_req = b.data_req
        /\ r.out = Append(Owed(b), RelReq(b.ti)) /\ r.up = b.up
    BY <1>1, <2>1, <2>2, CloseMo
  <2>4. Owed(b) = <<CpAck(s.ti)>>
    BY <2>2 DEF Owed
  <2>5. r.out = <<CpAck(s.ti), RelReq(s.ti)>> /\ r.up = <<>>
    <3>1. r.out = Append(<<CpAck(s.ti)>>, RelReq(s.ti)) /\ r.up = <<>>
      BY <2>2, <2>3, <2>4
    <3> QED BY <1>2, <3>1, Pairs
  <2>6. Kin(s, r) /\ Resending(r)
    BY <1>1, <2>2, <2>3 DEF Kin, Resending
  <2> QED BY <2>5, <2>6 DEF Leaves, Failed, r
<1>10. CASE d.rp # "RP_ACK" /\ ~(d.rp = "RP_TEMPORARY" /\ MayRepeat(u))
  <2>1. r = tl_report_ind(a, d.rp)
    BY <1>5, <1>10 DEF rl_data_ind_wait_for_ack, RpAnswers, a
  <2> QED BY <1>7, <1>10, <2>1 DEF Confirms, RpAnswers, r
<1> QED BY <1>8, <1>9, <1>10

\* What the network sends to a submission.
Downlinks(d) ==
  \/ d.cp \in {"CP_ACK", "CP_ERROR"} /\ d.rp # "RP_FAULTY"
  \/ d.cp = "CP_DATA" /\ d.rp \in RpAnswers

\* How a connection ends from this side, after a CP-ACK or a CP-ERROR or nothing.
Endings(t) == {<<RelReq(t)>>, <<CpError(t), RelReq(t)>>, <<CpAck(t), RelReq(t)>>}

LEMMA DataMo ==
  ASSUME NEW s, Blank(s), NEW t, NEW d, Downlinks(d)
  PROVE  LET r == for_mmsms_data_ind(s, t, d) IN
         /\ ~Connected(s) => r = s
         /\ Connected(s) =>
              /\ MoSlot(r) /\ Kin(s, r)
              /\ \/ /\ Sending(r) /\ r.data_req = s.data_req
                    /\ r.out = <<>> /\ r.up = <<>>
                 \/ /\ Leaves(s, r) /\ r.out \in Endings(s.ti)
                    /\ ~Failed(r) => d.cp = "CP_DATA" /\ d.rp \in Confirms
<1> DEFINE r == for_mmsms_data_ind(s, t, d)
<1>1. /\ s \in Slots /\ s.inst = "MO" /\ s.r_flag = FALSE /\ s.ti \in MoTis
      /\ s.out = <<>> /\ s.up = <<>> /\ MoSlot(s) /\ s.out \in Seq(Messages)
  BY SlotTypes DEF Blank, MoSlot
<1>2. /\ d.cp = "CP_ACK" => r = cp_data_ind_cp_ack(s)
      /\ d.cp = "CP_ERROR" => r = cp_data_ind_cp_error(s)
      /\ d.cp = "CP_DATA" => r = cp_data_ind_cp_data(s, d)
  <2>1. r = NextMessage(s, t, d)
    BY <1>1 DEF for_mmsms_data_ind, csf_get_sms_instance
  <2>2. ~Undecodable(d) /\ d.rp # "RP_FAULTY"
    BY DEF Undecodable, Downlinks, RpAnswers
  <2> HIDE DEF r
  <2> QED BY <2>1, <2>2 DEF NextMessage
<1>3. d.cp \in {"CP_ACK", "CP_ERROR", "CP_DATA"}
  BY DEF Downlinks
<1> HIDE DEF r
<1>4. CASE ~Connected(s)
  <2>1. s.cp # "WAIT_FOR_ACK" /\ s.cp # "ESTABLISHED"
    BY <1>4 DEF Connected
  <2>2. r = s
    BY <1>2, <1>3, <1>4, <2>1 DEF cp_data_ind_cp_ack, cp_data_ind_cp_error, cp_data_ind_cp_data
  <2> QED BY <1>4, <2>2 DEF r
<1>5. CASE Connected(s)
  <2> DEFINE e == cp_build_cp_error(s)
             w == [s EXCEPT !.cp = "ESTABLISHED", !.tc1m = FALSE]
             x == StopTC1M(s)
  <2>1. Sending(s) /\ s.cp_ack_pending = FALSE /\ s.cp \in {"ESTABLISHED", "WAIT_FOR_ACK"}
    BY <1>1, <1>5 DEF MoSlot, Idle, Asking, Waiting, Stuck, Sending, Resending, Connected
  <2>2. CpError(s.ti) \in Messages /\ RelReq(s.ti) \in Messages
    BY <1>1, MoMessages, NumberTypes
  <2>3. Alike(s, e) /\ e.out = <<CpError(s.ti)>> /\ e.up = <<>>
    <3>1. e = Send(s, CpError(s.ti))
      BY <2>1, CpRequests DEF AckPending
    <3> QED BY <1>1, <2>2, <3>1, SendAlike
  <2>4. Alike(s, x) /\ x.out = <<>> /\ x.up = <<>>
    BY <1>1 DEF StopTC1M, Alike, Slots
  <2>5. LET q == cp_send_err_ind_msg_not_comp(s) IN
        Leaves(s, q) /\ Failed(q) /\ q.out \in Endings(s.ti)
    <3>1. cp_send_err_ind_msg_not_comp(s) = rl_error_ind(Release(e), "other")
      BY DEF cp_send_err_ind_msg_not_comp
    <3> DEFINE q == rl_error_ind(Release(e), "other")
    <3> HIDE DEF e
    <3>2. Leaves(s, q) /\ Failed(q) /\ q.out = Append(e.out, RelReq(s.ti))
      BY <1>1, <2>1, <2>3, ReleaseMo
    <3>3. q.out = <<CpError(s.ti), RelReq(s.ti)>>
      BY <2>2, <2>3, <3>2, Pairs
    <3> QED BY <3>1, <3>2, <3>3 DEF Endings
  <2>6. LET q == cp_send_err_ind_errcs(x) IN
        Leaves(s, q) /\ Failed(q) /\ q.out \in Endings(s.ti)
    <3> DEFINE q == rl_error_ind(Release(x), "other")
    <3> HIDE DEF x
    <3>1. cp_send_err_ind_errcs(x) = q
      BY DEF cp_send_err_ind_errcs
    <3>2. Leaves(s, q) /\ Failed(q) /\ q.out = Append(x.out, RelReq(s.ti))
      BY <1>1, <2>1, <2>4, ReleaseMo
    <3>3. q.out = <<RelReq(s.ti)>>
      BY <2>4, <3>2
    <3> QED BY <3>1, <3>2, <3>3 DEF Endings
  <2>7. /\ w \in Slots /\ w.inst = "MO" /\ w.cp = "ESTABLISHED" /\ w.rl = s.rl /\ w.tl = s.tl
        /\ w.est = s.est /\ w.r_flag = FALSE /\ w.ti = s.ti /\ w.timer_ti = s.timer_ti
        /\ w.tp_mr = s.tp_mr /\ w.data_req = s.data_req /\ w.cp_ack_pending = FALSE
        /\ w.out = <<>> /\ w.up = <<>>
    BY <1>1, <2>1 DEF Slots
  <2> HIDE DEF e, w, x
  <2>8. Sending(w) /\ Kin(s, w) /\ MoSlot(w)
    <3>1. Sending(w)
      BY <2>1, <2>7 DEF Sending, Connected
    <3>2. Kin(s, w)
      BY <1>1, <2>7 DEF Kin
    <3> QED BY <1>1, <2>7, <3>1, <3>2 DEF MoSlot
  <2>9. /\ s.cp = "WAIT_FOR_ACK" => cp_data_ind_cp_ack(s) = w
        /\ s.cp = "ESTABLISHED" => cp_data_ind_cp_ack(s) = cp_send_err_ind_msg_not_comp(s)
    <3>1. ~s.r_flag
      BY <1>1
    <3>2. CASE s.cp = "WAIT_FOR_ACK"
      BY <3>1, <3>2 DEF cp_data_ind_cp_ack, w, Connected
    <3>3. CASE s.cp = "ESTABLISHED"
      BY <3>3 DEF cp_data_ind_cp_ack, Connected
    <3> QED BY <2>1, <3>2, <3>3
  <2>10. ASSUME Leaves(s, r), r.out \in Endings(s.ti),
                ~Failed(r) => d.cp = "CP_DATA" /\ d.rp \in Confirms
         PROVE  /\ MoSlot(r) /\ Kin(s, r)
                /\ Leaves(s, r) /\ r.out \in Endings(s.ti)
                /\ ~Failed(r) => d.cp = "CP_DATA" /\ d.rp \in Confirms
    <3>1. MoSlot(r)
      BY <1>1, <2>10, LeavesMo
    <3>2. Kin(s, r)
      BY <2>10 DEF Leaves
    <3> QED BY <2>10, <3>1, <3>2
  <2>11. CASE d.cp = "CP_ACK"
    <3>1. CASE s.cp = "WAIT_FOR_ACK"
      BY <1>2, <1>5, <2>7, <2>8, <2>9, <2>11, <3>1 DEF r
    <3>2. CASE s.cp = "ESTABLISHED"
      <4>1. Leaves(s, r) /\ Failed(r) /\ r.out \in Endings(s.ti)
        BY <1>2, <2>5, <2>9, <2>11, <3>2
      <4> QED BY <1>5, <2>10, <4>1 DEF r
    <3> QED BY <2>1, <3>1, <3>2
  <2>12. CASE d.cp = "CP_ERROR"
    <3>1. r = cp_send_err_ind_errcs(x)
      BY <1>2, <1>5, <2>12 DEF cp_data_ind_cp_error, x
    <3>2. Leaves(s, r) /\ Failed(r) /\ r.out \in Endings(s.ti)
      BY <2>6, <3>1
    <3> QED BY <1>5, <2>10, <3>2 DEF r
  <2>13. CASE d.cp = "CP_DATA"
    <3>1. d.rp \in RpAnswers
      BY <2>13 DEF Downlinks
    <3>2. PICK v \in {s, w} : /\ r = PassToRl(v, d) /\ v.cp = "ESTABLISHED" /\ Sending(v)
                              /\ MoSlot(v) /\ v.out = <<>> /\ v.up = <<>> /\ Kin(s, v)
      <4>1. Kin(s, s)
        BY <1>1 DEF Kin
      <4>2. CASE s.cp = "WAIT_FOR_ACK"
        <5>1. r = cp_data_ind_cp_data(s, d) /\ ~s.r_flag
          BY <1>1, <1>2, <2>13
        <5>2. r = PassToRl(cp_data_ind_cp_ack(s), d)
          BY <4>2, <5>1 DEF cp_data_ind_cp_data, Connected
        <5> QED BY <2>7, <2>8, <2>9, <4>2, <5>2
      <4>3. CASE s.cp = "ESTABLISHED"
        <5>1. r = PassToRl(s, d)
          BY <1>2, <2>13, <4>3 DEF cp_data_ind_cp_data, Connected
        <5> QED BY <1>1, <2>1, <4>1, <4>3, <5>1
      <4> QED BY <2>1, <4>2, <4>3
    <3>3. /\ Leaves(v, r) /\ r.out = <<CpAck(v.ti), RelReq(v.ti)>>
          /\ ~Failed(r) => d.rp \in Confirms
      BY <3>1, <3>2, AnswerMo
    <3>4. Leaves(s, r) /\ r.out \in Endings(s.ti)
      BY <3>2, <3>3 DEF Leaves, Kin, Endings
    <3> QED BY <1>5, <2>10, <2>13, <3>3, <3>4 DEF r
  <2> QED BY <1>3, <2>11, <2>12, <2>13
<1> QED BY <1>4, <1>5

\* The request for a connection is refused: the user is told, or it is made again.
Refused(s, r, t) ==
  /\ MoSlot(r) /\ r.ti = t /\ r.timer_ti = s.timer_ti /\ r.tp_mr = s.tp_mr /\ r.est = s.est
  /\ \/ Waiting(r) /\ r.up = <<>> /\ r.sdu = s.sdu
     \/ Idle(r) /\ r.up = <<"submit_failed">>

\* The connection t is lost or released while the slot s asks for one or sends.
LEMMA GoneMo ==
  ASSUME NEW s, MoSlot(s), s.up = <<>>, Asking(s) \/ Sending(s), NEW t \in MoTis,
         NEW w \in Slots, w.inst = "MO", w.cp = "IDLE", w.r_flag = FALSE,
         w.rl = s.rl, w.tl = s.tl, w.est = s.est, w.timer_ti = s.timer_ti, w.tp_mr = s.tp_mr,
         w.data_req = s.data_req, w.sdu = s.sdu, w.up = <<>>,
         w.ti \in {s.ti, t}, Asking(s) => w.ti = t,
         NEW cause \in Causes
  PROVE  LET r == rl_error_ind(w, cause) IN
         /\ MoSlot(r) /\ r.out = w.out /\ Failed(r)
         /\ Asking(s) => Refused(s, r, t)
         /\ Sending(s) /\ t = s.ti => Leaves(s, r)
<1> DEFINE r == rl_error_ind(w, cause)
<1>1. /\ s.inst = "MO" /\ s.ti \in MoTis /\ s.timer_ti \in MoTis /\ w.ti \in MoTis
      /\ cause \in {"norm", "other", "timeout"}
  BY DEF MoSlot, Causes
<1>2. Ended(w, r) /\ r.out = w.out
  <2>1. \/ w.rl = "ESTABLISH" /\ w.tl = "ESTABLISH"
        \/ w.rl = "WAIT_FOR_ACK" /\ w.tl = "SEND"
    BY DEF Asking, Sending
  <2> QED BY <1>1, <2>1, ErrorMo
<1> HIDE DEF r
<1>3. CASE Asking(s)
  <2>1. ~Sending(s)
    BY <1>3 DEF Asking, Sending
  <2>2. CASE Alike(w, r) /\ r.up = w.up /\ r.sdu = w.sdu
    <3>1. Waiting(r) /\ MoSlot(r)
      BY <1>1, <1>3, <2>2 DEF Alike, Asking, Waiting, Keeps, MoSlot
    <3>2. Refused(s, r, t) /\ Failed(r)
      BY <1>3, <2>2, <3>1 DEF Alike, Refused, Failed
    <3> QED BY <1>2, <2>1, <3>1, <3>2 DEF r
  <2>3. CASE Kin(w, r) /\ Idle(r) /\ r.up = Append(w.up, "submit_failed")
    <3>1. r.up = <<"submit_failed">>
      BY <2>3
    <3>2. MoSlot(r)
      BY <1>1, <2>3 DEF Kin, MoSlot
    <3>3. Refused(s, r, t) /\ Failed(r)
      BY <1>3, <2>3, <3>1, <3>2 DEF Kin, Refused, Failed
    <3> QED BY <1>2, <2>1, <3>2, <3>3 DEF r
  <2> QED BY <1>2, <2>2, <2>3 DEF Ended
<1>4. CASE Sending(s)
  <2>1. ~Asking(s) /\ w.rl = "WAIT_FOR_ACK" /\ w.tl = "SEND" /\ w.data_req # None
    BY <1>4, NoneAssumption DEF Asking, Sending
  <2>2. Leaves(w, r) /\ Failed(r)
    BY <1>2, <2>1, EndedLeaves
  <2>3. MoSlot(r)
    BY <1>1, <2>2 DEF Leaves, Kin, MoSlot
  <2>4. t = s.ti => Leaves(s, r)
    BY <1>1, <2>2 DEF Leaves, Kin
  <2> QED BY <1>2, <2>1, <2>2, <2>3, <2>4 DEF r
<1> QED BY <1>3, <1>4

LEMMA LossMo ==
  ASSUME NEW s, Blank(s), NEW t \in MoTis, NEW cause \in Causes
  PROVE  LET e == cp_mmsms_error_ind(s, t, cause)
             r == cp_mmsms_release_ind(s, t, cause) IN
         /\ e.out = <<RelReq(t)>> /\ MoSlot(e) /\ Failed(e)
         /\ r.out = <<>> /\ MoSlot(r) /\ Failed(r)
         /\ s.cp = "IDLE" => Alike(s, e) /\ e.up = <<>> /\ Alike(s, r) /\ r.up = <<>>
         /\ Asking(s) => Refused(s, e, t) /\ Refused(s, r, t)
         /\ Sending(s) /\ t = s.ti => Leaves(s, e) /\ Leaves(s, r)
<1> DEFINE v == Send(s, RelReq(t))
           e == cp_mmsms_error_ind(s, t, cause)
           r == cp_mmsms_release_ind(s, t, cause)
<1>1. /\ s \in Slots /\ s.inst = "MO" /\ s.r_flag = FALSE /\ s.ti \in MoTis
      /\ s.out = <<>> /\ s.up = <<>> /\ MoSlot(s) /\ s.out \in Seq(Messages)
      /\ s.cp \in {"IDLE", "PENDING", "ESTABLISHED", "WAIT_FOR_ACK"} /\ s.retx \in Retx
  BY SlotTypes DEF Blank, MoSlot, Slots
<1>2. RelReq(t) \in Messages /\ t \in Tis /\ 0 \in Retx
  BY MoMessages, MoTiTypes, NumberTypes
<1>3. /\ Alike(s, v) /\ v.out = <<RelReq(t)>> /\ v.up = <<>> /\ v.sdu = s.sdu
  BY <1>1, <1>2, SendAlike
<1>4. cp_send_release_req(s, t) = v
  BY CpRequests
<1>5. csf_get_sms_instance(s, t)
  BY <1>1 DEF csf_get_sms_instance
<1> HIDE DEF v
<1>6. CASE s.cp = "IDLE"
  <2>1. e = csf_free_sms_instance(v, t) /\ r = csf_free_sms_instance(s, t)
    BY <1>4, <1>5, <1>6 DEF cp_mmsms_error_ind, cp_mmsms_release_ind
  <2> HIDE DEF e, r
  <2>2. v \in Slots /\ v.ti \in MoTis
    BY <1>1, <1>3 DEF Alike
  <2>3. Alike(v, e) /\ e.out = v.out /\ e.up = v.up
    BY <2>1, <2>2, FreeAlike
  <2>4. Alike(s, r) /\ r.out = s.out /\ r.up = s.up
    BY <1>1, <2>1, FreeAlike
  <2>5. Alike(s, e)
    BY <1>3, <2>3 DEF Alike
  <2>6. ~Asking(s) /\ ~Sending(s)
    BY <1>6 DEF Asking, Sending, Connected
  <2>7. MoSlot(e) /\ MoSlot(r)
    BY <1>1, <2>4, <2>5, AlikeMo
  <2> QED BY <1>1, <1>3, <1>6, <2>3, <2>4, <2>5, <2>6, <2>7 DEF Failed, e, r
<1>7. CASE s.cp # "IDLE"
  <2>1. Asking(s) \/ Sending(s)
    BY <1>1, <1>7 DEF MoSlot, Idle, Asking, Waiting, Stuck, Sending, Resending
  <2>2. /\ v \in Slots /\ v.inst = "MO" /\ v.cp = s.cp /\ v.rl = s.rl /\ v.tl = s.tl
        /\ v.est = s.est /\ v.r_flag = FALSE /\ v.ti = s.ti /\ v.timer_ti = s.timer_ti
        /\ v.tp_mr = s.tp_mr /\ v.data_req = s.data_req
    BY <1>1, <1>3 DEF Alike
  <2>3. ASSUME NEW y \in Slots, y.inst = "MO", y.cp = s.cp, y.rl = s.rl, y.tl = s.tl,
               y.est = s.est, y.r_flag = FALSE, y.ti = s.ti, y.timer_ti = s.timer_ti,
               y.tp_mr = s.tp_mr, y.data_req = s.data_req, y.sdu = s.sdu, y.up = <<>>,
               NEW w \in {ErrorAt(y, t), ReleaseAt(y, t)}
        PROVE  LET q == rl_error_ind(w, cause) IN
               /\ MoSlot(q) /\ q.out = y.out /\ Failed(q)
               /\ Asking(s) => Refused(s, q, t)
               /\ Sending(s) /\ t = s.ti => Leaves(s, q)
    <3> DEFINE x == Lost(y)
    <3>1. /\ x \in Slots /\ x.inst = "MO" /\ x.cp = "IDLE" /\ x.rl = s.rl /\ x.tl = s.tl
          /\ x.est = s.est /\ x.r_flag = FALSE /\ x.ti = s.ti /\ x.timer_ti = s.timer_ti
          /\ x.tp_mr = s.tp_mr /\ x.data_req = s.data_req /\ x.sdu = s.sdu /\ x.up = <<>>
          /\ x.out = y.out
      <4> DEFINE z == StopTC1M(y)
      <4>1. /\ z \in Slots /\ z.inst = "MO" /\ z.cp = s.cp /\ z.rl = s.rl /\ z.tl = s.tl
            /\ z.est = s.est /\ z.r_flag = FALSE /\ z.ti = s.ti /\ z.timer_ti = s.timer_ti
            /\ z.tp_mr = s.tp_mr /\ z.data_req = s.data_req /\ z.sdu = s.sdu /\ z.up = <<>>
            /\ z.out = y.out
        BY <2>3 DEF StopTC1M, Slots
      <4> HIDE DEF z
      <4> DEFINE n == IF y.cp = "WAIT_FOR_ACK" THEN 0 ELSE z.retx
      <4>2. x = [z EXCEPT !.cp = "IDLE", !.retx = n]
        BY DEF Lost, z
      <4>3. n \in Retx
        BY <1>2, <4>1 DEF Slots
      <4> HIDE DEF n, x
      <4> QED BY <4>1, <4>2, <4>3 DEF Slots
    <3> HIDE DEF x
    <3>2. \E k \in {s.ti, t} : /\ w = [x EXCEPT !.ti = k, !.r_flag = FALSE]
                               /\ s.cp = "PENDING" => k = t
      <4> DEFINE k == IF y.cp \in {"PENDING", "WAIT_FOR_ACK"} THEN t ELSE x.ti
                 b == x.r_flag /\ y.cp \notin {"PENDING", "WAIT_FOR_ACK"}
                 n == IF y.cp = "PENDING" THEN t ELSE x.ti
      <4>1. /\ ErrorAt(y, t) = [x EXCEPT !.ti = k, !.r_flag = b]
            /\ ReleaseAt(y, t) = [x EXCEPT !.ti = n, !.r_flag = FALSE]
        BY DEF ErrorAt, ReleaseAt, x
      <4>2. /\ b = FALSE /\ k \in {s.ti, t} /\ n \in {s.ti, t}
            /\ s.cp = "PENDING" => k = t /\ n = t
        BY <2>3, <3>1
      <4> HIDE DEF k, b, n
      <4> QED BY <2>3, <4>1, <4>2
    <3>3. /\ w \in Slots /\ w.inst = "MO" /\ w.cp = "IDLE" /\ w.r_flag = FALSE
          /\ w.rl = s.rl /\ w.tl = s.tl /\ w.est = s.est /\ w.timer_ti = s.timer_ti
          /\ w.tp_mr = s.tp_mr /\ w.data_req = s.data_req /\ w.sdu = s.sdu /\ w.up = <<>>
          /\ w.ti \in {s.ti, t} /\ (s.cp = "PENDING" => w.ti = t) /\ w.out = y.out
      <4>1. PICK k \in {s.ti, t} : /\ w = [x EXCEPT !.ti = k, !.r_flag = FALSE]
                                   /\ s.cp = "PENDING" => k = t
        BY <3>2
      <4>2. k \in Tis
        BY <1>1, <1>2, MoTiTypes
      <4> QED BY <3>1, <4>1, <4>2 DEF Slots
    <3>4. Asking(s) => w.ti = t
      BY <3>3 DEF Asking
    <3> QED BY <1>1, <2>1, <3>3, <3>4, GoneMo, ZenonT(40)
  <2>4. /\ e = rl_error_ind(ErrorAt(v, t), cause)
        /\ r = rl_error_ind(ReleaseAt(s, t), cause)
    BY <1>4, <1>5, <1>7 DEF cp_mmsms_error_ind, cp_mmsms_release_ind
  <2> HIDE DEF e, r
  <2>5. /\ MoSlot(e) /\ e.out = v.out /\ Failed(e)
        /\ Asking(s) => Refused(s, e, t)
        /\ Sending(s) /\ t = s.ti => Leaves(s, e)
    BY <1>3, <2>2, <2>3, <2>4
  <2>6. /\ MoSlot(r) /\ r.out = s.out /\ Failed(r)
        /\ Asking(s) => Refused(s, r, t)
        /\ Sending(s) /\ t = s.ti => Leaves(s, r)
    BY <1>1, <2>3, <2>4
  <2> QED BY <1>1, <1>3, <1>7, <2>5, <2>6 DEF e, r
<1> QED BY <1>6, <1>7

-----------------------------------------------------------------------------
(* The timers *)

\* TC1M: the CP-DATA is repeated, or CP gives the connection up.
LEMMA TC1MMo ==
  ASSUME NEW s, Blank(s)
  PROVE  LET r == tim_tc1m(s) IN
         /\ s.cp # "WAIT_FOR_ACK" => r = s
         /\ s.cp = "WAIT_FOR_ACK" =>
              /\ MoSlot(r) /\ Sending(s)
              /\ \/ Alike(s, r) /\ r.out = <<s.data_req>> /\ r.up = <<>>
                 \/ Leaves(s, r) /\ Failed(r) /\ r.out = <<RelReq(s.ti)>>
<1> DEFINE n == s.retx + 1
           u == [s EXCEPT !.retx = n, !.tc1m = TRUE]
           r == tim_tc1m(s)
<1>1. /\ s \in Slots /\ s.ti \in MoTis /\ s.out = <<>> /\ s.up = <<>> /\ MoSlot(s)
      /\ s.retx \in Retx /\ s.out \in Seq(Messages)
  BY SlotTypes DEF Blank, MoSlot
<1>2. CASE s.cp # "WAIT_FOR_ACK"
  BY <1>2 DEF tim_tc1m
<1>3. CASE s.cp = "WAIT_FOR_ACK"
  <2>1. Sending(s) /\ s.data_req \in Messages
    BY <1>1, <1>3 DEF MoSlot, Idle, Asking, Waiting, Stuck, Sending, Resending, Connected
  <2>2. CASE s.retx >= MAX_RETRANS
    <3>1. r = rl_error_ind(Release(s), "timeout")
      <4>1. ~(s.retx < MAX_RETRANS)
        BY <1>1, <2>2, CountsAssumption DEF Retx
      <4> QED BY <1>3, <2>2, <4>1 DEF tim_tc1m
    <3>2. Alike(s, s)
      BY <1>1 DEF Alike
    <3>3. Leaves(s, r) /\ Failed(r) /\ r.out = Append(s.out, RelReq(s.ti))
      BY <1>1, <2>1, <3>1, <3>2, ReleaseMo
    <3>4. r.out = <<RelReq(s.ti)>>
      BY <1>1, <3>3
    <3>5. MoSlot(r)
      BY <1>1, <3>3, LeavesMo
    <3> QED BY <1>3, <2>1, <3>3, <3>4, <3>5 DEF r
  <2>3. CASE ~(s.retx >= MAX_RETRANS)
    <3>1. n \in Retx /\ s.retx < MAX_RETRANS
      BY <1>1, <2>3, NumberTypes, CountsAssumption DEF Retx
    <3>2. r = Send(u, s.data_req)
      BY <1>3, <3>1 DEF tim_tc1m, Repeat
    <3> HIDE DEF n, r
    <3>3. Alike(s, u) /\ u.out = <<>> /\ u.up = <<>>
      BY <1>1, <3>1 DEF Alike, Slots
    <3> HIDE DEF u
    <3>4. u \in Slots
      BY <3>3 DEF Alike
    <3>5. Alike(u, r) /\ r.out = Append(u.out, s.data_req) /\ r.up = u.up
      BY <2>1, <3>2, <3>4, SendAlike
    <3>6. Alike(s, r) /\ r.out = <<s.data_req>> /\ r.up = <<>>
      BY <3>3, <3>5 DEF Alike
    <3>7. MoSlot(r)
      BY <1>1, <3>6, AlikeMo
    <3> QED BY <1>3, <2>1, <3>6, <3>7 DEF r
  <2> QED BY <2>2, <2>3
<1> QED BY <1>2, <1>3

\* TL asks for the next transaction, or gives the submission up, or waits for
\* nothing (a repetition whose connection never came).
Retries(s, r, b) ==
  /\ MoSlot(r) /\ r.tp_mr = s.tp_mr
  /\ \/ Stuck(r) /\ r.timer_ti = s.timer_ti /\ r.out = b /\ r.up = <<>>
     \/ /\ Asking(r) /\ r.timer_ti = NextTi(r) /\ r.out = Append(b, EstReq(NextTi(r)))
        /\ r.up = <<>>
        /\ r.est = "SEND" => s.tl = "ESTABLISH" /\ s.est = "SEND" /\ r.sdu = s.sdu
     \/ Idle(r) /\ r.timer_ti = s.timer_ti /\ r.out = b /\ r.up = <<"submit_failed">>

\* TL's timeout, when CP and RL have given the connection up.
LEMMA RetryMo ==
  ASSUME NEW w \in Slots, w.inst = "MO", w.cp = "IDLE", w.rl = "IDLE", w.r_flag = FALSE,
         w.ti \in MoTis, w.timer_ti \in MoTis, w.up = <<>>,
         \/ w.tl = "ESTABLISH" /\ Keeps(w)
         \/ w.tl = "SEND" /\ w.data_req # None
  PROVE  LET r == tl_timeout_ind(w) IN
         Retries(w, r, w.out) /\ r.ti = w.ti
<1> DEFINE r == tl_timeout_ind(w)
           n == w.tl_retx + 1
<1>1. w.est \in {"SEND", "RTX"}
  BY DEF Slots
<1>2. CASE w.tl = "ESTABLISH" /\ w.est = "RTX"
  <2>1. r = w
    <3>1. ~FirstTime(w)
      BY <1>2 DEF FirstTime
    <3> QED BY <1>2, <3>1 DEF tl_timeout_ind
  <2>2. Stuck(w)
    BY <1>2 DEF Stuck
  <2>3. MoSlot(w)
    BY <2>2 DEF MoSlot
  <2> QED BY <2>1, <2>2, <2>3 DEF Retries
<1>3. CASE FirstTime(w) /\ MayRepeat(w)
  <2> DEFINE u == [w EXCEPT !.tl_retx = n]
  <2>1. r = tl_establish_connection(u)
    BY <1>3 DEF tl_timeout_ind, FirstTime
  <2>2. n \in TlRetx
    BY <1>3, NumberTypes DEF MayRepeat, Slots
  <2> HIDE DEF n, r
  <2>3. /\ u \in Slots /\ u.inst = "MO" /\ u.cp = "IDLE" /\ u.rl = "IDLE" /\ u.r_flag = FALSE
        /\ u.ti = w.ti /\ u.timer_ti = w.timer_ti /\ u.up = <<>> /\ u.out = w.out
        /\ u.tl = "ESTABLISH" /\ u.est = "SEND" /\ u.tp_mr = w.tp_mr /\ u.sdu = w.sdu
    BY <1>3, <2>2 DEF FirstTime, Slots
  <2> HIDE DEF u
  <2>4. Begins(u, r)
    BY <2>1, <2>3, EstablishMo
  <2>5. NextTi(u) = NextTi(r) /\ NextTi(u) \in MoTis
    BY <2>3, <2>4, MoTiTypes DEF NextTi, Begins
  <2>6. Asking(r)
    BY <2>3, <2>4 DEF Begins, Asking, Keeps
  <2>7. MoSlot(r)
    BY <2>3, <2>4, <2>5, <2>6 DEF Begins, MoSlot
  <2> QED BY <1>3, <2>3, <2>4, <2>5, <2>6, <2>7 DEF Begins, Retries, FirstTime, r
<1>4. CASE w.tl = "SEND" /\ MayRepeat(w)
  <2> DEFINE u == [w EXCEPT !.tl_retx = n, !.tl = "ESTABLISH", !.est = "RTX"]
  <2>1. r = tl_establish_connection(u)
    BY <1>4 DEF tl_timeout_ind, FirstTime
  <2>2. n \in TlRetx
    BY <1>4, NumberTypes DEF MayRepeat, Slots
  <2> HIDE DEF n, r
  <2>3. /\ u \in Slots /\ u.inst = "MO" /\ u.cp = "IDLE" /\ u.rl = "IDLE" /\ u.r_flag = FALSE
        /\ u.ti = w.ti /\ u.timer_ti = w.timer_ti /\ u.up = <<>> /\ u.out = w.out
        /\ u.tl = "ESTABLISH" /\ u.est = "RTX" /\ u.tp_mr = w.tp_mr /\ u.data_req # None
    BY <1>4, <2>2 DEF Slots
  <2> HIDE DEF u
  <2>4. Begins(u, r)
    BY <2>1, <2>3, EstablishMo
  <2>5. NextTi(u) = NextTi(r) /\ NextTi(u) \in MoTis
    BY <2>3, <2>4, MoTiTypes DEF NextTi, Begins
  <2>6. Asking(r) /\ r.est = "RTX"
    BY <2>3, <2>4 DEF Begins, Asking, Keeps
  <2>7. MoSlot(r)
    BY <2>3, <2>4, <2>5, <2>6 DEF Begins, MoSlot
  <2> QED BY <2>3, <2>4, <2>5, <2>6, <2>7 DEF Begins, Retries, r
<1>5. CASE (FirstTime(w) \/ w.tl = "SEND") /\ ~MayRepeat(w)
  <2> DEFINE u == [w EXCEPT !.tl = "IDLE", !.sdu = FALSE]
  <2>1. r = Tell(u, "submit_failed")
    BY <1>5 DEF tl_timeout_ind, GiveUp, Closed, FirstTime
  <2> HIDE DEF r
  <2>2. /\ u \in Slots /\ u.inst = "MO" /\ u.cp = "IDLE" /\ u.rl = "IDLE" /\ u.r_flag = FALSE
        /\ u.ti = w.ti /\ u.timer_ti = w.timer_ti /\ u.up = <<>> /\ u.out = w.out
        /\ u.tl = "IDLE" /\ u.tp_mr = w.tp_mr
    BY DEF Slots
  <2> HIDE DEF u
  <2>3. Alike(u, r) /\ r.up = Append(u.up, "submit_failed") /\ r.out = u.out
    BY <2>1, <2>2, TellAlike
  <2>4. r.up = <<"submit_failed">>
    BY <2>2, <2>3
  <2>5. Idle(r)
    BY <2>2, <2>3 DEF Alike, Idle
  <2>6. MoSlot(r)
    BY <2>2, <2>3, <2>5 DEF Alike, MoSlot
  <2> QED BY <2>2, <2>3, <2>4, <2>5, <2>6 DEF Alike, Retries, r
<1> QED BY <1>1, <1>2, <1>3, <1>4, <1>5 DEF FirstTime

\* What CP sends when TR1M gives a connection up.
Abort(s) ==
  IF Asking(s) THEN <<RelReq(s.timer_ti)>>
  ELSE IF Sending(s) THEN <<CpError(s.ti), RelReq(s.ti)>>
  ELSE <<>>

Timed(s) == IF s.rl = "ESTABLISH" THEN s.timer_ti ELSE s.ti

\* TR1M: RL's wait is over; CP gives up what it has of the transaction.
LEMMA TR1MMo ==
  ASSUME NEW s, Blank(s)
  PROVE  LET r == tim_tr1m(s) IN
         /\ s.rl \notin {"ESTABLISH", "WAIT_FOR_ACK"} => r = s
         /\ s.rl \in {"ESTABLISH", "WAIT_FOR_ACK"} => Retries(s, r, Abort(s)) /\ r.ti = Timed(s)
<1> DEFINE t == Timed(s)
           u == [s EXCEPT !.rl = "IDLE", !.ti = t]
           a == Aborted(u)
           v == Send(a, RelReq(t))
           r == tim_tr1m(s)
<1>1. /\ s \in Slots /\ s.inst = "MO" /\ s.ti \in MoTis /\ s.timer_ti \in MoTis
      /\ s.r_flag = FALSE /\ s.out = <<>> /\ s.up = <<>> /\ MoSlot(s)
  BY DEF Blank, MoSlot
<1>2. CASE s.rl \notin {"ESTABLISH", "WAIT_FOR_ACK"}
  BY <1>2 DEF tim_tr1m
<1>3. CASE s.rl \in {"ESTABLISH", "WAIT_FOR_ACK"}
  <2>1. t \in MoTis /\ t \in Tis
    BY <1>1, MoTiTypes DEF Timed
  <2>2. u \in Slots /\ r = tl_timeout_ind(cp_abort_req(u))
    <3>1. u \in Slots
      BY <1>1, <2>1 DEF Slots
    <3>2. CASE s.rl = "ESTABLISH"
      BY <3>1, <3>2 DEF tim_tr1m, Timed
    <3>3. CASE s.rl = "WAIT_FOR_ACK"
      <4>1. u = [s EXCEPT !.rl = "IDLE"]
        BY <1>1, <3>3 DEF Slots, Timed
      <4>2. r = tl_timeout_ind(cp_abort_req([s EXCEPT !.rl = "IDLE"]))
        BY <3>3 DEF tim_tr1m
      <4> QED BY <3>1, <4>1, <4>2
    <3> QED BY <1>3, <3>2, <3>3
  <2>3. /\ u.inst = "MO" /\ u.cp = s.cp /\ u.rl = "IDLE" /\ u.tl = s.tl /\ u.est = s.est
        /\ u.r_flag = FALSE /\ u.ti = t /\ u.timer_ti = s.timer_ti /\ u.tp_mr = s.tp_mr
        /\ u.data_req = s.data_req /\ u.sdu = s.sdu /\ u.tl_retx = s.tl_retx
        /\ u.cp_ack_pending = s.cp_ack_pending /\ u.out = <<>> /\ u.up = <<>>
    BY <1>1 DEF Slots
  <2> HIDE DEF r, u, t
  <2>4. RelReq(t) \in Messages /\ CpError(t) \in Messages
    BY <2>1, MoMessages, NumberTypes
  <2>5. ASSUME NEW w, Alike([s EXCEPT !.rl = "IDLE", !.cp = "IDLE", !.ti = t], w),
               w.out = Abort(s), w.up = <<>>, w.sdu = s.sdu,
               \/ s.tl = "ESTABLISH" /\ Keeps(s)
               \/ s.tl = "SEND" /\ s.data_req # None,
               r = tl_timeout_ind(w)
        PROVE  Retries(s, r, Abort(s)) /\ r.ti = t
    <3> DEFINE x == [s EXCEPT !.rl = "IDLE", !.cp = "IDLE", !.ti = t]
    <3>1. /\ x.inst = "MO" /\ x.cp = "IDLE" /\ x.rl = "IDLE" /\ x.tl = s.tl /\ x.est = s.est
          /\ x.r_flag = FALSE /\ x.ti = t /\ x.timer_ti = s.timer_ti /\ x.tp_mr = s.tp_mr
          /\ x.data_req = s.data_req
      BY <1>1 DEF Slots
    <3>2. Alike(x, w)
      BY <2>5
    <3> HIDE DEF x
    <3>3. /\ w \in Slots /\ w.inst = "MO" /\ w.cp = "IDLE" /\ w.rl = "IDLE" /\ w.tl = s.tl
          /\ w.est = s.est /\ w.r_flag = FALSE /\ w.ti = t /\ w.timer_ti = s.timer_ti
          /\ w.tp_mr = s.tp_mr /\ w.data_req = s.data_req
      BY <3>1, <3>2 DEF Alike
    <3>4. \/ w.tl = "ESTABLISH" /\ Keeps(w)
          \/ w.tl = "SEND" /\ w.data_req # None
      BY <2>5, <3>3 DEF Keeps
    <3>5. Retries(w, r, w.out) /\ r.ti = w.ti
      BY <1>1, <2>1, <2>5, <3>3, <3>4, RetryMo
    <3> QED BY <2>5, <3>3, <3>5 DEF Retries
  <2>6. CASE s.cp = "IDLE"
    <3>1. ~Asking(s) /\ ~Sending(s) /\ (Waiting(s) \/ Resending(s))
      BY <1>1, <1>3, <2>6 DEF MoSlot, Idle, Asking, Waiting, Stuck, Sending, Resending, Connected
    <3>2. cp_abort_req(u) = u
      BY <2>3, <2>6 DEF cp_abort_req
    <3>3. Alike([s EXCEPT !.rl = "IDLE", !.cp = "IDLE", !.ti = t], u)
      BY <1>1, <2>2, <2>3, <2>6 DEF Alike, Slots
    <3>4. u.out = Abort(s)
      BY <2>3, <3>1 DEF Abort
    <3> QED BY <1>3, <2>2, <2>3, <2>5, <3>1, <3>2, <3>3, <3>4 DEF Waiting, Resending, r, t
  <2>7. CASE s.cp = "PENDING"
    <3>1. Asking(s) /\ t = s.timer_ti
      BY <1>1, <2>7 DEF MoSlot, Idle, Asking, Waiting, Stuck, Sending, Resending, Connected, t, Timed
    <3>2. cp_abort_req(u) = v
      <4>1. cp_abort_req(u) = cp_send_release_req(a, u.ti)
        BY <2>3, <2>7 DEF cp_abort_req
      <4> QED BY <2>3, <4>1, CpRequests
    <3>3. /\ a \in Slots /\ a.inst = "MO" /\ a.cp = "IDLE" /\ a.rl = "IDLE" /\ a.tl = s.tl
          /\ a.est = s.est /\ a.r_flag = FALSE /\ a.ti = t /\ a.timer_ti = s.timer_ti
          /\ a.tp_mr = s.tp_mr /\ a.data_req = s.data_req /\ a.sdu = s.sdu
          /\ a.tl_retx = s.tl_retx /\ a.cp_ack_pending = s.cp_ack_pending
          /\ a.out = <<>> /\ a.up = <<>>
      BY <2>2, <2>3 DEF Aborted, Slots
    <3> HIDE DEF a, v
    <3>4. Alike(a, v) /\ v.out = <<RelReq(t)>> /\ v.up = <<>> /\ v.sdu = s.sdu
      BY <2>4, <3>3, SendAlike DEF v
    <3>5. Alike([s EXCEPT !.rl = "IDLE", !.cp = "IDLE", !.ti = t], v)
      BY <1>1, <3>3, <3>4 DEF Alike, Slots
    <3>6. v.out = Abort(s)
      BY <3>1, <3>4 DEF Abort
    <3> QED BY <1>3, <2>2, <2>5, <3>1, <3>2, <3>4, <3>5, <3>6 DEF Asking, r, t
  <2>8. CASE Connected(s)
    <3> DEFINE c == Send(u, CpError(t))
               d == Aborted(c)
               e == Send(d, RelReq(t))
               f == [e EXCEPT !.tc1m = FALSE]
    <3>1. /\ Sending(s) /\ ~Asking(s) /\ s.cp_ack_pending = FALSE /\ t = s.ti
          /\ s.data_req # None
      BY <1>1, <2>8, NoneAssumption
         DEF MoSlot, Idle, Asking, Waiting, Stuck, Sending, Resending, Connected, t, Timed
    <3>2. cp_build_cp_error(u) = c
      BY <2>3, <3>1, CpRequests DEF AckPending
    <3>3. Alike(u, c) /\ c.out = <<CpError(t)>> /\ c.up = <<>> /\ c.sdu = s.sdu
      BY <2>2, <2>3, <2>4, SendAlike
    <3> HIDE DEF c
    <3>4. /\ d \in Slots /\ d.inst = "MO" /\ d.cp = "IDLE" /\ d.rl = "IDLE" /\ d.tl = s.tl
          /\ d.est = s.est /\ d.r_flag = FALSE /\ d.ti = t /\ d.timer_ti = s.timer_ti
          /\ d.tp_mr = s.tp_mr /\ d.data_req = s.data_req /\ d.sdu = s.sdu
          /\ d.tl_retx = s.tl_retx /\ d.cp_ack_pending = s.cp_ack_pending
          /\ d.out = <<CpError(t)>> /\ d.up = <<>>
      <4>1. /\ c \in Slots /\ c.inst = "MO" /\ c.rl = "IDLE" /\ c.tl = s.tl
            /\ c.est = s.est /\ c.ti = t /\ c.timer_ti = s.timer_ti
            /\ c.tp_mr = s.tp_mr /\ c.data_req = s.data_req /\ c.sdu = s.sdu
            /\ c.tl_retx = s.tl_retx /\ c.cp_ack_pending = s.cp_ack_pending
            /\ c.out = <<CpError(t)>> /\ c.up = <<>>
        BY <2>3, <3>3 DEF Alike
      <4> QED BY <4>1 DEF Aborted, Slots
    <3> HIDE DEF d
    <3>5. Alike(d, e) /\ e.out = <<CpError(t), RelReq(t)>> /\ e.up = <<>> /\ e.sdu = s.sdu
      <4>1. Alike(d, e) /\ e.out = Append(<<CpError(t)>>, RelReq(t)) /\ e.up = <<>> /\ e.sdu = s.sdu
        BY <2>4, <3>4, SendAlike
      <4> QED BY <2>4, <4>1, Pairs
    <3>6. cp_abort_req(u) \in {e, f}
      <4>1. s.cp \in {"ESTABLISHED", "WAIT_FOR_ACK"}
        BY <2>8 DEF Connected
      <4>2. CASE s.cp = "ESTABLISHED"
        <5>1. cp_abort_req(u) = cp_send_release_req(d, u.ti)
          BY <2>3, <3>2, <4>2 DEF cp_abort_req, d
        <5> QED BY <2>3, <5>1, CpRequests
      <4>3. CASE s.cp = "WAIT_FOR_ACK"
        <5> DEFINE g == [d EXCEPT !.tc1m = FALSE]
        <5>1. cp_abort_req(u) = cp_send_release_req(g, u.ti)
          BY <2>3, <3>2, <4>3 DEF cp_abort_req, d
        <5>2. cp_abort_req(u) = Send(g, RelReq(t))
          BY <2>3, <5>1, CpRequests
        <5>3. Send(g, RelReq(t)) = f
          BY <3>4 DEF Send, Slots
        <5> QED BY <5>2, <5>3
      <4> QED BY <4>1, <4>2, <4>3
    <3> HIDE DEF e
    <3>7. /\ Alike(d, f) /\ f.out = e.out /\ f.up = e.up /\ f.sdu = e.sdu
      BY <3>5 DEF Alike, Slots
    <3> HIDE DEF f
    <3>8. ASSUME NEW w \in {e, f}
          PROVE  /\ Alike([s EXCEPT !.rl = "IDLE", !.cp = "IDLE", !.ti = t], w)
                 /\ w.out = Abort(s) /\ w.up = <<>> /\ w.sdu = s.sdu
      <4>1. Alike(d, w) /\ w.out = e.out /\ w.up = <<>> /\ w.sdu = s.sdu
        BY <3>5, <3>7
      <4>2. Alike([s EXCEPT !.rl = "IDLE", !.cp = "IDLE", !.ti = t], w)
        BY <1>1, <3>4, <4>1 DEF Alike, Slots
      <4>3. Abort(s) = e.out
        BY <3>1, <3>5 DEF Abort
      <4> QED BY <4>1, <4>2, <4>3
    <3> QED BY <1>3, <2>2, <2>5, <3>1, <3>6, <3>8 DEF Sending, r, t
  <2>9. s.cp = "IDLE" \/ s.cp = "PENDING" \/ Connected(s)
    BY <1>1 DEF Slots, Connected
  <2> QED BY <2>6, <2>7, <2>8, <2>9
<1> QED BY <1>2, <1>3

-----------------------------------------------------------------------------
(* The inductive invariant *)

\* What is sent on the connection t: data, and the request to release it.
Requests(t) == {m \in Messages : m = RelReq(t) \/ (m.m = "DATA_REQ" /\ m.ti = t)}

Responses ==
  [cp : {"CP_ACK", "CP_ERROR"}, rp : {""}, ref : {0}, tp : {""}]
  \cup [cp : {"CP_DATA"}, rp : RpAnswers, ref : Refs, tp : {""}]

Indications ==
  [m : {"ESTABLISH_CNF"}, ti : MoTis, cause : {""}, d : {NoData}]
  \cup [m : {"RELEASE_IND", "ERROR_IND"}, ti : MoTis, cause : Causes, d : {NoData}]
  \cup [m : {"DATA_IND"}, ti : MoTis, cause : {""}, d : Responses]

Receipts == [ref : Refs, acked : BOOLEAN]

\* An answer of the service centre
IsAnswer(m)   == m.m = "DATA_IND" /\ m.d.cp = "CP_DATA"
Confirming(m) == IsAnswer(m) /\ m.d.rp \in Confirms

\* The network answers on open connections only, and confirms what it accepted.
MoTypes ==
  /\ toMM \in Seq(Messages) /\ toSMS \in Seq(Indications)
  /\ conn \in [MoTis -> {"none", "pending", "open", "lost"}]
  /\ rx \in [MoTis -> Receipts \cup {None}]
  /\ accepted \subseteq Refs
  /\ mixed \in BOOLEAN
  /\ \A t \in MoTis : rx[t] # None => conn[t] = "open"
  /\ \A m \in Items(toSMS) : Confirming(m) => m.d.ref \in accepted

\* What is under way on a connection is about the submission of the slot.
Current(s, p, q, x) ==
  /\ \A m \in Items(q) : IsAnswer(m) => m.d.ref = s.tp_mr
  /\ \A m \in Items(p) : m.rp = "RP_DATA" => m.ref = s.tp_mr
  /\ x[s.ti] # None => x[s.ti].ref = s.tp_mr
  /\ s.data_req.ti = s.ti

\* No connection is asked for: whatever is left is of the one transaction, and a connection
\* without a slot is about to be released.
Steady(s, p, q, c, x) ==
  /\ s.ti = s.timer_ti
  /\ Items(p) \subseteq Requests(s.ti)
  /\ \A m \in Items(q) : m.ti = s.ti
  /\ \A t \in MoTis : t # s.ti => c[t] = "none"
  /\ s.cp = "IDLE" /\ c[s.ti] # "none" => RelReq(s.ti) \in Items(p)
  /\ (\E m \in Items(q) : m.m = "RELEASE_IND") => c[s.ti] = "none"
  /\ Waiting(s) => p = <<>> /\ q = <<>> /\ c[s.ti] = "none" /\ (s.est = "SEND" => s.sdu)
  /\ Connected(s) => Current(s, p, q, x)

Of(m, k, t) == m.m = k /\ m.ti = t

\* The indications q behind the first j, of the connection u in the state c.
Opened(q, j, c, u) ==
  \/ Len(q) = j /\ c \in {"none", "pending"}
  \/ Len(q) = j + 1 /\ Of(q[j + 1], "ESTABLISH_CNF", u) /\ c = "open"
  \/ Len(q) = j + 1 /\ Of(q[j + 1], "RELEASE_IND", u) /\ c = "none"
  \/ /\ Len(q) = j + 2 /\ Of(q[j + 1], "ESTABLISH_CNF", u)
     /\ \/ Of(q[j + 2], "ERROR_IND", u) /\ c = "lost"
        \/ Of(q[j + 2], "RELEASE_IND", u) /\ c = "none"

\* A connection is asked for: first in both queues is what is left of the transaction before,
\* then the request and what became of it.
Opening(s, p, q, c, x) ==
  /\ s.ti # s.timer_ti
  /\ p # <<>> => /\ p[Len(p)] = EstReq(s.timer_ti) /\ c[s.timer_ti] = "none"
                 /\ \A i \in 1 .. Len(p) - 1 : p[i] \in Requests(s.ti)
                 /\ \A i \in 1 .. Len(q) : q[i].ti = s.ti
  /\ \E j \in 0 .. Len(q) : /\ \A i \in 1 .. j : q[i].ti = s.ti
                            /\ Opened(q, j, c[s.timer_ti], s.timer_ti)
  /\ \A t \in MoTis : t \notin {s.ti, s.timer_ti} => c[t] = "none"
  /\ c[s.ti] # "none" => RelReq(s.ti) \in Items(p)
  /\ s.est = "SEND" => s.sdu
  /\ x[s.timer_ti] = None

InOrder ==
  /\ sms.cp # "PENDING" => Steady(sms, toMM, toSMS, conn, rx)
  /\ sms.cp = "PENDING" => Opening(sms, toMM, toSMS, conn, rx)

MoInv == MoTypes /\ MoSlot(sms) /\ (~mixed => InOrder)

LEMMA MoFields ==
  /\ \A t : RelReq(t).m = "RELEASE_REQ" /\ CpAck(t).m = "DATA_REQ" /\ CpError(t).m = "DATA_REQ"
            /\ EstReq(t).m = "ESTABLISH_REQ"
  /\ \A t : RelReq(t).ti = t /\ CpAck(t).ti = t /\ CpError(t).ti = t /\ EstReq(t).ti = t
  /\ \A t : RelReq(t).rp # "RP_DATA" /\ CpAck(t).rp # "RP_DATA" /\ CpError(t).rp # "RP_DATA"
<1>1. \A t : RelReq(t).m = "RELEASE_REQ" /\ CpAck(t).m = "DATA_REQ" /\ CpError(t).m = "DATA_REQ"
             /\ EstReq(t).m = "ESTABLISH_REQ"
  BY DEF RelReq, CpAck, CpError, EstReq, ToMM
<1>2. \A t : RelReq(t).ti = t /\ CpAck(t).ti = t /\ CpError(t).ti = t /\ EstReq(t).ti = t
  BY DEF RelReq, CpAck, CpError, EstReq, ToMM
<1>3. ASSUME NEW t
      PROVE  RelReq(t).rp # "RP_DATA" /\ CpAck(t).rp # "RP_DATA" /\ CpError(t).rp # "RP_DATA"
  <2>1. RelReq(t).rp = "" /\ CpAck(t).rp = "" /\ CpError(t).rp = ""
    BY DEF RelReq, CpAck, CpError, ToMM
  <2> QED BY <2>1, Zenon
<1> QED BY <1>1, <1>2, <1>3

LEMMA MoRequests ==
  ASSUME NEW t \in MoTis
  PROVE  /\ RelReq(t) \in Requests(t) /\ CpAck(t) \in Requests(t) /\ CpError(t) \in Requests(t)
         /\ \A n \in Refs : Submission(t, n) \in Requests(t)
         /\ \A u : EstReq(u) \notin Requests(t) /\ EstReq(u) # RelReq(t)
         /\ \A m \in Requests(t) : /\ m \in Messages /\ m.ti = t
                                   /\ m.m \in {"RELEASE_REQ", "DATA_REQ"}
                                   /\ m.m = "RELEASE_REQ" => m = RelReq(t)
<1>1. /\ RelReq(t) \in Requests(t) /\ CpAck(t) \in Requests(t) /\ CpError(t) \in Requests(t)
      /\ \A n \in Refs : Submission(t, n) \in Requests(t)
  BY MoMessages, MoFields, NumberTypes DEF Requests
<1>2. \A m \in Requests(t) : /\ m \in Messages /\ m.ti = t
                             /\ m.m \in {"RELEASE_REQ", "DATA_REQ"}
                             /\ m.m = "RELEASE_REQ" => m = RelReq(t)
  BY MoFields DEF Requests
<1>3. ASSUME NEW u
      PROVE  EstReq(u) \notin Requests(t) /\ EstReq(u) # RelReq(t)
  <2>1. EstReq(u).m = "ESTABLISH_REQ"
    BY MoFields
  <2> QED BY <1>1, <1>2, <2>1
<1> QED BY <1>1, <1>2, <1>3

LEMMA IndicationKinds ==
  ASSUME NEW h \in Indications
  PROVE  /\ h.ti \in MoTis
         /\ h.m \in {"ESTABLISH_CNF", "RELEASE_IND", "ERROR_IND", "DATA_IND"}
         /\ h.m \in {"RELEASE_IND", "ERROR_IND"} => h.cause \in Causes
         /\ h.m = "DATA_IND" => Downlinks(h.d)
<1>1. /\ h.ti \in MoTis
      /\ h.m \in {"ESTABLISH_CNF", "RELEASE_IND", "ERROR_IND", "DATA_IND"}
      /\ h.m \in {"RELEASE_IND", "ERROR_IND"} => h.cause \in Causes
      /\ h.m = "DATA_IND" => h.d \in Responses
  BY DEF Indications
<1>2. ASSUME NEW d \in Responses
      PROVE  Downlinks(d)
  BY DEF Responses, Downlinks, RpAnswers
<1> QED BY <1>1, <1>2

-----------------------------------------------------------------------------
(* The steps of MM and of the network *)

\* MM and the network put the indication m of the connection t into the queue of SMS.
Puts(t, m, c, x) ==
  \/ m.m = "ESTABLISH_CNF" /\ conn[t] = "pending" /\ c = "open" /\ x = None
  \/ m.m = "RELEASE_IND" /\ conn[t] \in {"pending", "open"} /\ c = "none" /\ x = None
  \/ m.m = "ERROR_IND" /\ conn[t] = "open" /\ c = "lost" /\ x = None
  \/ /\ m.m = "DATA_IND" /\ conn[t] = "open" /\ c = "open" /\ rx[t] # None
     /\ x # None => x.ref = rx[t].ref
     /\ IsAnswer(m) => m.d.ref = rx[t].ref

LEMMA OutsideMo ==
  ASSUME MoInv, MMStep, toMM' = toMM, NEW t \in MoTis, NEW m \in Indications, m.ti = t,
         toSMS' = Append(toSMS, m),
         NEW c \in {"none", "open", "lost"}, conn' = [conn EXCEPT ![t] = c],
         NEW x \in Receipts \cup {None}, rx' = [rx EXCEPT ![t] = x],
         accepted \subseteq accepted', accepted' \subseteq Refs,
         Confirming(m) => m.d.ref \in accepted',
         Puts(t, m, c, x)
  PROVE  MoInv'
<1>1. /\ toSMS \in Seq(Indications) /\ sms' = sms /\ mixed' = mixed /\ toMM' = toMM
      /\ conn \in [MoTis -> {"none", "pending", "open", "lost"}]
      /\ rx \in [MoTis -> Receipts \cup {None}]
      /\ MoSlot(sms) /\ sms.ti \in MoTis /\ sms.timer_ti \in MoTis
  BY DEF MoInv, MoTypes, MMStep, MoSlot
<1>2. toSMS' \in Seq(Indications) /\ Items(toSMS') = Items(toSMS) \cup {m}
  BY <1>1, ItemsAppend
<1>3. x # None => rx[t] # None /\ x.ref = rx[t].ref /\ c = "open"
  BY DEF Puts
<1>4. conn[t] # "none"
  BY DEF Puts
<1>5. /\ conn'[t] = c /\ rx'[t] = x
      /\ \A u \in MoTis : u # t => conn'[u] = conn[u] /\ rx'[u] = rx[u]
      /\ conn' \in [MoTis -> {"none", "pending", "open", "lost"}]
      /\ rx' \in [MoTis -> Receipts \cup {None}]
  BY <1>1
<1>6. MoTypes'
  <2>1. \A u \in MoTis : rx'[u] # None => conn'[u] = "open"
    BY <1>3, <1>4, <1>5 DEF MoInv, MoTypes
  <2>2. \A n \in Items(toSMS') : Confirming(n) => n.d.ref \in accepted'
    BY <1>2 DEF MoInv, MoTypes
  <2> QED BY <1>1, <1>2, <1>5, <2>1, <2>2 DEF MoInv, MoTypes, Confirming, IsAnswer
<1>7. ASSUME ~mixed, sms.cp # "PENDING"
      PROVE  Steady(sms, toMM, toSMS', conn', rx')
  <2>1. Steady(sms, toMM, toSMS, conn, rx)
    BY <1>7 DEF MoInv, InOrder
  <2>2. t = sms.ti
    BY <1>4, <2>1 DEF Steady
  <2>3. ~Waiting(sms)
    BY <1>4, <2>1, <2>2 DEF Steady
  <2>4. (\E n \in Items(toSMS') : n.m = "RELEASE_IND") => c = "none"
    BY <1>2, <1>4, <2>1, <2>2 DEF Steady, Puts
  <2>5. Connected(sms) => Current(sms, toMM, toSMS', rx')
    <3> SUFFICES ASSUME Connected(sms)
                 PROVE  Current(sms, toMM, toSMS', rx')
      OBVIOUS
    <3>1. Current(sms, toMM, toSMS, rx)
      BY <2>1 DEF Steady
    <3>2. IsAnswer(m) => rx[t] # None /\ m.d.ref = rx[t].ref
      BY DEF Puts, IsAnswer
    <3> QED BY <1>2, <1>3, <1>4, <1>5, <2>2, <3>1, <3>2 DEF Current
  <2> QED BY <1>2, <1>4, <1>5, <2>1, <2>2, <2>3, <2>4, <2>5 DEF Steady
<1>8. ASSUME ~mixed, sms.cp = "PENDING"
      PROVE  Opening(sms, toMM, toSMS', conn', rx')
  <2> DEFINE q == toSMS
             r == toSMS'
             u == sms.timer_ti
  <2>1. Opening(sms, toMM, toSMS, conn, rx)
    BY <1>8 DEF MoInv, InOrder
  <2>2. PICK j \in 0 .. Len(q) : /\ \A i \in 1 .. j : q[i].ti = sms.ti
                                 /\ Opened(q, j, conn[u], u)
    BY <2>1 DEF Opening
  <2>3. /\ Len(q) \in Nat /\ Len(r) = Len(q) + 1 /\ r[Len(q) + 1] = m
        /\ \A i \in 1 .. Len(q) : r[i] = q[i]
    BY <1>1
  <2>4. t \in {sms.ti, u} /\ sms.ti # u
    BY <1>4, <2>1 DEF Opening
  <2>5. CASE t = sms.ti
    <3>1. RelReq(sms.ti) \in Items(toMM)
      BY <1>4, <2>1, <2>5 DEF Opening
    <3>2. toMM # <<>>
      <4>1. toMM = <<>> => Items(toMM) = {}
        BY DEF Items
      <4> QED BY <3>1, <4>1
    <3>3. \A i \in 1 .. Len(q) : q[i].ti = sms.ti
      BY <2>1, <3>2 DEF Opening
    <3>4. Len(q) = j /\ conn[u] \in {"none", "pending"}
      BY <2>2, <2>3, <2>4, <3>3 DEF Opened, Of
    <3>5. /\ \A i \in 1 .. j + 1 : r[i].ti = sms.ti
          /\ Opened(r, j + 1, conn'[u], u) /\ j + 1 \in 0 .. Len(r)
      BY <1>1, <1>5, <2>3, <2>4, <2>5, <3>3, <3>4 DEF Opened
    <3>6. rx'[u] = None
      BY <1>1, <1>5, <2>1, <2>4, <2>5 DEF Opening
    <3> HIDE DEF q, r, u
    <3>7. \A i \in 1 .. Len(r) : r[i].ti = sms.ti
      BY <2>3, <3>4, <3>5
    <3>8. /\ conn'[u] = conn[u]
          /\ \A v \in MoTis : v \notin {sms.ti, u} => conn'[v] = "none"
      BY <1>1, <1>5, <2>1, <2>4, <2>5 DEF Opening, u
    <3> QED BY <2>1, <2>4, <3>1, <3>5, <3>6, <3>7, <3>8 DEF Opening, r, u
  <2>6. CASE t = u
    <3>1. toMM = <<>>
      BY <1>4, <2>1, <2>6 DEF Opening
    <3>2. Opened(r, j, conn'[u], u)
      BY <1>4, <1>5, <2>1, <2>2, <2>3, <2>6 DEF Opened, Of, Puts, Opening
    <3>3. (\A i \in 1 .. j : r[i].ti = sms.ti) /\ j \in 0 .. Len(r)
      BY <2>2, <2>3
    <3>4. rx'[u] = None
      BY <1>3, <1>4, <1>5, <2>1, <2>6 DEF Opening
    <3>5. /\ conn'[sms.ti] = conn[sms.ti]
          /\ \A v \in MoTis : v \notin {sms.ti, u} => conn'[v] = "none"
      BY <1>1, <1>5, <2>1, <2>4, <2>6 DEF Opening
    <3> HIDE DEF q, r, u
    <3> QED BY <2>1, <2>4, <3>1, <3>2, <3>3, <3>4, <3>5 DEF Opening, r, u
  <2> QED BY <2>4, <2>5, <2>6
<1>9. ~mixed => InOrder'
  BY <1>1, <1>7, <1>8 DEF InOrder
<1> QED BY <1>1, <1>6, <1>9 DEF MoInv

LEMMA MMAnswersMo ==
  ASSUME MoInv, NEW t \in MoTis, NEW cause \in Causes,
         MMConfirms(t) \/ MMReleases(t, cause) \/ MMLoses(t, cause)
  PROVE  MoInv'
<1>1. /\ conn \in [MoTis -> {"none", "pending", "open", "lost"}]
      /\ rx \in [MoTis -> Receipts \cup {None}] /\ accepted \subseteq Refs
      /\ \A u \in MoTis : rx[u] # None => conn[u] = "open"
  BY DEF MoInv, MoTypes
<1>2. CASE MMConfirms(t)
  <2> DEFINE m == FromMM("ESTABLISH_CNF", t, "", NoData)
  <2>1. m \in Indications /\ m.m = "ESTABLISH_CNF" /\ m.ti = t
    BY DEF Indications, FromMM
  <2>2. toSMS' = Append(toSMS, m)
    BY <1>2, Zenon DEF MMConfirms, Indicate
  <2> HIDE DEF m
  <2>3. /\ MMStep /\ toMM' = toMM /\ accepted' = accepted /\ conn[t] = "pending"
        /\ conn' = [conn EXCEPT ![t] = "open"] /\ rx' = rx
    BY <1>2 DEF MMConfirms
  <2>4. rx[t] = None /\ rx' = [rx EXCEPT ![t] = None]
    BY <1>1, <2>3
  <2>5. Puts(t, m, "open", None) /\ ~Confirming(m)
    BY <2>1, <2>3 DEF Puts, Confirming, IsAnswer
  <2> QED BY <1>1, <2>1, <2>2, <2>3, <2>4, <2>5, OutsideMo
<1>3. CASE MMReleases(t, cause)
  <2> DEFINE m == FromMM("RELEASE_IND", t, cause, NoData)
  <2>1. m \in Indications /\ m.m = "RELEASE_IND" /\ m.ti = t
    BY DEF Indications, FromMM
  <2>2. toSMS' = Append(toSMS, m)
    BY <1>3, Zenon DEF MMReleases, Indicate
  <2> HIDE DEF m
  <2>3. /\ MMStep /\ toMM' = toMM /\ accepted' = accepted /\ conn[t] \in {"pending", "open"}
        /\ conn' = [conn EXCEPT ![t] = "none"] /\ rx' = [rx EXCEPT ![t] = None]
    BY <1>3 DEF MMReleases
  <2>4. Puts(t, m, "none", None) /\ ~Confirming(m)
    BY <2>1, <2>3 DEF Puts, Confirming, IsAnswer
  <2> QED BY <1>1, <2>1, <2>2, <2>3, <2>4, OutsideMo
<1>4. CASE MMLoses(t, cause)
  <2> DEFINE m == FromMM("ERROR_IND", t, cause, NoData)
  <2>1. m \in Indications /\ m.m = "ERROR_IND" /\ m.ti = t
    BY DEF Indications, FromMM
  <2>2. toSMS' = Append(toSMS, m)
    BY <1>4, Zenon DEF MMLoses, Indicate
  <2> HIDE DEF m
  <2>3. /\ MMStep /\ toMM' = toMM /\ accepted' = accepted /\ conn[t] = "open"
        /\ conn' = [conn EXCEPT ![t] = "lost"] /\ rx' = [rx EXCEPT ![t] = None]
    BY <1>4 DEF MMLoses
  <2>4. Puts(t, m, "lost", None) /\ ~Confirming(m)
    BY <2>1, <2>3 DEF Puts, Confirming, IsAnswer
  <2> QED BY <1>1, <2>1, <2>2, <2>3, <2>4, OutsideMo
<1> QED BY <1>2, <1>3, <1>4

LEMMA NetworkMo ==
  ASSUME MoInv, Regular, NEW t \in MoTis, NetworkAcks(t) \/ NetworkAnswers(t) \/ NetworkRejects(t)
  PROVE  MoInv'
<1>1. /\ conn \in [MoTis -> {"none", "pending", "open", "lost"}]
      /\ rx \in [MoTis -> Receipts \cup {None}] /\ accepted \subseteq Refs
  BY DEF MoInv, MoTypes
<1>2. /\ MMStep /\ toMM' = toMM /\ conn' = conn /\ conn[t] = "open" /\ rx[t] # None
  BY DEF NetworkAcks, NetworkAnswers, NetworkRejects, NetworkStep
<1>3. conn' = [conn EXCEPT ![t] = "open"] /\ rx[t] \in Receipts
  BY <1>1, <1>2
<1>4. CASE NetworkAcks(t) \/ NetworkRejects(t)
  <2>1. PICK cp \in {"CP_ACK", "CP_ERROR"} :
             toSMS' = Append(toSMS, FromMM("DATA_IND", t, "", Downlink(cp, "", 0, "")))
    BY <1>4, Zenon DEF NetworkAcks, NetworkRejects, Indicate
  <2> DEFINE m == FromMM("DATA_IND", t, "", Downlink(cp, "", 0, ""))
             x == IF NetworkAcks(t) THEN [rx[t] EXCEPT !.acked = TRUE] ELSE None
  <2>2. m \in Indications /\ m.m = "DATA_IND" /\ m.ti = t /\ m.d.cp # "CP_DATA"
    BY DEF Indications, FromMM, Downlink, Responses
  <2>3. toSMS' = Append(toSMS, m)
    BY <2>1, Zenon
  <2> HIDE DEF m
  <2>4. /\ x \in Receipts \cup {None}
        /\ x # None => x.ref = rx[t].ref
    BY <1>3 DEF Receipts
  <2>5. rx' = [rx EXCEPT ![t] = x] /\ accepted' = accepted
    BY <1>1, <1>4 DEF NetworkAcks, NetworkRejects
  <2>6. Puts(t, m, "open", x) /\ ~Confirming(m)
    BY <1>2, <2>2, <2>4 DEF Puts, Confirming, IsAnswer
  <2> HIDE DEF x
  <2> QED BY <1>1, <1>2, <1>3, <2>2, <2>3, <2>4, <2>5, <2>6, OutsideMo
<1>5. CASE NetworkAnswers(t)
  <2> DEFINE n == rx[t].ref
  <2>1. PICK rp \in RpAnswers :
          /\ toSMS' = Append(toSMS, FromMM("DATA_IND", t, "", Downlink("CP_DATA", rp, n, "")))
          /\ accepted' = IF rp = "RP_ACK" THEN accepted \cup {n} ELSE accepted
          /\ rp = "RP_DUPLICATE" => n \in accepted
    <3>1. PICK rp \in Answers(n) :
            /\ toSMS' = Append(toSMS, FromMM("DATA_IND", t, "", Downlink("CP_DATA", rp, n, "")))
            /\ accepted' = IF rp = "RP_ACK" THEN accepted \cup {n} ELSE accepted
      BY <1>5, Zenon DEF NetworkAnswers, Indicate, Regular
    <3>2. rp \in RpAnswers /\ (rp = "RP_DUPLICATE" => n \in accepted)
      BY DEF Answers, RpAnswers
    <3> QED BY <3>1, <3>2
  <2> DEFINE m == FromMM("DATA_IND", t, "", Downlink("CP_DATA", rp, n, ""))
  <2>2. n \in Refs
    BY <1>3 DEF Receipts
  <2>3. m \in Indications /\ m.m = "DATA_IND" /\ m.ti = t /\ m.d.ref = n /\ m.d.rp = rp
    BY <2>2 DEF Indications, FromMM, Downlink, Responses
  <2>4. toSMS' = Append(toSMS, m)
    BY <2>1, Zenon
  <2> HIDE DEF m
  <2>5. rx' = [rx EXCEPT ![t] = None]
    BY <1>5 DEF NetworkAnswers
  <2>6. /\ accepted \subseteq accepted' /\ accepted' \subseteq Refs
        /\ Confirming(m) => m.d.ref \in accepted'
    BY <1>1, <2>1, <2>2, <2>3 DEF Confirming, Confirms
  <2>7. Puts(t, m, "open", None)
    BY <1>2, <2>3 DEF Puts
  <2> QED BY <1>1, <1>2, <1>3, <2>3, <2>4, <2>5, <2>6, <2>7, OutsideMo
<1> QED BY <1>4, <1>5

\* MM takes a request: it asks for the connection, drops it or carries the data.
LEMMA MMReceivesMo ==
  ASSUME MoInv, MMReceives
  PROVE  MoInv'
<1> DEFINE m == Head(toMM)
           t == m.ti
           c == CASE m.m = "ESTABLISH_REQ" -> "pending"
                  [] m.m = "RELEASE_REQ"   -> "none"
                  [] m.m = "DATA_REQ"      -> conn[t]
           x == CASE m.m # "DATA_REQ" -> None
                  [] m.m = "DATA_REQ" /\ conn[t] = "open" -> Received(m)
                  [] m.m = "DATA_REQ" /\ conn[t] # "open" -> rx[t]
<1>1. /\ toMM \in Seq(Messages) /\ toMM # <<>> /\ toMM' = Tail(toMM)
      /\ sms' = sms /\ mixed' = mixed /\ toSMS' = toSMS /\ accepted' = accepted
      /\ conn \in [MoTis -> {"none", "pending", "open", "lost"}]
      /\ rx \in [MoTis -> Receipts \cup {None}]
      /\ MoSlot(sms) /\ sms.ti \in MoTis /\ sms.timer_ti \in MoTis
  BY DEF MMReceives, MMStep, MoInv, MoTypes, MoSlot
<1>2. /\ m \in Messages /\ toMM' \in Seq(Messages) /\ Items(toMM) = {m} \cup Items(toMM')
  BY <1>1, ItemsTail
<1>3. conn' = [conn EXCEPT ![t] = c] /\ rx' = [rx EXCEPT ![t] = x]
  BY <1>1 DEF MMReceives
<1>4. /\ m.m \in {"ESTABLISH_REQ", "RELEASE_REQ", "DATA_REQ"} /\ m.ref \in Refs
      /\ m.m = "ESTABLISH_REQ" => c = "pending" /\ x = None
      /\ m.m = "RELEASE_REQ" => c = "none" /\ x = None
      /\ m.m = "DATA_REQ" => c = conn[t] /\ x \in {rx[t], Received(m)}
      /\ m.m = "DATA_REQ" /\ conn[t] # "open" => x = rx[t]
  BY <1>2 DEF Messages
<1>5. Received(m) = rx[t] \/ (Received(m) \in Receipts /\ Received(m).ref = m.ref /\ m.rp = "RP_DATA")
  BY <1>4 DEF Received, Receipts
<1> HIDE DEF m, c, x
<1>6. /\ \A u \in MoTis : u # t => conn'[u] = conn[u] /\ rx'[u] = rx[u]
      /\ t \in MoTis => conn'[t] = c /\ rx'[t] = x
      /\ conn' \in [MoTis -> {"none", "pending", "open", "lost"}]
      /\ rx' \in [MoTis -> Receipts \cup {None}]
  BY <1>1, <1>3, <1>4, <1>5 DEF t
<1>7. MoTypes'
  <2>1. \A u \in MoTis : rx'[u] # None => conn'[u] = "open"
    BY <1>4, <1>6 DEF MoInv, MoTypes
  <2> QED BY <1>1, <1>2, <1>6, <2>1 DEF MoInv, MoTypes, Confirming, IsAnswer
<1>8. ASSUME NEW v \in MoTis, m \in Requests(v)
      PROVE  /\ t = v
             /\ conn'[v] # "none" => conn[v] # "none" /\ m # RelReq(v)
             /\ conn[v] = "none" => conn'[v] = "none"
             /\ rx'[v] # None => rx[v] # None \/ (m.rp = "RP_DATA" /\ rx'[v].ref = m.ref)
             /\ rx[v] # None => rx'[v] \in {None, rx[v]}
                                  \/ (m.rp = "RP_DATA" /\ rx'[v].ref = m.ref)
  <2>1. m.ti = v /\ m.m \in {"RELEASE_REQ", "DATA_REQ"}
    BY <1>8, MoRequests
  <2>2. RelReq(v).m = "RELEASE_REQ"
    BY MoFields
  <2> QED BY <1>4, <1>5, <1>6, <2>1, <2>2 DEF t
<1>9. ASSUME ~mixed, sms.cp # "PENDING"
      PROVE  Steady(sms, toMM', toSMS, conn', rx')
  <2>1. Steady(sms, toMM, toSMS, conn, rx)
    BY <1>9 DEF MoInv, InOrder
  <2>2. m \in Requests(sms.ti)
    BY <1>2, <2>1 DEF Steady
  <2>3. t = sms.ti
    BY <1>1, <1>8, <2>2
  <2>4. ~Waiting(sms)
    BY <1>1, <2>1 DEF Steady
  <2>5. Connected(sms) => Current(sms, toMM', toSMS, rx')
    <3> SUFFICES ASSUME Connected(sms)
                 PROVE  Current(sms, toMM', toSMS, rx')
      OBVIOUS
    <3>1. Current(sms, toMM, toSMS, rx)
      BY <2>1 DEF Steady
    <3>2. m.rp = "RP_DATA" => m.ref = sms.tp_mr
      BY <1>2, <3>1 DEF Current
    <3>3. rx'[sms.ti] # None => rx'[sms.ti].ref = sms.tp_mr
      BY <1>1, <1>8, <2>2, <3>1, <3>2 DEF Current
    <3> QED BY <1>2, <3>1, <3>3 DEF Current
  <2>6. sms.cp = "IDLE" /\ conn'[sms.ti] # "none" => RelReq(sms.ti) \in Items(toMM')
    BY <1>1, <1>2, <1>8, <2>1, <2>2 DEF Steady
  <2>7. conn[sms.ti] = "none" => conn'[sms.ti] = "none"
    BY <1>1, <1>8, <2>2
  <2> QED BY <1>2, <1>6, <2>1, <2>3, <2>4, <2>5, <2>6, <2>7 DEF Steady
<1>10. ASSUME ~mixed, sms.cp = "PENDING"
       PROVE  Opening(sms, toMM', toSMS, conn', rx')
  <2> DEFINE u == sms.timer_ti
             p == toMM
             q == toSMS
             n == Len(p)
  <2>1. Opening(sms, p, q, conn, rx)
    BY <1>10 DEF MoInv, InOrder
  <2>2. /\ p[n] = EstReq(u) /\ conn[u] = "none" /\ u # sms.ti /\ rx[u] = None
        /\ \A i \in 1 .. n - 1 : p[i] \in Requests(sms.ti)
        /\ \A i \in 1 .. Len(q) : q[i].ti = sms.ti
    BY <1>1, <2>1 DEF Opening
  <2>3. PICK j \in 0 .. Len(q) : /\ \A i \in 1 .. j : q[i].ti = sms.ti
                                 /\ Opened(q, j, conn[u], u)
    BY <2>1 DEF Opening
  <2>4. j = Len(q) /\ Len(q) \in Nat
    <3>1. q \in Seq(Indications) /\ Len(q) \in Nat
      BY DEF MoInv, MoTypes
    <3> QED BY <2>2, <2>3, <3>1 DEF Opened, Of
  <2>5. n \in Nat \ {0} /\ m = p[1] /\ Len(toMM') = n - 1
        /\ \A i \in 1 .. n - 1 : toMM'[i] = p[i + 1]
    BY <1>1 DEF m
  <2>6. CASE n = 1
    <3>1. m = EstReq(u) /\ m.m = "ESTABLISH_REQ" /\ t = u
      BY <2>2, <2>5, <2>6, MoFields DEF t
    <3>2. toMM' = <<>>
      BY <1>2, <2>5, <2>6
    <3>3. conn'[u] = "pending" /\ rx'[u] = None
      BY <1>1, <1>4, <1>6, <3>1
    <3>4. Items(p) = {EstReq(u)}
      <4>1. Items(toMM') = {}
        BY <3>2 DEF Items
      <4> QED BY <1>2, <3>1, <4>1
    <3>5. conn'[sms.ti] = "none"
      <4>1. EstReq(u) # RelReq(sms.ti)
        BY <1>1, MoRequests
      <4>2. conn[sms.ti] = "none"
        BY <2>1, <3>4, <4>1 DEF Opening
      <4> QED BY <1>1, <1>6, <2>2, <3>1, <4>2
    <3>6. Opened(q, j, conn'[u], u)
      BY <2>4, <3>3 DEF Opened
    <3>7. \A v \in MoTis : v \notin {sms.ti, u} => conn'[v] = "none"
      BY <1>6, <2>1, <3>1 DEF Opening
    <3> HIDE DEF p, q, n, u
    <3> QED BY <2>1, <2>2, <2>3, <3>2, <3>3, <3>5, <3>6, <3>7 DEF Opening, u, q
  <2>7. CASE n # 1
    <3>1. m \in Requests(sms.ti)
      BY <2>2, <2>5, <2>7
    <3>2. t = sms.ti
      BY <1>1, <1>8, <3>1
    <3>3. conn'[u] = "none" /\ rx'[u] = None
      BY <1>1, <1>6, <2>2, <3>2
    <3>4. conn'[sms.ti] # "none" => RelReq(sms.ti) \in Items(toMM')
      BY <1>1, <1>2, <1>8, <2>1, <3>1 DEF Opening
    <3>5. /\ toMM'[Len(toMM')] = EstReq(u)
          /\ \A i \in 1 .. Len(toMM') - 1 : toMM'[i] \in Requests(sms.ti)
      <4>1. toMM'[n - 1] = p[n]
        BY <2>5, <2>7
      <4>2. \A i \in 1 .. n - 2 : toMM'[i] = p[i + 1] /\ i + 1 \in 1 .. n - 1
        BY <2>5, <2>7
      <4> HIDE DEF p, n
      <4> QED BY <2>2, <2>5, <4>1, <4>2
    <3>6. \A v \in MoTis : v \notin {sms.ti, u} => conn'[v] = "none"
      BY <1>6, <2>1, <3>2 DEF Opening
    <3>7. Opened(q, j, conn'[u], u)
      BY <2>2, <2>3, <3>3
    <3> HIDE DEF p, q, n, u
    <3> QED BY <2>1, <2>2, <2>3, <3>3, <3>4, <3>5, <3>6, <3>7 DEF Opening, u, q
  <2> QED BY <2>6, <2>7
<1>11. ~mixed => InOrder'
  BY <1>1, <1>9, <1>10 DEF InOrder
<1> QED BY <1>1, <1>7, <1>11 DEF MoInv

-----------------------------------------------------------------------------
(* The steps of SMS *)

LEMMA ShortItems ==
  /\ Items(<<>>) = {}
  /\ \A a : Items(<<a>>) = {a}
  /\ \A a, b : Items(<<a, b>>) = {a, b}
<1>1. DOMAIN <<>> = {}
  OBVIOUS
<1>2. \A a : DOMAIN <<a>> = {1} /\ <<a>>[1] = a
  OBVIOUS
<1>3. \A a, b : DOMAIN <<a, b>> = {1, 2} /\ <<a, b>>[1] = a /\ <<a, b>>[2] = b
  OBVIOUS
<1> QED BY <1>1, <1>2, <1>3 DEF Items

LEMMA FreshMo ==
  ASSUME MoSlot(sms),
         NEW f \in {Fresh(sms), [Fresh(sms) EXCEPT !.tc1m = FALSE],
                    [Fresh(sms) EXCEPT !.tr1m = FALSE]}
  PROVE  Blank(f) /\ Alike(sms, f) /\ f.sdu = sms.sdu
<1>1. sms \in Slots /\ <<>> \in Sent /\ <<>> \in Tellings
  BY DataTypes DEF MoSlot
<1>2. Alike(sms, f) /\ f.sdu = sms.sdu /\ f.out = <<>> /\ f.up = <<>>
  BY <1>1, ZenonT(40) DEF Fresh, Alike, Slots
<1>3. MoSlot(f)
  BY <1>2, AlikeMo
<1> QED BY <1>2, <1>3 DEF Blank

\* What SMS sends goes into the queue of MM.
LEMMA SmsStepMo ==
  ASSUME MoTypes, SmsStep, MoSlot(sms'), toSMS' \in Seq(Indications),
         Items(toSMS') \subseteq Items(toSMS), mixed' \in BOOLEAN
  PROVE  /\ MoTypes' /\ Items(toMM') = Items(toMM) \cup Items(sms'.out)
         /\ sms'.out = <<>> => toMM' = toMM
         /\ toMM = <<>> => toMM' = sms'.out
         /\ \A e \in Messages : sms'.out = <<e>> => toMM' = Append(toMM, e)
         /\ conn' = conn /\ rx' = rx /\ accepted' = accepted
<1>1. sms' \in Slots
  BY DEF MoSlot
<1>2. sms'.out \in Seq(Messages)
  BY <1>1, SlotTypes, Zenon
<1>3. /\ toMM \in Seq(Messages) /\ toMM' = toMM \o sms'.out
      /\ conn' = conn /\ rx' = rx /\ accepted' = accepted
  BY DEF MoTypes, SmsStep
<1>4. toMM' \in Seq(Messages) /\ Items(toMM') = Items(toMM) \cup Items(sms'.out)
  BY <1>2, <1>3, ItemsConcat
<1>5. /\ sms'.out = <<>> => toMM' = toMM
      /\ toMM = <<>> => toMM' = sms'.out
  BY <1>2, <1>3, ConcatEmptySeq
<1>6. ASSUME NEW e \in Messages, sms'.out = <<e>>
      PROVE  toMM' = Append(toMM, e)
  BY <1>3, <1>6, AppendIsConcat
<1>7. MoTypes'
  BY <1>3, <1>4 DEF MoTypes, Confirming, IsAnswer
<1> QED BY <1>3, <1>4, <1>5, <1>6, <1>7

LEMMA EndingItems ==
  ASSUME NEW t \in MoTis, NEW o \in Endings(t)
  PROVE  /\ Items(o) \subseteq Requests(t) /\ RelReq(t) \in Items(o)
         /\ \A m \in Items(o) : m.rp # "RP_DATA"
<1>1. Items(o) \in {{RelReq(t)}, {CpError(t), RelReq(t)}, {CpAck(t), RelReq(t)}}
  <2>1. o = <<RelReq(t)>> \/ o = <<CpError(t), RelReq(t)>> \/ o = <<CpAck(t), RelReq(t)>>
    BY DEF Endings
  <2> QED BY <2>1, ShortItems
<1> QED BY <1>1, MoRequests, MoFields

\* The slot moves on without asking for a connection, and sends M.
Goes(s, r, M, c) ==
  /\ r.ti = s.ti /\ r.timer_ti = s.timer_ti /\ r.tp_mr = s.tp_mr
  /\ M \subseteq Requests(s.ti)
  /\ r.cp = "IDLE" => s.cp = "IDLE" \/ RelReq(s.ti) \in M \/ c[s.ti] = "none"
  /\ Waiting(r) => Waiting(s) /\ M = {} /\ r.est = s.est /\ r.sdu = s.sdu
  /\ Connected(r) => /\ Connected(s) /\ r.data_req = s.data_req
                     /\ \A m \in M : m.rp = "RP_DATA" => m.ref = s.tp_mr

LEMMA SteadyStep ==
  ASSUME NEW s, NEW r, NEW M, NEW c, Goes(s, r, M, c),
         NEW p, NEW q, NEW x, Steady(s, p, q, c, x),
         NEW pp \in Seq(Messages), Items(pp) = Items(p) \cup M,
         NEW qq \in Seq(Indications), Items(qq) \subseteq Items(q)
  PROVE  Steady(r, pp, qq, c, x)
<1>1. Connected(r) => Current(r, pp, qq, x)
  BY DEF Steady, Current, Goes
<1>2. r.cp = "IDLE" /\ c[r.ti] # "none" => RelReq(r.ti) \in Items(pp)
  BY DEF Steady, Goes
<1>3. Waiting(r) => pp = <<>> /\ qq = <<>> /\ c[r.ti] = "none" /\ (r.est = "SEND" => r.sdu)
  <2> SUFFICES ASSUME Waiting(r)
               PROVE  pp = <<>> /\ qq = <<>> /\ c[r.ti] = "none" /\ (r.est = "SEND" => r.sdu)
    OBVIOUS
  <2>1. p = <<>> /\ q = <<>> /\ M = {}
    BY DEF Steady, Goes
  <2>2. Items(pp) = {} /\ Items(qq) = {}
    BY <2>1, ShortItems
  <2>3. pp = <<>> /\ qq = <<>>
    BY <2>2, ItemsTyped
  <2> QED BY <2>3 DEF Steady, Goes
<1> QED BY <1>1, <1>2, <1>3 DEF Steady, Goes

\* The slot goes on asking, and an indication of the transaction before may be dropped.
LEMMA OpeningStep ==
  ASSUME NEW s, NEW r, Alike(s, r), r.sdu = s.sdu, NEW p, NEW q \in Seq(Indications), NEW c, NEW x,
         Opening(s, p, q, c, x), NEW qq,
         qq = q \/ (q # <<>> /\ Head(q).ti = s.ti /\ qq = Tail(q))
  PROVE  Opening(r, p, qq, c, x)
<1>1. /\ r.ti = s.ti /\ r.timer_ti = s.timer_ti /\ r.est = s.est
  BY DEF Alike
<1>2. CASE qq = q
  BY <1>1, <1>2 DEF Opening
<1>3. CASE q # <<>> /\ Head(q).ti = s.ti /\ qq = Tail(q)
  <2> DEFINE u == s.timer_ti
  <2>1. PICK j \in 0 .. Len(q) : /\ \A i \in 1 .. j : q[i].ti = s.ti
                                 /\ Opened(q, j, c[u], u)
    BY DEF Opening
  <2>2. /\ Len(q) \in Nat \ {0} /\ q[1].ti = s.ti /\ Len(qq) = Len(q) - 1
        /\ \A i \in 1 .. Len(q) - 1 : qq[i] = q[i + 1]
    BY <1>3
  <2>3. j # 0 /\ s.ti # u
    BY <2>1, <2>2 DEF Opening, Opened, Of
  <2>4. /\ j - 1 \in 0 .. Len(qq)
        /\ \A i \in 1 .. j - 1 : qq[i].ti = s.ti
        /\ Opened(qq, j - 1, c[u], u)
    <3>1. /\ j \in Nat /\ j - 1 \in Nat /\ (j - 1) + 1 = j /\ (j - 1) + 2 = j + 1
          /\ j <= Len(q)
      BY <2>1, <2>2, <2>3
    <3>2. /\ j - 1 \in 0 .. Len(qq)
          /\ \A i \in 1 .. j - 1 : qq[i].ti = s.ti
      BY <2>1, <2>2, <3>1
    <3>3. /\ Len(q) = j => Len(qq) = j - 1
          /\ Len(q) = j + 1 => Len(qq) = (j - 1) + 1 /\ qq[j] = q[j + 1]
          /\ Len(q) = j + 2 => Len(qq) = (j - 1) + 2 /\ qq[j] = q[j + 1] /\ qq[j + 1] = q[j + 2]
      BY <2>2, <3>1
    <3>4. Opened(qq, j - 1, c[u], u)
      BY <2>1, <3>1, <3>3 DEF Opened
    <3> QED BY <3>2, <3>4
  <2>5. p # <<>> => \A i \in 1 .. Len(qq) : qq[i].ti = s.ti
    BY <2>2 DEF Opening
  <2> HIDE DEF u
  <2> QED BY <1>1, <2>4, <2>5 DEF Opening, u
<1> QED BY <1>2, <1>3

\* The user learns nothing, or of a failure; or of a message the service centre accepted.
Silent(r) == r.up \in {<<>>, <<"submit_busy">>, <<"submit_failed">>}

Serves(s, r, a) ==
  \/ r.tp_mr = s.tp_mr /\ (Idle(s) <=> Idle(r)) /\ Silent(r)
  \/ ~Idle(s) /\ Idle(r) /\ (Silent(r) \/ (r.up = <<"submit_ok">> /\ s.tp_mr \in a))
  \/ Idle(s) /\ Asking(r) /\ r.up = <<>>

\* The handler found nothing to do.
LEMMA NothingMo ==
  ASSUME MoInv, SmsStep, Alike(sms, sms'), sms'.sdu = sms.sdu, sms'.out = <<>>, Silent(sms'),
         toSMS' = toSMS, mixed' = mixed
  PROVE  MoInv' /\ Serves(sms, sms', accepted)
<1>1. MoTypes /\ MoSlot(sms) /\ sms.ti \in MoTis
  BY DEF MoInv, MoSlot
<1>2. /\ MoSlot(sms') /\ (Idle(sms) <=> Idle(sms')) /\ (Waiting(sms) <=> Waiting(sms'))
      /\ (Connected(sms) <=> Connected(sms'))
  BY <1>1, AlikeMo, Zenon
<1>3. /\ MoTypes' /\ toMM' = toMM /\ conn' = conn /\ rx' = rx
      /\ Items(toMM') = Items(toMM) \cup {}
  BY <1>1, <1>2, SmsStepMo DEF MoTypes
<1>4. /\ sms'.ti = sms.ti /\ sms'.timer_ti = sms.timer_ti /\ sms'.tp_mr = sms.tp_mr
      /\ sms'.cp = sms.cp /\ sms'.est = sms.est /\ sms'.data_req = sms.data_req
  BY DEF Alike
<1>5. ASSUME ~mixed, sms.cp # "PENDING"
      PROVE  Steady(sms', toMM, toSMS, conn, rx)
  <2>1. Steady(sms, toMM, toSMS, conn, rx)
    BY <1>5 DEF MoInv, InOrder
  <2>2. Goes(sms, sms', {}, conn)
    BY <1>2, <1>4 DEF Goes
  <2>3. toMM \in Seq(Messages) /\ toSMS \in Seq(Indications)
    BY <1>1 DEF MoTypes
  <2> QED BY <1>3, <2>1, <2>2, <2>3, SteadyStep
<1>6. ASSUME ~mixed, sms.cp = "PENDING"
      PROVE  Opening(sms', toMM, toSMS, conn, rx)
  <2>1. Opening(sms, toMM, toSMS, conn, rx) /\ toSMS \in Seq(Indications)
    BY <1>6 DEF MoInv, InOrder, MoTypes
  <2> QED BY <2>1, OpeningStep
<1>7. ~mixed' => InOrder'
  BY <1>3, <1>4, <1>5, <1>6 DEF InOrder
<1>8. Serves(sms, sms', accepted)
  BY <1>2, <1>4 DEF Serves
<1> QED BY <1>2, <1>3, <1>7, <1>8 DEF MoInv

\* A connection is asked for while the transaction before is in order.
LEMMA OpenMo ==
  ASSUME Regular, NEW r, r.ti \in MoTis, r.timer_ti = NextTi(r), r.est = "SEND" => r.sdu,
         NEW p \in Seq(Messages), Items(p) \subseteq Requests(r.ti),
         NEW q \in Seq(Indications), \A m \in Items(q) : m.ti = r.ti,
         NEW c, \A t \in MoTis : t # r.ti => c[t] = "none",
         c[r.ti] # "none" => RelReq(r.ti) \in Items(p),
         NEW x, \A t \in MoTis : x[t] # None => c[t] = "open"
  PROVE  Opening(r, Append(p, EstReq(NextTi(r))), q, c, x)
<1> DEFINE u == NextTi(r)
           e == EstReq(u)
           pp == Append(p, e)
<1>1. u \in MoTis /\ u # r.ti
  BY MoTiTypes DEF NextTi, Regular
<1>2. e \in Messages
  BY <1>1, MoMessages, NumberTypes
<1> HIDE DEF e
<1>3. /\ Len(pp) = Len(p) + 1 /\ Len(p) \in Nat /\ pp[Len(pp)] = e
      /\ \A i \in 1 .. Len(p) : pp[i] = p[i] /\ p[i] \in Items(p)
  BY <1>2 DEF Items
<1>4. \A i \in 1 .. Len(pp) - 1 : pp[i] \in Requests(r.ti)
  BY <1>3
<1>5. Len(q) \in Nat /\ \A i \in 1 .. Len(q) : q[i].ti = r.ti
  BY DEF Items
<1>6. c[u] = "none" /\ x[u] = None
  BY <1>1
<1>7. Opened(q, Len(q), c[u], u)
  BY <1>6 DEF Opened
<1>8. c[r.ti] # "none" => RelReq(r.ti) \in Items(pp)
  BY <1>2, ItemsAppend
<1> HIDE DEF pp, u
<1> QED BY <1>1, <1>3, <1>4, <1>5, <1>6, <1>7, <1>8 DEF Opening, pp, e, u

LEMMA UserSubmitsMo ==
  ASSUME MoInv, Regular, UserSubmits
  PROVE  MoInv' /\ (~mixed' => Serves(sms, sms', accepted))
<1> DEFINE f == Fresh(sms)
<1>1. /\ MoTypes /\ MoSlot(sms) /\ SmsStep /\ toSMS' = toSMS /\ mixed' = mixed
      /\ sms.ti \in MoTis /\ toMM \in Seq(Messages) /\ toSMS \in Seq(Indications)
      /\ mixed \in BOOLEAN
  BY DEF MoInv, MoTypes, MoSlot, UserSubmits
<1>2. Blank(f) /\ Alike(sms, f) /\ f.sdu = sms.sdu
  BY <1>1, FreshMo
<1>3. PICK auto_rep \in BOOLEAN : sms' = tl_mnsms_submit_req(f, auto_rep)
  BY DEF UserSubmits, SubmitReq
<1> HIDE DEF f
<1>4. CASE ~Idle(f)
  <2>1. Alike(f, sms') /\ sms'.sdu = f.sdu /\ sms'.out = <<>> /\ sms'.up = <<"submit_busy">>
    BY <1>2, <1>3, <1>4, SubmitMo
  <2>2. Alike(sms, sms') /\ sms'.sdu = sms.sdu /\ Silent(sms')
    BY <1>2, <2>1 DEF Alike, Silent
  <2> QED BY <1>1, <2>1, <2>2, NothingMo
<1>5. CASE Idle(f)
  <2>1. /\ MoSlot(sms') /\ Asking(sms') /\ sms'.est = "SEND" /\ sms'.sdu = TRUE
        /\ sms'.ti = f.ti /\ sms'.timer_ti = NextTi(f)
        /\ sms'.out = <<EstReq(NextTi(f))>> /\ sms'.up = <<>>
    BY <1>2, <1>3, <1>5, SubmitMo
  <2>2. f.ti = sms.ti /\ Idle(sms) /\ sms.cp = "IDLE"
    BY <1>2, <1>5 DEF Alike, Idle
  <2>3. NextTi(f) = NextTi(sms') /\ NextTi(f) \in MoTis
    BY <1>1, <2>1, <2>2, MoTiTypes DEF NextTi
  <2>4. EstReq(NextTi(sms')) \in Messages
    BY <2>3, MoMessages, NumberTypes
  <2>5. /\ MoTypes' /\ toMM' = Append(toMM, EstReq(NextTi(sms'))) /\ conn' = conn /\ rx' = rx
    BY <1>1, <2>1, <2>3, <2>4, SmsStepMo
  <2>6. ASSUME ~mixed
        PROVE  Opening(sms', toMM', toSMS, conn, rx)
    <3>1. Steady(sms, toMM, toSMS, conn, rx)
      BY <2>2, <2>6 DEF MoInv, InOrder
    <3>2. \A t \in MoTis : rx[t] # None => conn[t] = "open"
      BY <1>1 DEF MoTypes
    <3>3. sms'.est = "SEND" => sms'.sdu
      BY <2>1
    <3>4. /\ Items(toMM) \subseteq Requests(sms'.ti)
          /\ \A m \in Items(toSMS) : m.ti = sms'.ti
          /\ \A t \in MoTis : t # sms'.ti => conn[t] = "none"
          /\ conn[sms'.ti] # "none" => RelReq(sms'.ti) \in Items(toMM)
          /\ sms'.timer_ti = NextTi(sms') /\ sms'.ti \in MoTis
      BY <1>1, <2>1, <2>2, <2>3, <3>1 DEF Steady
    <3>5. Opening(sms', Append(toMM, EstReq(NextTi(sms'))), toSMS, conn, rx)
      BY <1>1, <3>2, <3>3, <3>4, OpenMo
    <3> QED BY <2>5, <3>5
  <2>7. ~mixed' => InOrder'
    BY <1>1, <2>1, <2>5, <2>6 DEF InOrder, Asking
  <2>8. Serves(sms, sms', accepted)
    BY <2>1, <2>2 DEF Serves
  <2> QED BY <2>1, <2>5, <2>7, <2>8 DEF MoInv
<1> QED BY <1>4, <1>5

\* The queues are empty when a timer expires.
LEMMA SmsTC1MMo ==
  ASSUME MoInv, SmsTC1M
  PROVE  MoInv' /\ (~mixed' => Serves(sms, sms', accepted))
<1> DEFINE f == [Fresh(sms) EXCEPT !.tc1m = FALSE]
<1>1. /\ MoTypes /\ MoSlot(sms) /\ SmsStep /\ toSMS' = toSMS /\ mixed' = mixed
      /\ sms.ti \in MoTis /\ toMM = <<>> /\ toSMS = <<>>
      /\ toMM \in Seq(Messages) /\ toSMS \in Seq(Indications) /\ mixed \in BOOLEAN
  BY DEF MoInv, MoTypes, MoSlot, SmsTC1M, Timeout
<1>2. Blank(f) /\ Alike(sms, f) /\ f.sdu = sms.sdu
  BY <1>1, FreshMo
<1>3. sms' = tim_tc1m(f)
  BY DEF SmsTC1M, Timeout, TC1M
<1> HIDE DEF f
<1>4. CASE f.cp # "WAIT_FOR_ACK"
  <2>1. sms' = f
    BY <1>2, <1>3, <1>4, TC1MMo
  <2>2. Silent(sms') /\ sms'.out = <<>>
    BY <1>2, <2>1 DEF Blank, Silent
  <2> QED BY <1>1, <1>2, <2>1, <2>2, NothingMo
<1>5. CASE f.cp = "WAIT_FOR_ACK"
  <2>1. /\ MoSlot(sms') /\ Sending(f)
        /\ \/ Alike(f, sms') /\ sms'.out = <<f.data_req>> /\ sms'.up = <<>>
           \/ Leaves(f, sms') /\ Failed(sms') /\ sms'.out = <<RelReq(f.ti)>>
    BY <1>2, <1>3, <1>5, TC1MMo
  <2>2. /\ f.ti = sms.ti /\ f.data_req = sms.data_req /\ f.tp_mr = sms.tp_mr
        /\ f.timer_ti = sms.timer_ti /\ sms.cp = "WAIT_FOR_ACK" /\ Sending(sms)
    BY <1>1, <1>2, <1>5, <2>1, AlikeMo DEF Alike
  <2>3. /\ MoTypes' /\ Items(toMM') = Items(toMM) \cup Items(sms'.out)
        /\ conn' = conn /\ rx' = rx
    BY <1>1, <2>1, SmsStepMo
  <2>4. ~Waiting(sms') /\ Connected(sms) /\ ~Idle(sms) /\ sms'.ti = sms.ti
        /\ sms'.timer_ti = sms.timer_ti /\ sms'.tp_mr = sms.tp_mr /\ sms'.cp # "PENDING"
    BY <2>1, <2>2 DEF Alike, Leaves, Kin, Sending, Idle, Waiting, Resending, Connected
  <2>5. ASSUME ~mixed
        PROVE  Steady(sms', toMM', toSMS, conn, rx)
    <3>1. Steady(sms, toMM, toSMS, conn, rx)
      BY <2>2, <2>5 DEF MoInv, InOrder
    <3>2. PICK M : Goes(sms, sms', M, conn) /\ Items(sms'.out) = M
      <4>1. CASE Alike(f, sms') /\ sms'.out = <<f.data_req>>
        <5>1. sms.data_req.ti = sms.ti
          BY <2>4, <3>1 DEF Steady, Current
        <5>2. sms.data_req \in Requests(sms.ti) /\ sms.data_req.ref = sms.tp_mr
          BY <2>2, <5>1 DEF Sending, Requests
        <5>3. sms'.cp # "IDLE" /\ sms'.data_req = sms.data_req
          BY <1>5, <2>2, <4>1 DEF Alike
        <5>4. Goes(sms, sms', {sms.data_req}, conn)
          BY <2>4, <5>2, <5>3 DEF Goes
        <5> QED BY <2>2, <4>1, <5>4, ShortItems
      <4>2. CASE Leaves(f, sms') /\ sms'.out = <<RelReq(f.ti)>>
        <5>1. ~Connected(sms')
          BY <4>2 DEF Leaves, Idle, Resending, Connected
        <5>2. Goes(sms, sms', {RelReq(sms.ti)}, conn)
          BY <1>1, <2>4, <5>1, MoRequests DEF Goes
        <5> QED BY <2>2, <4>2, <5>2, ShortItems
      <4> QED BY <2>1, <4>1, <4>2
    <3>3. toMM' \in Seq(Messages)
      BY <2>3 DEF MoTypes
    <3>4. Items(toMM') = Items(toMM) \cup M /\ Items(toSMS) \subseteq Items(toSMS)
      BY <2>3, <3>2
    <3> QED BY <1>1, <3>1, <3>2, <3>3, <3>4, SteadyStep
  <2>6. ~mixed' => InOrder'
    BY <1>1, <2>3, <2>4, <2>5 DEF InOrder
  <2>7. Serves(sms, sms', accepted)
    <3>1. Silent(sms')
      BY <2>1 DEF Leaves, Failed, Silent
    <3> QED BY <2>4, <3>1 DEF Serves
  <2> QED BY <2>1, <2>3, <2>6, <2>7 DEF MoInv
<1> QED BY <1>4, <1>5

\* What TL's retry leaves, with empty queues before.
LEMMA RetriedMo ==
  ASSUME Regular, NEW s, MoSlot(s), NEW r, Retries(s, r, Abort(s)), r.ti = Timed(s),
         Timed(s) = s.timer_ti, s.rl \in {"ESTABLISH", "WAIT_FOR_ACK"},
         s.tl = "ESTABLISH" /\ s.est = "SEND" => s.sdu,
         NEW c, \A t \in MoTis : t # r.ti => c[t] = "none",
         c[r.ti] # "none" => RelReq(r.ti) \in Items(Abort(s)),
         NEW x, \A t \in MoTis : x[t] # None => c[t] = "open"
  PROVE  /\ r.cp # "PENDING" => Steady(r, r.out, <<>>, c, x)
         /\ r.cp = "PENDING" => Opening(r, r.out, <<>>, c, x)
<1>1. r.ti \in MoTis /\ MoSlot(r)
  BY DEF Timed, MoSlot, Retries
<1>2. Abort(s) \in Seq(Messages) /\ Items(Abort(s)) \subseteq Requests(r.ti)
  <2>1. RelReq(r.ti) \in Messages /\ CpError(r.ti) \in Messages
    BY <1>1, MoMessages, NumberTypes
  <2>2. /\ RelReq(r.ti) \in Requests(r.ti) /\ CpError(r.ti) \in Requests(r.ti)
    BY <1>1, MoRequests
  <2>3. \/ Abort(s) = <<RelReq(r.ti)>>
        \/ Abort(s) = <<CpError(r.ti), RelReq(r.ti)>>
        \/ Abort(s) = <<>>
    BY DEF Abort, Timed, Sending
  <2>4. /\ <<RelReq(r.ti)>> \in Seq(Messages) /\ <<CpError(r.ti), RelReq(r.ti)>> \in Seq(Messages)
        /\ <<>> \in Seq(Messages)
    BY <2>1
  <2>5. /\ Items(<<RelReq(r.ti)>>) = {RelReq(r.ti)} /\ Items(<<>>) = {}
        /\ Items(<<CpError(r.ti), RelReq(r.ti)>>) = {CpError(r.ti), RelReq(r.ti)}
    BY ShortItems
  <2> QED BY <2>2, <2>3, <2>4, <2>5
<1>3. CASE Asking(r)
  <2>1. r.timer_ti = NextTi(r) /\ r.out = Append(Abort(s), EstReq(NextTi(r)))
        /\ (r.est = "SEND" => s.tl = "ESTABLISH" /\ s.est = "SEND" /\ r.sdu = s.sdu)
    BY <1>3 DEF Retries, Asking, Stuck, Idle
  <2>2. r.est = "SEND" => r.sdu
    BY <2>1
  <2>3. <<>> \in Seq(Indications) /\ \A m \in Items(<<>>) : m.ti = r.ti
    BY ShortItems
  <2>4. Opening(r, Append(Abort(s), EstReq(NextTi(r))), <<>>, c, x)
    BY <1>1, <1>2, <2>1, <2>2, <2>3, OpenMo
  <2> QED BY <1>3, <2>1, <2>4 DEF Asking
<1>4. CASE ~Asking(r)
  <2>1. /\ r.timer_ti = s.timer_ti /\ r.out = Abort(s) /\ r.cp = "IDLE"
        /\ Stuck(r) \/ Idle(r)
    BY <1>4 DEF Retries, Stuck, Idle
  <2>2. ~Waiting(r) /\ ~Connected(r)
    BY <2>1 DEF Stuck, Idle, Waiting, Connected
  <2> QED BY <1>2, <2>1, <2>2, ShortItems DEF Steady
<1> QED BY <1>3, <1>4

LEMMA SmsTR1MMo ==
  ASSUME MoInv, Regular, SmsTR1M
  PROVE  MoInv' /\ (~mixed' => Serves(sms, sms', accepted))
<1> DEFINE f == [Fresh(sms) EXCEPT !.tr1m = FALSE]
<1>1. /\ MoTypes /\ MoSlot(sms) /\ SmsStep /\ toSMS' = toSMS /\ mixed' = mixed
      /\ sms.ti \in MoTis /\ toMM = <<>> /\ toSMS = <<>>
      /\ toMM \in Seq(Messages) /\ toSMS \in Seq(Indications) /\ mixed \in BOOLEAN
  BY DEF MoInv, MoTypes, MoSlot, SmsTR1M, Timeout
<1>2. Blank(f) /\ Alike(sms, f) /\ f.sdu = sms.sdu
  BY <1>1, FreshMo
<1>3. sms' = tim_tr1m(f)
  BY DEF SmsTR1M, Timeout, TR1M
<1> HIDE DEF f
<1>4. CASE f.rl \notin {"ESTABLISH", "WAIT_FOR_ACK"}
  <2>1. sms' = f
    BY <1>2, <1>3, <1>4, TR1MMo
  <2>2. Silent(sms') /\ sms'.out = <<>>
    BY <1>2, <2>1 DEF Blank, Silent
  <2> QED BY <1>1, <1>2, <2>1, <2>2, NothingMo
<1>5. CASE f.rl \in {"ESTABLISH", "WAIT_FOR_ACK"}
  <2>1. Retries(f, sms', Abort(f)) /\ sms'.ti = Timed(f)
    BY <1>2, <1>3, <1>5, TR1MMo
  <2>2. /\ f.ti = sms.ti /\ f.timer_ti = sms.timer_ti /\ f.tp_mr = sms.tp_mr /\ f.cp = sms.cp
        /\ f.rl = sms.rl /\ f.tl = sms.tl /\ f.est = sms.est /\ MoSlot(f) /\ MoSlot(sms')
        /\ (Idle(sms) <=> Idle(f)) /\ (Sending(sms) <=> Sending(f))
        /\ (Asking(sms) <=> Asking(f))
    BY <1>1, <1>2, <2>1, AlikeMo DEF Alike, Retries
  <2>3. /\ MoTypes' /\ toMM' = sms'.out /\ conn' = conn /\ rx' = rx
    BY <1>1, <2>2, SmsStepMo
  <2>4. ASSUME ~mixed
        PROVE  /\ sms'.cp # "PENDING" => Steady(sms', toMM', toSMS, conn, rx)
               /\ sms'.cp = "PENDING" => Opening(sms', toMM', toSMS, conn, rx)
    <3>1. \A t \in MoTis : rx[t] # None => conn[t] = "open"
      BY <1>1 DEF MoTypes
    <3>2. \A t : RelReq(t) \notin Items(toMM)
      BY <1>1, ShortItems
    <3>3. /\ Timed(f) = f.timer_ti
          /\ f.tl = "ESTABLISH" /\ f.est = "SEND" => f.sdu
          /\ \A t \in MoTis : t # sms'.ti => conn[t] = "none"
          /\ conn[sms'.ti] # "none" => RelReq(sms'.ti) \in Items(Abort(f))
      <4>1. CASE sms.cp = "PENDING"
        <5>1. Opening(sms, toMM, toSMS, conn, rx)
          BY <2>4, <4>1 DEF MoInv, InOrder
        <5>2. Asking(f)
          BY <1>1, <2>2, <4>1
             DEF MoSlot, Idle, Asking, Waiting, Stuck, Sending, Resending, Connected
        <5>3. Timed(f) = f.timer_ti /\ Abort(f) = <<RelReq(f.timer_ti)>>
          BY <5>2 DEF Asking, Timed, Abort
        <5>4. conn[sms.ti] = "none"
          BY <3>2, <5>1 DEF Opening
        <5> QED BY <1>1, <1>2, <2>1, <2>2, <5>1, <5>3, <5>4, ShortItems DEF Opening
      <4>2. CASE sms.cp # "PENDING"
        <5>1. Steady(sms, toMM, toSMS, conn, rx)
          BY <2>4, <4>2 DEF MoInv, InOrder
        <5>2. /\ Waiting(sms) \/ Resending(sms) \/ Sending(sms)
              /\ ~Asking(f)
          BY <1>1, <1>5, <2>2, <4>2
             DEF MoSlot, Idle, Asking, Waiting, Stuck, Sending, Resending, Connected
        <5>3. Timed(f) = f.timer_ti /\ Timed(f) = sms.ti
          BY <2>2, <5>1 DEF Timed, Steady
        <5>4. f.tl = "ESTABLISH" /\ f.est = "SEND" => f.sdu
          BY <1>2, <2>2, <5>1, <5>2 DEF Steady, Waiting, Resending, Sending
        <5>5. conn[sms.ti] # "none" => RelReq(sms.ti) \in Items(Abort(f))
          <6>1. CASE Sending(f)
            <7>1. Abort(f) = <<CpError(sms.ti), RelReq(sms.ti)>>
              BY <2>2, <5>2, <6>1 DEF Abort
            <7> QED BY <7>1, ShortItems
          <6>2. CASE ~Sending(f)
            <7>1. sms.cp = "IDLE"
              BY <2>2, <5>2, <6>2 DEF Waiting, Resending
            <7> QED BY <3>2, <5>1, <7>1 DEF Steady
          <6> QED BY <6>1, <6>2
        <5> QED BY <2>1, <5>1, <5>3, <5>4, <5>5 DEF Steady
      <4> QED BY <4>1, <4>2
    <3>4. /\ sms'.cp # "PENDING" => Steady(sms', sms'.out, <<>>, conn, rx)
          /\ sms'.cp = "PENDING" => Opening(sms', sms'.out, <<>>, conn, rx)
      BY <1>5, <2>1, <2>2, <3>1, <3>3, RetriedMo
    <3> QED BY <1>1, <2>3, <3>4
  <2>5. ~mixed' => InOrder'
    BY <1>1, <2>3, <2>4 DEF InOrder
  <2>6. Serves(sms, sms', accepted)
    <3>1. ~Idle(sms)
      BY <1>5, <2>2 DEF Idle
    <3>2. Silent(sms') /\ sms'.tp_mr = sms.tp_mr
      BY <2>1, <2>2 DEF Retries, Silent
    <3> QED BY <3>1, <3>2 DEF Serves
  <2> QED BY <2>2, <2>3, <2>5, <2>6 DEF MoInv
<1> QED BY <1>4, <1>5

\* The first indication is handled, when no connection is asked for.
LEMMA ReceivesSteady ==
  ASSUME MoInv, ~mixed, sms.cp # "PENDING", toSMS # <<>>,
         NEW f, Blank(f), Alike(sms, f), f.sdu = sms.sdu, NEW r,
         NEW h, h = Head(toSMS),
         \/ h.m = "ESTABLISH_CNF" /\ r = cp_mmsms_establish_cnf(f, h.ti, TRUE)
         \/ h.m = "RELEASE_IND" /\ r = cp_mmsms_release_ind(f, h.ti, h.cause)
         \/ h.m = "ERROR_IND" /\ r = cp_mmsms_error_ind(f, h.ti, h.cause)
         \/ h.m = "DATA_IND" /\ r = for_mmsms_data_ind(f, h.ti, h.d)
  PROVE  /\ Goes(sms, r, Items(r.out), conn) /\ r.cp # "PENDING"
         /\ Serves(sms, r, accepted)
<1>1. /\ MoTypes /\ MoSlot(sms) /\ sms.ti \in MoTis /\ toSMS \in Seq(Indications)
      /\ Steady(sms, toMM, toSMS, conn, rx)
  BY DEF MoInv, MoTypes, MoSlot, InOrder
<1>2. h \in Indications /\ h \in Items(toSMS)
  BY <1>1, ItemsTail
<1>3. /\ h.ti = sms.ti
      /\ h.m \in {"RELEASE_IND", "ERROR_IND"} => h.cause \in Causes
      /\ h.m = "DATA_IND" => Downlinks(h.d)
  BY <1>1, <1>2, IndicationKinds DEF Steady
<1>4. /\ f.ti = sms.ti /\ f.timer_ti = sms.timer_ti /\ f.tp_mr = sms.tp_mr /\ f.cp = sms.cp
      /\ f.data_req = sms.data_req /\ f \in Slots
      /\ (Idle(sms) <=> Idle(f)) /\ (Asking(sms) <=> Asking(f)) /\ (Sending(sms) <=> Sending(f))
      /\ (Connected(sms) <=> Connected(f)) /\ (Waiting(sms) <=> Waiting(f))
  BY <1>1, AlikeMo DEF Alike
<1>5. ~Asking(sms) /\ ~Waiting(sms)
  BY <1>1 DEF Asking, Steady
<1>6. ASSUME Alike(f, r), Silent(r), Items(r.out) \subseteq {RelReq(sms.ti)}
      PROVE  /\ Goes(sms, r, Items(r.out), conn) /\ r.cp # "PENDING"
             /\ Serves(sms, r, accepted)
  <2>1. /\ (Idle(f) <=> Idle(r)) /\ (Waiting(f) <=> Waiting(r)) /\ (Connected(f) <=> Connected(r))
    BY <1>6, AlikeMo DEF Blank
  <2>2. /\ r.ti = sms.ti /\ r.timer_ti = sms.timer_ti /\ r.tp_mr = sms.tp_mr /\ r.cp = sms.cp
        /\ r.data_req = sms.data_req
    BY <1>4, <1>6 DEF Alike
  <2>3. Goes(sms, r, Items(r.out), conn)
    BY <1>1, <1>4, <1>5, <1>6, <2>1, <2>2, MoRequests, MoFields DEF Goes
  <2> QED BY <1>4, <1>6, <2>1, <2>2, <2>3 DEF Serves
<1>7. ASSUME Connected(sms), Leaves(f, r), Items(r.out) \subseteq Requests(sms.ti),
             RelReq(sms.ti) \in Items(r.out) \/ conn[sms.ti] = "none",
             Failed(r) \/ sms.tp_mr \in accepted
      PROVE  /\ Goes(sms, r, Items(r.out), conn) /\ r.cp # "PENDING"
             /\ Serves(sms, r, accepted)
  <2>1. /\ r.ti = sms.ti /\ r.timer_ti = sms.timer_ti /\ r.tp_mr = sms.tp_mr /\ r.cp = "IDLE"
        /\ ~Connected(r) /\ ~Waiting(r)
    BY <1>4, <1>7 DEF Leaves, Kin, Idle, Resending, Connected, Waiting
  <2>2. Goes(sms, r, Items(r.out), conn)
    BY <1>7, <2>1 DEF Goes
  <2>3. ~Idle(sms)
    BY <1>7 DEF Idle, Connected
  <2>4. Serves(sms, r, accepted)
    BY <1>7, <2>1, <2>3 DEF Leaves, Failed, Serves, Silent
  <2> QED BY <2>1, <2>2, <2>4
<1>8. sms.cp = "IDLE" \/ Connected(sms)
  BY <1>1 DEF MoSlot, Slots, Connected
<1>9. Connected(sms) => Sending(f)
  BY <1>1, <1>4 DEF MoSlot, Idle, Asking, Waiting, Stuck, Sending, Resending, Connected
<1>10. CASE h.m = "ESTABLISH_CNF"
  <2>1. r = cp_mmsms_establish_cnf(f, sms.ti, TRUE)
    BY <1>3, <1>10
  <2> DEFINE e == cp_mmsms_establish_cnf(f, sms.ti, TRUE)
  <2>8. ~Asking(f)
    BY <1>4, <1>5
  <2>9. ~Asking(f) => /\ e = [f EXCEPT !.ti = sms.ti, !.cp_ack_pending = FALSE]
                      /\ MoSlot(e) /\ e.out = <<>> /\ e.up = <<>>
    <3>1. Blank(f) /\ sms.ti \in MoTis
      BY <1>1
    <3> QED BY <3>1, ConfirmMo, Zenon
  <2> HIDE DEF e
  <2>2. /\ r = [f EXCEPT !.ti = sms.ti, !.cp_ack_pending = FALSE]
        /\ r.out = <<>> /\ r.up = <<>> /\ MoSlot(r)
    BY <2>1, <2>8, <2>9 DEF e
  <2>3. /\ r.ti = sms.ti /\ r.timer_ti = sms.timer_ti /\ r.tp_mr = sms.tp_mr /\ r.cp = sms.cp
        /\ r.rl = f.rl /\ r.tl = f.tl /\ r.data_req = sms.data_req
    BY <1>4, <2>2 DEF Slots
  <2>4. (Idle(f) <=> Idle(r)) /\ (Connected(f) <=> Connected(r)) /\ (Waiting(f) => ~Connected(r))
    BY <1>4, <2>3 DEF Idle, Connected, Waiting
  <2>5. ~Waiting(r)
    <3>1. f.est = r.est
      BY <1>4, <2>2 DEF Slots
    <3> QED BY <1>4, <1>5, <2>3, <3>1 DEF Waiting, Keeps
  <2>6. Items(r.out) = {}
    BY <2>2, ShortItems
  <2>7. Goes(sms, r, Items(r.out), conn)
    BY <1>4, <2>3, <2>4, <2>5, <2>6 DEF Goes
  <2> QED BY <1>4, <2>2, <2>3, <2>4, <2>7 DEF Serves, Silent
<1>11. CASE h.m = "RELEASE_IND"
  <2>1. conn[sms.ti] = "none"
    BY <1>1, <1>2, <1>11 DEF Steady
  <2>2. r = cp_mmsms_release_ind(f, sms.ti, h.cause) /\ h.cause \in Causes
    BY <1>3, <1>11
  <2>3. /\ r.out = <<>> /\ Failed(r)
        /\ f.cp = "IDLE" => Alike(f, r) /\ r.up = <<>>
        /\ Sending(f) => Leaves(f, r)
    BY <1>1, <1>4, <2>2, LossMo
  <2>4. Items(r.out) = {}
    BY <2>3, ShortItems
  <2> QED BY <1>4, <1>6, <1>7, <1>8, <1>9, <2>1, <2>3, <2>4 DEF Silent
<1>12. CASE h.m = "ERROR_IND"
  <2>1. r = cp_mmsms_error_ind(f, sms.ti, h.cause) /\ h.cause \in Causes
    BY <1>3, <1>12
  <2>2. /\ r.out = <<RelReq(sms.ti)>> /\ Failed(r)
        /\ f.cp = "IDLE" => Alike(f, r) /\ r.up = <<>>
        /\ Sending(f) => Leaves(f, r)
    BY <1>1, <1>4, <2>1, LossMo
  <2>3. Items(r.out) = {RelReq(sms.ti)}
    BY <2>2, ShortItems
  <2>4. RelReq(sms.ti) \in Requests(sms.ti)
    BY <1>1, MoRequests
  <2> QED BY <1>4, <1>6, <1>7, <1>8, <1>9, <2>2, <2>3, <2>4 DEF Silent
<1>13. CASE h.m = "DATA_IND"
  <2>1. r = for_mmsms_data_ind(f, sms.ti, h.d) /\ Downlinks(h.d)
    BY <1>3, <1>13
  <2>2. /\ ~Connected(f) => r = f
        /\ Connected(f) =>
             /\ MoSlot(r) /\ Kin(f, r)
             /\ \/ /\ Sending(r) /\ r.data_req = f.data_req
                   /\ r.out = <<>> /\ r.up = <<>>
                \/ /\ Leaves(f, r) /\ r.out \in Endings(f.ti)
                   /\ ~Failed(r) => h.d.cp = "CP_DATA" /\ h.d.rp \in Confirms
    BY <2>1, DataMo
  <2>3. CASE ~Connected(f)
    <3>1. r = f /\ r.out = <<>> /\ r.up = <<>> /\ Items(r.out) = {}
      BY <2>2, <2>3, ShortItems DEF Blank
    <3>2. Alike(f, r)
      BY <1>4, <3>1 DEF Alike
    <3> QED BY <1>6, <3>1, <3>2 DEF Silent
  <2>4. CASE Connected(f) /\ Leaves(f, r) /\ r.out \in Endings(f.ti)
    <3>1. Items(r.out) \subseteq Requests(sms.ti) /\ RelReq(sms.ti) \in Items(r.out)
      BY <1>1, <1>4, <2>4, EndingItems
    <3>2. ~Failed(r) => sms.tp_mr \in accepted
      <4> SUFFICES ASSUME ~Failed(r)
                   PROVE  sms.tp_mr \in accepted
        OBVIOUS
      <4>1. IsAnswer(h) /\ Confirming(h)
        <5>1. ~Sending(r)
          BY <2>4 DEF Leaves, Idle, Resending, Sending, Connected
        <5> QED BY <1>13, <2>2, <2>4, <5>1 DEF IsAnswer, Confirming
      <4>2. h.d.ref = sms.tp_mr
        BY <1>1, <1>2, <1>4, <2>4, <4>1 DEF Steady, Current
      <4> QED BY <1>1, <1>2, <4>1, <4>2 DEF MoTypes
    <3> QED BY <1>4, <1>7, <2>4, <3>1, <3>2
  <2>5. CASE Connected(f) /\ Sending(r) /\ r.data_req = f.data_req /\ r.out = <<>> /\ r.up = <<>>
    <3>1. /\ Kin(f, r) /\ Items(r.out) = {}
      BY <2>2, <2>5, ShortItems
    <3>2. /\ r.ti = sms.ti /\ r.timer_ti = sms.timer_ti /\ r.tp_mr = sms.tp_mr
          /\ r.cp # "IDLE" /\ r.cp # "PENDING" /\ ~Idle(r) /\ ~Idle(sms) /\ ~Waiting(r)
      BY <1>4, <2>5, <3>1 DEF Kin, Sending, Connected, Idle, Waiting
    <3>3. Goes(sms, r, Items(r.out), conn)
      BY <1>4, <2>5, <3>1, <3>2 DEF Goes
    <3> QED BY <2>5, <3>2, <3>3 DEF Serves, Silent
  <2> QED BY <2>2, <2>3, <2>4, <2>5
<1> QED BY <1>10, <1>11, <1>12, <1>13

\* The first indication about the connection that is asked for: all of the transaction before
\* is gone.
LEMMA OpeningHead ==
  ASSUME NEW s, NEW p \in Seq(Messages), NEW q \in Seq(Indications), q # <<>>, NEW c, NEW x,
         Opening(s, p, q, c, x), Head(q).ti # s.ti
  PROVE  /\ p = <<>> /\ c[s.ti] = "none" /\ Head(q).ti = s.timer_ti
         /\ \A m \in Items(Tail(q)) : /\ m.ti = s.timer_ti
                                      /\ m.m \in {"ERROR_IND", "RELEASE_IND"}
                                      /\ m.m = "RELEASE_IND" => c[s.timer_ti] = "none"
         /\ \/ Head(q).m = "ESTABLISH_CNF"
            \/ Head(q).m = "RELEASE_IND" /\ c[s.timer_ti] = "none" /\ Tail(q) = <<>>
<1> DEFINE u == s.timer_ti
           z == Tail(q)
<1>1. /\ Len(q) \in Nat \ {0} /\ Head(q) = q[1] /\ z \in Seq(Indications)
      /\ Len(z) = Len(q) - 1 /\ DOMAIN z = 1 .. Len(z)
      /\ \A i \in 1 .. Len(q) - 1 : z[i] = q[i + 1]
  OBVIOUS
<1> HIDE DEF z
<1>2. PICK j \in 0 .. Len(q) : /\ \A i \in 1 .. j : q[i].ti = s.ti
                               /\ Opened(q, j, c[u], u)
  BY DEF Opening
<1>3. j = 0
  BY <1>1, <1>2
<1>4. p = <<>>
  BY <1>1 DEF Opening
<1>5. c[s.ti] = "none"
  BY <1>4, ShortItems DEF Opening
<1>6. \/ Len(q) = 1 /\ Of(q[1], "ESTABLISH_CNF", u)
      \/ Len(q) = 1 /\ Of(q[1], "RELEASE_IND", u) /\ c[u] = "none"
      \/ /\ Len(q) = 2 /\ Of(q[1], "ESTABLISH_CNF", u)
         /\ \/ Of(q[2], "ERROR_IND", u)
            \/ Of(q[2], "RELEASE_IND", u) /\ c[u] = "none"
  BY <1>1, <1>2, <1>3 DEF Opened
<1>7. CASE Len(q) = 1
  <2>1. Len(z) = 0
    BY <1>1, <1>7
  <2>2. z = <<>> /\ Items(z) = {}
    BY <1>1, <2>1, EmptySeq, ShortItems
  <2> QED BY <1>1, <1>4, <1>5, <1>6, <1>7, <2>2 DEF Of, z
<1>8. CASE Len(q) = 2
  <2>1. /\ Len(z) = 1 /\ z[1] = q[2] /\ DOMAIN z = {1}
    BY <1>1, <1>8
  <2>2. Items(z) = {q[2]}
    BY <2>1 DEF Items
  <2> QED BY <1>1, <1>4, <1>5, <1>6, <1>8, <2>2 DEF Of, z
<1> QED BY <1>6, <1>7, <1>8

\* The first indication is handled, when a connection is asked for.
LEMMA ReceivesOpening ==
  ASSUME MoInv, ~mixed, sms.cp = "PENDING", toSMS # <<>>,
         NEW f, Blank(f), Alike(sms, f), f.sdu = sms.sdu, NEW r,
         NEW h, h = Head(toSMS), ~OfOlderTransaction(h),
         \/ h.m = "ESTABLISH_CNF" /\ r = cp_mmsms_establish_cnf(f, h.ti, TRUE)
         \/ h.m = "RELEASE_IND" /\ r = cp_mmsms_release_ind(f, h.ti, h.cause)
         \/ h.m = "ERROR_IND" /\ r = cp_mmsms_error_ind(f, h.ti, h.cause)
         \/ h.m = "DATA_IND" /\ r = for_mmsms_data_ind(f, h.ti, h.d)
  PROVE  /\ \/ h.ti = sms.ti /\ Alike(sms, r) /\ r.sdu = sms.sdu /\ r.out = <<>>
            \/ /\ toMM = <<>> /\ r.cp # "PENDING"
               /\ r.out \in Seq(Messages) => Steady(r, r.out, Tail(toSMS), conn, rx)
         /\ Serves(sms, r, accepted)
<1> DEFINE u == sms.timer_ti
<1>1. /\ MoTypes /\ MoSlot(sms) /\ sms.ti \in MoTis /\ u \in MoTis /\ toSMS \in Seq(Indications)
      /\ toMM \in Seq(Messages) /\ Opening(sms, toMM, toSMS, conn, rx)
  BY DEF MoInv, MoTypes, MoSlot, InOrder
<1>2. h \in Indications /\ h \in Items(toSMS)
  BY <1>1, ItemsTail
<1>3. /\ h.m \in {"ESTABLISH_CNF", "RELEASE_IND", "ERROR_IND", "DATA_IND"}
      /\ h.m \in {"RELEASE_IND", "ERROR_IND"} => h.cause \in Causes
      /\ h.m = "DATA_IND" => Downlinks(h.d)
  BY <1>2, IndicationKinds
<1>4. /\ f.ti = sms.ti /\ f.timer_ti = u /\ f.tp_mr = sms.tp_mr /\ f.cp = "PENDING"
      /\ f.est = sms.est /\ f \in Slots
      /\ (Idle(sms) <=> Idle(f)) /\ (Asking(sms) <=> Asking(f))
  BY <1>1, AlikeMo DEF Alike
<1>5. /\ Asking(f) /\ ~Idle(sms) /\ ~Connected(f)
  BY <1>1, <1>4 DEF MoSlot, Idle, Asking, Waiting, Stuck, Sending, Resending, Connected
<1>6. h.m # "DATA_IND" => h.ti = u
  BY DEF OfOlderTransaction
<1>7. sms.ti # u
  BY <1>1 DEF Opening
<1>8. CASE h.ti = sms.ti
  <2>1. h.m = "DATA_IND"
    BY <1>6, <1>7, <1>8
  <2>2. r = for_mmsms_data_ind(f, h.ti, h.d) /\ Downlinks(h.d)
    BY <1>3, <2>1
  <2>3. ~Connected(f) => r = f
    BY <2>2, DataMo
  <2>4. r = f /\ r.out = <<>> /\ r.up = <<>>
    BY <1>5, <2>3 DEF Blank
  <2>5. Serves(sms, r, accepted)
    BY <1>4, <2>4 DEF Serves, Silent
  <2> QED BY <1>8, <2>4, <2>5
<1>9. CASE h.ti # sms.ti
  <2>1. /\ toMM = <<>> /\ conn[sms.ti] = "none" /\ h.ti = u
        /\ \A m \in Items(Tail(toSMS)) : /\ m.ti = u
                                         /\ m.m \in {"ERROR_IND", "RELEASE_IND"}
                                         /\ m.m = "RELEASE_IND" => conn[u] = "none"
        /\ \/ h.m = "ESTABLISH_CNF"
           \/ h.m = "RELEASE_IND" /\ conn[u] = "none" /\ Tail(toSMS) = <<>>
    BY <1>1, <1>9, OpeningHead
  <2>2. /\ \A t \in MoTis : t # u => conn[t] = "none"
        /\ rx[u] = None
        /\ sms.est = "SEND" => sms.sdu
    BY <1>1, <2>1 DEF Opening
  <2>3. CASE h.m = "ESTABLISH_CNF"
    <3> DEFINE e == cp_mmsms_establish_cnf(f, u, TRUE)
    <3>1. Asking(f) => /\ MoSlot(e) /\ Sending(e) /\ e.ti = u /\ e.timer_ti = f.timer_ti
                       /\ e.tp_mr = f.tp_mr /\ e.cp = "WAIT_FOR_ACK"
                       /\ e.data_req = Submission(u, f.tp_mr) /\ e.out = <<e.data_req>>
                       /\ e.up = <<>>
      BY <1>1, ConfirmMo, Zenon
    <3>2. r = e
      BY <2>1, <2>3
    <3> HIDE DEF e
    <3>3. /\ Sending(r) /\ r.ti = u /\ r.timer_ti = u /\ r.tp_mr = sms.tp_mr
          /\ r.cp = "WAIT_FOR_ACK" /\ r.data_req = Submission(u, sms.tp_mr)
          /\ r.out = <<Submission(u, sms.tp_mr)>> /\ r.up = <<>> /\ sms.tp_mr \in Refs
      BY <1>1, <1>4, <1>5, <3>1, <3>2 DEF MoSlot, Slots
    <3>4. /\ Items(r.out) = {Submission(u, sms.tp_mr)}
          /\ Submission(u, sms.tp_mr) \in Requests(u)
      BY <1>1, <3>3, ShortItems, MoRequests
    <3>5. /\ Submission(u, sms.tp_mr).ref = sms.tp_mr /\ Submission(u, sms.tp_mr).ti = u
      BY DEF Submission, ToMM
    <3>6. Current(r, r.out, Tail(toSMS), rx)
      <4>1. \A m \in Items(Tail(toSMS)) : ~IsAnswer(m)
        BY <2>1 DEF IsAnswer
      <4> QED BY <2>2, <3>3, <3>4, <3>5, <4>1 DEF Current
    <3>7. Steady(r, r.out, Tail(toSMS), conn, rx)
      BY <2>1, <2>2, <3>3, <3>4, <3>6 DEF Steady, Waiting
    <3>8. Serves(sms, r, accepted)
      <4>1. ~Idle(r)
        BY <3>3 DEF Idle
      <4> QED BY <1>5, <3>3, <4>1 DEF Serves, Silent
    <3> QED BY <2>1, <3>3, <3>7, <3>8
  <2>4. CASE h.m = "RELEASE_IND"
    <3>1. r = cp_mmsms_release_ind(f, u, h.cause) /\ h.cause \in Causes
      BY <1>3, <2>1, <2>4
    <3>2. r.out = <<>> /\ Refused(f, r, u)
      BY <1>1, <1>5, <3>1, LossMo
    <3>3. conn[u] = "none" /\ Tail(toSMS) = <<>>
      BY <2>1, <2>4
    <3>4. /\ r.ti = u /\ r.timer_ti = u /\ r.tp_mr = sms.tp_mr /\ r.cp = "IDLE"
          /\ ~Connected(r)
          /\ \/ Waiting(r) /\ r.up = <<>> /\ r.sdu = sms.sdu /\ r.est = sms.est
             \/ Idle(r) /\ r.up = <<"submit_failed">>
      BY <1>4, <3>2 DEF Refused, Waiting, Idle, Connected
    <3>5. Waiting(r) => (r.est = "SEND" => r.sdu)
      BY <2>2, <3>4 DEF Waiting, Idle
    <3>6. Items(r.out) = {}
      BY <3>2, ShortItems
    <3>7. Steady(r, r.out, Tail(toSMS), conn, rx)
      BY <2>1, <2>2, <3>2, <3>3, <3>4, <3>5, <3>6, ShortItems DEF Steady
    <3>8. Serves(sms, r, accepted)
      <4>1. CASE Waiting(r) /\ r.up = <<>>
        <5>1. ~Idle(r)
          BY <4>1 DEF Waiting, Idle
        <5> QED BY <1>5, <3>4, <4>1, <5>1 DEF Serves, Silent
      <4>2. CASE Idle(r) /\ r.up = <<"submit_failed">>
        BY <1>5, <4>2 DEF Serves, Silent
      <4> QED BY <3>4, <4>1, <4>2
    <3> QED BY <2>1, <3>4, <3>7, <3>8
  <2> QED BY <2>1, <2>3, <2>4
<1> QED BY <1>8, <1>9

LEMMA HandledMo ==
  ASSUME NEW f, Blank(f), NEW r, NEW h \in Indications,
         \/ h.m = "ESTABLISH_CNF" /\ r = cp_mmsms_establish_cnf(f, h.ti, TRUE)
         \/ h.m = "RELEASE_IND" /\ r = cp_mmsms_release_ind(f, h.ti, h.cause)
         \/ h.m = "ERROR_IND" /\ r = cp_mmsms_error_ind(f, h.ti, h.cause)
         \/ h.m = "DATA_IND" /\ r = for_mmsms_data_ind(f, h.ti, h.d)
  PROVE  MoSlot(r)
<1>1. /\ h.ti \in MoTis
      /\ h.m \in {"RELEASE_IND", "ERROR_IND"} => h.cause \in Causes
      /\ h.m = "DATA_IND" => Downlinks(h.d)
  BY IndicationKinds
<1>2. CASE h.m = "ESTABLISH_CNF"
  <2> DEFINE e == cp_mmsms_establish_cnf(f, h.ti, TRUE)
  <2>1. (Asking(f) => MoSlot(e)) /\ (~Asking(f) => MoSlot(e))
    BY <1>1, ConfirmMo, Zenon
  <2>2. r = e
    BY <1>2
  <2> HIDE DEF e
  <2> QED BY <2>1, <2>2
<1>3. CASE h.m = "RELEASE_IND"
  <2>1. r = cp_mmsms_release_ind(f, h.ti, h.cause) /\ h.cause \in Causes
    BY <1>1, <1>3
  <2> QED BY <1>1, <2>1, LossMo
<1>4. CASE h.m = "ERROR_IND"
  <2>1. r = cp_mmsms_error_ind(f, h.ti, h.cause) /\ h.cause \in Causes
    BY <1>1, <1>4
  <2> QED BY <1>1, <2>1, LossMo
<1>5. CASE h.m = "DATA_IND"
  <2>1. r = for_mmsms_data_ind(f, h.ti, h.d) /\ Downlinks(h.d)
    BY <1>1, <1>5
  <2>2. (~Connected(f) => r = f) /\ (Connected(f) => MoSlot(r))
    BY <2>1, DataMo
  <2> QED BY <2>2 DEF Blank
<1> QED BY <1>2, <1>3, <1>4, <1>5

\* SMS handles the first indication in its queue.
LEMMA SmsReceivesMo ==
  ASSUME MoInv, Regular, SmsReceives
  PROVE  MoInv' /\ (~mixed' => Serves(sms, sms', accepted))
<1> DEFINE f == Fresh(sms)
           h == Head(toSMS)
<1>1. /\ MoTypes /\ MoSlot(sms) /\ SmsStep /\ toSMS # <<>> /\ toSMS' = Tail(toSMS)
      /\ mixed' = (mixed \/ OfOlderTransaction(h)) /\ Handle(h)
      /\ toMM \in Seq(Messages) /\ toSMS \in Seq(Indications) /\ mixed \in BOOLEAN
  BY DEF MoInv, MoTypes, SmsReceives
<1>2. Blank(f) /\ Alike(sms, f) /\ f.sdu = sms.sdu
  BY <1>1, FreshMo
<1>3. \/ h.m = "ESTABLISH_CNF" /\ sms' = cp_mmsms_establish_cnf(f, h.ti, TRUE)
      \/ h.m = "RELEASE_IND" /\ sms' = cp_mmsms_release_ind(f, h.ti, h.cause)
      \/ h.m = "ERROR_IND" /\ sms' = cp_mmsms_error_ind(f, h.ti, h.cause)
      \/ h.m = "DATA_IND" /\ sms' = for_mmsms_data_ind(f, h.ti, h.d)
  <2>1. {TRUE} \cup {~PrepareFails} = {TRUE}
    BY DEF Regular
  <2> HIDE DEF f
  <2> QED BY <1>1, <2>1, Zenon DEF Handle, EstablishCnf, ReleaseInd, ErrorInd, DataInd, f
<1>4. /\ h \in Indications /\ Tail(toSMS) \in Seq(Indications)
      /\ Items(Tail(toSMS)) \subseteq Items(toSMS)
  BY <1>1, ItemsTail
<1> HIDE DEF f, h
<1>5. MoSlot(sms')
  BY <1>2, <1>3, <1>4, HandledMo, Zenon
<1>6. mixed' \in BOOLEAN /\ (~mixed' => ~mixed /\ ~OfOlderTransaction(h))
  BY <1>1 DEF OfOlderTransaction
<1>7. /\ MoTypes' /\ Items(toMM') = Items(toMM) \cup Items(sms'.out)
      /\ sms'.out = <<>> => toMM' = toMM
      /\ toMM = <<>> => toMM' = sms'.out
      /\ conn' = conn /\ rx' = rx /\ toMM' \in Seq(Messages)
  <2>1. toSMS' \in Seq(Indications) /\ Items(toSMS') \subseteq Items(toSMS)
    BY <1>1, <1>4
  <2> QED BY <1>1, <1>5, <1>6, <2>1, SmsStepMo DEF MoTypes
<1>8. ASSUME ~mixed', sms.cp # "PENDING"
      PROVE  InOrder' /\ Serves(sms, sms', accepted)
  <2>1. /\ Goes(sms, sms', Items(sms'.out), conn) /\ sms'.cp # "PENDING"
        /\ Serves(sms, sms', accepted)
    <3>1. h = Head(toSMS) /\ ~mixed
      BY <1>6, <1>8 DEF h
    <3> QED BY <1>1, <1>2, <1>3, <1>8, <3>1, ReceivesSteady, Zenon
  <2>2. Steady(sms, toMM, toSMS, conn, rx)
    BY <1>6, <1>8 DEF MoInv, InOrder
  <2>3. Steady(sms', toMM', Tail(toSMS), conn, rx)
    BY <1>4, <1>7, <2>1, <2>2, SteadyStep
  <2> QED BY <1>1, <1>7, <2>1, <2>3 DEF InOrder
<1>9. ASSUME ~mixed', sms.cp = "PENDING"
      PROVE  InOrder' /\ Serves(sms, sms', accepted)
  <2>1. h = Head(toSMS) /\ ~mixed /\ ~OfOlderTransaction(h)
    BY <1>6, <1>9 DEF h
  <2>2. /\ \/ h.ti = sms.ti /\ Alike(sms, sms') /\ sms'.sdu = sms.sdu /\ sms'.out = <<>>
           \/ /\ toMM = <<>> /\ sms'.cp # "PENDING"
              /\ sms'.out \in Seq(Messages) => Steady(sms', sms'.out, Tail(toSMS), conn, rx)
        /\ Serves(sms, sms', accepted)
    BY <1>1, <1>2, <1>3, <1>9, <2>1, ReceivesOpening, Zenon
  <2>3. CASE h.ti = sms.ti /\ Alike(sms, sms') /\ sms'.sdu = sms.sdu /\ sms'.out = <<>>
    <3>1. Opening(sms, toMM, toSMS, conn, rx)
      BY <1>9, <2>1 DEF MoInv, InOrder
    <3>2. Opening(sms', toMM, Tail(toSMS), conn, rx)
      BY <1>1, <2>1, <2>3, <3>1, OpeningStep
    <3>3. sms'.cp = "PENDING"
      BY <1>9, <2>3 DEF Alike
    <3> QED BY <1>1, <1>7, <2>2, <2>3, <3>2, <3>3 DEF InOrder
  <2>4. CASE /\ toMM = <<>> /\ sms'.cp # "PENDING"
             /\ sms'.out \in Seq(Messages) => Steady(sms', sms'.out, Tail(toSMS), conn, rx)
    <3>1. Steady(sms', toMM', Tail(toSMS), conn, rx)
      BY <1>7, <2>4
    <3> QED BY <1>1, <1>7, <2>2, <2>4, <3>1 DEF InOrder
  <2> QED BY <2>2, <2>3, <2>4
<1> QED BY <1>5, <1>7, <1>8, <1>9 DEF MoInv

-----------------------------------------------------------------------------
(* The invariant holds, and the submission implements its service *)

LEMMA MoStarts ==
  ASSUME MoInit
  PROVE  MoInv
<1>1. /\ sms = cp_init("MO") /\ toMM = <<>> /\ toSMS = <<>> /\ accepted = {} /\ mixed = FALSE
      /\ conn = [t \in MoTis |-> "none"] /\ rx = [t \in MoTis |-> None]
  BY DEF MoInit
<1>2. /\ 0 \in MoTis /\ 0 \in Tis /\ 0 \in Refs /\ 0 \in Retx /\ 0 \in TlRetx
  BY MoTiTypes, NumberTypes
<1>3. /\ sms.ti = 0 /\ sms.timer_ti = 0 /\ sms.cp = "IDLE" /\ sms.inst = "MO"
      /\ sms.r_flag = FALSE /\ Idle(sms)
  BY <1>1 DEF cp_init, Idle
<1>4. sms \in Slots
  <2>1. <<>> \in Sent /\ <<>> \in Tellings
    BY DataTypes
  <2> QED BY <1>1, <1>2, <2>1 DEF cp_init, Slots, Kept
<1>5. MoSlot(sms)
  BY <1>2, <1>3, <1>4 DEF MoSlot
<1>6. MoTypes
  <2>1. toMM \in Seq(Messages) /\ toSMS \in Seq(Indications)
    BY <1>1
  <2>2. /\ conn \in [MoTis -> {"none", "pending", "open", "lost"}]
        /\ rx \in [MoTis -> Receipts \cup {None}]
        /\ \A t \in MoTis : rx[t] = None
    BY <1>1
  <2>3. Items(toSMS) = {}
    BY <1>1, ShortItems
  <2> QED BY <1>1, <2>1, <2>2, <2>3 DEF MoTypes
<1>7. ~Waiting(sms) /\ ~Connected(sms)
  BY <1>3 DEF Idle, Waiting, Connected
<1>8. Steady(sms, toMM, toSMS, conn, rx)
  BY <1>1, <1>2, <1>3, <1>7, ShortItems DEF Steady
<1> QED BY <1>3, <1>5, <1>6, <1>8 DEF MoInv, InOrder

\* No step of SMS disturbs the invariant, and each serves the user as promised.
LEMMA SmsStepsMo ==
  ASSUME MoInv, Regular, UserSubmits \/ SmsTC1M \/ SmsTR1M \/ SmsReceives
  PROVE  SmsStep /\ MoInv' /\ (~mixed' => Serves(sms, sms', accepted))
<1>1. SmsStep
  BY DEF UserSubmits, SmsTC1M, SmsTR1M, Timeout, SmsReceives
<1> QED BY <1>1, UserSubmitsMo, SmsTC1MMo, SmsTR1MMo, SmsReceivesMo

LEMMA MoSteps ==
  ASSUME MoInv, Regular, [MoNext]_moVars
  PROVE  MoInv'
<1>1. CASE UserSubmits \/ SmsTC1M \/ SmsTR1M \/ SmsReceives
  BY <1>1, SmsStepsMo
<1>2. CASE MMReceives
  BY <1>2, MMReceivesMo
<1>3. ASSUME NEW t \in MoTis, MMConfirms(t)
      PROVE  MoInv'
  <2>1. "norm" \in Causes
    BY DEF Causes
  <2> QED BY <1>3, <2>1, MMAnswersMo
<1>4. ASSUME NEW t \in MoTis, NEW cause \in Causes, MMReleases(t, cause) \/ MMLoses(t, cause)
      PROVE  MoInv'
  BY <1>4, MMAnswersMo
<1>5. ASSUME NEW t \in MoTis, NetworkAcks(t) \/ NetworkAnswers(t) \/ NetworkRejects(t)
      PROVE  MoInv'
  BY <1>5, NetworkMo
<1>6. CASE UNCHANGED moVars
  BY <1>6 DEF moVars, MoInv, MoTypes, InOrder
<1> QED BY <1>1, <1>2, <1>3, <1>4, <1>5, <1>6 DEF MoNext

\* The slot is in one of its six situations, and as long as no indication of an older
\* transaction was taken for the present one, whatever is under way between SMS, MM and the
\* network belongs to the present transaction, or to the one before, which is about to end.
THEOREM SubmissionsAreOrderly == Regular => (MoSpec => []MoInv)
<1> SUFFICES ASSUME Regular
             PROVE  MoSpec => []MoInv
  OBVIOUS
<1>1. MoInit => MoInv
  BY MoStarts
<1>2. MoInv /\ [MoNext]_moVars => MoInv'
  BY MoSteps
<1> QED BY <1>1, <1>2, PTL DEF MoSpec

\* A submission that TL has accepted is under way in RL.
THEOREM SubmissionIsServed == Regular => (MoSpec => []SubmitIsServed)
<1> SUFFICES ASSUME Regular
             PROVE  MoSpec => []SubmitIsServed
  OBVIOUS
<1>1. MoInv => SubmitIsServed
  BY DEF MoInv, MoSlot, Idle, Asking, Waiting, Stuck, Sending, Resending, SubmitIsServed
<1>2. MoSpec => []MoInv
  BY SubmissionsAreOrderly
<1> QED BY <1>1, <1>2, PTL

\* The message to be built when the connection is there is still kept.
THEOREM MessageIsKept == Regular => (MoSpec => []SduIsKept)
<1> SUFFICES ASSUME Regular
             PROVE  MoSpec => []SduIsKept
  OBVIOUS
<1>1. MoInv => SduIsKept
  <2> SUFFICES ASSUME MoInv, ~mixed, sms.tl = "ESTABLISH", sms.est = "SEND"
               PROVE  sms.sdu
    BY DEF SduIsKept
  <2>1. Asking(sms) \/ Waiting(sms)
    BY DEF MoInv, MoSlot, Idle, Stuck, Sending, Resending
  <2>2. CASE Asking(sms)
    BY <2>2 DEF MoInv, InOrder, Opening, Asking
  <2>3. CASE Waiting(sms)
    <3>1. sms.cp # "PENDING"
      BY <2>3 DEF Waiting
    <3> QED BY <2>3, <3>1 DEF MoInv, InOrder, Steady
  <2> QED BY <2>1, <2>2, <2>3
<1>2. MoSpec => []MoInv
  BY SubmissionsAreOrderly
<1> QED BY <1>1, <1>2, PTL

\* MM holds no connection that nobody will release.
THEOREM NoConnectionIsLeft == Regular => (MoSpec => []ConnectionsReleased)
<1> SUFFICES ASSUME Regular
             PROVE  MoSpec => []ConnectionsReleased
  OBVIOUS
<1>1. MoInv => ConnectionsReleased
  <2> SUFFICES ASSUME MoInv, sms.cp = "IDLE", toMM = <<>>, ~mixed, NEW t \in MoTis
               PROVE  conn[t] = "none"
    BY DEF ConnectionsReleased
  <2>1. Steady(sms, toMM, toSMS, conn, rx)
    BY DEF MoInv, InOrder
  <2>2. RelReq(sms.ti) \notin Items(toMM)
    BY ShortItems
  <2> QED BY <2>1, <2>2 DEF Steady
<1>2. MoSpec => []MoInv
  BY SubmissionsAreOrderly
<1> QED BY <1>1, <1>2, PTL

\* A message is pending exactly while the slot is busy.
PendingOf(s) == IF s.tl \in {"ESTABLISH", "SEND"} THEN s.tp_mr ELSE None

LEMMA PendingMo ==
  ASSUME NEW s, MoSlot(s)
  PROVE  /\ Idle(s) => PendingOf(s) = None
         /\ ~Idle(s) => PendingOf(s) = s.tp_mr
         /\ s.tp_mr \in Refs
<1>1. s.tp_mr \in Refs
  BY DEF MoSlot, Slots
<1>2. Idle(s) => s.tl \notin {"ESTABLISH", "SEND"}
  BY DEF Idle
<1>3. ~Idle(s) => s.tl \in {"ESTABLISH", "SEND"}
  BY DEF MoSlot, Asking, Waiting, Stuck, Sending, Resending
<1> QED BY <1>1, <1>2, <1>3 DEF PendingOf

\* What a step of SMS tells the user is what the service promises.
LEMMA ServesService ==
  ASSUME MoSlot(sms), MoSlot(sms'), SmsStep, Serves(sms, sms', accepted)
  PROVE  [Service!ServiceNext]_(Service!serviceVars)
<1> DEFINE Pending == IF sms.tl \in {"ESTABLISH", "SEND"} THEN sms.tp_mr ELSE None
           Told == {sms'.up[i] : i \in DOMAIN sms'.up}
<1>1. /\ Pending = PendingOf(sms) /\ Pending' = PendingOf(sms')
  BY DEF PendingOf
<1> HIDE DEF Pending
<1>2. /\ accepted' = accepted
      /\ "submit_ok" \in Told => sent' = sent \cup {sms.tp_mr}
      /\ "submit_ok" \notin Told => sent' = sent
  BY DEF SmsStep
<1>3. /\ Silent(sms') => "submit_ok" \notin Told
      /\ sms'.up = <<"submit_ok">> => "submit_ok" \in Told
  BY ShortItems DEF Silent, Items
<1> HIDE DEF Told
<1>4. CASE sms'.tp_mr = sms.tp_mr /\ (Idle(sms) <=> Idle(sms')) /\ Silent(sms')
  <2>1. Pending' = Pending /\ sent' = sent
    BY <1>1, <1>2, <1>3, <1>4, PendingMo
  <2> QED BY <1>2, <2>1 DEF Service!serviceVars, Pending
<1>5. CASE ~Idle(sms) /\ Idle(sms') /\ Silent(sms')
  <2>1. Pending' = None /\ sent' = sent
    BY <1>1, <1>2, <1>3, <1>5, PendingMo
  <2>2. Service!ConfirmFailed \/ Pending' = Pending
    BY <1>2, <2>1 DEF Service!ConfirmFailed, Pending
  <2> QED BY <1>2, <2>1, <2>2 DEF Service!serviceVars, Service!ServiceNext, Pending
<1>6. CASE ~Idle(sms) /\ Idle(sms') /\ sms'.up = <<"submit_ok">> /\ sms.tp_mr \in accepted
  <2>1. Pending' = None /\ sent' = sent \cup {Pending} /\ Pending \in accepted
    BY <1>1, <1>2, <1>3, <1>6, PendingMo
  <2>2. Service!ConfirmSent
    BY <1>2, <2>1 DEF Service!ConfirmSent, Pending
  <2> QED BY <2>2 DEF Service!ServiceNext
<1>7. CASE Idle(sms) /\ Asking(sms') /\ sms'.up = <<>>
  <2>1. ~Idle(sms')
    BY <1>7 DEF Idle, Asking
  <2>2. Silent(sms')
    BY <1>7 DEF Silent
  <2>3. Pending = None /\ Pending' = sms'.tp_mr /\ Pending' \in Refs /\ sent' = sent
    BY <1>1, <1>2, <1>3, <1>7, <2>1, <2>2, PendingMo
  <2>4. Service!Submit(Pending')
    BY <1>2, <2>3 DEF Service!Submit, Pending
  <2> QED BY <2>3, <2>4 DEF Service!ServiceNext
<1> QED BY <1>4, <1>5, <1>6, <1>7 DEF Serves

\* A step of MM or of the network
OutsideStep ==
  \/ MMReceives
  \/ \E t \in MoTis :
       \/ MMConfirms(t)
       \/ \E cause \in Causes : MMReleases(t, cause) \/ MMLoses(t, cause)
       \/ NetworkAcks(t)
       \/ NetworkAnswers(t)
       \/ NetworkRejects(t)

\* MM and the network do not touch the slot; the service centre accepts what it received.
LEMMA OutsideService ==
  ASSUME MoInv, OutsideStep
  PROVE  [Service!ServiceNext]_(Service!serviceVars)
<1>1. sms' = sms /\ sent' = sent
  BY DEF OutsideStep, MMReceives, MMConfirms, MMReleases, MMLoses, NetworkAcks,
         NetworkAnswers, NetworkRejects, NetworkStep, MMStep
<1>2. CASE accepted' = accepted
  BY <1>1, <1>2 DEF Service!serviceVars
<1>3. ASSUME NEW t \in MoTis, NetworkAnswers(t)
      PROVE  [Service!ServiceNext]_(Service!serviceVars)
  <2>1. rx[t].ref \in Refs
    BY <1>3 DEF MoInv, MoTypes, NetworkAnswers, Receipts
  <2>2. accepted' \in {accepted, accepted \cup {rx[t].ref}}
    BY <1>3 DEF NetworkAnswers
  <2>3. CASE accepted' = accepted \cup {rx[t].ref}
    <3>1. Service!Accept(rx[t].ref)
      BY <1>1, <2>3 DEF Service!Accept
    <3> QED BY <2>1, <3>1 DEF Service!ServiceNext
  <2> QED BY <1>2, <2>2, <2>3
<1>4. accepted' = accepted \/ \E t \in MoTis : NetworkAnswers(t)
  BY DEF OutsideStep, MMReceives, MMConfirms, MMReleases, MMLoses, NetworkAcks,
         NetworkRejects
<1> QED BY <1>2, <1>3, <1>4

\* A message is confirmed as sent only if the service centre accepted that message, as long
\* as no indication of an older transaction was taken for the present one.
THEOREM SubmissionImplementsService == Regular => (MoSpec => ImplementsService)
<1> SUFFICES ASSUME Regular
             PROVE  MoSpec => ImplementsService
  OBVIOUS
<1>1. MoInit => Service!ServiceInit
  BY DEF MoInit, cp_init, Service!ServiceInit
<1>2. MoInv /\ [MoNext]_moVars => [~mixed' => Service!ServiceNext]_(Service!serviceVars)
  <2> SUFFICES ASSUME MoInv, [MoNext]_moVars, ~mixed'
               PROVE  [Service!ServiceNext]_(Service!serviceVars)
    OBVIOUS
  <2>1. CASE UserSubmits \/ SmsTC1M \/ SmsTR1M \/ SmsReceives
    <3>1. SmsStep /\ MoInv' /\ Serves(sms, sms', accepted)
      BY <2>1, SmsStepsMo
    <3>2. MoSlot(sms) /\ MoSlot(sms')
      BY <3>1 DEF MoInv
    <3> QED BY <3>1, <3>2, ServesService
  <2>2. CASE UNCHANGED moVars
    BY <2>2 DEF moVars, Service!serviceVars
  <2>3. CASE OutsideStep
    BY <2>3, OutsideService, Zenon
  <2>4. MoNext \/ UNCHANGED moVars
    OBVIOUS
  <2>5. CASE MoNext
    BY <2>1, <2>3, <2>5, Zenon DEF MoNext, OutsideStep
  <2> QED BY <2>2, <2>4, <2>5, Zenon
<1>3. MoSpec => []MoInv
  BY SubmissionsAreOrderly
<1> QED BY <1>1, <1>2, <1>3, PTL DEF MoSpec, ImplementsService

=============================================================================
