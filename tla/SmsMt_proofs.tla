---------------------------- MODULE SmsMt_proofs ----------------------------
(***************************************************************************)
(* Theorems about the delivery of short messages, for any number of        *)
(* transactions, messages, lost connections and repetitions and any bound  *)
(* of the queues: the service centre forgets only what is stored, a        *)
(* delayed release is of the present transaction, and the slot in use and  *)
(* the connections of MM belong to each other.                             *)
(*                                                                         *)
(* The MT slot, driven by MM, the network and the SIM only, is in one of   *)
(* three situations: free, receiving a message the SIM writes, or closing  *)
(* after its answer.  The first part of the proof computes what each       *)
(* handler does in each of them, the second part follows the queues.       *)
(***************************************************************************)
EXTENDS SmsMt, SmsRelay_proofs

\* The SIM has written a message before the slot takes the next one.
FastSim == SlowSim = FALSE

-----------------------------------------------------------------------------
(* The slot *)

Free(s) ==
  s.cp = "IDLE" /\ s.rl = "IDLE" /\ s.tl = "IDLE" /\ s.net = "IDLE" /\ s.ti = 0 /\ s.r_flag = FALSE

\* The message is being written; its answer is still owed.
Receiving(s) ==
  /\ s.cp = "ESTABLISHED" /\ s.rl = "WAIT_FOR_SEND_ACK" /\ s.tl = "RECEIVE" /\ s.net = "WRITE"
  /\ s.ti \in MtTis /\ s.r_flag = FALSE /\ s.cp_ack_pending = FALSE

\* The answer is sent, its CP-ACK is awaited, and the release waits for it.
Closing(s) ==
  /\ s.cp = "WAIT_FOR_ACK" /\ s.rl = "IDLE" /\ s.tl = "IDLE" /\ s.net = "IDLE"
  /\ s.ti \in MtTis /\ s.r_flag = TRUE /\ s.cp_ack_pending = FALSE
  /\ \E rp \in {"RP_ACK", "RP_ERROR"}, ref \in Refs : s.data_req = Answer(s.ti, rp, ref)

MtSlot(s) == s \in Slots /\ s.inst = "MT" /\ (Free(s) \/ Receiving(s) \/ Closing(s))

\* A step that sends the messages M and changes nothing else of the slot.
Sends(s, r, M) ==
  /\ r \in Slots
  /\ r.inst = s.inst /\ r.cp = s.cp /\ r.rl = s.rl /\ r.tl = s.tl /\ r.net = s.net
  /\ r.ti = s.ti /\ r.r_flag = s.r_flag /\ r.cp_ack_pending = s.cp_ack_pending
  /\ r.msg_ref = s.msg_ref /\ r.data_req = s.data_req /\ r.up = s.up
  /\ Items(r.out) = Items(s.out) \cup M

LEMMA MtTiTypes == \A t \in MtTis : t \in Tis /\ t # 0
BY CountsAssumption, TisAssumption DEF Tis

LEMMA SendSends ==
  ASSUME NEW s \in Slots, NEW m \in Messages
  PROVE  Sends(s, Send(s, m), {m})
<1>1. Send(s, m) \in Slots
  BY SendStep
<1>2. Send(s, m).out = Append(s.out, m) /\ s.out \in Seq(Messages)
  BY DEF Send, Slots, Sent
<1>3. Items(Send(s, m).out) = Items(s.out) \cup {m}
  BY <1>2, ItemsAppend
<1> QED BY <1>1, <1>3 DEF Sends, Send, Slots

LEMMA SendsMore ==
  ASSUME NEW s, NEW r, NEW q, NEW M, NEW N, Sends(s, r, M), Sends(r, q, N)
  PROVE  Sends(s, q, M \cup N)
BY DEF Sends

LEMMA CpSends ==
  ASSUME NEW s \in Slots, s.cp_ack_pending = FALSE, NEW t \in Tis
  PROVE  /\ Sends(s, cp_send_release_req(s, t), {RelReq(t)})
         /\ AckPending(s) = s
         /\ Sends(s, cp_build_cp_ack(s), {CpAck(s.ti)})
         /\ Sends(s, cp_build_cp_error(s), {CpError(s.ti)})
<1>1. s.ti \in Tis /\ RelReq(t) \in Messages /\ CpAck(s.ti) \in Messages /\ CpError(s.ti) \in Messages
  BY SlotTypes, MessageTypes, NumberTypes DEF RelReq, CpAck, CpError
<1>2. Sends(s, cp_send_release_req(s, t), {RelReq(t)})
  BY <1>1, SendSends DEF cp_send_release_req, RelReq
<1>3. AckPending(s) = s
  BY DEF AckPending
<1>4. Sends(s, cp_build_cp_error(s), {CpError(s.ti)})
  BY <1>1, <1>3, SendSends DEF cp_build_cp_error, CpError
<1>5. Sends(s, cp_build_cp_ack(s), {CpAck(s.ti)})
  <2> DEFINE u == [s EXCEPT !.cp_ack_pending = FALSE]
  <2>1. Sends(s, u, {}) /\ u.ti = s.ti
    BY DEF Sends, Slots
  <2>2. cp_build_cp_ack(s) = Send(u, CpAck(s.ti))
    BY DEF cp_build_cp_ack, CpAck
  <2> HIDE DEF u
  <2>3. Sends(u, Send(u, CpAck(s.ti)), {CpAck(s.ti)})
    BY <2>1, <1>1, SendSends DEF Sends
  <2>4. Sends(s, cp_build_cp_ack(s), {} \cup {CpAck(s.ti)})
    BY <2>1, <2>2, <2>3, SendsMore
  <2> QED BY <2>4
<1> QED BY <1>2, <1>3, <1>4, <1>5

-----------------------------------------------------------------------------
(* RL and TL of the slot *)

\* The connection is gone: whatever was under way, the slot is free.
LEMMA ErrorFrees ==
  ASSUME NEW s \in Slots, s.inst = "MT", s.cp = "IDLE", s.ti \in MtTis, s.r_flag = FALSE,
         \/ s.rl = "IDLE" /\ s.tl = "IDLE" /\ s.net = "IDLE"
         \/ s.rl = "WAIT_FOR_SEND_ACK" /\ s.tl = "RECEIVE",
         NEW cause \in {"norm", "other", "timeout"}
  PROVE  /\ rl_error_ind(s, cause) \in Slots /\ rl_error_ind(s, cause).inst = "MT"
         /\ Free(rl_error_ind(s, cause))
         /\ rl_error_ind(s, cause).out = s.out /\ rl_error_ind(s, cause).up = s.up
         /\ rl_error_ind(s, cause).data_req = s.data_req
<1> DEFINE r == rl_error_ind(s, cause)
           x == [s EXCEPT !.rl = "IDLE",
                          !.tr1m = @ /\ s.rl \notin {"ESTABLISH", "WAIT_FOR_ACK"},
                          !.tr2m = @ /\ s.rl # "WAIT_FOR_SEND_ACK"]
           a == AfterError(s)
<1>1. s.ti \in Tis /\ 0 \in Tis /\ 0 \notin MtTis
  BY NumberTypes, MtTiTypes
<1>2. /\ x \in Slots /\ x.inst = "MT" /\ x.cp = "IDLE" /\ x.rl = "IDLE" /\ x.tl = s.tl
      /\ x.net = s.net /\ x.ti = s.ti /\ x.r_flag = FALSE /\ x.out = s.out /\ x.up = s.up
      /\ x.data_req = s.data_req
  BY ZenonT(40) DEF Slots
<1>3. a = csf_free_sms_instance(x, s.ti)
  BY DEF AfterError
<1> HIDE DEF x
<1>4. /\ a \in Slots /\ a.inst = "MT" /\ a.cp = "IDLE" /\ a.rl = "IDLE" /\ a.tl = s.tl
      /\ a.net = s.net /\ a.ti = 0 /\ a.r_flag = FALSE /\ a.out = s.out /\ a.up = s.up
      /\ a.data_req = s.data_req
  <2>1. a = [x EXCEPT !.ti = 0, !.sdu = FALSE]
    BY <1>1, <1>2, <1>3 DEF csf_free_sms_instance
  <2> HIDE DEF a
  <2> QED BY <1>1, <1>2, <2>1 DEF Slots
<1>5. ~AwaitsRetry(s, cause)
  BY DEF AwaitsRetry
<1> HIDE DEF a
<1>6. CASE s.rl = "IDLE"
  <2>1. r = a
    BY <1>5, <1>6 DEF rl_error_ind, a
  <2> QED BY <1>4, <1>6, <2>1 DEF Free
<1>7. CASE s.rl = "WAIT_FOR_SEND_ACK"
  <2> DEFINE p == [a EXCEPT !.net = IF cause = "ok" THEN @ ELSE "IDLE"]
             q == Closed(p)
  <2>1. r = tl_report_ind(a, cause)
    BY <1>5, <1>7 DEF rl_error_ind, a
  <2>2. Report(a, cause) = p
    BY <1>4, <1>7 DEF Report
  <2>3. /\ p \in Slots /\ p.inst = "MT" /\ p.cp = "IDLE" /\ p.rl = "IDLE" /\ p.net = "IDLE"
        /\ p.ti = 0 /\ p.r_flag = FALSE /\ p.out = s.out /\ p.up = s.up /\ p.data_req = s.data_req
    BY <1>4 DEF Slots
  <2> HIDE DEF p
  <2>4. /\ q \in Slots /\ q.inst = "MT" /\ q.cp = "IDLE" /\ q.rl = "IDLE" /\ q.net = "IDLE"
        /\ q.tl = "IDLE"
        /\ q.ti = 0 /\ q.r_flag = FALSE /\ q.out = s.out /\ q.up = s.up /\ q.data_req = s.data_req
    BY <2>3 DEF Slots, Closed
  <2>5. r = rl_release_req(q, 0)
    BY <1>4, <2>1, <2>2 DEF tl_report_ind
  <2> HIDE DEF q, r
  <2>6. r = csf_free_sms_instance([q EXCEPT !.r_flag = FALSE], 0)
    BY <2>4, <2>5 DEF rl_release_req, cp_release_req
  <2>7. /\ r \in Slots /\ r.inst = "MT" /\ r.cp = "IDLE" /\ r.rl = "IDLE" /\ r.net = "IDLE"
        /\ r.tl = "IDLE"
        /\ r.ti = 0 /\ r.r_flag = FALSE /\ r.out = s.out /\ r.up = s.up /\ r.data_req = s.data_req
    BY <1>1, <2>4, <2>6 DEF csf_free_sms_instance, Slots
  <2> QED BY <2>7 DEF Free, r
<1> QED BY <1>6, <1>7

\* The slot is free after the step, which sends the messages M and tells nothing.
Freed(s, r, M) ==
  /\ r \in Slots /\ r.inst = "MT" /\ Free(r)
  /\ Items(r.out) = Items(s.out) \cup M /\ r.up = s.up /\ r.data_req = s.data_req

LEMMA ReleaseFrees ==
  ASSUME NEW s \in Slots, s.inst = "MT", Receiving(s) \/ Closing(s),
         NEW cause \in {"norm", "other", "timeout"}, NEW u, NEW M, Sends(s, u, M)
  PROVE  Freed(s, rl_error_ind(Release(u), cause), M \cup {RelReq(s.ti)})
<1> DEFINE v == cp_send_release_req(u, u.ti)
           w == Release(u)
           r == rl_error_ind(w, cause)
<1>1. s.ti \in MtTis /\ s.ti \in Tis /\ s.cp_ack_pending = FALSE
  BY SlotTypes DEF Receiving, Closing
<1>2. u \in Slots /\ u.cp_ack_pending = FALSE /\ u.ti = s.ti
  BY <1>1 DEF Sends
<1>3. Sends(u, v, {RelReq(s.ti)})
  BY <1>1, <1>2, CpSends
<1>4. Sends(s, v, M \cup {RelReq(s.ti)})
  BY <1>3, SendsMore
<1>5. w = [v EXCEPT !.cp = "IDLE", !.r_flag = FALSE]
  BY DEF Release
<1> HIDE DEF v, w
<1>6. /\ w \in Slots /\ w.inst = "MT" /\ w.cp = "IDLE" /\ w.ti = s.ti /\ w.r_flag = FALSE
      /\ w.rl = s.rl /\ w.tl = s.tl /\ w.net = s.net /\ w.data_req = s.data_req
      /\ w.up = s.up /\ w.out = v.out
  <2>1. /\ v \in Slots /\ v.inst = "MT" /\ v.ti = s.ti /\ v.rl = s.rl /\ v.tl = s.tl
        /\ v.net = s.net /\ v.data_req = s.data_req /\ v.up = s.up
    BY <1>4 DEF Sends
  <2> QED BY <1>5, <2>1 DEF Slots
<1>7. /\ r \in Slots /\ r.inst = "MT" /\ Free(r) /\ r.out = w.out /\ r.up = w.up
      /\ r.data_req = w.data_req
  <2>1. \/ w.rl = "IDLE" /\ w.tl = "IDLE" /\ w.net = "IDLE"
        \/ w.rl = "WAIT_FOR_SEND_ACK" /\ w.tl = "RECEIVE"
    BY <1>6 DEF Receiving, Closing
  <2>2. w.ti \in MtTis
    BY <1>1, <1>6
  <2> QED BY <1>6, <2>1, <2>2, ErrorFrees
<1> HIDE DEF r
<1> QED BY <1>4, <1>6, <1>7 DEF Freed, Sends, r, w

\* CP ends a connection itself, with or without a CP-ERROR.
LEMMA EndFrees ==
  ASSUME NEW s \in Slots, s.inst = "MT", Receiving(s) \/ Closing(s)
  PROVE  /\ Freed(s, rl_error_ind(Release(s), "timeout"), {RelReq(s.ti)})
         /\ Freed(s, cp_send_err_ind_errcs(StopTC1M(s)), {RelReq(s.ti)})
         /\ Freed(s, cp_send_err_ind_msg_not_comp(s), {CpError(s.ti), RelReq(s.ti)})
<1>1. s.ti \in MtTis /\ s.ti \in Tis /\ s.cp_ack_pending = FALSE
  BY SlotTypes DEF Receiving, Closing
<1>2. Sends(s, s, {}) /\ Sends(s, StopTC1M(s), {})
  BY DEF Sends, StopTC1M, Slots
<1>3. Sends(s, cp_build_cp_error(s), {CpError(s.ti)})
  BY <1>1, CpSends
<1>4. Freed(s, rl_error_ind(Release(s), "timeout"), {} \cup {RelReq(s.ti)})
  BY <1>2, ReleaseFrees
<1>5. Freed(s, rl_error_ind(Release(StopTC1M(s)), "other"), {} \cup {RelReq(s.ti)})
  BY <1>2, ReleaseFrees
<1>6. Freed(s, rl_error_ind(Release(cp_build_cp_error(s)), "other"),
            {CpError(s.ti)} \cup {RelReq(s.ti)})
  BY <1>3, ReleaseFrees
<1>7. {} \cup {RelReq(s.ti)} = {RelReq(s.ti)}
      /\ {CpError(s.ti)} \cup {RelReq(s.ti)} = {CpError(s.ti), RelReq(s.ti)}
  OBVIOUS
<1> QED BY <1>4, <1>5, <1>6, <1>7 DEF cp_send_err_ind_errcs, cp_send_err_ind_msg_not_comp

\* The answer rp is kept and sent, and nothing else is changed.
Answers(s, r, rp) ==
  /\ r \in Slots /\ r.inst = "MT" /\ r.cp = "WAIT_FOR_ACK" /\ r.rl = "IDLE"
  /\ r.tl = s.tl /\ r.net = s.net /\ r.ti = s.ti /\ r.cp_ack_pending = FALSE
  /\ r.msg_ref = s.msg_ref /\ r.up = s.up
  /\ r.data_req = Answer(s.ti, rp, s.msg_ref)
  /\ Items(r.out) = Items(s.out) \cup {r.data_req}

\* The positive answer is followed by the release at once, and that waits.
LEMMA ReportAnswers ==
  ASSUME NEW s \in Slots, s.inst = "MT", s.cp = "ESTABLISHED", s.rl = "WAIT_FOR_SEND_ACK",
         s.ti \in MtTis, s.cp_ack_pending = FALSE
  PROVE  /\ Answers(s, rl_report_req_error(s), "RP_ERROR")
         /\ Answers(s, rl_report_req_ack(s), "RP_ACK") /\ rl_report_req_ack(s).r_flag = TRUE
<1> DEFINE u == [s EXCEPT !.rl = "IDLE", !.tr2m = FALSE]
<1>1. s.ti \in Tis /\ s.msg_ref \in Refs
  BY SlotTypes
<1>2. /\ u \in Slots /\ u.inst = "MT" /\ u.cp = "ESTABLISHED" /\ u.rl = "IDLE" /\ u.tl = s.tl
      /\ u.net = s.net /\ u.ti = s.ti /\ u.cp_ack_pending = FALSE /\ u.msg_ref = s.msg_ref
      /\ u.up = s.up /\ u.out = s.out
  BY DEF Slots
<1> HIDE DEF u
<1>3. ASSUME NEW rp \in {"RP_ACK", "RP_ERROR"}
      PROVE  Answers(s, cp_data_req(u, rp, s.msg_ref), rp)
  <2> DEFINE m == Answer(s.ti, rp, s.msg_ref)
             v == [u EXCEPT !.cp = "WAIT_FOR_ACK", !.retx = 0, !.data_req = m, !.tc1m = TRUE]
             r == cp_data_req(u, rp, s.msg_ref)
  <2>1. m \in Messages /\ m \in Kept
    BY <1>1, MessageTypes, DataTypes DEF Answer
  <2>2. r = Send(v, m)
    BY <1>2, CpSends, <1>1 DEF cp_data_req, Transmit, Answer
  <2> HIDE DEF m
  <2>3. /\ v \in Slots /\ v.inst = "MT" /\ v.cp = "WAIT_FOR_ACK" /\ v.rl = "IDLE" /\ v.tl = s.tl
        /\ v.net = s.net /\ v.ti = s.ti /\ v.cp_ack_pending = FALSE /\ v.msg_ref = s.msg_ref
        /\ v.up = s.up /\ v.out = s.out /\ v.data_req = m
    BY <1>2, <2>1, NumberTypes DEF Slots
  <2> HIDE DEF v, r
  <2>4. Sends(v, r, {m})
    BY <2>1, <2>2, <2>3, SendSends
  <2> QED BY <2>3, <2>4 DEF Answers, Sends, m, r
<1>4. Answers(s, rl_report_req_error(s), "RP_ERROR")
  BY <1>3 DEF rl_report_req_error, u
<1>5. Answers(s, rl_report_req_ack(s), "RP_ACK") /\ rl_report_req_ack(s).r_flag = TRUE
  <2> DEFINE v == ReportAck(s)
             r == rl_report_req_ack(s)
  <2>1. Answers(s, v, "RP_ACK")
    BY <1>3 DEF ReportAck, u
  <2>2. r = cp_release_req(v, s.ti)
    BY DEF rl_report_req_ack
  <2> HIDE DEF v, r
  <2>3. r = [v EXCEPT !.r_flag = TRUE]
    BY <2>1, <2>2 DEF cp_release_req, Answers
  <2>4. Answers(s, r, "RP_ACK") /\ r.r_flag = TRUE
    BY <2>1, <2>3 DEF Answers, Slots
  <2> QED BY <2>4 DEF r
<1> QED BY <1>4, <1>5

\* The slot closes after the answer rp, which went out last.
Closes(s, r, rp) ==
  /\ r \in Slots /\ r.inst = "MT" /\ Closing(r) /\ r.ti = s.ti
  /\ r.data_req = Answer(s.ti, rp, s.msg_ref)
  /\ Items(r.out) = Items(s.out) \cup {r.data_req}

\* Where TL has nothing under way any more, a release closes the slot.
LEMMA ReleaseCloses ==
  ASSUME NEW s, s.ti \in MtTis, s.msg_ref \in Refs, NEW rp \in {"RP_ACK", "RP_ERROR"},
         NEW v, Answers(s, v, rp), NEW t, v.tl = "IDLE", v.net = "IDLE"
  PROVE  /\ Closes(s, cp_release_req(v, t), rp) /\ cp_release_req(v, t).up = s.up
         /\ cp_release_req(v, t).msg_ref = s.msg_ref
<1> DEFINE r == cp_release_req(v, t)
<1>1. r = [v EXCEPT !.r_flag = TRUE]
  BY DEF cp_release_req, Answers
<1> HIDE DEF r
<1>2. /\ r \in Slots /\ r.inst = "MT" /\ r.cp = "WAIT_FOR_ACK" /\ r.rl = "IDLE" /\ r.tl = "IDLE"
      /\ r.net = "IDLE" /\ r.ti = s.ti /\ r.r_flag = TRUE /\ r.cp_ack_pending = FALSE
      /\ r.data_req = Answer(s.ti, rp, s.msg_ref) /\ r.out = v.out
      /\ r.up = s.up /\ r.msg_ref = s.msg_ref
  BY <1>1 DEF Answers, Slots
<1>3. Closing(r)
  BY <1>2 DEF Closing
<1> QED BY <1>2, <1>3 DEF Closes, Answers, r

\* The SIM has written the message or not, or the time for it is over.
LEMMA ReceivingEnds ==
  ASSUME NEW s \in Slots, s.inst = "MT", Receiving(s)
  PROVE  /\ \A ok \in BOOLEAN :
              LET r == tl_sim_update_rec_cnf_net(s, ok)
              IN  Closes(s, r, IF ok THEN "RP_ACK" ELSE "RP_ERROR") /\ r.up = s.up
         /\ LET r == tim_tr2m(s) IN Closes(s, r, "RP_ERROR") /\ r.up = s.up
<1> DEFINE e == rl_report_req_error(s)
           a == rl_report_req_ack(s)
<1>1. s.ti \in MtTis /\ s.msg_ref \in Refs /\ s.net = "WRITE" /\ s.tl = "RECEIVE" /\ s.rl = "WAIT_FOR_SEND_ACK"
  BY SlotTypes DEF Receiving
<1>2. Answers(s, e, "RP_ERROR") /\ Answers(s, a, "RP_ACK") /\ a.r_flag = TRUE
  BY ReportAnswers DEF Receiving
<1> HIDE DEF e, a
<1>3. LET r == tl_sim_update_rec_cnf_net(s, TRUE) IN Closes(s, r, "RP_ACK") /\ r.up = s.up
  <2> DEFINE r == tl_sim_update_rec_cnf_net(s, TRUE)
  <2>1. r = NetIdle(a)
    BY <1>1 DEF tl_sim_update_rec_cnf_net, a
  <2> HIDE DEF r
  <2>2. /\ r \in Slots /\ r.inst = "MT" /\ r.cp = "WAIT_FOR_ACK" /\ r.rl = "IDLE"
        /\ r.tl = "IDLE" /\ r.net = "IDLE" /\ r.ti = s.ti /\ r.r_flag = TRUE
        /\ r.cp_ack_pending = FALSE /\ r.up = s.up
        /\ r.data_req = Answer(s.ti, "RP_ACK", s.msg_ref) /\ r.out = a.out
    <3>1. /\ a \in Slots /\ a.inst = "MT" /\ a.cp = "WAIT_FOR_ACK" /\ a.rl = "IDLE"
          /\ a.ti = s.ti /\ a.cp_ack_pending = FALSE /\ a.up = s.up
          /\ a.data_req = Answer(s.ti, "RP_ACK", s.msg_ref)
      BY <1>2 DEF Answers
    <3> QED BY <1>2, <2>1, <3>1, ZenonT(40) DEF NetIdle, Slots
  <2>3. Closing(r)
    BY <1>1, <2>2 DEF Closing
  <2> QED BY <1>2, <2>2, <2>3 DEF Closes, Answers, r
<1>4. LET r == tl_sim_update_rec_cnf_net(s, FALSE) IN Closes(s, r, "RP_ERROR") /\ r.up = s.up
  <2> DEFINE v == cp_release_req(e, s.ti)
             r == tl_sim_update_rec_cnf_net(s, FALSE)
  <2>1. r = NetIdle(v)
    BY <1>1 DEF tl_sim_update_rec_cnf_net, e, rl_release_req
  <2>2. v = [e EXCEPT !.r_flag = TRUE]
    BY <1>2 DEF cp_release_req, Answers
  <2> HIDE DEF r, v
  <2>3. /\ v \in Slots /\ v.inst = "MT" /\ v.cp = "WAIT_FOR_ACK" /\ v.rl = "IDLE"
        /\ v.ti = s.ti /\ v.r_flag = TRUE /\ v.cp_ack_pending = FALSE /\ v.up = s.up
        /\ v.data_req = Answer(s.ti, "RP_ERROR", s.msg_ref) /\ v.out = e.out
    BY <1>2, <2>2 DEF Answers, Slots
  <2>4. /\ r \in Slots /\ r.inst = "MT" /\ r.cp = "WAIT_FOR_ACK" /\ r.rl = "IDLE"
        /\ r.tl = "IDLE" /\ r.net = "IDLE" /\ r.ti = s.ti /\ r.r_flag = TRUE
        /\ r.cp_ack_pending = FALSE /\ r.up = s.up
        /\ r.data_req = Answer(s.ti, "RP_ERROR", s.msg_ref) /\ r.out = e.out
    BY <2>1, <2>3, ZenonT(40) DEF NetIdle, Slots
  <2>5. Closing(r)
    BY <1>1, <2>4 DEF Closing
  <2> QED BY <1>2, <2>4, <2>5 DEF Closes, Answers, r
<1>5. LET r == tim_tr2m(s) IN Closes(s, r, "RP_ERROR") /\ r.up = s.up
  <2> DEFINE p == [e EXCEPT !.net = IF "timeout" = "ok" THEN @ ELSE "IDLE"]
             q == Closed(p)
             r == tim_tr2m(s)
  <2>1. r = tl_report_ind(e, "timeout")
    BY <1>1 DEF tim_tr2m, e
  <2>2. Report(e, "timeout") = p
    BY <1>1, <1>2 DEF Report, Answers
  <2>3. r = cp_release_req(q, e.ti)
    BY <2>1, <2>2 DEF tl_report_ind, rl_release_req
  <2>4. /\ q \in Slots /\ q.inst = "MT" /\ q.cp = "WAIT_FOR_ACK" /\ q.rl = "IDLE"
        /\ q.tl = "IDLE" /\ q.net = "IDLE" /\ q.ti = s.ti /\ q.cp_ack_pending = FALSE
        /\ q.up = s.up /\ q.data_req = Answer(s.ti, "RP_ERROR", s.msg_ref) /\ q.out = e.out
        /\ q.msg_ref = s.msg_ref
    <3>1. /\ e \in Slots /\ e.inst = "MT" /\ e.cp = "WAIT_FOR_ACK" /\ e.rl = "IDLE"
          /\ e.ti = s.ti /\ e.cp_ack_pending = FALSE /\ e.up = s.up /\ e.msg_ref = s.msg_ref
          /\ e.data_req = Answer(s.ti, "RP_ERROR", s.msg_ref)
      BY <1>2 DEF Answers
    <3>2. p = [e EXCEPT !.net = "IDLE"]
      OBVIOUS
    <3>3. q = [p EXCEPT !.tl = "IDLE", !.sdu = FALSE]
      BY DEF Closed
    <3> HIDE DEF p, q
    <3> QED BY <3>1, <3>2, <3>3, ZenonT(40) DEF Slots
  <2> HIDE DEF q, r
  <2>5. r = [q EXCEPT !.r_flag = TRUE]
    BY <2>3, <2>4 DEF cp_release_req
  <2>6. /\ r \in Slots /\ r.inst = "MT" /\ r.cp = "WAIT_FOR_ACK" /\ r.rl = "IDLE"
        /\ r.tl = "IDLE" /\ r.net = "IDLE" /\ r.ti = s.ti /\ r.r_flag = TRUE
        /\ r.cp_ack_pending = FALSE /\ r.up = s.up
        /\ r.data_req = Answer(s.ti, "RP_ERROR", s.msg_ref) /\ r.out = e.out
    BY <2>4, <2>5 DEF Slots
  <2>7. Closing(r)
    BY <1>1, <2>6 DEF Closing
  <2> QED BY <1>2, <2>6, <2>7 DEF Closes, Answers, r
<1> QED BY <1>3, <1>4, <1>5

-----------------------------------------------------------------------------
(* The handlers *)

\* What the slot makes of a first message with the reference n on t.
Taken(s, r, t, n) ==
  /\ r \in Slots /\ r.inst = "MT" /\ r.ti = t
  /\ \/ /\ Receiving(r) /\ r.msg_ref = n /\ r.data_req = s.data_req
        /\ r.up = Append(s.up, "store")
        /\ Items(r.out) = Items(s.out) \cup {CpAck(t)}
     \/ /\ Closing(r) /\ r.data_req = Answer(t, "RP_ACK", n) /\ r.msg_ref = n
        /\ r.up = Append(s.up, "shown")
        /\ Items(r.out) = Items(s.out) \cup {CpAck(t)} \cup {r.data_req}
     \/ /\ Closing(r) /\ r.data_req = Answer(t, "RP_ERROR", n)
        /\ r.up = s.up
        /\ Items(r.out) = Items(s.out) \cup {CpAck(t)} \cup {r.data_req}

LEMMA TlDataTakes ==
  ASSUME NEW s, NEW y \in Slots, NEW t \in MtTis, NEW n \in Refs, NEW tp \in TpTypes,
         y.inst = "MT", y.cp = "ESTABLISHED", y.rl = "WAIT_FOR_SEND_ACK", y.tl = "IDLE",
         y.net = "IDLE", y.ti = t, y.r_flag = FALSE, y.cp_ack_pending = FALSE, y.msg_ref = n,
         y.data_req = s.data_req, y.up = s.up, Items(y.out) = Items(s.out) \cup {CpAck(t)}
  PROVE  Taken(s, tl_data_ind(y, tp), t, n)
<1> DEFINE r == tl_data_ind(y, tp)
           i == [y EXCEPT !.tl = "IDLE"]
<1>1. /\ i \in Slots /\ i.inst = "MT" /\ i.cp = "ESTABLISHED" /\ i.rl = "WAIT_FOR_SEND_ACK"
      /\ i.tl = "IDLE" /\ i.net = "IDLE" /\ i.ti = t /\ i.r_flag = FALSE
      /\ i.cp_ack_pending = FALSE /\ i.msg_ref = n /\ i.data_req = s.data_req
      /\ i.up = s.up /\ i.out = y.out
  BY DEF Slots
<1> HIDE DEF i
<1>2. ASSUME NEW x \in {y, i}
      PROVE  LET e == cp_release_req(rl_report_req_error(x), x.ti)
             IN  Closes(x, e, "RP_ERROR") /\ e.up = x.up
  <2>1. /\ x \in Slots /\ x.inst = "MT" /\ x.cp = "ESTABLISHED" /\ x.rl = "WAIT_FOR_SEND_ACK"
        /\ x.ti \in MtTis /\ x.cp_ack_pending = FALSE /\ x.tl = "IDLE" /\ x.net = "IDLE"
        /\ x.msg_ref \in Refs
    BY <1>1
  <2>2. Answers(x, rl_report_req_error(x), "RP_ERROR")
    BY <2>1, ReportAnswers
  <2>3. rl_report_req_error(x).tl = "IDLE" /\ rl_report_req_error(x).net = "IDLE"
    BY <2>1, <2>2 DEF Answers
  <2> QED BY <2>1, <2>2, <2>3, ReleaseCloses
<1>3. CASE tp = "sim"
  <2> DEFINE v == [y EXCEPT !.tl = "RECEIVE", !.net = "WRITE"]
  <2>1. r = Tell(v, "store")
    BY <1>3 DEF tl_data_ind, tl_handle_message
  <2>2. /\ v \in Slots /\ v.inst = "MT" /\ v.cp = "ESTABLISHED" /\ v.rl = "WAIT_FOR_SEND_ACK"
        /\ v.tl = "RECEIVE" /\ v.net = "WRITE" /\ v.ti = t /\ v.r_flag = FALSE
        /\ v.cp_ack_pending = FALSE /\ v.msg_ref = n /\ v.data_req = s.data_req
        /\ v.up = s.up /\ v.out = y.out
    BY DEF Slots
  <2> HIDE DEF v
  <2>3. r = [v EXCEPT !.up = Append(s.up, "store")] /\ r \in Slots
    BY <2>1, <2>2, SendStep DEF Tell
  <2> HIDE DEF r
  <2>4. /\ r.inst = "MT" /\ r.cp = "ESTABLISHED" /\ r.rl = "WAIT_FOR_SEND_ACK"
        /\ r.tl = "RECEIVE" /\ r.net = "WRITE" /\ r.ti = t /\ r.r_flag = FALSE
        /\ r.cp_ack_pending = FALSE /\ r.msg_ref = n /\ r.data_req = s.data_req
        /\ r.up = Append(s.up, "store") /\ r.out = y.out
    BY <2>2, <2>3 DEF Slots
  <2> QED BY <2>3, <2>4 DEF Taken, Receiving, r
<1>4. CASE tp = "shown"
  <2> DEFINE v == Tell(i, "shown")
  <2>1. r = rl_report_req_ack(v)
    BY <1>4 DEF tl_data_ind, tl_handle_message, i
  <2>2. v = [i EXCEPT !.up = Append(s.up, "shown")] /\ v \in Slots
    BY <1>1, SendStep DEF Tell
  <2> HIDE DEF v, r
  <2>3. /\ v.inst = "MT" /\ v.cp = "ESTABLISHED" /\ v.rl = "WAIT_FOR_SEND_ACK"
        /\ v.tl = "IDLE" /\ v.net = "IDLE" /\ v.ti = t /\ v.r_flag = FALSE
        /\ v.cp_ack_pending = FALSE /\ v.msg_ref = n /\ v.data_req = s.data_req
        /\ v.up = Append(s.up, "shown") /\ v.out = y.out
    BY <1>1, <2>2 DEF Slots
  <2>4. Answers(v, r, "RP_ACK") /\ r.r_flag = TRUE
    BY <2>1, <2>2, <2>3, ReportAnswers
  <2>5. Closing(r)
    BY <2>3, <2>4 DEF Closing, Answers
  <2>6. /\ r \in Slots /\ r.inst = "MT" /\ r.ti = t /\ r.data_req = Answer(t, "RP_ACK", n)
        /\ r.msg_ref = n /\ r.up = Append(s.up, "shown")
        /\ Items(r.out) = Items(s.out) \cup {CpAck(t)} \cup {r.data_req}
    BY <2>3, <2>4 DEF Answers
  <2> QED BY <2>5, <2>6 DEF Taken, r
<1>5. CASE tp \in {"full", "invalid"}
  <2>1. PICK x \in {y, i} : r = cp_release_req(rl_report_req_error(x), x.ti)
    <3>1. CASE tp = "invalid"
      BY <3>1 DEF tl_data_ind, rl_release_req
    <3>2. CASE tp = "full"
      <4>1. r = cp_release_req(rl_report_req_error(i), y.ti)
        BY <3>2 DEF tl_data_ind, tl_handle_message, rl_release_req, i
      <4> QED BY <4>1, <1>1
    <3> QED BY <1>5, <3>1, <3>2
  <2> HIDE DEF r
  <2>2. Closes(x, r, "RP_ERROR") /\ r.up = x.up
    BY <1>2, <2>1
  <2>3. x.ti = t /\ x.msg_ref = n /\ x.up = s.up /\ x.out = y.out
    BY <1>1
  <2> QED BY <2>2, <2>3 DEF Closes, Taken, r
<1> QED BY <1>3, <1>4, <1>5 DEF TpTypes

\* A free slot takes the message.
LEMMA AcceptTakes ==
  ASSUME NEW s \in Slots, s.inst = "MT", Free(s), NEW t \in MtTis, NEW n \in Refs,
         NEW tp \in TpTypes
  PROVE  Taken(s, Accept(s, t, Downlink("CP_DATA", "RP_DATA", n, tp)), t, n)
<1> DEFINE d == Downlink("CP_DATA", "RP_DATA", n, tp)
           x == [s EXCEPT !.ti = t, !.cp_ack_pending = FALSE]
           a == cp_build_cp_ack(x)
           e == [a EXCEPT !.cp = "ESTABLISHED", !.r_flag = FALSE]
           y == [e EXCEPT !.rl = "WAIT_FOR_SEND_ACK", !.msg_ref = n, !.tr2m = TRUE]
<1>1. d.cp = "CP_DATA" /\ d.rp = "RP_DATA" /\ d.ref = n /\ d.tp = tp
  BY DEF Downlink
<1>2. /\ x \in Slots /\ x.inst = "MT" /\ x.cp = "IDLE" /\ x.rl = "IDLE" /\ x.tl = "IDLE"
      /\ x.net = "IDLE" /\ x.ti = t /\ x.cp_ack_pending = FALSE
      /\ x.data_req = s.data_req /\ x.up = s.up /\ x.out = s.out
  BY MtTiTypes DEF Slots, Free
<1>3. Accept(s, t, d) = cp_est_ind_cp_data(x, d)
  <2>1. s.ti = 0
    BY DEF Free
  <2>2. ~Undecodable(d)
    BY <1>1 DEF Undecodable
  <2> HIDE DEF d
  <2> QED BY <1>1, <2>1, <2>2 DEF Accept, FirstMessage
<1> HIDE DEF d, x
<1>4. cp_est_ind_cp_data(x, d) = rl_data_ind(e, d)
  BY <1>2 DEF cp_est_ind_cp_data
<1>5. Sends(x, a, {CpAck(t)})
  BY <1>2, CpSends, MtTiTypes
<1> HIDE DEF a
<1>6. /\ e \in Slots /\ e.inst = "MT" /\ e.cp = "ESTABLISHED" /\ e.rl = "IDLE" /\ e.tl = "IDLE"
      /\ e.net = "IDLE" /\ e.ti = t /\ e.r_flag = FALSE /\ e.cp_ack_pending = FALSE
      /\ e.data_req = s.data_req /\ e.up = s.up /\ e.out = a.out
  BY <1>2, <1>5, ZenonT(40) DEF Sends, Slots
<1> HIDE DEF e
<1>7. rl_data_ind(e, d) = tl_data_ind(y, tp)
  BY <1>1, <1>6 DEF rl_data_ind
<1>8. /\ y \in Slots /\ y.inst = "MT" /\ y.cp = "ESTABLISHED" /\ y.rl = "WAIT_FOR_SEND_ACK"
      /\ y.tl = "IDLE"
      /\ y.net = "IDLE" /\ y.ti = t /\ y.r_flag = FALSE /\ y.cp_ack_pending = FALSE
      /\ y.msg_ref = n /\ y.data_req = s.data_req /\ y.up = s.up /\ y.out = a.out
  BY <1>6 DEF Slots
<1> HIDE DEF y
<1>9. Items(y.out) = Items(s.out) \cup {CpAck(t)}
  BY <1>2, <1>5, <1>8 DEF Sends
<1>10. Taken(s, tl_data_ind(y, tp), t, n)
  BY <1>8, <1>9, TlDataTakes
<1> QED BY <1>3, <1>4, <1>7, <1>10 DEF d

\* A loss of the connection in use; one of another transaction is ignored.
LEMMA LossFrees ==
  ASSUME NEW s \in Slots, s.inst = "MT", Free(s) \/ Receiving(s) \/ Closing(s),
         NEW t \in MtTis, NEW cause \in Causes
  PROVE  /\ s.ti # t => cp_mmsms_release_ind(s, t, cause) = s
                        /\ cp_mmsms_error_ind(s, t, cause) = s
         /\ s.ti = t => Freed(s, cp_mmsms_release_ind(s, t, cause), {})
                        /\ Freed(s, cp_mmsms_error_ind(s, t, cause), {RelReq(t)})
<1>1. csf_get_sms_instance(s, t) <=> s.ti = t
  BY DEF csf_get_sms_instance
<1>2. CASE s.ti # t
  BY <1>1, <1>2 DEF cp_mmsms_release_ind, cp_mmsms_error_ind
<1>3. CASE s.ti = t
  <2>1. Receiving(s) \/ Closing(s)
    BY <1>3, MtTiTypes DEF Free
  <2>2. s.cp \in {"ESTABLISHED", "WAIT_FOR_ACK"} /\ s.cp_ack_pending = FALSE
    BY <2>1 DEF Receiving, Closing
  <2>3. cause \in {"norm", "other", "timeout"} /\ 0 \in Retx
    BY NumberTypes DEF Causes
  <2>4. ASSUME NEW u, NEW M, Sends(s, u, M), NEW v \in {ErrorAt(u, t), ReleaseAt(u, t)}
        PROVE  Freed(s, rl_error_ind(v, cause), M)
    <3> DEFINE x == StopTC1M(u)
               l == Lost(u)
    <3>1. /\ u \in Slots /\ u.inst = "MT" /\ u.cp = s.cp /\ u.rl = s.rl /\ u.tl = s.tl
          /\ u.net = s.net /\ u.ti = t /\ u.data_req = s.data_req /\ u.up = s.up
          /\ u.r_flag = s.r_flag /\ u.retx \in Retx /\ u.tc1m \in BOOLEAN /\ t \in Tis
      BY <1>3, <2>4, MtTiTypes DEF Sends, Slots
    <3>2. /\ x \in Slots /\ x.inst = "MT" /\ x.cp = s.cp /\ x.rl = s.rl /\ x.tl = s.tl
          /\ x.net = s.net /\ x.ti = t /\ x.data_req = s.data_req /\ x.up = s.up
          /\ x.r_flag = s.r_flag /\ x.out = u.out
      BY <3>1 DEF StopTC1M, Slots
    <3>3. l = [x EXCEPT !.cp = "IDLE", !.retx = IF u.cp = "WAIT_FOR_ACK" THEN 0 ELSE @]
      BY DEF Lost
    <3> HIDE DEF x, l
    <3>4. /\ l \in Slots /\ l.inst = "MT" /\ l.cp = "IDLE" /\ l.rl = s.rl /\ l.tl = s.tl
          /\ l.net = s.net /\ l.ti = t /\ l.data_req = s.data_req /\ l.up = s.up
          /\ l.r_flag = s.r_flag /\ l.out = u.out
      BY <2>3, <3>2, <3>3 DEF Slots
    <3>5. \/ v = [l EXCEPT !.ti = IF u.cp \in {"PENDING", "WAIT_FOR_ACK"} THEN t ELSE @,
                           !.r_flag = @ /\ u.cp \notin {"PENDING", "WAIT_FOR_ACK"}]
          \/ v = [l EXCEPT !.ti = IF u.cp = "PENDING" THEN t ELSE @, !.r_flag = FALSE]
      BY <2>4 DEF ErrorAt, ReleaseAt, l
    <3>6. s.cp = "ESTABLISHED" => s.r_flag = FALSE
      BY <2>1 DEF Receiving, Closing
    <3>7. /\ v \in Slots /\ v.inst = "MT" /\ v.cp = "IDLE" /\ v.rl = s.rl /\ v.tl = s.tl
          /\ v.net = s.net /\ v.ti = t /\ v.data_req = s.data_req /\ v.up = s.up
          /\ v.r_flag = FALSE /\ v.out = u.out
      <4>1. v = [l EXCEPT !.ti = t, !.r_flag = FALSE]
        <5>1. l.ti = t /\ l.r_flag = s.r_flag /\ u.cp = s.cp
          BY <3>1, <3>4
        <5>2. CASE s.cp = "ESTABLISHED"
          BY <3>5, <3>6, <5>1, <5>2
        <5>3. CASE s.cp = "WAIT_FOR_ACK"
          <6>1. (l.r_flag /\ u.cp \notin {"PENDING", "WAIT_FOR_ACK"}) = FALSE
            BY <5>1, <5>3
          <6> QED BY <3>5, <5>1, <5>3, <6>1
        <5> QED BY <2>2, <5>2, <5>3
      <4> QED BY <3>1, <3>4, <4>1 DEF Slots
    <3>8. \/ v.rl = "IDLE" /\ v.tl = "IDLE" /\ v.net = "IDLE"
          \/ v.rl = "WAIT_FOR_SEND_ACK" /\ v.tl = "RECEIVE"
      BY <2>1, <3>7 DEF Receiving, Closing
    <3>9. LET r == rl_error_ind(v, cause)
          IN  /\ r \in Slots /\ r.inst = "MT" /\ Free(r)
              /\ r.out = u.out /\ r.up = s.up /\ r.data_req = s.data_req
      <4>1. v \in Slots /\ v.inst = "MT" /\ v.cp = "IDLE" /\ v.ti \in MtTis /\ v.r_flag = FALSE
        BY <3>7
      <4>2. /\ rl_error_ind(v, cause) \in Slots /\ rl_error_ind(v, cause).inst = "MT"
            /\ Free(rl_error_ind(v, cause))
            /\ rl_error_ind(v, cause).out = v.out /\ rl_error_ind(v, cause).up = v.up
            /\ rl_error_ind(v, cause).data_req = v.data_req
        BY <2>3, <3>8, <4>1, ErrorFrees
      <4> QED BY <3>7, <4>2
    <3> QED BY <2>4, <3>9 DEF Freed, Sends
  <2>5. Sends(s, s, {}) /\ Sends(s, cp_send_release_req(s, t), {RelReq(t)})
    <3>1. Sends(s, cp_send_release_req(s, t), {RelReq(t)})
      BY <2>2, CpSends, MtTiTypes
    <3> QED BY <3>1 DEF Sends
  <2>6. Freed(s, rl_error_ind(ReleaseAt(s, t), cause), {})
    BY <2>4, <2>5
  <2>7. Freed(s, rl_error_ind(ErrorAt(cp_send_release_req(s, t), t), cause), {RelReq(t)})
    BY <2>4, <2>5
  <2> QED BY <1>1, <1>3, <2>2, <2>6, <2>7 DEF cp_mmsms_release_ind, cp_mmsms_error_ind
<1> QED BY <1>2, <1>3

\* The CP-ACK comes, and the delayed release is made up for.
LEMMA DelayedRelease ==
  ASSUME NEW s \in Slots, s.inst = "MT", Closing(s)
  PROVE  Freed(s, csf_free_sms_instance(Release(StopTC1M(s)), s.ti), {RelReq(s.ti)})
<1> DEFINE u == StopTC1M(s)
           v == cp_send_release_req(u, u.ti)
           w == Release(u)
           x == csf_free_sms_instance(w, s.ti)
<1>1. /\ s.ti \in MtTis /\ s.ti \in Tis /\ s.cp_ack_pending = FALSE /\ s.rl = "IDLE"
      /\ s.tl = "IDLE" /\ s.net = "IDLE"
  BY MtTiTypes DEF Closing
<1>2. Sends(s, u, {}) /\ u \in Slots /\ u.ti = s.ti /\ u.cp_ack_pending = FALSE
  BY <1>1 DEF Sends, StopTC1M, Slots
<1>3. Sends(u, v, {RelReq(s.ti)})
  BY <1>1, <1>2, CpSends
<1>4. w = [v EXCEPT !.cp = "IDLE", !.r_flag = FALSE]
  BY DEF Release
<1> HIDE DEF u, v, w
<1>5. /\ w \in Slots /\ w.inst = "MT" /\ w.cp = "IDLE" /\ w.rl = "IDLE" /\ w.tl = "IDLE"
      /\ w.net = "IDLE" /\ w.ti = s.ti /\ w.r_flag = FALSE /\ w.data_req = s.data_req
      /\ w.up = s.up /\ w.out = v.out
  BY <1>1, <1>2, <1>3, <1>4, ZenonT(40) DEF Sends, Slots
<1>6. x = [w EXCEPT !.ti = 0, !.sdu = FALSE]
  BY <1>1, <1>5 DEF csf_free_sms_instance
<1> HIDE DEF x
<1>7. /\ x \in Slots /\ x.inst = "MT" /\ x.cp = "IDLE" /\ x.rl = "IDLE" /\ x.tl = "IDLE"
      /\ x.net = "IDLE" /\ x.ti = 0 /\ x.r_flag = FALSE /\ x.data_req = s.data_req
      /\ x.up = s.up /\ x.out = v.out
  BY NumberTypes, <1>5, <1>6 DEF Slots
<1>8. Freed(s, x, {RelReq(s.ti)})
  BY <1>2, <1>3, <1>7 DEF Freed, Free, Sends
<1> QED BY <1>8 DEF x, w, u

\* A message on a transaction of its own: a slot that is closing is freed for it, one that
\* is receiving refuses it.
LEMMA EstablishTakes ==
  ASSUME NEW s, MtSlot(s), NEW t \in MtTis, NEW n \in Refs, NEW tp \in TpTypes
  PROVE  LET r == for_mmsms_establish_ind(s, t, Downlink("CP_DATA", "RP_DATA", n, tp))
         IN  \/ Free(s) /\ Taken(s, r, t, n)
             \/ /\ Closing(s)
                /\ \E x \in Slots : /\ Freed(s, x, {RelReq(s.ti)})
                                    /\ Taken(x, r, t, n)
             \/ Receiving(s) /\ Sends(s, r, {Answer(t, "RP_ERROR", n), RelReq(t)})
<1> DEFINE d == Downlink("CP_DATA", "RP_DATA", n, tp)
           r == for_mmsms_establish_ind(s, t, d)
<1>1. s \in Slots /\ s.inst = "MT" /\ d.cp = "CP_DATA" /\ d.ref = n
  BY DEF MtSlot, Downlink
<1>2. CASE Free(s)
  <2>1. for_get_new_mt_instance(s) = s
    BY <1>2 DEF for_get_new_mt_instance, Free
  <2>2. Taken(s, Accept(s, t, d), t, n)
    BY <1>1, <1>2, AcceptTakes
  <2> QED BY <1>2, <2>1, <2>2 DEF for_mmsms_establish_ind
<1>3. CASE Closing(s)
  <2> DEFINE x == for_get_new_mt_instance(s)
  <2>1. s.cp = "WAIT_FOR_ACK" /\ s.r_flag = TRUE /\ s.ti \in MtTis /\ s.ti # 0 /\ s.ti \in Tis
        /\ s.cp_ack_pending = FALSE
    BY <1>3, MtTiTypes DEF Closing
  <2>2. x = csf_free_sms_instance(Release(StopTC1M(s)), s.ti)
    BY <2>1 DEF for_get_new_mt_instance, cp_data_ind_cp_ack, Connected
  <2>3. Freed(s, x, {RelReq(s.ti)})
    BY <1>1, <1>3, <2>2, DelayedRelease
  <2> HIDE DEF x
  <2>4. Taken(x, Accept(x, t, d), t, n)
    BY <2>3, AcceptTakes DEF Freed
  <2>5. r = Accept(x, t, d) /\ x \in Slots
    BY <2>3 DEF for_mmsms_establish_ind, x, Freed
  <2> HIDE DEF r
  <2> QED BY <1>3, <2>3, <2>4, <2>5 DEF r, d
<1>4. CASE Receiving(s)
  <2> DEFINE u == Send(s, Answer(t, "RP_ERROR", n))
  <2>1. for_get_new_mt_instance(s) = s /\ s.ti # 0 /\ s.cp_ack_pending = FALSE
    BY <1>4, MtTiTypes DEF for_get_new_mt_instance, Receiving
  <2>2. Answer(t, "RP_ERROR", n) \in Messages
    BY MtTiTypes, MessageTypes DEF Answer
  <2>3. r = cp_send_release_req(u, t)
    <3> HIDE DEF d
    <3> QED BY <1>1, <2>1 DEF for_mmsms_establish_ind, Accept, Refuse, Answer
  <2>4. Sends(s, u, {Answer(t, "RP_ERROR", n)})
    BY <1>1, <2>2, SendSends
  <2> HIDE DEF u, r
  <2>5. Sends(u, r, {RelReq(t)})
    BY <2>1, <2>3, <2>4, CpSends, MtTiTypes, ZenonT(40) DEF Sends
  <2>6. Sends(s, r, {Answer(t, "RP_ERROR", n)} \cup {RelReq(t)})
    BY <2>4, <2>5, SendsMore
  <2>7. {Answer(t, "RP_ERROR", n)} \cup {RelReq(t)} = {Answer(t, "RP_ERROR", n), RelReq(t)}
    OBVIOUS
  <2> QED BY <1>4, <2>6, <2>7 DEF r, d
<1> QED BY <1>2, <1>3, <1>4 DEF MtSlot

\* A CP-ACK or CP-ERROR of the network ends the transaction in use.
LEMMA DataFrees ==
  ASSUME NEW s, MtSlot(s), NEW t \in MtTis, NEW cp \in {"CP_ACK", "CP_ERROR"}
  PROVE  LET r == for_mmsms_data_ind(s, t, Downlink(cp, "", 0, ""))
         IN  /\ s.ti # t => r = s
             /\ s.ti = t => \/ Freed(s, r, {RelReq(t)})
                            \/ Freed(s, r, {CpError(t), RelReq(t)})
<1> DEFINE d == Downlink(cp, "", 0, "")
           r == for_mmsms_data_ind(s, t, d)
<1>1. /\ s \in Slots /\ s.inst = "MT" /\ d.cp = cp /\ d.rp = ""
  BY DEF MtSlot, Downlink
<1> HIDE DEF d
<1>2. CASE s.ti # t
  BY <1>1, <1>2 DEF for_mmsms_data_ind, csf_get_sms_instance, d
<1>3. CASE s.ti = t
  <2>1. Receiving(s) \/ Closing(s)
    BY <1>3, MtTiTypes DEF MtSlot, Free
  <2>2. Connected(s) /\ s.cp \in {"ESTABLISHED", "WAIT_FOR_ACK"}
    BY <2>1 DEF Connected, Receiving, Closing
  <2>3. r = NextMessage(s, t, d)
    BY <1>1, <1>3 DEF for_mmsms_data_ind, csf_get_sms_instance
  <2>4. CASE cp = "CP_ERROR"
    <3>1. r = cp_send_err_ind_errcs(StopTC1M(s))
      BY <1>1, <2>2, <2>3, <2>4 DEF NextMessage, Undecodable, cp_data_ind_cp_error
    <3>2. Freed(s, r, {RelReq(t)})
      BY <1>1, <1>3, <2>1, <3>1, EndFrees
    <3> QED BY <1>3, <3>2 DEF d
  <2>5. CASE cp = "CP_ACK"
    <3>1. r = cp_data_ind_cp_ack(s)
      BY <1>1, <2>3, <2>5 DEF NextMessage, Undecodable
    <3>2. CASE Receiving(s)
      <4>1. r = cp_send_err_ind_msg_not_comp(s)
        BY <3>1, <3>2 DEF cp_data_ind_cp_ack, Connected, Receiving
      <4>2. Freed(s, r, {CpError(t), RelReq(t)})
        BY <1>1, <1>3, <2>1, <4>1, EndFrees
      <4> QED BY <1>3, <4>2 DEF d
    <3>3. CASE Closing(s)
      <4>1. r = csf_free_sms_instance(Release(StopTC1M(s)), s.ti)
        BY <3>1, <3>3 DEF cp_data_ind_cp_ack, Connected, Closing
      <4>2. Freed(s, r, {RelReq(t)})
        BY <1>1, <1>3, <3>3, <4>1, DelayedRelease
      <4> QED BY <1>3, <4>2 DEF d
    <3> QED BY <2>1, <3>2, <3>3
  <2> QED BY <2>4, <2>5
<1> QED BY <1>2, <1>3

\* The timer of the CP-DATA: it is sent again, or the transaction is given up.
LEMMA TC1MEnds ==
  ASSUME NEW s, MtSlot(s)
  PROVE  LET r == tim_tc1m([s EXCEPT !.tc1m = FALSE])
         IN  \/ Sends(s, r, {})
             \/ Closing(s) /\ Sends(s, r, {s.data_req})
             \/ Closing(s) /\ Freed(s, r, {RelReq(s.ti)})
<1> DEFINE x == [s EXCEPT !.tc1m = FALSE]
           r == tim_tc1m(x)
<1>1. /\ s \in Slots /\ s.inst = "MT" /\ Sends(s, x, {}) /\ x.retx = s.retx /\ x.retx \in Retx
      /\ x.out = s.out
  BY DEF MtSlot, Sends, Slots
<1> HIDE DEF x
<1>2. CASE ~Closing(s)
  <2>1. s.cp # "WAIT_FOR_ACK"
    BY <1>2 DEF MtSlot, Free, Receiving
  <2>2. r = x
    BY <1>1, <2>1 DEF tim_tc1m, Sends
  <2> QED BY <1>1, <2>2 DEF x
<1>3. CASE Closing(s)
  <2>1. x.cp = "WAIT_FOR_ACK" /\ Closing(x) /\ x \in Slots /\ x.inst = "MT" /\ x.ti = s.ti
    BY <1>1, <1>3 DEF Closing, Sends
  <2>2. CASE x.retx >= MAX_RETRANS
    <3>1. r = rl_error_ind(Release(x), "timeout")
      BY <2>1, <2>2, <1>1, CountsAssumption DEF tim_tc1m, Retx
    <3>2. Freed(x, r, {RelReq(s.ti)})
      BY <2>1, <3>1, EndFrees
    <3>3. Freed(s, r, {RelReq(s.ti)})
      BY <1>1, <3>2 DEF Freed, Sends
    <3> QED BY <1>3, <3>3 DEF x
  <2>3. CASE ~(x.retx >= MAX_RETRANS)
    <3> DEFINE m == x.data_req
               y == [x EXCEPT !.retx = @ + 1, !.tc1m = TRUE]
    <3>1. x.retx < MAX_RETRANS /\ x.retx + 1 \in Retx
      BY <1>1, <2>3, CountsAssumption, NumberTypes DEF Retx
    <3>2. r = Send(y, m)
      BY <2>1, <2>3, <3>1 DEF tim_tc1m, Repeat
    <3>3. Sends(s, y, {}) /\ y \in Slots
      BY <1>1, <3>1 DEF Sends, Slots
    <3>4. m \in Messages /\ m = s.data_req
      <4>1. m = s.data_req /\ s.data_req \in Kept /\ s.ti \in Tis
        BY <1>1 DEF Sends, Slots
      <4>2. m # None
        BY <1>3, <4>1, MessageTypes, DataTypes DEF Closing, Answer
      <4> QED BY <4>1, <4>2, DataTypes
    <3> HIDE DEF m, y, r
    <3>5. Sends(y, r, {m})
      BY <3>2, <3>3, <3>4, SendSends
    <3>6. Sends(s, r, {} \cup {m})
      BY <3>3, <3>5, SendsMore
    <3>7. {} \cup {m} = {s.data_req}
      BY <3>4
    <3> QED BY <1>3, <3>6, <3>7 DEF r, x
  <2> QED BY <2>2, <2>3
<1> QED BY <1>2, <1>3

\* The timer of a delivery.
LEMMA TR2MEnds ==
  ASSUME NEW s, MtSlot(s)
  PROVE  LET r == tim_tr2m([s EXCEPT !.tr2m = FALSE])
         IN  \/ Sends(s, r, {})
             \/ Receiving(s) /\ Closes(s, r, "RP_ERROR") /\ r.up = s.up
<1> DEFINE x == [s EXCEPT !.tr2m = FALSE]
           r == tim_tr2m(x)
<1>1. /\ s \in Slots /\ s.inst = "MT" /\ Sends(s, x, {}) /\ x.out = s.out
  BY DEF MtSlot, Sends, Slots
<1> HIDE DEF x
<1>2. CASE Receiving(s)
  <2>1. Receiving(x) /\ x \in Slots /\ x.inst = "MT"
    BY <1>1, <1>2 DEF Receiving, Sends
  <2>2. Closes(x, r, "RP_ERROR") /\ r.up = x.up
    BY <2>1, ReceivingEnds
  <2>3. Closes(s, r, "RP_ERROR") /\ r.up = s.up
    BY <1>1, <2>2 DEF Closes, Sends
  <2> QED BY <1>2, <2>3 DEF x
<1>3. CASE ~Receiving(s)
  <2>1. s.rl # "WAIT_FOR_SEND_ACK"
    BY <1>3 DEF MtSlot, Free, Closing
  <2>2. r = x
    BY <1>1, <2>1 DEF tim_tr2m, Sends
  <2> QED BY <1>1, <2>2 DEF x
<1> QED BY <1>2, <1>3

\* The confirmation of the SIM, also one that comes too late.
LEMMA SimEnds ==
  ASSUME NEW s, MtSlot(s), NEW ok \in BOOLEAN
  PROVE  LET r == tl_sim_update_rec_cnf_net(s, ok)
         IN  \/ ~Receiving(s) /\ r = s
             \/ /\ Receiving(s) /\ r.up = s.up
                /\ Closes(s, r, IF ok THEN "RP_ACK" ELSE "RP_ERROR")
<1>1. CASE Receiving(s)
  BY <1>1, ReceivingEnds DEF MtSlot
<1>2. CASE ~Receiving(s)
  <2>1. s.net = "IDLE"
    BY <1>2 DEF MtSlot, Free, Closing
  <2> QED BY <1>2, <2>1 DEF tl_sim_update_rec_cnf_net
<1> QED BY <1>1, <1>2

-----------------------------------------------------------------------------
(* A connection and the queues *)

\* The release of t is asked for in p; t is announced, or its end is, in q.
Asked(p, t)       == RelReq(t) \in Items(p)
Indicated(q, t, m) == \E x \in Items(q) : x.m = m /\ x.ti = t
Ending(q, t)      == Indicated(q, t, "ERROR_IND") \/ Indicated(q, t, "RELEASE_IND")
Announced(q, t)   == Indicated(q, t, "ESTABLISH_IND")

\* The connection t of MM in the situation c, the slot with the transaction ti, the queue q
\* to SMS and the queue p to MM.  A connection is the slot's, or SMS hears of it, or it is
\* about to be released; SMS is wrong about it only as long as the news is in its queue.
Link(t, c, ti, q, p) ==
  /\ c # "none" => Asked(p, t) \/ Announced(q, t) \/ ti = t
  /\ ti = t \/ Announced(q, t) => ~Asked(p, t) /\ (c = "open" \/ Ending(q, t))
  /\ ti = t => ~Announced(q, t)
  /\ Indicated(q, t, "RELEASE_IND") => c = "none"
  /\ \A i \in DOMAIN q : q[i].m = "ESTABLISH_IND" /\ q[i].ti = t =>
       \A j \in DOMAIN q : q[j].ti = t => i <= j

\* SMS sends the messages M by itself.
LEMMA LinkSent ==
  ASSUME NEW t, NEW c, NEW ti, NEW q, NEW p, Link(t, c, ti, q, p),
         NEW tj, NEW r, NEW M, Items(r) = Items(p) \cup M,
         \/ (tj = t <=> ti = t) /\ RelReq(t) \notin M
         \/ ti = t /\ tj # t /\ RelReq(t) \in M
  PROVE  Link(t, c, tj, q, r)
BY DEF Link, Asked

\* SMS takes the first indication, of another connection or one that says nothing.
LEMMA LinkPassed ==
  ASSUME NEW S, NEW t, NEW c, NEW ti, NEW q \in Seq(S), NEW p, Link(t, c, ti, q, p), q # <<>>,
         \/ Head(q).ti # t
         \/ Head(q).m = "DATA_IND"
         \/ Head(q).m \in {"ERROR_IND", "RELEASE_IND"} /\ ti # t
  PROVE  Link(t, c, ti, Tail(q), p)
<1> DEFINE h == Head(q)
           u == Tail(q)
<1>1. /\ Items(q) = {h} \cup Items(u) /\ 1 \in DOMAIN q /\ h = q[1]
      /\ \A i \in DOMAIN u : i + 1 \in DOMAIN q /\ u[i] = q[i + 1]
      /\ u \in Seq(S)
  BY ItemsTail
<1>2. DOMAIN q \subseteq Nat /\ DOMAIN u \subseteq Nat
  BY <1>1
<1> HIDE DEF h, u
<1>3. \A m : Indicated(u, t, m) => Indicated(q, t, m)
  BY <1>1 DEF Indicated
<1>4. \A m : Indicated(q, t, m) /\ ~(h.ti = t /\ h.m = m) => Indicated(u, t, m)
  BY <1>1 DEF Indicated
<1>5. \A i \in DOMAIN u : u[i].m = "ESTABLISH_IND" /\ u[i].ti = t =>
         \A j \in DOMAIN u : u[j].ti = t => i <= j
  <2> SUFFICES ASSUME NEW i \in DOMAIN u, NEW j \in DOMAIN u,
                      u[i].m = "ESTABLISH_IND", u[i].ti = t, u[j].ti = t
               PROVE  i <= j
    OBVIOUS
  <2>1. i + 1 <= j + 1
    BY <1>1 DEF Link
  <2> QED BY <2>1, <1>2
<1>6. ASSUME h.ti = t, Announced(u, t)
      PROVE  FALSE
  <2>1. PICK x \in Items(u) : x.m = "ESTABLISH_IND" /\ x.ti = t
    BY <1>6 DEF Announced, Indicated
  <2>2. PICK i \in DOMAIN u : u[i] = x
    BY <2>1 DEF Items
  <2>3. i + 1 <= 1
    BY <1>1, <1>6, <2>1, <2>2 DEF Link
  <2> QED BY <1>1, <1>2, <2>2, <2>3
<1>7. Announced(u, t) => Announced(q, t)
  BY <1>3 DEF Announced
<1>8. CASE h.ti # t
  <2>1. /\ Announced(q, t) <=> Announced(u, t)
        /\ Ending(q, t) <=> Ending(u, t)
        /\ Indicated(q, t, "RELEASE_IND") <=> Indicated(u, t, "RELEASE_IND")
    BY <1>3, <1>4, <1>8 DEF Announced, Ending
  <2> QED BY <1>5, <2>1 DEF Link, u
<1>9. CASE h.ti = t
  <2>1. ~Announced(u, t)
    BY <1>6, <1>9
  <2>2. h.m # "ESTABLISH_IND"
    BY <1>8, <1>9 DEF h
  <2>3. ~Announced(q, t)
    BY <1>4, <2>1, <2>2 DEF Announced
  <2>4. CASE h.m = "DATA_IND"
    <3>1. /\ Ending(q, t) <=> Ending(u, t)
          /\ Indicated(q, t, "RELEASE_IND") <=> Indicated(u, t, "RELEASE_IND")
      BY <1>3, <1>4, <2>4 DEF Ending
    <3> QED BY <1>5, <2>1, <2>3, <3>1 DEF Link, u
  <2>5. CASE ti # t
    BY <1>3, <1>5, <2>1, <2>3, <2>5 DEF Link, u
  <2> QED BY <1>9, <2>2, <2>4, <2>5 DEF h
<1> QED BY <1>8, <1>9

\* SMS takes an indication of t and has nothing to do with it afterwards.
LEMMA LinkEnded ==
  ASSUME NEW S, NEW t, NEW c, NEW ti, NEW q \in Seq(S), NEW p, Link(t, c, ti, q, p), q # <<>>,
         Head(q).ti = t, NEW tj, tj # t, NEW r, NEW M, Items(r) = Items(p) \cup M,
         RelReq(t) \in M \/ Head(q).m = "RELEASE_IND"
  PROVE  Link(t, c, tj, Tail(q), r)
<1> DEFINE h == Head(q)
           u == Tail(q)
<1>1. /\ Items(q) = {h} \cup Items(u) /\ 1 \in DOMAIN q /\ h = q[1]
      /\ \A i \in DOMAIN u : i + 1 \in DOMAIN q /\ u[i] = q[i + 1]
      /\ u \in Seq(S)
  BY ItemsTail
<1>2. DOMAIN q \subseteq Nat /\ DOMAIN u \subseteq Nat
  BY <1>1
<1>3. h \in Items(q)
  BY <1>1
<1> HIDE DEF h, u
<1>4. \A i \in DOMAIN u : ~(u[i].m = "ESTABLISH_IND" /\ u[i].ti = t)
  <2> SUFFICES ASSUME NEW i \in DOMAIN u, u[i].m = "ESTABLISH_IND", u[i].ti = t
               PROVE  FALSE
    OBVIOUS
  <2>1. i + 1 <= 1
    BY <1>1 DEF Link, h
  <2> QED BY <1>1, <1>2, <2>1
<1>5. ~Announced(u, t)
  BY <1>4 DEF Announced, Indicated, Items
<1>6. \A m : Indicated(u, t, m) => Indicated(q, t, m)
  BY <1>1 DEF Indicated
<1>7. h.m = "RELEASE_IND" => c = "none"
  BY <1>3 DEF Link, Indicated, h
<1> QED BY <1>4, <1>5, <1>6, <1>7 DEF Link, Asked, h, u

\* SMS takes the announcement of t for its slot.
LEMMA LinkTaken ==
  ASSUME NEW S, NEW t, NEW c, NEW ti, NEW q \in Seq(S), NEW p, Link(t, c, ti, q, p), q # <<>>,
         Head(q).ti = t, Head(q).m = "ESTABLISH_IND",
         NEW r, NEW M, Items(r) = Items(p) \cup M, RelReq(t) \notin M
  PROVE  Link(t, c, t, Tail(q), r)
<1> DEFINE h == Head(q)
           u == Tail(q)
<1>1. /\ Items(q) = {h} \cup Items(u) /\ 1 \in DOMAIN q /\ h = q[1]
      /\ \A i \in DOMAIN u : i + 1 \in DOMAIN q /\ u[i] = q[i + 1]
      /\ u \in Seq(S)
  BY ItemsTail
<1>2. DOMAIN q \subseteq Nat /\ DOMAIN u \subseteq Nat
  BY <1>1
<1>3. h \in Items(q) /\ h.ti = t /\ h.m = "ESTABLISH_IND"
  BY <1>1
<1> HIDE DEF h, u
<1>4. \A i \in DOMAIN u : ~(u[i].m = "ESTABLISH_IND" /\ u[i].ti = t)
  <2> SUFFICES ASSUME NEW i \in DOMAIN u, u[i].m = "ESTABLISH_IND", u[i].ti = t
               PROVE  FALSE
    OBVIOUS
  <2>1. i + 1 <= 1
    BY <1>1, <1>3 DEF Link
  <2> QED BY <1>1, <1>2, <2>1
<1>5. ~Announced(u, t)
  BY <1>4 DEF Announced, Indicated, Items
<1>6. /\ \A m : Indicated(u, t, m) => Indicated(q, t, m)
      /\ Announced(q, t) /\ (Ending(q, t) => Ending(u, t))
  <2>1. \A m : Indicated(u, t, m) => Indicated(q, t, m)
    BY <1>1 DEF Indicated
  <2>2. Announced(q, t)
    BY <1>3 DEF Announced, Indicated
  <2>3. Ending(q, t) => Ending(u, t)
    BY <1>1, <1>3 DEF Ending, Indicated
  <2> QED BY <2>1, <2>2, <2>3
<1> QED BY <1>4, <1>5, <1>6 DEF Link, Asked, u

\* MM and the network.
LEMMA LinkOutside ==
  ASSUME NEW S, NEW t, NEW c, NEW ti, NEW q \in Seq(S), NEW p, Link(t, c, ti, q, p)
  PROVE  /\ \A m \in S : m.m = "DATA_IND" \/ m.ti # t => Link(t, c, ti, Append(q, m), p)
         /\ \A m \in S : c = "open" /\ m.ti = t /\ m.m = "ERROR_IND" =>
              Link(t, "lost", ti, Append(q, m), p)
         /\ \A m \in S : c = "open" /\ m.ti = t /\ m.m = "RELEASE_IND" =>
              Link(t, "none", ti, Append(q, m), p)
<1> SUFFICES ASSUME NEW m \in S
             PROVE  /\ m.m = "DATA_IND" \/ m.ti # t => Link(t, c, ti, Append(q, m), p)
                    /\ c = "open" /\ m.ti = t /\ m.m = "ERROR_IND" =>
                         Link(t, "lost", ti, Append(q, m), p)
                    /\ c = "open" /\ m.ti = t /\ m.m = "RELEASE_IND" =>
                         Link(t, "none", ti, Append(q, m), p)
  OBVIOUS
<1> DEFINE r == Append(q, m)
<1>1. /\ Items(r) = Items(q) \cup {m}
      /\ DOMAIN q = 1 .. Len(q) /\ DOMAIN r = 1 .. Len(q) + 1 /\ Len(q) \in Nat
      /\ \A i \in DOMAIN q : r[i] = q[i]
      /\ r[Len(q) + 1] = m
  BY ItemsAppend
<1> HIDE DEF r
<1>2. \A k : Indicated(r, t, k) <=> Indicated(q, t, k) \/ (m.ti = t /\ m.m = k)
  BY <1>1 DEF Indicated
<1>3. ASSUME m.m # "ESTABLISH_IND" \/ m.ti # t
      PROVE  \A i \in DOMAIN r : r[i].m = "ESTABLISH_IND" /\ r[i].ti = t =>
               \A j \in DOMAIN r : r[j].ti = t => i <= j
  <2> SUFFICES ASSUME NEW i \in DOMAIN r, NEW j \in DOMAIN r,
                      r[i].m = "ESTABLISH_IND", r[i].ti = t, r[j].ti = t
               PROVE  i <= j
    OBVIOUS
  <2>1. i \in DOMAIN q
    BY <1>1, <1>3
  <2>2. CASE j \in DOMAIN q
    BY <1>1, <2>1, <2>2 DEF Link
  <2>3. CASE j \notin DOMAIN q
    BY <1>1, <2>1, <2>3
  <2> QED BY <2>2, <2>3
<1>4. CASE m.m = "DATA_IND" \/ m.ti # t
  <2>1. /\ Announced(r, t) <=> Announced(q, t)
        /\ Ending(r, t) <=> Ending(q, t)
        /\ Indicated(r, t, "RELEASE_IND") <=> Indicated(q, t, "RELEASE_IND")
    BY <1>2, <1>4 DEF Announced, Ending
  <2>2. m.m # "ESTABLISH_IND" \/ m.ti # t
    BY <1>4
  <2>3. Link(t, c, ti, r, p)
    BY <1>3, <2>1, <2>2 DEF Link
  <2>4. m.ti = t => m.m = "DATA_IND"
    BY <1>4
  <2> QED BY <2>3, <2>4 DEF r
<1>5. CASE c = "open" /\ m.ti = t /\ m.m \in {"ERROR_IND", "RELEASE_IND"}
  <2>1. /\ Announced(r, t) <=> Announced(q, t)
        /\ Ending(r, t)
        /\ m.m = "ERROR_IND" => ~Indicated(r, t, "RELEASE_IND")
    BY <1>2, <1>5 DEF Announced, Ending, Link
  <2>2. m.m # "ESTABLISH_IND"
    BY <1>5
  <2>3. CASE m.m = "ERROR_IND"
    <3>1. Link(t, "lost", ti, r, p)
      BY <1>3, <1>5, <2>1, <2>2, <2>3 DEF Link
    <3> QED BY <3>1, <2>3, <1>5 DEF r
  <2>4. CASE m.m = "RELEASE_IND"
    <3>1. Link(t, "none", ti, r, p)
      BY <1>3, <1>5, <2>1, <2>2, <2>4 DEF Link
    <3> QED BY <3>1, <2>4, <1>5 DEF r
  <2> QED BY <1>5, <2>3, <2>4
<1> QED BY <1>4, <1>5

LEMMA LinkOpened ==
  ASSUME NEW S, NEW t, NEW ti, NEW q \in Seq(S), NEW p, Link(t, "none", ti, q, p),
         NEW m \in S, m.m = "ESTABLISH_IND", m.ti = t,
         \A i \in DOMAIN q : q[i].ti # t, \A i \in DOMAIN p : p[i].ti # t
  PROVE  Link(t, "open", ti, Append(q, m), p)
<1> DEFINE r == Append(q, m)
<1>1. /\ Items(r) = Items(q) \cup {m}
      /\ DOMAIN q = 1 .. Len(q) /\ DOMAIN r = 1 .. Len(q) + 1 /\ Len(q) \in Nat
      /\ \A i \in DOMAIN q : r[i] = q[i]
      /\ r[Len(q) + 1] = m
  BY ItemsAppend
<1> HIDE DEF r
<1>2. /\ \A k : ~Indicated(q, t, k)
      /\ ~Asked(p, t)
  <2>1. RelReq(t).ti = t
    BY DEF RelReq, ToMM
  <2> QED BY <2>1 DEF Indicated, Asked, Items
<1>3. ti # t
  BY <1>2 DEF Link, Ending
<1>4. \A i, j \in DOMAIN r : r[i].ti = t /\ r[j].ti = t => i <= j
  BY <1>1
<1>5. Announced(r, t) /\ ~Indicated(r, t, "RELEASE_IND")
  BY <1>1, <1>2 DEF Announced, Indicated
<1> QED BY <1>2, <1>3, <1>4, <1>5 DEF Link, r

\* MM takes the first request.
LEMMA LinkReleased ==
  ASSUME NEW t, NEW c, NEW ti, NEW q, NEW p \in Seq(Messages), Link(t, c, ti, q, p), p # <<>>
  PROVE  /\ Head(p) # RelReq(t) => Link(t, c, ti, q, Tail(p))
         /\ Head(p) = RelReq(t) => Link(t, "none", ti, q, Tail(p))
<1> DEFINE u == Tail(p)
           h == Head(p)
<1>1. Items(p) = {h} \cup Items(u)
  BY ItemsTail
<1> HIDE DEF u, h
<1>2. CASE h # RelReq(t)
  <2>1. Asked(u, t) <=> Asked(p, t)
    BY <1>1, <1>2 DEF Asked
  <2> QED BY <1>2, <2>1 DEF Link, u, h
<1>3. CASE h = RelReq(t)
  <2>1. Asked(p, t)
    BY <1>1, <1>3 DEF Asked
  <2> QED BY <1>3, <2>1 DEF Link, u, h
<1> QED BY <1>2, <1>3

-----------------------------------------------------------------------------
(* What is acknowledged is stored *)

\* The slot s, the queue p to MM, the writes w, the messages st stored and a acknowledged.
Store(s, p, w, st, a) ==
  /\ a \subseteq st
  /\ \A m \in Items(p) : m.rp = "RP_ACK" => m.ref \in st
  /\ Closing(s) /\ s.data_req.rp = "RP_ACK" => s.data_req.ref \in st
  /\ Receiving(s) => w = <<s.msg_ref>>

LEMMA AnswerFields ==
  ASSUME NEW t, NEW rp, NEW n
  PROVE  /\ Answer(t, rp, n).rp = rp /\ Answer(t, rp, n).ref = n
         /\ Answer(t, rp, n) # RelReq(t) /\ CpError(t) # RelReq(t) /\ CpAck(t) # RelReq(t)
         /\ RelReq(t).rp = "" /\ CpAck(t).rp = "" /\ CpError(t).rp = ""
         /\ RelReq(t).ti = t /\ Answer(t, rp, n).ti = t
<1>1. /\ Answer(t, rp, n).rp = rp /\ Answer(t, rp, n).ref = n /\ Answer(t, rp, n).m = "DATA_REQ"
      /\ RelReq(t).m = "RELEASE_REQ" /\ CpAck(t).m = "DATA_REQ" /\ CpError(t).m = "DATA_REQ"
      /\ RelReq(t).rp = "" /\ CpAck(t).rp = "" /\ CpError(t).rp = ""
      /\ RelReq(t).ti = t /\ Answer(t, rp, n).ti = t
  BY DEF Answer, RelReq, CpAck, CpError, ToMM
<1>2. Answer(t, rp, n) # RelReq(t)
  BY <1>1, Zenon
<1>3. CpError(t) # RelReq(t) /\ CpAck(t) # RelReq(t)
  BY <1>1, Zenon
<1> QED BY <1>1, <1>2, <1>3

LEMMA NoAcks ==
  \A t, n : /\ RelReq(t).rp # "RP_ACK" /\ CpAck(t).rp # "RP_ACK" /\ CpError(t).rp # "RP_ACK"
            /\ Answer(t, "RP_ERROR", n).rp # "RP_ACK"
<1>1. ASSUME NEW t, NEW n
      PROVE  /\ RelReq(t).rp = "" /\ CpAck(t).rp = "" /\ CpError(t).rp = ""
             /\ Answer(t, "RP_ERROR", n).rp = "RP_ERROR"
  BY DEF Answer, RelReq, CpAck, CpError, ToMM
<1> QED BY <1>1, Zenon

LEMMA StoreSends ==
  ASSUME NEW s, NEW r, NEW N, Sends(s, r, N), NEW p, NEW w, NEW st, NEW a,
         Store(s, p, w, st, a), NEW q, NEW M, Items(q) = Items(p) \cup M,
         \A m \in M : m.rp = "RP_ACK" => m.ref \in st
  PROVE  Store(r, q, w, st, a)
<1>1. Closing(r) => Closing(s) /\ r.data_req = s.data_req
  BY DEF Sends, Closing
<1>2. Receiving(r) => Receiving(s) /\ r.msg_ref = s.msg_ref
  BY DEF Sends, Receiving
<1> QED BY <1>1, <1>2 DEF Store

LEMMA StoreFreed ==
  ASSUME NEW s, NEW r, NEW N, Freed(s, r, N), NEW p, NEW w, NEW v, NEW st, NEW a,
         Store(s, p, w, st, a), NEW q, NEW M, Items(q) = Items(p) \cup M,
         \A m \in M : m.rp # "RP_ACK"
  PROVE  Store(r, q, v, st, a)
<1>1. ~Closing(r) /\ ~Receiving(r)
  BY DEF Freed, Free, Closing, Receiving
<1> QED BY <1>1 DEF Store

LEMMA StoreCloses ==
  ASSUME NEW s, NEW r, NEW rp, Closes(s, r, rp), NEW p, NEW w, NEW v, NEW st, NEW su, NEW a,
         Store(s, p, w, st, a), NEW q, Items(q) = Items(p) \cup {r.data_req},
         st \subseteq su, rp = "RP_ACK" => s.msg_ref \in su
  PROVE  Store(r, q, v, su, a)
<1>1. Closing(r) /\ ~Receiving(r) /\ r.data_req.rp = rp /\ r.data_req.ref = s.msg_ref
  BY DEF Closes, Closing, Receiving, Answer, ToMM
<1> QED BY <1>1 DEF Store

LEMMA StoreTakes ==
  ASSUME NEW s, NEW r, NEW t, NEW n, Taken(s, r, t, n), s.up = <<>>, \A m \in Items(s.out) : m.rp # "RP_ACK",
         NEW p, NEW w, NEW v, NEW st, NEW su, NEW a,
         a \subseteq st, \A m \in Items(p) : m.rp = "RP_ACK" => m.ref \in st,
         NEW q, Items(q) = Items(p) \cup Items(r.out),
         su = IF r.up = <<"shown">> THEN st \cup {n} ELSE st,
         r.up = <<"store">> => v = <<n>>
  PROVE  Store(r, q, v, su, a)
<1>1. \A m \in Items(s.out) : m.rp # "RP_ACK"
  OBVIOUS
<1>2. CASE Receiving(r)
  <2>1. /\ r.msg_ref = n /\ r.up = <<"store">>
        /\ Items(r.out) = Items(s.out) \cup {CpAck(t)} /\ ~Closing(r)
    BY <1>2 DEF Taken, Receiving, Closing
  <2>2. su = st /\ v = <<n>>
    BY <2>1
  <2>3. \A m \in Items(r.out) : m.rp # "RP_ACK"
    BY <1>1, <2>1, AnswerFields
  <2> QED BY <2>1, <2>2, <2>3 DEF Store
<1>3. CASE Closing(r)
  <2>1. ~Receiving(r)
    BY <1>3 DEF Closing, Receiving
  <2>2. PICK rp \in {"RP_ACK", "RP_ERROR"} :
             /\ r.data_req = Answer(t, rp, n) /\ (rp = "RP_ACK" => r.up = <<"shown">>)
             /\ Items(r.out) = Items(s.out) \cup {CpAck(t)} \cup {r.data_req}
    <3>1. Append(s.up, "shown") = <<"shown">>
      OBVIOUS
    <3> QED BY <2>1, <3>1 DEF Taken
  <2>3. r.data_req.rp = rp /\ r.data_req.ref = n
    BY <2>2 DEF Answer, ToMM
  <2>4. st \subseteq su /\ (rp = "RP_ACK" => n \in su)
    BY <2>2
  <2>5. \A m \in Items(r.out) : m.rp = "RP_ACK" => m.ref \in su
    BY <1>1, <2>2, <2>3, <2>4, AnswerFields
  <2> QED BY <2>1, <2>3, <2>4, <2>5 DEF Store
<1> QED BY <1>2, <1>3 DEF Taken

-----------------------------------------------------------------------------
(* The inductive invariant *)

Indications ==
  [m : {"ESTABLISH_IND"}, ti : MtTis, cause : {""},
   d : [cp : {"CP_DATA"}, rp : {"RP_DATA"}, ref : Refs, tp : TpTypes]]
  \cup [m : {"DATA_IND"}, ti : MtTis, cause : {""},
        d : [cp : {"CP_ACK", "CP_ERROR"}, rp : {""}, ref : {0}, tp : {""}]]
  \cup [m : {"RELEASE_IND", "ERROR_IND"}, ti : MtTis, cause : Causes,
        d : [cp : {""}, rp : {""}, ref : {0}, tp : {""}]]

MtTypes ==
  /\ toSMS \in Seq(Indications)
  /\ toMM \in Seq(Messages)
  /\ conn \in [MtTis -> {"none", "open", "lost"}]
  /\ writes \in Seq(Refs)
  /\ deliveries \in Nat

\* A release request names its connection and nothing else.
Plain(M) == \A x \in M : x.m = "DATA_REQ" \/ \E t : x = RelReq(t)

\* The slot and the connections of MM.
Joined(s, c, q, p) ==
  MtSlot(s) /\ Plain(Items(p)) /\ \A t \in MtTis : Link(t, c[t], s.ti, q, p)

MtInv ==
  /\ MtTypes
  /\ Joined(sms, conn, toSMS, toMM)
  /\ FastSim => Store(sms, toMM, writes, stored, acked)

LEMMA IndicationKinds ==
  ASSUME NEW h \in Indications
  PROVE  /\ h.ti \in MtTis
         /\ \/ /\ h.m = "ESTABLISH_IND"
               /\ \E n \in Refs, tp \in TpTypes : h.d = Downlink("CP_DATA", "RP_DATA", n, tp)
            \/ /\ h.m = "DATA_IND"
               /\ \E cp \in {"CP_ACK", "CP_ERROR"} : h.d = Downlink(cp, "", 0, "")
            \/ h.m \in {"RELEASE_IND", "ERROR_IND"} /\ h.cause \in Causes
<1>1. h.ti \in MtTis
  BY DEF Indications
<1>2. CASE h.m = "ESTABLISH_IND"
  <2>1. /\ h.d.ref \in Refs /\ h.d.tp \in TpTypes
        /\ h.d = Downlink("CP_DATA", "RP_DATA", h.d.ref, h.d.tp)
    BY <1>2 DEF Indications, Downlink
  <2> QED BY <1>1, <1>2, <2>1
<1>3. CASE h.m = "DATA_IND"
  <2>1. h.d.cp \in {"CP_ACK", "CP_ERROR"} /\ h.d = Downlink(h.d.cp, "", 0, "")
    BY <1>3 DEF Indications, Downlink
  <2> QED BY <1>1, <1>3, <2>1
<1>4. CASE h.m \notin {"ESTABLISH_IND", "DATA_IND"}
  BY <1>1, <1>4 DEF Indications
<1> QED BY <1>2, <1>3, <1>4

\* What a step leaves of the slot.
LEMMA SlotAfter ==
  ASSUME NEW s, NEW r
  PROVE  /\ \A M : MtSlot(s) /\ Sends(s, r, M) => MtSlot(r) /\ r.ti = s.ti /\ r.up = s.up
         /\ \A M : Freed(s, r, M) => MtSlot(r) /\ r.ti = 0 /\ r.up = s.up
         /\ \A rp : Closes(s, r, rp) => MtSlot(r) /\ r.ti = s.ti
         /\ \A t, n : Taken(s, r, t, n) => MtSlot(r) /\ r.ti = t
<1>1. \A M : MtSlot(s) /\ Sends(s, r, M) => MtSlot(r) /\ r.ti = s.ti /\ r.up = s.up
  BY DEF MtSlot, Sends, Free, Receiving, Closing
<1>2. \A M : Freed(s, r, M) => MtSlot(r) /\ r.ti = 0 /\ r.up = s.up
  BY DEF MtSlot, Freed, Free
<1>3. \A rp : Closes(s, r, rp) => MtSlot(r) /\ r.ti = s.ti
  BY DEF MtSlot, Closes
<1>4. \A t, n : Taken(s, r, t, n) => MtSlot(r) /\ r.ti = t
  BY DEF MtSlot, Taken
<1> QED BY <1>1, <1>2, <1>3, <1>4

\* The handlers begin with nothing sent and nothing told.
Blank(s) == MtSlot(s) /\ s.out = <<>> /\ s.up = <<>>

LEMMA BlankSends ==
  ASSUME NEW s, Blank(s)
  PROVE  Items(s.out) = {}
<1>1. s.out = <<>>
  BY DEF Blank
<1>2. DOMAIN s.out = {}
  BY <1>1
<1> QED BY <1>2 DEF Items

\* No other connection is released.
LEMMA OtherRequests ==
  ASSUME NEW u
  PROVE  /\ \A t : t # u => RelReq(t) # RelReq(u)
         /\ \A v, rp, n : Answer(v, rp, n) # RelReq(u)
         /\ \A v : CpAck(v) # RelReq(u) /\ CpError(v) # RelReq(u)
<1>1. \A t : RelReq(t).ti = t /\ RelReq(t).m = "RELEASE_REQ"
  BY DEF RelReq, ToMM
<1>2. /\ \A v, rp, n : Answer(v, rp, n).m = "DATA_REQ"
      /\ \A v : CpAck(v).m = "DATA_REQ" /\ CpError(v).m = "DATA_REQ"
  BY DEF Answer, CpAck, CpError, ToMM
<1>3. ASSUME NEW t, t # u
      PROVE  RelReq(t) # RelReq(u)
  <2>1. RelReq(t).ti # RelReq(u).ti
    BY <1>1, <1>3
  <2> QED BY <2>1
<1>4. ASSUME NEW v, NEW rp, NEW n
      PROVE  Answer(v, rp, n) # RelReq(u)
  <2>1. Answer(v, rp, n).m # RelReq(u).m
    BY <1>1, <1>2
  <2> QED BY <2>1
<1>5. ASSUME NEW v
      PROVE  CpAck(v) # RelReq(u) /\ CpError(v) # RelReq(u)
  <2>1. CpAck(v).m # RelReq(u).m /\ CpError(v).m # RelReq(u).m
    BY <1>1, <1>2
  <2> QED BY <2>1
<1> QED BY <1>3, <1>4, <1>5

LEMMA DataRequests ==
  /\ \A u, rp, n : Answer(u, rp, n).m = "DATA_REQ"
  /\ \A u : CpAck(u).m = "DATA_REQ" /\ CpError(u).m = "DATA_REQ"
BY DEF Answer, CpAck, CpError, ToMM

LEMMA PlainSent ==
  ASSUME NEW p, NEW pp, NEW M, Plain(Items(p)), Items(pp) = Items(p) \cup M, Plain(M)
  PROVE  Plain(Items(pp))
BY DEF Plain

\* What the message n leaves in the stores once the slot f has become r.
StoredAfter(f, r, p, pp, n) ==
  \A w, v, st, su, a :
    /\ Store(f, p, w, st, a) /\ (f.rl = "IDLE" => w = <<>>)
    /\ v = (IF r.up = <<"store">> THEN Append(w, n) ELSE w)
    /\ su = (IF r.up = <<"shown">> THEN st \cup {n} ELSE st)
    => Store(r, pp, v, su, a)

LEMMA EstablishLinks ==
  ASSUME NEW f, Blank(f), NEW q \in Seq(Indications), q # <<>>, NEW c, NEW p, NEW pp,
         Joined(f, c, q, p), NEW t \in MtTis, Head(q).ti = t, Head(q).m = "ESTABLISH_IND",
         NEW n \in Refs, NEW r,
         \/ Free(f) /\ Taken(f, r, t, n)
         \/ /\ Closing(f)
            /\ \E x \in Slots : Freed(f, x, {RelReq(f.ti)}) /\ Taken(x, r, t, n)
         \/ Receiving(f) /\ Sends(f, r, {Answer(t, "RP_ERROR", n), RelReq(t)}),
         Items(pp) = Items(p) \cup Items(r.out)
  PROVE  /\ Joined(r, c, Tail(q), pp)
         /\ r.up \in {<<>>, <<"store">>, <<"shown">>} /\ (r.up # <<>> => r.msg_ref = n)
         /\ StoredAfter(f, r, p, pp, n)
<1>1. MtSlot(f) /\ f.out = <<>> /\ f.up = <<>> /\ Items(f.out) = {} /\ f.ti \in {0} \cup MtTis
  <2>1. f.ti \in {0} \cup MtTis
    BY DEF Blank, MtSlot, Free, Receiving, Closing
  <2> QED BY <2>1, ItemsTyped DEF Blank
<1>2. Head(q) \in Items(q) /\ f.ti # t
  <2>1. Head(q) \in Items(q)
    BY ItemsTail
  <2>2. Announced(q, t)
    BY <2>1 DEF Announced, Indicated
  <2> QED BY <2>1, <2>2 DEF Joined, Link
<1>3. ASSUME NEW u \in MtTis
      PROVE  /\ Link(u, c[u], f.ti, q, p)
             /\ u # t => Link(u, c[u], f.ti, Tail(q), p)
  BY LinkPassed DEF Joined
<1>4. /\ Append(<<>>, "store") = <<"store">> /\ Append(<<>>, "shown") = <<"shown">>
      /\ <<"store">> # <<>> /\ <<"shown">> # <<>> /\ <<"store">> # <<"shown">>
      /\ Append(<<>>, n) = <<n>>
  OBVIOUS
<1>5. ASSUME NEW x \in Slots, Taken(x, r, t, n), x.up = <<>>,
             \/ Free(f) /\ x = f
             \/ Closing(f) /\ Freed(f, x, {RelReq(f.ti)})
      PROVE  /\ Joined(r, c, Tail(q), pp)
             /\ r.up \in {<<>>, <<"store">>, <<"shown">>} /\ (r.up # <<>> => r.msg_ref = n)
             /\ StoredAfter(f, r, p, pp, n)
  <2>1. /\ MtSlot(r) /\ r.ti = t
        /\ r.up \in {<<>>, <<"store">>, <<"shown">>} /\ (r.up # <<>> => r.msg_ref = n)
    <3>1. MtSlot(r) /\ r.ti = t
      BY <1>5 DEF Taken, MtSlot
    <3>2. \/ r.up = Append(<<>>, "store") /\ r.msg_ref = n
          \/ r.up = Append(<<>>, "shown") /\ r.msg_ref = n
          \/ r.up = <<>>
      BY <1>5 DEF Taken
    <3> QED BY <1>4, <3>1, <3>2
  <2>2. /\ Free(f) => f.ti = 0 /\ Items(x.out) = {}
        /\ Closing(f) => f.ti # 0 /\ Items(x.out) = {RelReq(f.ti)}
    BY <1>1, <1>5, MtTiTypes DEF Free, Closing, Freed
  <2>3. \A u : RelReq(u) \in Items(r.out) <=> RelReq(u) \in Items(x.out)
    <3>1. \/ Items(r.out) = Items(x.out) \cup {CpAck(t)}
          \/ \E rp : Items(r.out) = Items(x.out) \cup {CpAck(t)} \cup {Answer(t, rp, n)}
      BY <1>5 DEF Taken
    <3> QED BY <3>1, OtherRequests
  <2>4. Link(t, c[t], t, Tail(q), pp)
    <3>1. RelReq(t) \notin Items(r.out)
      BY <1>2, <1>5, <2>2, <2>3, OtherRequests
    <3> QED BY <1>3, <3>1, LinkTaken
  <2>5. ASSUME NEW u \in MtTis, u # t
        PROVE  Link(u, c[u], t, Tail(q), pp)
    <3>1. CASE f.ti = u
      <4>1. RelReq(u) \in Items(r.out)
        BY <1>5, <2>2, <2>3, <3>1, MtTiTypes
      <4> QED BY <1>3, <2>5, <3>1, <4>1, LinkSent
    <3>2. CASE f.ti # u
      <4>1. RelReq(u) \notin Items(r.out)
        BY <1>5, <2>2, <2>3, <3>2, OtherRequests
      <4> QED BY <1>3, <2>5, <3>2, <4>1, LinkSent
    <3> QED BY <3>1, <3>2
  <2>6. Joined(r, c, Tail(q), pp)
    <3>1. \/ Items(r.out) = Items(x.out) \cup {CpAck(t)}
          \/ \E rp : Items(r.out) = Items(x.out) \cup {CpAck(t)} \cup {Answer(t, rp, n)}
      BY <1>5 DEF Taken
    <3>2. Plain(Items(r.out))
      BY <1>5, <2>2, <3>1, DataRequests DEF Plain
    <3>3. Plain(Items(p))
      BY DEF Joined
    <3>4. Plain(Items(pp))
      BY <3>2, <3>3, PlainSent
    <3> QED BY <2>1, <2>4, <2>5, <3>4 DEF Joined
  <2>7. ASSUME NEW w, NEW v, NEW st, NEW su, NEW a, Store(f, p, w, st, a), f.rl = "IDLE" => w = <<>>,
               v = IF r.up = <<"store">> THEN Append(w, n) ELSE w,
               su = IF r.up = <<"shown">> THEN st \cup {n} ELSE st
        PROVE  Store(r, pp, v, su, a)
    <3>1. w = <<>>
      BY <1>5, <2>7 DEF Free, Closing
    <3>2. r.up = <<"store">> => v = <<n>>
      BY <1>4, <2>7, <3>1
    <3>3. Items(x.out) \subseteq {RelReq(f.ti)}
      BY <1>5, <2>2
    <3>4. \A m \in Items(x.out) : m.rp # "RP_ACK"
      BY <3>3, AnswerFields
    <3>5. a \subseteq st /\ \A m \in Items(p) : m.rp = "RP_ACK" => m.ref \in st
      BY <2>7 DEF Store
    <3> QED BY <1>5, <2>7, <3>2, <3>4, <3>5, StoreTakes
  <2>8. StoredAfter(f, r, p, pp, n)
    BY <2>7 DEF StoredAfter
  <2> QED BY <2>1, <2>6, <2>8
<1>6. CASE Free(f) /\ Taken(f, r, t, n)
  <2>1. f \in Slots
    BY <1>1 DEF MtSlot
  <2> QED BY <1>1, <1>5, <1>6, <2>1
<1>7. CASE Closing(f) /\ \E x \in Slots : Freed(f, x, {RelReq(f.ti)}) /\ Taken(x, r, t, n)
  <2>1. PICK x \in Slots : Freed(f, x, {RelReq(f.ti)}) /\ Taken(x, r, t, n)
    BY <1>7
  <2>2. x.up = <<>>
    BY <1>1, <2>1 DEF Freed
  <2> QED BY <1>5, <1>7, <2>1, <2>2
<1>8. CASE Receiving(f) /\ Sends(f, r, {Answer(t, "RP_ERROR", n), RelReq(t)})
  <2>1. /\ MtSlot(r) /\ r.ti = f.ti /\ r.up = <<>>
        /\ Items(r.out) = {Answer(t, "RP_ERROR", n), RelReq(t)}
    <3>1. MtSlot(r) /\ r.ti = f.ti /\ r.up = f.up
      BY <1>1, <1>8, SlotAfter
    <3>2. Items(r.out) = Items(f.out) \cup {Answer(t, "RP_ERROR", n), RelReq(t)}
      BY <1>8 DEF Sends
    <3> QED BY <1>1, <3>1, <3>2
  <2>2. Link(t, c[t], r.ti, Tail(q), pp)
    <3>1. RelReq(t) \in Items(r.out) /\ r.ti # t
      BY <1>2, <2>1
    <3>2. Link(t, c[t], f.ti, q, p)
      BY <1>3
    <3> QED BY <3>1, <3>2, LinkEnded
  <2>3. ASSUME NEW u \in MtTis, u # t
        PROVE  Link(u, c[u], r.ti, Tail(q), pp)
    <3>1. RelReq(u) \notin Items(r.out)
      BY <2>1, <2>3, OtherRequests
    <3> QED BY <1>3, <2>1, <2>3, <3>1, LinkSent
  <2>4. \A m \in Items(r.out) : m.rp # "RP_ACK"
    <3>1. Answer(t, "RP_ERROR", n).rp = "RP_ERROR" /\ RelReq(t).rp = ""
      BY DEF Answer, RelReq, ToMM
    <3> QED BY <2>1, <3>1
  <2>5. Joined(r, c, Tail(q), pp)
    <3>1. Plain(Items(r.out))
      BY <2>1, DataRequests DEF Plain
    <3>2. Plain(Items(p))
      BY DEF Joined
    <3>3. Plain(Items(pp))
      BY <3>1, <3>2, PlainSent
    <3> QED BY <2>1, <2>2, <2>3, <3>3 DEF Joined
  <2>6. \A w, st, a : Store(f, p, w, st, a) => Store(r, pp, w, st, a)
    <3> SUFFICES ASSUME NEW w, NEW st, NEW a, Store(f, p, w, st, a)
                 PROVE  Store(r, pp, w, st, a)
      OBVIOUS
    <3>1. \A m \in Items(r.out) : m.rp = "RP_ACK" => m.ref \in st
      BY <2>4
    <3>2. Closing(r) => Closing(f) /\ r.data_req = f.data_req
      BY <1>8 DEF Sends, Closing
    <3>3. Receiving(r) => Receiving(f) /\ r.msg_ref = f.msg_ref
      BY <1>8 DEF Sends, Receiving
    <3> QED BY <3>1, <3>2, <3>3 DEF Store
  <2>7. StoredAfter(f, r, p, pp, n)
    BY <1>4, <2>1, <2>6 DEF StoredAfter
  <2> QED BY <1>4, <2>1, <2>5, <2>7
<1> QED BY <1>6, <1>7, <1>8

\* What a step does that takes no announcement: it repeats, it answers, or it ends the transaction.
Handled(f, r) ==
  \/ Sends(f, r, {})
  \/ Closing(f) /\ Sends(f, r, {f.data_req})
  \/ Receiving(f) /\ \E rp \in {"RP_ACK", "RP_ERROR"} : Closes(f, r, rp)
  \/ f.ti \in MtTis /\ Freed(f, r, {RelReq(f.ti)})
  \/ f.ti \in MtTis /\ Freed(f, r, {CpError(f.ti), RelReq(f.ti)})

LEMMA HandledLinks ==
  ASSUME NEW f, Blank(f), NEW c, NEW q, NEW p, Joined(f, c, q, p), NEW r, Handled(f, r),
         NEW pp, Items(pp) = Items(p) \cup Items(r.out)
  PROVE  Joined(r, c, q, pp)
<1>1. MtSlot(f) /\ Items(f.out) = {}
  BY BlankSends DEF Blank
<1>2. \A u \in MtTis : Link(u, c[u], f.ti, q, p) /\ u # 0
  BY MtTiTypes DEF Joined
<1>5. Plain(Items(p))
  BY DEF Joined
<1>3. CASE \/ Sends(f, r, {})
           \/ Closing(f) /\ Sends(f, r, {f.data_req})
           \/ \E rp \in {"RP_ACK", "RP_ERROR"} : Closes(f, r, rp)
  <2>1. MtSlot(r) /\ r.ti = f.ti
    BY <1>1, <1>3, SlotAfter
  <2>2. \/ Items(r.out) = {}
        \/ \E v, rp, n : Items(r.out) = {Answer(v, rp, n)}
    <3>1. CASE Sends(f, r, {})
      BY <1>1, <3>1 DEF Sends
    <3>2. CASE Closing(f) /\ Sends(f, r, {f.data_req})
      BY <1>1, <3>2 DEF Sends, Closing
    <3>3. CASE \E rp \in {"RP_ACK", "RP_ERROR"} : Closes(f, r, rp)
      BY <1>1, <3>3 DEF Closes
    <3> QED BY <1>3, <3>1, <3>2, <3>3
  <2>3. \A u : RelReq(u) \notin Items(r.out)
    BY <2>2, OtherRequests
  <2>4. ASSUME NEW u \in MtTis
        PROVE  Link(u, c[u], r.ti, q, pp)
    BY <1>2, <2>1, <2>3, LinkSent
  <2>5. Plain(Items(pp))
    <3>1. Plain(Items(r.out))
      BY <2>2, DataRequests DEF Plain
    <3> QED BY <1>5, <3>1, PlainSent
  <2> QED BY <2>1, <2>4, <2>5 DEF Joined
<1>4. CASE f.ti \in MtTis /\ \E M \in {{RelReq(f.ti)}, {CpError(f.ti), RelReq(f.ti)}} : Freed(f, r, M)
  <2>1. MtSlot(r) /\ r.ti = 0
    BY <1>4, SlotAfter
  <2>2. RelReq(f.ti) \in Items(r.out)
    BY <1>4 DEF Freed
  <2>3. \A u : u # f.ti => RelReq(u) \notin Items(r.out)
    <3>1. Items(r.out) \subseteq {CpError(f.ti), RelReq(f.ti)}
      BY <1>1, <1>4 DEF Freed
    <3> QED BY <3>1, OtherRequests
  <2>4. ASSUME NEW u \in MtTis
        PROVE  Link(u, c[u], r.ti, q, pp)
    <3>1. CASE u = f.ti
      <4>1. RelReq(u) \in Items(r.out) /\ r.ti # u /\ f.ti = u
        BY <1>2, <2>1, <2>2, <3>1
      <4> QED BY <1>2, <4>1, LinkSent
    <3>2. CASE u # f.ti
      <4>1. RelReq(u) \notin Items(r.out) /\ r.ti # u /\ f.ti # u
        BY <1>2, <2>1, <2>3, <3>2
      <4> QED BY <1>2, <4>1, LinkSent
    <3> QED BY <3>1, <3>2
  <2>5. Plain(Items(pp))
    <3>1. Items(r.out) \subseteq {CpError(f.ti), RelReq(f.ti)}
      BY <1>1, <1>4 DEF Freed
    <3>2. Plain(Items(r.out))
      BY <3>1, DataRequests DEF Plain
    <3> QED BY <1>5, <3>2, PlainSent
  <2> QED BY <2>1, <2>4, <2>5 DEF Joined
<1> QED BY <1>3, <1>4 DEF Handled

\* An answer that acknowledges is one of a message stored in this step.
LEMMA HandledStores ==
  ASSUME NEW f, Blank(f), NEW p, NEW w, NEW st, NEW a, Store(f, p, w, st, a),
         NEW r, Handled(f, r), NEW pp, Items(pp) = Items(p) \cup Items(r.out),
         NEW v, NEW su, st \subseteq su, v = w \/ ~Receiving(r),
         Receiving(f) /\ Closes(f, r, "RP_ACK") => f.msg_ref \in su
  PROVE  Store(r, pp, v, su, a)
<1>1. MtSlot(f) /\ Items(f.out) = {}
  BY BlankSends DEF Blank
<1>2. Store(f, p, w, su, a)
  BY DEF Store
<1>3. CASE Sends(f, r, {})
  <2>1. Items(r.out) = {} /\ (Receiving(r) => Receiving(f) /\ r.msg_ref = f.msg_ref)
        /\ (Closing(r) => Closing(f) /\ r.data_req = f.data_req)
    BY <1>1, <1>3 DEF Sends, Receiving, Closing
  <2> QED BY <1>2, <2>1 DEF Store
<1>4. CASE Closing(f) /\ Sends(f, r, {f.data_req})
  <2>1. Items(r.out) = {f.data_req} /\ ~Receiving(r)
        /\ (Closing(r) => Closing(f) /\ r.data_req = f.data_req)
    BY <1>1, <1>4 DEF Sends, Receiving, Closing
  <2> QED BY <1>2, <1>4, <2>1 DEF Store
<1>5. CASE Receiving(f) /\ \E rp \in {"RP_ACK", "RP_ERROR"} : Closes(f, r, rp)
  <2>1. PICK rp \in {"RP_ACK", "RP_ERROR"} : Closes(f, r, rp)
    BY <1>5
  <2>2. Items(r.out) = {r.data_req}
    BY <1>1, <2>1 DEF Closes
  <2>3. rp = "RP_ACK" => f.msg_ref \in su
    BY <1>5, <2>1
  <2> QED BY <1>2, <2>1, <2>2, <2>3, StoreCloses
<1>6. CASE \E M \in {{RelReq(f.ti)}, {CpError(f.ti), RelReq(f.ti)}} : Freed(f, r, M)
  <2>1. \A m \in Items(r.out) : m.rp # "RP_ACK"
    <3>1. Items(r.out) \subseteq {CpError(f.ti), RelReq(f.ti)}
      BY <1>1, <1>6 DEF Freed
    <3> QED BY <3>1, NoAcks
  <2>2. ~Closing(r) /\ ~Receiving(r)
    BY <1>6 DEF Freed, Free, Closing, Receiving
  <2> QED BY <1>2, <2>1, <2>2 DEF Store
<1> QED BY <1>3, <1>4, <1>5, <1>6 DEF Handled

LEMMA DataLinks ==
  ASSUME NEW f, Blank(f), NEW q \in Seq(Indications), q # <<>>, NEW c, NEW p, NEW pp,
         Joined(f, c, q, p), NEW t \in MtTis, Head(q).ti = t, Head(q).m = "DATA_IND",
         NEW r, f.ti # t => r = f,
         f.ti = t => Freed(f, r, {RelReq(t)}) \/ Freed(f, r, {CpError(t), RelReq(t)}),
         Items(pp) = Items(p) \cup Items(r.out), NEW w, NEW st, NEW a
  PROVE  /\ Joined(r, c, Tail(q), pp) /\ r.up = <<>>
         /\ Store(f, p, w, st, a) => Store(r, pp, w, st, a)
<1>1. MtSlot(f) /\ f.out = <<>> /\ f.up = <<>> /\ Items(f.out) = {} /\ f \in Slots
  BY ItemsTyped DEF Blank, MtSlot
<1>2. \A u \in MtTis : Link(u, c[u], f.ti, Tail(q), p)
  BY LinkPassed DEF Joined
<1>3. Joined(f, c, Tail(q), p)
  BY <1>2 DEF Joined
<1>5. Sends(f, f, {})
  BY <1>1 DEF Sends
<1>6. Handled(f, r)
  BY <1>5 DEF Handled
<1>7. r = f \/ ~Closes(f, r, "RP_ACK")
  BY DEF Closes, Freed, Free, Closing
<1>8. r.up = <<>>
  BY <1>1 DEF Freed
<1>9. Joined(r, c, Tail(q), pp)
  BY <1>3, <1>6, HandledLinks
<1>10. ASSUME Store(f, p, w, st, a)
       PROVE  Store(r, pp, w, st, a)
  <2>1. CASE ~Closes(f, r, "RP_ACK")
    BY <1>6, <1>10, <2>1, HandledStores
  <2>2. CASE r = f
    BY <1>1, <1>10, <2>2 DEF Store
  <2> QED BY <1>7, <2>1, <2>2
<1> QED BY <1>8, <1>9, <1>10

LEMMA LossLinks ==
  ASSUME NEW f, Blank(f), NEW q \in Seq(Indications), q # <<>>, NEW c, NEW p, NEW pp,
         Joined(f, c, q, p), NEW t \in MtTis, Head(q).ti = t,
         Head(q).m \in {"RELEASE_IND", "ERROR_IND"}, NEW r, f.ti # t => r = f,
         f.ti = t => \/ Head(q).m = "RELEASE_IND" /\ Freed(f, r, {})
                     \/ Freed(f, r, {RelReq(t)}),
         Items(pp) = Items(p) \cup Items(r.out), NEW w, NEW st, NEW a
  PROVE  /\ Joined(r, c, Tail(q), pp) /\ r.up = <<>>
         /\ Store(f, p, w, st, a) => Store(r, pp, w, st, a)
<1>1. /\ MtSlot(f) /\ f.out = <<>> /\ f.up = <<>> /\ Items(f.out) = {} /\ f \in Slots
      /\ f.inst = "MT" /\ (Free(f) \/ Receiving(f) \/ Closing(f))
  BY ItemsTyped DEF Blank, MtSlot
<1>2. \A u \in MtTis : Link(u, c[u], f.ti, q, p) /\ u # 0
  BY MtTiTypes DEF Joined
<1>3. CASE f.ti # t
  <2>1. r = f
    BY <1>3
  <2>2. \A u \in MtTis : Link(u, c[u], f.ti, Tail(q), p)
    BY <1>2, <1>3, LinkPassed
  <2>3. Items(pp) = Items(p) \cup {}
    BY <1>1, <2>1
  <2>4. ASSUME NEW u \in MtTis
        PROVE  Link(u, c[u], f.ti, Tail(q), pp)
    <3>1. RelReq(u) \notin {}
      OBVIOUS
    <3> QED BY <2>2, <2>3, <3>1, LinkSent
  <2>5. Items(pp) = Items(p)
    BY <2>3
  <2> QED BY <1>1, <2>1, <2>4, <2>5 DEF Joined, Store
<1>4. CASE f.ti = t
  <2>1. PICK M \in {{}, {RelReq(t)}} :
             Freed(f, r, M) /\ (RelReq(t) \in M \/ Head(q).m = "RELEASE_IND")
    BY <1>4
  <2>2. MtSlot(r) /\ r.ti = 0 /\ r.up = <<>> /\ Items(r.out) = M
    BY <1>1, <2>1, SlotAfter DEF Freed
  <2>3. Link(t, c[t], r.ti, Tail(q), pp)
    <3>1. r.ti # t
      BY <1>2, <2>2
    <3>2. Items(pp) = Items(p) \cup M
      BY <2>2
    <3>3. Link(t, c[t], f.ti, q, p)
      BY <1>2
    <3> QED BY <2>1, <3>1, <3>2, <3>3, LinkEnded
  <2>4. ASSUME NEW u \in MtTis, u # t
        PROVE  Link(u, c[u], r.ti, Tail(q), pp)
    <3>1. Link(u, c[u], f.ti, Tail(q), p)
      BY <1>2, <2>4, LinkPassed
    <3>2. RelReq(u) \notin Items(r.out) /\ r.ti # u /\ f.ti # u
      BY <1>2, <1>4, <2>1, <2>2, <2>4, OtherRequests
    <3> QED BY <3>1, <3>2, LinkSent
  <2>5. Joined(r, c, Tail(q), pp)
    <3>1. Plain(Items(r.out))
      BY <2>1, <2>2 DEF Plain
    <3>2. Plain(Items(p))
      BY DEF Joined
    <3>3. Plain(Items(pp))
      BY <3>1, <3>2, PlainSent
    <3> QED BY <2>2, <2>3, <2>4, <3>3 DEF Joined
  <2>6. ASSUME Store(f, p, w, st, a)
        PROVE  Store(r, pp, w, st, a)
    <3>1. \A m \in Items(r.out) : m.rp # "RP_ACK"
      BY <2>1, <2>2, NoAcks
    <3>2. ~Closing(r) /\ ~Receiving(r)
      BY <2>1 DEF Freed, Free, Closing, Receiving
    <3> QED BY <2>6, <3>1, <3>2 DEF Store
  <2> QED BY <2>2, <2>5, <2>6
<1> QED BY <1>3, <1>4

-----------------------------------------------------------------------------
(* The steps of the SMS entity *)

LEMMA FreshSlot ==
  ASSUME MtInv
  PROVE  /\ Blank(Fresh(sms)) /\ MtSlot(Fresh(sms)) /\ Fresh(sms).inst = "MT"
         /\ Fresh(sms).rl = sms.rl /\ Fresh(sms).msg_ref = sms.msg_ref
         /\ Joined(Fresh(sms), conn, toSMS, toMM)
         /\ FastSim => Store(Fresh(sms), toMM, writes, stored, acked)
<1> DEFINE f == Fresh(sms)
<1>1. MtSlot(sms) /\ sms \in Slots
  BY DEF MtInv, Joined, MtSlot
<1>2. <<>> \in Sent /\ <<>> \in Tellings
  BY DEF Sent, Tellings
<1>3. /\ f \in Slots /\ f.out = <<>> /\ f.up = <<>>
      /\ f.inst = sms.inst /\ f.cp = sms.cp /\ f.rl = sms.rl /\ f.tl = sms.tl /\ f.net = sms.net
      /\ f.ti = sms.ti /\ f.r_flag = sms.r_flag /\ f.cp_ack_pending = sms.cp_ack_pending
      /\ f.msg_ref = sms.msg_ref /\ f.data_req = sms.data_req
  BY <1>1, <1>2 DEF Fresh, Slots
<1> HIDE DEF f
<1>4. (Free(f) <=> Free(sms)) /\ (Receiving(f) <=> Receiving(sms)) /\ (Closing(f) <=> Closing(sms))
  BY <1>3 DEF Free, Receiving, Closing
<1>5. MtSlot(f) /\ f.inst = "MT"
  BY <1>1, <1>3, <1>4 DEF MtSlot
<1>6. Joined(f, conn, toSMS, toMM)
  BY <1>3, <1>5 DEF MtInv, Joined
<1>7. FastSim => Store(f, toMM, writes, stored, acked)
  BY <1>3, <1>4 DEF MtInv, Store
<1>8. Blank(f)
  BY <1>3, <1>5 DEF Blank
<1> QED BY <1>3, <1>5, <1>6, <1>7, <1>8 DEF f

LEMMA SmsStepQueues ==
  ASSUME MtTypes, SmsStep, sms' \in Slots
  PROVE  /\ toMM' \in Seq(Messages) /\ Items(toMM') = Items(toMM) \cup Items(sms'.out)
         /\ conn' = conn /\ acked' = acked /\ deliveries' = deliveries
<1>1. sms'.out \in Seq(Messages) /\ toMM \in Seq(Messages) /\ toMM' = toMM \o sms'.out
  <2>1. sms'.out \in Seq(Messages)
    BY SlotTypes, Zenon
  <2> QED BY <2>1 DEF MtTypes, SmsStep
<1>2. toMM' \in Seq(Messages) /\ Items(toMM') = Items(toMM) \cup Items(sms'.out)
  BY <1>1, ItemsConcat
<1> QED BY <1>2 DEF SmsStep

LEMMA HandedOver ==
  ASSUME HandOver, sms'.up \in {<<>>, <<"store">>, <<"shown">>}
  PROVE  /\ writes' = IF sms'.up = <<"store">> THEN Append(writes, sms'.msg_ref) ELSE writes
         /\ stored' = IF sms'.up = <<"shown">> THEN stored \cup {sms'.msg_ref} ELSE stored
<1>1. Told("store") <=> sms'.up = <<"store">>
  BY DEF Told
<1>2. Told("shown") <=> sms'.up = <<"shown">>
  BY DEF Told
<1> QED BY <1>1, <1>2 DEF HandOver

LEMMA SmsReceivesKeeps ==
  ASSUME MtInv, SmsReceives
  PROVE  MtInv'
<1> DEFINE f == Fresh(sms)
           m == Head(toSMS)
<1>1. MtTypes /\ toSMS \in Seq(Indications) /\ toSMS # <<>> /\ toSMS' = Tail(toSMS)
      /\ Handle(m) /\ SmsStep /\ HandOver /\ writes \in Seq(Refs)
  BY DEF MtInv, MtTypes, SmsReceives
<1>2. m \in Indications /\ toSMS' \in Seq(Indications)
  BY <1>1, ItemsTail
<1>3. /\ Blank(f) /\ MtSlot(f) /\ f.inst = "MT" /\ f.rl = sms.rl
      /\ Joined(f, conn, toSMS, toMM)
      /\ FastSim => Store(f, toMM, writes, stored, acked)
  BY FreshSlot
<1> HIDE DEF f, m
<1>4. ASSUME MtSlot(sms')
      PROVE  /\ toMM' \in Seq(Messages) /\ Items(toMM') = Items(toMM) \cup Items(sms'.out)
             /\ conn' = conn /\ acked' = acked /\ deliveries' = deliveries /\ sms'.msg_ref \in Refs
  <2>1. sms' \in Slots
    BY <1>4 DEF MtSlot
  <2>2. sms'.msg_ref \in Refs
    BY <2>1, SlotTypes, Zenon
  <2>3. MtTypes /\ SmsStep
    BY <1>1
  <2> QED BY <2>1, <2>2, <2>3, SmsStepQueues, Zenon
<1>5. ASSUME MtSlot(sms'), Joined(sms', conn, toSMS', toMM'),
             sms'.up \in {<<>>, <<"store">>, <<"shown">>},
             FastSim => Store(sms', toMM', writes', stored', acked)
      PROVE  MtInv'
  <2>1. writes' \in Seq(Refs)
    <3>1. writes' = writes \/ writes' = Append(writes, sms'.msg_ref)
      BY <1>1, <1>5, HandedOver, Zenon
    <3>2. sms'.msg_ref \in Refs
      BY <1>4, <1>5
    <3>3. writes \in Seq(Refs)
      BY <1>1
    <3>4. Append(writes, sms'.msg_ref) \in Seq(Refs)
      BY <3>2, <3>3
    <3> QED BY <3>1, <3>3, <3>4
  <2>2. MtTypes'
    BY <1>1, <1>2, <1>4, <1>5, <2>1 DEF MtTypes
  <2>3. Joined(sms', conn', toSMS', toMM')
    BY <1>4, <1>5
  <2>4. FastSim => Store(sms', toMM', writes', stored', acked')
    BY <1>4, <1>5
  <2> QED BY <2>2, <2>3, <2>4 DEF MtInv, FastSim
<1>6. m.ti \in MtTis /\ f.inst = "MT" /\ TheirTi(m.ti)
  <2>1. sms.inst = "MT"
    BY DEF MtInv, Joined, MtSlot
  <2> QED BY <1>2, <1>3, <2>1, IndicationKinds DEF TheirTi, IsMo
<1>7. ASSUME m.m = "ESTABLISH_IND"
      PROVE  MtInv'
  <2>1. PICK n \in Refs, tp \in TpTypes : m.d = Downlink("CP_DATA", "RP_DATA", n, tp)
    BY <1>2, <1>7, IndicationKinds
  <2>2. /\ sms' = for_mmsms_establish_ind(f, m.ti, Downlink("CP_DATA", "RP_DATA", n, tp))
        /\ sms.rl = "IDLE" => SimInTime
    BY <1>1, <1>7, <2>1 DEF Handle, EstablishInd, f
  <2>3. /\ \/ Free(f) /\ Taken(f, sms', m.ti, n)
           \/ /\ Closing(f)
              /\ \E x \in Slots : Freed(f, x, {RelReq(f.ti)}) /\ Taken(x, sms', m.ti, n)
           \/ Receiving(f) /\ Sends(f, sms', {Answer(m.ti, "RP_ERROR", n), RelReq(m.ti)})
        /\ MtSlot(sms')
    <3>1. \/ Free(f) /\ Taken(f, sms', m.ti, n)
          \/ /\ Closing(f)
             /\ \E x \in Slots : Freed(f, x, {RelReq(f.ti)}) /\ Taken(x, sms', m.ti, n)
          \/ Receiving(f) /\ Sends(f, sms', {Answer(m.ti, "RP_ERROR", n), RelReq(m.ti)})
      BY <1>3, <1>6, <2>2, EstablishTakes
    <3> QED BY <1>3, <3>1, SlotAfter
  <2>4. /\ Joined(sms', conn, toSMS', toMM')
        /\ sms'.up \in {<<>>, <<"store">>, <<"shown">>} /\ (sms'.up # <<>> => sms'.msg_ref = n)
        /\ /\ Store(f, toMM, writes, stored, acked) /\ (f.rl = "IDLE" => writes = <<>>)
           /\ writes' = (IF sms'.up = <<"store">> THEN Append(writes, n) ELSE writes)
           /\ stored' = (IF sms'.up = <<"shown">> THEN stored \cup {n} ELSE stored)
           => Store(sms', toMM', writes', stored', acked)
    <3>1. Items(toMM') = Items(toMM) \cup Items(sms'.out)
      BY <1>4, <2>3
    <3>2. Head(toSMS).ti = m.ti /\ Head(toSMS).m = "ESTABLISH_IND"
      BY <1>7 DEF m
    <3>3. /\ Joined(sms', conn, Tail(toSMS), toMM')
          /\ sms'.up \in {<<>>, <<"store">>, <<"shown">>} /\ (sms'.up # <<>> => sms'.msg_ref = n)
          /\ StoredAfter(f, sms', toMM, toMM', n)
      <4>1. toSMS \in Seq(Indications) /\ toSMS # <<>>
        BY <1>1
      <4>2. Blank(f) /\ Joined(f, conn, toSMS, toMM)
        BY <1>3
      <4> QED BY <1>6, <2>3, <3>1, <3>2, <4>1, <4>2, EstablishLinks, Zenon
    <3>4. /\ Store(f, toMM, writes, stored, acked) /\ (f.rl = "IDLE" => writes = <<>>)
          /\ writes' = (IF sms'.up = <<"store">> THEN Append(writes, n) ELSE writes)
          /\ stored' = (IF sms'.up = <<"shown">> THEN stored \cup {n} ELSE stored)
          => Store(sms', toMM', writes', stored', acked)
      BY <3>3, Zenon DEF StoredAfter
    <3> QED BY <1>1, <3>3, <3>4, Zenon
  <2>5. /\ writes' = (IF sms'.up = <<"store">> THEN Append(writes, n) ELSE writes)
        /\ stored' = (IF sms'.up = <<"shown">> THEN stored \cup {n} ELSE stored)
    <3>1. /\ writes' = IF sms'.up = <<"store">> THEN Append(writes, sms'.msg_ref) ELSE writes
          /\ stored' = IF sms'.up = <<"shown">> THEN stored \cup {sms'.msg_ref} ELSE stored
      BY <1>1, <2>4, HandedOver, Zenon
    <3>2. /\ sms'.up = <<"store">> => sms'.msg_ref = n
          /\ sms'.up = <<"shown">> => sms'.msg_ref = n
      BY <2>4
    <3>3. writes' = (IF sms'.up = <<"store">> THEN Append(writes, n) ELSE writes)
      BY <3>1, <3>2, Zenon
    <3>4. stored' = (IF sms'.up = <<"shown">> THEN stored \cup {n} ELSE stored)
      BY <3>1, <3>2, Zenon
    <3> QED BY <3>3, <3>4
  <2>6. FastSim => (f.rl = "IDLE" => writes = <<>>)
    BY <1>3, <2>2 DEF FastSim, SimInTime
  <2> QED BY <1>3, <1>5, <2>3, <2>4, <2>5, <2>6
<1>8. ASSUME sms'.up = <<>>, MtSlot(sms'), Joined(sms', conn, toSMS', toMM'),
             FastSim => Store(sms', toMM', writes, stored, acked)
      PROVE  MtInv'
  <2>1. writes' = writes /\ stored' = stored
    BY <1>1, <1>8, HandedOver
  <2> QED BY <1>5, <1>8, <2>1
<1>9. ASSUME m.m = "DATA_IND"
      PROVE  MtInv'
  <2>1. PICK cp \in {"CP_ACK", "CP_ERROR"} : m.d = Downlink(cp, "", 0, "")
    BY <1>2, <1>9, IndicationKinds, Zenon
  <2>2. sms' = for_mmsms_data_ind(f, m.ti, Downlink(cp, "", 0, ""))
    <3>1. sms' = for_mmsms_data_ind(f, m.ti, m.d)
      BY <1>1, <1>9 DEF Handle, DataInd, f
    <3> QED BY <2>1, <3>1, Zenon
  <2>3. /\ f.ti # m.ti => sms' = f
        /\ f.ti = m.ti => \/ Freed(f, sms', {RelReq(m.ti)})
                          \/ Freed(f, sms', {CpError(m.ti), RelReq(m.ti)})
    BY <1>3, <1>6, <2>2, DataFrees, Zenon
  <2>4. MtSlot(sms')
    BY <1>3, <2>3, SlotAfter
  <2>5. /\ Joined(sms', conn, toSMS', toMM') /\ sms'.up = <<>>
        /\ Store(f, toMM, writes, stored, acked) => Store(sms', toMM', writes, stored, acked)
    <3>1. Items(toMM') = Items(toMM) \cup Items(sms'.out)
      BY <1>4, <2>4
    <3>2. Head(toSMS).ti = m.ti /\ Head(toSMS).m = "DATA_IND"
      BY <1>9 DEF m
    <3>3. /\ Joined(sms', conn, Tail(toSMS), toMM') /\ sms'.up = <<>>
          /\ Store(f, toMM, writes, stored, acked) => Store(sms', toMM', writes, stored, acked)
      BY <1>1, <1>3, <1>6, <2>3, <3>1, <3>2, DataLinks, Zenon
    <3> QED BY <1>1, <3>3
  <2> QED BY <1>3, <1>8, <2>4, <2>5
<1>10. ASSUME m.m \in {"RELEASE_IND", "ERROR_IND"}
       PROVE  MtInv'
  <2>1. m.cause \in Causes
    BY <1>2, <1>10, IndicationKinds
  <2>2. \/ m.m = "RELEASE_IND" /\ sms' = cp_mmsms_release_ind(f, m.ti, m.cause)
        \/ m.m = "ERROR_IND" /\ sms' = cp_mmsms_error_ind(f, m.ti, m.cause)
    BY <1>1, <1>10 DEF Handle, ReleaseInd, ErrorInd, f
  <2>3. /\ f.ti # m.ti => sms' = f
        /\ f.ti = m.ti => \/ m.m = "RELEASE_IND" /\ Freed(f, sms', {})
                          \/ Freed(f, sms', {RelReq(m.ti)})
    <3>1. f \in Slots /\ (Free(f) \/ Receiving(f) \/ Closing(f))
      BY <1>3 DEF MtSlot
    <3>2. /\ f.ti # m.ti => /\ cp_mmsms_release_ind(f, m.ti, m.cause) = f
                            /\ cp_mmsms_error_ind(f, m.ti, m.cause) = f
          /\ f.ti = m.ti => /\ Freed(f, cp_mmsms_release_ind(f, m.ti, m.cause), {})
                            /\ Freed(f, cp_mmsms_error_ind(f, m.ti, m.cause), {RelReq(m.ti)})
      BY <1>3, <1>6, <2>1, <3>1, LossFrees, Zenon
    <3> QED BY <2>2, <3>2
  <2>5. MtSlot(sms')
    BY <1>3, <2>3, SlotAfter
  <2>4. /\ Joined(sms', conn, toSMS', toMM') /\ sms'.up = <<>>
        /\ Store(f, toMM, writes, stored, acked) => Store(sms', toMM', writes, stored, acked)
    <3>1. Items(toMM') = Items(toMM) \cup Items(sms'.out)
      BY <1>4, <2>5
    <3>2. /\ Head(toSMS).ti = m.ti /\ Head(toSMS).m = m.m
          /\ Head(toSMS).m \in {"RELEASE_IND", "ERROR_IND"}
      BY <1>10 DEF m
    <3>3. /\ Joined(sms', conn, Tail(toSMS), toMM') /\ sms'.up = <<>>
          /\ Store(f, toMM, writes, stored, acked) => Store(sms', toMM', writes, stored, acked)
      <4>1. toSMS \in Seq(Indications) /\ toSMS # <<>>
        BY <1>1
      <4>2. Blank(f) /\ Joined(f, conn, toSMS, toMM)
        BY <1>3
      <4> QED BY <1>6, <2>3, <3>1, <3>2, <4>1, <4>2, LossLinks, ZenonT(30)
    <3> QED BY <1>1, <3>3
  <2> QED BY <1>3, <1>8, <2>4, <2>5
<1> QED BY <1>2, <1>7, <1>9, <1>10, IndicationKinds

\* What a step without an indication leaves.
LEMMA SmsStepKeeps ==
  ASSUME MtInv, SmsStep, UNCHANGED toSMS, Handled(Fresh(sms), sms'),
         writes' \in Seq(Refs), stored \subseteq stored',
         FastSim => writes' = writes \/ ~Receiving(sms'),
         FastSim /\ Receiving(Fresh(sms)) /\ Closes(Fresh(sms), sms', "RP_ACK") =>
           sms.msg_ref \in stored'
  PROVE  MtInv'
<1> DEFINE f == Fresh(sms)
<1>1. /\ Blank(f) /\ MtSlot(f) /\ f.msg_ref = sms.msg_ref /\ Joined(f, conn, toSMS, toMM)
      /\ FastSim => Store(f, toMM, writes, stored, acked)
  BY FreshSlot
<1>2. Handled(f, sms')
  OBVIOUS
<1>3. FastSim /\ Receiving(f) /\ Closes(f, sms', "RP_ACK") => f.msg_ref \in stored'
  BY <1>1
<1> HIDE DEF f
<1>4. MtSlot(sms') /\ sms' \in Slots
  <2>1. MtSlot(sms')
    BY <1>1, <1>2, SlotAfter DEF Handled
  <2> QED BY <2>1 DEF MtSlot
<1>5. MtTypes
  BY DEF MtInv
<1>6. /\ toMM' \in Seq(Messages) /\ Items(toMM') = Items(toMM) \cup Items(sms'.out)
      /\ conn' = conn /\ acked' = acked /\ deliveries' = deliveries
  BY <1>4, <1>5, SmsStepQueues, Zenon
<1>7. Joined(sms', conn', toSMS', toMM')
  <2>1. Joined(sms', conn, toSMS, toMM')
    BY <1>1, <1>2, <1>6, HandledLinks
  <2> QED BY <1>6, <2>1
<1>8. FastSim => Store(sms', toMM', writes', stored', acked')
  <2> SUFFICES ASSUME FastSim
               PROVE  Store(sms', toMM', writes', stored', acked)
    BY <1>6
  <2> QED BY <1>1, <1>2, <1>3, <1>6, HandledStores
<1>9. MtTypes'
  BY <1>5, <1>6 DEF MtTypes
<1> QED BY <1>7, <1>8, <1>9 DEF MtInv, FastSim

LEMMA SmsTimeoutKeeps ==
  ASSUME MtInv, SmsTC1M \/ SmsTR2M
  PROVE  MtInv'
<1> DEFINE f == Fresh(sms)
<1>1. /\ SmsStep /\ HandOver /\ UNCHANGED toSMS
      /\ \/ sms' = tim_tc1m([f EXCEPT !.tc1m = FALSE])
         \/ sms' = tim_tr2m([f EXCEPT !.tr2m = FALSE])
  BY DEF SmsTC1M, SmsTR2M, Timeout, TC1M, TR2M
<1>2. Blank(f) /\ MtSlot(f) /\ f.up = <<>> /\ writes \in Seq(Refs)
  BY FreshSlot DEF Blank, MtInv, MtTypes
<1> HIDE DEF f
<1>3. \/ Sends(f, sms', {})
      \/ Closing(f) /\ Sends(f, sms', {f.data_req})
      \/ Closing(f) /\ Freed(f, sms', {RelReq(f.ti)})
      \/ Receiving(f) /\ Closes(f, sms', "RP_ERROR") /\ sms'.up = f.up
  <2>1. CASE sms' = tim_tc1m([f EXCEPT !.tc1m = FALSE])
    BY <1>2, <2>1, TC1MEnds
  <2>2. CASE sms' = tim_tr2m([f EXCEPT !.tr2m = FALSE])
    BY <1>2, <2>2, TR2MEnds
  <2> QED BY <1>1, <2>1, <2>2
<1>4. Handled(f, sms')
  <2>1. Closing(f) => f.ti \in MtTis
    BY DEF Closing
  <2> QED BY <1>3, <2>1 DEF Handled
<1>5. sms'.up = <<>>
  BY <1>2, <1>3 DEF Sends, Freed
<1>6. writes' = writes /\ stored' = stored
  BY <1>1, <1>5, HandedOver
<1>7. ~(Receiving(f) /\ Closes(f, sms', "RP_ACK"))
  <2>1. CASE Sends(f, sms', {}) \/ Sends(f, sms', {f.data_req})
    BY <2>1 DEF Sends, Receiving, Closes, Closing
  <2>2. CASE Closing(f)
    BY <2>2 DEF Receiving, Closing
  <2>3. CASE Closes(f, sms', "RP_ERROR")
    <3>1. sms'.data_req.rp = "RP_ERROR"
      BY <2>3 DEF Closes, Answer, ToMM
    <3>2. Closes(f, sms', "RP_ACK") => sms'.data_req.rp = "RP_ACK"
      BY DEF Closes, Answer, ToMM
    <3> QED BY <3>1, <3>2
  <2> QED BY <1>3, <2>1, <2>2, <2>3
<1> QED BY <1>1, <1>2, <1>4, <1>6, <1>7, SmsStepKeeps DEF f

LEMMA SimAnswersKeeps ==
  ASSUME MtInv, SimAnswers
  PROVE  MtInv'
<1> DEFINE f == Fresh(sms)
<1>1. PICK ok \in BOOLEAN :
        /\ sms' = tl_sim_update_rec_cnf_net(f, ok)
        /\ stored' = IF ok THEN stored \cup {Head(writes)} ELSE stored
  BY DEF SimAnswers, SimUpdateCnf
<1>2. SmsStep /\ UNCHANGED toSMS /\ writes # <<>> /\ writes' = Tail(writes)
  BY DEF SimAnswers
<1>3. /\ Blank(f) /\ MtSlot(f) /\ f.msg_ref = sms.msg_ref
      /\ FastSim => Store(f, toMM, writes, stored, acked)
  BY FreshSlot
<1>4. writes' \in Seq(Refs)
  BY <1>2 DEF MtInv, MtTypes
<1>5. stored \subseteq stored'
  BY <1>1
<1> HIDE DEF f
<1>6. \/ ~Receiving(f) /\ sms' = f
      \/ Receiving(f) /\ Closes(f, sms', IF ok THEN "RP_ACK" ELSE "RP_ERROR")
  BY <1>1, <1>3, SimEnds
<1>7. Handled(f, sms')
  <2>1. CASE ~Receiving(f) /\ sms' = f
    <3>1. Sends(f, f, {})
      BY <1>3 DEF Sends, MtSlot
    <3> QED BY <2>1, <3>1 DEF Handled
  <2>2. CASE Receiving(f) /\ Closes(f, sms', IF ok THEN "RP_ACK" ELSE "RP_ERROR")
    BY <2>2 DEF Handled
  <2> QED BY <1>6, <2>1, <2>2
<1>8. ~Receiving(sms')
  BY <1>6 DEF Closes, Receiving, Closing
<1>9. FastSim /\ Receiving(f) /\ Closes(f, sms', "RP_ACK") => sms.msg_ref \in stored'
  <2> SUFFICES ASSUME FastSim, Receiving(f), Closes(f, sms', "RP_ACK")
               PROVE  sms.msg_ref \in stored'
    OBVIOUS
  <2>1. ok
    <3>1. sms'.data_req.rp = "RP_ACK"
      BY DEF Closes, Answer, ToMM
    <3>2. Closes(f, sms', "RP_ERROR") => sms'.data_req.rp = "RP_ERROR"
      BY DEF Closes, Answer, ToMM
    <3> QED BY <1>6, <3>1, <3>2
  <2>2. writes = <<sms.msg_ref>>
    BY <1>3 DEF Store
  <2>3. Head(writes) = sms.msg_ref
    BY <2>2
  <2> QED BY <1>1, <2>1, <2>3
<1> QED BY <1>2, <1>4, <1>5, <1>7, <1>8, <1>9, SmsStepKeeps DEF f

-----------------------------------------------------------------------------
(* The steps of MM and of the network *)

LEMMA MMReceivesKeeps ==
  ASSUME MtInv, MMReceives
  PROVE  MtInv'
<1> DEFINE m == Head(toMM)
<1>1. /\ toMM \in Seq(Messages) /\ toMM # <<>> /\ toMM' = Tail(toMM)
      /\ sms' = sms /\ writes' = writes /\ stored' = stored /\ toSMS' = toSMS
      /\ deliveries' = deliveries
      /\ conn' = [conn EXCEPT ![m.ti] = IF m.m = "RELEASE_REQ" THEN "none" ELSE @]
      /\ conn \in [MtTis -> {"none", "open", "lost"}]
  BY DEF MMReceives, Outside, MtInv, MtTypes
<1>2. m \in Messages /\ toMM' \in Seq(Messages) /\ Items(toMM) = {m} \cup Items(toMM')
  BY <1>1, ItemsTail
<1>3. acked' = acked \/ (acked' = acked \cup {m.ref} /\ m.rp = "RP_ACK")
  <2> DEFINE b == /\ m.m = "DATA_REQ" /\ conn[m.ti] = "open"
                  /\ m.rp = "RP_ACK" /\ net[m.ti] # None /\ net[m.ti].ref = m.ref
  <2>1. acked' = IF b THEN acked \cup {m.ref} ELSE acked
    BY Zenon DEF MMReceives
  <2>2. b => m.rp = "RP_ACK"
    OBVIOUS
  <2> HIDE DEF b, m
  <2> QED BY <2>1, <2>2
<1> HIDE DEF m
<1>4. m.m = "RELEASE_REQ" => m = RelReq(m.ti)
  <2>1. m.m = "RELEASE_REQ" => \E t : m = RelReq(t)
    BY <1>2 DEF MtInv, Joined, Plain
  <2>2. \A t : RelReq(t).ti = t
    BY DEF RelReq, ToMM
  <2> QED BY <2>1, <2>2
<1>5. MtTypes'
  BY <1>1, <1>2 DEF MtInv, MtTypes
<1>6. ASSUME NEW t \in MtTis
      PROVE  Link(t, conn'[t], sms'.ti, toSMS', toMM')
  <2>1. /\ m # RelReq(t) => Link(t, conn[t], sms.ti, toSMS, toMM')
        /\ m = RelReq(t) => Link(t, "none", sms.ti, toSMS, toMM')
    <3>1. Link(t, conn[t], sms.ti, toSMS, toMM)
      BY DEF MtInv, Joined
    <3>2. /\ Head(toMM) # RelReq(t) => Link(t, conn[t], sms.ti, toSMS, Tail(toMM))
          /\ Head(toMM) = RelReq(t) => Link(t, "none", sms.ti, toSMS, Tail(toMM))
      BY <1>1, <3>1, LinkReleased, Zenon
    <3> QED BY <1>1, <3>2 DEF m
  <2>2. RelReq(t).m = "RELEASE_REQ" /\ RelReq(t).ti = t
    BY DEF RelReq, ToMM
  <2>3. conn'[t] = IF m = RelReq(t) THEN "none" ELSE conn[t]
    <3>1. m = RelReq(t) <=> m.m = "RELEASE_REQ" /\ m.ti = t
      BY <1>4, <2>2
    <3> QED BY <1>1, <3>1
  <2> QED BY <1>1, <2>1, <2>3
<1>7. Joined(sms', conn', toSMS', toMM')
  <2>1. Plain(Items(toMM'))
    BY <1>2 DEF MtInv, Joined, Plain
  <2>2. MtSlot(sms')
    BY <1>1 DEF MtInv, Joined
  <2> QED BY <1>6, <2>1, <2>2 DEF Joined
<1>8. FastSim => Store(sms', toMM', writes', stored', acked')
  <2> SUFFICES ASSUME FastSim
               PROVE  Store(sms, toMM', writes, stored, acked')
    BY <1>1
  <2>1. Store(sms, toMM, writes, stored, acked)
    BY DEF MtInv
  <2>2. m \in Items(toMM)
    BY <1>2
  <2>3. acked' \subseteq stored
    BY <1>3, <2>1, <2>2 DEF Store
  <2> QED BY <1>2, <2>1, <2>3 DEF Store
<1> QED BY <1>5, <1>7, <1>8 DEF MtInv, FastSim

\* The network and MM put an indication into the queue of SMS.
LEMMA OutsideKeeps ==
  ASSUME MtInv, Outside, UNCHANGED <<toMM, acked>>, NEW m \in Indications,
         toSMS' = Append(toSMS, m), NEW t \in MtTis, m.ti = t,
         NEW c, conn' = [conn EXCEPT ![t] = c], c \in {"none", "open", "lost"},
         Link(t, c, sms.ti, toSMS', toMM), deliveries' \in Nat
  PROVE  MtInv'
<1>1. /\ toSMS \in Seq(Indications) /\ conn \in [MtTis -> {"none", "open", "lost"}]
      /\ sms' = sms /\ writes' = writes /\ stored' = stored /\ toMM' = toMM /\ acked' = acked
  BY DEF MtInv, MtTypes, Outside
<1>2. MtTypes'
  BY <1>1 DEF MtInv, MtTypes
<1>3. ASSUME NEW u \in MtTis
      PROVE  Link(u, conn'[u], sms.ti, toSMS', toMM)
  <2>1. CASE u = t
    BY <1>1, <2>1
  <2>2. CASE u # t
    <3>1. Link(u, conn[u], sms.ti, toSMS, toMM)
      BY DEF MtInv, Joined
    <3>2. Link(u, conn[u], sms.ti, Append(toSMS, m), toMM)
      BY <1>1, <2>2, <3>1, LinkOutside
    <3>3. conn'[u] = conn[u]
      BY <1>1, <2>2
    <3> QED BY <3>2, <3>3
  <2> QED BY <2>1, <2>2
<1>4. Joined(sms', conn', toSMS', toMM')
  BY <1>1, <1>3 DEF MtInv, Joined
<1> QED BY <1>1, <1>2, <1>4 DEF MtInv, FastSim

LEMMA NetworkDeliversKeeps ==
  ASSUME MtInv, NEW t \in MtTis, NEW tp \in TpTypes, NetworkDelivers(t, tp)
  PROVE  MtInv'
<1> DEFINE m == FromMM("ESTABLISH_IND", t, "", Downlink("CP_DATA", "RP_DATA", deliveries, tp))
<1>1. deliveries \in Refs /\ deliveries + 1 \in Nat
  <2>1. deliveries < MaxDeliveries
    BY Zenon DEF NetworkDelivers
  <2> QED BY <2>1, BoundsAssumption, ReferencesAssumption, CountsAssumption DEF MtInv, MtTypes, Refs
<1>2. m \in Indications /\ m.m = "ESTABLISH_IND" /\ m.ti = t
  BY <1>1 DEF Indications, FromMM, Downlink
<1>3. /\ toSMS \in Seq(Indications) /\ deliveries' \in Nat
      /\ conn[t] = "none" /\ conn' = [conn EXCEPT ![t] = "open"]
      /\ \A i \in DOMAIN toMM : toMM[i].ti # t
      /\ \A i \in DOMAIN toSMS : toSMS[i].ti # t
      /\ Outside /\ UNCHANGED <<toMM, acked>>
  <2>1. /\ deliveries' = deliveries + 1
        /\ conn[t] = "none" /\ conn' = [conn EXCEPT ![t] = "open"]
        /\ \A i \in DOMAIN toMM : toMM[i].ti # t
        /\ \A i \in DOMAIN toSMS : toSMS[i].ti # t
        /\ Outside /\ toMM' = toMM /\ acked' = acked
    BY Zenon DEF NetworkDelivers
  <2> QED BY <1>1, <2>1 DEF MtInv, MtTypes
<1>4. toSMS' = Append(toSMS, m)
  BY DEF NetworkDelivers, Indicate
<1> HIDE DEF m
<1>5. Link(t, "none", sms.ti, toSMS, toMM)
  BY <1>3 DEF MtInv, Joined
<1>6. Link(t, "open", sms.ti, toSMS', toMM)
  BY <1>2, <1>3, <1>4, <1>5, LinkOpened
<1> QED BY <1>2, <1>3, <1>4, <1>6, OutsideKeeps

LEMMA NetworkAnswersKeeps ==
  ASSUME MtInv, NEW t \in MtTis, NetworkAnswers(t)
  PROVE  MtInv'
<1>1. PICK cp \in {"CP_ACK", "CP_ERROR"} :
           toSMS' = Append(toSMS, FromMM("DATA_IND", t, "", Downlink(cp, "", 0, "")))
  BY Zenon DEF NetworkAnswers, Indicate
<1> DEFINE m == FromMM("DATA_IND", t, "", Downlink(cp, "", 0, ""))
<1>2. m \in Indications /\ m.m = "DATA_IND" /\ m.ti = t
  BY DEF Indications, FromMM, Downlink
<1>3. toSMS' = Append(toSMS, m)
  BY <1>1, Zenon
<1> HIDE DEF m
<1>4. /\ toSMS \in Seq(Indications) /\ deliveries' \in Nat /\ conn[t] = "open"
      /\ conn' = [conn EXCEPT ![t] = "open"]
      /\ Outside /\ UNCHANGED <<toMM, acked>>
  BY DEF MtInv, MtTypes, NetworkAnswers
<1>5. Link(t, "open", sms.ti, toSMS, toMM)
  BY <1>4 DEF MtInv, Joined
<1>6. Link(t, "open", sms.ti, toSMS', toMM)
  BY <1>2, <1>3, <1>4, <1>5, LinkOutside
<1> QED BY <1>2, <1>3, <1>4, <1>6, OutsideKeeps

LEMMA BreaksKeeps ==
  ASSUME MtInv, NEW t \in MtTis, NEW cause \in Causes,
         MMReleases(t, cause) \/ MMLoses(t, cause)
  PROVE  MtInv'
<1>1. PICK b \in {<<"none", "RELEASE_IND">>, <<"lost", "ERROR_IND">>} :
           Breaks(t, b[1], b[2], cause)
  BY DEF MMReleases, MMLoses
<1> DEFINE m == FromMM(b[2], t, cause, Downlink("", "", 0, ""))
<1>2. m \in Indications /\ m.m = b[2] /\ m.ti = t
  BY DEF Indications, FromMM, Downlink
<1>3. toSMS' = Append(toSMS, m)
  BY <1>1, Zenon DEF Breaks, Indicate
<1> HIDE DEF m
<1>4. /\ toSMS \in Seq(Indications) /\ deliveries' \in Nat /\ conn[t] = "open"
      /\ conn' = [conn EXCEPT ![t] = b[1]] /\ b[1] \in {"none", "open", "lost"}
      /\ Outside /\ UNCHANGED <<toMM, acked>>
  <2>1. /\ deliveries' = deliveries /\ conn[t] = "open" /\ conn' = [conn EXCEPT ![t] = b[1]]
        /\ Outside /\ toMM' = toMM /\ acked' = acked
    BY <1>1, Zenon DEF Breaks
  <2> QED BY <1>1, <2>1 DEF MtInv, MtTypes
<1>5. Link(t, "open", sms.ti, toSMS, toMM)
  BY <1>4 DEF MtInv, Joined
<1>6. Link(t, b[1], sms.ti, toSMS', toMM)
  <2>1. CASE b[1] = "none" /\ b[2] = "RELEASE_IND"
    BY <1>2, <1>3, <1>4, <1>5, <2>1, LinkOutside
  <2>2. CASE b[1] = "lost" /\ b[2] = "ERROR_IND"
    BY <1>2, <1>3, <1>4, <1>5, <2>2, LinkOutside
  <2> QED BY <2>1, <2>2
<1> QED BY <1>2, <1>3, <1>4, <1>6, OutsideKeeps

-----------------------------------------------------------------------------
(* The theorems *)

LEMMA MtStarts == MtInit => MtInv
<1> SUFFICES ASSUME MtInit
             PROVE  MtInv
  OBVIOUS
<1>1. sms = cp_init("MT") /\ toMM = <<>> /\ toSMS = <<>> /\ writes = <<>> /\ stored = {}
      /\ acked = {} /\ conn = [t \in MtTis |-> "none"] /\ deliveries = 0
  BY DEF MtInit
<1>2. sms \in Slots
  BY <1>1, NumberTypes, DataTypes DEF cp_init, Slots
<1>3. /\ sms.inst = "MT" /\ sms.cp = "IDLE" /\ sms.rl = "IDLE" /\ sms.tl = "IDLE"
      /\ sms.net = "IDLE" /\ sms.ti = 0 /\ sms.r_flag = FALSE
  BY <1>1 DEF cp_init
<1>4. MtSlot(sms) /\ ~Receiving(sms) /\ ~Closing(sms)
  BY <1>2, <1>3 DEF MtSlot, Free, Receiving, Closing
<1>5. MtTypes
  BY <1>1 DEF MtTypes
<1>6. DOMAIN toMM = {} /\ DOMAIN toSMS = {} /\ Items(toMM) = {} /\ Items(toSMS) = {}
  BY <1>1 DEF Items
<1>7. Joined(sms, conn, toSMS, toMM)
  <2>1. ASSUME NEW t \in MtTis
        PROVE  Link(t, conn[t], sms.ti, toSMS, toMM)
    BY <1>1, <1>3, <1>6, MtTiTypes DEF Link, Asked, Announced, Ending, Indicated
  <2> QED BY <1>4, <1>6, <2>1 DEF Joined, Plain
<1>8. Store(sms, toMM, writes, stored, acked)
  BY <1>1, <1>4, <1>6 DEF Store
<1> QED BY <1>5, <1>7, <1>8 DEF MtInv

\* The invariant of the deliveries: the slot is free, receiving or closing, every connection
\* is the slot's, announced or about to be released, and what is or will be acknowledged is
\* stored.
THEOREM DeliveriesAreOrderly == MtSpec => []MtInv
<1>1. MtInit => MtInv
  BY MtStarts
<1>2. MtInv /\ [MtNext]_mtVars => MtInv'
  <2> SUFFICES ASSUME MtInv, [MtNext]_mtVars
               PROVE  MtInv'
    OBVIOUS
  <2>1. CASE SmsReceives
    BY <2>1, SmsReceivesKeeps
  <2>2. CASE SmsTC1M \/ SmsTR2M
    BY <2>2, SmsTimeoutKeeps
  <2>3. CASE SimAnswers
    BY <2>3, SimAnswersKeeps
  <2>4. CASE MMReceives
    BY <2>4, MMReceivesKeeps
  <2>5. ASSUME NEW t \in MtTis, NEW tp \in TpTypes, NetworkDelivers(t, tp)
        PROVE  MtInv'
    BY <2>5, NetworkDeliversKeeps
  <2>6. ASSUME NEW t \in MtTis, NetworkAnswers(t)
        PROVE  MtInv'
    BY <2>6, NetworkAnswersKeeps
  <2>7. ASSUME NEW t \in MtTis, NEW cause \in Causes, MMReleases(t, cause) \/ MMLoses(t, cause)
        PROVE  MtInv'
    BY <2>7, BreaksKeeps
  <2>8. CASE UNCHANGED mtVars
    BY <2>8 DEF mtVars, MtInv, MtTypes, FastSim
  <2> QED BY <2>1, <2>2, <2>3, <2>4, <2>5, <2>6, <2>7, <2>8 DEF MtNext
<1> QED BY <1>1, <1>2, PTL DEF MtSpec

\* A release that waits for the CP-ACK is of the present connection, and RL expects nothing
\* else on it: true of the MT slot under the MM and the network of this module.
THEOREM ReleaseWaitsForItsAck == MtSpec => []ReleaseIsDelayed
<1>1. MtInv => ReleaseIsDelayed
  BY DEF MtInv, Joined, MtSlot, Free, Receiving, Closing, ReleaseIsDelayed
<1> QED BY <1>1, DeliveriesAreOrderly, PTL

\* The slot in use has its connection, and no other one is left, once all is handled.
THEOREM SlotHoldsItsConnection == MtSpec => []HoldsItsConnection
<1>1. MtInv => HoldsItsConnection
  <2> SUFFICES ASSUME MtInv, Quiet
               PROVE  /\ sms.cp # "IDLE" => sms.ti # 0 /\ conn[sms.ti] = "open"
                      /\ \A t \in MtTis : conn[t] # "none" => t = sms.ti
    BY DEF HoldsItsConnection
  <2>1. Items(toMM) = {} /\ Items(toSMS) = {}
    BY DEF Quiet, Items
  <2>2. ASSUME NEW t \in MtTis
        PROVE  /\ conn[t] # "none" => sms.ti = t
               /\ sms.ti = t => conn[t] = "open"
    <3>1. Link(t, conn[t], sms.ti, toSMS, toMM)
      BY DEF MtInv, Joined
    <3> QED BY <2>1, <3>1 DEF Link, Asked, Announced, Ending, Indicated
  <2>3. sms.cp # "IDLE" => sms.ti \in MtTis /\ sms.ti # 0
    BY MtTiTypes DEF MtInv, Joined, MtSlot, Free, Receiving, Closing
  <2> QED BY <2>2, <2>3
<1> QED BY <1>1, DeliveriesAreOrderly, PTL

\* The service centre gets an RP-ACK only for a message that is in the SIM or was shown,
\* provided the SIM confirms a write before the slot takes the next message.
THEOREM AcknowledgedIsStored == FastSim => (MtSpec => []AckedIsStored)
<1> SUFFICES ASSUME FastSim
             PROVE  MtSpec => []AckedIsStored
  OBVIOUS
<1>1. MtInv => AckedIsStored
  BY DEF MtInv, Store, AckedIsStored
<1> QED BY <1>1, DeliveriesAreOrderly, PTL

=============================================================================
