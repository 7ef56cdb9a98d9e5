------------------------------ MODULE SmsRelay ------------------------------
(***************************************************************************)
(* One transaction slot of the SMS entity (src/g23m-gsm/sms): the control  *)
(* protocol CP, the relay layer RL and the transfer layer TL, stacked on   *)
(* the mobility management MM.  The entity has two slots, the mobile       *)
(* originated one (MO) and the mobile terminated one (MT); `inst` says     *)
(* which one this is.  Handlers are functions from the slot to the slot,   *)
(* named as in the code; what a handler sends to MM and tells the user and *)
(* the SIM is collected in `out` and `up`.  The specification lets every   *)
(* input arrive at any time, so what holds of it holds under any MM,       *)
(* network, SIM and user.                                                  *)
(*                                                                         *)
(* Left out: GPRS, the continuous mode CMMS, concatenated messages, SMS    *)
(* commands, the memory available notification (SMMA), keeping a sent      *)
(* message in a record, and the coding of the messages.                    *)
(***************************************************************************)
EXTENDS Naturals, Sequences

CONSTANTS
  MoTiCount,       \* number of transaction identifiers of our own (7)
  MtTis,           \* transaction identifiers of the network (8..14)
  RefCount,        \* number of message references (256)
  MAX_RETRANS,     \* repetitions of a CP-DATA
  TL_MAX_RETANS,   \* repetitions of a whole submission
  None             \* no message kept

ASSUME CountsAssumption ==
  /\ MoTiCount \in Nat \ {0}
  /\ RefCount \in Nat \ {0}
  /\ MAX_RETRANS \in Nat
  /\ TL_MAX_RETANS \in Nat
ASSUME TisAssumption == \A t \in MtTis : t \in Nat /\ t >= MoTiCount

MoTis == 0 .. MoTiCount - 1
Tis   == MoTis \cup MtTis
Refs  == 0 .. RefCount - 1

\* Messages to MM: MMSMS_ESTABLISH_REQ, MMSMS_RELEASE_REQ and MMSMS_DATA_REQ
\* with a CP message, which in a CP-DATA holds an RP message.
ToMM(m, t, cp, rp, ref) == [m |-> m, ti |-> t, cp |-> cp, rp |-> rp, ref |-> ref]
Messages == [m   : {"ESTABLISH_REQ", "RELEASE_REQ", "DATA_REQ"},
             ti  : Tis,
             cp  : {"", "CP_DATA", "CP_ACK", "CP_ERROR"},
             rp  : {"", "RP_DATA", "RP_ACK", "RP_ERROR"},
             ref : Refs]
ASSUME NoneAssumption == None \notin Messages

\* What the network sends in a data or establish indication.  A message that
\* cannot be decoded is "FAULTY"; a CP-DATA with an undecodable RP part has rp
\* "RP_FAULTY".  An RP-ERROR is told apart by its cause: temporary, permanent,
\* duplicate rejected.  tp says where the message of an RP-DATA is to be kept.
Downlink(cp, rp, ref, tp) == [cp |-> cp, rp |-> rp, ref |-> ref, tp |-> tp]
RpTypes == {"RP_ACK", "RP_TEMPORARY", "RP_PERMANENT", "RP_DUPLICATE", "RP_OTHER"}
TpTypes == {"sim", "shown", "full", "invalid"}
NetworkMessages ==
  [cp : {"CP_ACK", "CP_ERROR", "CP_UNKNOWN", "FAULTY"}, rp : {""}, ref : {0}, tp : {""}]
  \cup [cp : {"CP_DATA"}, rp : RpTypes \cup {"RP_FAULTY"}, ref : Refs, tp : {""}]
  \cup [cp : {"CP_DATA"}, rp : {"RP_DATA"}, ref : Refs, tp : TpTypes]
Causes  == {"norm", "other"}        \* RRCS_NORM or message incompatible; any other

Kept    == Messages \cup {None}
Sent    == Seq(Messages)
Tellings == Seq({"submit_ok", "submit_failed", "submit_busy", "store", "shown"})
Retx    == 0 .. MAX_RETRANS
TlRetx  == 0 .. TL_MAX_RETANS

Slots ==
  [ inst           : {"MO", "MT"},
    cp             : {"IDLE", "PENDING", "ESTABLISHED", "WAIT_FOR_ACK"},
    rl             : {"IDLE", "ESTABLISH", "ESTABLISHED", "WAIT_FOR_ACK",
                      "WAIT_FOR_SEND_ACK"},
    tl             : {"IDLE", "ESTABLISH", "SEND", "RECEIVE"},
    est            : {"SEND", "RTX"},         \* STATE_EST
    net            : {"IDLE", "WRITE"},       \* STATE_NET
    ti             : Tis,                     \* 0 in a free MT slot
    timer_ti       : Tis,
    r_flag         : BOOLEAN,                 \* release at the next CP-ACK
    cp_ack_pending : BOOLEAN,
    retx           : Retx,
    tl_retx        : TlRetx,
    tp_mr          : Refs,                    \* reference of the submission
    msg_ref        : Refs,                    \* reference of the RP message
    data_req       : Kept,                    \* the CP-DATA kept for repetition
    sdu            : BOOLEAN,                 \* the message to submit is kept
    tc1m           : BOOLEAN,                 \* timers
    tr1m           : BOOLEAN,
    tr2m           : BOOLEAN,
    out            : Sent,                    \* to MM in this step
    up             : Tellings ]               \* to the user and the SIM

cp_init(inst) ==
  [inst |-> inst, cp |-> "IDLE", rl |-> "IDLE", tl |-> "IDLE", est |-> "SEND",
   net |-> "IDLE", ti |-> 0, timer_ti |-> 0, r_flag |-> FALSE,
   cp_ack_pending |-> FALSE, retx |-> 0, tl_retx |-> 0, tp_mr |-> 0,
   msg_ref |-> 0, data_req |-> None, sdu |-> FALSE, tc1m |-> FALSE,
   tr1m |-> FALSE, tr2m |-> FALSE, out |-> <<>>, up |-> <<>>]

csf_get_new_mo_ti(s) == (s.ti + 1) % MoTiCount

csf_free_sms_instance(s, t) ==
  [s EXCEPT !.ti = IF t \in MtTis /\ @ = t THEN 0 ELSE @, !.sdu = FALSE]

(***************************************************************************)
(* CP towards MM, and the requests of RL to CP                             *)
(***************************************************************************)
Send(s, m) == [s EXCEPT !.out = Append(@, m)]
Tell(s, u) == [s EXCEPT !.up = Append(@, u)]

cp_send_release_req(s, t) == Send(s, ToMM("RELEASE_REQ", t, "", "", 0))

cp_build_cp_ack(s) ==
  Send([s EXCEPT !.cp_ack_pending = FALSE], ToMM("DATA_REQ", s.ti, "CP_ACK", "", 0))

AckPending(s) == IF s.cp_ack_pending THEN cp_build_cp_ack(s) ELSE s

cp_build_cp_error(s) == Send(AckPending(s), ToMM("DATA_REQ", s.ti, "CP_ERROR", "", 0))

cp_establish_req(s, t) ==
  Send([s EXCEPT !.cp = "PENDING"], ToMM("ESTABLISH_REQ", t, "", "", 0))

Transmit(s, m) ==
  Send([s EXCEPT !.cp = "WAIT_FOR_ACK", !.retx = 0, !.data_req = m, !.tc1m = TRUE], m)

cp_data_req_NoAck(s, rp, ref) ==  \* mutant: the CP-ACK owed is forgotten
  IF s.cp = "ESTABLISHED" THEN Transmit(s, ToMM("DATA_REQ", s.ti, "CP_DATA", rp, ref)) ELSE s

cp_data_req(s, rp, ref) ==
  IF s.cp = "ESTABLISHED"
  THEN Transmit(AckPending(s), ToMM("DATA_REQ", s.ti, "CP_DATA", rp, ref))
  ELSE s

cp_release_req(s, t) ==
  CASE s.cp = "IDLE"         -> csf_free_sms_instance([s EXCEPT !.r_flag = FALSE], t)
    [] s.cp = "WAIT_FOR_ACK" -> [s EXCEPT !.r_flag = TRUE]
    [] s.cp = "PENDING"      -> cp_send_release_req([AckPending(s) EXCEPT !.r_flag = FALSE], t)
    [] s.cp = "ESTABLISHED"  ->
         cp_send_release_req([AckPending(s) EXCEPT !.r_flag = FALSE, !.cp = "IDLE"], t)

Aborted(s) == [s EXCEPT !.cp = "IDLE", !.r_flag = FALSE]

cp_abort_req(s) ==
  CASE s.cp = "IDLE"         -> s
    [] s.cp = "PENDING"      -> cp_send_release_req(Aborted(s), s.ti)
    [] s.cp = "ESTABLISHED"  -> cp_send_release_req(Aborted(cp_build_cp_error(s)), s.ti)
    [] s.cp = "WAIT_FOR_ACK" ->
         cp_send_release_req([Aborted(cp_build_cp_error(s)) EXCEPT !.tc1m = FALSE], s.ti)

(***************************************************************************)
(* RL: requests of TL                                                      *)
(***************************************************************************)
rl_establish_req(s, t) ==
  IF s.rl = "IDLE"
  THEN cp_establish_req([s EXCEPT !.rl = "ESTABLISH", !.timer_ti = t, !.tr1m = TRUE], t)
  ELSE s

rl_data_req_Untimed(s) ==  \* mutant: TR1M is not started again
  IF s.rl = "ESTABLISHED"
  THEN cp_data_req([s EXCEPT !.rl = "WAIT_FOR_ACK", !.msg_ref = s.tp_mr], "RP_DATA", s.tp_mr)
  ELSE s

rl_data_req(s) ==
  IF s.rl = "ESTABLISHED"
  THEN cp_data_req([s EXCEPT !.rl = "WAIT_FOR_ACK", !.msg_ref = s.tp_mr, !.tr1m = TRUE],
                   "RP_DATA", s.tp_mr)
  ELSE s

rl_release_req(s, t) == cp_release_req(s, t)

rl_report_req_error(s) ==
  IF s.rl = "WAIT_FOR_SEND_ACK"
  THEN cp_data_req([s EXCEPT !.rl = "IDLE", !.tr2m = FALSE], "RP_ERROR", s.msg_ref)
  ELSE s

ReportAck(s) ==
  cp_data_req([s EXCEPT !.rl = "IDLE", !.tr2m = FALSE], "RP_ACK", s.msg_ref)

rl_report_req_ack(s) ==
  IF s.rl = "WAIT_FOR_SEND_ACK" THEN cp_release_req(ReportAck(s), s.ti) ELSE s

(***************************************************************************)
(* TL: submission of a message, delivery of a message                      *)
(***************************************************************************)
tl_establish_connection(s) == rl_establish_req(s, csf_get_new_mo_ti(s))

tl_mnsms_submit_req(s, auto_rep) ==
  IF s.tl = "IDLE"
  THEN tl_establish_connection(
         [s EXCEPT !.tl = "ESTABLISH", !.est = "SEND", !.sdu = TRUE,
                   !.tl_retx = IF auto_rep THEN 0 ELSE TL_MAX_RETANS,
                   !.tp_mr = (@ + 1) % RefCount])
  ELSE Tell(s, "submit_busy")

tl_send_failure(s) == Tell(rl_release_req(s, s.ti), "submit_failed")

\* The message is built only now; `prepared` is FALSE when that fails.
tl_establish_cnf_send(s, prepared) ==
  IF prepared
  THEN rl_data_req([s EXCEPT !.tl = "SEND"])
  ELSE tl_send_failure([s EXCEPT !.tl = "IDLE"])

tl_establish_cnf_rtx(s) ==
  IF s.data_req = None THEN s ELSE rl_data_req([s EXCEPT !.tl = "SEND"])

tl_establish_cnf(s, prepared) ==
  CASE s.tl = "ESTABLISH" /\ s.est = "SEND" -> tl_establish_cnf_send(s, prepared)
    [] s.tl = "ESTABLISH" /\ s.est = "RTX"  -> tl_establish_cnf_rtx(s)
    [] s.tl # "ESTABLISH"                   -> s

\* A submission whose repetition is rejected as a duplicate counts as sent.
IsDuplicate(s, cause) == cause = "RP_DUPLICATE" /\ s.tl_retx > 0

ConfirmSubmit_Retried(s, cause) ==  \* mutant: after a repetition everything counts as sent
  Tell(s, IF cause = "ok" \/ s.tl_retx > 0 THEN "submit_ok" ELSE "submit_failed")

ConfirmSubmit(s, cause) ==
  IF cause = "ok" \/ IsDuplicate(s, cause)
  THEN Tell([s EXCEPT !.data_req = IF cause = "ok" THEN @ ELSE None], "submit_ok")
  ELSE Tell(s, "submit_failed")

Report(s, cause) ==
  CASE s.tl \in {"ESTABLISH", "SEND"} -> ConfirmSubmit(s, cause)
    [] s.tl = "RECEIVE" -> [s EXCEPT !.net = IF cause = "ok" THEN @ ELSE "IDLE"]
    [] s.tl = "IDLE"    -> s

Closed(s) == [s EXCEPT !.tl = "IDLE", !.sdu = FALSE]

tl_report_ind(s, cause) == rl_release_req(Closed(Report(s, cause)), s.ti)

GiveUp(s) == Tell(Closed(s), "submit_failed")

FirstTime(s) == s.tl = "ESTABLISH" /\ s.est = "SEND"
MayRepeat_OnceMore(s) == s.tl_retx <= TL_MAX_RETANS  \* mutant: off by one
MayRepeat(s) == s.tl_retx < TL_MAX_RETANS

tl_timeout_ind_KeepsQuiet(s) ==  \* mutant: no repetition, and nobody is told
  IF s.tl \in {"IDLE", "RECEIVE"} THEN tl_report_ind(s, "timeout") ELSE s

tl_timeout_ind(s) ==
  CASE s.tl = "ESTABLISH" /\ s.est = "RTX" -> s
    [] FirstTime(s) /\ MayRepeat(s) ->
         tl_establish_connection([s EXCEPT !.tl_retx = @ + 1])
    [] s.tl = "SEND" /\ MayRepeat(s) ->
         tl_establish_connection(
           [s EXCEPT !.tl_retx = @ + 1, !.tl = "ESTABLISH", !.est = "RTX"])
    [] (FirstTime(s) \/ s.tl = "SEND") /\ ~MayRepeat(s) -> GiveUp(s)
    [] s.tl \in {"IDLE", "RECEIVE"} -> tl_report_ind(s, "timeout")

tl_handle_message(s, tp) ==
  CASE tp = "sim"   -> Tell([s EXCEPT !.tl = "RECEIVE", !.net = "WRITE"], "store")
    [] tp = "shown" -> rl_report_req_ack(Tell([s EXCEPT !.tl = "IDLE"], "shown"))
    [] tp = "full"  -> rl_release_req(rl_report_req_error([s EXCEPT !.tl = "IDLE"]), s.ti)

tl_data_ind(s, tp) ==
  IF tp = "invalid"
  THEN rl_release_req(rl_report_req_error(s), s.ti)
  ELSE tl_handle_message(s, tp)

(***************************************************************************)
(* RL: indications of CP                                                   *)
(***************************************************************************)
rl_establish_cnf(s, prepared) ==
  IF s.rl = "ESTABLISH"
  THEN tl_establish_cnf([s EXCEPT !.rl = "ESTABLISHED", !.tr1m = FALSE], prepared)
  ELSE s

\* 20 seconds (TR1M) until the submission is made again
AwaitsRetry(s, cause) ==
  /\ MayRepeat(s)
  /\ \/ s.rl = "ESTABLISH" /\ cause = "norm"
     \/ s.rl = "WAIT_FOR_ACK" /\ cause \in {"norm", "timeout"}

AfterError_KeepsState(s) ==  \* mutant: RL is not reset
  csf_free_sms_instance([s EXCEPT !.tr1m = FALSE, !.tr2m = FALSE], s.ti)

AfterError(s) ==
  csf_free_sms_instance(
    [s EXCEPT !.rl = "IDLE",
              !.tr1m = @ /\ s.rl \notin {"ESTABLISH", "WAIT_FOR_ACK"},
              !.tr2m = @ /\ s.rl # "WAIT_FOR_SEND_ACK"], s.ti)

rl_error_ind(s, cause) ==
  CASE AwaitsRetry(s, cause) ->
         [s EXCEPT !.tr1m = @ \/ s.rl = "ESTABLISH" \/ cause = "timeout"]
    [] ~AwaitsRetry(s, cause) /\ s.rl # "IDLE" ->
         tl_report_ind(AfterError(s), cause)
    [] ~AwaitsRetry(s, cause) /\ s.rl = "IDLE" -> AfterError(s)

\* An RP message that is not an RP-DATA outside a transaction
Unexpected(s, ref) ==
  csf_free_sms_instance(
    cp_release_req(cp_data_req([s EXCEPT !.msg_ref = ref], "RP_ERROR", ref), s.ti), s.ti)

Answered_KeepsState(s) == [s EXCEPT !.tr1m = FALSE]  \* mutant: RL is not reset
Answered(s) == [s EXCEPT !.rl = "IDLE", !.tr1m = FALSE]

AcknowledgedBy(s) == [s EXCEPT !.data_req = None]

rl_data_ind_wait_for_ack(s, d) ==
  CASE d.rp = "RP_ACK" -> AcknowledgedBy(tl_report_ind(Answered(s), "ok"))
    [] d.rp = "RP_TEMPORARY" /\ MayRepeat(s) ->
         cp_release_req([s EXCEPT !.tr1m = TRUE], s.ti)
    [] d.rp = "RP_TEMPORARY" /\ ~MayRepeat(s) ->
         tl_report_ind(Answered(s), d.rp)
    [] d.rp \in {"RP_PERMANENT", "RP_DUPLICATE"} -> tl_report_ind(Answered(s), d.rp)
    [] d.rp \in {"RP_DATA", "RP_OTHER"} ->
         tl_report_ind(cp_data_req(Answered(s), "RP_ERROR", d.ref), "other")

rl_data_ind(s, d) ==
  CASE s.rl \in {"IDLE", "ESTABLISHED"} /\ d.rp = "RP_DATA" ->
         tl_data_ind([s EXCEPT !.rl = "WAIT_FOR_SEND_ACK", !.msg_ref = d.ref,
                               !.tr2m = TRUE], d.tp)
    [] s.rl \in {"IDLE", "ESTABLISHED"} /\ d.rp # "RP_DATA" -> Unexpected(s, d.ref)
    [] s.rl = "WAIT_FOR_ACK" -> rl_data_ind_wait_for_ack(s, d)
    [] s.rl = "WAIT_FOR_SEND_ACK" -> cp_data_req(s, "RP_ERROR", d.ref)
    [] s.rl = "ESTABLISH" -> s

(***************************************************************************)
(* CP: indications of MM                                                   *)
(***************************************************************************)
Release_KeepsFlag(s) == [cp_send_release_req(s, s.ti) EXCEPT !.cp = "IDLE"]  \* mutant
Release(s) == [cp_send_release_req(s, s.ti) EXCEPT !.cp = "IDLE", !.r_flag = FALSE]

cp_send_err_ind_errcs(s) == rl_error_ind(Release(s), "other")
cp_send_err_ind_msg_type_unknown(s) == rl_error_ind(Release(cp_build_cp_error(s)), "other")
cp_send_err_ind_msg_not_comp(s) == rl_error_ind(Release(cp_build_cp_error(s)), "other")

StopTC1M(s) == [s EXCEPT !.tc1m = IF s.cp = "WAIT_FOR_ACK" THEN FALSE ELSE @]

Connected(s) == s.cp \in {"ESTABLISHED", "WAIT_FOR_ACK"}

cp_data_ind_cp_ack_FlagUnread(s) ==  \* mutant: the delayed release is not looked at
  CASE s.cp = "ESTABLISHED"  -> cp_send_err_ind_msg_not_comp(s)
    [] s.cp = "WAIT_FOR_ACK" -> [s EXCEPT !.cp = "ESTABLISHED", !.tc1m = FALSE]
    [] ~Connected(s)         -> s

cp_data_ind_cp_ack(s) ==
  CASE s.cp = "ESTABLISHED" -> cp_send_err_ind_msg_not_comp(s)
    [] s.cp = "WAIT_FOR_ACK" /\ s.r_flag ->
         csf_free_sms_instance(Release(StopTC1M(s)), s.ti)
    [] s.cp = "WAIT_FOR_ACK" /\ ~s.r_flag ->
         [s EXCEPT !.cp = "ESTABLISHED", !.tc1m = FALSE]
    [] ~Connected(s) -> s

PassToRl(s, d) == rl_data_ind([s EXCEPT !.cp_ack_pending = TRUE], d)

cp_data_ind_cp_data(s, d) ==
  CASE s.cp = "WAIT_FOR_ACK" /\ s.r_flag -> cp_send_err_ind_msg_not_comp(StopTC1M(s))
    [] s.cp = "WAIT_FOR_ACK" /\ ~s.r_flag -> PassToRl(cp_data_ind_cp_ack(s), d)
    [] s.cp = "ESTABLISHED" -> PassToRl(s, d)
    [] ~Connected(s) -> s

cp_data_ind_cp_error(s) ==
  IF Connected(s) THEN cp_send_err_ind_errcs(StopTC1M(s)) ELSE s

cp_data_ind_cp_unknown(s) ==
  IF Connected(s) THEN cp_send_err_ind_msg_type_unknown(StopTC1M(s)) ELSE s

\* A message that could not be decoded (for_ccd_error_check)
for_ccd_cp_error(s, t) ==
  csf_free_sms_instance(
    rl_error_ind([cp_send_release_req(cp_build_cp_error(s), t)
                    EXCEPT !.cp = "IDLE", !.r_flag = FALSE], "other"), t)

for_ccd_rp_error_send(s, ref) ==
  csf_free_sms_instance(
    cp_send_release_req(cp_data_req(s, "RP_ERROR", ref), s.ti), s.ti)

for_ccd_error_check(s, t, d) ==
  IF d.cp = "CP_DATA" /\ s.cp = "ESTABLISHED"
  THEN for_ccd_rp_error_send(s, d.ref)
  ELSE for_ccd_cp_error(s, t)

\* A data indication of another MT transaction than ours is dropped; one of
\* any MO transaction is taken for the present one.
csf_get_sms_instance(s, t) == s.inst = "MO" \/ s.ti = t

Undecodable(d) == d.cp = "FAULTY" \/ d.rp = "RP_FAULTY"

NextMessage(s, t, d) ==
  CASE Undecodable(d) -> for_ccd_error_check(s, t, d)
    [] d.cp = "CP_DATA" /\ d.rp # "RP_FAULTY" -> cp_data_ind_cp_data(s, d)
    [] d.cp = "CP_ACK"     -> cp_data_ind_cp_ack(s)
    [] d.cp = "CP_ERROR"   -> cp_data_ind_cp_error(s)
    [] d.cp = "CP_UNKNOWN" -> cp_data_ind_cp_unknown(s)

for_mmsms_data_ind(s, t, d) ==
  IF csf_get_sms_instance(s, t) THEN NextMessage(s, t, d) ELSE s

\* ESTABLISH_IND: a first message on a transaction of the network.  A message
\* for which the slot is not free is refused without touching the slot.
for_get_new_mt_instance(s) ==
  IF s.ti # 0 /\ s.cp = "WAIT_FOR_ACK" /\ s.r_flag THEN cp_data_ind_cp_ack(s) ELSE s

Refuse(s, t, d) ==
  cp_send_release_req(
    IF d.cp = "CP_DATA"
    THEN Send(s, ToMM("DATA_REQ", t, "CP_DATA", "RP_ERROR", d.ref))
    ELSE s, t)

cp_est_ind_cp_data(s, d) ==
  IF s.cp = "IDLE"
  THEN rl_data_ind([cp_build_cp_ack(s) EXCEPT !.cp = "ESTABLISHED", !.r_flag = FALSE], d)
  ELSE s

Forget(s) == csf_free_sms_instance(cp_send_release_req(s, s.ti), s.ti)

cp_est_ind_cp_ack(s) ==
  IF s.cp = "IDLE" THEN Forget([cp_build_cp_error(s) EXCEPT !.r_flag = FALSE]) ELSE Forget(s)

cp_est_ind_cp_error(s) ==
  IF s.cp = "IDLE" THEN Forget([s EXCEPT !.r_flag = FALSE]) ELSE s

cp_est_ind_cp_unknown(s) ==
  IF s.cp = "IDLE" THEN Forget([cp_build_cp_error(s) EXCEPT !.r_flag = FALSE]) ELSE s

FirstMessage(s, t, d) ==
  CASE Undecodable(d) -> for_ccd_error_check(s, t, d)
    [] d.cp = "CP_DATA" /\ d.rp # "RP_FAULTY" -> cp_est_ind_cp_data(s, d)
    [] d.cp = "CP_ACK"     -> cp_est_ind_cp_ack(s)
    [] d.cp = "CP_ERROR"   -> cp_est_ind_cp_error(s)
    [] d.cp = "CP_UNKNOWN" -> cp_est_ind_cp_unknown(s)

Accept(s, t, d) ==
  IF s.ti = 0
  THEN FirstMessage([s EXCEPT !.ti = t, !.cp_ack_pending = FALSE], t, d)
  ELSE Refuse(s, t, d)

for_mmsms_establish_ind(s, t, d) ==
  Accept(for_get_new_mt_instance(s), t, d)

cp_mmsms_establish_cnf(s, t, prepared) ==
  IF s.cp = "PENDING"
  THEN rl_establish_cnf(
         [s EXCEPT !.cp = "ESTABLISHED", !.ti = t, !.cp_ack_pending = FALSE], prepared)
  ELSE [s EXCEPT !.ti = t, !.cp_ack_pending = FALSE]

Lost(s) == [StopTC1M(s) EXCEPT !.cp = "IDLE", !.retx = IF s.cp = "WAIT_FOR_ACK" THEN 0 ELSE @]

\* Only in PENDING and WAIT_FOR_ACK does the slot take the transaction
\* identifier of an ERROR_IND, and only in PENDING that of a RELEASE_IND.
ErrorAt(s, t) ==
  [Lost(s) EXCEPT !.ti     = IF s.cp \in {"PENDING", "WAIT_FOR_ACK"} THEN t ELSE @,
                  !.r_flag = @ /\ s.cp \notin {"PENDING", "WAIT_FOR_ACK"}]

cp_mmsms_error_ind_Silent(s, t, cause) ==  \* mutant: MM is not asked to release
  IF csf_get_sms_instance(s, t) /\ s.cp # "IDLE" THEN rl_error_ind(ErrorAt(s, t), cause) ELSE s

cp_mmsms_error_ind(s, t, cause) ==
  CASE ~csf_get_sms_instance(s, t) -> s
    [] csf_get_sms_instance(s, t) /\ s.cp # "IDLE" ->
         rl_error_ind(ErrorAt(cp_send_release_req(s, t), t), cause)
    [] csf_get_sms_instance(s, t) /\ s.cp = "IDLE" ->
         csf_free_sms_instance(cp_send_release_req(s, t), t)

ReleaseAt(s, t) ==
  [Lost(s) EXCEPT !.ti = IF s.cp = "PENDING" THEN t ELSE @, !.r_flag = FALSE]

cp_mmsms_release_ind(s, t, cause) ==
  CASE ~csf_get_sms_instance(s, t) -> s
    [] csf_get_sms_instance(s, t) /\ s.cp # "IDLE" -> rl_error_ind(ReleaseAt(s, t), cause)
    [] csf_get_sms_instance(s, t) /\ s.cp = "IDLE" -> csf_free_sms_instance(s, t)

(***************************************************************************)
(* Timers, the SIM                                                         *)
(***************************************************************************)
Repeat_Once(s) == Send([s EXCEPT !.retx = @ + 1], s.data_req)  \* mutant: no timer
Repeat(s) == Send([s EXCEPT !.retx = @ + 1, !.tc1m = TRUE], s.data_req)

tim_tc1m(s) ==
  CASE s.cp # "WAIT_FOR_ACK" -> s
    [] s.cp = "WAIT_FOR_ACK" /\ s.retx >= MAX_RETRANS -> rl_error_ind(Release(s), "timeout")
    [] s.cp = "WAIT_FOR_ACK" /\ s.retx < MAX_RETRANS  -> Repeat(s)

tim_tr1m(s) ==
  CASE s.rl = "ESTABLISH" ->
         tl_timeout_ind(cp_abort_req([s EXCEPT !.rl = "IDLE", !.ti = s.timer_ti]))
    [] s.rl = "WAIT_FOR_ACK" -> tl_timeout_ind(cp_abort_req([s EXCEPT !.rl = "IDLE"]))
    [] s.rl \notin {"ESTABLISH", "WAIT_FOR_ACK"} -> s

tim_tr2m(s) ==
  IF s.rl = "WAIT_FOR_SEND_ACK" THEN tl_report_ind(rl_report_req_error(s), "timeout") ELSE s

NetIdle(s) == [s EXCEPT !.tl = "IDLE", !.net = "IDLE"]

tl_sim_update_rec_cnf_net_Unchecked(s, stored) ==  \* mutant: the result is not looked at
  IF s.net = "WRITE" THEN NetIdle(rl_report_req_ack(s)) ELSE s

tl_sim_update_rec_cnf_net(s, stored) ==
  CASE s.net = "IDLE" -> s
    [] s.net = "WRITE" /\ stored  -> NetIdle(rl_report_req_ack(s))
    [] s.net = "WRITE" /\ ~stored -> NetIdle(rl_release_req(rl_report_req_error(s), s.ti))

(***************************************************************************)
(* The slot in any environment                                             *)
(***************************************************************************)
VARIABLE sms

\* Every handler begins with nothing sent.
Fresh(s) == [s EXCEPT !.out = <<>>, !.up = <<>>]

IsMo == sms.inst = "MO"
IsMt == sms.inst = "MT"

SubmitReq(auto_rep) == IsMo /\ sms' = tl_mnsms_submit_req(Fresh(sms), auto_rep)

EstablishCnf(t, prepared) ==
  IsMo /\ t \in MoTis /\ sms' = cp_mmsms_establish_cnf(Fresh(sms), t, prepared)

TheirTi(t) == t \in (IF IsMo THEN MoTis ELSE MtTis)

ErrorInd(t, cause)   == TheirTi(t) /\ sms' = cp_mmsms_error_ind(Fresh(sms), t, cause)
ReleaseInd(t, cause) == TheirTi(t) /\ sms' = cp_mmsms_release_ind(Fresh(sms), t, cause)

DataInd(t, d) ==
  TheirTi(t) /\ sms' = for_mmsms_data_ind(Fresh(sms), t, d)

EstablishInd(t, d) ==
  IsMt /\ t \in MtTis /\ sms' = for_mmsms_establish_ind(Fresh(sms), t, d)

TC1M == sms.tc1m /\ sms' = tim_tc1m([Fresh(sms) EXCEPT !.tc1m = FALSE])
TR1M == sms.tr1m /\ sms' = tim_tr1m([Fresh(sms) EXCEPT !.tr1m = FALSE])
TR2M == sms.tr2m /\ sms' = tim_tr2m([Fresh(sms) EXCEPT !.tr2m = FALSE])

SimUpdateCnf(stored) == IsMt /\ sms' = tl_sim_update_rec_cnf_net(Fresh(sms), stored)

Init == sms \in {cp_init("MO"), cp_init("MT")}

Next ==
  \/ \E auto_rep \in BOOLEAN : SubmitReq(auto_rep)
  \/ \E t \in Tis, prepared \in BOOLEAN : EstablishCnf(t, prepared)
  \/ \E t \in Tis, cause \in Causes : ErrorInd(t, cause) \/ ReleaseInd(t, cause)
  \/ \E t \in Tis, d \in NetworkMessages : DataInd(t, d) \/ EstablishInd(t, d)
  \/ TC1M
  \/ TR1M
  \/ TR2M
  \/ \E stored \in BOOLEAN : SimUpdateCnf(stored)

Spec == Init /\ [][Next]_sms

(***************************************************************************)
(* Properties                                                              *)
(***************************************************************************)
TypeOK == sms \in Slots

\* Every CP-DATA that waits for its CP-ACK is kept, numbered within the limit
\* and timed, so that tim_tc1m finds it when it repeats it.
RetransmitExists ==
  sms.cp = "WAIT_FOR_ACK" => sms.data_req # None /\ sms.tc1m

\* RL waits under its timer: a relay that waits is always woken.
WaitIsTimed ==
  /\ sms.rl \in {"ESTABLISH", "WAIT_FOR_ACK"} => sms.tr1m
  /\ sms.rl = "WAIT_FOR_SEND_ACK" => sms.tr2m

\* RL and TL agree on whose turn it is: while RL establishes, TL does, and RL
\* waits for the RP-ACK exactly while TL waits for the report.
LayersAgree ==
  /\ sms.rl = "ESTABLISH" => sms.tl = "ESTABLISH"
  /\ sms.rl = "WAIT_FOR_ACK" <=> sms.tl = "SEND"
  /\ sms.cp = "PENDING" => sms.rl = "ESTABLISH"

\* A release that waits for the CP-ACK (r_flag) is of the present connection,
\* and RL expects nothing else on it.  It depends on the network: cp_release_req
\* sets the flag, and only the next CP-ACK or the loss of the connection clears it.
ReleaseIsDelayed == sms.r_flag => sms.cp = "WAIT_FOR_ACK" /\ sms.rl = "IDLE"

\* No CP-DATA stays without its CP-ACK on a connection, unless RL is about to
\* answer it and the CP-ACK goes first.
AckIsSent ==
  sms.cp_ack_pending =>
    \/ sms.cp \in {"IDLE", "PENDING"}
    \/ sms.cp = "ESTABLISHED" /\ sms.rl = "WAIT_FOR_SEND_ACK"

=============================================================================
