------------------------------ MODULE DlEntity ------------------------------
(***************************************************************************)
(* One data link entity of the GSM layer 2 (LAPDm) in g23m-gsm/dl: DCCH0   *)
(* (SAPI 0 on SDCCH or FACCH) or DCCH3 (SAPI 3 on SDCCH).                  *)
(*                                                                         *)
(* Three actors step it.  Layer 1 calls dl_downlink() and dl_uplink() in   *)
(* interrupt context; whatever those calls want to tell RR is only queued  *)
(* as a signal.  The DL task handles the signals and the primitives of RR. *)
(* The frames of the network are any members of Frames.                    *)
(***************************************************************************)
EXTENDS Integers, Sequences

CONSTANTS
  Sapi,          \* 0: entity DCCH0, 3: entity DCCH3 on SDCCH
  Msgs,          \* layer 3 messages RR may hand over
  Segs,          \* Segs[m]: number of I frames message m needs
  Cnf,           \* messages whose DL_DATA_REQ asks for a DL_DATA_CNF
  Info,          \* information fields of downlink frames
  ChannelRelease,\* first segments of a CHANNEL RELEASE message
  Frames,        \* downlink frames the network may send
  None,          \* NULL, or an information field of length 0
  MaxQueued,     \* MAX_QUEUED_MESSAGES
  T200Count,     \* T200_..._CNT of the channel
  N200,          \* ..._N200 of the channel
  N200Est,       \* N200_ESTABLISHMENT
  ReleaseDelay,  \* DL_..._RELEASE_DELAY_VALUE
  Lag,           \* signals the DL task may leave unhandled when layer 1 calls
  InMsgMax,      \* bound: segments of a downlink message being put together
  ActLengthMax   \* bound: segments a message is taken to have left

T200_ACTIVE  == 2
T200_EXPIRED == 1
T200_STOPPED == 0

States == {"DISABLED", "IDLE", "SUSPENDED", "CONTENTION", "MFE", "RECOVERY",
           "RELEASE"}
Vtx    == {"EMPTY", "RR_CMD", "SABM", "DISC", "UA", "DM", "RR_RSP", "REJ"}
Types  == {"I", "RR", "RNR", "REJ", "SABM", "DISC", "UA", "DM"}

\* N(S), N(R) and the variables V(S), V(R), V(A) are taken modulo 8.
Numbers   == 0..7
OrNone(S) == S \cup {None}

Frame(info) == [type : Types, cmd : BOOLEAN, pf : BOOLEAN, nr : Numbers, ns : Numbers,
                info : info, m : BOOLEAN]

ASSUME EntityAssumption ==
  /\ Sapi \in {0, 3}
  /\ None \notin Msgs /\ None \notin Info
  /\ Segs \in [Msgs -> Nat \ {0}]
  /\ Cnf \subseteq Msgs
  /\ Frames \subseteq Frame(OrNone(Info))
  /\ T200Count \in Nat /\ T200Count >= T200_ACTIVE
  /\ MaxQueued \in Nat \ {0} /\ N200 \in Nat \ {0} /\ N200Est \in Nat \ {0}
  /\ ReleaseDelay \in Nat \ {0} /\ Lag \in Nat
  /\ InMsgMax \in Nat /\ ActLengthMax \in Nat

VARIABLES
  state,         \* dl_data->state[channel]
  cch,           \* dl_data->cch[channel], T_CCH
  queue,         \* dl_data->dcch0_queue or dcch3_queue, T_QUEUE
  in_msg,        \* segments of the downlink message being put together
  disc_request,  \* dcch0_disc_request or dcch3_disc_request
  rel,           \* pending delayed DL_RELEASE_IND and its delay
  signals,       \* signals of the interrupt context, not yet handled
  l2_frame,      \* frame given to layer 1 at this step, None for a dummy
  toRR           \* primitives sent to RR at this step

vars == <<state, cch, queue, in_msg, disc_request, rel, signals, l2_frame, toRR>>

-----------------------------------------------------------------------------
(* Frames the entity sends, primitives and signals. *)

UFrame(t, cmd, pf, info) ==
  [type |-> t, cmd |-> cmd, pf |-> pf, nr |-> 0, ns |-> 0, info |-> info, m |-> FALSE]
SResponse(t, nr, f) == [UFrame(t, FALSE, f, None) EXCEPT !.nr = nr]
\* Mutant: the M bit is not remembered for a repetition.
ICommand_NoM(ns, nr, p, q) ==
  [type |-> "I", cmd |-> TRUE, pf |-> p, nr |-> nr, ns |-> ns,
   info |-> q.transmit_buffer, m |-> q.m_bit /\ ~p]
ICommand(ns, nr, p, q) ==
  [type |-> "I", cmd |-> TRUE, pf |-> p, nr |-> nr, ns |-> ns,
   info |-> q.transmit_buffer, m |-> q.m_bit]

\* A signal: what is to be told to RR, the segment of a CONCATENATE, and
\* whether a release re-initialises the entity.
Sig(name, seg, init) == [name |-> name, seg |-> seg, init |-> init]
Prim(name, msg)      == [name |-> name, msg |-> msg]
When(cond, sig)      == IF cond THEN <<sig>> ELSE <<>>

EstablishInd     == Sig("ESTABLISH_IND", None, FALSE)
EstablishCnf     == Sig("ESTABLISH_CNF", None, FALSE)
ReleaseInd(init) == Sig("RELEASE_IND", None, init)
ReleaseCnf(init) == Sig("RELEASE_CNF", None, init)
ErrorInd         == Sig("ERROR_IND", None, FALSE)
DataCnf          == Sig("DATA_CNF", None, FALSE)
DataInd          == Sig("DATA_IND", None, FALSE)
Concatenate(seg) == Sig("CONCATENATE", seg, FALSE)

SignalNames == {"ESTABLISH_IND", "ESTABLISH_CNF", "RELEASE_IND", "RELEASE_CNF",
                "ERROR_IND", "DATA_CNF", "DATA_IND", "CONCATENATE"}

-----------------------------------------------------------------------------
(* The uplink queue (dl_com.c).  Lengths and offsets count segments: every *)
(* segment but the last of a message is N201 octets long.                  *)

com_clear_queue(q) ==
  [q EXCEPT !.store_buffer = <<>>, !.sending_buffer = None, !.switch_buffer = None,
            !.act_length = 0, !.act_offset = 0, !.transmit_buffer = None]

\* switch is the message to be sent first, or None.
com_restore_queue(q, switch) ==
  LET r == [q EXCEPT !.switch_buffer = switch, !.transmit_buffer = None]
  IN IF q.sending_buffer = None THEN r
     ELSE [r EXCEPT !.act_length = Segs[q.sending_buffer], !.act_offset = 0]

\* l_buf of the transmit buffer
TransmitLength(q) == IF q.transmit_buffer = None THEN 0 ELSE 1

\* Mutant: the offset goes back even when the last segment was sent.
com_recover_queue_Always(q) ==
  [q EXCEPT !.transmit_buffer = None, !.act_offset = @ - TransmitLength(q),
            !.act_length = @ + TransmitLength(q)]
com_recover_queue(q) ==
  LET back == IF q.act_length # 0 THEN TransmitLength(q) ELSE 0
      r    == [q EXCEPT !.transmit_buffer = None]
  IN IF q.sending_buffer = None THEN r
     ELSE [r EXCEPT !.act_offset = @ - back, !.act_length = @ + TransmitLength(q)]

com_queue_awaiting_transmission(q) ==
  \/ q.switch_buffer # None
  \/ q.act_length # 0
  \/ q.store_buffer # <<>>

\* The message com_read_queue takes its next segment from is in the sending buffer.
NextSending(q) ==
  IF q.act_length # 0 THEN q
  ELSE [q EXCEPT !.sending_buffer = Head(q.store_buffer),
                 !.store_buffer   = Tail(q.store_buffer),
                 !.act_offset     = 0,
                 !.act_length     = Segs[Head(q.store_buffer)]]

com_read_queue(q) ==
  LET s    == NextSending(q)
      more == s.act_length > 1
  IN IF q.switch_buffer # None
     THEN [q EXCEPT !.m_bit = FALSE,
                    !.transmit_buffer = [msg |-> q.switch_buffer, k |-> 1]]
     ELSE [s EXCEPT !.m_bit = more,
                    !.transmit_buffer = [msg |-> s.sending_buffer, k |-> s.act_offset + 1],
                    !.act_offset = IF more THEN @ + 1 ELSE @,
                    !.act_length = IF more THEN @ - 1 ELSE 0]

\* A full store loses the message without telling RR.
com_store_queue(q, msg) ==
  IF Len(q.store_buffer) < MaxQueued
  THEN [q EXCEPT !.store_buffer = Append(@, msg)]
  ELSE q

\* The last I frame is acknowledged: release its message, or ask the DL task
\* to confirm it first.
SentCompletely_Partly(q) == q.switch_buffer = None /\ q.sending_buffer # None  \* mutant
SentCompletely(q) == q.switch_buffer = None /\ q.sending_buffer # None /\ q.act_length = 0

free_sending_buffer(q) ==
  IF q.switch_buffer # None THEN [q EXCEPT !.switch_buffer = None]
  ELSE IF SentCompletely(q) /\ q.sending_buffer \notin Cnf
       THEN [q EXCEPT !.sending_buffer = None]
       ELSE q

FreeSignal(q) == When(SentCompletely(q) /\ q.sending_buffer \in Cnf, DataCnf)

-----------------------------------------------------------------------------
(* Sequence numbers, timer and the end of every downlink handler.          *)

com_check_nr(va, vs, nr) == (nr + 8 - va) % 8 <= (vs + 8 - va) % 8
Valid(f) == com_check_nr(cch.va, cch.vs, f.nr)

Decr_Unmasked(v) == v - 1  \* mutant: "vs &= 7" forgotten
Decr(v) == (v + 7) % 8
Incr(v) == (v + 1) % 8

ClearedCch == [vtx |-> "EMPTY", T200_counter |-> 0, time_flag |-> FALSE,
               contention_resolution |-> FALSE, reject_exception |-> FALSE,
               rc |-> 0, f_bit |-> FALSE, f_bit_flag |-> FALSE,
               p_bit_flag |-> FALSE, va |-> 0, vr |-> 0, vs |-> 0]

set_T200_counter_Stopped(c) == [c EXCEPT !.time_flag = FALSE]  \* mutant
set_T200_counter(c) == [c EXCEPT !.T200_counter = T200Count, !.time_flag = FALSE]
Restarted(c) == IF c.time_flag THEN set_T200_counter(c) ELSE c

ResetNumbers(c) == [c EXCEPT !.va = 0, !.vr = 0, !.vs = 0]

\* The P/F bit kept for a response that is still to be sent.
KeptBit == cch.vtx # "EMPTY" /\ cch.f_bit

\* dl_downlink() ends by storing the P/F bit and starting or stopping T200.
Finish(c, pf, t200) ==
  LET d == [c EXCEPT !.f_bit = pf, !.f_bit_flag = pf]
  IN IF t200 = "none" THEN d
     ELSE [d EXCEPT !.T200_counter = T200_STOPPED, !.time_flag = (t200 = "start")]

\* Layer 1 calls only when the DL task has caught up to Lag signals.
Layer1Turn == Len(signals) <= Lag

\* The bounds of the model, on what downlink frames can make grow.
Bounded == Len(in_msg) <= InMsgMax /\ queue.act_length <= ActLengthMax

Post(sigs) == signals' = signals \o sigs

-----------------------------------------------------------------------------
(* Initialisation (dcch0_init_dl_data, dcch3_init_dl_data). *)

InitialState == IF Sapi = 0 THEN "IDLE" ELSE "DISABLED"
NoRelease    == [pending |-> FALSE, delay |-> 0]

EmptyQueue ==
  [store_buffer |-> <<>>, sending_buffer |-> None, switch_buffer |-> None,
   act_length |-> 0, act_offset |-> 0, transmit_buffer |-> None, m_bit |-> FALSE]

Init ==
  /\ state = InitialState
  /\ cch = ClearedCch
  /\ queue = EmptyQueue
  /\ in_msg = <<>>
  /\ disc_request = FALSE
  /\ rel = NoRelease
  /\ signals = <<>>
  /\ l2_frame = None
  /\ toRR = <<>>

\* r is what is left of a delayed release; only SAPI 0 drops it.
init_dl_data(r) ==
  /\ state' = InitialState
  /\ cch' = ClearedCch
  /\ queue' = com_clear_queue(queue)
  /\ in_msg' = <<>>
  /\ disc_request' = FALSE
  /\ rel' = IF Sapi = 0 THEN NoRelease ELSE r

-----------------------------------------------------------------------------
(* dl_downlink(): a frame of the network.                                  *)

\* What the entity is after a downlink frame: cch before the P/F bit pf is
\* stored and T200 is stopped or marked for a start, state, queue, signals.
Downlinked(c, st, q, pf, t200, sigs) ==
  /\ cch'   = Finish(c, pf, t200)
  /\ state' = st
  /\ queue' = q
  /\ Post(sigs)
  /\ l2_frame' = None
  /\ toRR' = <<>>
  /\ UNCHANGED <<in_msg, disc_request, rel>>

\* Even a frame that means nothing in this state rewrites the stored P/F bit.
Ignored == Downlinked(cch, state, queue, KeptBit, "none", <<>>)

Command(f, t)  == f.type = t /\ f.cmd
Response(f, t) == f.type = t /\ ~f.cmd
Answer(vtx)    == [cch EXCEPT !.vtx = vtx]

\* SABM: all sequence numbers restart and a UA answers.
Reestablished == [ResetNumbers(cch) EXCEPT !.vtx = "UA", !.rc = 0]

downlink_idle(f) ==
  /\ state \in {"DISABLED", "IDLE"}
  /\ \/ /\ f.type \in {"I", "RR"} /\ f.pf
        /\ Downlinked(Answer("DM"), state, queue, TRUE, "none", <<>>)
     \/ /\ Command(f, "DISC")
        /\ Downlinked(Answer("DM"), state, queue, f.pf, "none", <<>>)
     \/ /\ Command(f, "SABM") /\ Sapi = 3 /\ f.info = None
        /\ Downlinked(Reestablished, state, com_restore_queue(queue, None), f.pf,
                      "none", <<>>)
     \/ /\ ~(f.type \in {"I", "RR"} /\ f.pf) /\ ~Command(f, "DISC")
        /\ ~(Command(f, "SABM") /\ Sapi = 3 /\ f.info = None)
        /\ Ignored

\* The UA confirms the message of the SABM, or the SABM had no message.
Accepted(f) ==
  f.info = IF cch.contention_resolution THEN queue.switch_buffer ELSE None

\* The establishment fails: the message of the SABM is given up.
NotEstablished(vtx, pf) ==
  Downlinked([cch EXCEPT !.vtx = vtx, !.contention_resolution = FALSE], "IDLE",
             IF cch.contention_resolution THEN [queue EXCEPT !.switch_buffer = None]
                                          ELSE queue,
             pf, "stop", <<ReleaseInd(FALSE)>>)

downlink_contention_resolution(f) ==
  /\ state = "CONTENTION"
  /\ \/ /\ Response(f, "UA") /\ Accepted(f)
        /\ Downlinked(ResetNumbers(cch), "MFE",
                      IF cch.contention_resolution THEN [queue EXCEPT !.switch_buffer = None]
                                                   ELSE queue,
                      KeptBit, "stop", <<EstablishCnf>>)
     \/ /\ Response(f, "UA") /\ ~Accepted(f)
        /\ NotEstablished(cch.vtx, KeptBit)
     \/ /\ Command(f, "SABM") /\ Sapi = 0
        /\ Downlinked(Reestablished, "MFE", queue, f.pf, "stop", <<EstablishCnf>>)
     \/ /\ Command(f, "SABM") /\ Sapi = 3 /\ f.info = None
        /\ Downlinked(Reestablished, state, com_clear_queue(queue), f.pf, "stop", <<>>)
     \/ /\ Command(f, "DISC")
        /\ NotEstablished("DM", f.pf)
     \/ /\ Response(f, "DM") /\ f.pf
        /\ NotEstablished(cch.vtx, KeptBit)
     \/ /\ ~Response(f, "UA") /\ ~Command(f, "DISC") /\ ~(Response(f, "DM") /\ f.pf)
        /\ ~(Command(f, "SABM") /\ (Sapi = 0 \/ f.info = None))
        /\ Ignored

\* nr_error_recovery: N(R) acknowledges what was never sent.
SequenceError(f) == Sapi = 0 /\ ~Valid(f)
ErrorSignal(f)   == When(SequenceError(f), ErrorInd)
\* A message is indicated to layer 3 when its last segment is received, and
\* after a sequence error when the frame has P = 1 and M = 0.
Indication(f, received) ==
  When(IF SequenceError(f) THEN f.pf /\ ~f.m ELSE received, DataInd)

\* The channel after N(R) of f was checked; c is the channel before.
Checked(c, f) == IF Valid(f) THEN [c EXCEPT !.va = f.nr] ELSE [c EXCEPT !.vtx = "EMPTY"]

\* enquiry_response: a supervisory command with P = 1 is answered at once.
Enquiry(f)  == f.pf /\ f.cmd
Enquired(f) == IF Enquiry(f) THEN Answer("RR_RSP") ELSE cch
SBit(f)     == Enquiry(f) \/ KeptBit

\* invoke_retransmission.
Retransmitting(c, nr) == IF c.vs # nr THEN [c EXCEPT !.vs = Decr(@)] ELSE c
RetransmitQueue(q, nr) == IF cch.vs # nr THEN com_recover_queue(q) ELSE q

\* The acknowledgement N(R) carries in state MFE.
AcksAll(f)  == Valid(f) /\ f.nr = cch.vs
AckQueue(f) == IF AcksAll(f) THEN free_sending_buffer(queue) ELSE queue
AckCnf(f)   == IF AcksAll(f) THEN FreeSignal(queue) ELSE <<>>
AckT200(f)  ==
  IF ~Valid(f) \/ f.nr = cch.va THEN "none" ELSE IF f.nr = cch.vs THEN "stop" ELSE "start"

downlink_mfe_supervisory(f) ==
  \/ /\ f.type = "RR"
     /\ Downlinked(Checked(Enquired(f), f), state, AckQueue(f), SBit(f), AckT200(f),
                   AckCnf(f) \o Indication(f, FALSE) \o ErrorSignal(f))
  \/ /\ f.type = "REJ" /\ Valid(f)
     /\ Downlinked([Enquired(f) EXCEPT !.vs = f.nr, !.va = f.nr], state,
                   RetransmitQueue(queue, f.nr), SBit(f), "stop", <<>>)
  \/ /\ f.type = "REJ" /\ ~Valid(f)
     /\ Downlinked(Checked(Enquired(f), f), state, queue, SBit(f), "none",
                   Indication(f, FALSE) \o ErrorSignal(f))
  \/ /\ f.type = "RNR"
     /\ Ignored

\* downlink_i_frame.
InOrder_Any(f) == TRUE  \* mutant: a repeated I frame is accepted again
InOrder(f)  == f.ns = cch.vr
Complete(f) == InOrder(f) /\ ~f.m
Received(f) ==
  IF InOrder(f)
  THEN [cch EXCEPT !.vr = Incr(@), !.reject_exception = FALSE,
                   !.vtx = IF f.pf THEN "RR_RSP" ELSE "RR_CMD"]
  ELSE IF f.pf \/ ~cch.reject_exception
       THEN [cch EXCEPT !.reject_exception = TRUE, !.vtx = "REJ"]
       ELSE cch
IBit(f) == f.pf \/ (KeptBit /\ (InOrder(f) \/ cch.reject_exception))
Segment(f) == When(InOrder(f), Concatenate(f.info))

downlink_mfe_information(f) ==
  \/ /\ Command(f, "I")
     /\ Downlinked(Checked(Received(f), f), state, AckQueue(f), IBit(f), AckT200(f),
                   Segment(f) \o AckCnf(f) \o Indication(f, Complete(f)) \o ErrorSignal(f))
  \/ /\ Response(f, "I")
     /\ Ignored

downlink_tr_information(f) ==
  \/ /\ Command(f, "I")
     /\ Downlinked(Checked(Received(f), f), state, queue, IBit(f), "none",
                   Segment(f) \o Indication(f, Complete(f)) \o ErrorSignal(f))
  \/ /\ Response(f, "I")
     /\ Ignored

\* The poll of this entity is answered.
Final(f) == f.pf /\ ~f.cmd

downlink_tr_supervisory(f) ==
  \/ /\ f.type = "RR" /\ Valid(f) /\ Final(f)
     /\ Downlinked([cch EXCEPT !.va = f.nr], "MFE", free_sending_buffer(queue), KeptBit,
                   "stop", FreeSignal(queue))
  \/ /\ f.type = "RR" /\ Valid(f) /\ ~Final(f)
     /\ Downlinked(Retransmitting(Checked(Enquired(f), f), f.nr), state,
                   RetransmitQueue(queue, f.nr), SBit(f), "none", <<>>)
  \/ /\ f.type = "RR" /\ ~Valid(f)
     /\ Downlinked(Checked(Enquired(f), f), state, queue, SBit(f), "none",
                   Indication(f, FALSE) \o ErrorSignal(f))
  \/ /\ f.type = "REJ" /\ Final(f) /\ Valid(f)
     /\ Downlinked([cch EXCEPT !.vs = f.nr, !.va = f.nr], "MFE",
                   free_sending_buffer(queue), KeptBit, "stop", FreeSignal(queue))
  \/ /\ f.type = "REJ" /\ Final(f) /\ ~Valid(f)
     /\ Downlinked([cch EXCEPT !.vs = f.nr, !.va = f.nr], "MFE",
                   IF cch.va # f.nr THEN RetransmitQueue(queue, f.nr) ELSE queue,
                   KeptBit, "stop", <<>>)
  \/ /\ f.type = "REJ" /\ ~Final(f)
     /\ Downlinked([Enquired(f) EXCEPT !.va = f.nr], state,
                   IF Valid(f) THEN free_sending_buffer(queue) ELSE queue, SBit(f), "none",
                   IF Valid(f) THEN FreeSignal(queue) ELSE <<>>)
  \/ /\ f.type = "RNR"
     /\ Ignored

downlink_mfe_tr_unnumbered(f) ==
  \/ /\ Command(f, "SABM") /\ f.info = None
     /\ Downlinked([Reestablished EXCEPT !.reject_exception = FALSE], "MFE",
                   IF Sapi = 3 THEN com_clear_queue(queue) ELSE queue, f.pf, "stop", <<>>)
  \/ /\ Command(f, "DISC")
     /\ Downlinked(Answer("UA"), "RELEASE", queue, KeptBit, "stop", <<>>)
  \/ /\ Response(f, "DM") /\ ~f.pf
     /\ IF Sapi = 3
        THEN Downlinked(cch, state, com_clear_queue(queue), KeptBit, "stop", <<ErrorInd>>)
        ELSE Downlinked(cch, state, queue, KeptBit, "none", <<ErrorInd>>)
  \/ /\ Response(f, "DM") /\ f.pf
     /\ Downlinked(cch, state, queue, KeptBit, "none", When(state = "MFE", ErrorInd))
  \/ /\ f.type \in {"SABM", "DISC", "UA", "DM"} /\ ~Response(f, "DM")
     /\ ~Command(f, "DISC") /\ ~(Command(f, "SABM") /\ f.info = None)
     /\ Ignored

downlink_mfe(f) ==
  /\ state = "MFE"
  /\ \/ downlink_mfe_supervisory(f)
     \/ downlink_mfe_information(f)
     \/ downlink_mfe_tr_unnumbered(f)

downlink_timer_recovery(f) ==
  /\ state = "RECOVERY"
  /\ \/ downlink_tr_supervisory(f)
     \/ downlink_tr_information(f)
     \/ downlink_mfe_tr_unnumbered(f)

Released(f) == Response(f, "UA") \/ (Response(f, "DM") /\ f.pf)

downlink_awaiting_release(f) ==
  /\ state = "RELEASE"
  /\ \/ /\ Command(f, "SABM") /\ Sapi = 0
        /\ Downlinked(Answer("DM"), "IDLE", queue, f.pf, "stop", <<ReleaseCnf(FALSE)>>)
     \/ /\ Command(f, "DISC")
        /\ Downlinked(Answer("UA"), state, queue, KeptBit, "stop", <<>>)
     \/ /\ Released(f)
        /\ Downlinked(cch, "IDLE", queue, KeptBit, "stop", <<ReleaseCnf(TRUE)>>)
     \/ /\ ~Released(f) /\ ~Command(f, "DISC") /\ ~(Command(f, "SABM") /\ Sapi = 0)
        /\ Ignored

\* A suspended entity does not even look at the frame.
dl_downlink(f) ==
  /\ Layer1Turn /\ Bounded
  /\ \/ downlink_idle(f)
     \/ downlink_contention_resolution(f)
     \/ downlink_mfe(f)
     \/ downlink_timer_recovery(f)
     \/ downlink_awaiting_release(f)

-----------------------------------------------------------------------------
(* dl_uplink(): an opportunity to send a frame.                            *)

\* delayed_release_ind: the delayed DL_RELEASE_IND is posted at every
\* opportunity from the one at which its delay is over until it is handled.
RelTick_Stuck == rel  \* mutant: the delay is not counted down
RelTick == IF rel.pending /\ rel.delay > 0 THEN [rel EXCEPT !.delay = @ - 1] ELSE rel
RelSignal == When(rel.pending /\ RelTick.delay = 0, ReleaseInd(TRUE))

\* The entity acknowledges a DISC: DL_RELEASE_IND is to follow.
RelPending_Forgotten == RelTick  \* mutant
RelPending ==
  [pending |-> TRUE, delay |-> IF RelTick.delay = 0 THEN ReleaseDelay ELSE RelTick.delay]

\* Mutant: off by one, T200 never reaches T200_EXPIRED.
Ticked_OffByOne == [cch EXCEPT !.T200_counter = IF @ > T200_ACTIVE THEN @ - 1 ELSE @]
Ticked == [cch EXCEPT !.T200_counter = IF @ >= T200_ACTIVE THEN @ - 1 ELSE @]

\* An opportunity leaves cch c, state st, queue q; frame is sent, the signals
\* sigs are posted after the one of a delayed release.
Uplinked(c, st, q, frame, sigs) ==
  /\ cch' = c /\ state' = st /\ queue' = q
  /\ l2_frame' = frame
  /\ Post(RelSignal \o sigs)
Sends(c, st, q, frame, sigs) == Uplinked([c EXCEPT !.vtx = "EMPTY"], st, q, frame, sigs)
Dummy(c, st, sigs)           == Uplinked(c, st, queue, None, sigs)

\* com_prepare_DISC.
com_prepare_DISC_Untimed(c) ==  \* mutant: T200 is not to start with the DISC
  [c EXCEPT !.vtx = "DISC", !.T200_counter = T200_STOPPED, !.rc = 0]
com_prepare_DISC(c) ==
  [c EXCEPT !.vtx = "DISC", !.time_flag = TRUE, !.T200_counter = T200_STOPPED, !.rc = 0]

\* dcch0_check_disc, dcch3_check_disc: a requested release is due.
check_disc(c) ==
  /\ disc_request /\ c.vtx # "RR_CMD"
  /\ Sends(Restarted(com_prepare_DISC(c)), "RELEASE", queue, UFrame("DISC", TRUE, TRUE, None),
           <<>>)
  /\ disc_request' = (Sapi = 3)
  /\ rel' = RelTick

\* T200_expiry of channel c: the channel, state and signals after it.
Retry(c) == [c EXCEPT !.rc = @ + 1, !.time_flag = TRUE]
Exhausted_OnceMore(c, n) == c.rc > n  \* mutant: off by one
Exhausted(c, n) == c.rc >= n
T200_expiry(c) ==
  CASE state = "CONTENTION" /\ Exhausted(c, N200Est) ->
         [c |-> [c EXCEPT !.contention_resolution = FALSE], st |-> "IDLE", sigs |-> <<ErrorInd>>]
    [] state = "CONTENTION" /\ ~Exhausted(c, N200Est) ->
         [c |-> [Retry(c) EXCEPT !.vtx = "SABM"], st |-> state, sigs |-> <<>>]
    [] state = "MFE" ->
         [c |-> [c EXCEPT !.rc = 1, !.p_bit_flag = TRUE, !.time_flag = TRUE],
          st |-> "RECOVERY", sigs |-> <<>>]
    [] state = "RECOVERY" /\ ~Exhausted(c, N200) ->
         [c |-> [Retry(c) EXCEPT !.p_bit_flag = TRUE], st |-> state, sigs |-> <<>>]
    [] state = "RECOVERY" /\ Exhausted(c, N200) /\ Sapi = 0 ->
         [c |-> [c EXCEPT !.T200_counter = T200_STOPPED, !.time_flag = FALSE,
                          !.contention_resolution = FALSE, !.vtx = "EMPTY"],
          st |-> "IDLE", sigs |-> <<ErrorInd>>]
    [] state = "RECOVERY" /\ Exhausted(c, N200) /\ Sapi = 3 ->
         [c |-> c, st |-> state, sigs |-> <<ErrorInd>>]
    [] state = "RELEASE" /\ Exhausted(c, N200Est) ->
         [c |-> c, st |-> "IDLE", sigs |-> <<ReleaseCnf(TRUE)>>]
    [] state = "RELEASE" /\ ~Exhausted(c, N200Est) ->
         [c |-> [Retry(c) EXCEPT !.vtx = "DISC"], st |-> state, sigs |-> <<>>]
    [] OTHER -> [c |-> c, st |-> state, sigs |-> <<>>]

\* The entity e, as T200_expiry leaves it, when its state machine runs.
AfterT200(c) ==
  IF c.T200_counter = T200_EXPIRED THEN T200_expiry(c)
  ELSE [c |-> c, st |-> state, sigs |-> <<>>]

UResponse(t, f) == UFrame(t, FALSE, f, None)

uplink_idle(e) ==
  /\ e.st \in {"IDLE", "DISABLED"}
  /\ \/ /\ e.c.vtx = "UA" /\ Sapi = 3 /\ e.c.f_bit
        /\ Sends(e.c, "MFE", queue, UResponse("UA", TRUE), Append(e.sigs, EstablishInd))
     \/ /\ e.c.vtx = "UA" /\ ~(Sapi = 3 /\ e.c.f_bit)
        /\ Sends(e.c, e.st, queue, UResponse("UA", e.c.f_bit), e.sigs)
     \/ /\ e.c.vtx = "DM" /\ e.st = "IDLE"
        /\ Sends(e.c, e.st, queue, UResponse("DM", e.c.f_bit \/ Sapi = 3), e.sigs)
     \/ /\ e.c.vtx # "UA" /\ ~(e.c.vtx = "DM" /\ e.st = "IDLE")
        /\ Dummy(e.c, e.st, e.sigs)

\* c is the channel with T200 started if that is due.
uplink_awaiting_establishment(c, e) ==
  /\ e.st = "CONTENTION"
  /\ \/ /\ c.vtx = "SABM"
        /\ Sends(c, e.st, queue,
                 UFrame("SABM", TRUE, TRUE,
                        IF c.contention_resolution THEN queue.switch_buffer ELSE None),
                 e.sigs)
     \/ /\ c.vtx = "UA" /\ Sapi = 3
        /\ Sends(c, "MFE", queue, UResponse("UA", c.f_bit), Append(e.sigs, EstablishCnf))
     \/ /\ c.vtx = "DM" /\ Sapi = 3
        /\ Sends(c, e.st, queue, UResponse("DM", c.f_bit), e.sigs)
     \/ /\ c.vtx # "SABM" /\ ~(c.vtx \in {"UA", "DM"} /\ Sapi = 3)
        /\ Dummy(c, e.st, e.sigs)

\* UA and the supervisory responses do not depend on the state.
Responds(c, e) ==
  \/ /\ c.vtx = "RR_CMD" /\ c.f_bit_flag
     /\ Sends([c EXCEPT !.f_bit_flag = FALSE], e.st, queue, SResponse("RR", c.vr, TRUE), e.sigs)
  \/ /\ c.vtx = "UA"
     /\ Sends(c, e.st, queue, UResponse("UA", c.f_bit), e.sigs)
  \/ /\ c.vtx \in {"RR_RSP", "REJ"}
     /\ Sends([c EXCEPT !.f_bit_flag = FALSE], e.st, queue,
              SResponse(IF c.vtx = "REJ" THEN "REJ" ELSE "RR", c.vr, c.f_bit), e.sigs)

\* com_read_queue reads the message it is about to send.
NextSegmentReadable ==
  queue.switch_buffer # None \/ queue.act_length = 0 \/ queue.sending_buffer # None

MaySendI(c) == com_queue_awaiting_transmission(queue) /\ c.vs # Incr(c.va)

uplink_mfe(c, e) ==
  /\ e.st = "MFE"
  /\ \/ Responds(c, e)
     \/ /\ c.vtx \notin {"UA", "RR_RSP", "REJ"} /\ ~(c.vtx = "RR_CMD" /\ c.f_bit_flag)
        /\ MaySendI(c) /\ NextSegmentReadable
        /\ LET q == com_read_queue(queue)
           IN Sends(set_T200_counter([c EXCEPT !.vs = Incr(@)]), e.st, q,
                    ICommand(c.vs, c.vr, FALSE, q), e.sigs)
     \/ /\ c.vtx = "RR_CMD" /\ ~c.f_bit_flag /\ ~MaySendI(c)
        /\ Sends(c, e.st, queue, SResponse("RR", c.vr, FALSE), e.sigs)
     \/ /\ c.vtx \in {"EMPTY", "SABM", "DISC", "DM"} /\ ~MaySendI(c)
        /\ Dummy(c, e.st, e.sigs)

uplink_timer_recovery(c, e) ==
  /\ e.st = "RECOVERY"
  /\ \/ Responds(c, e)
     \/ /\ c.vtx \notin {"UA", "RR_RSP", "REJ"} /\ ~(c.vtx = "RR_CMD" /\ c.f_bit_flag)
        /\ c.p_bit_flag
        /\ Sends(set_T200_counter([c EXCEPT !.p_bit_flag = FALSE]), e.st, queue,
                 ICommand(Decr(c.vs), c.vr, TRUE, queue), e.sigs)
     \/ /\ c.vtx = "RR_CMD" /\ ~c.f_bit_flag /\ ~c.p_bit_flag
        /\ Sends(c, e.st, queue, SResponse("RR", c.vr, FALSE), e.sigs)
     \/ /\ c.vtx \in {"EMPTY", "SABM", "DISC", "DM"} /\ ~c.p_bit_flag
        /\ Dummy(c, e.st, e.sigs)

\* A UA ends the link; its DL_RELEASE_IND is delayed.
Acknowledging(c, e) == e.st = "RELEASE" /\ c.vtx = "UA"

uplink_awaiting_release(c, e) ==
  /\ e.st = "RELEASE"
  /\ \/ /\ c.vtx = "DISC"
        /\ Sends(c, e.st, queue, UFrame("DISC", TRUE, TRUE, None), e.sigs)
     \/ /\ Acknowledging(c, e)
        /\ Sends(c, "IDLE", queue, UResponse("UA", TRUE), e.sigs)
     \/ /\ c.vtx \notin {"DISC", "UA"}
        /\ Dummy(c, e.st, e.sigs)

uplink_suspended(e) == e.st = "SUSPENDED" /\ Dummy(e.c, e.st, e.sigs)

\* SAPI 3 is asked on SDCCH only when SAPI 0 has nothing to send.
Dcch3Asked ==
  \/ cch.vtx # "EMPTY"
  \/ com_queue_awaiting_transmission(queue)
  \/ cch.T200_counter # T200_STOPPED

\* dl_active: the DL task is processing a primitive of RR just now.
dl_uplink(dl_active) ==
  LET busy == dl_active /\ state = "MFE"
      e    == IF busy THEN [c |-> Ticked, st |-> state, sigs |-> <<>>] ELSE AfterT200(Ticked)
      c    == Restarted(e.c)
  IN /\ Layer1Turn
     /\ Sapi = 3 => Dcch3Asked
     /\ toRR' = <<>> /\ UNCHANGED in_msg
     /\ \/ check_disc(Ticked)
        \/ /\ ~(disc_request /\ cch.vtx # "RR_CMD")
           /\ rel' = IF Acknowledging(c, e) THEN RelPending ELSE RelTick
           /\ UNCHANGED disc_request
           /\ \/ busy /\ Dummy(e.c, e.st, e.sigs)
              \/ ~busy /\ uplink_idle(e)
              \/ ~busy /\ uplink_awaiting_establishment(c, e)
              \/ ~busy /\ uplink_mfe(c, e)
              \/ ~busy /\ uplink_timer_recovery(c, e)
              \/ ~busy /\ uplink_awaiting_release(c, e)
              \/ ~busy /\ uplink_suspended(e)

\* An opportunity of SAPI 0 that leaves SAPI 3 alone: it counts down the
\* delayed release, and starts a T200 of SAPI 3 that is due when SAPI 0 is
\* being released.
dcch0_uplink ==
  /\ Sapi = 3 /\ Layer1Turn
  /\ \E c \in {cch, Restarted(cch)} : Dummy(c, state, <<>>)
  /\ rel' = RelTick
  /\ toRR' = <<>> /\ UNCHANGED <<in_msg, disc_request>>

-----------------------------------------------------------------------------
(* The DL task: primitives of RR.                                          *)

\* Primitives and new values of the entity, the signals untouched.
Task(c, st, q, disc, prims) ==
  /\ cch' = c /\ state' = st /\ queue' = q /\ disc_request' = disc
  /\ toRR' = prims
  /\ l2_frame' = None
  /\ UNCHANGED in_msg

\* The entity is initialised after the primitives are sent.
TaskInit(prims, r) == init_dl_data(r) /\ toRR' = prims /\ l2_frame' = None

Establishing_Untimed(c) == [c EXCEPT !.vtx = "SABM", !.rc = 0]  \* mutant
Establishing(c) == [c EXCEPT !.vtx = "SABM", !.time_flag = TRUE, !.rc = 0]
RELEASE_CNF == Prim("RELEASE_CNF", None)
RELEASE_IND == Prim("RELEASE_IND", None)
RelHandled  == [rel EXCEPT !.pending = FALSE]

\* release_req with mode DL_NORMAL_RELEASE; before was sent to RR just now,
\* r is the delayed release.
release_req(before, r) ==
  \/ /\ state \in {"CONTENTION", "MFE", "RECOVERY"}
     /\ ~disc_request /\ cch.vtx = "RR_CMD"
     /\ Task(cch, state, queue, TRUE, before) /\ rel' = r
  \/ /\ state \in {"CONTENTION", "MFE", "RECOVERY"}
     /\ disc_request \/ cch.vtx # "RR_CMD"
     /\ Task(com_prepare_DISC(cch), "RELEASE", queue, disc_request, before) /\ rel' = r
  \/ /\ state = "RELEASE"
     /\ Task([cch EXCEPT !.T200_counter = T200_STOPPED], state, queue, disc_request, before)
     /\ rel' = r
  \/ /\ state \in {"DISABLED", "IDLE", "SUSPENDED"}
     /\ TaskInit(Append(before, RELEASE_CNF), r)

mdl_release_req ==
  LET cnf == {"CONTENTION", "RELEASE"} \cup (IF Sapi = 3 THEN {"RECOVERY"} ELSE {})
      ind == {"MFE", "RECOVERY"} \ cnf
  IN \/ state \in cnf /\ TaskInit(<<RELEASE_CNF>>, rel)
     \/ state \in ind /\ TaskInit(<<RELEASE_IND>>, RelHandled)
     \/ /\ state \notin cnf \cup ind
        /\ Task(cch, state, queue, disc_request, <<>>) /\ UNCHANGED rel

\* A link is established again, without a message.
Reestablishing_Contending ==  \* mutant: contention_resolution is not reset
  [Establishing(cch) EXCEPT !.T200_counter = T200_STOPPED]
Reestablishing ==
  [Establishing(cch) EXCEPT !.T200_counter = T200_STOPPED, !.contention_resolution = FALSE]

\* DL_ESTABLISH_REQ with message m, or None, for SAPI 0.
dcch0_establish_req(m) ==
  /\ Sapi = 0
  /\ \/ /\ state = "IDLE" /\ m # None
        /\ Task(Establishing([cch EXCEPT !.contention_resolution = TRUE]), "CONTENTION",
                [com_clear_queue(queue) EXCEPT !.switch_buffer = m], FALSE, <<>>)
        /\ UNCHANGED rel
     \/ /\ state \in {"MFE", "RECOVERY"} /\ m = None
        /\ Task(Reestablishing, "CONTENTION", com_clear_queue(queue), disc_request, <<>>)
        /\ UNCHANGED rel
     \/ /\ state # "IDLE" /\ ~(state \in {"MFE", "RECOVERY"} /\ m = None)
        /\ mdl_release_req

\* For SAPI 3; with a message DL_RELEASE_IND refuses the request.
dcch3_establish_req(m) ==
  /\ Sapi = 3
  /\ \/ /\ m = None /\ state \in {"DISABLED", "IDLE", "MFE", "RECOVERY"}
        /\ Task(Establishing(cch), "CONTENTION", com_clear_queue(queue), FALSE, <<>>)
     \/ /\ m = None /\ state \notin {"DISABLED", "IDLE", "MFE", "RECOVERY"}
        /\ Task(cch, state, queue, disc_request, <<>>)
     \/ /\ m # None
        /\ Task(cch, state, queue, disc_request, <<RELEASE_IND>>)
  /\ UNCHANGED rel

\* DL_RESUME_REQ and DL_RECONNECT_REQ; m is to be sent first.
dcch0_resume_reconnect_req(m) ==
  /\ Sapi = 0
  /\ IF state \in {"SUSPENDED", "IDLE"}
     THEN Task(Establishing([cch EXCEPT !.contention_resolution = FALSE]), "CONTENTION",
               com_restore_queue(queue, m), disc_request, <<>>)
     ELSE Task(cch, state, queue, disc_request, <<>>)
  /\ UNCHANGED rel

dcch0_suspend_req ==
  /\ Sapi = 0
  /\ IF state \in {"CONTENTION", "MFE", "RECOVERY", "RELEASE"}
     THEN Task([cch EXCEPT !.T200_counter = T200_STOPPED, !.time_flag = FALSE,
                           !.contention_resolution = FALSE],
               "SUSPENDED", queue, disc_request, <<>>)
     ELSE Task(cch, state, queue, disc_request, <<>>)
  /\ UNCHANGED rel

data_req(m) ==
  LET takes == {"MFE", "RECOVERY"} \cup
               (IF Sapi = 0 THEN {"SUSPENDED", "CONTENTION"} ELSE {})
  IN /\ Task(cch, state, IF state \in takes THEN com_store_queue(queue, m) ELSE queue,
             disc_request, <<>>)
     /\ UNCHANGED rel

\* DL_RELEASE_REQ with mode DL_LOCAL_END_RELEASE.
local_end_release == TaskInit(<<RELEASE_CNF>>, rel)

\* SAPI 0 enables SAPI 3 when it is established, and initialises it whenever
\* it is established anew, suspended or released.
dcch3_enable ==
  /\ Sapi = 3 /\ state = "DISABLED"
  /\ Task(cch, "IDLE", queue, disc_request, <<>>) /\ UNCHANGED rel
dcch3_init == Sapi = 3 /\ TaskInit(<<>>, rel)
Dcch0Calls == (dcch3_enable \/ dcch3_init) /\ UNCHANGED signals

RRRequest ==
  /\ \/ \E m \in Msgs \cup {None} : dcch0_establish_req(m) \/ dcch3_establish_req(m)
     \/ \E m \in Msgs : dcch0_resume_reconnect_req(m)
     \/ \E m \in Msgs : data_req(m)
     \/ dcch0_suspend_req
     \/ release_req(<<>>, rel)
     \/ local_end_release
     \/ mdl_release_req
  /\ UNCHANGED signals

-----------------------------------------------------------------------------
(* The DL task: signals of the interrupt context.                          *)

Handled(prims) == toRR' = prims /\ l2_frame' = None

IsChannelRelease == Sapi = 0 /\ in_msg[1] \in ChannelRelease

\* sig_handle_...: what the head signal says is done now, on the entity as it
\* has become meanwhile.
HandleSignal(s) ==
  \/ /\ s.name \in {"ESTABLISH_IND", "ESTABLISH_CNF"}
     /\ Handled(<<Prim(s.name, None)>>)
     /\ UNCHANGED <<state, cch, queue, in_msg, disc_request, rel>>
  \/ /\ s.name = "RELEASE_IND" /\ s.init
     /\ TaskInit(<<RELEASE_IND>>, RelHandled)
  \/ /\ s.name = "RELEASE_IND" /\ ~s.init
     /\ Handled(<<RELEASE_IND>>) /\ rel' = RelHandled
     /\ UNCHANGED <<state, cch, queue, in_msg, disc_request>>
  \/ /\ s.name = "RELEASE_CNF" /\ s.init
     /\ TaskInit(<<RELEASE_CNF>>, rel)
  \/ /\ s.name = "RELEASE_CNF" /\ ~s.init
     /\ Handled(<<RELEASE_CNF>>)
     /\ UNCHANGED <<state, cch, queue, in_msg, disc_request, rel>>
  \/ /\ s.name = "ERROR_IND" /\ state \notin {"DISABLED", "IDLE"}
     /\ release_req(<<RELEASE_IND>>, RelHandled)
  \/ /\ s.name = "ERROR_IND" /\ state \in {"DISABLED", "IDLE"}
     /\ Handled(<<RELEASE_IND>>) /\ rel' = RelHandled
     /\ UNCHANGED <<state, cch, queue, in_msg, disc_request>>
  \* A sending buffer released meanwhile is read through NULL: the model ends
  \* such an execution.
  \/ /\ s.name = "DATA_CNF" /\ queue.sending_buffer # None
     /\ Handled(<<Prim("DATA_CNF", queue.sending_buffer)>>)
     /\ queue' = [queue EXCEPT !.sending_buffer = None]
     /\ UNCHANGED <<state, cch, in_msg, disc_request, rel>>
  \/ /\ s.name = "CONCATENATE"
     /\ Handled(<<>>)
     /\ in_msg' = Append(in_msg, s.seg)
     /\ UNCHANGED <<state, cch, queue, disc_request, rel>>
  \/ /\ s.name = "DATA_IND" /\ in_msg # <<>>
     /\ Handled(<<Prim("DATA_IND", in_msg)>>)
     /\ in_msg' = <<>>
     /\ disc_request' = (disc_request \/ IsChannelRelease)
     /\ UNCHANGED <<state, cch, queue, rel>>
  \/ /\ s.name = "DATA_IND" /\ in_msg = <<>>
     /\ Handled(<<>>)
     /\ UNCHANGED <<state, cch, queue, in_msg, disc_request, rel>>

DLTask ==
  /\ signals # <<>>
  /\ HandleSignal(Head(signals))
  /\ signals' = Tail(signals)

Downlink == \E f \in Frames : dl_downlink(f)
Uplink   == \E busy \in BOOLEAN : dl_uplink(busy)

Next == Downlink \/ Uplink \/ dcch0_uplink \/ Dcch0Calls \/ DLTask \/ RRRequest

Spec == Init /\ [][Next]_vars

\* The scheduling the entity relies on: opportunities come with the TDMA
\* frames, whatever the network sends between them, and the DL task handles
\* its signals.
Fairness == SF_vars(Uplink) /\ WF_vars(DLTask)

FairSpec == Spec /\ Fairness

-----------------------------------------------------------------------------
(* Properties. *)

\* Type correctness.
T200Range == 0..T200Count
Retries   == Nat

Channel ==
  [vtx : Vtx, T200_counter : T200Range, time_flag : BOOLEAN,
   contention_resolution : BOOLEAN, reject_exception : BOOLEAN, rc : Retries,
   f_bit : BOOLEAN, f_bit_flag : BOOLEAN, p_bit_flag : BOOLEAN,
   va : Numbers, vr : Numbers, vs : Numbers]

\* The segments of the messages of RR, as com_read_queue reads them.
SegmentRead == [msg : Msgs, k : Int]
Stored      == Seq(Msgs)
Lengths     == Nat
Offsets     == Int

Queue ==
  [store_buffer : Stored, sending_buffer : OrNone(Msgs), switch_buffer : OrNone(Msgs),
   act_length : Lengths, act_offset : Offsets, transmit_buffer : OrNone(SegmentRead),
   m_bit : BOOLEAN]

Delays  == 0..ReleaseDelay
Release == [pending : BOOLEAN, delay : Delays]

Signals == [name : SignalNames, seg : OrNone(Info), init : BOOLEAN]

TypeOK ==
  /\ state \in States
  /\ cch \in Channel
  /\ queue \in Queue
  /\ in_msg \in Seq(OrNone(Info))
  /\ disc_request \in BOOLEAN
  /\ rel \in Release
  /\ signals \in Seq(Signals)
  /\ l2_frame \in OrNone(Frame(OrNone(Msgs \cup SegmentRead)))

\* While the answer to a SABM with a message is awaited that message is kept:
\* com_compare_L3_msg() compares it with the UA without a look at the pointer.
ContentionHasMessage ==
  state = "CONTENTION" /\ cch.contention_resolution => queue.switch_buffer # None

\* No command is repeated more often than allowed (T200_expiry, repeat_sabm).
\* rc counts for SABM and for the poll of timer recovery; a DISC of the network
\* leaves it as it was, so in state RELEASE it counts only while T200 does.
Timed == cch.T200_counter # T200_STOPPED \/ cch.time_flag

RetriesBounded ==
  /\ state = "CONTENTION" => cch.rc <= N200Est
  /\ state = "RELEASE" /\ Timed => cch.rc <= N200Est
  /\ state = "RECOVERY" => cch.rc <= N200

\* "If a message is stored in the sending buffer which is not send completely
\* the next segment is copied to the transmit buffer" (com_read_queue): what is
\* sent in an I frame is a segment of the message, however often the message
\* was recovered after a REJ or restored after a resumption.
SegmentsExist ==
  queue.transmit_buffer # None =>
    queue.transmit_buffer.k \in 1..Segs[queue.transmit_buffer.msg]

\* An answer is never awaited without T200, or a repetition that will start
\* it: SABM and the poll of timer recovery are repeated until the link is up
\* or given up (dl_uplink, T200_expiry).  A failure already signalled and, for
\* SAPI 3, the UA about to be sent or a release asked for end the wait as well.
WaitIsSupervised ==
  state \in {"CONTENTION", "RECOVERY"} =>
    \/ Timed
    \/ \E i \in DOMAIN signals : signals[i].name = "ERROR_IND"
    \/ Sapi = 3 /\ (cch.vtx = "UA" \/ disc_request)

\* "After a L3 release at the last downlink DL should send a DISC" (dl_uplink):
\* the DISC of a release that had to wait for an acknowledgement is sent, or
\* the link ends otherwise.
WaitingReleaseIsSent == disc_request ~> state \notin {"CONTENTION", "MFE", "RECOVERY"}

=============================================================================
