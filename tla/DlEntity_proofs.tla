--------------------------- MODULE DlEntity_proofs ---------------------------
(***************************************************************************)
(* Theorems about the data link entity of DlEntity, for every set of       *)
(* messages, of frames of the network, and every value of the counters.    *)
(***************************************************************************)
EXTENDS DlEntity, TLAPS

-----------------------------------------------------------------------------
(* The sets the fields range over. *)

\* The numbers of a channel: what they start from and what a step makes of them.
LEMMA NumberTypes ==
  /\ 0 \in Numbers
  /\ \A v \in Numbers : Incr(v) \in Numbers /\ Decr(v) \in Numbers
  /\ T200_STOPPED \in T200Range /\ T200Count \in T200Range
  /\ \A t \in T200Range : t >= T200_ACTIVE => t - 1 \in T200Range
  /\ 0 \in Retries /\ 1 \in Retries /\ \A r \in Retries : r + 1 \in Retries
  /\ 0 \in Lengths /\ 0 \in Offsets
BY EntityAssumption
   DEF Numbers, Incr, Decr, T200Range, T200_STOPPED, T200_ACTIVE, Retries, Lengths, Offsets

\* NULL, and what is not NULL, where a field may be either.
LEMMA NoneTypes ==
  /\ None \in OrNone(Msgs) /\ None \in OrNone(SegmentRead) /\ None \in OrNone(Info)
  /\ \A m \in Msgs : m \in OrNone(Msgs)
  /\ \A m \in OrNone(Msgs) : m # None => m \in Msgs
  /\ \A s \in SegmentRead : s \in OrNone(SegmentRead)
BY DEF OrNone

\* The store buffer as com_store_queue appends to it and com_read_queue takes
\* from it.
LEMMA StoredTypes ==
  /\ <<>> \in Stored
  /\ \A s \in Stored, m \in Msgs : Append(s, m) \in Stored
  /\ \A s \in Stored : s # <<>> => Head(s) \in Msgs /\ Tail(s) \in Stored
BY DEF Stored

\* The delay of a DL_RELEASE_IND counts down to 0 (delayed_release_ind).
LEMMA DelayTypes ==
  /\ 0 \in Delays /\ ReleaseDelay \in Delays
  /\ \A d \in Delays : d > 0 => d - 1 \in Delays
BY EntityAssumption DEF Delays

\* The lengths and offsets of the sending buffer, as com_read_queue and
\* com_recover_queue move them by one segment.
LEMMA LengthTypes ==
  /\ \A m \in Msgs : Segs[m] \in Lengths
  /\ \A n \in Lengths : n > 1 => n - 1 \in Lengths
  /\ \A n \in Lengths : n + 1 \in Lengths /\ n + 0 \in Lengths
  /\ \A k \in Offsets : k + 1 \in Offsets /\ k - 1 \in Offsets /\ k - 0 \in Offsets
BY EntityAssumption DEF Lengths, Offsets

-----------------------------------------------------------------------------
(* The operators on the uplink queue keep its type.                        *)

\* What clears, restores, recovers, releases or fills the queue keeps its type.
LEMMA QueueTypes ==
  ASSUME NEW q \in Queue
  PROVE  /\ com_clear_queue(q) \in Queue
         /\ com_recover_queue(q) \in Queue
         /\ free_sending_buffer(q) \in Queue
         /\ \A m \in OrNone(Msgs) : com_restore_queue(q, m) \in Queue
         /\ \A m \in OrNone(Msgs) : [com_clear_queue(q) EXCEPT !.switch_buffer = m] \in Queue
         /\ [q EXCEPT !.switch_buffer = None] \in Queue
         /\ [q EXCEPT !.sending_buffer = None] \in Queue
         /\ \A m \in Msgs : com_store_queue(q, m) \in Queue
<1> USE NumberTypes, NoneTypes, StoredTypes, LengthTypes
<1>1. com_clear_queue(q) \in Queue
  BY DEF com_clear_queue, Queue
<1>2. com_recover_queue(q) \in Queue
  <2>1. TransmitLength(q) = 0 \/ TransmitLength(q) = 1
    BY DEF TransmitLength
  <2>2. q.act_length + TransmitLength(q) \in Lengths
    BY <2>1 DEF Queue
  <2>3. q.act_offset - (IF q.act_length # 0 THEN TransmitLength(q) ELSE 0) \in Offsets
    BY <2>1 DEF Queue
  <2> QED BY <2>2, <2>3 DEF com_recover_queue, Queue
<1>3. free_sending_buffer(q) \in Queue
  BY DEF free_sending_buffer, Queue
<1>4. \A m \in OrNone(Msgs) : com_restore_queue(q, m) \in Queue
  BY DEF com_restore_queue, Queue
<1>5. \A m \in OrNone(Msgs) : [com_clear_queue(q) EXCEPT !.switch_buffer = m] \in Queue
  BY <1>1 DEF Queue
<1>6. /\ [q EXCEPT !.switch_buffer = None] \in Queue
      /\ [q EXCEPT !.sending_buffer = None] \in Queue
  BY DEF Queue
<1>7. \A m \in Msgs : com_store_queue(q, m) \in Queue
  BY DEF com_store_queue, Queue
<1> QED BY <1>1, <1>2, <1>3, <1>4, <1>5, <1>6, <1>7

\* com_read_queue has a message to read from whenever something awaits
\* transmission and the sending buffer is there for the rest of a message.
LEMMA ReadType ==
  ASSUME NEW q \in Queue, com_queue_awaiting_transmission(q),
         q.switch_buffer # None \/ q.act_length = 0 \/ q.sending_buffer # None
  PROVE  com_read_queue(q) \in Queue
<1> USE NumberTypes, NoneTypes, StoredTypes, LengthTypes
<1>1. CASE q.switch_buffer # None
  <2>1. [msg |-> q.switch_buffer, k |-> 1] \in SegmentRead
    BY <1>1 DEF Queue, SegmentRead
  <2> QED BY <1>1, <2>1 DEF com_read_queue, Queue
<1>2. CASE q.switch_buffer = None
  <2> DEFINE s == NextSending(q)
  <2>1. s \in Queue /\ s.sending_buffer \in Msgs
    <3>1. CASE q.act_length # 0
      BY <1>2, <3>1 DEF NextSending, Queue
    <3>2. CASE q.act_length = 0
      <4>1. q.store_buffer # <<>>
        BY <1>2, <3>2 DEF com_queue_awaiting_transmission
      <4>2. Head(q.store_buffer) \in Msgs /\ Tail(q.store_buffer) \in Stored
        BY <4>1 DEF Queue
      <4> QED BY <3>2, <4>2 DEF NextSending, Queue
    <3> QED BY <3>1, <3>2
  <2>2. [msg |-> s.sending_buffer, k |-> s.act_offset + 1] \in SegmentRead
    BY <2>1 DEF Queue, SegmentRead, Offsets
  <2>3. /\ (IF s.act_length > 1 THEN s.act_offset + 1 ELSE s.act_offset) \in Offsets
        /\ (IF s.act_length > 1 THEN s.act_length - 1 ELSE 0) \in Lengths
        /\ (s.act_length > 1) \in BOOLEAN
    BY <2>1 DEF Queue
  <2> HIDE DEF s
  <2> QED BY <1>2, <2>1, <2>2, <2>3 DEF com_read_queue, Queue, s
<1> QED BY <1>1, <1>2

-----------------------------------------------------------------------------
(* The operators on the channel keep its type. *)

\* What starts or stops T200, resets numbers or plans a frame keeps its type.
LEMMA ChannelTypes ==
  ASSUME NEW c \in Channel
  PROVE  /\ set_T200_counter(c) \in Channel
         /\ Restarted(c) \in Channel
         /\ ResetNumbers(c) \in Channel
         /\ com_prepare_DISC(c) \in Channel
         /\ Retry(c) \in Channel
         /\ Establishing(c) \in Channel
         /\ \A v \in Vtx : [c EXCEPT !.vtx = v] \in Channel
         /\ \A pf \in BOOLEAN, t200 \in {"none", "stop", "start"} : Finish(c, pf, t200) \in Channel
<1> USE NumberTypes
<1>1. set_T200_counter(c) \in Channel
  BY DEF set_T200_counter, Channel
<1>2. Restarted(c) \in Channel
  BY <1>1 DEF Restarted
<1>3. ResetNumbers(c) \in Channel
  BY DEF ResetNumbers, Channel
<1>4. com_prepare_DISC(c) \in Channel /\ Establishing(c) \in Channel
  <2>1. "DISC" \in Vtx /\ "SABM" \in Vtx
    BY DEF Vtx
  <2> QED BY <2>1 DEF com_prepare_DISC, Establishing, Channel
<1>5. Retry(c) \in Channel
  <2>1. c.rc + 1 \in Retries
    BY DEF Channel
  <2> QED BY <2>1 DEF Retry, Channel
<1>6. \A v \in Vtx : [c EXCEPT !.vtx = v] \in Channel
  BY DEF Channel
<1>7. \A pf \in BOOLEAN, t200 \in {"none", "stop", "start"} : Finish(c, pf, t200) \in Channel
  BY DEF Finish, Channel
<1> QED BY <1>1, <1>2, <1>3, <1>4, <1>5, <1>6, <1>7

-----------------------------------------------------------------------------
(* Signals. *)

\* Every signal the interrupt context posts is one dl_process_signal() knows.
LEMMA SignalTypes ==
  /\ <<>> \in Seq(Signals)
  /\ \A b \in BOOLEAN, s \in Signals : When(b, s) \in Seq(Signals)
  /\ \A s \in Signals : <<s>> \in Seq(Signals)
  /\ \A s \in Seq(Signals), t \in Seq(Signals) : s \o t \in Seq(Signals)
  /\ \A s \in Seq(Signals), t \in Signals : Append(s, t) \in Seq(Signals)
  /\ \A b \in BOOLEAN : ReleaseInd(b) \in Signals /\ ReleaseCnf(b) \in Signals
  /\ EstablishInd \in Signals /\ EstablishCnf \in Signals
  /\ ErrorInd \in Signals /\ DataCnf \in Signals /\ DataInd \in Signals
  /\ \A i \in OrNone(Info) : Concatenate(i) \in Signals
<1>1. <<>> \in Seq(Signals)
  OBVIOUS
<1>2. \A s \in Signals : <<s>> \in Seq(Signals)
  OBVIOUS
<1>3. \A b \in BOOLEAN, s \in Signals : When(b, s) \in Seq(Signals)
  BY <1>1, <1>2 DEF When
<1>4. \A s \in Seq(Signals), t \in Seq(Signals) : s \o t \in Seq(Signals)
  OBVIOUS
<1>5. \A s \in Seq(Signals), t \in Signals : Append(s, t) \in Seq(Signals)
  OBVIOUS
<1>6. /\ \A b \in BOOLEAN : ReleaseInd(b) \in Signals /\ ReleaseCnf(b) \in Signals
      /\ EstablishInd \in Signals /\ EstablishCnf \in Signals
      /\ ErrorInd \in Signals /\ DataCnf \in Signals /\ DataInd \in Signals
  BY NoneTypes DEF Sig, Signals, SignalNames, ReleaseInd, ReleaseCnf, EstablishInd,
                   EstablishCnf, ErrorInd, DataCnf, DataInd
<1>7. \A i \in OrNone(Info) : Concatenate(i) \in Signals
  BY DEF Sig, Signals, SignalNames, Concatenate
<1> QED BY <1>1, <1>2, <1>3, <1>4, <1>5, <1>6, <1>7

-----------------------------------------------------------------------------
(* The inductive invariant.  ContentionHasMessage and RetriesBounded are    *)
(* stated of any channel, state and queue, because the handlers first build *)
(* these and then store them.  Contention resolution is a matter of SAPI 0: *)
(* without this the com_clear_queue of a SABM of the network for SAPI 3     *)
(* could take the message away.                                             *)

ContentionKept(c, st, q) ==
  /\ c.contention_resolution => Sapi = 0
  /\ st = "CONTENTION" /\ c.contention_resolution => q.switch_buffer # None

RetriesKept(c, st) ==
  /\ st = "CONTENTION" => c.rc <= N200Est
  /\ st = "RELEASE" /\ (c.T200_counter # T200_STOPPED \/ c.time_flag) => c.rc <= N200Est
  /\ st = "RECOVERY" => c.rc <= N200

Kept(c, st, q) == ContentionKept(c, st, q) /\ RetriesKept(c, st)

\* WaitIsSupervised, with what else ends a wait told apart: for SAPI 0 T200 is
\* never missing, a UA is a reason only in state CONTENTION.
Failing(sigs) == \E i \in DOMAIN sigs : sigs[i].name = "ERROR_IND"

Watched(c, st, disc, sigs) ==
  st \in {"CONTENTION", "RECOVERY"} =>
    \/ c.T200_counter # T200_STOPPED \/ c.time_flag
    \/ Sapi = 3 /\ (disc \/ Failing(sigs))
    \/ Sapi = 3 /\ st = "CONTENTION" /\ c.vtx = "UA"

IInv ==
  /\ TypeOK
  /\ Kept(cch, state, queue)
  /\ Watched(cch, state, disc_request, signals)

\* An ERROR_IND stays among the signals until it is the next to be handled.
LEMMA FailingStays ==
  ASSUME NEW s \in Seq(Signals), NEW t \in Seq(Signals)
  PROVE  /\ Failing(s) => Failing(s \o t)
         /\ Failing(t) => Failing(s \o t)
         /\ Failing(s) /\ Head(s).name # "ERROR_IND" => Failing(Tail(s))
<1>1. Failing(s) => Failing(s \o t)
  BY DEF Failing
<1>2. Failing(t) => Failing(s \o t)
  <2> SUFFICES ASSUME NEW i \in DOMAIN t, t[i].name = "ERROR_IND"
               PROVE  Failing(s \o t)
    BY DEF Failing
  <2>1. Len(s) + i \in DOMAIN (s \o t) /\ (s \o t)[Len(s) + i] = t[i]
    OBVIOUS
  <2> QED BY <2>1 DEF Failing
<1>3. Failing(s) /\ Head(s).name # "ERROR_IND" => Failing(Tail(s))
  <2> SUFFICES ASSUME NEW i \in DOMAIN s, s[i].name = "ERROR_IND",
                      Head(s).name # "ERROR_IND"
               PROVE  Failing(Tail(s))
    BY DEF Failing
  <2>1. i # 1 /\ s # <<>>
    OBVIOUS
  <2>2. i - 1 \in DOMAIN Tail(s) /\ Tail(s)[i - 1] = s[i]
    BY <2>1
  <2> QED BY <2>2 DEF Failing
<1> QED BY <1>1, <1>2, <1>3

\* A state that starts counting does so from 0.
LEMMA ZeroAllowed == 0 <= N200Est /\ 0 <= N200 /\ 1 <= N200
BY EntityAssumption

\* dcch0_init_dl_data() and dcch3_init_dl_data() establish it.
LEMMA InitIInv == Init => IInv
<1> SUFFICES ASSUME Init PROVE IInv
  OBVIOUS
<1> USE NumberTypes, NoneTypes, StoredTypes
<1>1. state \in States
  BY EntityAssumption DEF Init, InitialState, States
<1>2. cch \in Channel
  BY DEF Init, ClearedCch, Channel, Vtx, T200_STOPPED
<1>3. queue \in Queue
  BY DEF Init, EmptyQueue, Queue
<1>4. rel \in Release
  BY DelayTypes DEF Init, NoRelease, Release
<1>5. in_msg \in Seq(OrNone(Info)) /\ signals \in Seq(Signals) /\ disc_request \in BOOLEAN
  <2>1. <<>> \in Seq(OrNone(Info))
    OBVIOUS
  <2> QED BY <2>1, SignalTypes DEF Init
<1>6. l2_frame \in OrNone(Frame(OrNone(Msgs \cup SegmentRead)))
  BY DEF Init, OrNone
<1>7. Kept(cch, state, queue)
  BY ZeroAllowed DEF Init, ClearedCch, Kept, ContentionKept, RetriesKept, T200_STOPPED
<1>8. Watched(cch, state, disc_request, signals)
  BY EntityAssumption DEF Init, InitialState, Watched
<1> QED BY <1>1, <1>2, <1>3, <1>4, <1>5, <1>6, <1>7, <1>8 DEF IInv, TypeOK

-----------------------------------------------------------------------------
(* dl_downlink() preserves it. *)

\* What a downlink handler may make of the channel: the timer is left to
\* Finish, the retry counter is kept or reset.
Alike(c) ==
  /\ c \in Channel
  /\ c.T200_counter = cch.T200_counter /\ c.time_flag = cch.time_flag
  /\ c.rc = cch.rc \/ c.rc = 0
  /\ c.contention_resolution = cch.contention_resolution \/ ~c.contention_resolution

\* A handler that builds such a channel, and leaves the entity in its state or
\* in MFE or IDLE, or awaits the release with T200 stopped, preserves it.  It
\* must not stop T200 while an answer is awaited, unless it plans a UA of SAPI 3
\* or signals a failure of SAPI 3.
LEMMA DownlinkedStep ==
  ASSUME IInv, NEW c, Alike(c), NEW st \in States, NEW q \in Queue, NEW pf \in BOOLEAN,
         NEW t200, NEW sigs \in Seq(Signals),
         \/ st \in {state, "MFE", "IDLE"}
         \/ st = "RELEASE" /\ t200 = "stop",
         st = "RELEASE" => t200 = "stop" \/ t200 = "none",
         st = "CONTENTION" => /\ q.switch_buffer = queue.switch_buffer \/ Sapi = 3
                              /\ c.vtx = cch.vtx \/ (Sapi = 3 /\ c.vtx = "UA"),
         st \in {"CONTENTION", "RECOVERY"} /\ t200 = "stop" =>
           Sapi = 3 /\ ((st = "CONTENTION" /\ c.vtx = "UA") \/ Failing(sigs)),
         t200 \in {"none", "stop", "start"},
         Downlinked(c, st, q, pf, t200, sigs)
  PROVE  IInv'
<1>1. cch' \in Channel
  BY ChannelTypes DEF Downlinked, Alike
<1>2. signals' \in Seq(Signals)
  BY SignalTypes DEF Downlinked, Post, IInv, TypeOK
<1>3. TypeOK'
  BY <1>1, <1>2 DEF Downlinked, IInv, TypeOK, OrNone
<1>4. /\ cch'.contention_resolution = c.contention_resolution
      /\ cch'.rc = c.rc
      /\ t200 = "none" => cch'.T200_counter = c.T200_counter /\ cch'.time_flag = c.time_flag
      /\ t200 = "stop" => cch'.T200_counter = T200_STOPPED /\ cch'.time_flag = FALSE
      /\ t200 = "start" => cch'.time_flag = TRUE
      /\ cch'.vtx = c.vtx
  BY DEF Downlinked, Finish, Alike, Channel
<1>5. ContentionKept(cch', st, q)
  BY <1>4 DEF Alike, IInv, Kept, ContentionKept
<1>6. RetriesKept(cch', st)
  BY <1>4, ZeroAllowed DEF Alike, IInv, Kept, RetriesKept
<1>7. Watched(cch', st, disc_request, signals')
  <2>1. /\ Failing(signals) => Failing(signals')
        /\ Failing(sigs) => Failing(signals')
    BY FailingStays DEF Downlinked, Post, IInv, TypeOK
  <2>2. CASE t200 = "none"
    BY <1>4, <2>1, <2>2 DEF Alike, IInv, Watched
  <2>3. CASE t200 = "start"
    BY <1>4, <2>3 DEF Watched
  <2>4. CASE t200 = "stop"
    BY <1>4, <2>1, <2>4 DEF Watched
  <2> QED BY <2>2, <2>3, <2>4
<1> QED BY <1>3, <1>5, <1>6, <1>7 DEF IInv, Kept, Downlinked

\* The fields of a frame of the network.
LEMMA FrameFields ==
  ASSUME NEW f \in Frame(OrNone(Info))
  PROVE  /\ f.pf \in BOOLEAN /\ f.cmd \in BOOLEAN /\ f.m \in BOOLEAN
         /\ f.nr \in Numbers /\ f.info \in OrNone(Info)
BY DEF Frame

\* The P/F bit kept for an outstanding response is a bit.
LEMMA KeptBitType == IInv => KeptBit \in BOOLEAN
BY DEF IInv, TypeOK, Channel, KeptBit

\* The channel a handler builds from cch.
LEMMA AlikeTypes ==
  ASSUME IInv, NEW f \in Frame(OrNone(Info))
  PROVE  /\ Alike(cch)
         /\ \A v \in Vtx : Alike(Answer(v))
         /\ Alike([cch EXCEPT !.va = f.nr])
         /\ Alike([cch EXCEPT !.vs = f.nr, !.va = f.nr])
         /\ Alike(Reestablished)
         /\ Alike([Reestablished EXCEPT !.reject_exception = FALSE])
         /\ Alike(ResetNumbers(cch))
         /\ \A v \in Vtx : Alike([cch EXCEPT !.vtx = v, !.contention_resolution = FALSE])
         /\ Alike(Enquired(f))
         /\ Alike([Enquired(f) EXCEPT !.vs = f.nr, !.va = f.nr])
         /\ Alike([Enquired(f) EXCEPT !.va = f.nr])
         /\ Alike(Received(f))
<1> USE NumberTypes, FrameFields DEF IInv, TypeOK
<1>1. Alike(cch)
  BY DEF Alike
<1>2. \A v \in Vtx : Alike(Answer(v))
  BY DEF Alike, Answer, Channel
<1>3. /\ Alike([cch EXCEPT !.va = f.nr])
      /\ Alike([cch EXCEPT !.vs = f.nr, !.va = f.nr])
  BY DEF Alike, Channel
<1>4. /\ Alike(Reestablished)
      /\ Alike([Reestablished EXCEPT !.reject_exception = FALSE])
      /\ Alike(ResetNumbers(cch))
  <2>1. "UA" \in Vtx
    BY DEF Vtx
  <2> QED BY <2>1 DEF Alike, Reestablished, ResetNumbers, Channel
<1>5. \A v \in Vtx : Alike([cch EXCEPT !.vtx = v, !.contention_resolution = FALSE])
  BY DEF Alike, Channel
<1>6. Alike(Enquired(f))
  <2>1. "RR_RSP" \in Vtx
    BY DEF Vtx
  <2> QED BY <1>1, <1>2, <2>1 DEF Enquired
<1>7. /\ Alike([Enquired(f) EXCEPT !.vs = f.nr, !.va = f.nr])
      /\ Alike([Enquired(f) EXCEPT !.va = f.nr])
  BY <1>6 DEF Alike, Channel
<1>8. Alike(Received(f))
  <2>1. {"RR_RSP", "RR_CMD", "REJ"} \subseteq Vtx
    BY DEF Vtx
  <2>2. Incr(cch.vr) \in Numbers
    BY DEF Channel
  <2> QED BY <2>1, <2>2, <1>1 DEF Received, Alike, Channel
<1> QED BY <1>1, <1>2, <1>3, <1>4, <1>5, <1>6, <1>7, <1>8

\* Checking N(R) and going back for a retransmission keep a channel alike.
LEMMA AlikeChecked ==
  ASSUME IInv, NEW f \in Frame(OrNone(Info)), NEW c, Alike(c)
  PROVE  Alike(Checked(c, f)) /\ Alike(Retransmitting(c, f.nr))
<1>1. Alike(Checked(c, f))
  <2>1. "EMPTY" \in Vtx
    BY DEF Vtx
  <2> QED BY <2>1, FrameFields DEF Alike, Checked, Channel
<1>2. Alike(Retransmitting(c, f.nr))
  <2>1. Decr(c.vs) \in Numbers
    BY NumberTypes DEF Alike, Channel
  <2> QED BY <2>1 DEF Alike, Retransmitting, Channel
<1> QED BY <1>1, <1>2

\* The queue and the signals a handler builds.
LEMMA AckTypes ==
  ASSUME IInv, NEW f \in Frame(OrNone(Info))
  PROVE  /\ queue \in Queue /\ AckQueue(f) \in Queue
         /\ RetransmitQueue(queue, f.nr) \in Queue
         /\ FreeSignal(queue) \in Seq(Signals) /\ AckCnf(f) \in Seq(Signals)
         /\ ErrorSignal(f) \in Seq(Signals) /\ Segment(f) \in Seq(Signals)
         /\ \A b \in BOOLEAN : Indication(f, b) \in Seq(Signals)
         /\ SBit(f) \in BOOLEAN /\ IBit(f) \in BOOLEAN /\ Complete(f) \in BOOLEAN
         /\ AckT200(f) \in {"none", "stop", "start"}
<1>1. queue \in Queue
  BY DEF IInv, TypeOK
<1>2. AckQueue(f) \in Queue /\ RetransmitQueue(queue, f.nr) \in Queue
  BY <1>1, QueueTypes DEF AckQueue, RetransmitQueue
<1>3. FreeSignal(queue) \in Seq(Signals)
  BY SignalTypes DEF FreeSignal, SentCompletely
<1>4. AckCnf(f) \in Seq(Signals)
  BY <1>3, SignalTypes DEF AckCnf
<1>5. ErrorSignal(f) \in Seq(Signals) /\ Segment(f) \in Seq(Signals)
  BY SignalTypes, FrameFields DEF ErrorSignal, SequenceError, Segment, InOrder
<1>6. \A b \in BOOLEAN : Indication(f, b) \in Seq(Signals)
  BY SignalTypes, FrameFields DEF Indication, SequenceError
<1>7. SBit(f) \in BOOLEAN /\ IBit(f) \in BOOLEAN /\ Complete(f) \in BOOLEAN
  BY KeptBitType DEF SBit, IBit, Complete, Enquiry, InOrder
<1>8. AckT200(f) \in {"none", "stop", "start"}
  BY DEF AckT200
<1> QED BY <1>1, <1>2, <1>3, <1>4, <1>5, <1>6, <1>7, <1>8

\* downlink_idle() preserves the invariant.
LEMMA IdleStep ==
  ASSUME IInv, NEW f \in Frame(OrNone(Info)), downlink_idle(f)
  PROVE  IInv'
<1>1. state \in States /\ state \in {"DISABLED", "IDLE"} /\ "DM" \in Vtx
  BY DEF downlink_idle, IInv, TypeOK, Vtx
<1>2. Alike(cch) /\ Alike(Answer("DM")) /\ Alike(Reestablished)
  BY <1>1, AlikeTypes
<1>3. /\ queue \in Queue /\ com_restore_queue(queue, None) \in Queue
      /\ f.pf \in BOOLEAN /\ KeptBit \in BOOLEAN /\ <<>> \in Seq(Signals)
  BY AckTypes, QueueTypes, NoneTypes, FrameFields, KeptBitType, SignalTypes
<1>4. CASE Downlinked(Answer("DM"), state, queue, TRUE, "none", <<>>)
  BY <1>1, <1>2, <1>3, <1>4, DownlinkedStep
<1>5. CASE Downlinked(Answer("DM"), state, queue, f.pf, "none", <<>>)
  BY <1>1, <1>2, <1>3, <1>5, DownlinkedStep
<1>6. CASE Downlinked(Reestablished, state, com_restore_queue(queue, None), f.pf, "none", <<>>)
  BY <1>1, <1>2, <1>3, <1>6, DownlinkedStep
<1>7. CASE Ignored
  BY <1>1, <1>2, <1>3, <1>7, DownlinkedStep DEF Ignored
<1> QED BY <1>4, <1>5, <1>6, <1>7 DEF downlink_idle

\* downlink_contention_resolution() preserves it: whatever ends the wait for the
\* UA also ends contention resolution or the state.
LEMMA ContentionStep ==
  ASSUME IInv, NEW f \in Frame(OrNone(Info)), downlink_contention_resolution(f)
  PROVE  IInv'
<1>1. /\ state = "CONTENTION" /\ {"CONTENTION", "MFE", "IDLE"} \subseteq States
      /\ cch.vtx \in Vtx /\ "DM" \in Vtx
  BY DEF downlink_contention_resolution, IInv, TypeOK, Channel, States, Vtx
<1>2. /\ Alike(cch) /\ Alike(ResetNumbers(cch)) /\ Alike(Reestablished)
      /\ \A v \in Vtx : Alike([cch EXCEPT !.vtx = v, !.contention_resolution = FALSE])
  BY AlikeTypes
<1>3. /\ queue \in Queue /\ com_clear_queue(queue) \in Queue
      /\ [queue EXCEPT !.switch_buffer = None] \in Queue
      /\ f.pf \in BOOLEAN /\ KeptBit \in BOOLEAN
  BY AckTypes, QueueTypes, FrameFields, KeptBitType
<1>4. /\ <<>> \in Seq(Signals) /\ <<EstablishCnf>> \in Seq(Signals)
      /\ <<ReleaseInd(FALSE)>> \in Seq(Signals)
  BY SignalTypes
<1>5. ASSUME NEW vtx \in Vtx, NEW pf \in BOOLEAN, NotEstablished(vtx, pf)
      PROVE  IInv'
  BY <1>1, <1>2, <1>3, <1>4, <1>5, DownlinkedStep, ZenonT(40) DEF NotEstablished
<1>6. CASE Downlinked(ResetNumbers(cch), "MFE",
                      IF cch.contention_resolution THEN [queue EXCEPT !.switch_buffer = None]
                                                   ELSE queue,
                      KeptBit, "stop", <<EstablishCnf>>)
  BY <1>1, <1>2, <1>3, <1>4, <1>6, DownlinkedStep
<1>7. CASE Downlinked(Reestablished, "MFE", queue, f.pf, "stop", <<EstablishCnf>>)
  BY <1>1, <1>2, <1>3, <1>4, <1>7, DownlinkedStep
<1>8. CASE /\ Sapi = 3
           /\ Downlinked(Reestablished, state, com_clear_queue(queue), f.pf, "stop", <<>>)
  <2>1. Reestablished.vtx = "UA"
    BY <1>2 DEF Alike, IInv, TypeOK, Channel, Reestablished, ResetNumbers
  <2> QED BY <1>1, <1>2, <1>3, <1>4, <1>8, <2>1, DownlinkedStep
<1>9. CASE Ignored
  BY <1>1, <1>2, <1>3, <1>4, <1>9, DownlinkedStep DEF Ignored
<1> QED BY <1>1, <1>3, <1>5, <1>6, <1>7, <1>8, <1>9 DEF downlink_contention_resolution

\* The handlers of states MFE and RECOVERY.
LEMMA SupervisoryStep ==
  ASSUME IInv, NEW f \in Frame(OrNone(Info)), state = "MFE", downlink_mfe_supervisory(f)
  PROVE  IInv'
<1>1. state \in States
  BY DEF IInv, TypeOK
<1>2. /\ Alike(cch) /\ Alike(Checked(Enquired(f), f))
      /\ Alike([Enquired(f) EXCEPT !.vs = f.nr, !.va = f.nr])
  BY AlikeTypes, AlikeChecked
<1>3. /\ queue \in Queue /\ AckQueue(f) \in Queue /\ RetransmitQueue(queue, f.nr) \in Queue
      /\ SBit(f) \in BOOLEAN /\ KeptBit \in BOOLEAN
      /\ AckT200(f) \in {"none", "stop", "start"}
  BY AckTypes, KeptBitType
<1>4. /\ <<>> \in Seq(Signals)
      /\ AckCnf(f) \o Indication(f, FALSE) \o ErrorSignal(f) \in Seq(Signals)
      /\ Indication(f, FALSE) \o ErrorSignal(f) \in Seq(Signals)
  BY AckTypes, SignalTypes
<1>5. CASE Downlinked(Checked(Enquired(f), f), state, AckQueue(f), SBit(f), AckT200(f),
                      AckCnf(f) \o Indication(f, FALSE) \o ErrorSignal(f))
  BY <1>1, <1>2, <1>3, <1>4, <1>5, DownlinkedStep
<1>6. CASE Downlinked([Enquired(f) EXCEPT !.vs = f.nr, !.va = f.nr], state,
                      RetransmitQueue(queue, f.nr), SBit(f), "stop", <<>>)
  BY <1>1, <1>2, <1>3, <1>4, <1>6, DownlinkedStep
<1>7. CASE Downlinked(Checked(Enquired(f), f), state, queue, SBit(f), "none",
                      Indication(f, FALSE) \o ErrorSignal(f))
  BY <1>1, <1>2, <1>3, <1>4, <1>7, DownlinkedStep
<1>8. CASE Ignored
  BY <1>1, <1>2, <1>3, <1>4, <1>8, DownlinkedStep DEF Ignored
<1> QED BY <1>5, <1>6, <1>7, <1>8 DEF downlink_mfe_supervisory

\* I frames in states MFE and RECOVERY.
LEMMA InformationStep ==
  ASSUME IInv, NEW f \in Frame(OrNone(Info)),
         \/ state = "MFE" /\ downlink_mfe_information(f)
         \/ state = "RECOVERY" /\ downlink_tr_information(f)
  PROVE  IInv'
<1>1. state \in States /\ state \in {"MFE", "RECOVERY"}
  BY DEF IInv, TypeOK
<1>2. Alike(cch) /\ Alike(Checked(Received(f), f))
  BY AlikeTypes, AlikeChecked
<1>3. /\ queue \in Queue /\ AckQueue(f) \in Queue
      /\ IBit(f) \in BOOLEAN /\ KeptBit \in BOOLEAN
      /\ AckT200(f) \in {"none", "stop", "start"}
  BY AckTypes, KeptBitType
<1>4. /\ <<>> \in Seq(Signals)
      /\ Segment(f) \o AckCnf(f) \o Indication(f, Complete(f)) \o ErrorSignal(f)
           \in Seq(Signals)
      /\ Segment(f) \o Indication(f, Complete(f)) \o ErrorSignal(f) \in Seq(Signals)
  BY AckTypes, SignalTypes
<1>5. CASE /\ state = "MFE"
           /\ Downlinked(Checked(Received(f), f), state, AckQueue(f), IBit(f), AckT200(f),
                         Segment(f) \o AckCnf(f) \o Indication(f, Complete(f))
                           \o ErrorSignal(f))
  BY <1>1, <1>2, <1>3, <1>4, <1>5, DownlinkedStep
<1>6. CASE Downlinked(Checked(Received(f), f), state, queue, IBit(f), "none",
                      Segment(f) \o Indication(f, Complete(f)) \o ErrorSignal(f))
  BY <1>1, <1>2, <1>3, <1>4, <1>6, DownlinkedStep
<1>7. CASE Ignored
  BY <1>1, <1>2, <1>3, <1>4, <1>7, DownlinkedStep DEF Ignored
<1> QED BY <1>5, <1>6, <1>7 DEF downlink_mfe_information, downlink_tr_information

\* downlink_tr_supervisory().
LEMMA RecoverySupervisoryStep ==
  ASSUME IInv, NEW f \in Frame(OrNone(Info)), state = "RECOVERY", downlink_tr_supervisory(f)
  PROVE  IInv'
<1>1. state \in States /\ "MFE" \in States
  BY DEF IInv, TypeOK, States
<1>2. /\ Alike(cch) /\ Alike(Checked(Enquired(f), f))
      /\ Alike([cch EXCEPT !.va = f.nr]) /\ Alike([cch EXCEPT !.vs = f.nr, !.va = f.nr])
      /\ Alike([Enquired(f) EXCEPT !.va = f.nr])
  BY AlikeTypes, AlikeChecked
<1>3. Alike(Retransmitting(Checked(Enquired(f), f), f.nr))
  BY <1>2, AlikeChecked
<1>4. /\ queue \in Queue /\ free_sending_buffer(queue) \in Queue
      /\ RetransmitQueue(queue, f.nr) \in Queue
      /\ SBit(f) \in BOOLEAN /\ KeptBit \in BOOLEAN
  BY AckTypes, QueueTypes, KeptBitType
<1>5. /\ <<>> \in Seq(Signals) /\ FreeSignal(queue) \in Seq(Signals)
      /\ Indication(f, FALSE) \o ErrorSignal(f) \in Seq(Signals)
  BY AckTypes, SignalTypes
<1>6. CASE Downlinked([cch EXCEPT !.va = f.nr], "MFE", free_sending_buffer(queue), KeptBit,
                      "stop", FreeSignal(queue))
  BY <1>1, <1>2, <1>4, <1>5, <1>6, DownlinkedStep
<1>7. CASE Downlinked(Retransmitting(Checked(Enquired(f), f), f.nr), state,
                      RetransmitQueue(queue, f.nr), SBit(f), "none", <<>>)
  BY <1>1, <1>3, <1>4, <1>5, <1>7, DownlinkedStep
<1>8. CASE Downlinked(Checked(Enquired(f), f), state, queue, SBit(f), "none",
                      Indication(f, FALSE) \o ErrorSignal(f))
  BY <1>1, <1>2, <1>4, <1>5, <1>8, DownlinkedStep
<1>9. CASE Downlinked([cch EXCEPT !.vs = f.nr, !.va = f.nr], "MFE",
                      free_sending_buffer(queue), KeptBit, "stop", FreeSignal(queue))
  BY <1>1, <1>2, <1>4, <1>5, <1>9, DownlinkedStep
<1>10. CASE Downlinked([cch EXCEPT !.vs = f.nr, !.va = f.nr], "MFE",
                       IF cch.va # f.nr THEN RetransmitQueue(queue, f.nr) ELSE queue,
                       KeptBit, "stop", <<>>)
  BY <1>1, <1>2, <1>4, <1>5, <1>10, DownlinkedStep
<1>11. CASE Downlinked([Enquired(f) EXCEPT !.va = f.nr], state,
                       IF Valid(f) THEN free_sending_buffer(queue) ELSE queue, SBit(f),
                       "none", IF Valid(f) THEN FreeSignal(queue) ELSE <<>>)
  BY <1>1, <1>2, <1>4, <1>5, <1>11, DownlinkedStep
<1>12. CASE Ignored
  BY <1>1, <1>2, <1>4, <1>5, <1>12, DownlinkedStep DEF Ignored
<1> QED BY <1>6, <1>7, <1>8, <1>9, <1>10, <1>11, <1>12 DEF downlink_tr_supervisory

\* downlink_mfe_tr_unnumbered(): a DISC enters the release with T200 stopped, so
\* that a retry counter left over from timer recovery does not count there.
LEMMA UnnumberedStep ==
  ASSUME IInv, NEW f \in Frame(OrNone(Info)), state \in {"MFE", "RECOVERY"}, downlink_mfe_tr_unnumbered(f)
  PROVE  IInv'
<1>1. /\ state \in States /\ {"MFE", "RELEASE"} \subseteq States /\ "UA" \in Vtx
      /\ state # "CONTENTION" /\ state # "RELEASE"
  BY DEF IInv, TypeOK, States, Vtx
<1>2. /\ Alike(cch) /\ Alike(Answer("UA"))
      /\ Alike([Reestablished EXCEPT !.reject_exception = FALSE])
  BY <1>1, AlikeTypes
<1>3. /\ queue \in Queue /\ com_clear_queue(queue) \in Queue
      /\ f.pf \in BOOLEAN /\ KeptBit \in BOOLEAN
  BY AckTypes, QueueTypes, FrameFields, KeptBitType
<1>4. /\ <<>> \in Seq(Signals) /\ <<ErrorInd>> \in Seq(Signals)
      /\ When(state = "MFE", ErrorInd) \in Seq(Signals)
  BY SignalTypes
<1>5. CASE Downlinked([Reestablished EXCEPT !.reject_exception = FALSE], "MFE",
                      IF Sapi = 3 THEN com_clear_queue(queue) ELSE queue, f.pf, "stop", <<>>)
  BY <1>1, <1>2, <1>3, <1>4, <1>5, DownlinkedStep, ZenonT(40)
<1>6. CASE Downlinked(Answer("UA"), "RELEASE", queue, KeptBit, "stop", <<>>)
  BY <1>1, <1>2, <1>3, <1>4, <1>6, DownlinkedStep
<1>7. CASE /\ Sapi = 3
           /\ Downlinked(cch, state, com_clear_queue(queue), KeptBit, "stop", <<ErrorInd>>)
  <2>1. Failing(<<ErrorInd>>)
    BY DEF Failing, ErrorInd, Sig
  <2> QED BY <1>1, <1>2, <1>3, <1>4, <1>7, <2>1, DownlinkedStep
<1>8. CASE Downlinked(cch, state, queue, KeptBit, "none", <<ErrorInd>>)
  BY <1>1, <1>2, <1>3, <1>4, <1>8, DownlinkedStep
<1>9. CASE Downlinked(cch, state, queue, KeptBit, "none", When(state = "MFE", ErrorInd))
  BY <1>1, <1>2, <1>3, <1>4, <1>9, DownlinkedStep
<1>10. CASE Ignored
  BY <1>1, <1>2, <1>3, <1>4, <1>10, DownlinkedStep DEF Ignored
<1> QED BY <1>5, <1>6, <1>7, <1>8, <1>9, <1>10 DEF downlink_mfe_tr_unnumbered

\* downlink_awaiting_release().
LEMMA ReleaseStep ==
  ASSUME IInv, NEW f \in Frame(OrNone(Info)), downlink_awaiting_release(f)
  PROVE  IInv'
<1>1. /\ state = "RELEASE" /\ {"RELEASE", "IDLE"} \subseteq States
      /\ {"DM", "UA"} \subseteq Vtx
  BY DEF downlink_awaiting_release, States, Vtx
<1>2. Alike(cch) /\ Alike(Answer("UA")) /\ Alike(Answer("DM"))
  BY <1>1, AlikeTypes
<1>3. queue \in Queue /\ f.pf \in BOOLEAN /\ KeptBit \in BOOLEAN
  BY AckTypes, FrameFields, KeptBitType
<1>4. /\ <<>> \in Seq(Signals) /\ <<ReleaseCnf(TRUE)>> \in Seq(Signals)
      /\ <<ReleaseCnf(FALSE)>> \in Seq(Signals)
  BY SignalTypes
<1>5. CASE Downlinked(Answer("DM"), "IDLE", queue, f.pf, "stop", <<ReleaseCnf(FALSE)>>)
  BY <1>1, <1>2, <1>3, <1>4, <1>5, DownlinkedStep
<1>6. CASE Downlinked(Answer("UA"), state, queue, KeptBit, "stop", <<>>)
  BY <1>1, <1>2, <1>3, <1>4, <1>6, DownlinkedStep
<1>7. CASE Downlinked(cch, "IDLE", queue, KeptBit, "stop", <<ReleaseCnf(TRUE)>>)
  BY <1>1, <1>2, <1>3, <1>4, <1>7, DownlinkedStep
<1>8. CASE Ignored
  BY <1>1, <1>2, <1>3, <1>4, <1>8, DownlinkedStep DEF Ignored
<1> QED BY <1>5, <1>6, <1>7, <1>8 DEF downlink_awaiting_release

\* dl_downlink(), any frame in any state.
LEMMA DownlinkStep ==
  ASSUME IInv, NEW f \in Frame(OrNone(Info)), dl_downlink(f)
  PROVE  IInv'
<1>1. CASE downlink_mfe(f)
  BY <1>1, SupervisoryStep, InformationStep, UnnumberedStep DEF downlink_mfe
<1>2. CASE downlink_timer_recovery(f)
  BY <1>2, RecoverySupervisoryStep, InformationStep, UnnumberedStep
     DEF downlink_timer_recovery
<1> QED BY <1>1, <1>2, IdleStep, ContentionStep, ReleaseStep DEF dl_downlink

-----------------------------------------------------------------------------
(* dl_uplink() preserves it. *)

Infos == OrNone(Msgs \cup SegmentRead)

\* The frames the uplink handlers build.
LEMMA SentTypes ==
  /\ \A t \in Types, cmd \in BOOLEAN, pf \in BOOLEAN, info \in Infos :
       UFrame(t, cmd, pf, info) \in Frame(Infos)
  /\ \A t \in Types, nr \in Numbers, pf \in BOOLEAN : SResponse(t, nr, pf) \in Frame(Infos)
  /\ \A ns \in Numbers, nr \in Numbers, pf \in BOOLEAN, q \in Queue :
       ICommand(ns, nr, pf, q) \in Frame(Infos)
  /\ \A t \in Types, pf \in BOOLEAN : UResponse(t, pf) \in Frame(Infos)
  /\ None \in Infos /\ \A m \in OrNone(Msgs) : m \in Infos
<1>1. None \in Infos /\ (\A m \in OrNone(Msgs) : m \in Infos)
  BY DEF Infos, OrNone
<1>2. \A t \in Types, cmd \in BOOLEAN, pf \in BOOLEAN, info \in Infos :
        UFrame(t, cmd, pf, info) \in Frame(Infos)
  BY NumberTypes DEF UFrame, Frame
<1>3. \A t \in Types, nr \in Numbers, pf \in BOOLEAN : SResponse(t, nr, pf) \in Frame(Infos)
  BY <1>1, NumberTypes DEF SResponse, UFrame, Frame
<1>4. \A ns \in Numbers, nr \in Numbers, pf \in BOOLEAN, q \in Queue :
        ICommand(ns, nr, pf, q) \in Frame(Infos)
  <2> TAKE ns \in Numbers, nr \in Numbers, pf \in BOOLEAN, q \in Queue
  <2>1. q.transmit_buffer \in Infos /\ q.m_bit \in BOOLEAN
    BY DEF Queue, Infos, OrNone
  <2>2. "I" \in Types
    BY DEF Types
  <2> QED BY <2>1, <2>2 DEF ICommand, Frame
<1>5. \A t \in Types, pf \in BOOLEAN : UResponse(t, pf) \in Frame(Infos)
  BY <1>1, <1>2 DEF UResponse
<1> QED BY <1>1, <1>2, <1>3, <1>4, <1>5

\* The delayed DL_RELEASE_IND keeps its type.
LEMMA ReleaseTypes ==
  ASSUME IInv
  PROVE  /\ RelTick \in Release /\ RelPending \in Release /\ RelHandled \in Release
         /\ rel \in Release /\ NoRelease \in Release /\ RelSignal \in Seq(Signals)
<1>1. rel \in Release
  BY DEF IInv, TypeOK
<1>2. RelTick \in Release
  BY <1>1, DelayTypes DEF RelTick, Release
<1>3. RelPending \in Release
  BY <1>2, DelayTypes DEF RelPending, Release
<1>4. NoRelease \in Release /\ RelHandled \in Release
  BY <1>1, DelayTypes DEF NoRelease, RelHandled, Release
<1>5. RelSignal \in Seq(Signals)
  BY <1>1, SignalTypes DEF RelSignal, Release
<1> QED BY <1>1, <1>2, <1>3, <1>4, <1>5

\* A channel, state and queue that may be stored.
Sound(c, st, q) == c \in Channel /\ st \in States /\ q \in Queue /\ Kept(c, st, q)
Good(c, st, q)  == Sound(c, st, q) /\ Watched(c, st, disc_request, signals)

\* What else an opportunity does: a release asked for of SAPI 3 stays so.
Rest ==
  /\ disc_request' \in BOOLEAN /\ (Sapi = 3 /\ disc_request => disc_request')
  /\ rel' \in Release
  /\ UNCHANGED in_msg

\* Storing such a channel, state and queue at an opportunity preserves the
\* invariant.
LEMMA UplinkedStep ==
  ASSUME IInv, Rest, NEW c, NEW st, NEW q, Good(c, st, q),
         NEW frame \in OrNone(Frame(Infos)), NEW sigs \in Seq(Signals),
         Uplinked(c, st, q, frame, sigs)
  PROVE  IInv'
<1>1. /\ RelSignal \o sigs \in Seq(Signals) /\ signals \in Seq(Signals)
      /\ signals' = signals \o (RelSignal \o sigs) /\ signals' \in Seq(Signals)
  BY ReleaseTypes, SignalTypes DEF Uplinked, Post, IInv, TypeOK
<1>2. TypeOK'
  BY <1>1 DEF Uplinked, IInv, TypeOK, Good, Sound, Rest, Infos
<1>3. Failing(signals) => Failing(signals')
  BY <1>1, FailingStays
<1>4. Watched(c, st, disc_request', signals')
  BY <1>3 DEF Good, Rest, Watched
<1> QED BY <1>2, <1>4 DEF Uplinked, IInv, Good, Sound

\* So it does when a frame is sent,
LEMMA SendsStep ==
  ASSUME IInv, Rest, NEW c, NEW st, NEW q, Good(c, st, q),
         NEW frame \in Frame(Infos), NEW sigs \in Seq(Signals),
         st = "CONTENTION" => c.vtx # "UA",
         Sends(c, st, q, frame, sigs)
  PROVE  IInv'
<1>1. [c EXCEPT !.vtx = "EMPTY"] \in Channel
  BY ChannelTypes DEF Good, Sound, Vtx
<1>2. /\ Kept([c EXCEPT !.vtx = "EMPTY"], st, q)
      /\ Watched([c EXCEPT !.vtx = "EMPTY"], st, disc_request, signals)
  BY DEF Good, Sound, Channel, Kept, ContentionKept, RetriesKept, Watched
<1>3. Good([c EXCEPT !.vtx = "EMPTY"], st, q)
  BY <1>1, <1>2 DEF Good, Sound
<1>4. frame \in OrNone(Frame(Infos))
  BY DEF OrNone
<1> QED BY <1>3, <1>4, UplinkedStep DEF Sends

\* or a dummy frame.
LEMMA DummyStep ==
  ASSUME IInv, Rest, NEW c, NEW st, Good(c, st, queue), NEW sigs \in Seq(Signals),
         Dummy(c, st, sigs)
  PROVE  IInv'
<1>1. None \in OrNone(Frame(Infos))
  BY DEF OrNone
<1> QED BY <1>1, UplinkedStep DEF Dummy

\* Starting T200 does not disturb the retry counters.
LEMMA RestartedGood ==
  ASSUME NEW c, NEW st, NEW q, Good(c, st, q)
  PROVE  Good(Restarted(c), st, q)
<1>1. Restarted(c) \in Channel /\ T200Count # T200_STOPPED
  BY ChannelTypes, EntityAssumption DEF Good, Sound, T200_STOPPED, T200_ACTIVE
<1>2. /\ Restarted(c).contention_resolution = c.contention_resolution
      /\ Restarted(c).rc = c.rc /\ Restarted(c).vtx = c.vtx
      /\ c.time_flag => Restarted(c).T200_counter = T200Count
      /\ c.time_flag \/ (/\ Restarted(c).T200_counter = c.T200_counter
                         /\ Restarted(c).time_flag = c.time_flag)
  BY DEF Good, Sound, Channel, Restarted, set_T200_counter
<1>3. Kept(Restarted(c), st, q)
  BY <1>2 DEF Good, Sound, Kept, ContentionKept, RetriesKept
<1>4. Watched(Restarted(c), st, disc_request, signals)
  BY <1>1, <1>2 DEF Good, Watched
<1> QED BY <1>1, <1>3, <1>4 DEF Good, Sound

\* Counting T200 down does not stop it.
LEMMA TickedGood ==
  ASSUME IInv
  PROVE  Good(Ticked, state, queue) /\ Good(cch, state, queue)
<1>1. Good(cch, state, queue)
  BY DEF IInv, TypeOK, Good, Sound
<1>2. Ticked \in Channel
  BY <1>1, NumberTypes DEF Ticked, Good, Sound, Channel
<1>3. /\ Ticked.contention_resolution = cch.contention_resolution
      /\ Ticked.rc = cch.rc /\ Ticked.time_flag = cch.time_flag
      /\ Ticked.vtx = cch.vtx
      /\ Ticked.T200_counter # T200_STOPPED <=> cch.T200_counter # T200_STOPPED
  BY <1>1 DEF Ticked, Good, Sound, Channel, T200Range, T200_STOPPED, T200_ACTIVE
<1>4. Kept(Ticked, state, queue)
  BY <1>1, <1>3 DEF Good, Sound, Kept, ContentionKept, RetriesKept
<1>5. Watched(Ticked, state, disc_request, signals)
  BY <1>1, <1>3 DEF Good, Watched
<1> QED BY <1>1, <1>2, <1>4, <1>5 DEF Good, Sound

\* The entity a T200 expiry leaves.
GoodEntity(e) == Good(e.c, e.st, queue) /\ e.sigs \in Seq(Signals)

\* T200_expiry() counts a repetition only below the limit.
LEMMA T200_expiryGood ==
  ASSUME IInv, NEW c, Good(c, state, queue), c.T200_counter = T200_EXPIRED
  PROVE  GoodEntity(T200_expiry(c))
<1> DEFINE e == T200_expiry(c)
<1>1. /\ c \in Channel /\ state \in States /\ queue \in Queue /\ Kept(c, state, queue)
      /\ {"IDLE", "RECOVERY"} \subseteq States /\ {"SABM", "DISC", "EMPTY"} \subseteq Vtx
      /\ c.T200_counter # T200_STOPPED
  BY DEF Good, Sound, States, Vtx, T200_EXPIRED, T200_STOPPED
<1>2. /\ <<>> \in Seq(Signals) /\ <<ErrorInd>> \in Seq(Signals)
      /\ <<ReleaseCnf(TRUE)>> \in Seq(Signals)
  BY SignalTypes
<1>3. /\ Retry(c) \in Channel /\ Retry(c).rc = c.rc + 1 /\ Retry(c).time_flag
      /\ Retry(c).contention_resolution = c.contention_resolution
      /\ c.rc \in Nat /\ N200 \in Nat /\ N200Est \in Nat
  BY <1>1, ChannelTypes, EntityAssumption DEF Retry, Channel, Retries
<1>4. ASSUME NEW d \in Channel, NEW st \in States, NEW sigs \in Seq(Signals),
             Kept(d, st, queue), st \in {"CONTENTION", "RECOVERY"} => d.time_flag \/ d = c,
             e = [c |-> d, st |-> st, sigs |-> sigs]
      PROVE  GoodEntity(e)
  <2>1. Good(d, st, queue)
    BY <1>1, <1>4 DEF Good, Sound, Watched
  <2> HIDE DEF e
  <2> QED BY <1>4, <2>1 DEF GoodEntity
<1>5. CASE state = "CONTENTION" /\ Exhausted(c, N200Est)
  <2> DEFINE d == [c EXCEPT !.contention_resolution = FALSE]
             sigs == <<ErrorInd>>
  <2>1. e = [c |-> d, st |-> "IDLE", sigs |-> sigs]
    BY <1>5 DEF T200_expiry
  <2>2. d \in Channel /\ ~d.contention_resolution
    BY <1>1 DEF Channel
  <2>3. sigs \in Seq(Signals) /\ "IDLE" \in States
    BY <1>1, <1>2
  <2> HIDE DEF d, sigs
  <2>4. Kept(d, "IDLE", queue)
    BY <2>2 DEF Kept, ContentionKept, RetriesKept
  <2> QED BY <1>4, <2>1, <2>2, <2>3, <2>4
<1>6. CASE state = "CONTENTION" /\ ~Exhausted(c, N200Est)
  <2> DEFINE d == [Retry(c) EXCEPT !.vtx = "SABM"]
             sigs == <<>>
  <2>1. e = [c |-> d, st |-> state, sigs |-> sigs]
    BY <1>6 DEF T200_expiry
  <2>2. /\ d \in Channel /\ d.rc = c.rc + 1 /\ d.time_flag
        /\ d.contention_resolution = c.contention_resolution
    BY <1>1, <1>3 DEF Channel
  <2>3. sigs \in Seq(Signals) /\ state \in States
    BY <1>1, <1>2
  <2> HIDE DEF d, sigs
  <2>4. Kept(d, state, queue)
    BY <1>1, <1>3, <1>6, <2>2 DEF Exhausted, Kept, ContentionKept, RetriesKept
  <2> QED BY <1>4, <2>1, <2>2, <2>3, <2>4
<1>7. CASE state = "MFE"
  <2> DEFINE d == [c EXCEPT !.rc = 1, !.p_bit_flag = TRUE, !.time_flag = TRUE]
             sigs == <<>>
  <2>1. e = [c |-> d, st |-> "RECOVERY", sigs |-> sigs]
    BY <1>7 DEF T200_expiry
  <2>2. /\ d \in Channel /\ d.rc = 1 /\ d.time_flag
        /\ d.contention_resolution = c.contention_resolution
    BY <1>1, NumberTypes DEF Channel
  <2>3. sigs \in Seq(Signals) /\ "RECOVERY" \in States
    BY <1>1, <1>2
  <2> HIDE DEF d, sigs
  <2>4. Kept(d, "RECOVERY", queue)
    BY <1>1, ZeroAllowed, <2>2 DEF Kept, ContentionKept, RetriesKept
  <2> QED BY <1>4, <2>1, <2>2, <2>3, <2>4
<1>8. CASE state = "RECOVERY" /\ ~Exhausted(c, N200)
  <2> DEFINE d == [Retry(c) EXCEPT !.p_bit_flag = TRUE]
             sigs == <<>>
  <2>1. e = [c |-> d, st |-> state, sigs |-> sigs]
    BY <1>8 DEF T200_expiry
  <2>2. /\ d \in Channel /\ d.rc = c.rc + 1 /\ d.time_flag
        /\ d.contention_resolution = c.contention_resolution
    BY <1>3 DEF Channel
  <2>3. sigs \in Seq(Signals) /\ state \in States
    BY <1>1, <1>2
  <2> HIDE DEF d, sigs
  <2>4. Kept(d, state, queue)
    BY <1>1, <1>3, <1>8, <2>2 DEF Exhausted, Kept, ContentionKept, RetriesKept
  <2> QED BY <1>4, <2>1, <2>2, <2>3, <2>4
<1>9. CASE state = "RECOVERY" /\ Exhausted(c, N200) /\ Sapi = 0
  <2> DEFINE d == [c EXCEPT !.T200_counter = T200_STOPPED, !.time_flag = FALSE,
                            !.contention_resolution = FALSE, !.vtx = "EMPTY"]
             sigs == <<ErrorInd>>
  <2>1. e = [c |-> d, st |-> "IDLE", sigs |-> sigs]
    BY <1>9 DEF T200_expiry
  <2>2. d \in Channel /\ ~d.contention_resolution
    BY <1>1, NumberTypes DEF Channel
  <2>3. sigs \in Seq(Signals) /\ "IDLE" \in States
    BY <1>1, <1>2
  <2> HIDE DEF d, sigs
  <2>4. Kept(d, "IDLE", queue)
    BY <2>2 DEF Kept, ContentionKept, RetriesKept
  <2> QED BY <1>4, <2>1, <2>2, <2>3, <2>4
<1>10. CASE state = "RECOVERY" /\ Exhausted(c, N200) /\ Sapi = 3
  <2> DEFINE d == c
             sigs == <<ErrorInd>>
  <2>1. e = [c |-> d, st |-> state, sigs |-> sigs]
    BY <1>10 DEF T200_expiry
  <2>2. d = c
    OBVIOUS
  <2>3. sigs \in Seq(Signals) /\ state \in States
    BY <1>1, <1>2
  <2> HIDE DEF d, sigs
  <2>4. Kept(d, state, queue)
    BY <1>1, <2>2 DEF Kept, ContentionKept, RetriesKept
  <2> QED BY <1>1, <1>4, <2>1, <2>2, <2>3, <2>4
<1>11. CASE state = "RELEASE" /\ Exhausted(c, N200Est)
  <2> DEFINE d == c
             sigs == <<ReleaseCnf(TRUE)>>
  <2>1. e = [c |-> d, st |-> "IDLE", sigs |-> sigs]
    BY <1>11 DEF T200_expiry
  <2>2. d = c
    OBVIOUS
  <2>3. sigs \in Seq(Signals) /\ "IDLE" \in States
    BY <1>1, <1>2
  <2> HIDE DEF d, sigs
  <2>4. Kept(d, "IDLE", queue)
    BY <1>1, <2>2 DEF Kept, ContentionKept, RetriesKept
  <2> QED BY <1>1, <1>4, <2>1, <2>2, <2>3, <2>4
<1>12. CASE state = "RELEASE" /\ ~Exhausted(c, N200Est)
  <2> DEFINE d == [Retry(c) EXCEPT !.vtx = "DISC"]
             sigs == <<>>
  <2>1. e = [c |-> d, st |-> state, sigs |-> sigs]
    BY <1>12 DEF T200_expiry
  <2>2. /\ d \in Channel /\ d.rc = c.rc + 1 /\ d.time_flag
        /\ d.contention_resolution = c.contention_resolution
    BY <1>1, <1>3 DEF Channel
  <2>3. sigs \in Seq(Signals) /\ state \in States
    BY <1>1, <1>2
  <2> HIDE DEF d, sigs
  <2>4. Kept(d, state, queue)
    BY <1>1, <1>3, <1>12, <2>2 DEF Exhausted, Kept, ContentionKept, RetriesKept
  <2> QED BY <1>4, <2>1, <2>2, <2>3, <2>4
<1>13. CASE state \notin {"CONTENTION", "MFE", "RECOVERY", "RELEASE"}
  <2> DEFINE d == c
             sigs == <<>>
  <2>1. e = [c |-> d, st |-> state, sigs |-> sigs]
    BY <1>13 DEF T200_expiry
  <2>2. d = c
    OBVIOUS
  <2>3. sigs \in Seq(Signals) /\ state \in States
    BY <1>1, <1>2
  <2> HIDE DEF d, sigs
  <2>4. Kept(d, state, queue)
    BY <1>1, <2>2 DEF Kept, ContentionKept, RetriesKept
  <2> QED BY <1>1, <1>4, <2>1, <2>2, <2>3, <2>4
<1> QED BY <1>5, <1>6, <1>7, <1>8, <1>9, <1>10, <1>11, <1>12, <1>13, EntityAssumption

\* The entity as the state machine of an opportunity finds it.
LEMMA EntityGood ==
  ASSUME IInv
  PROVE  /\ GoodEntity([c |-> Ticked, st |-> state, sigs |-> <<>>])
         /\ GoodEntity(AfterT200(Ticked))
<1>1. GoodEntity([c |-> Ticked, st |-> state, sigs |-> <<>>])
  BY TickedGood, SignalTypes DEF GoodEntity
<1>2. CASE Ticked.T200_counter = T200_EXPIRED
  BY <1>1, <1>2, TickedGood, T200_expiryGood DEF AfterT200
<1>3. CASE Ticked.T200_counter # T200_EXPIRED
  BY <1>1, <1>3 DEF AfterT200
<1> QED BY <1>1, <1>2, <1>3

\* The handlers of the states, from the entity e; c is its channel with T200
\* started if that is due.  uplink_idle():
LEMMA uplink_idleStep ==
  ASSUME IInv, Rest, NEW e, GoodEntity(e), uplink_idle(e)
  PROVE  IInv'
<1>1. /\ Good(e.c, e.st, queue) /\ e.sigs \in Seq(Signals) /\ e.st # "CONTENTION"
      /\ Append(e.sigs, EstablishInd) \in Seq(Signals)
  BY SignalTypes DEF GoodEntity, uplink_idle
<1>2. e.c.f_bit \in BOOLEAN /\ {"UA", "DM"} \subseteq Types /\ "MFE" \in States
  BY <1>1 DEF Good, Sound, Channel, Types, States
<1>3. /\ UResponse("UA", TRUE) \in Frame(Infos) /\ UResponse("UA", e.c.f_bit) \in Frame(Infos)
      /\ UResponse("DM", e.c.f_bit \/ Sapi = 3) \in Frame(Infos)
  BY <1>2, SentTypes
<1>4. Good(e.c, "MFE", queue)
  BY <1>1, <1>2 DEF Good, Sound, Watched, Kept, ContentionKept, RetriesKept
<1>5. CASE Sends(e.c, "MFE", queue, UResponse("UA", TRUE), Append(e.sigs, EstablishInd))
  BY <1>1, <1>3, <1>4, <1>5, SendsStep
<1>6. CASE Sends(e.c, e.st, queue, UResponse("UA", e.c.f_bit), e.sigs)
  BY <1>1, <1>3, <1>6, SendsStep
<1>7. CASE Sends(e.c, e.st, queue, UResponse("DM", e.c.f_bit \/ Sapi = 3), e.sigs)
  BY <1>1, <1>3, <1>7, SendsStep
<1>8. CASE Dummy(e.c, e.st, e.sigs)
  BY <1>1, <1>8, DummyStep
<1> QED BY <1>5, <1>6, <1>7, <1>8 DEF uplink_idle

\* uplink_awaiting_establishment().
LEMMA uplink_awaiting_establishmentStep ==
  ASSUME IInv, Rest, NEW c, NEW e, GoodEntity(e), Good(c, e.st, queue),
         uplink_awaiting_establishment(c, e)
  PROVE  IInv'
<1>1. e.sigs \in Seq(Signals) /\ Append(e.sigs, EstablishCnf) \in Seq(Signals)
  BY SignalTypes DEF GoodEntity
<1>2. /\ c.f_bit \in BOOLEAN /\ {"UA", "DM", "SABM"} \subseteq Types /\ "MFE" \in States
      /\ queue.switch_buffer \in OrNone(Msgs)
  BY DEF Good, Sound, Channel, Queue, Types, States
<1>3. /\ UFrame("SABM", TRUE, TRUE,
                IF c.contention_resolution THEN queue.switch_buffer ELSE None) \in Frame(Infos)
      /\ UResponse("UA", c.f_bit) \in Frame(Infos)
      /\ UResponse("DM", c.f_bit) \in Frame(Infos)
  BY <1>2, SentTypes
<1>4. Good(c, "MFE", queue)
  BY <1>2 DEF Good, Sound, Watched, Kept, ContentionKept, RetriesKept
<1>5. CASE /\ c.vtx = "SABM"
           /\ Sends(c, e.st, queue,
                    UFrame("SABM", TRUE, TRUE,
                           IF c.contention_resolution THEN queue.switch_buffer ELSE None),
                    e.sigs)
  BY <1>1, <1>3, <1>5, SendsStep
<1>6. CASE Sends(c, "MFE", queue, UResponse("UA", c.f_bit), Append(e.sigs, EstablishCnf))
  BY <1>1, <1>3, <1>4, <1>6, SendsStep
<1>7. CASE c.vtx = "DM" /\ Sends(c, e.st, queue, UResponse("DM", c.f_bit), e.sigs)
  BY <1>1, <1>3, <1>7, SendsStep
<1>8. CASE Dummy(c, e.st, e.sigs)
  BY <1>1, <1>8, DummyStep
<1> QED BY <1>5, <1>6, <1>7, <1>8 DEF uplink_awaiting_establishment

\* UA and the supervisory responses in MFE and RECOVERY.
LEMMA RespondsStep ==
  ASSUME IInv, Rest, NEW c, NEW e, GoodEntity(e), Good(c, e.st, queue),
         e.st # "CONTENTION", Responds(c, e)
  PROVE  IInv'
<1>1. e.sigs \in Seq(Signals)
  BY DEF GoodEntity
<1>2. /\ c.f_bit \in BOOLEAN /\ c.vr \in Numbers /\ c \in Channel
      /\ {"RR", "REJ", "UA"} \subseteq Types
  BY DEF Good, Sound, Channel, Types
<1>3. Good([c EXCEPT !.f_bit_flag = FALSE], e.st, queue)
  <2>1. [c EXCEPT !.f_bit_flag = FALSE] \in Channel
    BY <1>2 DEF Channel
  <2>2. Kept([c EXCEPT !.f_bit_flag = FALSE], e.st, queue)
    BY <1>2 DEF Good, Sound, Channel, Kept, ContentionKept, RetriesKept
  <2>3. Watched([c EXCEPT !.f_bit_flag = FALSE], e.st, disc_request, signals)
    BY <1>2 DEF Good, Channel, Watched
  <2> QED BY <2>1, <2>2, <2>3 DEF Good, Sound
<1>4. /\ SResponse("RR", c.vr, TRUE) \in Frame(Infos)
      /\ UResponse("UA", c.f_bit) \in Frame(Infos)
      /\ SResponse(IF c.vtx = "REJ" THEN "REJ" ELSE "RR", c.vr, c.f_bit) \in Frame(Infos)
  BY <1>2, SentTypes
<1>5. CASE Sends([c EXCEPT !.f_bit_flag = FALSE], e.st, queue, SResponse("RR", c.vr, TRUE),
                 e.sigs)
  BY <1>1, <1>3, <1>4, <1>5, SendsStep
<1>6. CASE Sends(c, e.st, queue, UResponse("UA", c.f_bit), e.sigs)
  BY <1>1, <1>4, <1>6, SendsStep
<1>7. CASE Sends([c EXCEPT !.f_bit_flag = FALSE], e.st, queue,
                 SResponse(IF c.vtx = "REJ" THEN "REJ" ELSE "RR", c.vr, c.f_bit), e.sigs)
  BY <1>1, <1>3, <1>4, <1>7, SendsStep
<1> QED BY <1>5, <1>6, <1>7 DEF Responds

\* uplink_mfe(): new I frames.
LEMMA uplink_mfeStep ==
  ASSUME IInv, Rest, NEW c, NEW e, GoodEntity(e), Good(c, e.st, queue), uplink_mfe(c, e)
  PROVE  IInv'
<1>1. e.sigs \in Seq(Signals) /\ e.st = "MFE"
  BY DEF GoodEntity, uplink_mfe
<1>2. /\ c \in Channel /\ c.vr \in Numbers /\ c.vs \in Numbers /\ Incr(c.vs) \in Numbers
      /\ "RR" \in Types /\ queue \in Queue
  BY NumberTypes DEF Good, Sound, Channel, Types
<1>3. ASSUME MaySendI(c), NextSegmentReadable,
             LET q == com_read_queue(queue)
             IN Sends(set_T200_counter([c EXCEPT !.vs = Incr(@)]), e.st, q,
                      ICommand(c.vs, c.vr, FALSE, q), e.sigs)
      PROVE  IInv'
  <2> DEFINE q == com_read_queue(queue)
             d == set_T200_counter([c EXCEPT !.vs = Incr(@)])
  <2>1. q \in Queue
    BY <1>2, <1>3, ReadType DEF MaySendI, NextSegmentReadable
  <2>2. [c EXCEPT !.vs = Incr(@)] \in Channel
    BY <1>2 DEF Channel
  <2>3. d \in Channel
    BY <2>2, ChannelTypes
  <2>4. d.contention_resolution = c.contention_resolution
    BY <1>2, <2>2 DEF set_T200_counter, Channel
  <2>5. ICommand(c.vs, c.vr, FALSE, q) \in Frame(Infos)
    BY <1>2, <2>1, SentTypes
  <2>6. Sends(d, e.st, q, ICommand(c.vs, c.vr, FALSE, q), e.sigs)
    BY <1>3
  <2> HIDE DEF q, d
  <2>7. Good(d, e.st, q)
    BY <1>1, <2>1, <2>3, <2>4 DEF Good, Sound, Watched, Kept, ContentionKept, RetriesKept
  <2> QED BY <1>1, <2>5, <2>6, <2>7, SendsStep
<1>4. CASE Sends(c, e.st, queue, SResponse("RR", c.vr, FALSE), e.sigs)
  <2>1. SResponse("RR", c.vr, FALSE) \in Frame(Infos)
    BY <1>2, SentTypes
  <2> QED BY <1>1, <1>4, <2>1, SendsStep
<1>5. CASE Dummy(c, e.st, e.sigs)
  BY <1>1, <1>5, DummyStep
<1> QED BY <1>3, <1>4, <1>5, RespondsStep DEF uplink_mfe

\* uplink_timer_recovery(): the poll.
LEMMA uplink_timer_recoveryStep ==
  ASSUME IInv, Rest, NEW c, NEW e, GoodEntity(e), Good(c, e.st, queue),
         uplink_timer_recovery(c, e)
  PROVE  IInv'
<1>1. e.sigs \in Seq(Signals) /\ e.st = "RECOVERY"
  BY DEF GoodEntity, uplink_timer_recovery
<1>2. /\ c \in Channel /\ c.vr \in Numbers /\ c.vs \in Numbers /\ Decr(c.vs) \in Numbers
      /\ "RR" \in Types /\ queue \in Queue
  BY NumberTypes DEF Good, Sound, Channel, Types
<1>3. CASE Sends(set_T200_counter([c EXCEPT !.p_bit_flag = FALSE]), e.st, queue,
                 ICommand(Decr(c.vs), c.vr, TRUE, queue), e.sigs)
  <2> DEFINE d == set_T200_counter([c EXCEPT !.p_bit_flag = FALSE])
  <2>1. [c EXCEPT !.p_bit_flag = FALSE] \in Channel
    BY <1>2 DEF Channel
  <2>2. d \in Channel
    BY <2>1, ChannelTypes
  <2>3. /\ d.contention_resolution = c.contention_resolution /\ d.rc = c.rc
        /\ d.T200_counter # T200_STOPPED
    BY <1>2, <2>1, EntityAssumption DEF set_T200_counter, Channel, T200_ACTIVE, T200_STOPPED
  <2>4. ICommand(Decr(c.vs), c.vr, TRUE, queue) \in Frame(Infos)
    BY <1>2, SentTypes
  <2>5. Sends(d, e.st, queue, ICommand(Decr(c.vs), c.vr, TRUE, queue), e.sigs)
    BY <1>3
  <2> HIDE DEF d
  <2>6. Good(d, e.st, queue)
    BY <1>1, <2>2, <2>3 DEF Good, Sound, Watched, Kept, ContentionKept, RetriesKept
  <2> QED BY <1>1, <2>4, <2>5, <2>6, SendsStep
<1>4. CASE Sends(c, e.st, queue, SResponse("RR", c.vr, FALSE), e.sigs)
  <2>1. SResponse("RR", c.vr, FALSE) \in Frame(Infos)
    BY <1>2, SentTypes
  <2> QED BY <1>1, <1>4, <2>1, SendsStep
<1>5. CASE Dummy(c, e.st, e.sigs)
  BY <1>1, <1>5, DummyStep
<1> QED BY <1>3, <1>4, <1>5, RespondsStep DEF uplink_timer_recovery

\* uplink_awaiting_release().
LEMMA uplink_awaiting_releaseStep ==
  ASSUME IInv, Rest, NEW c, NEW e, GoodEntity(e), Good(c, e.st, queue),
         uplink_awaiting_release(c, e)
  PROVE  IInv'
<1>1. e.sigs \in Seq(Signals) /\ e.st = "RELEASE"
  BY DEF GoodEntity, uplink_awaiting_release
<1>2. {"DISC", "UA"} \subseteq Types /\ "IDLE" \in States
  BY DEF Types, States
<1>3. /\ UFrame("DISC", TRUE, TRUE, None) \in Frame(Infos)
      /\ UResponse("UA", TRUE) \in Frame(Infos)
  BY <1>2, SentTypes
<1>4. Good(c, "IDLE", queue)
  BY <1>2 DEF Good, Sound, Watched, Kept, ContentionKept, RetriesKept
<1>5. CASE Sends(c, e.st, queue, UFrame("DISC", TRUE, TRUE, None), e.sigs)
  BY <1>1, <1>3, <1>5, SendsStep
<1>6. CASE Sends(c, "IDLE", queue, UResponse("UA", TRUE), e.sigs)
  BY <1>1, <1>3, <1>4, <1>6, SendsStep
<1>7. CASE Dummy(c, e.st, e.sigs)
  BY <1>1, <1>7, DummyStep
<1> QED BY <1>5, <1>6, <1>7 DEF uplink_awaiting_release

\* dcch0_check_disc() and dcch3_check_disc(): the DISC starts counting from 0.
LEMMA check_discStep ==
  ASSUME IInv, Rest, check_disc(Ticked)
  PROVE  IInv'
<1> DEFINE d == com_prepare_DISC(Ticked)
<1>1. Ticked \in Channel /\ queue \in Queue /\ Kept(Ticked, state, queue)
  BY TickedGood DEF Good, Sound
<1>2. d \in Channel
  BY <1>1, ChannelTypes
<1>3. d.contention_resolution = Ticked.contention_resolution /\ d.rc = 0
  BY <1>1 DEF com_prepare_DISC, Channel
<1>4. "RELEASE" \in States /\ "DISC" \in Types
  BY DEF States, Types
<1>5. Sends(Restarted(d), "RELEASE", queue, UFrame("DISC", TRUE, TRUE, None), <<>>)
  BY DEF check_disc
<1> HIDE DEF d
<1>6. Good(d, "RELEASE", queue)
  BY <1>1, <1>2, <1>3, <1>4, ZeroAllowed DEF Good, Sound, Watched, Kept, ContentionKept, RetriesKept
<1>7. Good(Restarted(d), "RELEASE", queue)
  BY <1>6, RestartedGood
<1>8. UFrame("DISC", TRUE, TRUE, None) \in Frame(Infos) /\ <<>> \in Seq(Signals)
  BY <1>4, SentTypes, SignalTypes
<1> QED BY <1>5, <1>7, <1>8, SendsStep

\* dl_uplink(), with or without the DL task in the middle of a primitive.
LEMMA UplinkStep ==
  ASSUME IInv, NEW busy \in BOOLEAN, dl_uplink(busy)
  PROVE  IInv'
<1> DEFINE e == IF busy /\ state = "MFE"
                THEN [c |-> Ticked, st |-> state, sigs |-> <<>>] ELSE AfterT200(Ticked)
           c == Restarted(e.c)
<1>1. GoodEntity(e)
  BY EntityGood
<1>2. Good(c, e.st, queue)
  BY <1>1, RestartedGood DEF GoodEntity
<1>3. Rest
  <2>1. disc_request \in BOOLEAN /\ RelTick \in Release /\ RelPending \in Release
    BY ReleaseTypes DEF IInv, TypeOK
  <2>2. CASE check_disc(Ticked)
    BY <2>1, <2>2 DEF dl_uplink, check_disc, Rest
  <2>3. CASE UNCHANGED disc_request /\ rel' \in {RelTick, RelPending}
    BY <2>1, <2>3 DEF dl_uplink, Rest
  <2> QED BY <2>2, <2>3 DEF dl_uplink
<1>4. \/ check_disc(Ticked)
      \/ Dummy(e.c, e.st, e.sigs)
      \/ uplink_idle(e)
      \/ uplink_awaiting_establishment(c, e)
      \/ uplink_mfe(c, e)
      \/ uplink_timer_recovery(c, e)
      \/ uplink_awaiting_release(c, e)
  BY DEF dl_uplink, uplink_suspended
<1> HIDE DEF e, c
<1>5. CASE Dummy(e.c, e.st, e.sigs)
  BY <1>1, <1>3, <1>5, DummyStep DEF GoodEntity
<1>6. CASE uplink_idle(e)
  BY <1>1, <1>3, <1>6, uplink_idleStep
<1>7. CASE uplink_awaiting_establishment(c, e)
  BY <1>1, <1>2, <1>3, <1>7, uplink_awaiting_establishmentStep
<1>8. CASE uplink_mfe(c, e)
  BY <1>1, <1>2, <1>3, <1>8, uplink_mfeStep
<1>9. CASE uplink_timer_recovery(c, e)
  BY <1>1, <1>2, <1>3, <1>9, uplink_timer_recoveryStep
<1>10. CASE uplink_awaiting_release(c, e)
  BY <1>1, <1>2, <1>3, <1>10, uplink_awaiting_releaseStep
<1> QED BY <1>3, <1>4, <1>5, <1>6, <1>7, <1>8, <1>9, <1>10, check_discStep

\* An opportunity of SAPI 0, seen from SAPI 3.
LEMMA dcch0_uplinkStep ==
  ASSUME IInv, dcch0_uplink
  PROVE  IInv'
<1>1. Rest
  BY ReleaseTypes DEF dcch0_uplink, Rest, IInv, TypeOK
<1>2. PICK c \in {cch, Restarted(cch)} : Dummy(c, state, <<>>)
  BY DEF dcch0_uplink
<1>3. Good(c, state, queue)
  BY TickedGood, RestartedGood
<1>4. <<>> \in Seq(Signals)
  BY SignalTypes
<1> QED BY <1>1, <1>2, <1>3, <1>4, DummyStep

-----------------------------------------------------------------------------
(* The DL task preserves it. *)

\* A channel and state that are right whatever is signalled.
Safe(c, st, q) ==
  /\ Sound(c, st, q)
  /\ \A disc \in BOOLEAN, sigs \in Seq(Signals) : Watched(c, st, disc, sigs)

\* The primitive handlers store such a channel, state and queue,
LEMMA TaskStep ==
  ASSUME IInv, NEW c, NEW st, NEW q, Safe(c, st, q), NEW disc \in BOOLEAN, NEW prims,
         Task(c, st, q, disc, prims), rel' \in Release, signals' \in Seq(Signals)
  PROVE  IInv'
<1>1. TypeOK'
  BY DEF Task, IInv, TypeOK, Safe, Sound, OrNone
<1>2. Watched(c, st, disc, signals')
  BY DEF Safe
<1> QED BY <1>1, <1>2 DEF Task, IInv, Safe, Sound

\* or leave channel, state and signals as they are, or, for SAPI 3, ask for a
\* release,
LEMMA KeepStep ==
  ASSUME IInv, NEW q \in Queue, q.switch_buffer = queue.switch_buffer,
         NEW disc \in BOOLEAN, disc_request => disc, NEW prims,
         Task(cch, state, q, disc, prims), rel' \in Release, signals' \in Seq(Signals),
         UNCHANGED signals \/ disc
  PROVE  IInv'
<1>1. TypeOK'
  BY DEF Task, IInv, TypeOK, OrNone
<1>2. Kept(cch, state, q)
  BY DEF IInv, Kept, ContentionKept
<1>3. Watched(cch, state, disc, signals')
  BY EntityAssumption DEF IInv, Watched
<1> QED BY <1>1, <1>2, <1>3 DEF Task, IInv

\* or initialise the entity, which makes it as at the start, up to a delayed release.
LEMMA InitStep ==
  ASSUME IInv, NEW prims, NEW r \in Release, TaskInit(prims, r), signals' \in Seq(Signals)
  PROVE  IInv'
<1>1. cch' \in Channel
  BY NumberTypes DEF TaskInit, init_dl_data, ClearedCch, Channel, Vtx, T200_STOPPED
<1>2. state' \in States
  BY EntityAssumption DEF TaskInit, init_dl_data, InitialState, States
<1>3. queue' \in Queue
  BY QueueTypes DEF TaskInit, init_dl_data, IInv, TypeOK
<1>4. rel' \in Release /\ disc_request' \in BOOLEAN
  BY ReleaseTypes DEF TaskInit, init_dl_data
<1>5. in_msg' \in Seq(OrNone(Info))
  <2>1. <<>> \in Seq(OrNone(Info))
    OBVIOUS
  <2> QED BY <2>1 DEF TaskInit, init_dl_data
<1>6. TypeOK'
  BY <1>1, <1>2, <1>3, <1>4, <1>5 DEF TaskInit, TypeOK, OrNone
<1>7. Kept(cch', state', queue')
  BY ZeroAllowed DEF TaskInit, init_dl_data, ClearedCch, T200_STOPPED, Kept, ContentionKept,
                     RetriesKept
<1>8. Watched(cch', state', disc_request', signals')
  BY EntityAssumption DEF TaskInit, init_dl_data, InitialState, Watched
<1> QED BY <1>6, <1>7, <1>8 DEF IInv

\* The channels the handlers build.
LEMMA TaskChannels ==
  ASSUME IInv
  PROVE  /\ Safe(com_prepare_DISC(cch), "RELEASE", queue)
         /\ state = "RELEASE" =>
              Safe([cch EXCEPT !.T200_counter = T200_STOPPED], state, queue)
         /\ \A q \in Queue : Safe(Reestablishing, "CONTENTION", q)
         /\ \A q \in Queue : Sapi = 3 => Safe(Establishing(cch), "CONTENTION", q)
         /\ \A q \in Queue, b \in BOOLEAN :
              Sapi = 0 /\ (b => q.switch_buffer # None) =>
                Safe(Establishing([cch EXCEPT !.contention_resolution = b]), "CONTENTION", q)
         /\ Safe([cch EXCEPT !.T200_counter = T200_STOPPED, !.time_flag = FALSE,
                             !.contention_resolution = FALSE], "SUSPENDED", queue)
         /\ disc_request \in BOOLEAN /\ queue \in Queue
<1>1. /\ cch \in Channel /\ state \in States /\ queue \in Queue /\ Kept(cch, state, queue)
      /\ disc_request \in BOOLEAN
  BY DEF IInv, TypeOK
<1>2. {"RELEASE", "CONTENTION", "SUSPENDED"} \subseteq States /\ "SABM" \in Vtx
  BY DEF States, Vtx
<1>3. Safe(com_prepare_DISC(cch), "RELEASE", queue)
  <2>1. com_prepare_DISC(cch) \in Channel
    BY <1>1, ChannelTypes
  <2>2. /\ com_prepare_DISC(cch).contention_resolution = cch.contention_resolution
        /\ com_prepare_DISC(cch).rc = 0
    BY <1>1 DEF com_prepare_DISC, Channel
  <2> QED BY <1>1, <1>2, <2>1, <2>2, ZeroAllowed
          DEF Safe, Sound, Watched, Kept, ContentionKept, RetriesKept
<1>4. state = "RELEASE" => Safe([cch EXCEPT !.T200_counter = T200_STOPPED], state, queue)
  <2> DEFINE d == [cch EXCEPT !.T200_counter = T200_STOPPED]
  <2>1. /\ d \in Channel /\ d.contention_resolution = cch.contention_resolution
        /\ d.rc = cch.rc /\ d.time_flag = cch.time_flag /\ d.T200_counter = T200_STOPPED
    BY <1>1, NumberTypes DEF Channel
  <2> HIDE DEF d
  <2>2. state = "RELEASE" => Safe(d, state, queue)
    BY <1>1, <2>1 DEF Safe, Sound, Watched, Kept, ContentionKept, RetriesKept
  <2> QED BY <2>2 DEF d
<1>5. ASSUME NEW q \in Queue, NEW d \in Channel, d.rc = 0, d.time_flag,
             d.contention_resolution => Sapi = 0 /\ q.switch_buffer # None
      PROVE  Safe(d, "CONTENTION", q)
  BY <1>2, <1>5, ZeroAllowed DEF Safe, Sound, Watched, Kept, ContentionKept, RetriesKept
<1>6. \A q \in Queue : Safe(Reestablishing, "CONTENTION", q)
  <2>1. Establishing(cch) \in Channel /\ Establishing(cch).rc = 0 /\ Establishing(cch).time_flag
    BY <1>1, <1>2, ChannelTypes DEF Establishing, Channel
  <2>2. /\ Reestablishing \in Channel /\ Reestablishing.rc = 0 /\ Reestablishing.time_flag
        /\ ~Reestablishing.contention_resolution
    BY <2>1, NumberTypes DEF Reestablishing, Channel
  <2> QED BY <1>5, <2>2
<1>7. \A q \in Queue : Sapi = 3 => Safe(Establishing(cch), "CONTENTION", q)
  <2>1. /\ Establishing(cch) \in Channel /\ Establishing(cch).rc = 0
        /\ Establishing(cch).time_flag
        /\ Establishing(cch).contention_resolution = cch.contention_resolution
    BY <1>1, <1>2, ChannelTypes DEF Establishing, Channel
  <2>2. Sapi = 3 => ~cch.contention_resolution
    BY <1>1 DEF Kept, ContentionKept
  <2> QED BY <1>1, <1>5, <2>1, <2>2 DEF Channel
<1>8. \A q \in Queue, b \in BOOLEAN :
        Sapi = 0 /\ (b => q.switch_buffer # None) =>
          Safe(Establishing([cch EXCEPT !.contention_resolution = b]), "CONTENTION", q)
  <2> TAKE q \in Queue, b \in BOOLEAN
  <2> HAVE Sapi = 0 /\ (b => q.switch_buffer # None)
  <2> DEFINE d == [cch EXCEPT !.contention_resolution = b]
  <2>1. d \in Channel /\ d.contention_resolution = b
    BY <1>1 DEF Channel
  <2> HIDE DEF d
  <2>2. /\ Establishing(d) \in Channel /\ Establishing(d).rc = 0 /\ Establishing(d).time_flag
        /\ Establishing(d).contention_resolution = b
    BY <1>2, <2>1, ChannelTypes DEF Establishing, Channel
  <2>3. Safe(Establishing(d), "CONTENTION", q)
    BY <1>5, <2>2
  <2> QED BY <2>3 DEF d
<1>9. Safe([cch EXCEPT !.T200_counter = T200_STOPPED, !.time_flag = FALSE,
                       !.contention_resolution = FALSE], "SUSPENDED", queue)
  <2> DEFINE d == [cch EXCEPT !.T200_counter = T200_STOPPED, !.time_flag = FALSE,
                              !.contention_resolution = FALSE]
  <2>1. d \in Channel /\ ~d.contention_resolution
    BY <1>1, NumberTypes DEF Channel
  <2> HIDE DEF d
  <2>2. Safe(d, "SUSPENDED", queue)
    BY <1>1, <1>2, <2>1 DEF Safe, Sound, Watched, Kept, ContentionKept, RetriesKept
  <2> QED BY <2>2 DEF d
<1> QED BY <1>1, <1>3, <1>4, <1>6, <1>7, <1>8, <1>9

\* DL_RELEASE_REQ, from RR or on an error: the DISC starts counting from 0.
LEMMA release_reqStep ==
  ASSUME IInv, NEW before, NEW r \in Release, release_req(before, r), signals' \in Seq(Signals)
  PROVE  IInv'
<1>1. CASE Task(cch, state, queue, TRUE, before) /\ rel' = r
  BY <1>1, TaskChannels, KeepStep
<1>2. CASE Task(com_prepare_DISC(cch), "RELEASE", queue, disc_request, before) /\ rel' = r
  BY <1>2, TaskChannels, TaskStep
<1>3. CASE /\ state = "RELEASE" /\ rel' = r
           /\ Task([cch EXCEPT !.T200_counter = T200_STOPPED], state, queue, disc_request,
                   before)
  BY <1>3, TaskChannels, TaskStep
<1>4. CASE TaskInit(Append(before, RELEASE_CNF), r)
  BY <1>4, InitStep
<1> QED BY <1>1, <1>2, <1>3, <1>4 DEF release_req

\* MDL_RELEASE_REQ.
LEMMA mdl_release_reqStep ==
  ASSUME IInv, mdl_release_req, UNCHANGED signals
  PROVE  IInv'
<1>0. signals' \in Seq(Signals)
  BY DEF IInv, TypeOK
<1>1. CASE TaskInit(<<RELEASE_CNF>>, rel)
  BY <1>0, <1>1, InitStep, ReleaseTypes
<1>2. CASE TaskInit(<<RELEASE_IND>>, RelHandled)
  BY <1>0, <1>2, InitStep, ReleaseTypes
<1>3. CASE Task(cch, state, queue, disc_request, <<>>) /\ UNCHANGED rel
  BY <1>0, <1>3, TaskChannels, KeepStep, ReleaseTypes
<1> QED BY <1>1, <1>2, <1>3 DEF mdl_release_req

\* DL_ESTABLISH_REQ: contention resolution starts only with a message.
LEMMA establish_reqStep ==
  ASSUME IInv, NEW m \in OrNone(Msgs), dcch0_establish_req(m) \/ dcch3_establish_req(m),
         UNCHANGED signals
  PROVE  IInv'
<1>0. signals' \in Seq(Signals)
  BY DEF IInv, TypeOK
<1>1. ASSUME Sapi = 0, m # None, UNCHANGED rel,
             Task(Establishing([cch EXCEPT !.contention_resolution = TRUE]), "CONTENTION",
                  [com_clear_queue(queue) EXCEPT !.switch_buffer = m], FALSE, <<>>)
      PROVE  IInv'
  <2> DEFINE q == [com_clear_queue(queue) EXCEPT !.switch_buffer = m]
  <2>1. com_clear_queue(queue) \in Queue /\ q \in Queue
    BY QueueTypes, TaskChannels
  <2>2. q.switch_buffer = m
    BY <2>1 DEF Queue
  <2>3. Task(Establishing([cch EXCEPT !.contention_resolution = TRUE]), "CONTENTION", q,
             FALSE, <<>>)
    BY <1>1
  <2> HIDE DEF q
  <2>4. Safe(Establishing([cch EXCEPT !.contention_resolution = TRUE]), "CONTENTION", q)
    BY <1>1, <2>1, <2>2, TaskChannels
  <2> QED BY <1>0, <1>1, <2>3, <2>4, TaskStep, ReleaseTypes
<1>2. com_clear_queue(queue) \in Queue
  BY QueueTypes, TaskChannels
<1>3. CASE /\ UNCHANGED rel
           /\ Task(Reestablishing, "CONTENTION", com_clear_queue(queue), disc_request, <<>>)
  BY <1>0, <1>2, <1>3, TaskChannels, TaskStep, ReleaseTypes
<1>4. CASE /\ Sapi = 3 /\ UNCHANGED rel
           /\ Task(Establishing(cch), "CONTENTION", com_clear_queue(queue), FALSE, <<>>)
  BY <1>0, <1>2, <1>4, TaskChannels, TaskStep, ReleaseTypes
<1>5. CASE Task(cch, state, queue, disc_request, <<>>) /\ UNCHANGED rel
  BY <1>0, <1>5, TaskChannels, KeepStep, ReleaseTypes
<1>6. CASE Task(cch, state, queue, disc_request, <<RELEASE_IND>>) /\ UNCHANGED rel
  BY <1>0, <1>6, TaskChannels, KeepStep, ReleaseTypes
<1> QED BY <1>1, <1>3, <1>4, <1>5, <1>6, mdl_release_reqStep
        DEF dcch0_establish_req, dcch3_establish_req

\* DL_RESUME_REQ, DL_RECONNECT_REQ and DL_SUSPEND_REQ.
LEMMA resume_suspendStep ==
  ASSUME IInv, UNCHANGED signals,
         (\E m \in Msgs : dcch0_resume_reconnect_req(m)) \/ dcch0_suspend_req
  PROVE  IInv'
<1>0. signals' \in Seq(Signals)
  BY DEF IInv, TypeOK
<1>1. ASSUME NEW m \in Msgs, Sapi = 0, UNCHANGED rel,
             Task(Establishing([cch EXCEPT !.contention_resolution = FALSE]), "CONTENTION",
                  com_restore_queue(queue, m), disc_request, <<>>)
      PROVE  IInv'
  <2>1. com_restore_queue(queue, m) \in Queue
    BY QueueTypes, NoneTypes, TaskChannels
  <2>2. Safe(Establishing([cch EXCEPT !.contention_resolution = FALSE]), "CONTENTION",
             com_restore_queue(queue, m))
    BY <1>1, <2>1, TaskChannels
  <2> QED BY <1>0, <1>1, <2>2, TaskChannels, TaskStep, ReleaseTypes
<1>2. CASE Task(cch, state, queue, disc_request, <<>>) /\ UNCHANGED rel
  BY <1>0, <1>2, TaskChannels, KeepStep, ReleaseTypes
<1>3. CASE /\ UNCHANGED rel
           /\ Task([cch EXCEPT !.T200_counter = T200_STOPPED, !.time_flag = FALSE,
                               !.contention_resolution = FALSE],
                   "SUSPENDED", queue, disc_request, <<>>)
  BY <1>0, <1>3, TaskChannels, TaskStep, ReleaseTypes
<1> QED BY <1>1, <1>2, <1>3 DEF dcch0_resume_reconnect_req, dcch0_suspend_req

\* DL_DATA_REQ.
LEMMA data_reqStep ==
  ASSUME IInv, NEW m \in Msgs, data_req(m), UNCHANGED signals
  PROVE  IInv'
<1> DEFINE q == com_store_queue(queue, m)
<1>1. q \in Queue /\ q.switch_buffer = queue.switch_buffer /\ queue \in Queue
  BY QueueTypes, TaskChannels DEF com_store_queue, Queue
<1>2. \/ Task(cch, state, q, disc_request, <<>>)
      \/ Task(cch, state, queue, disc_request, <<>>)
  BY DEF data_req
<1>3. rel' \in Release /\ signals' \in Seq(Signals) /\ disc_request \in BOOLEAN
  BY ReleaseTypes DEF data_req, IInv, TypeOK
<1> HIDE DEF q
<1> QED BY <1>1, <1>2, <1>3, KeepStep

\* Any primitive of RR.
LEMMA RRRequestStep ==
  ASSUME IInv, RRRequest
  PROVE  IInv'
<1>1. signals' \in Seq(Signals)
  BY DEF RRRequest, IInv, TypeOK
<1>2. CASE release_req(<<>>, rel)
  BY <1>1, <1>2, release_reqStep, ReleaseTypes
<1>3. CASE local_end_release
  BY <1>1, <1>3, InitStep, ReleaseTypes DEF local_end_release
<1> QED BY <1>1, <1>2, <1>3, establish_reqStep, resume_suspendStep, data_reqStep,
           mdl_release_reqStep DEF RRRequest, OrNone

\* What SAPI 0 does to SAPI 3.
LEMMA Dcch0CallsStep ==
  ASSUME IInv, Dcch0Calls
  PROVE  IInv'
<1>1. signals' \in Seq(Signals)
  BY DEF Dcch0Calls, IInv, TypeOK
<1>2. CASE dcch3_enable
  <2>1. Safe(cch, "IDLE", queue)
    BY DEF IInv, TypeOK, Safe, Sound, Watched, Kept, ContentionKept, RetriesKept, States
  <2> QED BY <1>1, <1>2, <2>1, TaskChannels, TaskStep, ReleaseTypes DEF dcch3_enable
<1>3. CASE dcch3_init
  BY <1>1, <1>3, InitStep, ReleaseTypes DEF dcch3_init
<1> QED BY <1>2, <1>3 DEF Dcch0Calls

\* Any signal, on the entity as it has become since it was posted.
LEMMA SignalStep ==
  ASSUME IInv, DLTask
  PROVE  IInv'
<1> DEFINE s == Head(signals)
<1>1. s \in Signals /\ signals' \in Seq(Signals)
  BY DEF DLTask, IInv, TypeOK
<1>2. HandleSignal(s)
  BY DEF DLTask
<1> HIDE DEF s
<1>3. ASSUME state' = state, cch' = cch, Kept(cch, state, queue'), queue' \in Queue,
             in_msg' \in Seq(OrNone(Info)), rel' \in Release, l2_frame' = None,
             disc_request' \in BOOLEAN, disc_request => disc_request',
             s.name # "ERROR_IND" \/ state \in {"DISABLED", "IDLE"}
      PROVE  IInv'
  <2>1. TypeOK' /\ Kept(cch', state', queue')
    BY <1>1, <1>3 DEF IInv, TypeOK, OrNone
  <2>2. Failing(signals) /\ s.name # "ERROR_IND" => Failing(signals')
    BY FailingStays DEF s, DLTask, IInv, TypeOK
  <2>3. Watched(cch', state', disc_request', signals')
    BY <1>3, <2>2 DEF IInv, Watched
  <2> QED BY <2>1, <2>3 DEF IInv
<1>4. /\ IInv /\ Kept(cch, state, queue) /\ queue \in Queue /\ rel \in Release
      /\ RelHandled \in Release /\ disc_request \in BOOLEAN /\ in_msg \in Seq(OrNone(Info))
  BY ReleaseTypes DEF IInv, TypeOK
<1>5. CASE TaskInit(<<RELEASE_IND>>, RelHandled)
  BY <1>1, <1>4, <1>5, InitStep
<1>6. CASE TaskInit(<<RELEASE_CNF>>, rel)
  BY <1>1, <1>4, <1>6, InitStep
<1>7. CASE release_req(<<RELEASE_IND>>, RelHandled)
  BY <1>1, <1>4, <1>7, release_reqStep
<1>8. CASE s.name \in {"ESTABLISH_IND", "ESTABLISH_CNF", "RELEASE_CNF"}
  BY <1>2, <1>3, <1>4, <1>6, <1>8 DEF HandleSignal, Handled
<1>9. CASE s.name \in {"RELEASE_IND", "ERROR_IND"}
  BY <1>2, <1>3, <1>4, <1>5, <1>7, <1>9 DEF HandleSignal, Handled
<1>10. CASE s.name = "DATA_CNF"
  <2> DEFINE q == [queue EXCEPT !.sending_buffer = None]
  <2>1. q \in Queue /\ q.switch_buffer = queue.switch_buffer
    BY <1>4, QueueTypes DEF Queue
  <2>2. queue' = q
    BY <1>2, <1>10 DEF HandleSignal
  <2> HIDE DEF q
  <2>3. Kept(cch, state, queue')
    BY <1>4, <2>1, <2>2 DEF Kept, ContentionKept
  <2> QED BY <1>2, <1>3, <1>4, <1>10, <2>1, <2>2, <2>3 DEF HandleSignal, Handled
<1>11. CASE s.name = "CONCATENATE"
  <2>1. s.seg \in OrNone(Info)
    BY <1>1 DEF Signals
  <2>2. in_msg' \in Seq(OrNone(Info))
    BY <1>2, <1>4, <1>11, <2>1 DEF HandleSignal
  <2> QED BY <1>2, <1>3, <1>4, <1>11, <2>2 DEF HandleSignal, Handled
<1>12. CASE s.name = "DATA_IND"
  <2>1. in_msg' \in Seq(OrNone(Info)) /\ disc_request' \in BOOLEAN
    <3>1. <<>> \in Seq(OrNone(Info))
      OBVIOUS
    <3> QED BY <1>2, <1>4, <1>12, <3>1 DEF HandleSignal, IsChannelRelease
  <2> QED BY <1>2, <1>3, <1>4, <1>12, <2>1 DEF HandleSignal, Handled
<1> QED BY <1>1, <1>8, <1>9, <1>10, <1>11, <1>12 DEF Signals, SignalNames

-----------------------------------------------------------------------------
(* The theorems. *)

\* The invariant is inductive.
LEMMA NextIInv == IInv /\ [Next]_vars => IInv'
<1> SUFFICES ASSUME IInv, [Next]_vars PROVE IInv'
  OBVIOUS
<1>1. CASE Downlink
  BY <1>1, DownlinkStep, EntityAssumption DEF Downlink
<1>2. CASE Uplink
  BY <1>2, UplinkStep DEF Uplink
<1>3. CASE UNCHANGED vars
  BY <1>3 DEF vars, IInv, TypeOK, Kept, ContentionKept, RetriesKept
<1> QED BY <1>1, <1>2, <1>3, dcch0_uplinkStep, Dcch0CallsStep, SignalStep, RRRequestStep
        DEF Next

\* The invariant the theorems below rest on: in whatever order the interrupt
\* context and the DL task run, the types, the message of a contention
\* resolution, the retry counter and the timer of a wait are as they should be.
THEOREM Invariance == Spec => []IInv
BY InitIInv, NextIInv, PTL DEF Spec

\* Every variable keeps its type, whatever RR asks for and whatever the network
\* sends: the sequence numbers stay modulo 8, T200 never counts below 0, and a
\* segment is only ever read from a message of the queue (com_read_queue).
THEOREM TypeCorrect == Spec => []TypeOK
<1>1. IInv => TypeOK
  BY DEF IInv
<1> QED BY <1>1, Invariance, PTL

\* While the answer to a SABM with a message is awaited, the message is in the
\* switch buffer: com_compare_L3_msg(), which does not look whether it is there,
\* always has something to compare (dl_state.c, downlink_contention_resolution).
THEOREM ContentionSafe == Spec => []ContentionHasMessage
<1>1. IInv => ContentionHasMessage
  BY DEF IInv, Kept, ContentionKept, ContentionHasMessage
<1> QED BY <1>1, Invariance, PTL

\* SABM, DISC and the poll of timer recovery are repeated at most as often as
\* N200_ESTABLISHMENT and the N200 of the channel say, whichever signals and
\* primitives come in between (T200_expiry, dl_state.c).
THEOREM RetriesSafe == Spec => []RetriesBounded
<1>1. IInv => RetriesBounded
  BY DEF IInv, Kept, RetriesKept, RetriesBounded, Timed
<1> QED BY <1>1, Invariance, PTL

\* An answer to a SABM or to a poll is never awaited with T200 stopped for good
\* (dl_uplink, T200_expiry): whichever frame, signal or primitive stops the timer
\* also ends the wait or, for SAPI 3, has a UA, a failure or a release to end it.
THEOREM WaitSupervised == Spec => []WaitIsSupervised
<1>1. IInv => WaitIsSupervised
  BY DEF IInv, Watched, Failing, WaitIsSupervised, Timed
<1> QED BY <1>1, Invariance, PTL

-----------------------------------------------------------------------------
(* The uplink queue of SAPI 3, which no DL_RESUME_REQ puts a message before. *)

\* What a step does to the queue: at most one of the operations of dl_com.c.
QueueOperation(q, new) ==
  \/ new \in {q, com_clear_queue(q), com_recover_queue(q), free_sending_buffer(q),
              [q EXCEPT !.switch_buffer = None], [q EXCEPT !.sending_buffer = None]}
  \/ new = com_restore_queue(q, None)
  \/ \E m \in Msgs : new = com_store_queue(q, m)
  \/ com_queue_awaiting_transmission(q) /\ NextSegmentReadable /\ new = com_read_queue(q)
  \/ Sapi = 0

\* dl_downlink() restores, recovers, releases or clears.
LEMMA DownlinkQueue ==
  ASSUME NEW f, dl_downlink(f)
  PROVE  QueueOperation(queue, queue')
<1>1. AckQueue(f) \in {queue, free_sending_buffer(queue)}
  BY DEF AckQueue
<1>2. RetransmitQueue(queue, f.nr) \in {queue, com_recover_queue(queue)}
  BY DEF RetransmitQueue
<1>3. CASE downlink_idle(f)
  BY <1>3 DEF downlink_idle, Downlinked, Ignored, QueueOperation
<1>4. CASE downlink_contention_resolution(f)
  BY <1>4 DEF downlink_contention_resolution, NotEstablished, Downlinked, Ignored,
              QueueOperation
<1>5. CASE downlink_mfe_supervisory(f)
  BY <1>1, <1>2, <1>5 DEF downlink_mfe_supervisory, Downlinked, Ignored, QueueOperation
<1>6. CASE downlink_mfe_information(f)
  BY <1>1, <1>6 DEF downlink_mfe_information, Downlinked, Ignored, QueueOperation
<1>7. CASE downlink_tr_supervisory(f)
  BY <1>2, <1>7 DEF downlink_tr_supervisory, Downlinked, Ignored, QueueOperation
<1>8. CASE downlink_tr_information(f)
  BY <1>8 DEF downlink_tr_information, Downlinked, Ignored, QueueOperation
<1>9. CASE downlink_mfe_tr_unnumbered(f)
  BY <1>9 DEF downlink_mfe_tr_unnumbered, Downlinked, Ignored, QueueOperation
<1>10. CASE downlink_awaiting_release(f)
  BY <1>10 DEF downlink_awaiting_release, Downlinked, Ignored, QueueOperation
<1> QED BY <1>3, <1>4, <1>5, <1>6, <1>7, <1>8, <1>9, <1>10
        DEF dl_downlink, downlink_mfe, downlink_timer_recovery

\* dl_uplink() reads.
LEMMA UplinkQueue ==
  ASSUME Uplink
  PROVE  QueueOperation(queue, queue')
<1>1. PICK busy \in BOOLEAN : dl_uplink(busy)
  BY DEF Uplink
<1> DEFINE isbusy == busy /\ state = "MFE"
           e == IF isbusy THEN [c |-> Ticked, st |-> state, sigs |-> <<>>] ELSE AfterT200(Ticked)
           c == Restarted(e.c)
<1>2. \/ check_disc(Ticked)
      \/ Dummy(e.c, e.st, e.sigs)
      \/ uplink_idle(e)
      \/ uplink_awaiting_establishment(c, e)
      \/ uplink_mfe(c, e)
      \/ uplink_timer_recovery(c, e)
      \/ uplink_awaiting_release(c, e)
      \/ uplink_suspended(e)
  BY <1>1 DEF dl_uplink
<1> HIDE DEF e, c
<1> USE DEF Sends, Dummy, Uplinked, QueueOperation
<1>3. CASE check_disc(Ticked)
  BY <1>3 DEF check_disc
<1>4. CASE Dummy(e.c, e.st, e.sigs)
  BY <1>4
<1>5. CASE uplink_idle(e)
  BY <1>5 DEF uplink_idle
<1>6. CASE uplink_awaiting_establishment(c, e)
  BY <1>6 DEF uplink_awaiting_establishment
<1>7. CASE uplink_mfe(c, e)
  BY <1>7 DEF uplink_mfe, Responds, MaySendI
<1>8. CASE uplink_timer_recovery(c, e)
  BY <1>8 DEF uplink_timer_recovery, Responds
<1>9. CASE uplink_awaiting_release(c, e)
  BY <1>9 DEF uplink_awaiting_release
<1>10. CASE uplink_suspended(e)
  BY <1>10 DEF uplink_suspended
<1> QED BY <1>2, <1>3, <1>4, <1>5, <1>6, <1>7, <1>8, <1>9, <1>10

\* The DL task stores, clears, or confirms the message that was sent.
LEMMA TaskQueue ==
  ASSUME DLTask \/ RRRequest \/ Dcch0Calls
  PROVE  QueueOperation(queue, queue')
<1> USE DEF Task, TaskInit, init_dl_data, QueueOperation
<1>1. ASSUME NEW before, NEW r, release_req(before, r)
      PROVE  QueueOperation(queue, queue')
  BY <1>1 DEF release_req
<1>2. CASE DLTask
  BY <1>1, <1>2 DEF DLTask, HandleSignal, Handled
<1>3. CASE Dcch0Calls
  BY <1>3 DEF Dcch0Calls, dcch3_enable, dcch3_init
<1>4. CASE RRRequest
  <2>1. ASSUME NEW m, dcch0_establish_req(m) \/ dcch3_establish_req(m)
        PROVE  QueueOperation(queue, queue')
    BY <2>1 DEF dcch0_establish_req, dcch3_establish_req, mdl_release_req
  <2>2. ASSUME NEW m \in Msgs, data_req(m)
        PROVE  QueueOperation(queue, queue')
    BY <2>2 DEF data_req
  <2> QED BY <1>1, <1>4, <2>1, <2>2
          DEF RRRequest, dcch0_resume_reconnect_req, dcch0_suspend_req, local_end_release,
              mdl_release_req
<1> QED BY <1>2, <1>3, <1>4

\* In whatever step, at most one operation is performed on the queue.
LEMMA OneQueueOperation ==
  ASSUME [Next]_vars
  PROVE  QueueOperation(queue, queue')
BY DownlinkQueue, UplinkQueue, TaskQueue
   DEF Next, Downlink, dcch0_uplink, Dummy, Uplinked, vars, QueueOperation

\* While a message is in the sending buffer, what is still to be read and what
\* was read are the message: after the last segment was read the offset stays
\* at it, so that com_recover_queue only has to make the length 1 again.
Segmented(q) ==
  /\ q.switch_buffer = None
  /\ q.sending_buffer # None =>
       /\ q.act_offset \in Nat
       /\ q.act_offset + (IF q.act_length = 0 THEN 1 ELSE q.act_length)
            = Segs[q.sending_buffer]
       /\ q.act_length # 0 /\ q.transmit_buffer # None => q.act_offset # 0
  /\ q.transmit_buffer # None =>
       q.transmit_buffer.k \in 1..Segs[q.transmit_buffer.msg]

\* Reading: the segment is the next one of the message.
LEMMA ReadSegmented ==
  ASSUME NEW q \in Queue, Segmented(q), com_queue_awaiting_transmission(q),
         q.act_length = 0 \/ q.sending_buffer # None
  PROVE  Segmented(com_read_queue(q))
<1> DEFINE s == NextSending(q)
           r == com_read_queue(q)
<1>1. /\ s \in Queue /\ s.sending_buffer \in Msgs /\ s.act_offset \in Nat
      /\ s.act_length \in Nat \ {0}
      /\ s.act_offset + s.act_length = Segs[s.sending_buffer]
      /\ s.switch_buffer = None
  <2>1. CASE q.act_length # 0
    BY <2>1, NoneTypes DEF NextSending, Queue, Segmented, Lengths
  <2>2. CASE q.act_length = 0
    <3>1. q.store_buffer # <<>>
      BY <2>2 DEF com_queue_awaiting_transmission, Segmented
    <3>2. Head(q.store_buffer) \in Msgs /\ Tail(q.store_buffer) \in Stored
      BY <3>1, StoredTypes DEF Queue
    <3>3. Segs[Head(q.store_buffer)] \in Nat \ {0}
      BY <3>2, EntityAssumption
    <3>4. /\ s = [q EXCEPT !.sending_buffer = Head(q.store_buffer),
                           !.store_buffer   = Tail(q.store_buffer),
                           !.act_offset     = 0,
                           !.act_length     = Segs[Head(q.store_buffer)]]
          /\ Head(q.store_buffer) \in OrNone(Msgs)
          /\ 0 \in Offsets /\ Segs[Head(q.store_buffer)] \in Lengths
      BY <2>2, <3>2, NoneTypes, NumberTypes, LengthTypes DEF NextSending
    <3> HIDE DEF s
    <3>5. s \in Queue
      BY <3>2, <3>4 DEF Queue
    <3>6. /\ s.sending_buffer = Head(q.store_buffer) /\ s.act_offset = 0
          /\ s.act_length = Segs[Head(q.store_buffer)] /\ s.switch_buffer = None
      BY <3>4 DEF Queue, Segmented
    <3> QED BY <3>2, <3>3, <3>5, <3>6
  <2> QED BY <2>1, <2>2
<1> HIDE DEF s
<1>2. /\ r.switch_buffer = None
      /\ r.sending_buffer = s.sending_buffer
      /\ r.transmit_buffer = [msg |-> s.sending_buffer, k |-> s.act_offset + 1]
      /\ r.act_offset = IF s.act_length > 1 THEN s.act_offset + 1 ELSE s.act_offset
      /\ r.act_length = IF s.act_length > 1 THEN s.act_length - 1 ELSE 0
  BY <1>1 DEF com_read_queue, Segmented, Queue, s
<1>3. Segs[s.sending_buffer] \in Nat
  BY <1>1, EntityAssumption
<1> HIDE DEF r
<1>4. Segmented(r)
  BY <1>1, <1>2, <1>3 DEF Segmented
<1> QED BY <1>4 DEF r

\* The other operations of the queue.
LEMMA OperationSegmented ==
  ASSUME Sapi = 3, NEW q \in Queue, Segmented(q)
  PROVE  /\ Segmented(com_clear_queue(q)) /\ Segmented(com_recover_queue(q))
         /\ Segmented(free_sending_buffer(q)) /\ Segmented(com_restore_queue(q, None))
         /\ Segmented([q EXCEPT !.switch_buffer = None])
         /\ Segmented([q EXCEPT !.sending_buffer = None])
         /\ \A m \in Msgs : Segmented(com_store_queue(q, m))
<1> USE DEF Segmented, Queue
<1>1. Segmented(com_clear_queue(q))
  BY DEF com_clear_queue
<1>2. Segmented(com_recover_queue(q))
  <2>1. CASE q.sending_buffer = None
    BY <2>1 DEF com_recover_queue
  <2>2. CASE q.sending_buffer # None
    <3> DEFINE r == com_recover_queue(q)
               t == TransmitLength(q)
    <3>1. t = IF q.transmit_buffer = None THEN 0 ELSE 1
      BY DEF TransmitLength
    <3> HIDE DEF t
    <3>2. /\ r.switch_buffer = None /\ r.transmit_buffer = None
          /\ r.sending_buffer = q.sending_buffer
          /\ r.act_offset = q.act_offset - (IF q.act_length # 0 THEN t ELSE 0)
          /\ r.act_length = q.act_length + t
      BY <2>2 DEF com_recover_queue, t
    <3>3. q.act_length \in Nat /\ Segs[q.sending_buffer] \in Nat
      BY <2>2, NoneTypes, EntityAssumption DEF Lengths
    <3> HIDE DEF r
    <3>4. Segmented(r)
      BY <2>2, <3>1, <3>2, <3>3
    <3> QED BY <3>4 DEF r
  <2> QED BY <2>1, <2>2
<1>3. Segmented(free_sending_buffer(q))
  BY DEF free_sending_buffer
<1>4. Segmented(com_restore_queue(q, None))
  <2>1. q.sending_buffer # None => Segs[q.sending_buffer] \in Nat \ {0}
    BY NoneTypes, EntityAssumption
  <2> QED BY <2>1 DEF com_restore_queue
<1>5. /\ Segmented([q EXCEPT !.switch_buffer = None])
      /\ Segmented([q EXCEPT !.sending_buffer = None])
  OBVIOUS
<1>6. \A m \in Msgs : Segmented(com_store_queue(q, m))
  BY DEF com_store_queue
<1> QED BY <1>1, <1>2, <1>3, <1>4, <1>5, <1>6

\* For SAPI 3 what is sent in an I frame is a segment of its message, however
\* often the message was recovered after a REJ, taken back before a repetition,
\* or confirmed late by the DL task (com_read_queue, com_recover_queue,
\* com_restore_queue in dl_com.c).
THEOREM SegmentsSafe == Sapi = 3 => (Spec => []SegmentsExist)
<1> SUFFICES ASSUME Sapi = 3 PROVE Spec => []SegmentsExist
  OBVIOUS
<1>1. Init => Segmented(queue)
  BY DEF Init, EmptyQueue, Segmented
<1>2. IInv /\ Segmented(queue) /\ [Next]_vars => Segmented(queue)'
  <2> SUFFICES ASSUME IInv, Segmented(queue), [Next]_vars PROVE Segmented(queue)'
    OBVIOUS
  <2>1. queue \in Queue /\ Sapi # 0 /\ queue.switch_buffer = None
    BY DEF IInv, TypeOK, Segmented
  <2>2. QueueOperation(queue, queue')
    BY OneQueueOperation
  <2>3. ASSUME com_queue_awaiting_transmission(queue), NextSegmentReadable,
               queue' = com_read_queue(queue)
        PROVE  Segmented(queue')
    BY <2>1, <2>3, ReadSegmented DEF NextSegmentReadable
  <2> QED BY <2>1, <2>2, <2>3, OperationSegmented DEF QueueOperation
<1>3. Segmented(queue) => SegmentsExist
  BY DEF Segmented, SegmentsExist
<1> QED BY <1>1, <1>2, <1>3, Invariance, PTL DEF Spec

=============================================================================
