---------------------------- MODULE DlLink_proofs ----------------------------
(***************************************************************************)
(* Theorems about the link of DlLink, for all messages of both sides, all  *)
(* counters and any number of frames on their way.                         *)
(***************************************************************************)
EXTENDS DlLink, DlEntity_proofs

-----------------------------------------------------------------------------
(* Numbers modulo 8. *)

\* A window of one frame: N(R) is that of the frame outstanding or of the next.
LEMMA Modulo ==
  /\ \A v \in Numbers : /\ Incr(v) \in Numbers /\ Decr(v) \in Numbers
                        /\ Incr(v) # v /\ Decr(v) # v
                        /\ Decr(Incr(v)) = v /\ Incr(Decr(v)) = v
  /\ \A va \in Numbers : \A vs \in {va, Incr(va)} : \A nr \in {va, vs} :
       com_check_nr(va, vs, nr)
  /\ \A n \in Nat : n % 8 \in Numbers /\ (n + 1) % 8 = Incr(n % 8)
  /\ 0 \in Numbers /\ 0 % 8 = 0
<1>1. \A v \in Numbers : /\ Incr(v) \in Numbers /\ Decr(v) \in Numbers
                         /\ Incr(v) # v /\ Decr(v) # v
                         /\ Decr(Incr(v)) = v /\ Incr(Decr(v)) = v
  BY DEF Numbers, Incr, Decr
<1>2. \A va \in Numbers : \A vs \in {va, Incr(va)} : \A nr \in {va, vs} :
        com_check_nr(va, vs, nr)
  BY DEF Numbers, Incr, com_check_nr
<1>3. \A n \in Nat : n % 8 \in Numbers /\ (n + 1) % 8 = Incr(n % 8)
  BY DEF Numbers, Incr
<1>4. 0 \in Numbers /\ 0 % 8 = 0
  BY DEF Numbers
<1> QED BY <1>1, <1>2, <1>3, <1>4

-----------------------------------------------------------------------------
(* A frame of the network on a link that is up. *)

Linked      == state \in {"MFE", "RECOVERY"}
Numbered(f) == f.type \in {"I", "RR", "REJ"}
Acks(f)     == f.type \in {"RR", "REJ"}
Answering   == {"EMPTY", "SABM", "RR_CMD", "RR_RSP", "REJ"}

\* The window holds one frame, and T200 runs in state MFE while it is not
\* acknowledged, and only then.
Windowed ==
  /\ cch.vs \in {cch.va, Incr(cch.va)}
  /\ state = "MFE" => (Timed <=> cch.vs # cch.va)

\* A frame that fits: it acknowledges all or nothing new, and a supervisory
\* frame answers the last I frame, with F = 1 when that was the poll.
Fits(f) ==
  /\ Numbered(f) /\ f.nr \in {cch.va, cch.vs}
  /\ f.type = "I" => f.cmd
  /\ Acks(f) => ~f.cmd /\ f.nr = cch.vs /\ (f.pf <=> state = "RECOVERY")
  /\ f.type = "REJ" => f.pf

New(f)          == f.type = "I" /\ f.ns = cch.vr
Acknowledges(f) == IF state = "MFE" THEN f.nr = cch.vs ELSE Acks(f)

\* What the entity makes of it.
Takes(f) ==
  /\ cch'.va = f.nr /\ cch'.vs = cch.vs
  /\ cch'.vr = (IF New(f) THEN Incr(cch.vr) ELSE cch.vr)
  /\ cch'.vtx \in Answering
  /\ state' = (IF Acks(f) THEN "MFE" ELSE state)
  /\ Windowed'
  /\ queue' = (IF Acknowledges(f) THEN free_sending_buffer(queue) ELSE queue)
  /\ signals' = signals \o (When(New(f), Concatenate(f.info)) \o
                            (IF Acknowledges(f) THEN FreeSignal(queue) ELSE <<>>) \o
                            When(New(f) /\ ~f.m, DataInd))
  /\ UNCHANGED <<in_msg, disc_request, rel>>

\* What Downlinked stores.
LEMMA StoredChannel ==
  ASSUME NEW c \in Channel, NEW st, NEW q, NEW pf, NEW t200, NEW sigs,
         t200 \in {"none", "stop", "start"}, Downlinked(c, st, q, pf, t200, sigs)
  PROVE  /\ cch'.va = c.va /\ cch'.vs = c.vs /\ cch'.vr = c.vr /\ cch'.vtx = c.vtx
         /\ cch'.contention_resolution = c.contention_resolution
         /\ state' = st /\ queue' = q /\ signals' = signals \o sigs
         /\ t200 = "none" => (Timed' <=> c.T200_counter # T200_STOPPED \/ c.time_flag)
         /\ t200 = "stop" => ~Timed'
         /\ t200 = "start" => Timed'
         /\ l2_frame' = None /\ UNCHANGED <<in_msg, disc_request, rel>>
<1> USE DEF Downlinked, Post
<1>1. CASE t200 = "none"
  BY <1>1 DEF Finish, Channel, Timed
<1>2. CASE t200 = "stop"
  BY <1>2 DEF Finish, Channel, Timed
<1>3. CASE t200 = "start"
  BY <1>3 DEF Finish, Channel, Timed
<1> QED BY <1>1, <1>2, <1>3

\* Sequences of signals with nothing in them.
LEMMA NoSignals ==
  ASSUME NEW s \in Seq(Signals)
  PROVE  s \o <<>> = s /\ <<>> \o s = s
OBVIOUS

\* N(R) of a frame that fits is valid, so there is no sequence error.
LEMMA FitsIsValid ==
  ASSUME IInv, Windowed, NEW f, Fits(f)
  PROVE  /\ Valid(f) /\ ~SequenceError(f) /\ ErrorSignal(f) = <<>>
         /\ \A b \in BOOLEAN : Indication(f, b) = When(b, DataInd)
         /\ \A c : Checked(c, f) = [c EXCEPT !.va = f.nr]
<1>1. Valid(f)
  BY Modulo DEF Windowed, Fits, Valid, IInv, TypeOK, Channel
<1> QED BY <1>1 DEF SequenceError, ErrorSignal, When, Indication, Checked

\* downlink_mfe_information() and downlink_tr_information().
LEMMA TakesInformation ==
  ASSUME IInv, Windowed, Linked, NEW f \in Frame(OrNone(Info)), Fits(f), f.type = "I",
         cch.vtx \in Answering,
         \/ downlink_mfe_information(f) /\ state = "MFE"
         \/ downlink_tr_information(f) /\ state = "RECOVERY"
  PROVE  Takes(f)
<1> DEFINE c == [Received(f) EXCEPT !.va = f.nr]
           seg == When(New(f), Concatenate(f.info))
           ind == When(New(f) /\ ~f.m, DataInd)
           t200 == IF state = "MFE" THEN AckT200(f) ELSE "none"
           q == IF state = "MFE" THEN AckQueue(f) ELSE queue
           ack == IF state = "MFE" THEN AckCnf(f) ELSE <<>>
<1>1. /\ cch \in Channel /\ f.nr \in Numbers /\ f.cmd /\ ~Acks(f) /\ ~Response(f, "I")
      /\ f.m \in BOOLEAN /\ f.info \in OrNone(Info)
  BY FrameFields DEF IInv, TypeOK, Fits, Acks, Response
<1>2. Received(f) \in Channel /\ c \in Channel
  <2>1. Received(f) \in Channel
    BY AlikeTypes DEF Alike
  <2> QED BY <1>1, <2>1 DEF Channel
<1>3. /\ Received(f).vs = cch.vs /\ Received(f).va = cch.va
      /\ Received(f).T200_counter = cch.T200_counter /\ Received(f).time_flag = cch.time_flag
      /\ Received(f).vr = (IF New(f) THEN Incr(cch.vr) ELSE cch.vr)
      /\ Received(f).vtx \in Answering
  BY <1>1 DEF Received, InOrder, New, Channel, Answering
<1>4. /\ c.vs = cch.vs /\ c.va = f.nr /\ c.vr = Received(f).vr /\ c.vtx = Received(f).vtx
      /\ c.T200_counter = cch.T200_counter /\ c.time_flag = cch.time_flag
  BY <1>2, <1>3 DEF Channel
<1>5. /\ Segment(f) = seg /\ Indication(f, Complete(f)) = ind
      /\ Checked(Received(f), f) = c /\ ErrorSignal(f) = <<>>
  BY <1>1, FitsIsValid DEF Segment, New, InOrder, Complete
<1>6. /\ seg \in Seq(Signals) /\ ind \in Seq(Signals) /\ ack \in Seq(Signals)
      /\ <<>> \in Seq(Signals)
      /\ \A a, b, d \in Seq(Signals) : a \o b \o d = a \o (b \o d) /\ a \o (b \o d) \in Seq(Signals)
  <2>1. \A a, b, d \in Seq(Signals) :
          a \o b \o d = a \o (b \o d) /\ a \o (b \o d) \in Seq(Signals)
    OBVIOUS
  <2>2. <<>> \in Seq(Signals) /\ ack \in Seq(Signals)
    BY SignalTypes, AckTypes
  <2>3. seg \in Seq(Signals) /\ ind \in Seq(Signals)
    BY <1>1, SignalTypes DEF New
  <2> QED BY <2>1, <2>2, <2>3
<1>7. /\ t200 \in {"none", "stop", "start"}
      /\ Downlinked(c, state, q, IBit(f), t200, seg \o ack \o ind)
  <2> HIDE DEF c, seg, ind
  <2>1. CASE state = "MFE"
    <3>1. Downlinked(c, state, AckQueue(f), IBit(f), AckT200(f), seg \o AckCnf(f) \o ind \o <<>>)
      BY <1>1, <1>5, <2>1 DEF downlink_mfe_information
    <3>2. seg \o ack \o ind \o <<>> = seg \o ack \o ind /\ ack = AckCnf(f)
      BY <1>6, <2>1, NoSignals
    <3> QED BY <2>1, <3>1, <3>2, AckTypes
  <2>2. CASE state = "RECOVERY"
    <3>1. Downlinked(c, state, queue, IBit(f), "none", seg \o ind \o <<>>)
      BY <1>1, <1>5, <2>2 DEF downlink_tr_information
    <3>2. seg \o ind \o <<>> = seg \o ack \o ind
      <4>1. seg \o ind \in Seq(Signals)
        BY <1>6
      <4>2. seg \o <<>> = seg /\ seg \o ind \o <<>> = seg \o ind /\ ack = <<>>
        BY <1>6, <2>2, <4>1, NoSignals
      <4> QED BY <4>2
    <3> QED BY <2>2, <3>1, <3>2
  <2> QED BY <2>1, <2>2 DEF Linked
<1>8. /\ q = (IF Acknowledges(f) THEN free_sending_buffer(queue) ELSE queue)
      /\ ack = (IF Acknowledges(f) THEN FreeSignal(queue) ELSE <<>>)
      /\ state = "MFE" => t200 = (IF f.nr = cch.va THEN "none" ELSE "stop")
      /\ state = "RECOVERY" => t200 = "none"
  BY <1>1, FitsIsValid DEF Acknowledges, AckQueue, AckCnf, AcksAll, AckT200, Fits
<1>9. seg \o ack \o ind = seg \o (ack \o ind)
  <2> HIDE DEF seg, ack, ind
  <2> QED BY <1>6, Zenon
<1> HIDE DEF c, seg, ind, t200, q, ack
<1>10. /\ cch'.va = c.va /\ cch'.vs = c.vs /\ cch'.vr = c.vr /\ cch'.vtx = c.vtx
       /\ state' = state /\ queue' = q /\ signals' = signals \o (seg \o ack \o ind)
       /\ t200 = "none" => (Timed' <=> c.T200_counter # T200_STOPPED \/ c.time_flag)
       /\ t200 = "stop" => ~Timed'
       /\ UNCHANGED <<in_msg, disc_request, rel>>
  <2> DEFINE sigs == seg \o ack \o ind
             pf == IBit(f)
  <2>1. Downlinked(c, state, q, pf, t200, sigs)
    BY <1>7
  <2> HIDE DEF sigs, pf
  <2>2. /\ cch'.va = c.va /\ cch'.vs = c.vs /\ cch'.vr = c.vr /\ cch'.vtx = c.vtx
        /\ state' = state /\ queue' = q /\ signals' = signals \o sigs
        /\ t200 = "none" => (Timed' <=> c.T200_counter # T200_STOPPED \/ c.time_flag)
        /\ t200 = "stop" => ~Timed'
        /\ UNCHANGED <<in_msg, disc_request, rel>>
    BY <1>2, <1>7, <2>1, StoredChannel
  <2> QED BY <2>2 DEF sigs
<1>11. Windowed'
  <2>1. cch'.vs \in {cch'.va, Incr(cch'.va)}
    BY <1>4, <1>10 DEF Windowed, Fits
  <2>2. state' = "MFE" => (Timed' <=> cch'.vs # cch'.va)
    BY <1>4, <1>8, <1>10 DEF Windowed, Fits, Timed
  <2> QED BY <2>1, <2>2 DEF Windowed
<1>12. signals' = signals \o (seg \o ((IF Acknowledges(f) THEN FreeSignal(queue) ELSE <<>>) \o ind))
  BY <1>8, <1>9, <1>10
<1> QED BY <1>1, <1>3, <1>4, <1>8, <1>10, <1>11, <1>12 DEF Takes, seg, ind

\* downlink_mfe_supervisory() and downlink_tr_supervisory(): an answer to the
\* last I frame acknowledges all of it.
LEMMA TakesSupervisory ==
  ASSUME IInv, Windowed, Linked, NEW f \in Frame(OrNone(Info)), Fits(f), Acks(f),
         cch.vtx \in Answering,
         \/ downlink_mfe_supervisory(f) /\ state = "MFE"
         \/ downlink_tr_supervisory(f) /\ state = "RECOVERY"
  PROVE  Takes(f)
<1> DEFINE sigs == IF Acknowledges(f) THEN FreeSignal(queue) ELSE <<>>
           q == IF Acknowledges(f) THEN free_sending_buffer(queue) ELSE queue
           c == [cch EXCEPT !.va = f.nr]
<1>1. /\ cch \in Channel /\ f.nr = cch.vs /\ f.nr \in Numbers /\ ~f.cmd /\ Acknowledges(f)
      /\ f.type \in {"RR", "REJ"} /\ f.pf \in BOOLEAN /\ ~Enquiry(f)
      /\ (f.pf <=> state = "RECOVERY") /\ (f.type = "REJ" => f.pf)
      /\ ~New(f)
  BY FrameFields DEF IInv, TypeOK, Fits, Acks, Acknowledges, Enquiry, New
<1>2. /\ c \in Channel /\ c.va = cch.vs /\ c.vs = cch.vs /\ c.vr = cch.vr /\ c.vtx = cch.vtx
      /\ c.T200_counter = cch.T200_counter /\ c.time_flag = cch.time_flag
      /\ [cch EXCEPT !.vs = f.nr, !.va = f.nr] = c
  BY <1>1 DEF Channel
<1>3. Valid(f) /\ Enquired(f) = cch /\ Checked(cch, f) = c
  BY <1>1, FitsIsValid DEF Enquired
<1>4. sigs \in Seq(Signals) /\ <<>> \in Seq(Signals) /\ sigs = FreeSignal(queue)
  BY <1>1, AckTypes, SignalTypes
<1>5. q = free_sending_buffer(queue)
  BY <1>1
<1>6. \E pf, t200 :
        /\ t200 \in {"none", "stop", "start"}
        /\ Downlinked(c, "MFE", q, pf, t200, sigs)
        /\ state = "RECOVERY" => t200 = "stop"
        /\ state = "MFE" => t200 = (IF cch.vs = cch.va THEN "none" ELSE "stop")
  <2>1. CASE state = "MFE"
    <3>1. f.type = "RR" /\ AckQueue(f) = q /\ AckCnf(f) = sigs
      BY <1>1, <1>3, <1>4, <2>1 DEF AckQueue, AckCnf, AcksAll
    <3>2. Indication(f, FALSE) = <<>> /\ ErrorSignal(f) = <<>>
      BY FitsIsValid DEF When
    <3>3. AckCnf(f) \o Indication(f, FALSE) \o ErrorSignal(f) = sigs
      BY <1>4, <3>1, <3>2, NoSignals
    <3>4. Downlinked(c, "MFE", q, SBit(f), AckT200(f), sigs)
      BY <1>3, <2>1, <3>1, <3>3 DEF downlink_mfe_supervisory
    <3>5. AckT200(f) = (IF cch.vs = cch.va THEN "none" ELSE "stop")
      BY <1>1, <1>3 DEF AckT200
    <3> QED BY <2>1, <3>4, <3>5
  <2>2. CASE state = "RECOVERY"
    <3>1. Final(f) /\ f.pf
      BY <1>1, <2>2 DEF Final
    <3>2. Downlinked(c, "MFE", q, KeptBit, "stop", sigs)
      BY <1>1, <1>2, <1>3, <1>4, <1>5, <2>2, <3>1 DEF downlink_tr_supervisory
    <3> QED BY <2>2, <3>2
  <2> QED BY <2>1, <2>2 DEF Linked
<1>7. PICK pf, t200 :
        /\ t200 \in {"none", "stop", "start"}
        /\ Downlinked(c, "MFE", q, pf, t200, sigs)
        /\ state = "RECOVERY" => t200 = "stop"
        /\ state = "MFE" => t200 = (IF cch.vs = cch.va THEN "none" ELSE "stop")
  BY <1>6
<1> HIDE DEF c, q, sigs
<1>8. /\ cch'.va = c.va /\ cch'.vs = c.vs /\ cch'.vr = c.vr /\ cch'.vtx = c.vtx
      /\ state' = "MFE" /\ queue' = q /\ signals' = signals \o sigs
      /\ t200 = "none" => (Timed' <=> c.T200_counter # T200_STOPPED \/ c.time_flag)
      /\ t200 = "stop" => ~Timed'
      /\ UNCHANGED <<in_msg, disc_request, rel>>
  <2> DEFINE st == "MFE"
  <2>1. /\ Downlinked(c, st, q, pf, t200, sigs) /\ c \in Channel
        /\ t200 \in {"none", "stop", "start"}
    BY <1>2, <1>7
  <2> HIDE DEF st
  <2>2. /\ cch'.va = c.va /\ cch'.vs = c.vs /\ cch'.vr = c.vr /\ cch'.vtx = c.vtx
        /\ state' = st /\ queue' = q /\ signals' = signals \o sigs
        /\ t200 = "none" => (Timed' <=> c.T200_counter # T200_STOPPED \/ c.time_flag)
        /\ t200 = "stop" => ~Timed'
        /\ UNCHANGED <<in_msg, disc_request, rel>>
    BY <2>1, StoredChannel
  <2> QED BY <2>2 DEF st
<1>9. Windowed'
  <2>1. cch'.vs = cch'.va
    BY <1>2, <1>8
  <2>2. ~Timed'
    BY <1>2, <1>7, <1>8 DEF Windowed, Timed, Linked
  <2> QED BY <2>1, <2>2 DEF Windowed
<1>10. /\ When(New(f), Concatenate(f.info)) = <<>> /\ When(New(f) /\ ~f.m, DataInd) = <<>>
       /\ <<>> \o (sigs \o <<>>) = sigs
  BY <1>1, <1>4, NoSignals DEF When
<1>11. signals' = signals \o (When(New(f), Concatenate(f.info)) \o
                              (IF Acknowledges(f) THEN FreeSignal(queue) ELSE <<>>) \o
                              When(New(f) /\ ~f.m, DataInd))
  <2>1. <<>> \o sigs \o <<>> = sigs
    BY <1>4, NoSignals
  <2> QED BY <1>8, <1>10, <2>1 DEF sigs
<1> QED BY <1>1, <1>2, <1>8, <1>9, <1>11 DEF Takes, Acks, q

\* dl_downlink() on a link that is up, for a frame that fits.
LEMMA LinkedTakes ==
  ASSUME IInv, Windowed, Linked, NEW f \in Frame(OrNone(Info)), Fits(f),
         cch.vtx \in Answering, dl_downlink(f)
  PROVE  Takes(f) /\ l2_frame' = None
<1>1. f.type \in {"I", "RR", "REJ"} /\ state \in {"MFE", "RECOVERY"}
  BY DEF Fits, Numbered, Linked
<1>2. downlink_mfe(f) \/ downlink_timer_recovery(f)
  BY <1>1 DEF dl_downlink, downlink_idle, downlink_contention_resolution,
              downlink_awaiting_release
<1>3. ~downlink_mfe_tr_unnumbered(f)
  BY <1>1 DEF downlink_mfe_tr_unnumbered, Command, Response
<1>4. l2_frame' = None
  BY <1>2 DEF downlink_mfe, downlink_timer_recovery, downlink_mfe_supervisory,
              downlink_mfe_information, downlink_tr_supervisory, downlink_tr_information,
              downlink_mfe_tr_unnumbered, Ignored, Downlinked
<1>5. CASE Acks(f)
  <2>1. ~downlink_mfe_information(f) /\ ~downlink_tr_information(f)
    BY <1>5 DEF Acks, downlink_mfe_information, downlink_tr_information, Command, Response
  <2>2. \/ downlink_mfe_supervisory(f) /\ state = "MFE"
        \/ downlink_tr_supervisory(f) /\ state = "RECOVERY"
    BY <1>2, <1>3, <2>1 DEF downlink_mfe, downlink_timer_recovery
  <2> QED BY <1>5, <1>4, <2>2, TakesSupervisory
<1>6. CASE ~Acks(f)
  <2>1. ~downlink_mfe_supervisory(f) /\ ~downlink_tr_supervisory(f) /\ f.type = "I"
    BY <1>1, <1>6 DEF Acks, downlink_mfe_supervisory, downlink_tr_supervisory
  <2>2. \/ downlink_mfe_information(f) /\ state = "MFE"
        \/ downlink_tr_information(f) /\ state = "RECOVERY"
    BY <1>2, <1>3, <2>1 DEF downlink_mfe, downlink_timer_recovery
  <2> QED BY <1>4, <2>1, <2>2, TakesInformation
<1> QED BY <1>5, <1>6

\* A DISC of the network ends the link.
LEMMA LinkedDisc ==
  ASSUME IInv, Linked, NEW f \in Frame(OrNone(Info)), f.type = "DISC", f.cmd, dl_downlink(f)
  PROVE  /\ state' = "RELEASE" /\ cch'.vtx = "UA" /\ queue' = queue /\ signals' = signals
         /\ ~Timed' /\ UNCHANGED <<in_msg, disc_request, rel>>
<1>1. Downlinked(Answer("UA"), "RELEASE", queue, KeptBit, "stop", <<>>)
  BY DEF Linked, dl_downlink, downlink_idle, downlink_contention_resolution,
         downlink_awaiting_release, downlink_mfe, downlink_timer_recovery,
         downlink_mfe_supervisory, downlink_mfe_information, downlink_tr_supervisory,
         downlink_tr_information, downlink_mfe_tr_unnumbered, Command, Response
<1>2. /\ Answer("UA") \in Channel /\ Answer("UA").vtx = "UA"
      /\ signals \in Seq(Signals)
  BY ChannelTypes DEF IInv, TypeOK, Answer, Channel, Vtx
<1>3. /\ cch'.vtx = "UA" /\ state' = "RELEASE" /\ queue' = queue /\ signals' = signals \o <<>>
      /\ ~Timed' /\ UNCHANGED <<in_msg, disc_request, rel>>
  BY <1>1, <1>2, StoredChannel
<1> QED BY <1>2, <1>3, NoSignals

-----------------------------------------------------------------------------
(* The invariant of the link. *)

\* Frames answered in time, a network that does not ask with RR.
OnTime == Sapi = 0 /\ ~LateAnswers /\ ~NetPolls

NetState == [st : {"IDLE", "MFE", "CLOSING", "CLOSED"}, vr : Numbers, sent : Nat,
             acked : Nat, rej : BOOLEAN]

LinkType ==
  /\ net \in NetState
  /\ net.sent \in {net.acked, net.acked + 1} /\ net.sent <= Len(DownFrames)
  /\ up \in OrNone(Frame(Infos))
  /\ down \in Seq(Frame(OrNone(Info)))
  /\ state \in {"IDLE", "CONTENTION", "MFE", "RECOVERY", "RELEASE"}

\* Signals of the kinds given only, and some of them.
Only(sigs, names) == \A i \in DOMAIN sigs : sigs[i].name \in names
Some(sigs, names) == \E i \in DOMAIN sigs : sigs[i].name \in names

\* The link was never up.
FreshSignals == {"RELEASE_IND", "ERROR_IND"}
Fresh ==
  /\ state \in {"IDLE", "CONTENTION"}
  /\ ~disc_request /\ ~rel.pending
  /\ rrView \in {"DOWN", "ASKED"}
  /\ Only(signals, FreshSignals)

IsSABM == up # None /\ up.type = "SABM"

Unused ==
  /\ net.st = "IDLE" \/ state = "CONTENTION" \/ IsSABM => Fresh
  /\ net.st = "IDLE" =>
       /\ net = NetInit /\ down = <<>> /\ cch.vtx \in {"EMPTY", "SABM"}
       /\ up # None => up.type = "SABM"
  /\ IsSABM => up.info \in {None, EstMsg}

\* The I frame f has segment i of the network.
Body(f, i) ==
  f.ns = (i - 1) % 8 /\ f.info = DownFrames[i].info /\ f.m = DownFrames[i].m

\* While the SABM is not answered.
EarlyFrame(f) ==
  /\ f.type \in {"I", "UA", "DISC"}
  /\ f.type = "DISC" => f.cmd
  /\ f.type = "I" => f.cmd /\ f.nr = 0 /\ Body(f, 1) /\ DownFrames # <<>>

Awaited ==
  /\ net.st \in {"IDLE", "MFE", "CLOSING"} /\ net.vr = 0 /\ net.acked = 0
  /\ up # None => up.type = "SABM"
  /\ \A i \in DOMAIN down : EarlyFrame(down[i])
  /\ \A i \in DOMAIN down : down[i].type = "UA" =>
       /\ up = None
       /\ \A j \in DOMAIN down : i < j =>
            down[j].type # "UA" /\ (down[j].type = "I" => net.sent = 1)

Asking ==
  /\ rrView = "ASKED" /\ signals = <<>>
  /\ cch.vtx \in {"EMPTY", "SABM"}
  /\ queue.switch_buffer \in {None, EstMsg}

Contending == state = "CONTENTION" => Awaited /\ Asking

\* A frame of the mobile on a link that is up: an I frame is the one that is
\* outstanding, a command of timer recovery repeats the last one.
UpFits ==
  up # None =>
    /\ Numbered(up) /\ up.nr \in {cch.vr, net.acked % 8}
    /\ up.type = "I" =>
         IF up.pf THEN state = "RECOVERY" /\ up.ns = Decr(cch.vs)
                  ELSE /\ state = "MFE" /\ up.ns = cch.va
                       /\ cch.vs # cch.va /\ net.vr = cch.va

\* A frame of the network: an I frame has the segment that is outstanding or
\* was so until the last frame of the mobile.
Carries(f) ==
  \/ net.sent = net.acked + 1 /\ Body(f, net.sent)
  \/ up = None /\ net.acked > 0 /\ Body(f, net.acked)

DownFits(f) ==
  /\ f.type \in {"I", "RR", "REJ", "DISC"}
  /\ f.type = "DISC" => f.cmd
  /\ Numbered(f) => f.nr \in {cch.va, net.vr}
  /\ Acks(f) => /\ up = None /\ ~f.cmd /\ f.nr = net.vr /\ net.vr = cch.vs
                /\ f.pf <=> state = "RECOVERY"
                /\ f.type = "REJ" => f.pf
  /\ f.type = "I" => f.cmd /\ Carries(f)

\* Of two frames the later one acknowledges no less, and one of them at most
\* is an answer.
InSequence(f, g) ==
  Numbered(f) /\ Numbered(g) =>
    /\ f.nr = net.vr => g.nr = net.vr
    /\ ~(Acks(f) /\ Acks(g))

\* The frame that timer recovery repeats is the last I frame.
LastKept ==
  cch.vs # cch.va \/ state = "RECOVERY" =>
    /\ last # None /\ last.ns = Decr(cch.vs)
    /\ last.info = queue.transmit_buffer /\ last.m = queue.m_bit

LinkedSignals == {"ESTABLISH_CNF", "DATA_CNF", "DATA_IND", "CONCATENATE"}

Synchronised ==
  /\ net.st \in {"MFE", "CLOSING"}
  /\ net.vr \in {cch.va, cch.vs}
  /\ cch.vr \in {net.acked % 8, net.sent % 8}
  /\ UpFits
  /\ \A i \in DOMAIN down : DownFits(down[i])
  /\ \A i, j \in DOMAIN down : i < j => InSequence(down[i], down[j])

Running ==
  /\ cch.vtx \in Answering /\ Windowed /\ LastKept
  /\ ~rel.pending /\ rrView # "DOWN"
  /\ Only(signals, LinkedSignals)

UpAndRunning == Linked => Synchronised /\ Running

\* RR is told: the signal or the delayed indication of the end of the link is there.
EndSignals == {"RELEASE_IND", "RELEASE_CNF", "ERROR_IND"}
Told == rel.pending \/ Some(signals, EndSignals)

Agreed ==
  /\ state = "IDLE" => rrView = "DOWN" \/ Told
  /\ \A i \in DOMAIN signals :
       signals[i].name \in {"ESTABLISH_IND", "ESTABLISH_CNF"} => i = 1 /\ rrView = "ASKED"

LInv ==
  IInv /\ LinkType /\ Unused /\ Contending /\ UpAndRunning /\ Agreed

-----------------------------------------------------------------------------
(* Frames on their way. *)

LEMMA Ends ==
  ASSUME NEW T, NEW s \in Seq(T), NEW x \in T
  PROVE  /\ s \o <<x>> \in Seq(T) /\ s \o <<>> = s
         /\ DOMAIN (s \o <<x>>) = 1..Len(s) + 1
         /\ \A i \in DOMAIN s : i \in 1..Len(s) /\ (s \o <<x>>)[i] = s[i]
         /\ (s \o <<x>>)[Len(s) + 1] = x
OBVIOUS

LEMMA Begins ==
  ASSUME NEW T, NEW s \in Seq(T), s # <<>>
  PROVE  /\ Head(s) \in T /\ Tail(s) \in Seq(T)
         /\ 1 \in DOMAIN s /\ Head(s) = s[1]
         /\ \A i \in DOMAIN Tail(s) :
              i \in Nat /\ i + 1 \in DOMAIN s /\ 1 < i + 1 /\ Tail(s)[i] = s[i + 1]
OBVIOUS

LEMMA NetFrameTypes ==
  /\ \A i \in 1..Len(DownFrames) : /\ DownFrames[i].info \in Info
                                   /\ DownFrames[i].m \in BOOLEAN
  /\ \A i \in 1..Len(DownFrames), nr \in Numbers, p \in BOOLEAN :
       NetI(i, nr, p) \in Frame(OrNone(Info))
  /\ \A t \in Types, nr \in Numbers, pf \in BOOLEAN :
       SResponse(t, nr, pf) \in Frame(OrNone(Info))
  /\ \A t \in Types, cmd \in BOOLEAN, pf \in BOOLEAN, info \in OrNone(Info) :
       UFrame(t, cmd, pf, info) \in Frame(OrNone(Info))
  /\ EstMsg \in OrNone(Info) /\ None \in OrNone(Info)
<1>1. \A i \in 1..Len(DownFrames) : DownFrames[i].info \in Info /\ DownFrames[i].m \in BOOLEAN
  <2> DEFINE T == [info : Info, m : BOOLEAN]
  <2>1. DownFrames \in Seq(T)
    BY LinkAssumption
  <2> HIDE DEF T
  <2>2. \A i \in 1..Len(DownFrames) : DownFrames[i] \in T
    BY <2>1
  <2> QED BY <2>2 DEF T
<1>2. \A i \in 1..Len(DownFrames), nr \in Numbers, p \in BOOLEAN :
        NetI(i, nr, p) \in Frame(OrNone(Info))
  <2> TAKE i \in 1..Len(DownFrames), nr \in Numbers, p \in BOOLEAN
  <2>1. (i - 1) % 8 \in Numbers /\ "I" \in Types
    BY DEF Numbers, Types
  <2> QED BY <1>1, <2>1 DEF NetI, Frame, OrNone
<1>3. \A t \in Types, nr \in Numbers, pf \in BOOLEAN :
        SResponse(t, nr, pf) \in Frame(OrNone(Info))
  BY NumberTypes DEF SResponse, UFrame, Frame, OrNone
<1>4. \A t \in Types, cmd \in BOOLEAN, pf \in BOOLEAN, info \in OrNone(Info) :
        UFrame(t, cmd, pf, info) \in Frame(OrNone(Info))
  BY NumberTypes DEF UFrame, Frame
<1>5. EstMsg \in OrNone(Info) /\ None \in OrNone(Info)
  BY LinkAssumption DEF OrNone
<1> QED BY <1>1, <1>2, <1>3, <1>4, <1>5

-----------------------------------------------------------------------------
(* Steps of the network and of the channel. *)

\* What such a step may change of the invariant.
LEMMA NetworkFrame ==
  ASSUME LInv, UNCHANGED <<vars, last, rrView>>, LinkType', up' \in {up, None},
         net'.st = "IDLE" => net' = net /\ down' = <<>>,
         state = "CONTENTION" => Awaited',
         Linked => Synchronised'
  PROVE  LInv'
<1> USE DEF vars
<1>1. IInv'
  BY DEF LInv, IInv, TypeOK, Kept, ContentionKept, RetriesKept, Watched, Failing
<1>2. Unused'
  BY DEF LInv, Unused, IsSABM, Fresh
<1>3. Contending'
  BY DEF LInv, Contending, Asking
<1>4. UpAndRunning'
  BY DEF LInv, UpAndRunning, Linked, Running, Windowed, Timed, LastKept
<1>5. Agreed'
  BY DEF LInv, Agreed, Told
<1> QED BY <1>1, <1>2, <1>3, <1>4, <1>5 DEF LInv

LEMMA Joins ==
  ASSUME LInv, NEW f \in Frame(OrNone(Info)), down' = down \o <<f>>
  PROVE  /\ down' \in Seq(Frame(OrNone(Info)))
         /\ DOMAIN down' = 1..Len(down) + 1
         /\ \A k \in DOMAIN down : k \in 1..Len(down) /\ down'[k] = down[k]
         /\ down'[Len(down) + 1] = f
         /\ DOMAIN down = 1..Len(down) /\ Len(down) \in Nat
         /\ \A k \in DOMAIN down : down[k] \in Frame(OrNone(Info))
<1>1. down \in Seq(Frame(OrNone(Info)))
  BY DEF LInv, LinkType
<1>2. /\ DOMAIN down' = 1..Len(down) + 1
      /\ \A k \in DOMAIN down : k \in 1..Len(down) /\ down'[k] = down[k]
      /\ down'[Len(down) + 1] = f
      /\ down' \in Seq(Frame(OrNone(Info)))
  BY <1>1, Ends
<1>3. /\ DOMAIN down = 1..Len(down) /\ Len(down) \in Nat
      /\ \A k \in DOMAIN down : down[k] \in Frame(OrNone(Info))
  BY <1>1
<1> QED BY <1>2, <1>3

\* A frame of the network joins those on their way.
LEMMA OneMore ==
  ASSUME LInv, Synchronised, NEW f \in Frame(OrNone(Info)), down' = down \o <<f>>,
         \A g \in Frame(OrNone(Info)) : DownFits(g) => DownFits(g)' /\ InSequence(g, f)',
         \A g, h \in Frame(OrNone(Info)) :
           DownFits(g) /\ DownFits(h) /\ InSequence(g, h) => InSequence(g, h)',
         DownFits(f)'
  PROVE  /\ (\A i \in DOMAIN down : DownFits(down[i]))'
         /\ (\A i, j \in DOMAIN down : i < j => InSequence(down[i], down[j]))'
<1>2. /\ DOMAIN down' = 1..Len(down) + 1
      /\ \A i \in DOMAIN down : i \in 1..Len(down) /\ down'[i] = down[i]
      /\ down'[Len(down) + 1] = f
  BY Joins
<1>3. /\ DOMAIN down = 1..Len(down) /\ Len(down) \in Nat
      /\ \A i \in DOMAIN down : down[i] \in Frame(OrNone(Info))
      /\ \A i \in DOMAIN down : DownFits(down[i])
      /\ \A i, j \in DOMAIN down : i < j => InSequence(down[i], down[j])
  BY Joins DEF Synchronised
<1>4. ASSUME NEW i \in DOMAIN down' PROVE (DownFits(down[i]))'
  BY <1>2, <1>3
<1>5. ASSUME NEW i \in DOMAIN down', NEW j \in DOMAIN down', i < j
      PROVE  InSequence(down[i], down[j])'
  BY <1>2, <1>3, <1>5
<1> QED BY <1>4, <1>5

\* The network sends an I frame or a DISC.
LEMMA NetAdds ==
  ASSUME LInv, UNCHANGED <<vars, up, last, rrView>>,
         NEW f \in Frame(OrNone(Info)), down' = down \o <<f>>, f.cmd,
         net.st \in {"MFE", "CLOSING"}, net'.st \in {"MFE", "CLOSING"}, net' \in NetState,
         net'.vr = net.vr, net'.acked = net.acked,
         net'.sent \in {net.sent, net.acked + 1}, net'.sent <= Len(DownFrames),
         \/ f.type = "DISC"
         \/ /\ f.type = "I" /\ f.nr = net.vr /\ Body(f, net'.sent)
            /\ net'.sent = net.acked + 1
  PROVE  LInv'
<1>1. /\ net \in NetState /\ net.sent \in Nat /\ net.acked \in Nat /\ net.vr \in Numbers
      /\ net.sent \in {net.acked, net.acked + 1} /\ net'.sent \in {net.acked, net.acked + 1}
      /\ (net.sent = net.acked + 1 => net'.sent = net.sent)
      /\ f.type \in {"DISC", "I"}
  BY DEF NetState, LInv, LinkType
<1>2. LinkType'
  <2>1. down' \in Seq(Frame(OrNone(Info)))
    BY Joins
  <2> QED BY <1>1, <2>1 DEF LInv, LinkType, vars
<1>3. /\ DOMAIN down' = 1..Len(down) + 1
      /\ \A k \in DOMAIN down : k \in 1..Len(down) /\ down'[k] = down[k]
      /\ down'[Len(down) + 1] = f
      /\ DOMAIN down = 1..Len(down) /\ Len(down) \in Nat
  BY Joins
<1>4. ASSUME state = "CONTENTION" PROVE Awaited'
  <2>1. Awaited /\ net.acked = 0 /\ net.vr = 0
    BY <1>4 DEF LInv, Contending, Awaited
  <2>2. EarlyFrame(f)
    <3>1. net'.sent = 1 => DownFrames # <<>>
      <4>1. DownFrames = <<>> => Len(DownFrames) = 0
        BY LinkAssumption
      <4> QED BY <1>1, <4>1
    <3> QED BY <1>1, <2>1, <3>1 DEF EarlyFrame
  <2>3. \A k \in DOMAIN down : EarlyFrame(down[k])
    BY <2>1 DEF Awaited
  <2>4. ASSUME NEW k \in DOMAIN down' PROVE EarlyFrame(down'[k])
    BY <1>3, <2>2, <2>3
  <2>5. \A k \in DOMAIN down : down[k].type = "UA" =>
          /\ up = None
          /\ \A j \in DOMAIN down : k < j =>
               down[j].type # "UA" /\ (down[j].type = "I" => net.sent = 1)
    BY <2>1 DEF Awaited
  <2>6. ASSUME NEW k \in DOMAIN down', down'[k].type = "UA"
        PROVE  /\ up' = None
               /\ \A j \in DOMAIN down' : k < j =>
                    down'[j].type # "UA" /\ (down'[j].type = "I" => net'.sent = 1)
    <3>1. k \in DOMAIN down /\ up' = None
      BY <1>1, <1>3, <2>5, <2>6
    <3>2. ASSUME NEW j \in DOMAIN down', k < j
          PROVE  down'[j].type # "UA" /\ (down'[j].type = "I" => net'.sent = 1)
      <4>1. CASE j \in DOMAIN down
        BY <1>1, <1>3, <2>1, <2>5, <2>6, <3>1, <3>2, <4>1
      <4>2. CASE j = Len(down) + 1
        BY <1>1, <1>3, <2>1, <4>2
      <4> QED BY <1>3, <4>1, <4>2
    <3> QED BY <3>1, <3>2
  <2> QED BY <2>1, <2>4, <2>6 DEF Awaited, EarlyFrame, Body
<1>5. ASSUME Linked PROVE Synchronised'
  <2>1. Synchronised
    BY <1>5 DEF LInv, UpAndRunning
  <2>2. \A g : DownFits(g) => DownFits(g)'
    BY <1>1 DEF DownFits, Carries, Body, Numbered, Acks, vars
  <2>3. DownFits(f)'
    BY <1>1 DEF DownFits, Carries, Body, Numbered, Acks
  <2>4. \A g, h : InSequence(g, h) => InSequence(g, h)'
    BY DEF InSequence, Numbered, Acks
  <2>5. \A g : InSequence(g, f)'
    BY <1>1 DEF InSequence, Numbered, Acks
  <2>6. /\ (\A k \in DOMAIN down : DownFits(down[k]))'
        /\ (\A k, j \in DOMAIN down : k < j => InSequence(down[k], down[j]))'
    BY <2>1, <2>2, <2>3, <2>4, <2>5, OneMore
  <2>7. UpFits'
    BY <2>1 DEF Synchronised, UpFits, Numbered, vars
  <2>8. cch.vr \in {net'.acked % 8, net'.sent % 8}
    BY <1>1, <2>1 DEF Synchronised
  <2> QED BY <2>1, <2>6, <2>7, <2>8 DEF Synchronised, vars
<1> QED BY <1>2, <1>4, <1>5, NetworkFrame

LEMMA NetSendsStep ==
  ASSUME LInv, NetSends
  PROVE  LInv'
<1>1. PICK f : f = NetI(net.sent + 1, net.vr, FALSE)
  OBVIOUS
<1>2. /\ net.st = "MFE" /\ net \in NetState /\ net.sent = net.acked /\ net.sent < Len(DownFrames)
      /\ net' = [net EXCEPT !.sent = @ + 1] /\ down' = down \o <<f>>
      /\ UNCHANGED <<vars, up, last, rrView>>
  BY <1>1 DEF NetSends, NetStep, CanSendI, Answers, LInv, LinkType
<1>3. /\ net'.st = "MFE" /\ net'.vr = net.vr /\ net'.acked = net.acked
      /\ net'.sent = net.sent + 1 /\ net' \in NetState /\ net.sent \in Nat
      /\ net.vr \in Numbers
  BY <1>2 DEF NetState
<1>4. net.sent + 1 \in 1..Len(DownFrames) /\ net.sent + 1 <= Len(DownFrames)
  <2>1. Len(DownFrames) \in Nat
    BY LinkAssumption
  <2> QED BY <1>2, <1>3, <2>1
<1>5. /\ f \in Frame(OrNone(Info)) /\ f.type = "I" /\ f.cmd /\ f.nr = net.vr
      /\ Body(f, net.sent + 1)
  <2>1. f \in Frame(OrNone(Info))
    BY <1>1, <1>3, <1>4, NetFrameTypes
  <2> QED BY <1>1, <2>1 DEF NetI, Body
<1> QED BY <1>2, <1>3, <1>4, <1>5, NetAdds

LEMMA NetRepeatsStep ==
  ASSUME OnTime, LInv, NetRepeats
  PROVE  LInv'
<1>1. PICK f : f = NetI(net.sent, net.vr, TRUE)
  OBVIOUS
<1>2. /\ net.st = "MFE" /\ net \in NetState /\ net.sent = net.acked + 1
      /\ net.sent <= Len(DownFrames) /\ net' = net /\ down' = down \o <<f>>
      /\ UNCHANGED <<vars, up, last, rrView>>
  BY <1>1 DEF NetRepeats, NetStep, Outstanding, Answers, LInv, LinkType, OnTime
<1>3. net.acked \in Nat /\ net.sent \in Nat /\ net.vr \in Numbers
  BY <1>2 DEF NetState
<1>4. net.sent \in 1..Len(DownFrames)
  <2>1. Len(DownFrames) \in Nat
    BY LinkAssumption
  <2> QED BY <1>2, <1>3, <2>1
<1>5. /\ f \in Frame(OrNone(Info)) /\ f.type = "I" /\ f.cmd /\ f.nr = net.vr
      /\ Body(f, net.sent)
  <2>1. f \in Frame(OrNone(Info))
    BY <1>1, <1>3, <1>4, NetFrameTypes
  <2> QED BY <1>1, <2>1 DEF NetI, Body
<1> QED BY <1>2, <1>5, NetAdds

LEMMA NetReleasesStep ==
  ASSUME LInv, NetReleases
  PROVE  LInv'
<1>1. PICK f : f = UFrame("DISC", TRUE, TRUE, None)
  OBVIOUS
<1>2. /\ net.st \in {"MFE", "CLOSING"} /\ net \in NetState
      /\ net.sent <= Len(DownFrames) /\ down' = down \o <<f>>
      /\ net' = [net EXCEPT !.st = "CLOSING"]
      /\ UNCHANGED <<vars, up, last, rrView>>
  BY <1>1 DEF NetReleases, NetStep, Answers, LInv, LinkType
<1>3. /\ net'.st = "CLOSING" /\ net'.vr = net.vr /\ net'.acked = net.acked
      /\ net'.sent = net.sent /\ net' \in NetState
  BY <1>2 DEF NetState
<1>4. f \in Frame(OrNone(Info)) /\ f.type = "DISC" /\ f.cmd
  <2>1. "DISC" \in Types /\ TRUE \in BOOLEAN
    BY DEF Types
  <2>2. f \in Frame(OrNone(Info))
    BY <1>1, <2>1, NetFrameTypes
  <2> QED BY <1>1, <2>2 DEF UFrame
<1> QED BY <1>2, <1>3, <1>4, NetAdds

LEMMA LoseUpStep ==
  ASSUME LInv, LoseUp
  PROVE  LInv'
<1>1. /\ up' = None /\ UNCHANGED <<vars, net, down, last, rrView>>
  BY DEF LoseUp
<1>2. LinkType'
  BY <1>1 DEF LInv, LinkType, OrNone, vars
<1>3. state = "CONTENTION" => Awaited'
  BY <1>1 DEF LInv, Contending, Awaited, EarlyFrame, Body
<1>4. ASSUME Linked PROVE Synchronised'
  <2>1. Synchronised
    BY <1>4 DEF LInv, UpAndRunning
  <2>2. \A g : DownFits(g) => DownFits(g)'
    BY <1>1 DEF DownFits, Carries, Body, Numbered, Acks, vars
  <2>3. \A g, h : InSequence(g, h) => InSequence(g, h)'
    BY <1>1 DEF InSequence, Numbered, Acks
  <2>4. UpFits'
    BY <1>1 DEF UpFits
  <2> QED BY <1>1, <2>1, <2>2, <2>3, <2>4 DEF Synchronised, vars
<1>5. net'.st = "IDLE" => net' = net /\ down' = <<>>
  BY <1>1 DEF LInv, Unused
<1> QED BY <1>1, <1>2, <1>3, <1>4, <1>5, NetworkFrame

LEMMA LoseDownStep ==
  ASSUME LInv, LoseDown
  PROVE  LInv'
<1>1. /\ down # <<>> /\ down' = Tail(down) /\ UNCHANGED <<vars, net, up, last, rrView>>
      /\ down \in Seq(Frame(OrNone(Info)))
  BY DEF LoseDown, LInv, LinkType
<1>2. /\ down' \in Seq(Frame(OrNone(Info)))
      /\ \A i \in DOMAIN down' :
           i \in Nat /\ i + 1 \in DOMAIN down /\ down'[i] = down[i + 1]
  BY <1>1, Begins
<1>3. LinkType'
  BY <1>1, <1>2 DEF LInv, LinkType, vars
<1>4. ASSUME state = "CONTENTION" PROVE Awaited'
  <2>1. Awaited
    BY <1>4 DEF LInv, Contending
  <2>2. ASSUME NEW i \in DOMAIN down' PROVE EarlyFrame(down'[i])
    BY <1>2, <2>1 DEF Awaited
  <2>3. ASSUME NEW i \in DOMAIN down', down'[i].type = "UA"
        PROVE  /\ up = None
               /\ \A j \in DOMAIN down' : i < j =>
                    down'[j].type # "UA" /\ (down'[j].type = "I" => net.sent = 1)
    <3>1. \A j \in DOMAIN down' : i < j => i + 1 < j + 1
      BY <1>2
    <3> QED BY <1>2, <2>1, <2>3, <3>1 DEF Awaited
  <2> QED BY <1>1, <2>1, <2>2, <2>3 DEF Awaited, EarlyFrame, Body
<1>5. ASSUME Linked PROVE Synchronised'
  <2>1. Synchronised
    BY <1>5 DEF LInv, UpAndRunning
  <2>2. \A g : DownFits(g) => DownFits(g)'
    BY <1>1 DEF DownFits, Carries, Body, Numbered, Acks, vars
  <2>3. \A g, h : InSequence(g, h) => InSequence(g, h)'
    BY <1>1 DEF InSequence, Numbered, Acks
  <2>4. UpFits'
    BY <1>1, <2>1 DEF Synchronised, UpFits, Numbered, vars
  <2>5. ASSUME NEW i \in DOMAIN down' PROVE (DownFits(down[i]))'
    BY <1>2, <2>1, <2>2 DEF Synchronised
  <2>6. ASSUME NEW i \in DOMAIN down', NEW j \in DOMAIN down', i < j
        PROVE  InSequence(down[i], down[j])'
    BY <1>2, <2>1, <2>3, <2>6 DEF Synchronised
  <2> QED BY <1>1, <2>1, <2>4, <2>5, <2>6 DEF Synchronised, vars
<1>6. net'.st = "IDLE" => net' = net /\ down' = <<>>
  BY <1>1 DEF LInv, Unused
<1> QED BY <1>1, <1>3, <1>4, <1>5, <1>6, NetworkFrame

\* The network takes the acknowledgement of a frame of the mobile.
LEMMA AckedNet ==
  ASSUME net \in NetState, net.sent \in {net.acked, net.acked + 1}, NEW f
  PROVE  /\ Acked(f) \in NetState /\ Acked(f).st = net.st /\ Acked(f).vr = net.vr
         /\ Acked(f).sent = net.sent /\ Acked(f).rej = net.rej
         /\ Acked(f).acked \in {net.acked, net.sent}
         /\ Acked(f).sent \in {Acked(f).acked, Acked(f).acked + 1}
         /\ Acked(f).acked = net.sent <=> f.nr = net.sent % 8 \/ net.sent = net.acked
BY DEF Acked, NetState

LEMMA AckedKeeps ==
  ASSUME LInv, Linked, up # None, NEW n, n = Acked(up)
  PROVE  /\ cch.vr \in {n.acked % 8, net.sent % 8}
         /\ \A g : DownFits(g) => ~Acks(g)
         /\ \A g : DownFits(g) /\ g.type = "I" =>
              \/ net.sent = n.acked + 1 /\ Body(g, net.sent)
              \/ n.acked = net.sent /\ n.acked > 0 /\ Body(g, n.acked)
<1>1. /\ net \in NetState /\ net.sent \in Nat /\ net.acked \in Nat
      /\ net.sent \in {net.acked, net.acked + 1}
      /\ up.nr \in {cch.vr, net.acked % 8} /\ cch.vr \in {net.acked % 8, net.sent % 8}
  BY DEF LInv, LinkType, NetState, UpAndRunning, Synchronised, UpFits
<1>2. n.acked \in {net.acked, net.sent} /\ (n.acked = net.sent <=> up.nr = net.sent % 8 \/ net.sent = net.acked)
  BY <1>1, AckedNet
<1>3. cch.vr \in {n.acked % 8, net.sent % 8}
  BY <1>1, <1>2
<1>4. \A g : DownFits(g) => ~Acks(g)
  BY DEF DownFits
<1>5. \A g : DownFits(g) /\ g.type = "I" => net.sent = net.acked + 1 /\ Body(g, net.sent)
  BY DEF DownFits, Carries
<1>6. net.sent = net.acked + 1 => net.sent > 0
  BY <1>1
<1> QED BY <1>2, <1>3, <1>4, <1>5, <1>6

\* The network answers a frame of the mobile with f.
LEMMA NetAnswers ==
  ASSUME LInv, Linked, up # None, up' = None, UNCHANGED <<vars, last, rrView>>,
         NEW f \in Frame(OrNone(Info)), down' = down \o <<f>>,
         net.st = "MFE", net'.st = "MFE", net' \in NetState,
         net'.acked = Acked(up).acked, net'.vr \in {cch.va, cch.vs},
         net'.vr = net.vr \/ net.vr = cch.va,
         \/ net'.sent = net.sent
         \/ net'.sent = net.sent + 1 /\ net'.acked = net.sent,
         f.nr = net'.vr,
         \/ /\ Acks(f) /\ ~f.cmd /\ net'.vr = cch.vs /\ (f.pf <=> state = "RECOVERY")
            /\ f.type = "REJ" => f.pf
         \/ f.type = "I" /\ f.cmd /\ net'.sent = net'.acked + 1 /\ Body(f, net'.sent)
  PROVE  Synchronised'
<1>1. PICK n : n = Acked(up)
  OBVIOUS
<1>2. /\ Synchronised /\ net \in NetState /\ net.sent \in Nat /\ net.acked \in Nat
      /\ net.sent \in {net.acked, net.acked + 1} /\ n.acked \in {net.acked, net.sent}
      /\ net'.acked = n.acked /\ net'.sent \in Nat
  <2>1. net \in NetState /\ net.sent \in {net.acked, net.acked + 1} /\ Synchronised
    BY DEF LInv, LinkType, UpAndRunning
  <2>2. n.acked \in {net.acked, net.sent}
    BY <1>1, <2>1, AckedNet
  <2> QED BY <1>1, <2>1, <2>2 DEF NetState
<1>3. /\ cch.vr \in {n.acked % 8, net.sent % 8}
      /\ \A g : DownFits(g) => ~Acks(g)
      /\ \A g : DownFits(g) /\ g.type = "I" =>
           \/ net.sent = n.acked + 1 /\ Body(g, net.sent)
           \/ n.acked = net.sent /\ n.acked > 0 /\ Body(g, n.acked)
  BY <1>1, AckedKeeps
<1>4. \A g : DownFits(g) => DownFits(g)'
  <2> SUFFICES ASSUME NEW g, DownFits(g) PROVE DownFits(g)'
    OBVIOUS
  <2>1. g.type = "I" => Carries(g)'
    BY <1>2, <1>3 DEF Carries, Body
  <2>2. Numbered(g) => g.nr \in {cch.va, net'.vr}
    BY DEF DownFits
  <2> QED BY <1>3, <2>1, <2>2 DEF DownFits, Numbered, Acks, vars
<1>5. DownFits(f)'
  BY <1>2 DEF DownFits, Carries, Body, Numbered, Acks, vars
<1>6. net'.vr # net.vr => net.vr = cch.va /\ net'.vr # cch.va
  OBVIOUS
<1>7. \A g : DownFits(g) => InSequence(g, f)'
  BY <1>3 DEF InSequence, Numbered, Acks
<1>8. \A g, h : DownFits(g) /\ DownFits(h) /\ InSequence(g, h) => InSequence(g, h)'
  BY <1>3, <1>6 DEF InSequence, DownFits, Numbered, Acks
<1>9. /\ (\A k \in DOMAIN down : DownFits(down[k]))'
      /\ (\A k, j \in DOMAIN down : k < j => InSequence(down[k], down[j]))'
  BY <1>2, <1>4, <1>5, <1>7, <1>8, OneMore
<1>10. UpFits'
  BY DEF UpFits
<1>11. cch.vr \in {net'.acked % 8, net'.sent % 8}
  BY <1>2, <1>3
<1> QED BY <1>9, <1>10, <1>11 DEF Synchronised, vars

\* What the network receives on a link that is up, is asked for, or is not.
LEMMA UpKinds ==
  ASSUME LInv, up # None
  PROVE  /\ up \in Frame(Infos) /\ net \in NetState
         /\ net.sent \in {net.acked, net.acked + 1} /\ net.sent <= Len(DownFrames)
         /\ Linked => Numbered(up) /\ net.st \in {"MFE", "CLOSING"} /\ UpFits
         /\ state = "CONTENTION" => up.type = "SABM" /\ ~Linked
         /\ net.st = "IDLE" => up.type = "SABM"
         /\ up.pf \in BOOLEAN /\ up.cmd \in BOOLEAN /\ up.nr \in Numbers /\ up.ns \in Numbers
<1>1. up \in Frame(Infos)
  BY DEF LInv, LinkType, OrNone
<1> QED BY <1>1 DEF LInv, LinkType, UpAndRunning, Synchronised, UpFits, Contending, Awaited,
                    Linked, Unused, Frame

LEMMA NetIFrameStep ==
  ASSUME LInv, NetReceives, NetIFrame(up)
  PROVE  LInv'
<1>1. /\ up # None /\ up' = None /\ UNCHANGED <<vars, last, rrView>>
      /\ up.type = "I" /\ net.st = "MFE" /\ up.ns = net.vr
  BY DEF NetReceives, NetIFrame
<1>2. PICK a : a = Acked(up)
  OBVIOUS
<1>3. PICK n : n = [a EXCEPT !.vr = Incr(@), !.rej = FALSE]
  OBVIOUS
<1>4. /\ a \in NetState /\ a.st = "MFE" /\ a.vr = net.vr /\ a.sent = net.sent
      /\ a.sent \in {a.acked, a.acked + 1} /\ net.vr \in Numbers
      /\ net.sent <= Len(DownFrames)
  BY <1>1, <1>2, UpKinds, AckedNet DEF NetState
<1>5. /\ n \in NetState /\ n.st = "MFE" /\ n.vr = Incr(net.vr) /\ n.sent = net.sent
      /\ n.acked = a.acked /\ n.sent \in {n.acked, n.acked + 1} /\ n.vr \in Numbers
      /\ n.sent \in Nat /\ n.acked \in Nat
  BY <1>3, <1>4, Modulo DEF NetState
<1>6. \E f \in Frame(OrNone(Info)) :
        /\ down' = down \o <<f>> /\ f.nr = net'.vr
        /\ net' \in NetState /\ net'.st = "MFE" /\ net'.vr = n.vr /\ net'.acked = n.acked
        /\ net'.sent \in {net'.acked, net'.acked + 1} /\ net'.sent <= Len(DownFrames)
        /\ \/ net'.sent = n.sent
           \/ net'.sent = n.sent + 1 /\ net'.acked = n.sent
        /\ \/ Acks(f) /\ ~f.cmd /\ f.pf = up.pf /\ f.type # "REJ"
           \/ ~up.pf /\ f.type = "I" /\ f.cmd /\ net'.sent = net'.acked + 1 /\ Body(f, net'.sent)
  <2>1. \/ net' = n /\ Answers(<<SResponse("RR", n.vr, up.pf)>>)
        \/ /\ ~up.pf /\ CanSendI(n)
           /\ net' = [n EXCEPT !.sent = @ + 1]
           /\ Answers(<<NetI(n.sent + 1, n.vr, FALSE)>>)
    BY <1>2, <1>3 DEF NetIFrame
  <2>2. CASE net' = n /\ Answers(<<SResponse("RR", n.vr, up.pf)>>)
    <3>1. PICK f : f = SResponse("RR", n.vr, up.pf)
      OBVIOUS
    <3>2. f \in Frame(OrNone(Info))
      <4>1. "RR" \in Types /\ up.pf \in BOOLEAN
        BY <1>1, UpKinds DEF Types
      <4> QED BY <1>5, <3>1, <4>1, NetFrameTypes
    <3>3. f.nr = n.vr /\ f.type = "RR" /\ ~f.cmd /\ f.pf = up.pf
      BY <3>1 DEF SResponse, UFrame
    <3> QED BY <1>4, <1>5, <2>2, <3>1, <3>2, <3>3 DEF Answers, Acks
  <2>3. CASE /\ ~up.pf /\ CanSendI(n)
             /\ net' = [n EXCEPT !.sent = @ + 1]
             /\ Answers(<<NetI(n.sent + 1, n.vr, FALSE)>>)
    <3>1. PICK f : f = NetI(n.sent + 1, n.vr, FALSE)
      OBVIOUS
    <3>2. n.sent + 1 \in 1..Len(DownFrames) /\ n.sent + 1 <= Len(DownFrames) /\ n.sent = n.acked
      <4>1. Len(DownFrames) \in Nat
        BY LinkAssumption
      <4> QED BY <1>5, <2>3, <4>1 DEF CanSendI
    <3>3. f \in Frame(OrNone(Info))
      BY <1>5, <3>1, <3>2, NetFrameTypes
    <3>4. f.nr = n.vr /\ f.type = "I" /\ f.cmd /\ Body(f, n.sent + 1)
      BY <3>1 DEF NetI, Body
    <3>5. /\ net' \in NetState /\ net'.st = "MFE" /\ net'.vr = n.vr /\ net'.acked = n.acked
          /\ net'.sent = n.sent + 1
      BY <1>5, <2>3 DEF NetState
    <3> QED BY <2>3, <3>1, <3>2, <3>3, <3>4, <3>5 DEF Answers
  <2> QED BY <2>1, <2>2, <2>3
<1>7. PICK f \in Frame(OrNone(Info)) :
        /\ down' = down \o <<f>> /\ f.nr = net'.vr
        /\ net' \in NetState /\ net'.st = "MFE" /\ net'.vr = n.vr /\ net'.acked = n.acked
        /\ net'.sent \in {net'.acked, net'.acked + 1} /\ net'.sent <= Len(DownFrames)
        /\ \/ net'.sent = n.sent
           \/ net'.sent = n.sent + 1 /\ net'.acked = n.sent
        /\ \/ Acks(f) /\ ~f.cmd /\ f.pf = up.pf /\ f.type # "REJ"
           \/ ~up.pf /\ f.type = "I" /\ f.cmd /\ net'.sent = net'.acked + 1 /\ Body(f, net'.sent)
  BY <1>6
<1>8. LinkType'
  <2>1. down' \in Seq(Frame(OrNone(Info)))
    BY <1>7, Joins
  <2> QED BY <1>1, <1>7, <2>1 DEF LInv, LinkType, OrNone, vars
<1>9. ASSUME Linked PROVE Synchronised'
  <2>1. /\ IF up.pf THEN state = "RECOVERY" /\ up.ns = Decr(cch.vs)
                    ELSE state = "MFE" /\ up.ns = cch.va
        /\ cch.va \in Numbers /\ cch.vs \in {cch.va, Incr(cch.va)}
        /\ ~up.pf => cch.vs # cch.va
        /\ net.vr \in {cch.va, cch.vs}
    BY <1>1, <1>9 DEF LInv, UpAndRunning, Synchronised, UpFits, Running, Windowed,
                      IInv, TypeOK, Channel
  <2>2. net.vr = cch.va /\ cch.vs = Incr(cch.va)
    <3>1. Incr(cch.va) \in Numbers
      BY <2>1, Modulo
    <3>2. cch.vs \in Numbers /\ Decr(cch.vs) # cch.vs
      BY <2>1, <3>1, Modulo
    <3>3. up.ns = net.vr
      BY <1>1
    <3> QED BY <2>1, <3>2, <3>3
  <2>3. (up.pf <=> state = "RECOVERY") /\ n.vr = cch.vs
    BY <1>5, <2>1, <2>2
  <2> QED BY <1>1, <1>2, <1>5, <1>7, <1>9, <2>2, <2>3, NetAnswers
<1>10. state # "CONTENTION" /\ net'.st # "IDLE"
  BY <1>1, <1>7, UpKinds
<1> QED BY <1>1, <1>8, <1>9, <1>10, NetworkFrame

LEMMA NetIRepeatedStep ==
  ASSUME LInv, NetReceives, NetIRepeated(up)
  PROVE  LInv'
<1>1. /\ up # None /\ up' = None /\ UNCHANGED <<vars, last, rrView>>
      /\ up.type = "I" /\ net.st = "MFE" /\ up.ns # net.vr
  BY DEF NetReceives, NetIRepeated
<1>2. PICK a : a = Acked(up)
  OBVIOUS
<1>3. PICK f : f = NetS("REJ", FALSE, up.pf)
  OBVIOUS
<1>4. /\ a \in NetState /\ a.st = "MFE" /\ a.vr = net.vr /\ a.sent = net.sent
      /\ a.sent \in {a.acked, a.acked + 1} /\ net.vr \in Numbers
      /\ net.sent <= Len(DownFrames)
  BY <1>1, <1>2, UpKinds, AckedNet DEF NetState
<1>5. /\ net' \in NetState /\ net'.st = "MFE" /\ net'.vr = net.vr /\ net'.sent = net.sent
      /\ net'.acked = a.acked
      /\ down' = (IF up.pf \/ ~net.rej THEN down \o <<f>> ELSE down \o <<>>)
  BY <1>2, <1>3, <1>4 DEF NetIRepeated, Answers, NetState
<1>6. /\ f \in Frame(OrNone(Info)) /\ f.type = "REJ" /\ ~f.cmd /\ f.pf = up.pf /\ f.nr = net.vr
      /\ up.pf \in BOOLEAN
  <2>1. "REJ" \in Types /\ up.pf \in BOOLEAN
    BY <1>1, UpKinds DEF Types
  <2>2. SResponse("REJ", net.vr, up.pf) \in Frame(OrNone(Info))
    BY <1>4, <2>1, NetFrameTypes
  <2>3. f \in Frame(OrNone(Info)) /\ f.cmd = FALSE
    BY <1>3, <2>2 DEF NetS, Frame
  <2> QED BY <1>3, <2>1, <2>3 DEF NetS, SResponse, UFrame
<1>7. LinkType'
  <2>1. down' \in Seq(Frame(OrNone(Info)))
    <3>1. down \o <<>> = down /\ down \in Seq(Frame(OrNone(Info)))
      BY DEF LInv, LinkType
    <3> QED BY <1>5, <1>6, <3>1, Joins
  <2> QED BY <1>1, <1>4, <1>5, <2>1 DEF LInv, LinkType, OrNone, vars
<1>8. ASSUME Linked PROVE Synchronised'
  <2>1. /\ IF up.pf THEN state = "RECOVERY" /\ up.ns = Decr(cch.vs)
                    ELSE up.ns = cch.va /\ net.vr = cch.va
        /\ cch.va \in Numbers /\ cch.vs \in {cch.va, Incr(cch.va)}
        /\ net.vr \in {cch.va, cch.vs}
    BY <1>1, <1>8 DEF LInv, UpAndRunning, Synchronised, UpFits, Running, Windowed,
                      IInv, TypeOK, Channel
  <2>2. up.pf /\ state = "RECOVERY" /\ net.vr = cch.vs
    BY <1>1, <2>1, Modulo
  <2>3. Acks(f)
    BY <1>6 DEF Acks
  <2>4. down' = down \o <<f>>
    BY <1>5, <2>2
  <2> QED BY <1>1, <1>2, <1>5, <1>6, <1>8, <2>2, <2>3, <2>4, NetAnswers
<1>9. state # "CONTENTION" /\ net'.st # "IDLE"
  BY <1>1, <1>5, UpKinds
<1> QED BY <1>1, <1>7, <1>8, <1>9, NetworkFrame

LEMMA NetSupervisoryStep ==
  ASSUME LInv, NetReceives, NetSupervisory(up)
  PROVE  LInv'
<1>1. /\ up # None /\ up' = None /\ UNCHANGED <<vars, down, last, rrView>>
      /\ up.type \in {"RR", "REJ"} /\ net.st = "MFE" /\ net' = Acked(up)
  BY DEF NetReceives, NetSupervisory
<1>2. /\ net' \in NetState /\ net'.st = "MFE" /\ net'.vr = net.vr /\ net'.sent = net.sent
      /\ net'.sent \in {net'.acked, net'.acked + 1} /\ net'.sent <= Len(DownFrames)
  BY <1>1, UpKinds, AckedNet
<1>3. LinkType'
  BY <1>1, <1>2 DEF LInv, LinkType, OrNone, vars
<1>4. ASSUME Linked PROVE Synchronised'
  <2>1. PICK n : n = Acked(up)
    OBVIOUS
  <2>2. Synchronised /\ net'.acked = n.acked
    BY <1>1, <1>4, <2>1 DEF LInv, UpAndRunning
  <2>3. /\ cch.vr \in {n.acked % 8, net.sent % 8}
        /\ \A g : DownFits(g) => ~Acks(g)
        /\ \A g : DownFits(g) /\ g.type = "I" =>
             \/ net.sent = n.acked + 1 /\ Body(g, net.sent)
             \/ n.acked = net.sent /\ n.acked > 0 /\ Body(g, n.acked)
    BY <1>1, <1>4, <2>1, AckedKeeps
  <2>4. \A g : DownFits(g) => DownFits(g)'
    <3> SUFFICES ASSUME NEW g, DownFits(g) PROVE DownFits(g)'
      OBVIOUS
    <3>1. g.type = "I" => Carries(g)'
      BY <1>1, <1>2, <2>2, <2>3 DEF Carries, Body
    <3> QED BY <1>1, <1>2, <2>3, <3>1 DEF DownFits, Numbered, Acks, vars
  <2>5. \A g, h : InSequence(g, h) => InSequence(g, h)'
    BY <1>2 DEF InSequence, Numbered, Acks
  <2>6. UpFits'
    BY <1>1 DEF UpFits
  <2> QED BY <1>1, <1>2, <2>2, <2>3, <2>4, <2>5, <2>6 DEF Synchronised, vars
<1>5. state # "CONTENTION" /\ net'.st # "IDLE"
  BY <1>1, <1>2, UpKinds
<1> QED BY <1>1, <1>3, <1>4, <1>5, NetworkFrame

LEMMA NetSABMStep ==
  ASSUME LInv, NetReceives, NetSABM(up)
  PROVE  LInv'
<1>1. PICK f : f = UFrame("UA", FALSE, up.pf, up.info)
  OBVIOUS
<1>2. /\ up # None /\ up' = None /\ UNCHANGED <<vars, last, rrView>>
      /\ up.type = "SABM" /\ net.st \in {"IDLE", "MFE"}
      /\ net' = [NetInit EXCEPT !.st = "MFE"] /\ down' = down \o <<f>>
  BY <1>1 DEF NetReceives, NetSABM, Answers
<1>3. /\ net' \in NetState /\ net'.st = "MFE" /\ net'.vr = 0 /\ net'.acked = 0 /\ net'.sent = 0
  BY <1>2, NumberTypes DEF NetState, NetInit
<1>4. f \in Frame(OrNone(Info)) /\ f.type = "UA"
  <2>1. up.pf \in BOOLEAN /\ up.info \in OrNone(Info) /\ "UA" \in Types /\ FALSE \in BOOLEAN
    <3>1. up.info \in {None, EstMsg}
      BY <1>2 DEF LInv, Unused, IsSABM
    <3> QED BY <1>2, <3>1, UpKinds, NetFrameTypes DEF Types
  <2>2. f \in Frame(OrNone(Info))
    BY <1>1, <2>1, NetFrameTypes
  <2> QED BY <1>1, <2>2 DEF UFrame
<1>5. LinkType'
  <2>1. down' \in Seq(Frame(OrNone(Info)))
    BY <1>2, <1>4, Joins
  <2>2. 0 <= Len(DownFrames)
    BY LinkAssumption
  <2> QED BY <1>2, <1>3, <2>1, <2>2 DEF LInv, LinkType, OrNone, vars
<1>6. ~Linked
  BY <1>2, UpKinds DEF Numbered
<1>7. ASSUME state = "CONTENTION" PROVE Awaited'
  <2>1. Awaited
    BY <1>7 DEF LInv, Contending
  <2>2. /\ DOMAIN down' = 1..Len(down) + 1
        /\ \A k \in DOMAIN down : k \in 1..Len(down) /\ down'[k] = down[k]
        /\ down'[Len(down) + 1] = f
        /\ DOMAIN down = 1..Len(down) /\ Len(down) \in Nat
    BY <1>2, <1>4, Joins
  <2>3. \A k \in DOMAIN down : EarlyFrame(down[k]) /\ down[k].type # "UA"
    BY <1>2, <2>1 DEF Awaited
  <2>4. EarlyFrame(f)
    BY <1>4 DEF EarlyFrame
  <2>5. ASSUME NEW k \in DOMAIN down' PROVE EarlyFrame(down'[k])
    BY <2>2, <2>3, <2>4
  <2>6. ASSUME NEW k \in DOMAIN down', down'[k].type = "UA"
        PROVE  k = Len(down) + 1
    BY <2>2, <2>3, <2>6
  <2>7. ASSUME NEW k \in DOMAIN down', down'[k].type = "UA"
        PROVE  /\ up' = None
               /\ \A j \in DOMAIN down' : k < j =>
                    down'[j].type # "UA" /\ (down'[j].type = "I" => net'.sent = 1)
    BY <1>2, <2>2, <2>6, <2>7
  <2> QED BY <1>2, <1>3, <2>5, <2>7 DEF Awaited, EarlyFrame, Body
<1> QED BY <1>2, <1>3, <1>5, <1>6, <1>7, NetworkFrame

\* The network leaves the link, or answers for a link it has left.
LEMMA NetClosedStep ==
  ASSUME LInv, NetReceives, NetDISC(up) \/ NetUAorDM(up) \/ NetElse(up)
  PROVE  LInv'
<1>1. up # None /\ up' = None /\ UNCHANGED <<vars, last, rrView>>
  BY DEF NetReceives
<1>2. /\ up \in Frame(Infos) /\ net \in NetState
      /\ net.sent \in {net.acked, net.acked + 1} /\ net.sent <= Len(DownFrames)
      /\ Linked => Numbered(up) /\ net.st \in {"MFE", "CLOSING"}
      /\ state = "CONTENTION" => up.type = "SABM" /\ ~Linked
      /\ net.st = "IDLE" => up.type = "SABM"
      /\ up.pf \in BOOLEAN /\ down \in Seq(Frame(OrNone(Info)))
  BY <1>1, UpKinds DEF LInv, LinkType
<1>3. /\ net' \in {net, [net EXCEPT !.st = "CLOSED"]}
      /\ net'.st # "IDLE"
      /\ Linked \/ state = "CONTENTION" => net' = net /\ down' = down
      /\ \/ down' = down
         \/ \E t \in {"DM", "UA"}, pf \in BOOLEAN :
              down' = down \o <<UFrame(t, FALSE, pf, None)>>
  <2>1. down \o <<>> = down
    BY <1>2
  <2>2. CASE NetDISC(up)
    BY <1>2, <2>2 DEF NetDISC, Answers, Numbered, NetState
  <2>3. CASE NetUAorDM(up)
    BY <1>2, <2>3 DEF NetUAorDM, Numbered, NetState
  <2>4. CASE NetElse(up)
    <3>1. state = "CONTENTION" => net.st # "CLOSED"
      BY DEF LInv, Contending, Awaited
    <3> QED BY <1>2, <2>1, <2>4, <3>1 DEF NetElse, Answers
  <2> QED BY <2>2, <2>3, <2>4
<1>4. /\ net' \in NetState /\ net'.sent = net.sent /\ net'.acked = net.acked
      /\ down' \in Seq(Frame(OrNone(Info)))
  <2>1. net' \in NetState /\ net'.sent = net.sent /\ net'.acked = net.acked
    BY <1>2, <1>3 DEF NetState
  <2>2. ASSUME NEW t \in {"DM", "UA"}, NEW pf \in BOOLEAN,
               down' = down \o <<UFrame(t, FALSE, pf, None)>>
        PROVE  down' \in Seq(Frame(OrNone(Info)))
    <3>1. PICK f : f = UFrame(t, FALSE, pf, None)
      OBVIOUS
    <3>2. t \in Types /\ FALSE \in BOOLEAN
      BY DEF Types
    <3>3. f \in Frame(OrNone(Info))
      BY <3>1, <3>2, NetFrameTypes
    <3> QED BY <2>2, <3>1, <3>3, Joins
  <2> QED BY <1>2, <1>3, <2>1, <2>2
<1>5. LinkType'
  BY <1>1, <1>2, <1>4 DEF LInv, LinkType, OrNone, vars
<1>6. state = "CONTENTION" => Awaited'
  BY <1>1, <1>3 DEF LInv, Contending, Awaited, EarlyFrame, Body
<1>7. ASSUME Linked PROVE Synchronised'
  <2>1. Synchronised /\ net' = net /\ down' = down
    BY <1>3, <1>7 DEF LInv, UpAndRunning
  <2>2. \A g : DownFits(g) => DownFits(g)'
    BY <1>1, <2>1 DEF DownFits, Carries, Body, Numbered, Acks, vars
  <2>3. \A g, h : InSequence(g, h) => InSequence(g, h)'
    BY <2>1 DEF InSequence, Numbered, Acks
  <2>4. UpFits'
    BY <1>1 DEF UpFits
  <2> QED BY <1>1, <2>1, <2>2, <2>3, <2>4 DEF Synchronised, vars
<1> QED BY <1>1, <1>3, <1>5, <1>6, <1>7, NetworkFrame

LEMMA NetReceivesStep ==
  ASSUME LInv, NetReceives
  PROVE  LInv'
BY NetSABMStep, NetClosedStep, NetIFrameStep, NetIRepeatedStep, NetSupervisoryStep
   DEF NetReceives

-----------------------------------------------------------------------------
(* Signals that are posted. *)

LEMMA Grows ==
  ASSUME NEW s \in Seq(Signals), NEW t \in Seq(Signals)
  PROVE  /\ s \o t \in Seq(Signals)
         /\ \A i \in DOMAIN (s \o t) :
              \/ i \in DOMAIN s /\ (s \o t)[i] = s[i]
              \/ \E j \in DOMAIN t : (s \o t)[i] = t[j]
         /\ \A i \in DOMAIN s : i \in DOMAIN (s \o t) /\ (s \o t)[i] = s[i]
         /\ \A j \in DOMAIN t : \E i \in DOMAIN (s \o t) : (s \o t)[i] = t[j]
<1>1. /\ s \o t \in Seq(Signals)
      /\ DOMAIN s = 1..Len(s) /\ DOMAIN t = 1..Len(t) /\ Len(s) \in Nat /\ Len(t) \in Nat
      /\ DOMAIN (s \o t) = 1..(Len(s) + Len(t))
      /\ \A i \in 1..(Len(s) + Len(t)) :
           (s \o t)[i] = IF i <= Len(s) THEN s[i] ELSE t[i - Len(s)]
  OBVIOUS
<1>2. ASSUME NEW i \in DOMAIN (s \o t)
      PROVE  \/ i \in DOMAIN s /\ (s \o t)[i] = s[i]
             \/ \E j \in DOMAIN t : (s \o t)[i] = t[j]
  <2>1. CASE i <= Len(s)
    BY <1>1, <2>1
  <2>2. CASE ~(i <= Len(s))
    <3>1. i - Len(s) \in DOMAIN t /\ (s \o t)[i] = t[i - Len(s)]
      BY <1>1, <2>2
    <3> QED BY <3>1
  <2> QED BY <2>1, <2>2
<1>3. \A i \in DOMAIN s : i \in DOMAIN (s \o t) /\ (s \o t)[i] = s[i]
  BY <1>1
<1>4. ASSUME NEW j \in DOMAIN t PROVE \E i \in DOMAIN (s \o t) : (s \o t)[i] = t[j]
  <2>1. Len(s) + j \in DOMAIN (s \o t) /\ (s \o t)[Len(s) + j] = t[j]
    BY <1>1
  <2> QED BY <2>1
<1> QED BY <1>1, <1>2, <1>3, <1>4

LEMMA OnlyGrows ==
  ASSUME NEW s \in Seq(Signals), NEW t \in Seq(Signals), NEW names
  PROVE  /\ Only(s, names) /\ Only(t, names) => Only(s \o t, names)
         /\ Some(s, names) \/ Some(t, names) => Some(s \o t, names)
<1> PICK u : u = s \o t
  OBVIOUS
<1>1. /\ \A i \in DOMAIN u : \/ i \in DOMAIN s /\ u[i] = s[i]
                          \/ \E j \in DOMAIN t : u[i] = t[j]
      /\ \A i \in DOMAIN s : i \in DOMAIN u /\ u[i] = s[i]
      /\ \A j \in DOMAIN t : \E i \in DOMAIN u : u[i] = t[j]
  BY Grows
<1>2. Only(s, names) /\ Only(t, names) => Only(u, names)
  BY <1>1, Zenon DEF Only
<1>3. Some(s, names) \/ Some(t, names) => Some(u, names)
  BY <1>1, Zenon DEF Some
<1> QED BY <1>2, <1>3

LEMMA OnlyWhen ==
  ASSUME NEW names, NEW s, s.name \in names
  PROVE  /\ \A b : Only(When(b, s), names)
         /\ Only(<<s>>, names) /\ Only(<<>>, names) /\ Some(<<s>>, names)
BY DEF Only, Some, When

\* The signals of a frame on a link that is up.
LEMMA TakesSignals ==
  ASSUME IInv, NEW f \in Frame(OrNone(Info)), Takes(f)
  PROVE  \E t \in Seq(Signals) :
           signals' = signals \o t /\ Only(t, {"DATA_CNF", "DATA_IND", "CONCATENATE"})
<1> DEFINE a == When(New(f), Concatenate(f.info))
           b == IF Acknowledges(f) THEN FreeSignal(queue) ELSE <<>>
           c == When(New(f) /\ ~f.m, DataInd)
           names == {"DATA_CNF", "DATA_IND", "CONCATENATE"}
<1>1. a \in Seq(Signals) /\ b \in Seq(Signals) /\ c \in Seq(Signals)
  BY FrameFields, SignalTypes, AckTypes DEF New
<1>2. Only(a, names) /\ Only(b, names) /\ Only(c, names)
  <2>1. PICK u, v, w : u = Concatenate(f.info) /\ v = DataCnf /\ w = DataInd
    OBVIOUS
  <2>2. u.name \in names /\ v.name \in names /\ w.name \in names
    BY <2>1 DEF Concatenate, DataCnf, DataInd, Sig
  <2> HIDE DEF names
  <2>3. \A x : Only(When(x, u), names) /\ Only(<<>>, names)
    BY <2>2, OnlyWhen
  <2>4. \A x : Only(When(x, v), names)
    BY <2>2, OnlyWhen
  <2>5. \A x : Only(When(x, w), names)
    BY <2>2, OnlyWhen
  <2> QED BY <2>1, <2>3, <2>4, <2>5 DEF FreeSignal
<1>3. signals' = signals \o (a \o b \o c)
  BY DEF Takes
<1> HIDE DEF a, b, c, names
<1>4. a \o b \in Seq(Signals) /\ Only(a \o b, names)
  BY <1>1, <1>2, Grows, OnlyGrows, Zenon
<1>5. a \o b \o c \in Seq(Signals) /\ Only(a \o b \o c, names)
  BY <1>1, <1>2, <1>4, Grows, OnlyGrows, Zenon
<1> QED BY <1>3, <1>5 DEF names

\* What RR knows when signals are posted.
LEMMA AgreedGrows ==
  ASSUME LInv, NEW t \in Seq(Signals), signals' = signals \o t, UNCHANGED rrView,
         Only(t, SignalNames \ {"ESTABLISH_IND", "ESTABLISH_CNF"}),
         rel.pending => rel'.pending,
         state' = "IDLE" => state = "IDLE" \/ rel'.pending \/ Some(t, EndSignals)
  PROVE  Agreed'
<1>1. signals \in Seq(Signals)
  BY DEF LInv, IInv, TypeOK
<1>2. state' = "IDLE" => rrView' = "DOWN" \/ Told'
  <2>1. Some(signals, EndSignals) \/ Some(t, EndSignals) => Some(signals', EndSignals)
    BY <1>1, OnlyGrows
  <2>2. state = "IDLE" => rrView = "DOWN" \/ rel.pending \/ Some(signals, EndSignals)
    BY DEF LInv, Agreed, Told
  <2> QED BY <2>1, <2>2 DEF Told, EndSignals
<1>3. ASSUME NEW i \in DOMAIN signals',
             signals'[i].name \in {"ESTABLISH_IND", "ESTABLISH_CNF"}
      PROVE  i = 1 /\ rrView' = "ASKED"
  <2>1. i \in DOMAIN signals /\ signals'[i] = signals[i]
    <3>1. \/ i \in DOMAIN signals /\ signals'[i] = signals[i]
          \/ \E j \in DOMAIN t : signals'[i] = t[j]
      BY <1>1, <1>3, Grows
    <3> QED BY <1>3, <3>1 DEF Only
  <2> QED BY <1>3, <2>1 DEF LInv, Agreed
<1> QED BY <1>2, <1>3 DEF Agreed

-----------------------------------------------------------------------------
(* The entity receives a frame. *)

\* A new I frame of the network has the segment that is outstanding.
LEMMA NewIsNext ==
  ASSUME LInv, Linked, NEW f, DownFits(f), New(f)
  PROVE  /\ net.sent = net.acked + 1 /\ Body(f, net.sent)
         /\ cch.vr = net.acked % 8 /\ Incr(cch.vr) = net.sent % 8
<1>1. /\ net.sent \in Nat /\ net.acked \in Nat /\ net.sent \in {net.acked, net.acked + 1}
      /\ cch.vr \in {net.acked % 8, net.sent % 8}
      /\ f.type = "I" /\ f.ns = cch.vr /\ Carries(f)
  BY DEF LInv, LinkType, NetState, UpAndRunning, Synchronised, New, DownFits
<1>2. CASE net.sent = net.acked + 1 /\ Body(f, net.sent)
  <2>1. f.ns = net.acked % 8
    BY <1>1, <1>2 DEF Body
  <2>2. (net.acked + 1) % 8 = Incr(net.acked % 8)
    BY <1>1, Modulo
  <2> QED BY <1>1, <1>2, <2>1, <2>2
<1>3. CASE net.acked > 0 /\ Body(f, net.acked)
  <2>1. f.ns = (net.acked - 1) % 8
    BY <1>3 DEF Body
  <2>2. (net.acked - 1) % 8 # net.acked % 8 /\ (net.acked - 1) % 8 # (net.acked + 1) % 8
    BY <1>1, <1>3
  <2> QED BY <1>1, <2>1, <2>2
<1> QED BY <1>1, <1>2, <1>3 DEF Carries

\* The frames left fit the entity that has taken the first one.
LEMMA TakesSynchronised ==
  ASSUME LInv, Linked, UNCHANGED <<net, up>>, down # <<>>, down' = Tail(down),
         Numbered(Head(down)), Takes(Head(down))
  PROVE  Synchronised'
<1>1. PICK f : f = Head(down)
  OBVIOUS
<1>2. /\ f \in Frame(OrNone(Info)) /\ 1 \in DOMAIN down /\ f = down[1]
      /\ \A i \in DOMAIN down' :
           i \in Nat /\ i + 1 \in DOMAIN down /\ 1 < i + 1 /\ down'[i] = down[i + 1]
  <2>1. down \in Seq(Frame(OrNone(Info)))
    BY DEF LInv, LinkType
  <2> QED BY <1>1, <2>1, Begins
<1>3. Synchronised /\ Running
  BY DEF LInv, UpAndRunning
<1>4. /\ DownFits(f) /\ Numbered(f) /\ Takes(f)
      /\ \A i \in DOMAIN down' : DownFits(down'[i]) /\ InSequence(f, down'[i])
      /\ \A i, j \in DOMAIN down' : i < j => InSequence(down'[i], down'[j])
  <2>1. \A i \in DOMAIN down' : DownFits(down'[i]) /\ InSequence(f, down'[i])
    BY <1>2, <1>3 DEF Synchronised
  <2>2. ASSUME NEW i \in DOMAIN down', NEW j \in DOMAIN down', i < j
        PROVE  InSequence(down'[i], down'[j])
    BY <1>2, <1>3, <2>2 DEF Synchronised
  <2>3. DownFits(f) /\ Numbered(f) /\ Takes(f)
    BY <1>1, <1>2, <1>3 DEF Synchronised
  <2> QED BY <2>1, <2>2, <2>3
<1>5. /\ cch'.va = f.nr /\ cch'.vs = cch.vs /\ f.nr \in {cch.va, net.vr}
      /\ cch'.vr = (IF New(f) THEN Incr(cch.vr) ELSE cch.vr)
      /\ state' = (IF Acks(f) THEN "MFE" ELSE state)
      /\ net.vr \in {cch.va, cch.vs}
  BY <1>3, <1>4 DEF Takes, DownFits, Synchronised
<1>6. cch'.vr \in {net.acked % 8, net.sent % 8}
  <2>1. CASE New(f)
    BY <1>4, <1>5, <2>1, NewIsNext
  <2>2. CASE ~New(f)
    BY <1>3, <1>5, <2>2 DEF Synchronised
  <2> QED BY <2>1, <2>2
<1>7. UpFits'
  <2> SUFFICES ASSUME up # None PROVE UpFits'
    BY DEF UpFits
  <2>1. /\ ~Acks(f) /\ state' = state /\ Numbered(up) /\ up.nr \in {cch.vr, net.acked % 8}
        /\ up.type = "I" =>
             IF up.pf THEN state = "RECOVERY" /\ up.ns = Decr(cch.vs)
                      ELSE /\ state = "MFE" /\ up.ns = cch.va
                           /\ cch.vs # cch.va /\ net.vr = cch.va
    BY <1>3, <1>4, <1>5 DEF DownFits, Synchronised, UpFits
  <2>2. up.nr \in {cch'.vr, net.acked % 8}
    BY <1>4, <1>5, <2>1, NewIsNext
  <2> QED BY <1>5, <2>1, <2>2 DEF UpFits, Numbered
<1>8. ASSUME NEW i \in DOMAIN down' PROVE (DownFits(down[i]))'
  <2>1. PICK g : g = down'[i]
    OBVIOUS
  <2>2. DownFits(g) /\ InSequence(f, g)
    BY <1>4, <2>1
  <2>3. Numbered(g) => g.nr \in {cch'.va, net.vr}
    BY <1>4, <1>5, <2>2 DEF InSequence, DownFits
  <2>4. Acks(g) => ~Acks(f)
    BY <2>2 DEF InSequence, Acks, Numbered
  <2>5. Carries(g) => Carries(g)'
    BY DEF Carries, Body
  <2>6. DownFits(g)'
    BY <1>5, <2>2, <2>3, <2>4, <2>5 DEF DownFits, Numbered, Acks
  <2> QED BY <2>1, <2>6
<1>9. ASSUME NEW i \in DOMAIN down', NEW j \in DOMAIN down', i < j
      PROVE  InSequence(down[i], down[j])'
  BY <1>4, <1>9 DEF InSequence, Numbered, Acks
<1>10. net.vr \in {cch'.va, cch'.vs}
  BY <1>5
<1>11. net.st \in {"MFE", "CLOSING"}
  BY <1>3 DEF Synchronised
<1> QED BY <1>6, <1>7, <1>8, <1>9, <1>10, <1>11 DEF Synchronised

\* What stays when the entity receives a frame.
LEMMA ReceivesFrame ==
  ASSUME LInv, Receives
  PROVE  /\ IInv' /\ Head(down) \in Frame(OrNone(Info)) /\ dl_downlink(Head(down))
         /\ down # <<>> /\ down' = Tail(down) /\ down' \in Seq(Frame(OrNone(Info)))
         /\ UNCHANGED <<net, up, last, rrView>> /\ net.st # "IDLE"
         /\ Head(down) = down[1] /\ 1 \in DOMAIN down
         /\ \A i \in DOMAIN down' :
              i \in Nat /\ i + 1 \in DOMAIN down /\ 1 < i + 1 /\ down'[i] = down[i + 1]
<1>1. /\ down # <<>> /\ down' = Tail(down) /\ dl_downlink(Head(down))
      /\ UNCHANGED <<net, up, last, rrView>>
      /\ down \in Seq(Frame(OrNone(Info))) /\ IInv /\ net.st # "IDLE"
  BY DEF Receives, LInv, LinkType, Unused
<1>2. /\ Head(down) \in Frame(OrNone(Info)) /\ down' \in Seq(Frame(OrNone(Info)))
      /\ Head(down) = down[1] /\ 1 \in DOMAIN down
      /\ \A i \in DOMAIN down' :
           i \in Nat /\ i + 1 \in DOMAIN down /\ 1 < i + 1 /\ down'[i] = down[i + 1]
  BY <1>1, Begins
<1>3. IInv'
  BY <1>1, <1>2, DownlinkStep
<1> QED BY <1>1, <1>2, <1>3

LEMMA ReceivesLinked ==
  ASSUME OnTime, LInv, Receives, Linked
  PROVE  LInv'
<1>1. PICK f : f = Head(down)
  OBVIOUS
<1>2. /\ IInv' /\ f \in Frame(OrNone(Info)) /\ dl_downlink(f)
      /\ down # <<>> /\ down' = Tail(down) /\ down' \in Seq(Frame(OrNone(Info)))
      /\ UNCHANGED <<net, up, last, rrView>>
      /\ f = down[1] /\ 1 \in DOMAIN down
  BY <1>1, ReceivesFrame
<1>3. Synchronised /\ Running /\ DownFits(f) /\ IInv
  BY <1>2 DEF LInv, UpAndRunning, Synchronised
<1>4. up # None => up.type # "SABM"
  BY <1>3 DEF Synchronised, UpFits, Numbered
<1>5. CASE f.type = "DISC"
  <2>1. f.cmd
    BY <1>3, <1>5 DEF DownFits
  <2>2. /\ state' = "RELEASE" /\ signals' = signals
        /\ UNCHANGED <<in_msg, disc_request, rel>>
    BY <1>2, <1>3, <1>5, <2>1, LinkedDisc
  <2>3. Agreed'
    BY <1>2, <2>2 DEF LInv, Agreed, Told
  <2> QED BY <1>2, <1>3, <1>4, <2>2, <2>3 DEF LInv, LinkType, Unused, IsSABM, Contending,
                                             UpAndRunning, Linked, Synchronised
<1>6. CASE f.type # "DISC"
  <2>1. Numbered(f) /\ Fits(f) /\ cch.vtx \in Answering /\ Windowed
    BY <1>3, <1>6 DEF DownFits, Numbered, Fits, Acks, Synchronised, Running
  <2>2. Takes(f)
    BY <1>2, <1>3, <2>1, LinkedTakes
  <2>3. Synchronised'
    BY <1>1, <1>2, <2>1, <2>2, TakesSynchronised
  <2>4. PICK t \in Seq(Signals) :
          signals' = signals \o t /\ Only(t, {"DATA_CNF", "DATA_IND", "CONCATENATE"})
    BY <1>2, <1>3, <2>2, TakesSignals
  <2>5. /\ cch'.va = f.nr /\ cch'.vs = cch.vs /\ f.nr \in {cch.va, cch.vs}
        /\ cch'.vtx \in Answering /\ Windowed' /\ state' \in {"MFE", state}
        /\ state' \in {"MFE", "RECOVERY"}
        /\ queue' \in {queue, free_sending_buffer(queue)}
        /\ UNCHANGED <<in_msg, disc_request, rel>>
    BY <2>1, <2>2 DEF Takes, Fits, Linked
  <2>6. LastKept'
    <3>1. queue \in Queue
      BY <1>3 DEF IInv, TypeOK
    <3>2. queue'.transmit_buffer = queue.transmit_buffer /\ queue'.m_bit = queue.m_bit
      BY <2>5, <3>1 DEF free_sending_buffer, Queue
    <3>3. LastKept
      BY <1>3 DEF Running
    <3> QED BY <1>2, <2>5, <3>2, <3>3 DEF LastKept, Linked
  <2>7. Running'
    <3>1. Only(signals', LinkedSignals)
      <4>1. Only(signals, LinkedSignals) /\ signals \in Seq(Signals)
        BY <1>3 DEF Running, IInv, TypeOK
      <4>2. Only(t, LinkedSignals)
        BY <2>4 DEF Only, LinkedSignals
      <4> QED BY <2>4, <4>1, <4>2, OnlyGrows
    <3> QED BY <1>2, <1>3, <2>5, <2>6, <3>1 DEF Running
  <2>8. Agreed'
    <3>1. Only(t, SignalNames \ {"ESTABLISH_IND", "ESTABLISH_CNF"})
      BY <2>4 DEF Only, SignalNames
    <3> QED BY <1>2, <2>4, <2>5, <3>1, AgreedGrows
  <2>9. state' # "CONTENTION" /\ net.st # "IDLE"
    BY <1>3, <2>5 DEF Synchronised
  <2>10. LinkType'
    BY <1>2, <2>5 DEF LInv, LinkType
  <2> QED BY <1>2, <1>4, <2>3, <2>7, <2>8, <2>9, <2>10
          DEF LInv, Unused, IsSABM, Contending, UpAndRunning
<1> QED BY <1>5, <1>6

\* downlink_contention_resolution() for the frames that may come meanwhile.
LEMMA ContentionTakes ==
  ASSUME IInv, state = "CONTENTION", NEW f \in Frame(OrNone(Info)), EarlyFrame(f), dl_downlink(f)
  PROVE  /\ UNCHANGED <<in_msg, disc_request, rel>>
         /\ queue' \in {queue, [queue EXCEPT !.switch_buffer = None]}
         /\ \/ /\ f.type = "UA" /\ state' = "MFE" /\ cch'.vtx = cch.vtx
               /\ cch'.va = 0 /\ cch'.vr = 0 /\ cch'.vs = 0 /\ ~Timed'
               /\ signals' = signals \o <<EstablishCnf>>
               /\ cch.contention_resolution => queue' = [queue EXCEPT !.switch_buffer = None]
            \/ state' = "IDLE" /\ signals' = signals \o <<ReleaseInd(FALSE)>>
            \/ /\ state' = "CONTENTION" /\ cch'.vtx = cch.vtx /\ queue' = queue
               /\ cch'.contention_resolution = cch.contention_resolution
               /\ signals' = signals \o <<>>
<1>1. f.type \in {"I", "UA", "DISC"} /\ cch \in Channel /\ downlink_contention_resolution(f)
  BY DEF EarlyFrame, IInv, TypeOK, dl_downlink, downlink_idle, downlink_mfe,
         downlink_timer_recovery, downlink_awaiting_release
<1>2. \E c, st, q, pf, t200, sigs :
        /\ c \in Channel /\ Downlinked(c, st, q, pf, t200, sigs) /\ t200 \in {"none", "stop", "start"}
        /\ q \in {queue, [queue EXCEPT !.switch_buffer = None]}
        /\ \/ /\ f.type = "UA" /\ st = "MFE" /\ c.vtx = cch.vtx /\ t200 = "stop"
              /\ c.va = 0 /\ c.vr = 0 /\ c.vs = 0 /\ sigs = <<EstablishCnf>>
              /\ cch.contention_resolution => q = [queue EXCEPT !.switch_buffer = None]
           \/ st = "IDLE" /\ sigs = <<ReleaseInd(FALSE)>>
           \/ /\ st = "CONTENTION" /\ c.vtx = cch.vtx /\ q = queue /\ sigs = <<>>
              /\ c.contention_resolution = cch.contention_resolution
  <2>1. CASE Response(f, "UA") /\ Accepted(f)
    <3>1. PICK c : c = ResetNumbers(cch)
      OBVIOUS
    <3>2. c \in Channel /\ c.vtx = cch.vtx /\ c.va = 0 /\ c.vr = 0 /\ c.vs = 0
      BY <1>1, <3>1, ChannelTypes DEF ResetNumbers, Channel
    <3>3. Downlinked(c, "MFE",
                     IF cch.contention_resolution THEN [queue EXCEPT !.switch_buffer = None]
                                                  ELSE queue,
                     KeptBit, "stop", <<EstablishCnf>>)
      BY <1>1, <2>1, <3>1 DEF downlink_contention_resolution, Response, Command
    <3> QED BY <2>1, <3>2, <3>3 DEF Response
  <2>2. CASE (Response(f, "UA") /\ ~Accepted(f)) \/ Command(f, "DISC")
    <3>1. PICK v, pf : v \in Vtx /\ NotEstablished(v, pf)
      <4>1. cch.vtx \in Vtx /\ "DM" \in Vtx
        BY <1>1 DEF Channel, Vtx
      <4> QED BY <1>1, <2>2, <4>1 DEF downlink_contention_resolution, Response, Command
    <3>2. PICK c : c = [cch EXCEPT !.vtx = v, !.contention_resolution = FALSE]
      OBVIOUS
    <3>3. c \in Channel
      BY <1>1, <3>1, <3>2 DEF Channel
    <3>4. Downlinked(c, "IDLE",
                     IF cch.contention_resolution THEN [queue EXCEPT !.switch_buffer = None]
                                                  ELSE queue,
                     pf, "stop", <<ReleaseInd(FALSE)>>)
      BY <3>1, <3>2 DEF NotEstablished
    <3> QED BY <3>3, <3>4
  <2>3. CASE ~Response(f, "UA") /\ ~Command(f, "DISC")
    <3>1. Downlinked(cch, "CONTENTION", queue, KeptBit, "none", <<>>)
      BY <1>1, <2>3 DEF downlink_contention_resolution, Response, Command, Ignored
    <3> QED BY <1>1, <3>1
  <2> QED BY <2>1, <2>2, <2>3
<1>3. PICK c, st, q, pf, t200, sigs :
        /\ c \in Channel /\ Downlinked(c, st, q, pf, t200, sigs) /\ t200 \in {"none", "stop", "start"}
        /\ q \in {queue, [queue EXCEPT !.switch_buffer = None]}
        /\ \/ /\ f.type = "UA" /\ st = "MFE" /\ c.vtx = cch.vtx /\ t200 = "stop"
              /\ c.va = 0 /\ c.vr = 0 /\ c.vs = 0 /\ sigs = <<EstablishCnf>>
              /\ cch.contention_resolution => q = [queue EXCEPT !.switch_buffer = None]
           \/ st = "IDLE" /\ sigs = <<ReleaseInd(FALSE)>>
           \/ /\ st = "CONTENTION" /\ c.vtx = cch.vtx /\ q = queue /\ sigs = <<>>
              /\ c.contention_resolution = cch.contention_resolution
  BY <1>2
<1>4. /\ cch'.va = c.va /\ cch'.vs = c.vs /\ cch'.vr = c.vr /\ cch'.vtx = c.vtx
      /\ cch'.contention_resolution = c.contention_resolution
      /\ state' = st /\ queue' = q /\ signals' = signals \o sigs
      /\ t200 = "stop" => ~Timed'
      /\ UNCHANGED <<in_msg, disc_request, rel>>
  BY <1>3, StoredChannel
<1> QED BY <1>3, <1>4

LEMMA ReceivesContention ==
  ASSUME OnTime, LInv, Receives, state = "CONTENTION"
  PROVE  LInv'
<1>1. PICK f : f = Head(down)
  OBVIOUS
<1>2. /\ IInv' /\ f \in Frame(OrNone(Info)) /\ dl_downlink(f)
      /\ down # <<>> /\ down' = Tail(down) /\ down' \in Seq(Frame(OrNone(Info)))
      /\ UNCHANGED <<net, up, last, rrView>> /\ net.st # "IDLE"
      /\ f = down[1] /\ 1 \in DOMAIN down
      /\ \A i \in DOMAIN down' :
           i \in Nat /\ i + 1 \in DOMAIN down /\ 1 < i + 1 /\ down'[i] = down[i + 1]
  BY <1>1, ReceivesFrame
<1>3. Awaited /\ Asking /\ EarlyFrame(f) /\ Fresh /\ IInv
  BY <1>2 DEF LInv, Contending, Unused, Awaited
<1>4. /\ UNCHANGED <<in_msg, disc_request, rel>>
      /\ \/ /\ f.type = "UA" /\ state' = "MFE" /\ cch'.vtx = cch.vtx
            /\ cch'.va = 0 /\ cch'.vr = 0 /\ cch'.vs = 0 /\ ~Timed'
            /\ signals' = signals \o <<EstablishCnf>>
         \/ state' = "IDLE" /\ signals' = signals \o <<ReleaseInd(FALSE)>>
         \/ /\ state' = "CONTENTION" /\ cch'.vtx = cch.vtx /\ queue' = queue
            /\ signals' = signals \o <<>>
  BY <1>2, <1>3, ContentionTakes
<1>5. signals = <<>> /\ ~rel.pending /\ ~disc_request /\ rrView = "ASKED"
  BY <1>3 DEF Asking, Fresh
<1>6. LinkType'
  BY <1>2, <1>4 DEF LInv, LinkType
<1>7. CASE state' = "CONTENTION"
  <2>1. signals' = <<>> /\ cch'.vtx = cch.vtx /\ queue' = queue
    BY <1>4, <1>5, <1>7
  <2>2. Awaited'
    <3>1. ASSUME NEW i \in DOMAIN down' PROVE EarlyFrame(down'[i])
      BY <1>2, <1>3 DEF Awaited
    <3>2. ASSUME NEW i \in DOMAIN down', down'[i].type = "UA"
          PROVE  /\ up = None
                 /\ \A j \in DOMAIN down' : i < j =>
                      down'[j].type # "UA" /\ (down'[j].type = "I" => net.sent = 1)
      <4>1. \A j \in DOMAIN down' : i < j => i + 1 < j + 1
        BY <1>2
      <4> QED BY <1>2, <1>3, <3>2, <4>1 DEF Awaited
    <3> QED BY <1>2, <1>3, <3>1, <3>2 DEF Awaited, EarlyFrame, Body
  <2>3. Asking' /\ Fresh'
    BY <1>2, <1>3, <1>4, <1>7, <2>1 DEF Asking, Fresh, Only
  <2> QED BY <1>2, <1>6, <1>7, <2>1, <2>2, <2>3
          DEF LInv, Unused, IsSABM, Contending, UpAndRunning, Linked, Agreed
<1>8. CASE state' = "IDLE"
  <2>1. signals' = <<ReleaseInd(FALSE)>>
    <3>1. signals' = signals \o <<ReleaseInd(FALSE)>>
      BY <1>4, <1>8
    <3>2. <<ReleaseInd(FALSE)>> \in Seq(Signals)
      BY SignalTypes
    <3> QED BY <1>5, <3>1, <3>2, NoSignals
  <2>2. Only(signals', FreshSignals) /\ Some(signals', EndSignals)
    BY <2>1 DEF Only, Some, FreshSignals, EndSignals, ReleaseInd, Sig
  <2>3. Fresh'
    BY <1>2, <1>4, <1>5, <1>8, <2>2 DEF Fresh
  <2>4. Agreed'
    BY <1>5, <2>1, <2>2 DEF Agreed, Told, ReleaseInd, Sig
  <2> QED BY <1>2, <1>6, <1>8, <2>3, <2>4
          DEF LInv, Unused, IsSABM, Contending, UpAndRunning, Linked
<1>9. CASE state' = "MFE"
  <2>1. /\ f.type = "UA" /\ cch'.vtx = cch.vtx /\ signals' = <<EstablishCnf>>
        /\ cch'.va = 0 /\ cch'.vr = 0 /\ cch'.vs = 0 /\ ~Timed'
    BY <1>4, <1>5, <1>9
  <2>2. /\ up = None /\ net.st \in {"MFE", "CLOSING"} /\ net.vr = 0 /\ net.acked = 0
        /\ \A i \in DOMAIN down' :
             /\ EarlyFrame(down'[i])
             /\ down'[i].type # "UA" /\ (down'[i].type = "I" => net.sent = 1)
    BY <1>2, <1>3, <2>1 DEF Awaited
  <2>3. ASSUME NEW i \in DOMAIN down' PROVE (DownFits(down[i]))'
    BY <1>2, <2>1, <2>2 DEF EarlyFrame, DownFits, Numbered, Acks, Carries, Body
  <2>4. ASSUME NEW i \in DOMAIN down', NEW j \in DOMAIN down', i < j
        PROVE  InSequence(down[i], down[j])'
    BY <1>2, <2>2 DEF EarlyFrame, InSequence, Numbered, Acks
  <2>5. Synchronised'
    <3>1. UpFits'
      BY <1>2, <2>2 DEF UpFits
    <3> QED BY <1>2, <2>1, <2>2, <2>3, <2>4, <3>1, Modulo DEF Synchronised
  <2>6. Running'
    <3>1. cch'.vtx \in Answering
      BY <1>3, <2>1 DEF Asking, Answering
    <3>2. Windowed' /\ LastKept'
      BY <1>9, <2>1 DEF Windowed, LastKept
    <3>3. Only(signals', LinkedSignals)
      BY <2>1 DEF Only, LinkedSignals, EstablishCnf, Sig
    <3> QED BY <1>2, <1>4, <1>5, <3>1, <3>2, <3>3 DEF Running
  <2>7. Agreed'
    BY <1>2, <1>5, <1>9, <2>1 DEF Agreed
  <2> QED BY <1>2, <1>6, <1>9, <2>2, <2>5, <2>6, <2>7
          DEF LInv, Unused, IsSABM, Contending, UpAndRunning
<1> QED BY <1>4, <1>7, <1>8, <1>9

\* downlink_idle() and downlink_awaiting_release().
LEMMA ReceivesEnded ==
  ASSUME OnTime, LInv, Receives, state \in {"IDLE", "RELEASE"}
  PROVE  LInv'
<1>1. PICK f : f = Head(down)
  OBVIOUS
<1>2. /\ IInv' /\ f \in Frame(OrNone(Info)) /\ dl_downlink(f)
      /\ down' \in Seq(Frame(OrNone(Info)))
      /\ UNCHANGED <<net, up, last, rrView>> /\ net.st # "IDLE"
  BY <1>1, ReceivesFrame
<1>3. signals \in Seq(Signals) /\ IInv
  BY DEF LInv, IInv, TypeOK
<1>4. \E st, sigs :
        /\ state' = st /\ signals' = signals \o sigs
        /\ UNCHANGED <<in_msg, disc_request, rel>>
        /\ \/ st = state /\ sigs = <<>>
           \/ state = "RELEASE" /\ st = "IDLE" /\ \E b \in BOOLEAN : sigs = <<ReleaseCnf(b)>>
  <2>1. CASE state = "IDLE"
    <3>1. downlink_idle(f)
      BY <1>2, <2>1 DEF dl_downlink, downlink_contention_resolution, downlink_mfe,
                        downlink_timer_recovery, downlink_awaiting_release
    <3> QED BY <2>1, <3>1 DEF OnTime, downlink_idle, Ignored, Downlinked, Post
  <2>2. CASE state = "RELEASE"
    <3>1. downlink_awaiting_release(f)
      BY <1>2, <2>2 DEF dl_downlink, downlink_contention_resolution, downlink_mfe,
                        downlink_timer_recovery, downlink_idle
    <3> QED BY <2>2, <3>1 DEF downlink_awaiting_release, Ignored, Downlinked, Post
  <2> QED BY <2>1, <2>2
<1>5. PICK st, sigs :
        /\ state' = st /\ signals' = signals \o sigs
        /\ UNCHANGED <<in_msg, disc_request, rel>>
        /\ \/ st = state /\ sigs = <<>>
           \/ state = "RELEASE" /\ st = "IDLE" /\ \E b \in BOOLEAN : sigs = <<ReleaseCnf(b)>>
  BY <1>4
<1>6. /\ sigs \in Seq(Signals)
      /\ Only(sigs, SignalNames \ {"ESTABLISH_IND", "ESTABLISH_CNF"})
      /\ st # state => Some(sigs, EndSignals)
  <2>1. CASE sigs = <<>> /\ st = state
    BY <2>1, SignalTypes DEF Only
  <2>2. CASE \E b \in BOOLEAN : sigs = <<ReleaseCnf(b)>>
    <3>1. PICK b : b \in BOOLEAN /\ sigs = <<ReleaseCnf(b)>>
      BY <2>2
    <3>2. PICK s : s = ReleaseCnf(b)
      OBVIOUS
    <3>3. s \in Signals /\ s.name = "RELEASE_CNF"
      BY <3>1, <3>2, SignalTypes DEF ReleaseCnf, Sig
    <3>4. sigs \in Seq(Signals)
      BY <3>1, <3>2, <3>3, SignalTypes
    <3> QED BY <3>1, <3>2, <3>3, <3>4 DEF Only, Some, SignalNames, EndSignals
  <2> QED BY <1>5, <2>1, <2>2
<1>7. Agreed'
  BY <1>2, <1>5, <1>6, AgreedGrows
<1>8. LinkType'
  BY <1>2, <1>5 DEF LInv, LinkType
<1>9. Unused'
  <2>1. CASE st = state
    <3>1. signals' = signals
      BY <1>3, <1>5, <2>1, NoSignals
    <3> QED BY <1>2, <1>5, <2>1, <3>1 DEF LInv, Unused, IsSABM, Fresh
  <2>2. CASE st # state
    BY <1>2, <1>5, <2>2 DEF LInv, Unused, IsSABM, Fresh
  <2> QED BY <2>1, <2>2
<1> QED BY <1>2, <1>5, <1>7, <1>8, <1>9 DEF LInv, Contending, UpAndRunning, Linked

LEMMA ReceivesStep ==
  ASSUME OnTime, LInv, Receives
  PROVE  LInv'
<1>1. state \in {"IDLE", "CONTENTION", "MFE", "RECOVERY", "RELEASE"}
  BY DEF LInv, LinkType
<1> QED BY <1>1, ReceivesLinked, ReceivesContention, ReceivesEnded DEF Linked

-----------------------------------------------------------------------------
(* The DL task and RR. *)

\* What a primitive, or none, means to RR.
LEMMA RRViews ==
  ASSUME NEW view, RRGets(view), NEW p, toRR' \in {<<>>, <<p>>}
  PROVE  IF toRR' = <<>> THEN rrView' = view
         ELSE /\ p.name \in {"RELEASE_IND", "RELEASE_CNF"} => rrView' = "DOWN"
              /\ p.name \in {"ESTABLISH_IND", "ESTABLISH_CNF"} => rrView' = "UP"
              /\ p.name \in {"DATA_CNF", "DATA_IND"} => rrView' = view
<1>1. CASE toRR' = <<>>
  <2>1. \A name : ~Gets(name)
    BY <1>1 DEF Gets
  <2> QED BY <1>1, <2>1 DEF RRGets
<1>2. CASE toRR' # <<>>
  <2>1. \A name : Gets(name) <=> name = p.name
    BY <1>2 DEF Gets
  <2> QED BY <1>2, <2>1 DEF RRGets
<1> QED BY <1>1, <1>2

\* What does not touch the numbers, the state and the frames on their way.
LEMMA SameLink ==
  ASSUME UNCHANGED <<state, cch, net, up, down>>
  PROVE  /\ Synchronised => Synchronised'
         /\ Awaited => Awaited'
         /\ Windowed => Windowed'
<1>1. Synchronised => Synchronised'
  BY DEF Synchronised, UpFits, DownFits, Carries, Body, InSequence, Numbered, Acks
<1>2. Awaited => Awaited'
  BY DEF Awaited, EarlyFrame, Body
<1>3. Windowed => Windowed'
  BY DEF Windowed, Timed
<1> QED BY <1>1, <1>2, <1>3

\* The signals that stay when the first one is handled.
LEMMA SignalsLeft ==
  ASSUME NEW s \in Seq(Signals), s # <<>>
  PROVE  /\ Head(s) \in Signals /\ Tail(s) \in Seq(Signals)
         /\ 1 \in DOMAIN s /\ Head(s) = s[1]
         /\ \A names : Only(s, names) => Only(Tail(s), names) /\ Head(s).name \in names
         /\ \A names : Some(s, names) => Head(s).name \in names \/ Some(Tail(s), names)
<1>1. PICK t : t = Tail(s)
  OBVIOUS
<1>2. /\ Head(s) \in Signals /\ t \in Seq(Signals) /\ 1 \in DOMAIN s /\ Head(s) = s[1]
      /\ \A i \in DOMAIN t : i \in Nat /\ i + 1 \in DOMAIN s /\ 1 < i + 1 /\ t[i] = s[i + 1]
  BY <1>1, Begins
<1>3. ASSUME NEW names, Only(s, names) PROVE Only(t, names) /\ Head(s).name \in names
  BY <1>2, <1>3 DEF Only
<1>4. ASSUME NEW names, Some(s, names) PROVE Head(s).name \in names \/ Some(t, names)
  <2>1. PICK i : i \in DOMAIN s /\ s[i].name \in names
    BY <1>4 DEF Some
  <2>2. i # 1 => i - 1 \in DOMAIN t /\ t[i - 1] = s[i]
    BY <1>1, <2>1
  <2> QED BY <1>2, <2>1, <2>2 DEF Some
<1> QED BY <1>1, <1>2, <1>3, <1>4

\* sig_handle_...: RR is told, and the link stays what it is or ends.
LEMMA Task0Step ==
  ASSUME OnTime, LInv, Task0
  PROVE  LInv'
<1>1. PICK s : s = Head(signals)
  OBVIOUS
<1>2. /\ HandleSignal(s) /\ signals' = Tail(signals) /\ RRGets(rrView)
      /\ signals # <<>> /\ signals \in Seq(Signals)
      /\ UNCHANGED <<net, up, down, last>>
  BY <1>1 DEF Task0, DLTask, LInv, IInv, TypeOK
<1>3. IInv'
  BY SignalStep DEF LInv, Task0
<1>4. /\ s \in Signals /\ signals' \in Seq(Signals) /\ 1 \in DOMAIN signals /\ s = signals[1]
      /\ \A names : Only(signals, names) => Only(signals', names) /\ s.name \in names
      /\ \A names : Some(signals, names) => s.name \in names \/ Some(signals', names)
  BY <1>1, <1>2, SignalsLeft
<1>5. /\ s.name \in {"ESTABLISH_IND", "ESTABLISH_CNF"} => rrView = "ASKED"
      /\ \A i \in DOMAIN signals' :
           signals'[i].name \notin {"ESTABLISH_IND", "ESTABLISH_CNF"}
  <2>1. \A i \in DOMAIN signals :
          signals[i].name \in {"ESTABLISH_IND", "ESTABLISH_CNF"} => i = 1 /\ rrView = "ASKED"
    BY DEF LInv, Agreed
  <2>2. \A i \in DOMAIN signals' :
          i \in Nat /\ i + 1 \in DOMAIN signals /\ 1 < i + 1 /\ signals'[i] = signals[i + 1]
    BY <1>2, Begins
  <2> QED BY <1>4, <2>1, <2>2
<1>6. state # "CONTENTION" /\ (Linked => s.name \in LinkedSignals)
  BY <1>2, <1>4 DEF LInv, Contending, Asking, UpAndRunning, Running
<1>7. CASE s.name \in EndSignals
  <2>1. state \in {"IDLE", "RELEASE"}
    BY <1>6, <1>7 DEF LInv, LinkType, Linked, LinkedSignals, EndSignals
  <2>2. /\ rrView' = "DOWN" /\ state' \in {"IDLE", "RELEASE"}
        /\ state = "IDLE" => /\ state' = "IDLE" /\ (cch' = cch \/ cch'.vtx = "EMPTY")
                             /\ disc_request' \in {disc_request, FALSE}
                             /\ rel'.pending => rel.pending
    <3>1. /\ rel \in Release /\ RelHandled.pending = FALSE /\ NoRelease.pending = FALSE
          /\ ClearedCch.vtx = "EMPTY"
      BY DEF LInv, IInv, TypeOK, RelHandled, Release, NoRelease, ClearedCch
    <3>2. RELEASE_IND.name = "RELEASE_IND" /\ RELEASE_CNF.name = "RELEASE_CNF"
      BY DEF RELEASE_IND, RELEASE_CNF, Prim
    <3>3. rrView' = "DOWN"
      <4>1. toRR' \in {<<RELEASE_IND>>, <<RELEASE_CNF>>}
        BY <1>2, <1>7, <2>1 DEF HandleSignal, EndSignals, Handled, TaskInit, release_req, Task
      <4>2. PICK p : p \in {RELEASE_IND, RELEASE_CNF} /\ toRR' = <<p>>
        BY <4>1
      <4>3. rrView' = "DOWN"
        BY <1>2, <3>2, <4>2, RRViews
      <4> QED BY <4>3
    <3> QED BY <1>2, <1>7, <2>1, <3>1, <3>3
            DEF HandleSignal, EndSignals, Handled, TaskInit, init_dl_data, InitialState, OnTime,
                release_req, Task
  <2>3. Unused'
    <3>1. Fresh => Fresh' /\ state = "IDLE"
      BY <1>4, <2>1, <2>2 DEF Fresh
    <3> QED BY <1>2, <2>1, <2>2, <3>1 DEF LInv, Unused, IsSABM
  <2>4. Agreed'
    BY <1>5, <2>2 DEF Agreed
  <2> QED BY <1>2, <1>3, <2>2, <2>3, <2>4
          DEF LInv, LinkType, Contending, UpAndRunning, Linked
<1>8. CASE s.name \notin EndSignals
  <2>1. s.name \in {"ESTABLISH_IND", "ESTABLISH_CNF", "DATA_CNF", "DATA_IND", "CONCATENATE"}
    BY <1>4, <1>8 DEF Signals, SignalNames, EndSignals
  <2>2. /\ UNCHANGED <<state, cch, rel>>
        /\ queue' \in {queue, [queue EXCEPT !.sending_buffer = None]}
    BY <1>2, <2>1 DEF HandleSignal
  <2>3. rrView' = rrView \/ (rrView = "ASKED" /\ rrView' = "UP")
    <3>1. CASE toRR' = <<>>
      BY <1>2, <3>1, RRViews
    <3>2. CASE toRR' # <<>>
      <4>1. PICK m, n : /\ toRR' = <<Prim(n, m)>> /\ n = s.name
                        /\ n \in {"ESTABLISH_IND", "ESTABLISH_CNF", "DATA_CNF", "DATA_IND"}
        BY <1>2, <2>1, <3>2 DEF HandleSignal, Handled
      <4>2. PICK p : p = Prim(n, m)
        OBVIOUS
      <4>3. toRR' = <<p>> /\ p.name = n
        BY <4>1, <4>2 DEF Prim
      <4>4. /\ p.name \in {"ESTABLISH_IND", "ESTABLISH_CNF"} => rrView' = "UP"
            /\ p.name \in {"DATA_CNF", "DATA_IND"} => rrView' = rrView
        BY <1>2, <3>2, <4>3, RRViews
      <4> QED BY <1>5, <4>1, <4>3, <4>4
    <3> QED BY <3>1, <3>2
  <2>4. ~Fresh
    <3>1. s.name \notin FreshSignals
      BY <2>1 DEF FreshSignals
    <3> QED BY <1>4, <3>1 DEF Fresh
  <2>5. Unused'
    BY <1>2, <1>6, <2>2, <2>4 DEF LInv, Unused, IsSABM
  <2>6. UpAndRunning'
    <3> SUFFICES ASSUME Linked PROVE Synchronised' /\ Running'
      BY <2>2 DEF UpAndRunning, Linked
    <3>1. Synchronised /\ Running
      BY DEF LInv, UpAndRunning
    <3>2. queue'.transmit_buffer = queue.transmit_buffer /\ queue'.m_bit = queue.m_bit
      BY <2>2 DEF LInv, IInv, TypeOK, Queue
    <3>3. Synchronised' /\ Windowed'
      BY <1>2, <2>2, <3>1, SameLink DEF Running
    <3>4. LastKept'
      BY <1>2, <2>2, <3>1, <3>2 DEF Running, LastKept
    <3> QED BY <1>4, <2>2, <2>3, <3>1, <3>3, <3>4 DEF Running
  <2>7. Agreed'
    <3>1. Told => Told'
      BY <1>4, <1>8, <2>2 DEF Told
    <3>2. state = "IDLE" => rrView = "DOWN" \/ Told
      BY DEF LInv, Agreed
    <3> QED BY <1>5, <2>2, <2>3, <3>1, <3>2 DEF Agreed
  <2> QED BY <1>2, <1>3, <1>6, <2>2, <2>5, <2>6, <2>7 DEF LInv, LinkType, Contending
<1> QED BY <1>7, <1>8

\* RR asks for a link that was never up.
LEMMA RREstablishesStep ==
  ASSUME OnTime, LInv, RREstablishes
  PROVE  LInv'
<1>1. /\ rrView = "DOWN" /\ net.st = "IDLE" /\ signals = <<>> /\ UNCHANGED signals
      /\ dcch0_establish_req(EstMsg) /\ RRGets("ASKED")
      /\ UNCHANGED <<net, up, down, last>>
      /\ IInv /\ LinkType /\ Unused /\ Fresh
  BY DEF RREstablishes, RRStep, LInv, Unused
<1>2. EstMsg \in Msgs /\ EstMsg # None /\ EstMsg \in OrNone(Msgs)
  BY LinkAssumption, EntityAssumption DEF OrNone
<1>3. state = "IDLE"
  BY <1>1 DEF Fresh, LInv, Contending, Asking
<1>4. /\ cch' = Establishing([cch EXCEPT !.contention_resolution = TRUE])
      /\ state' = "CONTENTION" /\ disc_request' = FALSE /\ toRR' = <<>>
      /\ queue' = [com_clear_queue(queue) EXCEPT !.switch_buffer = EstMsg]
      /\ UNCHANGED rel
  BY <1>1, <1>2, <1>3 DEF dcch0_establish_req, Task
<1>5. IInv'
  BY <1>1, <1>2, establish_reqStep
<1>6. cch'.vtx = "SABM" /\ queue'.switch_buffer = EstMsg /\ rrView' = "ASKED"
  <2>1. cch \in Channel /\ queue \in Queue /\ com_clear_queue(queue) \in Queue
    BY <1>1, QueueTypes DEF IInv, TypeOK
  <2>2. cch'.vtx = "SABM" /\ queue'.switch_buffer = EstMsg
    BY <1>4, <2>1 DEF Establishing, Channel, Queue
  <2>3. rrView' = "ASKED"
    BY <1>1, <1>4, RRViews
  <2> QED BY <2>2, <2>3
<1>7. Fresh'
  BY <1>1, <1>4, <1>6 DEF Fresh, Only
<1>8. Unused'
  BY <1>1, <1>6, <1>7 DEF Unused, IsSABM
<1>9. Awaited' /\ Asking'
  BY <1>1, <1>6 DEF Awaited, Asking, Unused, NetInit, IsSABM
<1> QED BY <1>1, <1>4, <1>5, <1>8, <1>9
        DEF LInv, LinkType, Contending, UpAndRunning, Linked, Agreed

\* RR hands over a message: the frame that is outstanding stays what it is.
LEMMA RRSendsStep ==
  ASSUME OnTime, LInv, handed \in Nat, RRSends
  PROVE  LInv'
<1>1. PICK m : m = Uplink0[handed + 1]
  OBVIOUS
<1>2. /\ rrView = "UP" /\ data_req(m) /\ RRGets(rrView)
      /\ UNCHANGED <<net, up, down, last, signals>> /\ IInv
  BY <1>1 DEF RRSends, RRStep, LInv
<1>3. queue \in Queue /\ cch \in Channel
  BY <1>2 DEF IInv, TypeOK
<1>4. /\ UNCHANGED <<cch, state, disc_request, rel>> /\ toRR' = <<>> /\ rrView' = "UP"
      /\ queue' \in {queue, com_store_queue(queue, m)}
  BY <1>2, RRViews DEF data_req, Task
<1>5. /\ queue'.transmit_buffer = queue.transmit_buffer /\ queue'.m_bit = queue.m_bit
  BY <1>3, <1>4 DEF com_store_queue, Queue
<1>6. IInv'
  <2>1. m \in Msgs
    <3>1. Uplink0 \in Seq(Msgs) /\ handed + 1 \in 1..Len(Uplink0)
      BY LinkAssumption DEF RRSends
    <3> QED BY <1>1, <3>1
  <2> QED BY <1>2, <2>1, data_reqStep
<1>7. ~Fresh /\ state # "CONTENTION"
  BY <1>2 DEF Fresh, LInv, Contending, Asking
<1>8. Unused'
  BY <1>2, <1>4, <1>7 DEF LInv, Unused, IsSABM
<1>9. UpAndRunning'
  <2> SUFFICES ASSUME Linked PROVE Synchronised' /\ Running'
    BY <1>4 DEF UpAndRunning, Linked
  <2>1. Synchronised' /\ Windowed'
    BY <1>2, <1>4, SameLink DEF LInv, UpAndRunning, Running
  <2>2. Running
    BY DEF LInv, UpAndRunning
  <2>3. LastKept'
    BY <1>2, <1>4, <1>5, <2>2 DEF Running, LastKept
  <2> QED BY <1>2, <1>4, <2>1, <2>2, <2>3 DEF Running
<1>10. Agreed'
  BY <1>2, <1>4 DEF LInv, Agreed, Told
<1> QED BY <1>2, <1>4, <1>6, <1>7, <1>8, <1>9, <1>10 DEF LInv, LinkType, Contending

\* RR releases the link.
LEMMA RRReleasesStep ==
  ASSUME OnTime, LInv, RRReleases
  PROVE  LInv'
<1>1. /\ rrView = "UP" /\ release_req(<<>>, rel) /\ RRGets("CLOSING")
      /\ UNCHANGED <<net, up, down, last, signals>> /\ IInv /\ rel \in Release
      /\ signals' \in Seq(Signals)
  BY DEF RRReleases, RRStep, LInv, IInv, TypeOK
<1>2. IInv'
  BY <1>1, release_reqStep
<1>3. ~Fresh /\ state # "CONTENTION"
  BY <1>1 DEF Fresh, LInv, Contending, Asking
<1>4. \/ Linked /\ UNCHANGED <<cch, state, queue, rel>> /\ rrView' = "CLOSING"
      \/ state' = "RELEASE"
      \/ state' = "IDLE" /\ rrView' = "DOWN"
  <2>1. RELEASE_CNF.name = "RELEASE_CNF" /\ Append(<<>>, RELEASE_CNF) = <<RELEASE_CNF>>
    BY DEF RELEASE_CNF, Prim
  <2>2. toRR' = <<>> => rrView' = "CLOSING"
    BY <1>1, RRViews
  <2>3. toRR' = <<RELEASE_CNF>> => rrView' = "DOWN"
    BY <1>1, <2>1, RRViews
  <2> QED BY <1>1, <1>3, <2>1, <2>2, <2>3
          DEF release_req, Task, TaskInit, init_dl_data, InitialState, OnTime, Linked,
              LInv, LinkType
<1>5. state' # "CONTENTION"
  BY <1>3, <1>4
<1>6. Unused'
  BY <1>1, <1>3, <1>5 DEF LInv, Unused, IsSABM
<1>7. UpAndRunning'
  <2> SUFFICES ASSUME state' \in {"MFE", "RECOVERY"} PROVE Synchronised' /\ Running'
    BY DEF UpAndRunning, Linked
  <2>1. Linked /\ UNCHANGED <<cch, state, queue, rel>> /\ rrView' = "CLOSING"
    BY <1>4
  <2>2. Synchronised' /\ Windowed'
    BY <1>1, <2>1, SameLink DEF LInv, UpAndRunning, Running
  <2>3. Running
    BY <2>1 DEF LInv, UpAndRunning
  <2>4. LastKept'
    BY <1>1, <2>1, <2>3 DEF Running, LastKept
  <2> QED BY <1>1, <2>1, <2>2, <2>3, <2>4 DEF Running
<1>8. Agreed'
  BY <1>1, <1>4 DEF LInv, Agreed, Linked
<1>9. LinkType'
  BY <1>1, <1>4 DEF LInv, LinkType, Linked
<1> QED BY <1>2, <1>5, <1>6, <1>7, <1>8, <1>9 DEF LInv, Contending

-----------------------------------------------------------------------------
(* The link starts so. *)

LEMMA InitLInv ==
  ASSUME OnTime, LinkInit
  PROVE  LInv
<1>1. IInv /\ state = "IDLE" /\ cch.vtx = "EMPTY"
  BY InitIInv DEF LinkInit, Init, InitialState, OnTime, ClearedCch
<1>2. NetInit \in NetState /\ NetInit.sent = 0 /\ NetInit.acked = 0 /\ NetInit.st = "IDLE"
  BY DEF NetInit, NetState, Numbers
<1>3. LinkType
  <2>1. up \in OrNone(Frame(Infos)) /\ down \in Seq(Frame(OrNone(Info)))
    BY DEF LinkInit, OrNone
  <2>2. Len(DownFrames) \in Nat
    BY LinkAssumption
  <2> QED BY <1>1, <1>2, <2>1, <2>2 DEF LinkInit, LinkType
<1>4. signals = <<>> /\ ~disc_request /\ ~rel.pending /\ rrView = "DOWN"
  BY DEF LinkInit, Init, NoRelease
<1>5. Unused
  BY <1>1, <1>2, <1>4 DEF LinkInit, Unused, IsSABM, Fresh, Only
<1> QED BY <1>1, <1>3, <1>4, <1>5 DEF LInv, Contending, UpAndRunning, Linked, Agreed

\* Steps that leave all of it as it is.
LEMMA StutterLInv ==
  ASSUME LInv, UNCHANGED <<vars, net, up, down, last, rrView>>
  PROVE  LInv'
<1> USE DEF vars
<1>1. /\ state = "CONTENTION" => Awaited'
      /\ Linked => Synchronised'
  BY SameLink DEF LInv, Contending, UpAndRunning
<1>2. LinkType'
  BY DEF LInv, LinkType
<1>3. net'.st = "IDLE" => net' = net /\ down' = <<>>
  BY DEF LInv, Unused
<1> QED BY <1>1, <1>2, <1>3, NetworkFrame

-----------------------------------------------------------------------------
(* An opportunity to send. *)

\* T200 of channel c runs or is to be started.
On(c) == c.T200_counter # T200_STOPPED \/ c.time_flag

\* The channel c is that of the entity but for its timer.
Same(c) ==
  /\ c \in Channel
  /\ c.va = cch.va /\ c.vr = cch.vr /\ c.vs = cch.vs /\ c.vtx = cch.vtx

LEMMA TickedSame ==
  ASSUME IInv
  PROVE  Same(Ticked) /\ (On(Ticked) <=> Timed)
<1>1. cch \in Channel /\ Ticked \in Channel
  BY TickedGood DEF IInv, TypeOK, Good, Sound
<1>2. Ticked.va = cch.va /\ Ticked.vr = cch.vr /\ Ticked.vs = cch.vs /\ Ticked.vtx = cch.vtx
  BY <1>1 DEF Ticked, Channel
<1>3. On(Ticked) <=> Timed
  BY <1>1 DEF On, Timed, Ticked, Channel, T200Range, T200_STOPPED, T200_ACTIVE
<1> QED BY <1>1, <1>2, <1>3 DEF Same

LEMMA RestartedSame ==
  ASSUME NEW c, Same(c)
  PROVE  Same(Restarted(c)) /\ (On(Restarted(c)) <=> On(c))
<1>1. c \in Channel /\ Restarted(c) \in Channel /\ T200Count # T200_STOPPED
  BY ChannelTypes, EntityAssumption DEF Same, T200_ACTIVE, T200_STOPPED
<1> QED BY <1>1 DEF Same, On, Restarted, set_T200_counter, Channel

\* T200_expiry() on a link that is up: the poll of timer recovery, or the end.
LEMMA LinkedEntity ==
  ASSUME IInv, Sapi = 0, Linked, Windowed, NEW e,
         \/ e = [c |-> Ticked, st |-> state, sigs |-> <<>>]
         \/ e = AfterT200(Ticked)
  PROVE  \/ /\ e.st \in {state, "RECOVERY"} /\ e.sigs = <<>> /\ Same(e.c)
            /\ e.st = "MFE" => (On(e.c) <=> Timed)
            /\ e.st = "RECOVERY" => cch.vs # cch.va \/ state = "RECOVERY"
         \/ e.st = "IDLE" /\ e.sigs = <<ErrorInd>> /\ e.c.vtx = "EMPTY"
<1>1. Same(Ticked) /\ (On(Ticked) <=> Timed) /\ Ticked \in Channel
  BY TickedSame DEF Same
<1>2. CASE e = [c |-> Ticked, st |-> state, sigs |-> <<>>]
  BY <1>1, <1>2
<1>3. CASE e = AfterT200(Ticked) /\ Ticked.T200_counter # T200_EXPIRED
  BY <1>1, <1>3 DEF AfterT200
<1>4. CASE e = AfterT200(Ticked) /\ Ticked.T200_counter = T200_EXPIRED
  <2>1. e = T200_expiry(Ticked) /\ Timed
    BY <1>1, <1>4 DEF AfterT200, On, T200_EXPIRED, T200_STOPPED
  <2>2. CASE state = "MFE"
    <3> PICK d : d = [Ticked EXCEPT !.rc = 1, !.p_bit_flag = TRUE, !.time_flag = TRUE]
      OBVIOUS
    <3>1. e = [c |-> d, st |-> "RECOVERY", sigs |-> <<>>]
      BY <2>1, <2>2 DEF T200_expiry
    <3>2. Same(d)
      BY <1>1, NumberTypes DEF Same, Channel
    <3> QED BY <2>1, <2>2, <3>1, <3>2 DEF Windowed
  <2>3. CASE state = "RECOVERY" /\ ~Exhausted(Ticked, N200)
    <3> PICK d : d = [Retry(Ticked) EXCEPT !.p_bit_flag = TRUE]
      OBVIOUS
    <3>1. e = [c |-> d, st |-> state, sigs |-> <<>>]
      BY <2>1, <2>3 DEF T200_expiry
    <3>2. Same(d)
      <4>1. Retry(Ticked) \in Channel
        BY <1>1, ChannelTypes
      <4> QED BY <1>1, <4>1 DEF Same, Channel, Retry
    <3> QED BY <2>3, <3>1, <3>2
  <2>4. CASE state = "RECOVERY" /\ Exhausted(Ticked, N200)
    <3> PICK d : d = [Ticked EXCEPT !.T200_counter = T200_STOPPED, !.time_flag = FALSE,
                                    !.contention_resolution = FALSE, !.vtx = "EMPTY"]
      OBVIOUS
    <3>1. e = [c |-> d, st |-> "IDLE", sigs |-> <<ErrorInd>>]
      BY <2>1, <2>4 DEF T200_expiry
    <3>2. d.vtx = "EMPTY"
      BY <1>1 DEF Channel
    <3> QED BY <3>1, <3>2
  <2> QED BY <2>2, <2>3, <2>4 DEF Linked
<1> QED BY <1>2, <1>3, <1>4

\* What an opportunity of a link that is up sends.
Silent ==
  /\ cch'.vs = cch.vs /\ queue' = queue
  /\ state' = "MFE" => (Timed' <=> Timed)
  /\ l2_frame' # None => Acks(l2_frame') /\ l2_frame'.nr = cch.vr

SendsNew ==
  /\ state = "MFE" /\ state' = "MFE" /\ cch.vs # Incr(cch.va) /\ cch'.vs = Incr(cch.vs)
  /\ com_queue_awaiting_transmission(queue) /\ NextSegmentReadable
  /\ queue' = com_read_queue(queue)
  /\ Timed'
  /\ l2_frame' # None /\ l2_frame'.type = "I" /\ ~l2_frame'.pf
  /\ l2_frame'.ns = cch.vs /\ l2_frame'.nr = cch.vr
  /\ l2_frame'.info = queue'.transmit_buffer /\ l2_frame'.m = queue'.m_bit

Polls ==
  /\ state' = "RECOVERY" /\ cch'.vs = cch.vs /\ queue' = queue
  /\ l2_frame' # None /\ l2_frame'.type = "I" /\ l2_frame'.pf
  /\ l2_frame'.ns = Decr(cch.vs) /\ l2_frame'.nr = cch.vr
  /\ l2_frame'.info = queue.transmit_buffer /\ l2_frame'.m = queue.m_bit

GoesOn ==
  /\ state' \in {state, "RECOVERY"}
  /\ state' = "RECOVERY" => cch.vs # cch.va \/ state = "RECOVERY"
  /\ cch'.va = cch.va /\ cch'.vr = cch.vr /\ cch'.vtx \in Answering
  /\ signals' = signals \o (RelSignal \o <<>>)
  /\ Silent \/ SendsNew \/ Polls

GivesUp ==
  /\ state' = "IDLE" /\ l2_frame' = None /\ queue' = queue
  /\ signals' = signals \o (RelSignal \o <<ErrorInd>>)

LEMMA SentResponse ==
  ASSUME NEW t \in {"RR", "REJ"}, NEW nr, NEW b
  PROVE  SResponse(t, nr, b).type = t /\ SResponse(t, nr, b).nr = nr /\ ~SResponse(t, nr, b).cmd
BY DEF SResponse, UFrame

\* A channel that is stored with nothing, or with a response, sent.
Responding(c) == {c, [c EXCEPT !.f_bit_flag = FALSE]}

LEMMA SilentStep ==
  ASSUME IInv, NEW c, Same(c), NEW d \in Responding(c), NEW st, NEW f,
         st = "MFE" => (On(c) <=> Timed), cch.vtx \in Answering,
         \/ Dummy(c, st, <<>>)
         \/ Sends(d, st, queue, f, <<>>) /\ f.type \in {"RR", "REJ"} /\ ~f.cmd /\ f.nr = cch.vr
  PROVE  /\ Silent /\ state' = st /\ cch'.va = cch.va /\ cch'.vr = cch.vr
         /\ cch'.vtx \in Answering /\ signals' = signals \o (RelSignal \o <<>>)
<1>1. CASE Dummy(c, st, <<>>)
  BY <1>1 DEF Dummy, Uplinked, Post, Silent, Same, On, Timed
<1>2. CASE Sends(d, st, queue, f, <<>>) /\ f.type \in {"RR", "REJ"} /\ ~f.cmd /\ f.nr = cch.vr
  <2>1. PICK x : x = [d EXCEPT !.vtx = "EMPTY"]
    OBVIOUS
  <2>2. /\ x.va = cch.va /\ x.vs = cch.vs /\ x.vr = cch.vr /\ x.vtx = "EMPTY"
        /\ (On(x) <=> On(c))
    BY <2>1 DEF Same, Channel, On, Responding
  <2>3. Uplinked(x, st, queue, f, <<>>)
    BY <1>2, <2>1 DEF Sends
  <2> QED BY <1>2, <2>2, <2>3 DEF Uplinked, Post, Silent, Timed, On, Answering, Acks
<1> QED BY <1>1, <1>2

\* uplink_mfe() sends an I frame when the window is open.
LEMMA LinkedMfe ==
  ASSUME IInv, Sapi = 0, state = "MFE", cch.vtx \in Answering, NEW e, e.st = "MFE", e.sigs = <<>>,
         Same(e.c), On(e.c) <=> Timed, uplink_mfe(Restarted(e.c), e)
  PROVE  GoesOn
<1>1. PICK c : c = Restarted(e.c)
  OBVIOUS
<1>2. Same(c) /\ (On(c) <=> Timed) /\ uplink_mfe(c, e) /\ c \in Channel /\ "MFE" # "RECOVERY"
  BY <1>1, RestartedSame DEF Same
<1>3. CASE \/ Dummy(c, "MFE", <<>>)
           \/ \E t \in {"RR", "REJ"} : \E b : Sends(c, "MFE", queue, SResponse(t, c.vr, b), <<>>)
           \/ \E t \in {"RR", "REJ"} : \E b :
                Sends([c EXCEPT !.f_bit_flag = FALSE], "MFE", queue, SResponse(t, c.vr, b), <<>>)
  <2>1. PICK st : st = "MFE"
    OBVIOUS
  <2>2. PICK d, f :
          /\ d \in Responding(c)
          /\ \/ Dummy(c, st, <<>>)
             \/ Sends(d, st, queue, f, <<>>) /\ f.type \in {"RR", "REJ"} /\ ~f.cmd /\ f.nr = cch.vr
    <3>1. c.vr = cch.vr
      BY <1>2 DEF Same
    <3>2. CASE Dummy(c, "MFE", <<>>)
      BY <2>1, <3>2 DEF Responding
    <3>3. CASE \E t \in {"RR", "REJ"} : \E b :
                 Sends(c, "MFE", queue, SResponse(t, c.vr, b), <<>>)
      BY <2>1, <3>1, <3>3, SentResponse DEF Responding
    <3>4. CASE \E t \in {"RR", "REJ"} : \E b :
                 Sends([c EXCEPT !.f_bit_flag = FALSE], "MFE", queue, SResponse(t, c.vr, b), <<>>)
      BY <2>1, <3>1, <3>4, SentResponse DEF Responding
    <3> QED BY <1>3, <3>2, <3>3, <3>4
  <2>3. Same(c) /\ (st = "MFE" => (On(c) <=> Timed))
    BY <1>2, <2>1
  <2>4. /\ Silent /\ state' = st /\ cch'.va = cch.va /\ cch'.vr = cch.vr
        /\ cch'.vtx \in Answering /\ signals' = signals \o (RelSignal \o <<>>)
    BY <2>2, <2>3, SilentStep, Zenon
  <2> QED BY <1>2, <2>1, <2>4 DEF GoesOn
<1>4. CASE /\ MaySendI(c) /\ NextSegmentReadable
           /\ LET q == com_read_queue(queue)
              IN Sends(set_T200_counter([c EXCEPT !.vs = Incr(@)]), "MFE", q,
                       ICommand(c.vs, c.vr, FALSE, q), <<>>)
  <2>1. PICK q, v, x, f : /\ q = com_read_queue(queue)
                          /\ v = [c EXCEPT !.vs = Incr(@)]
                          /\ x = set_T200_counter(v)
                          /\ f = ICommand(c.vs, c.vr, FALSE, q)
    OBVIOUS
  <2>2. Sends(x, "MFE", q, f, <<>>)
    BY <1>4, <2>1
  <2>3. /\ v \in Channel /\ v.va = cch.va /\ v.vr = cch.vr /\ v.vs = Incr(cch.vs)
    BY <1>2, <2>1, NumberTypes DEF Same, Channel
  <2>4. PICK y : y = [x EXCEPT !.vtx = "EMPTY"]
    OBVIOUS
  <2>5. /\ y.va = cch.va /\ y.vr = cch.vr /\ y.vs = Incr(cch.vs) /\ y.vtx = "EMPTY" /\ On(y)
    BY <2>1, <2>3, <2>4, EntityAssumption
       DEF set_T200_counter, Channel, On, T200_ACTIVE, T200_STOPPED
  <2>6. /\ cch' = y /\ state' = "MFE" /\ queue' = q /\ l2_frame' = f
        /\ signals' = signals \o (RelSignal \o <<>>)
    BY <2>2, <2>4 DEF Sends, Uplinked, Post
  <2>7. /\ f.type = "I" /\ ~f.pf /\ f.ns = cch.vs /\ f.nr = cch.vr
        /\ f.info = q.transmit_buffer /\ f.m = q.m_bit
    BY <1>2, <2>1 DEF ICommand, Same
  <2>8. /\ cch.vs # Incr(cch.va)
        /\ com_queue_awaiting_transmission(queue) /\ NextSegmentReadable
    BY <1>2, <1>4 DEF MaySendI, Same
  <2>9. f # None
    <3>1. q \in Queue
      BY <1>4, <2>1, ReadType DEF MaySendI, NextSegmentReadable, IInv, TypeOK
    <3>2. f \in Frame(Infos)
      <4>1. c.vs \in Numbers /\ c.vr \in Numbers
        BY <1>2 DEF Channel
      <4> QED BY <2>1, <3>1, <4>1, SentTypes
    <3> QED BY <3>2, LinkAssumption DEF Infos
  <2> QED BY <2>1, <2>5, <2>6, <2>7, <2>8, <2>9 DEF GoesOn, SendsNew, Timed, On, Answering
<1> QED
  <2>1. c.vtx # "UA" /\ c.vtx \in Answering
    BY <1>2 DEF Same, Answering
  <2> QED BY <1>2, <1>3, <1>4, <2>1 DEF uplink_mfe, Responds

\* uplink_timer_recovery() repeats the last I frame with P = 1.
LEMMA LinkedRecovery ==
  ASSUME IInv, Sapi = 0, Linked, cch.vtx \in Answering, NEW e, e.st = "RECOVERY", e.sigs = <<>>,
         Same(e.c), cch.vs # cch.va \/ state = "RECOVERY",
         uplink_timer_recovery(Restarted(e.c), e)
  PROVE  GoesOn
<1>1. PICK c : c = Restarted(e.c)
  OBVIOUS
<1>2. Same(c) /\ uplink_timer_recovery(c, e) /\ c \in Channel /\ "MFE" # "RECOVERY"
  BY <1>1, RestartedSame DEF Same
<1>3. CASE \/ Dummy(c, "RECOVERY", <<>>)
           \/ \E t \in {"RR", "REJ"} : \E b :
                Sends(c, "RECOVERY", queue, SResponse(t, c.vr, b), <<>>)
           \/ \E t \in {"RR", "REJ"} : \E b :
                Sends([c EXCEPT !.f_bit_flag = FALSE], "RECOVERY", queue,
                      SResponse(t, c.vr, b), <<>>)
  <2>1. PICK st : st = "RECOVERY"
    OBVIOUS
  <2>2. PICK d, f :
          /\ d \in Responding(c)
          /\ \/ Dummy(c, st, <<>>)
             \/ Sends(d, st, queue, f, <<>>) /\ f.type \in {"RR", "REJ"} /\ ~f.cmd /\ f.nr = cch.vr
    <3>1. c.vr = cch.vr
      BY <1>2 DEF Same
    <3>2. CASE Dummy(c, "RECOVERY", <<>>)
      BY <2>1, <3>2 DEF Responding
    <3>3. CASE \E t \in {"RR", "REJ"} : \E b :
                 Sends(c, "RECOVERY", queue, SResponse(t, c.vr, b), <<>>)
      BY <2>1, <3>1, <3>3, SentResponse DEF Responding
    <3>4. CASE \E t \in {"RR", "REJ"} : \E b :
                 Sends([c EXCEPT !.f_bit_flag = FALSE], "RECOVERY", queue, SResponse(t, c.vr, b), <<>>)
      BY <2>1, <3>1, <3>4, SentResponse DEF Responding
    <3> QED BY <1>3, <3>2, <3>3, <3>4
  <2>3. Same(c) /\ (st = "MFE" => (On(c) <=> Timed))
    BY <1>2, <2>1
  <2>4. /\ Silent /\ state' = st /\ cch'.va = cch.va /\ cch'.vr = cch.vr
        /\ cch'.vtx \in Answering /\ signals' = signals \o (RelSignal \o <<>>)
    BY <2>2, <2>3, SilentStep, Zenon
  <2> QED BY <1>2, <2>1, <2>4 DEF GoesOn
<1>4. CASE Sends(set_T200_counter([c EXCEPT !.p_bit_flag = FALSE]), "RECOVERY", queue,
                 ICommand(Decr(c.vs), c.vr, TRUE, queue), <<>>)
  <2>1. PICK v, x, f : /\ v = [c EXCEPT !.p_bit_flag = FALSE]
                       /\ x = set_T200_counter(v)
                       /\ f = ICommand(Decr(c.vs), c.vr, TRUE, queue)
    OBVIOUS
  <2>2. Sends(x, "RECOVERY", queue, f, <<>>)
    BY <1>4, <2>1
  <2>3. PICK y : y = [x EXCEPT !.vtx = "EMPTY"]
    OBVIOUS
  <2>4. /\ y.va = cch.va /\ y.vr = cch.vr /\ y.vs = cch.vs /\ y.vtx = "EMPTY"
    <3>1. v \in Channel /\ v.va = cch.va /\ v.vr = cch.vr /\ v.vs = cch.vs
      BY <1>2, <2>1 DEF Same, Channel
    <3> QED BY <2>1, <2>3, <3>1 DEF set_T200_counter, Channel
  <2>5. /\ cch' = y /\ state' = "RECOVERY" /\ queue' = queue /\ l2_frame' = f
        /\ signals' = signals \o (RelSignal \o <<>>)
    BY <2>2, <2>3 DEF Sends, Uplinked, Post
  <2>6. /\ f.type = "I" /\ f.pf /\ f.ns = Decr(cch.vs) /\ f.nr = cch.vr
        /\ f.info = queue.transmit_buffer /\ f.m = queue.m_bit
    BY <1>2, <2>1 DEF ICommand, Same
  <2>7. f # None
    <3>1. Decr(c.vs) \in Numbers /\ c.vr \in Numbers /\ queue \in Queue
      BY <1>2, NumberTypes DEF Channel, IInv, TypeOK
    <3>2. f \in Frame(Infos)
      BY <2>1, <3>1, SentTypes
    <3> QED BY <3>2, LinkAssumption DEF Infos
  <2> QED BY <2>4, <2>5, <2>6, <2>7 DEF GoesOn, Polls, Answering
<1> QED
  <2>1. c.vtx # "UA" /\ c.vtx \in Answering
    BY <1>2 DEF Same, Answering
  <2> QED BY <1>2, <1>3, <1>4, <2>1 DEF uplink_timer_recovery, Responds

\* dl_uplink() on a link that is up, no release being due.
LEMMA LinkedUplink ==
  ASSUME IInv, Sapi = 0, Linked, Windowed, cch.vtx \in Answering, NEW busy \in BOOLEAN,
         dl_uplink(busy), ~check_disc(Ticked)
  PROVE  (GoesOn \/ GivesUp) /\ rel' = RelTick /\ UNCHANGED <<disc_request, in_msg>>
<1>1. PICK e : e = IF busy /\ state = "MFE" THEN [c |-> Ticked, st |-> state, sigs |-> <<>>]
                                            ELSE AfterT200(Ticked)
  OBVIOUS
<1>2. PICK c : c = Restarted(e.c)
  OBVIOUS
<1>3. /\ rel' = (IF Acknowledging(c, e) THEN RelPending ELSE RelTick)
      /\ UNCHANGED <<disc_request, in_msg>>
      /\ \/ busy /\ state = "MFE" /\ Dummy(e.c, e.st, e.sigs)
         \/ uplink_idle(e)
         \/ uplink_awaiting_establishment(c, e)
         \/ uplink_mfe(c, e)
         \/ uplink_timer_recovery(c, e)
         \/ uplink_awaiting_release(c, e)
         \/ uplink_suspended(e)
  BY <1>1, <1>2 DEF dl_uplink
<1>4. \/ /\ e.st \in {state, "RECOVERY"} /\ e.sigs = <<>> /\ Same(e.c)
         /\ e.st = "MFE" => (On(e.c) <=> Timed)
         /\ e.st = "RECOVERY" => cch.vs # cch.va \/ state = "RECOVERY"
      \/ e.st = "IDLE" /\ e.sigs = <<ErrorInd>> /\ e.c.vtx = "EMPTY"
  BY <1>1, LinkedEntity
<1>5. rel' = RelTick
  BY <1>3, <1>4 DEF Acknowledging, Linked
<1>6. CASE e.st = "IDLE" /\ e.sigs = <<ErrorInd>> /\ e.c.vtx = "EMPTY"
  <2>1. Dummy(e.c, e.st, e.sigs)
    BY <1>1, <1>3, <1>6 DEF uplink_idle, uplink_awaiting_establishment, uplink_mfe,
       uplink_timer_recovery, uplink_awaiting_release, uplink_suspended
  <2>2. GivesUp
    BY <1>6, <2>1 DEF Dummy, Uplinked, Post, GivesUp
  <2> QED BY <1>3, <1>5, <2>2
<1>7. CASE e.st = "MFE" /\ e.sigs = <<>> /\ Same(e.c) /\ (On(e.c) <=> Timed)
  <2>1. state = "MFE"
    BY <1>4, <1>7
  <2>2. CASE Dummy(e.c, e.st, e.sigs)
    <3>1. PICK d, st, f : d = e.c /\ st = e.st /\ f = None
      OBVIOUS
    <3>2. d \in Responding(d) /\ Same(d) /\ (On(d) <=> Timed) /\ Dummy(d, st, <<>>)
      BY <1>7, <2>2, <3>1 DEF Responding
    <3>3. /\ Silent /\ state' = st /\ cch'.va = cch.va /\ cch'.vr = cch.vr
          /\ cch'.vtx \in Answering /\ signals' = signals \o (RelSignal \o <<>>)
      BY <3>2, SilentStep, Zenon
    <3>4. GoesOn
      BY <1>7, <2>1, <3>1, <3>3 DEF GoesOn
    <3> QED BY <1>3, <1>5, <3>4
  <2>3. CASE uplink_mfe(c, e)
    BY <1>2, <1>3, <1>5, <1>7, <2>1, <2>3, LinkedMfe
  <2> QED BY <1>3, <1>7, <2>2, <2>3 DEF uplink_idle, uplink_awaiting_establishment,
       uplink_timer_recovery, uplink_awaiting_release, uplink_suspended
<1>8. CASE /\ e.st = "RECOVERY" /\ e.sigs = <<>> /\ Same(e.c)
           /\ cch.vs # cch.va \/ state = "RECOVERY"
  <2>1. uplink_timer_recovery(c, e)
    BY <1>1, <1>3, <1>8 DEF uplink_idle, uplink_awaiting_establishment,
       uplink_mfe, uplink_awaiting_release, uplink_suspended
  <2> QED BY <1>2, <1>3, <1>5, <1>8, <2>1, LinkedRecovery
<1> QED BY <1>4, <1>6, <1>7, <1>8 DEF Linked

\* What an opportunity leaves alone.
LEMMA OpportunityFrame ==
  ASSUME OnTime, LInv, Opportunity
  PROVE  /\ IInv /\ IInv' /\ up = None /\ down = <<>> /\ up' = l2_frame'
         /\ up' \in OrNone(Frame(Infos))
         /\ last' = (IF NewIFrame THEN l2_frame' ELSE last)
         /\ UNCHANGED <<net, down, rrView>>
         /\ \E busy \in BOOLEAN : dl_uplink(busy)
         /\ signals \in Seq(Signals) /\ RelSignal \in Seq(Signals)
         /\ RelTick.pending = rel.pending /\ RelPending.pending
         /\ ~rel.pending => RelSignal = <<>>
<1>1. /\ IInv /\ up = None /\ down = <<>> /\ up' = l2_frame' /\ Uplink
      /\ last' = (IF NewIFrame THEN l2_frame' ELSE last) /\ UNCHANGED <<net, down, rrView>>
  BY DEF Opportunity, OnTime, LInv
<1>2. IInv'
  BY <1>1, UplinkStep DEF Uplink
<1>3. up' \in OrNone(Frame(Infos))
  BY <1>1, <1>2 DEF IInv, TypeOK, Infos
<1>4. /\ signals \in Seq(Signals) /\ RelSignal \in Seq(Signals) /\ rel \in Release
  BY <1>1, ReleaseTypes DEF IInv, TypeOK
<1>5. RelTick.pending = rel.pending /\ RelPending.pending
  BY <1>4 DEF RelTick, RelPending, Release
<1>6. ~rel.pending => RelSignal = <<>>
  BY DEF RelSignal, When
<1> QED BY <1>1, <1>2, <1>3, <1>4, <1>5, <1>6 DEF Uplink

\* The signals of an opportunity: that of a delayed release, and others.
LEMMA OpportunitySignals ==
  ASSUME OnTime, LInv, Opportunity, NEW sigs \in Seq(Signals), Only(sigs, EndSignals),
         signals' = signals \o (RelSignal \o sigs), rel' \in {RelTick, RelPending},
         state' = "IDLE" => state = "IDLE" \/ rel' = RelPending \/ Some(sigs, EndSignals)
  PROVE  Agreed'
<1>1. /\ RelSignal \in Seq(Signals) /\ UNCHANGED rrView
      /\ rel.pending => rel'.pending
      /\ rel' = RelPending => rel'.pending
  BY OpportunityFrame
<1>2. Only(RelSignal, EndSignals)
  <2>1. PICK s : s = ReleaseInd(TRUE)
    OBVIOUS
  <2>2. s.name \in EndSignals
    BY <2>1 DEF ReleaseInd, Sig, EndSignals
  <2>3. \A b : Only(When(b, s), EndSignals)
    BY <2>2, OnlyWhen
  <2> QED BY <2>1, <2>3 DEF RelSignal
<1>3. PICK t : t = RelSignal \o sigs
  OBVIOUS
<1>4. /\ t \in Seq(Signals) /\ Only(t, EndSignals)
      /\ Some(sigs, EndSignals) => Some(t, EndSignals)
  BY <1>1, <1>2, <1>3, Grows, OnlyGrows
<1>5. Only(t, SignalNames \ {"ESTABLISH_IND", "ESTABLISH_CNF"})
  BY <1>4 DEF Only, EndSignals, SignalNames
<1>6. state' = "IDLE" => state = "IDLE" \/ rel'.pending \/ Some(t, EndSignals)
  BY <1>1, <1>4
<1> QED BY <1>1, <1>3, <1>4, <1>5, <1>6, AgreedGrows

LEMMA EndTypes ==
  /\ <<>> \in Seq(Signals) /\ Only(<<>>, EndSignals)
  /\ <<ErrorInd>> \in Seq(Signals) /\ Only(<<ErrorInd>>, EndSignals)
  /\ Some(<<ErrorInd>>, EndSignals) /\ Only(<<ErrorInd>>, FreshSignals)
  /\ <<ReleaseCnf(TRUE)>> \in Seq(Signals) /\ Only(<<ReleaseCnf(TRUE)>>, EndSignals)
  /\ Some(<<ReleaseCnf(TRUE)>>, EndSignals)
<1>1. PICK s, t : s = ErrorInd /\ t = ReleaseCnf(TRUE)
  OBVIOUS
<1>2. s.name \in EndSignals /\ t.name \in EndSignals /\ s.name \in FreshSignals
  BY <1>1 DEF ErrorInd, ReleaseCnf, Sig, EndSignals, FreshSignals
<1>3. \A names : \A x \in {s, t} : x.name \in names =>
        Only(<<x>>, names) /\ Some(<<x>>, names) /\ Only(<<>>, names)
  BY OnlyWhen
<1> QED BY <1>1, <1>2, <1>3, SignalTypes

\* A release that RR or a CHANNEL RELEASE asked for.
LEMMA OpportunityDisc ==
  ASSUME OnTime, LInv, Opportunity, check_disc(Ticked)
  PROVE  LInv'
<1>1. /\ disc_request /\ state' = "RELEASE" /\ rel' = RelTick
      /\ l2_frame' = UFrame("DISC", TRUE, TRUE, None)
      /\ signals' = signals \o (RelSignal \o <<>>)
  BY DEF check_disc, Sends, Uplinked, Post
<1>2. /\ up' = l2_frame' /\ up' \in OrNone(Frame(Infos)) /\ UNCHANGED <<net, down, rrView>>
      /\ IInv'
  BY OpportunityFrame
<1>3. up'.type = "DISC"
  BY <1>1, <1>2 DEF UFrame
<1>4. ~Fresh
  BY <1>1 DEF Fresh
<1>5. Agreed'
  BY <1>1, EndTypes, OpportunitySignals
<1>6. LinkType'
  BY <1>1, <1>2 DEF LInv, LinkType
<1>7. Unused'
  BY <1>1, <1>2, <1>3, <1>4 DEF LInv, Unused, IsSABM
<1> QED BY <1>1, <1>2, <1>5, <1>6, <1>7 DEF LInv, Contending, UpAndRunning, Linked

\* A link that is up.
LEMMA OpportunityLinked ==
  ASSUME OnTime, LInv, Opportunity, Linked, ~check_disc(Ticked)
  PROVE  LInv'
<1>1. /\ IInv /\ IInv' /\ up = None /\ down = <<>> /\ up' = l2_frame'
      /\ up' \in OrNone(Frame(Infos)) /\ last' = (IF NewIFrame THEN l2_frame' ELSE last)
      /\ UNCHANGED <<net, down, rrView>>
      /\ signals \in Seq(Signals) /\ RelTick.pending = rel.pending
      /\ ~rel.pending => RelSignal = <<>>
  BY OpportunityFrame
<1>2. Synchronised /\ Running /\ OnTime /\ cch \in Channel
  BY <1>1 DEF LInv, UpAndRunning, IInv, TypeOK
<1>3. /\ GoesOn \/ GivesUp
      /\ rel' = RelTick /\ UNCHANGED <<disc_request, in_msg>>
  <2>1. PICK busy \in BOOLEAN : dl_uplink(busy)
    BY OpportunityFrame
  <2> QED BY <1>1, <1>2, <2>1, LinkedUplink DEF Running, OnTime
<1>4. net.st # "IDLE" /\ net.st \in {"MFE", "CLOSING"}
  BY <1>2 DEF Synchronised
<1>5. CASE GivesUp
  <2>1. state' = "IDLE" /\ up' = None /\ Agreed'
    BY <1>1, <1>3, <1>5, EndTypes, OpportunitySignals DEF GivesUp
  <2>2. Unused'
    BY <1>1, <1>4, <2>1 DEF LInv, Unused, IsSABM
  <2> QED BY <1>1, <2>1, <2>2 DEF LInv, LinkType, Contending, UpAndRunning, Linked
<1>6. CASE GoesOn
  <2>1. /\ state' \in {state, "RECOVERY"} /\ state' \in {"MFE", "RECOVERY"}
        /\ state' = "RECOVERY" => cch.vs # cch.va \/ state = "RECOVERY"
        /\ cch'.va = cch.va /\ cch'.vr = cch.vr /\ cch'.vtx \in Answering
        /\ signals' = signals \o (RelSignal \o <<>>)
        /\ Silent \/ SendsNew \/ Polls
    BY <1>6 DEF GoesOn, Linked
  <2>2. signals' = signals /\ ~rel'.pending
    <3>1. ~rel.pending /\ RelSignal = <<>>
      BY <1>1, <1>2 DEF Running
    <3>2. <<>> \o <<>> = <<>> /\ signals \o <<>> = signals
      BY <1>1, NoSignals, SignalTypes
    <3> QED BY <1>1, <1>3, <2>1, <3>1, <3>2
  <2>3. /\ cch.vs \in {cch.va, Incr(cch.va)} /\ cch.va \in Numbers /\ cch.vs \in Numbers
        /\ cch.vr \in Numbers
        /\ SendsNew => cch.vs = cch.va
        /\ Incr(cch.vs) # cch.vs /\ Decr(Incr(cch.vs)) = cch.vs
        /\ Windowed /\ LastKept
    BY <1>2, Modulo DEF Running, Windowed, Channel, SendsNew
  <2>4. Windowed'
    <3>1. CASE Silent \/ Polls
      BY <2>1, <2>3, <3>1 DEF Windowed, Silent, Polls, Linked
    <3>2. CASE SendsNew
      BY <2>1, <2>3, <3>2 DEF Windowed, SendsNew
    <3> QED BY <2>1, <3>1, <3>2
  <2>5. LastKept'
    <3>1. CASE Silent \/ Polls
      <4>1. last' = last /\ cch'.vs = cch.vs /\ queue' = queue
        BY <1>1, <3>1 DEF NewIFrame, Silent, Polls, Acks
      <4> QED BY <2>1, <2>3, <4>1 DEF LastKept
    <3>2. CASE SendsNew
      BY <1>1, <2>1, <2>3, <3>2 DEF LastKept, SendsNew, NewIFrame
    <3> QED BY <2>1, <3>1, <3>2
  <2>6. UpFits'
    <3>1. CASE Silent
      BY <1>1, <2>1, <3>1 DEF UpFits, Silent, Numbered, Acks
    <3>2. CASE SendsNew
      <4>1. net.vr = cch.va
        BY <1>2, <2>3, <3>2 DEF Synchronised
      <4> QED BY <1>1, <2>1, <2>3, <3>2, <4>1 DEF UpFits, SendsNew, Numbered
    <3>3. CASE Polls
      BY <1>1, <2>1, <3>3 DEF UpFits, Polls, Numbered
    <3> QED BY <2>1, <3>1, <3>2, <3>3
  <2>7. Synchronised'
    <3>1. net.vr \in {cch'.va, cch'.vs}
      BY <1>2, <2>1, <2>3 DEF Synchronised, Silent, SendsNew, Polls
    <3>2. \A i \in DOMAIN down' : FALSE
      BY <1>1
    <3>3. cch'.vr \in {net.acked % 8, net.sent % 8}
      BY <1>2, <2>1 DEF Synchronised
    <3> QED BY <1>1, <1>4, <2>6, <3>1, <3>2, <3>3 DEF Synchronised
  <2>8. Running'
    BY <1>1, <1>2, <2>1, <2>2, <2>4, <2>5 DEF Running
  <2>9. ~IsSABM'
    BY <1>1, <2>1 DEF IsSABM, Silent, SendsNew, Polls, Acks
  <2>10. Unused'
    BY <1>1, <1>4, <2>1, <2>9 DEF Unused, IsSABM
  <2>11. Agreed'
    BY <1>1, <2>1, <2>2 DEF LInv, Agreed
  <2> QED BY <1>1, <2>1, <2>7, <2>8, <2>10, <2>11
          DEF LInv, LinkType, Contending, UpAndRunning
<1> QED BY <1>3, <1>5, <1>6

\* uplink_awaiting_establishment() with T200_expiry(): the SABM, or the end.
LEMMA ContentionUplink ==
  ASSUME IInv, Sapi = 0, state = "CONTENTION", cch.vtx \in {"EMPTY", "SABM"},
         NEW busy \in BOOLEAN, dl_uplink(busy), ~check_disc(Ticked)
  PROVE  /\ rel' = RelTick /\ UNCHANGED <<disc_request, queue, in_msg>>
         /\ cch'.vtx \in {"EMPTY", "SABM"}
         /\ \/ /\ state' = "CONTENTION" /\ signals' = signals \o (RelSignal \o <<>>)
               /\ cch'.contention_resolution = cch.contention_resolution
               /\ l2_frame' # None => /\ l2_frame'.type = "SABM"
                                      /\ l2_frame'.info \in {None, queue.switch_buffer}
            \/ /\ state' = "IDLE" /\ l2_frame' = None
               /\ signals' = signals \o (RelSignal \o <<ErrorInd>>)
<1>1. PICK e : e = AfterT200(Ticked)
  OBVIOUS
<1>2. PICK c : c = Restarted(e.c)
  OBVIOUS
<1>3. /\ rel' = (IF Acknowledging(c, e) THEN RelPending ELSE RelTick)
      /\ UNCHANGED <<disc_request, in_msg>>
      /\ \/ uplink_idle(e)
         \/ uplink_awaiting_establishment(c, e)
         \/ uplink_mfe(c, e)
         \/ uplink_timer_recovery(c, e)
         \/ uplink_awaiting_release(c, e)
         \/ uplink_suspended(e)
  BY <1>1, <1>2 DEF dl_uplink
<1>4. /\ Ticked \in Channel /\ Ticked.vtx = cch.vtx
      /\ Ticked.contention_resolution = cch.contention_resolution
  BY TickedSame DEF Same, Ticked, IInv, TypeOK, Channel
<1>5. /\ e.c.vtx \in {"EMPTY", "SABM"} /\ e.c \in Channel
      /\ \/ /\ e.st = "CONTENTION" /\ e.sigs = <<>>
            /\ e.c.contention_resolution = cch.contention_resolution
         \/ e.st = "IDLE" /\ e.sigs = <<ErrorInd>>
  <2>1. CASE Ticked.T200_counter # T200_EXPIRED
    BY <1>1, <1>4, <2>1 DEF AfterT200
  <2>2. CASE Ticked.T200_counter = T200_EXPIRED /\ Exhausted(Ticked, N200Est)
    <3>1. PICK d : d = [Ticked EXCEPT !.contention_resolution = FALSE]
      OBVIOUS
    <3>2. e = [c |-> d, st |-> "IDLE", sigs |-> <<ErrorInd>>]
      BY <1>1, <2>2, <3>1 DEF AfterT200, T200_expiry
    <3>3. d \in Channel /\ d.vtx = cch.vtx
      BY <1>4, <3>1 DEF Channel
    <3> QED BY <3>2, <3>3
  <2>3. CASE Ticked.T200_counter = T200_EXPIRED /\ ~Exhausted(Ticked, N200Est)
    <3>1. PICK d : d = [Retry(Ticked) EXCEPT !.vtx = "SABM"]
      OBVIOUS
    <3>2. e = [c |-> d, st |-> state, sigs |-> <<>>]
      BY <1>1, <2>3, <3>1 DEF AfterT200, T200_expiry
    <3>3. /\ d \in Channel /\ d.vtx = "SABM"
          /\ d.contention_resolution = cch.contention_resolution
      <4>1. Retry(Ticked) \in Channel /\ "SABM" \in Vtx
        BY <1>4, ChannelTypes DEF Vtx
      <4>2. Retry(Ticked).contention_resolution = cch.contention_resolution
        BY <1>4 DEF Retry, Channel
      <4> QED BY <3>1, <4>1, <4>2 DEF Channel
    <3> QED BY <3>2, <3>3
  <2> QED BY <2>1, <2>2, <2>3
<1>6. rel' = RelTick
  BY <1>3, <1>5 DEF Acknowledging
<1>7. CASE e.st = "IDLE" /\ e.sigs = <<ErrorInd>>
  <2>1. Dummy(e.c, e.st, e.sigs)
    BY <1>3, <1>5, <1>7 DEF uplink_idle, uplink_awaiting_establishment, uplink_mfe,
       uplink_timer_recovery, uplink_awaiting_release, uplink_suspended
  <2> QED BY <1>3, <1>5, <1>6, <1>7, <2>1 DEF Dummy, Uplinked, Post
<1>8. CASE e.st = "CONTENTION" /\ e.sigs = <<>>
  <2>1. /\ c \in Channel /\ c.vtx \in {"EMPTY", "SABM"}
        /\ c.contention_resolution = cch.contention_resolution
    <3>1. e.c \in Channel /\ Restarted(e.c) \in Channel
      BY <1>5, ChannelTypes
    <3>2. /\ c.vtx = e.c.vtx /\ c.contention_resolution = e.c.contention_resolution
      BY <1>2, <3>1 DEF Restarted, set_T200_counter, Channel
    <3> QED BY <1>2, <1>5, <1>8, <3>1, <3>2
  <2>2. PICK f : f = UFrame("SABM", TRUE, TRUE,
                            IF c.contention_resolution THEN queue.switch_buffer ELSE None)
    OBVIOUS
  <2>3. f.type = "SABM" /\ f.info \in {None, queue.switch_buffer}
    BY <2>2 DEF UFrame
  <2>4. Sends(c, "CONTENTION", queue, f, <<>>) \/ Dummy(c, "CONTENTION", <<>>)
    BY <1>3, <1>8, <2>1, <2>2 DEF uplink_idle, uplink_awaiting_establishment, uplink_mfe,
       uplink_timer_recovery, uplink_awaiting_release, uplink_suspended
  <2>5. PICK d : d = [c EXCEPT !.vtx = "EMPTY"]
    OBVIOUS
  <2>6. d.vtx = "EMPTY" /\ d.contention_resolution = c.contention_resolution
    BY <2>1, <2>5 DEF Channel
  <2>7. Uplinked(d, "CONTENTION", queue, f, <<>>) \/ Uplinked(c, "CONTENTION", queue, None, <<>>)
    BY <2>4, <2>5 DEF Sends, Dummy
  <2> QED BY <1>3, <1>6, <2>1, <2>3, <2>6, <2>7 DEF Uplinked, Post
<1> QED BY <1>5, <1>7, <1>8

LEMMA OpportunityContention ==
  ASSUME OnTime, LInv, Opportunity, state = "CONTENTION"
  PROVE  LInv'
<1>1. /\ IInv /\ IInv' /\ up = None /\ down = <<>> /\ up' = l2_frame'
      /\ up' \in OrNone(Frame(Infos)) /\ UNCHANGED <<net, down, rrView>>
      /\ signals \in Seq(Signals) /\ RelTick.pending = rel.pending
      /\ ~rel.pending => RelSignal = <<>>
  BY OpportunityFrame
<1>2. Fresh /\ Awaited /\ Asking /\ Sapi = 0
  BY DEF LInv, Unused, Contending, OnTime
<1>3. ~check_disc(Ticked) /\ ~rel.pending /\ RelSignal = <<>> /\ signals = <<>>
  BY <1>1, <1>2 DEF check_disc, Fresh, Asking
<1>4. /\ rel' = RelTick /\ UNCHANGED <<disc_request, queue>>
      /\ cch'.vtx \in {"EMPTY", "SABM"}
      /\ \/ /\ state' = "CONTENTION" /\ signals' = signals \o (RelSignal \o <<>>)
            /\ l2_frame' # None => /\ l2_frame'.type = "SABM"
                                   /\ l2_frame'.info \in {None, queue.switch_buffer}
         \/ /\ state' = "IDLE" /\ l2_frame' = None
            /\ signals' = signals \o (RelSignal \o <<ErrorInd>>)
  <2>1. PICK busy \in BOOLEAN : dl_uplink(busy)
    BY OpportunityFrame
  <2> QED BY <1>1, <1>2, <1>3, <2>1, ContentionUplink DEF Asking
<1>5. state' = "CONTENTION" => signals' = <<>>
  BY <1>3, <1>4
<1>6. Fresh'
  <2>1. Only(signals', FreshSignals)
    <3>1. <<>> \o (<<>> \o <<ErrorInd>>) = <<ErrorInd>>
      BY EndTypes, NoSignals
    <3>2. signals' \in {<<>>, <<ErrorInd>>}
      BY <1>3, <1>4, <1>5, <3>1
    <3> QED BY <3>2, EndTypes DEF Only
  <2> QED BY <1>1, <1>2, <1>3, <1>4, <2>1 DEF Fresh
<1>7. /\ up' # None => up'.type = "SABM" /\ up'.info \in {None, EstMsg}
      /\ queue'.switch_buffer \in {None, EstMsg}
  BY <1>1, <1>2, <1>4 DEF Asking
<1>8. Unused'
  BY <1>1, <1>4, <1>6, <1>7 DEF LInv, Unused, IsSABM
<1>9. Contending'
  BY <1>1, <1>2, <1>4, <1>5, <1>7 DEF Contending, Awaited, Asking
<1>10. Agreed'
  <2>1. CASE state' = "CONTENTION"
    BY <1>5, <2>1 DEF Agreed
  <2>2. CASE state' = "IDLE"
    BY <1>4, <2>2, EndTypes, OpportunitySignals
  <2> QED BY <1>4, <2>1, <2>2
<1> QED BY <1>1, <1>4, <1>8, <1>9, <1>10 DEF LInv, LinkType, UpAndRunning, Linked

\* uplink_idle() and uplink_awaiting_release(): what is sent is no SABM.
LEMMA EndedUplink ==
  ASSUME IInv, Sapi = 0, state \in {"IDLE", "RELEASE"}, NEW busy \in BOOLEAN, dl_uplink(busy),
         ~check_disc(Ticked)
  PROVE  /\ UNCHANGED <<disc_request, queue, in_msg>> /\ rel' \in {RelTick, RelPending}
         /\ l2_frame' # None => l2_frame'.type \in {"UA", "DM", "DISC"}
         /\ state' \in {"IDLE", "RELEASE"}
         /\ state = "IDLE" =>
              /\ state' = "IDLE" /\ rel' = RelTick
              /\ cch.vtx \in {"EMPTY", "SABM"} => cch'.vtx = cch.vtx /\ l2_frame' = None
         /\ \/ /\ signals' = signals \o (RelSignal \o <<>>)
               /\ state' = "IDLE" => state = "IDLE" \/ rel' = RelPending
            \/ state = "RELEASE" /\ signals' = signals \o (RelSignal \o <<ReleaseCnf(TRUE)>>)
<1>1. PICK e : e = AfterT200(Ticked)
  OBVIOUS
<1>2. PICK c : c = Restarted(e.c)
  OBVIOUS
<1>3. /\ rel' = (IF Acknowledging(c, e) THEN RelPending ELSE RelTick)
      /\ UNCHANGED <<disc_request, in_msg>>
      /\ \/ uplink_idle(e)
         \/ uplink_awaiting_establishment(c, e)
         \/ uplink_mfe(c, e)
         \/ uplink_timer_recovery(c, e)
         \/ uplink_awaiting_release(c, e)
         \/ uplink_suspended(e)
  BY <1>1, <1>2 DEF dl_uplink
<1>4. Ticked.vtx = cch.vtx
  BY TickedSame DEF Same
<1>5. \/ e.st = state /\ e.sigs = <<>> /\ (state = "IDLE" => e.c.vtx = cch.vtx)
      \/ state = "RELEASE" /\ e.st = "IDLE" /\ e.sigs = <<ReleaseCnf(TRUE)>>
  <2>1. CASE Ticked.T200_counter # T200_EXPIRED
    BY <1>1, <1>4, <2>1 DEF AfterT200
  <2>2. CASE Ticked.T200_counter = T200_EXPIRED
    <3>1. e = T200_expiry(Ticked)
      BY <1>1, <2>2 DEF AfterT200
    <3>2. CASE state = "IDLE"
      <4>1. e = [c |-> Ticked, st |-> state, sigs |-> <<>>]
        BY <3>1, <3>2 DEF T200_expiry
      <4> QED BY <1>4, <4>1
    <3>3. CASE state = "RELEASE" /\ Exhausted(Ticked, N200Est)
      BY <3>1, <3>3 DEF T200_expiry
    <3>4. CASE state = "RELEASE" /\ ~Exhausted(Ticked, N200Est)
      BY <3>1, <3>4 DEF T200_expiry
    <3> QED BY <3>2, <3>3, <3>4
  <2> QED BY <2>1, <2>2
<1>6. /\ \A t, pf : UResponse(t, pf).type = t
      /\ UFrame("DISC", TRUE, TRUE, None).type = "DISC"
  BY DEF UFrame, UResponse
<1>7. CASE e.st = "IDLE"
  <2>1. uplink_idle(e) /\ rel' = RelTick
    BY <1>3, <1>7 DEF uplink_awaiting_establishment, uplink_mfe, uplink_timer_recovery,
       uplink_awaiting_release, uplink_suspended, Acknowledging
  <2>2. /\ state' = "IDLE" /\ signals' = signals \o (RelSignal \o e.sigs)
        /\ l2_frame' # None => l2_frame'.type \in {"UA", "DM"}
        /\ queue' = queue
        /\ e.c.vtx \in {"EMPTY", "SABM"} => cch' = e.c /\ l2_frame' = None
    BY <1>6, <1>7, <2>1 DEF uplink_idle, Sends, Dummy, Uplinked, Post
  <2>3. CASE state = "IDLE"
    <3>1. e.sigs = <<>> /\ e.c.vtx = cch.vtx
      BY <1>5, <2>3
    <3>2. cch.vtx \in {"EMPTY", "SABM"} => cch'.vtx = cch.vtx /\ l2_frame' = None
      BY <2>2, <3>1
    <3>3. signals' = signals \o (RelSignal \o <<>>)
      BY <2>2, <3>1
    <3> QED BY <1>3, <2>1, <2>2, <2>3, <3>2, <3>3
  <2>4. CASE state = "RELEASE"
    <3>1. e.sigs = <<ReleaseCnf(TRUE)>>
      BY <1>5, <1>7, <2>4
    <3>2. signals' = signals \o (RelSignal \o <<ReleaseCnf(TRUE)>>)
      BY <2>2, <3>1
    <3> QED BY <1>3, <2>1, <2>2, <2>4, <3>2
  <2> QED BY <2>3, <2>4
<1>8. CASE e.st = "RELEASE"
  <2>1. uplink_awaiting_release(c, e) /\ state = "RELEASE" /\ e.sigs = <<>>
    BY <1>3, <1>5, <1>8 DEF uplink_awaiting_establishment, uplink_mfe, uplink_timer_recovery,
       uplink_idle, uplink_suspended
  <2>2. /\ state' \in {"IDLE", "RELEASE"} /\ signals' = signals \o (RelSignal \o <<>>)
        /\ l2_frame' # None => l2_frame'.type \in {"UA", "DISC"}
        /\ queue' = queue
        /\ state' = "IDLE" => Acknowledging(c, e)
    <3>1. \/ Sends(c, "RELEASE", queue, UFrame("DISC", TRUE, TRUE, None), <<>>)
          \/ Acknowledging(c, e) /\ Sends(c, "IDLE", queue, UResponse("UA", TRUE), <<>>)
          \/ Dummy(c, "RELEASE", <<>>)
      BY <1>8, <2>1 DEF uplink_awaiting_release
    <3>2. PICK f, g : f = UFrame("DISC", TRUE, TRUE, None) /\ g = UResponse("UA", TRUE)
      OBVIOUS
    <3>3. f.type = "DISC" /\ g.type = "UA"
      BY <1>6, <3>2
    <3>4. \/ Sends(c, "RELEASE", queue, f, <<>>)
          \/ Acknowledging(c, e) /\ Sends(c, "IDLE", queue, g, <<>>)
          \/ Dummy(c, "RELEASE", <<>>)
      BY <3>1, <3>2
    <3> QED BY <3>3, <3>4 DEF Sends, Dummy, Uplinked, Post
  <2> QED BY <1>3, <2>1, <2>2
<1> QED BY <1>5, <1>7, <1>8

LEMMA OpportunityEnded ==
  ASSUME OnTime, LInv, Opportunity, state \in {"IDLE", "RELEASE"}, ~check_disc(Ticked)
  PROVE  LInv'
<1>1. /\ IInv /\ IInv' /\ up = None /\ down = <<>> /\ up' = l2_frame'
      /\ up' \in OrNone(Frame(Infos)) /\ UNCHANGED <<net, down, rrView>>
      /\ signals \in Seq(Signals) /\ RelTick.pending = rel.pending
      /\ ~rel.pending => RelSignal = <<>>
  BY OpportunityFrame
<1>2. /\ UNCHANGED disc_request /\ rel' \in {RelTick, RelPending}
      /\ l2_frame' # None => l2_frame'.type \in {"UA", "DM", "DISC"}
      /\ state' \in {"IDLE", "RELEASE"}
      /\ state = "IDLE" =>
           /\ state' = "IDLE" /\ rel' = RelTick
           /\ cch.vtx \in {"EMPTY", "SABM"} => cch'.vtx = cch.vtx /\ l2_frame' = None
      /\ \/ /\ signals' = signals \o (RelSignal \o <<>>)
            /\ state' = "IDLE" => state = "IDLE" \/ rel' = RelPending
         \/ state = "RELEASE" /\ signals' = signals \o (RelSignal \o <<ReleaseCnf(TRUE)>>)
  <2>1. PICK busy \in BOOLEAN : dl_uplink(busy)
    BY OpportunityFrame
  <2> QED BY <1>1, <2>1, EndedUplink DEF OnTime
<1>3. Agreed'
  BY <1>2, EndTypes, OpportunitySignals
<1>4. Fresh => Fresh'
  <2> SUFFICES ASSUME Fresh PROVE Fresh'
    OBVIOUS
  <2>1. state = "IDLE" /\ ~rel.pending
    BY DEF Fresh
  <2>2. signals' = signals
    <3>1. signals' = signals \o (<<>> \o <<>>)
      BY <1>1, <1>2, <2>1
    <3> QED BY <1>1, <3>1, NoSignals, SignalTypes
  <2> QED BY <1>1, <1>2, <2>1, <2>2 DEF Fresh
<1>5. Unused'
  <2>1. ~IsSABM' /\ state' # "CONTENTION"
    BY <1>1, <1>2 DEF IsSABM
  <2>2. ASSUME net.st = "IDLE"
        PROVE  Fresh' /\ cch'.vtx \in {"EMPTY", "SABM"} /\ up' = None
    <3>1. Fresh /\ cch.vtx \in {"EMPTY", "SABM"}
      BY <2>2 DEF LInv, Unused
    <3> QED BY <1>1, <1>2, <1>4, <3>1 DEF Fresh
  <2> QED BY <1>1, <2>1, <2>2 DEF LInv, Unused
<1> QED BY <1>1, <1>2, <1>3, <1>5 DEF LInv, LinkType, Contending, UpAndRunning, Linked

LEMMA OpportunityStep ==
  ASSUME OnTime, LInv, Opportunity
  PROVE  LInv'
<1>1. state \in {"IDLE", "CONTENTION", "MFE", "RECOVERY", "RELEASE"}
  BY DEF LInv, LinkType
<1> QED BY <1>1, OpportunityDisc, OpportunityLinked, OpportunityContention, OpportunityEnded
        DEF Linked

-----------------------------------------------------------------------------
(* The theorems. *)

\* The number of messages RR handed over only grows.
LEMMA HandedCounts ==
  LinkSpec => [](handed \in Nat)
<1>1. LinkInit => handed \in Nat
  BY DEF LinkInit
<1>2. handed \in Nat /\ [LinkNext]_allVars => (handed \in Nat)'
  BY DEF LinkNext, Mobile, Network, NetReceives, NetSends, NetRepeats, NetReleases, NetStep,
         LoseUp, LoseDown, Receives, Opportunity, Task0, RREstablishes, RRSends, RRReleases,
         allVars, linkVars
<1> QED BY <1>1, <1>2, PTL DEF LinkSpec

\* Every step of the link.
LEMMA NextLInv ==
  ASSUME OnTime, LInv, handed \in Nat, [LinkNext]_allVars
  PROVE  LInv'
<1>1. CASE Receives
  BY <1>1, ReceivesStep
<1>2. CASE Opportunity
  BY <1>2, OpportunityStep
<1>3. CASE Task0
  BY <1>3, Task0Step
<1>4. CASE RREstablishes \/ RRSends \/ RRReleases
  BY <1>4, RREstablishesStep, RRSendsStep, RRReleasesStep
<1>5. CASE NetReceives \/ NetSends \/ NetRepeats \/ NetReleases
  BY <1>5, NetReceivesStep, NetSendsStep, NetRepeatsStep, NetReleasesStep
<1>6. CASE LoseUp \/ LoseDown
  BY <1>6, LoseUpStep, LoseDownStep
<1>7. CASE UNCHANGED allVars
  BY <1>7, StutterLInv DEF allVars, linkVars
<1> QED BY <1>1, <1>2, <1>3, <1>4, <1>5, <1>6, <1>7 DEF LinkNext, Mobile, Network

\* The invariant of the link: whatever frames are lost, the numbers of both
\* sides, the frame that is outstanding and those on their way fit together, as
\* long as the answers arrive before the next opportunity to send.
THEOREM LinkInvariance == OnTime => (LinkSpec => []LInv)
<1> SUFFICES ASSUME OnTime PROVE LinkSpec => []LInv
  OBVIOUS
<1>1. LinkInit => LInv
  BY InitLInv
<1>2. LInv /\ handed \in Nat /\ [LinkNext]_allVars => LInv'
  BY NextLInv
<1> QED BY <1>1, <1>2, HandedCounts, PTL DEF LinkSpec

\* OutstandingIsTimed for every instance: an I frame that is not acknowledged is
\* repeated (dl_uplink, T200_expiry).
THEOREM OutstandingTimed == OnTime => (LinkSpec => []OutstandingIsTimed)
<1> SUFFICES ASSUME OnTime PROVE LinkSpec => []OutstandingIsTimed
  OBVIOUS
<1>1. LInv => OutstandingIsTimed
  BY DEF LInv, UpAndRunning, Linked, Running, Windowed, OutstandingIsTimed
<1> QED BY <1>1, LinkInvariance, PTL

\* RepeatsLastFrame for every instance: what uplink_timer_recovery() sends is
\* the last I frame once more, although the queue has moved on meanwhile.
THEOREM LastFrameRepeated == OnTime => (LinkSpec => RepeatsLastFrame)
<1> DEFINE A == Opportunity /\ l2_frame' # None /\ l2_frame'.type = "I" /\ l2_frame'.pf
                  => /\ last # None
                     /\ l2_frame'.ns = last.ns /\ l2_frame'.info = last.info /\ l2_frame'.m = last.m
<1> SUFFICES ASSUME OnTime PROVE LinkSpec => [][A]_allVars
  BY DEF RepeatsLastFrame
<1>1. ASSUME LInv, Opportunity, l2_frame' # None, l2_frame'.type = "I", l2_frame'.pf
      PROVE  /\ last # None
             /\ l2_frame'.ns = last.ns /\ l2_frame'.info = last.info /\ l2_frame'.m = last.m
  <2>1. PICK busy \in BOOLEAN : dl_uplink(busy)
    BY <1>1, OpportunityFrame
  <2>2. IInv /\ Sapi = 0 /\ state \in {"IDLE", "CONTENTION", "MFE", "RECOVERY", "RELEASE"}
    BY <1>1 DEF LInv, LinkType, OnTime
  <2>3. ~check_disc(Ticked)
    BY <1>1 DEF check_disc, Sends, Uplinked, UFrame
  <2>4. state # "CONTENTION"
    <3>1. state = "CONTENTION" => cch.vtx \in {"EMPTY", "SABM"}
      BY <1>1 DEF LInv, Contending, Asking
    <3> QED BY <1>1, <2>1, <2>2, <2>3, <3>1, ContentionUplink
  <2>5. Linked
    BY <1>1, <2>1, <2>2, <2>3, <2>4, EndedUplink DEF Linked
  <2>6. Running
    BY <1>1, <2>5 DEF LInv, UpAndRunning
  <2>7. GoesOn
    BY <1>1, <2>1, <2>2, <2>3, <2>5, <2>6, LinkedUplink DEF Running, GivesUp
  <2>8. Polls /\ (cch.vs # cch.va \/ state = "RECOVERY")
    BY <1>1, <2>7 DEF GoesOn, Silent, SendsNew, Acks, Polls
  <2> QED BY <2>6, <2>8 DEF Running, LastKept, Polls
<1>2. LInv /\ [LinkNext]_allVars => [A]_allVars
  BY <1>1
<1> QED BY <1>2, LinkInvariance, PTL DEF LinkSpec

\* AgreesWithRR for every instance: when one of RR and the entity has left the
\* link the other is told, or about to be.
THEOREM AgreementWithRR == OnTime => (LinkSpec => []AgreesWithRR)
<1> SUFFICES ASSUME OnTime PROVE LinkSpec => []AgreesWithRR
  OBVIOUS
<1>1. LInv => AgreesWithRR
  <2> SUFFICES ASSUME LInv PROVE AgreesWithRR
    OBVIOUS
  <2>1. state = "IDLE" /\ rrView # "DOWN" => rel.pending \/ Some(signals, EndSignals)
    BY DEF LInv, Agreed, Told
  <2>2. rrView = "DOWN" => state \notin {"CONTENTION", "MFE", "RECOVERY"}
    BY DEF LInv, Contending, Asking, UpAndRunning, Linked, Running
  <2> QED BY <2>1, <2>2 DEF AgreesWithRR, Some, EndSignals
<1> QED BY <1>1, LinkInvariance, PTL

=============================================================================
