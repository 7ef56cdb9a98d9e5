------------------------ MODULE DlLinkService_proofs ------------------------
(***************************************************************************)
(* Theorems about the link of DlLink when the DL task has handled all      *)
(* signals before layer 1 acts again: a release is repeated until it ends, *)
(* and the link is the reliable link of DlService.                         *)
(***************************************************************************)
EXTENDS DlLink_proofs

OnSchedule == OnTime /\ Lag = 0

-----------------------------------------------------------------------------
(* A release that is asked for. *)

\* The network does not release the link with a CHANNEL RELEASE when RR may
\* release it.
OneRelease ==
  RRCloses => \A i \in DOMAIN DownFrames : DownFrames[i].info \notin ChannelRelease

NoneReleases ==
  RRCloses =>
    /\ \A i \in DOMAIN in_msg : in_msg[i] \notin ChannelRelease
    /\ \A i \in DOMAIN signals :
         signals[i].name = "CONCATENATE" => signals[i].seg \notin ChannelRelease

AskedByRR == disc_request /\ RRCloses => rrView \in {"CLOSING", "DOWN"}

\* RR may still release a link that is being released only when the network
\* did so and the UA is to be sent.
LateSignals == SignalNames \ {"ERROR_IND", "ESTABLISH_IND", "ESTABLISH_CNF"}
Releasing ==
  state = "RELEASE" =>
    /\ Timed \/ cch.vtx = "UA"
    /\ rrView = "UP" /\ RRCloses => cch.vtx = "UA" /\ ~Timed
    /\ Only(signals, LateSignals)

RInv == NoneReleases /\ AskedByRR /\ Releasing

-----------------------------------------------------------------------------
(* Steps of layer 1: the DL task has handled all signals. *)

LEMMA Prompt ==
  ASSUME OnSchedule, LInv, Receives \/ Opportunity
  PROVE  signals = <<>> /\ signals \in Seq(Signals) /\ OnTime /\ Sapi = 0
<1>1. signals \in Seq(Signals) /\ OnTime /\ Lag = 0
  BY DEF LInv, IInv, TypeOK, OnSchedule
<1>2. Layer1Turn
  BY DEF Receives, Opportunity, Uplink, dl_downlink, dl_uplink
<1> QED BY <1>1, <1>2 DEF Layer1Turn, OnTime

LEMMA PromptSignals ==
  ASSUME signals = <<>>, NEW t \in Seq(Signals), NEW b, NEW s \in Signals
  PROVE  /\ signals \o <<>> = <<>> /\ signals \o <<s>> = <<s>> /\ signals \o t = t
         /\ signals \o (<<>> \o <<>>) = <<>> /\ signals \o (<<>> \o <<s>>) = <<s>>
OBVIOUS

\* A frame on a link that is up.
PromptDisc ==
  /\ state' = "RELEASE" /\ cch'.vtx = "UA" /\ ~Timed' /\ queue' = queue /\ signals' = <<>>
  /\ UNCHANGED <<in_msg, disc_request, rel>>

LEMMA PromptLinked ==
  ASSUME OnSchedule, LInv, Receives, Linked
  PROVE  /\ Head(down) \in Frame(OrNone(Info)) /\ DownFits(Head(down))
         /\ \/ Takes(Head(down)) /\ Fits(Head(down)) /\ Numbered(Head(down))
            \/ PromptDisc
<1>1. PICK f : f = Head(down)
  OBVIOUS
<1>2. /\ f \in Frame(OrNone(Info)) /\ dl_downlink(f) /\ f = down[1] /\ 1 \in DOMAIN down
  BY <1>1, ReceivesFrame
<1>3. Synchronised /\ Running /\ DownFits(f) /\ IInv
  BY <1>2 DEF LInv, UpAndRunning, Synchronised
<1>4. CASE f.type = "DISC"
  <2>1. f.cmd
    BY <1>3, <1>4 DEF DownFits
  <2> QED BY <1>1, <1>2, <1>3, <1>4, <2>1, LinkedDisc, Prompt DEF PromptDisc
<1>5. CASE f.type # "DISC"
  <2>1. Numbered(f) /\ Fits(f) /\ cch.vtx \in Answering /\ Windowed
    BY <1>3, <1>5, Prompt DEF DownFits, Numbered, Fits, Acks, Synchronised, Running
  <2> QED BY <1>1, <1>2, <1>3, <2>1, LinkedTakes
<1> QED BY <1>4, <1>5

\* A frame while the link is being established.
PromptContended ==
  /\ UNCHANGED <<in_msg, disc_request, rel>>
  /\ queue' \in {queue, [queue EXCEPT !.switch_buffer = None]}
  /\ \/ /\ state' = "MFE" /\ cch'.va = 0 /\ cch'.vr = 0 /\ cch'.vs = 0
        /\ signals' = <<EstablishCnf>>
        /\ cch.contention_resolution => queue' = [queue EXCEPT !.switch_buffer = None]
     \/ state' = "IDLE" /\ signals' = <<ReleaseInd(FALSE)>>
     \/ /\ state' = "CONTENTION" /\ queue' = queue /\ signals' = <<>>
        /\ cch'.contention_resolution = cch.contention_resolution

LEMMA PromptContention ==
  ASSUME OnSchedule, LInv, Receives, state = "CONTENTION"
  PROVE  PromptContended
<1>1. PICK f : f = Head(down)
  OBVIOUS
<1>2. /\ f \in Frame(OrNone(Info)) /\ dl_downlink(f) /\ f = down[1] /\ 1 \in DOMAIN down
  BY <1>1, ReceivesFrame
<1>3. EarlyFrame(f) /\ IInv
  BY <1>2 DEF LInv, Contending, Awaited
<1>4. PICK s, t : s = EstablishCnf /\ t = ReleaseInd(FALSE)
  OBVIOUS
<1>5. s \in Signals /\ t \in Signals /\ signals = <<>> /\ <<>> \in Seq(Signals)
  BY <1>4, SignalTypes, Prompt
<1>6. signals \o <<>> = <<>> /\ signals \o <<s>> = <<s>> /\ signals \o <<t>> = <<t>>
  BY <1>5, PromptSignals
<1> QED BY <1>2, <1>3, <1>4, <1>6, ContentionTakes DEF PromptContended

\* A frame when the link has ended or is being released.
PromptReleased ==
  /\ UNCHANGED <<in_msg, disc_request, rel, queue>>
  /\ \/ /\ state' = state /\ signals' = <<>>
        /\ \/ cch'.vtx = cch.vtx /\ (Timed' <=> Timed)
           \/ cch'.vtx = "UA" /\ ~Timed'
           \/ state = "IDLE"
     \/ state = "RELEASE" /\ state' = "IDLE"
        /\ \E b \in BOOLEAN : signals' = <<ReleaseCnf(b)>>

LEMMA PromptEnded ==
  ASSUME OnSchedule, LInv, Receives, state \in {"IDLE", "RELEASE"}
  PROVE  PromptReleased
<1>1. PICK f : f = Head(down)
  OBVIOUS
<1>2. f \in Frame(OrNone(Info)) /\ dl_downlink(f) /\ IInv /\ cch \in Channel
  BY <1>1, ReceivesFrame DEF LInv, IInv, TypeOK
<1>3. signals = <<>> /\ Sapi = 0
  BY Prompt
<1>4. PICK s, t : s = ReleaseCnf(FALSE) /\ t = ReleaseCnf(TRUE)
  OBVIOUS
<1>5. s \in Signals /\ t \in Signals /\ <<>> \in Seq(Signals)
  BY <1>4, SignalTypes
<1>6. signals \o <<>> = <<>> /\ signals \o <<s>> = <<s>> /\ signals \o <<t>> = <<t>>
  BY <1>3, <1>5, PromptSignals
<1>7. CASE state = "IDLE"
  <2>1. downlink_idle(f)
    BY <1>2, <1>7 DEF dl_downlink, downlink_contention_resolution, downlink_mfe,
                      downlink_timer_recovery, downlink_awaiting_release
  <2>2. /\ state' = "IDLE" /\ queue' = queue /\ signals' = signals \o <<>>
        /\ UNCHANGED <<in_msg, disc_request, rel>>
    <3>1. Sapi # 3
      BY <1>3
    <3> QED BY <1>7, <2>1, <3>1 DEF downlink_idle, Ignored, Downlinked, Post
  <2> QED BY <1>6, <1>7, <2>2 DEF PromptReleased
<1>8. CASE state = "RELEASE"
  <2>1. downlink_awaiting_release(f)
    BY <1>2, <1>8 DEF dl_downlink, downlink_contention_resolution, downlink_mfe,
                      downlink_timer_recovery, downlink_idle
  <2>2. \/ \E c, pf : Downlinked(c, "IDLE", queue, pf, "stop", <<s>>)
        \/ \E c, pf : Downlinked(c, "IDLE", queue, pf, "stop", <<t>>)
        \/ \E pf : Downlinked(Answer("UA"), "RELEASE", queue, pf, "stop", <<>>)
        \/ \E pf : Downlinked(cch, "RELEASE", queue, pf, "none", <<>>)
    BY <1>3, <1>4, <1>8, <2>1 DEF downlink_awaiting_release, Ignored
  <2>3. CASE \E c, pf : Downlinked(c, "IDLE", queue, pf, "stop", <<s>>)
    BY <1>4, <1>6, <1>8, <2>3 DEF Downlinked, Post, PromptReleased
  <2>4. CASE \E c, pf : Downlinked(c, "IDLE", queue, pf, "stop", <<t>>)
    BY <1>4, <1>6, <1>8, <2>4 DEF Downlinked, Post, PromptReleased
  <2>5. CASE \E pf : Downlinked(Answer("UA"), "RELEASE", queue, pf, "stop", <<>>)
    <3>1. Answer("UA") \in Channel /\ Answer("UA").vtx = "UA"
      BY <1>2 DEF Answer, Channel, Vtx
    <3>2. PICK pf : Downlinked(Answer("UA"), "RELEASE", queue, pf, "stop", <<>>)
      BY <2>5
    <3>3. /\ cch'.vtx = "UA" /\ ~Timed' /\ state' = "RELEASE" /\ queue' = queue
          /\ signals' = signals \o <<>> /\ UNCHANGED <<in_msg, disc_request, rel>>
      <4>1. PICK c : c = Answer("UA")
        OBVIOUS
      <4>2. cch' = Finish(c, pf, "stop") /\ c \in Channel /\ c.vtx = "UA"
        BY <3>1, <3>2, <4>1 DEF Downlinked
      <4>3. cch'.vtx = "UA" /\ ~Timed'
        BY <4>2 DEF Finish, Channel, Timed
      <4> QED BY <3>2, <4>3 DEF Downlinked, Post
    <3> QED BY <1>6, <1>8, <3>3 DEF PromptReleased
  <2>6. CASE \E pf : Downlinked(cch, "RELEASE", queue, pf, "none", <<>>)
    <3>1. PICK pf : Downlinked(cch, "RELEASE", queue, pf, "none", <<>>)
      BY <2>6
    <3>2. /\ cch'.vtx = cch.vtx /\ (Timed' <=> cch.T200_counter # T200_STOPPED \/ cch.time_flag)
          /\ state' = "RELEASE" /\ queue' = queue
          /\ signals' = signals \o <<>> /\ UNCHANGED <<in_msg, disc_request, rel>>
      <4>1. cch' = Finish(cch, pf, "none")
        BY <3>1 DEF Downlinked
      <4>2. /\ cch'.vtx = cch.vtx
            /\ (Timed' <=> cch.T200_counter # T200_STOPPED \/ cch.time_flag)
        BY <1>2, <4>1 DEF Finish, Channel, Timed
      <4> QED BY <3>1, <4>2 DEF Downlinked, Post
    <3> QED BY <1>6, <1>8, <3>2 DEF PromptReleased, Timed
  <2> QED BY <2>2, <2>3, <2>4, <2>5, <2>6
<1> QED BY <1>7, <1>8

\* An opportunity while the link is being released: T200 goes on, or the link ends.
LEMMA ReleaseUplink ==
  ASSUME IInv, Sapi = 0, state = "RELEASE", NEW busy \in BOOLEAN, dl_uplink(busy),
         ~check_disc(Ticked), Timed \/ cch.vtx = "UA", state' = "RELEASE"
  PROVE  Timed /\ Timed'
<1>1. PICK e : e = AfterT200(Ticked)
  OBVIOUS
<1>2. PICK c : c = Restarted(e.c)
  OBVIOUS
<1>3. \/ uplink_idle(e)
      \/ uplink_awaiting_establishment(c, e)
      \/ uplink_mfe(c, e)
      \/ uplink_timer_recovery(c, e)
      \/ uplink_awaiting_release(c, e)
      \/ uplink_suspended(e)
  BY <1>1, <1>2 DEF dl_uplink
<1>4. Same(Ticked) /\ (On(Ticked) <=> Timed) /\ Ticked \in Channel
  BY TickedSame DEF Same
<1>5. \/ e.st = "RELEASE" /\ e.c = Ticked
      \/ e.st = "RELEASE" /\ e.c \in Channel /\ On(e.c) /\ Timed
      \/ e.st = "IDLE"
  <2>1. CASE Ticked.T200_counter # T200_EXPIRED
    BY <1>1, <2>1 DEF AfterT200
  <2>2. CASE Ticked.T200_counter = T200_EXPIRED /\ Exhausted(Ticked, N200Est)
    BY <1>1, <2>2 DEF AfterT200, T200_expiry
  <2>3. CASE Ticked.T200_counter = T200_EXPIRED /\ ~Exhausted(Ticked, N200Est)
    <3>1. PICK d : d = [Retry(Ticked) EXCEPT !.vtx = "DISC"]
      OBVIOUS
    <3>2. e = [c |-> d, st |-> "RELEASE", sigs |-> <<>>]
      BY <1>1, <2>3, <3>1 DEF AfterT200, T200_expiry
    <3>3. d \in Channel /\ d.time_flag
      <4>1. Retry(Ticked) \in Channel /\ "DISC" \in Vtx
        BY <1>4, ChannelTypes DEF Vtx
      <4>2. Retry(Ticked).time_flag
        BY <1>4 DEF Retry, Channel
      <4> QED BY <3>1, <4>1, <4>2 DEF Channel
    <3>4. Timed
      BY <1>4, <2>3 DEF On, T200_EXPIRED, T200_STOPPED
    <3> QED BY <3>2, <3>3, <3>4 DEF On
  <2> QED BY <2>1, <2>2, <2>3
<1>6. e.st # "IDLE"
  <2> SUFFICES ASSUME e.st = "IDLE" PROVE FALSE
    OBVIOUS
  <2>1. uplink_idle(e)
    BY <1>3 DEF uplink_awaiting_establishment, uplink_mfe, uplink_timer_recovery,
       uplink_awaiting_release, uplink_suspended
  <2> QED BY <2>1 DEF uplink_idle, Sends, Dummy, Uplinked
<1>7. uplink_awaiting_release(c, e) /\ e.st = "RELEASE" /\ e.c \in Channel
  BY <1>3, <1>4, <1>5, <1>6 DEF uplink_awaiting_establishment, uplink_mfe,
     uplink_timer_recovery, uplink_idle, uplink_suspended
<1>8. c \in Channel /\ c.vtx = e.c.vtx /\ (On(c) <=> On(e.c))
  <2>1. Restarted(e.c) \in Channel /\ T200Count # T200_STOPPED
    BY <1>7, ChannelTypes, EntityAssumption DEF T200_ACTIVE, T200_STOPPED
  <2> QED BY <1>2, <1>7, <2>1 DEF Restarted, set_T200_counter, Channel, On
<1>9. c.vtx # "UA"
  BY <1>7, <1>8 DEF uplink_awaiting_release, Acknowledging, Sends, Uplinked
<1>10. Timed /\ On(e.c)
  BY <1>4, <1>5, <1>6, <1>8, <1>9 DEF Same
<1>11. PICK d : d = [c EXCEPT !.vtx = "EMPTY"]
  OBVIOUS
<1>12. On(d) <=> On(c)
  BY <1>8, <1>11 DEF On, Channel
<1>13. cch' = c \/ cch' = d
  BY <1>7, <1>9, <1>11 DEF uplink_awaiting_release, Acknowledging, Sends, Dummy, Uplinked
<1> QED BY <1>8, <1>10, <1>12, <1>13 DEF On, Timed

\* What an opportunity makes of the entity, by the state it finds.
ReleaseSignals == {"RELEASE_IND", "RELEASE_CNF"}

SendsDisc ==
  /\ disc_request /\ ~disc_request' /\ state' = "RELEASE" /\ Timed' /\ queue' = queue
  /\ l2_frame' # None /\ l2_frame'.type = "DISC"
GoesOnLinked == Linked /\ GoesOn /\ signals' = <<>> /\ UNCHANGED disc_request
GivesUpLinked == Linked /\ GivesUp /\ UNCHANGED disc_request
GoesOnAsking ==
  /\ state = "CONTENTION" /\ UNCHANGED <<queue, disc_request>>
  /\ \/ state' = "IDLE"
     \/ /\ state' = "CONTENTION" /\ signals' = <<>>
        /\ cch'.contention_resolution = cch.contention_resolution
  /\ l2_frame' # None => l2_frame'.type = "SABM"
GoesOnEnding ==
  /\ state \in {"IDLE", "RELEASE"} /\ UNCHANGED <<queue, disc_request>>
  /\ \/ state' = "IDLE"
     \/ /\ state = "RELEASE" /\ state' = "RELEASE"
        /\ Timed \/ cch.vtx = "UA" => Timed /\ Timed'
  /\ l2_frame' # None => l2_frame'.type \in {"UA", "DM", "DISC"}

LEMMA PromptOpportunity ==
  ASSUME OnSchedule, LInv, Opportunity
  PROVE  /\ in_msg' = in_msg /\ Only(signals', EndSignals) /\ signals' \in Seq(Signals)
         /\ state' = "RELEASE" => Only(signals', ReleaseSignals)
         /\ SendsDisc \/ GoesOnLinked \/ GivesUpLinked \/ GoesOnAsking \/ GoesOnEnding
<1>1. /\ signals = <<>> /\ signals \in Seq(Signals) /\ OnTime /\ Sapi = 0
  BY Prompt
<1>2. /\ IInv /\ IInv' /\ RelSignal \in Seq(Signals)
      /\ ~rel.pending => RelSignal = <<>>
  BY <1>1, OpportunityFrame
<1>3. PICK busy \in BOOLEAN : dl_uplink(busy)
  BY <1>1, OpportunityFrame
<1>4. in_msg' = in_msg
  BY <1>3 DEF dl_uplink
<1>5. Only(RelSignal, ReleaseSignals) /\ RelSignal \o <<>> = RelSignal
  <2>1. PICK s : s = ReleaseInd(TRUE)
    OBVIOUS
  <2>2. s.name \in ReleaseSignals
    BY <2>1 DEF ReleaseInd, Sig, ReleaseSignals
  <2>3. \A b : Only(When(b, s), ReleaseSignals)
    BY <2>2, OnlyWhen
  <2> QED BY <1>2, <2>1, <2>3, NoSignals DEF RelSignal
<1>6. ASSUME NEW sigs \in Seq(Signals), Only(sigs, EndSignals), signals' = signals \o (RelSignal \o sigs)
      PROVE  /\ signals' \in Seq(Signals) /\ Only(signals', EndSignals)
             /\ Only(sigs, ReleaseSignals) => Only(signals', ReleaseSignals)
             /\ sigs = <<>> => signals' = RelSignal
  <2>1. RelSignal \o sigs \in Seq(Signals) /\ signals' = RelSignal \o sigs
    <3>1. RelSignal \o sigs \in Seq(Signals)
      BY <1>2, <1>6, Grows
    <3> QED BY <1>1, <1>6, <3>1, NoSignals
  <2>2. Only(RelSignal, EndSignals)
    BY <1>5 DEF Only, ReleaseSignals, EndSignals
  <2>3. Only(signals', EndSignals)
    BY <1>2, <1>6, <2>1, <2>2, OnlyGrows
  <2>4. Only(sigs, ReleaseSignals) => Only(signals', ReleaseSignals)
    BY <1>2, <1>5, <1>6, <2>1, OnlyGrows
  <2> QED BY <1>5, <2>1, <2>3, <2>4
<1>7. /\ Only(<<>>, ReleaseSignals) /\ Only(<<ReleaseCnf(TRUE)>>, ReleaseSignals)
  <2>1. PICK s : s = ReleaseCnf(TRUE)
    OBVIOUS
  <2>2. s.name \in ReleaseSignals
    BY <2>1 DEF ReleaseCnf, Sig, ReleaseSignals
  <2> QED BY <2>1, <2>2, OnlyWhen
<1>8. CASE check_disc(Ticked)
  <2>1. /\ state' = "RELEASE" /\ queue' = queue
        /\ l2_frame' = UFrame("DISC", TRUE, TRUE, None)
        /\ signals' = signals \o (RelSignal \o <<>>)
    BY <1>8 DEF check_disc, Sends, Uplinked, Post
  <2>2. l2_frame' # None /\ l2_frame'.type = "DISC"
    <3>1. l2_frame' \in Frame(Infos)
      BY <2>1, SentTypes DEF Types
    <3> QED BY <2>1, <3>1, LinkAssumption DEF UFrame, Infos
  <2>3. Timed'
    <3>1. PICK c : c = com_prepare_DISC(Ticked)
      OBVIOUS
    <3>2. Ticked \in Channel
      BY <1>2, TickedSame DEF Same
    <3>3. c \in Channel /\ c.time_flag /\ T200Count # T200_STOPPED
      <4>1. c \in Channel
        BY <3>1, <3>2, ChannelTypes
      <4>2. c.time_flag
        BY <3>1, <3>2 DEF com_prepare_DISC, Channel
      <4>3. T200Count # T200_STOPPED
        BY EntityAssumption DEF T200_ACTIVE, T200_STOPPED
      <4> QED BY <4>1, <4>2, <4>3
    <3>4. PICK d : d = Restarted(c)
      OBVIOUS
    <3>5. d \in Channel /\ d.T200_counter # T200_STOPPED
      BY <3>3, <3>4, ChannelTypes DEF Restarted, set_T200_counter, Channel
    <3>6. cch' = [d EXCEPT !.vtx = "EMPTY"]
      BY <1>8, <3>1, <3>4 DEF check_disc, Sends, Uplinked
    <3> QED BY <3>5, <3>6 DEF Timed, Channel
  <2>4. disc_request /\ ~disc_request'
    <3>1. Sapi # 3
      BY <1>1
    <3> QED BY <1>8, <3>1, Zenon DEF check_disc
  <2> QED BY <1>4, <1>6, <1>7, <2>1, <2>2, <2>3, <2>4, EndTypes DEF SendsDisc
<1>9. CASE ~check_disc(Ticked) /\ Linked
  <2>1. Running
    BY <1>9 DEF LInv, UpAndRunning
  <2>2. (GoesOn \/ GivesUp) /\ UNCHANGED disc_request /\ RelSignal = <<>>
    BY <1>2, <1>3, <1>1, <1>9, <2>1, LinkedUplink DEF Running
  <2>3. CASE GoesOn
    BY <1>4, <1>6, <1>7, <1>9, <2>2, <2>3, EndTypes DEF GoesOn, GoesOnLinked
  <2>4. CASE GivesUp
    BY <1>4, <1>6, <1>9, <2>2, <2>4, EndTypes DEF GivesUp, GivesUpLinked
  <2> QED BY <2>2, <2>3, <2>4
<1>10. CASE ~check_disc(Ticked) /\ state = "CONTENTION"
  <2>1. cch.vtx \in {"EMPTY", "SABM"} /\ RelSignal = <<>>
    BY <1>2, <1>10 DEF LInv, Contending, Asking, Unused, Fresh
  <2>2. /\ UNCHANGED <<disc_request, queue, in_msg>>
        /\ \/ /\ state' = "CONTENTION" /\ signals' = signals \o (RelSignal \o <<>>)
              /\ cch'.contention_resolution = cch.contention_resolution
              /\ l2_frame' # None => l2_frame'.type = "SABM"
           \/ /\ state' = "IDLE" /\ l2_frame' = None
              /\ signals' = signals \o (RelSignal \o <<ErrorInd>>)
    BY <1>2, <1>3, <1>1, <1>10, <2>1, ContentionUplink
  <2> QED BY <1>4, <1>6, <1>7, <1>10, <2>1, <2>2, EndTypes DEF GoesOnAsking
<1>11. CASE ~check_disc(Ticked) /\ state \in {"IDLE", "RELEASE"}
  <2>1. /\ UNCHANGED <<disc_request, queue>> /\ state' \in {"IDLE", "RELEASE"}
        /\ state = "IDLE" => state' = "IDLE"
        /\ l2_frame' # None => l2_frame'.type \in {"UA", "DM", "DISC"}
        /\ \/ signals' = signals \o (RelSignal \o <<>>)
           \/ signals' = signals \o (RelSignal \o <<ReleaseCnf(TRUE)>>)
    BY <1>2, <1>3, <1>1, <1>11, EndedUplink
  <2>2. state' = "RELEASE" /\ (Timed \/ cch.vtx = "UA") => Timed /\ Timed'
    BY <1>2, <1>3, <1>1, <1>11, <2>1, ReleaseUplink
  <2>3. GoesOnEnding
    BY <1>11, <2>1, <2>2 DEF GoesOnEnding
  <2> QED BY <1>4, <1>6, <1>7, <2>1, <2>3, EndTypes
<1> QED BY <1>8, <1>9, <1>10, <1>11 DEF LInv, LinkType, Linked

-----------------------------------------------------------------------------
(* The signals of a frame. *)

DataSignals == {"CONCATENATE", "DATA_CNF", "DATA_IND"}

Batch(c, a, i, seg) ==
  When(c, Concatenate(seg)) \o When(a, DataCnf) \o When(i, DataInd)

\* They are handled one after the other.
LEMMA BatchHandled ==
  ASSUME NEW c \in BOOLEAN, NEW a \in BOOLEAN, NEW i \in BOOLEAN, NEW seg \in OrNone(Info),
         NEW s, s = Batch(c, a, i, seg)
  PROVE  /\ s \in Seq(Signals)
         /\ c => s # <<>> /\ Head(s) = Concatenate(seg) /\ Tail(s) = Batch(FALSE, a, i, seg)
         /\ ~c /\ a => s # <<>> /\ Head(s) = DataCnf /\ Tail(s) = Batch(FALSE, FALSE, i, seg)
         /\ ~c /\ ~a /\ i =>
              s # <<>> /\ Head(s) = DataInd /\ Tail(s) = Batch(FALSE, FALSE, FALSE, seg)
         /\ ~c /\ ~a /\ ~i => s = <<>>
<1>1. PICK x, y, z : x = Concatenate(seg) /\ y = DataCnf /\ z = DataInd
  OBVIOUS
<1>2. x \in Signals /\ y \in Signals /\ z \in Signals
  BY <1>1, SignalTypes
<1>3. \A b, d, e \in BOOLEAN : Batch(b, d, e, seg) = When(b, x) \o When(d, y) \o When(e, z)
  BY <1>1 DEF Batch
<1>4. s = When(c, x) \o When(a, y) \o When(i, z)
  BY <1>3
<1>5. CASE c
  <2>1. s = <<x>> \o When(a, y) \o When(i, z)
    BY <1>4, <1>5 DEF When
  <2>2. Batch(FALSE, a, i, seg) = <<>> \o When(a, y) \o When(i, z)
    BY <1>3 DEF When
  <2>3. PICK t, u : t = When(a, y) /\ u = When(i, z)
    OBVIOUS
  <2>4. t \in Seq(Signals) /\ u \in Seq(Signals)
    BY <1>2, <2>3, SignalTypes
  <2>5. /\ <<x>> \o t \o u \in Seq(Signals) /\ <<x>> \o t \o u # <<>>
        /\ Head(<<x>> \o t \o u) = x /\ Tail(<<x>> \o t \o u) = <<>> \o t \o u
    BY <1>2, <2>4
  <2> QED BY <1>1, <1>5, <2>1, <2>2, <2>3, <2>5
<1>6. CASE ~c /\ a
  <2>1. s = <<>> \o <<y>> \o When(i, z)
    BY <1>4, <1>6 DEF When
  <2>2. Batch(FALSE, FALSE, i, seg) = <<>> \o <<>> \o When(i, z)
    BY <1>3 DEF When
  <2>3. PICK u : u = When(i, z)
    OBVIOUS
  <2>4. u \in Seq(Signals)
    BY <1>2, <2>3, SignalTypes
  <2>5. /\ <<>> \o <<y>> \o u \in Seq(Signals) /\ <<>> \o <<y>> \o u # <<>>
        /\ Head(<<>> \o <<y>> \o u) = y /\ Tail(<<>> \o <<y>> \o u) = <<>> \o <<>> \o u
    BY <1>2, <2>4
  <2> QED BY <1>1, <1>6, <2>1, <2>2, <2>3, <2>5
<1>7. CASE ~c /\ ~a /\ i
  <2>1. s = <<>> \o <<>> \o <<z>>
    BY <1>4, <1>7 DEF When
  <2>2. Batch(FALSE, FALSE, FALSE, seg) = <<>> \o <<>> \o <<>>
    BY <1>3 DEF When
  <2>3. /\ <<>> \o <<>> \o <<z>> \in Seq(Signals) /\ <<>> \o <<>> \o <<z>> # <<>>
        /\ Head(<<>> \o <<>> \o <<z>>) = z
        /\ Tail(<<>> \o <<>> \o <<z>>) = <<>> \o <<>> \o <<>>
    BY <1>2
  <2> QED BY <1>1, <1>7, <2>1, <2>2, <2>3
<1>8. CASE ~c /\ ~a /\ ~i
  <2>1. s = <<>> \o <<>> \o <<>>
    BY <1>4, <1>8 DEF When
  <2>2. s = <<>> /\ <<>> \in Seq(Signals)
    BY <2>1, SignalTypes
  <2> QED BY <1>8, <2>2
<1> QED BY <1>5, <1>6, <1>7, <1>8

LEMMA BatchEmpty ==
  ASSUME NEW c \in BOOLEAN, NEW a \in BOOLEAN, NEW i \in BOOLEAN, NEW seg \in OrNone(Info),
         Batch(c, a, i, seg) = <<>>
  PROVE  ~c /\ ~a /\ ~i
<1>1. PICK x, y, z : x = Concatenate(seg) /\ y = DataCnf /\ z = DataInd
  OBVIOUS
<1>2. x \in Signals /\ y \in Signals /\ z \in Signals
  BY <1>1, SignalTypes
<1>3. When(c, x) \o When(a, y) \o When(i, z) = <<>>
  BY <1>1 DEF Batch
<1>4. PICK r, t, u : r = When(c, x) /\ t = When(a, y) /\ u = When(i, z)
  OBVIOUS
<1>5. /\ r \in Seq(Signals) /\ t \in Seq(Signals) /\ u \in Seq(Signals)
      /\ r \o t \o u = <<>>
  BY <1>2, <1>3, <1>4, SignalTypes
<1>6. Len(r) = 0 /\ Len(t) = 0 /\ Len(u) = 0
  <2>1. r \o t \in Seq(Signals) /\ Len(r \o t) = Len(r) + Len(t)
    BY <1>5
  <2>2. Len(r \o t \o u) = Len(r \o t) + Len(u)
    BY <1>5, <2>1
  <2>3. Len(r) \in Nat /\ Len(t) \in Nat /\ Len(u) \in Nat /\ Len(r \o t \o u) = 0
    BY <1>5
  <2> QED BY <2>1, <2>2, <2>3
<1>7. ~c
  BY <1>4, <1>6 DEF When
<1>8. ~a
  BY <1>4, <1>6 DEF When
<1>9. ~i
  BY <1>4, <1>6 DEF When
<1> QED BY <1>7, <1>8, <1>9

LEMMA BatchNames ==
  ASSUME NEW c \in BOOLEAN, NEW a \in BOOLEAN, NEW i \in BOOLEAN, NEW seg \in OrNone(Info),
         NEW s, s = Batch(c, a, i, seg)
  PROVE  /\ Only(s, DataSignals)
         /\ \A k \in DOMAIN s : s[k].name = "CONCATENATE" => c /\ s[k].seg = seg
<1>1. PICK x, y, z : x = Concatenate(seg) /\ y = DataCnf /\ z = DataInd
  OBVIOUS
<1>2. x \in Signals /\ y \in Signals /\ z \in Signals
  BY <1>1, SignalTypes
<1>3. PICK t, u, v : t = When(c, x) /\ u = When(a, y) /\ v = When(i, z)
  OBVIOUS
<1>4. t \in Seq(Signals) /\ u \in Seq(Signals) /\ v \in Seq(Signals) /\ s = t \o u \o v
  BY <1>1, <1>2, <1>3, SignalTypes DEF Batch
<1>5. /\ x.name = "CONCATENATE" /\ x.seg = seg /\ y.name = "DATA_CNF" /\ z.name = "DATA_IND"
  BY <1>1 DEF Concatenate, DataCnf, DataInd, Sig
<1>6. /\ \A k \in DOMAIN t : t[k] = x /\ c
      /\ \A k \in DOMAIN u : u[k] = y
      /\ \A k \in DOMAIN v : v[k] = z
  <2>1. ASSUME NEW b \in BOOLEAN, NEW w, NEW r, r = When(b, w), NEW k \in DOMAIN r
        PROVE  r[k] = w /\ b
    <3>1. CASE b
      <4>1. r = <<w>>
        BY <2>1, <3>1 DEF When
      <4>2. DOMAIN <<w>> = {1} /\ <<w>>[1] = w
        OBVIOUS
      <4>3. r[k] = w
        BY <2>1, <4>1, <4>2
      <4> QED BY <3>1, <4>3
    <3>2. CASE ~b
      <4>1. r = <<>>
        BY <2>1, <3>2 DEF When
      <4> QED BY <2>1, <4>1
    <3> QED BY <3>1, <3>2
  <2> QED BY <1>3, <2>1
<1>7. \A k \in DOMAIN s : (s[k] = x /\ c) \/ s[k] = y \/ s[k] = z
  <2>1. /\ t \o u \in Seq(Signals)
        /\ \A k \in DOMAIN s : \/ k \in DOMAIN (t \o u) /\ s[k] = (t \o u)[k]
                               \/ \E j \in DOMAIN v : s[k] = v[j]
    BY <1>4, Grows
  <2>2. \A k \in DOMAIN (t \o u) : \/ k \in DOMAIN t /\ (t \o u)[k] = t[k]
                                   \/ \E j \in DOMAIN u : (t \o u)[k] = u[j]
    BY <1>4, Grows
  <2> QED BY <1>6, <2>1, <2>2
<1> QED BY <1>5, <1>7 DEF Only, DataSignals

\* The segment that is new, the acknowledgement of a message to be confirmed,
\* and the end of a message of the network.
Confirming(f) ==
  Acknowledges(f) /\ SentCompletely(queue) /\ queue.sending_buffer \in Cnf

LEMMA TakesBatch ==
  ASSUME OnSchedule, LInv, Receives, Linked, NEW f \in Frame(OrNone(Info)), Takes(f)
  PROVE  /\ New(f) \in BOOLEAN /\ Confirming(f) \in BOOLEAN /\ (New(f) /\ ~f.m) \in BOOLEAN
         /\ f.info \in OrNone(Info)
         /\ signals' = Batch(New(f), Confirming(f), New(f) /\ ~f.m, f.info)
<1>1. /\ New(f) \in BOOLEAN /\ Confirming(f) \in BOOLEAN /\ (New(f) /\ ~f.m) \in BOOLEAN
      /\ f.info \in OrNone(Info)
  BY FrameFields DEF New, Confirming, Acknowledges
<1>2. (IF Acknowledges(f) THEN FreeSignal(queue) ELSE <<>>) = When(Confirming(f), DataCnf)
  BY DEF FreeSignal, Confirming, When
<1>3. PICK b : b = Batch(New(f), Confirming(f), New(f) /\ ~f.m, f.info)
  OBVIOUS
<1>4. signals' = signals \o b
  BY <1>2, <1>3 DEF Takes, Batch
<1>5. b \in Seq(Signals) /\ signals = <<>>
  <2>1. PICK c, a, i, seg : c = New(f) /\ a = Confirming(f) /\ i = (New(f) /\ ~f.m) /\ seg = f.info
    OBVIOUS
  <2>2. c \in BOOLEAN /\ a \in BOOLEAN /\ i \in BOOLEAN /\ seg \in OrNone(Info)
    BY <1>1, <2>1
  <2>3. b = Batch(c, a, i, seg)
    BY <1>3, <2>1
  <2>4. b \in Seq(Signals)
    BY <2>2, <2>3, BatchHandled
  <2> QED BY <2>4, Prompt
<1> QED BY <1>1, <1>3, <1>4, <1>5, NoSignals

-----------------------------------------------------------------------------
(* A release goes on until it ends. *)

\* A frame of the network: its segments release nothing that RR may release.
LEMMA ReceivesReleasing ==
  ASSUME OnSchedule, OneRelease, LInv, RInv, Receives
  PROVE  RInv'
<1>1. /\ UNCHANGED rrView /\ signals = <<>>
      /\ Head(down) \in Frame(OrNone(Info))
  BY ReceivesFrame, Prompt
<1>2. CASE Linked
  <2>1. PICK f : f = Head(down)
    OBVIOUS
  <2>2. DownFits(f) /\ f \in Frame(OrNone(Info)) /\ (Takes(f) \/ PromptDisc)
    BY <1>2, <2>1, PromptLinked
  <2>3. CASE Takes(f)
    <3>1. PICK c \in BOOLEAN, a \in BOOLEAN, i \in BOOLEAN :
            c = New(f) /\ a = Confirming(f) /\ i = (New(f) /\ ~f.m)
      BY <1>2, <2>2, <2>3, TakesBatch
    <3>2. PICK seg \in OrNone(Info) : seg = f.info
      BY <1>2, <2>2, <2>3, TakesBatch
    <3>3. signals' = Batch(c, a, i, seg)
      BY <1>2, <2>2, <2>3, <3>1, <3>2, TakesBatch
    <3>4. \A k \in DOMAIN signals' : signals'[k].name = "CONCATENATE" => c /\ signals'[k].seg = seg
      BY <3>3, BatchNames
    <3>5. c /\ RRCloses => seg \notin ChannelRelease
      <4> SUFFICES ASSUME c, RRCloses PROVE seg \notin ChannelRelease
        OBVIOUS
      <4>1. net.sent = net.acked + 1 /\ Body(f, net.sent)
        BY <1>2, <2>2, <3>1, NewIsNext
      <4>2. net.sent \in 1..Len(DownFrames) /\ DOMAIN DownFrames = 1..Len(DownFrames)
        BY <4>1, LinkAssumption DEF LInv, LinkType, NetState
      <4> QED BY <3>2, <4>1, <4>2 DEF Body, OneRelease
    <3>6. UNCHANGED <<in_msg, disc_request>> /\ state' # "RELEASE"
      BY <1>2, <2>3 DEF Takes, Linked
    <3> QED BY <1>1, <3>4, <3>5, <3>6 DEF RInv, NoneReleases, AskedByRR, Releasing
  <2>4. CASE PromptDisc
    BY <1>1, <2>4 DEF PromptDisc, RInv, NoneReleases, AskedByRR, Releasing, Only
  <2> QED BY <2>2, <2>3, <2>4
<1>3. CASE state = "CONTENTION"
  <2>1. PICK s, t : s = EstablishCnf /\ t = ReleaseInd(FALSE)
    OBVIOUS
  <2>2. s.name # "CONCATENATE" /\ t.name # "CONCATENATE"
    BY <2>1 DEF EstablishCnf, ReleaseInd, Sig
  <2>3. /\ signals' \in {<<>>, <<s>>, <<t>>} /\ state' # "RELEASE"
        /\ UNCHANGED <<in_msg, disc_request>>
    BY <1>3, <2>1, PromptContention DEF PromptContended
  <2>4. \A k \in DOMAIN signals' : signals'[k].name # "CONCATENATE"
    BY <2>2, <2>3
  <2> QED BY <1>1, <2>3, <2>4 DEF RInv, NoneReleases, AskedByRR, Releasing
<1>4. CASE state \in {"IDLE", "RELEASE"}
  <2>1. PromptReleased
    BY <1>4, PromptEnded
  <2>2. UNCHANGED <<in_msg, disc_request>>
    BY <2>1 DEF PromptReleased
  <2>3. CASE state' = state /\ signals' = <<>>
    <3>1. \/ cch'.vtx = cch.vtx /\ (Timed' <=> Timed)
          \/ cch'.vtx = "UA" /\ ~Timed'
          \/ state = "IDLE"
      BY <2>1, <2>3 DEF PromptReleased
    <3> QED BY <1>1, <2>2, <2>3, <3>1 DEF RInv, NoneReleases, AskedByRR, Releasing, Only
  <2>4. CASE state' = "IDLE" /\ \E b \in BOOLEAN : signals' = <<ReleaseCnf(b)>>
    <3>1. PICK s : s.name # "CONCATENATE" /\ signals' = <<s>>
      BY <2>4 DEF ReleaseCnf, Sig
    <3> QED BY <1>1, <2>2, <2>4, <3>1 DEF RInv, NoneReleases, AskedByRR, Releasing
  <2> QED BY <2>1, <2>3, <2>4 DEF PromptReleased
<1> QED BY <1>2, <1>3, <1>4 DEF LInv, LinkType, Linked

\* An opportunity to send: the DISC is sent with T200, and T200 goes on.
LEMMA OpportunityReleasing ==
  ASSUME OnSchedule, LInv, RInv, Opportunity
  PROVE  RInv'
<1>1. /\ in_msg' = in_msg /\ Only(signals', EndSignals) /\ UNCHANGED rrView
      /\ state' = "RELEASE" => Only(signals', ReleaseSignals)
      /\ SendsDisc \/ GoesOnLinked \/ GivesUpLinked \/ GoesOnAsking \/ GoesOnEnding
  BY PromptOpportunity, OpportunityFrame DEF OnSchedule
<1>2. disc_request' => disc_request
  BY <1>1 DEF SendsDisc, GoesOnLinked, GivesUpLinked, GoesOnAsking, GoesOnEnding
<1>3. NoneReleases'
  BY <1>1 DEF RInv, NoneReleases, Only, EndSignals
<1>4. AskedByRR'
  BY <1>1, <1>2 DEF RInv, AskedByRR
<1>5. Releasing'
  <2> SUFFICES ASSUME state' = "RELEASE" PROVE Releasing'
    BY DEF Releasing
  <2>1. Only(signals', LateSignals)
    BY <1>1 DEF Only, ReleaseSignals, LateSignals, SignalNames
  <2>2. SendsDisc \/ GoesOnEnding
    BY <1>1 DEF GoesOnLinked, GoesOn, GivesUpLinked, GivesUp, GoesOnAsking, Linked
  <2>3. CASE SendsDisc
    BY <1>1, <2>1, <2>3 DEF SendsDisc, RInv, AskedByRR, Releasing
  <2>4. CASE GoesOnEnding
    BY <1>1, <2>1, <2>4 DEF GoesOnEnding, RInv, Releasing
  <2> QED BY <2>2, <2>3, <2>4
<1> QED BY <1>3, <1>4, <1>5 DEF RInv

\* The DL task: what RR is told is not the start of a link that ends, and no
\* message of the network asks for a release that RR may ask for.
LEMMA TaskReleasing ==
  ASSUME OnSchedule, LInv, RInv, Task0
  PROVE  RInv'
<1>1. PICK s : s = Head(signals)
  OBVIOUS
<1>2. /\ HandleSignal(s) /\ signals' = Tail(signals) /\ RRGets(rrView)
      /\ signals # <<>> /\ signals \in Seq(Signals) /\ in_msg \in Seq(OrNone(Info))
      /\ Sapi = 0
  BY <1>1 DEF Task0, DLTask, LInv, IInv, TypeOK, OnSchedule, OnTime
<1>3. /\ s \in Signals /\ 1 \in DOMAIN signals /\ s = signals[1]
      /\ \A names : Only(signals, names) => Only(signals', names) /\ s.name \in names
      /\ \A i \in DOMAIN signals' :
           i \in Nat /\ i + 1 \in DOMAIN signals /\ signals'[i] = signals[i + 1]
  BY <1>1, <1>2, SignalsLeft, Begins
<1>4. /\ state # "CONTENTION" /\ (Linked => s.name \in LinkedSignals)
      /\ state = "RELEASE" => s.name \in LateSignals
  BY <1>2, <1>3 DEF LInv, Contending, Asking, UpAndRunning, Running, RInv, Releasing
<1>5. s.name = "ERROR_IND" => state = "IDLE"
  BY <1>4 DEF LInv, LinkType, Linked, LinkedSignals, LateSignals
<1>6. \/ state' = "IDLE" /\ in_msg' = <<>> /\ disc_request' = FALSE
      \/ /\ UNCHANGED <<state, cch>>
         /\ \/ UNCHANGED <<in_msg, disc_request>>
            \/ /\ s.name = "CONCATENATE" /\ in_msg' = Append(in_msg, s.seg)
               /\ UNCHANGED disc_request
            \/ /\ s.name = "DATA_IND" /\ in_msg # <<>> /\ in_msg' = <<>>
               /\ disc_request' = (disc_request \/ IsChannelRelease)
  BY <1>2, <1>5 DEF HandleSignal, TaskInit, init_dl_data, InitialState
<1>7. /\ s.name \in {"ESTABLISH_IND", "ESTABLISH_CNF"} => rrView = "ASKED"
      /\ \/ rrView' \in {"DOWN", rrView}
         \/ s.name \in {"ESTABLISH_IND", "ESTABLISH_CNF"}
  <2>1. s.name \in {"ESTABLISH_IND", "ESTABLISH_CNF"} => rrView = "ASKED"
    BY <1>3 DEF LInv, Agreed
  <2>2. CASE toRR' = <<>>
    BY <1>2, <2>1, <2>2, RRViews
  <2>3. CASE toRR' # <<>>
    <3>1. \/ s.name \notin {"CONCATENATE", "ERROR_IND"} /\ \E m : toRR' = <<Prim(s.name, m)>>
          \/ s.name = "ERROR_IND" /\ toRR' = <<Prim("RELEASE_IND", None)>>
      BY <1>2, <1>5, <2>3 DEF HandleSignal, Handled, TaskInit, RELEASE_IND, RELEASE_CNF
    <3>2. PICK n, m : /\ toRR' = <<Prim(n, m)>>
                      /\ \/ n = s.name /\ n \notin {"CONCATENATE", "ERROR_IND"}
                         \/ n = "RELEASE_IND"
      BY <3>1
    <3>3. PICK p : p = Prim(n, m)
      OBVIOUS
    <3>4. toRR' = <<p>> /\ p.name = n /\ toRR' # <<>>
      BY <3>2, <3>3 DEF Prim
    <3>5. /\ p.name \in {"RELEASE_IND", "RELEASE_CNF"} => rrView' = "DOWN"
          /\ p.name \in {"DATA_CNF", "DATA_IND"} => rrView' = rrView
      BY <1>2, <3>4, RRViews
    <3>6. n \in SignalNames \ {"CONCATENATE", "ERROR_IND"}
      BY <1>3, <3>2 DEF Signals, SignalNames
    <3> QED BY <2>1, <3>2, <3>4, <3>5, <3>6 DEF SignalNames
  <2> QED BY <2>1, <2>2, <2>3
<1>8. NoneReleases'
  <2> SUFFICES ASSUME RRCloses PROVE NoneReleases'
    BY DEF NoneReleases
  <2>1. /\ \A i \in DOMAIN in_msg : in_msg[i] \notin ChannelRelease
        /\ s.name = "CONCATENATE" => s.seg \notin ChannelRelease
        /\ \A i \in DOMAIN signals' :
             signals'[i].name = "CONCATENATE" => signals'[i].seg \notin ChannelRelease
    BY <1>3 DEF RInv, NoneReleases
  <2>2. s.name = "CONCATENATE" =>
          \A i \in DOMAIN Append(in_msg, s.seg) : Append(in_msg, s.seg)[i] \notin ChannelRelease
    <3>1. PICK seg : seg = s.seg
      OBVIOUS
    <3>2. seg \in OrNone(Info)
      BY <1>3, <3>1 DEF Signals
    <3>3. \A i \in DOMAIN Append(in_msg, seg) :
            (i \in DOMAIN in_msg /\ Append(in_msg, seg)[i] = in_msg[i]) \/ Append(in_msg, seg)[i] = seg
      BY <1>2, <3>2
    <3> QED BY <2>1, <3>1, <3>3
  <2>3. \A i \in DOMAIN in_msg' : in_msg'[i] \notin ChannelRelease
    BY <1>6, <2>1, <2>2
  <2> QED BY <2>1, <2>3 DEF NoneReleases
<1>9. AskedByRR'
  <2> SUFFICES ASSUME disc_request', RRCloses PROVE rrView' \in {"CLOSING", "DOWN"}
    BY DEF AskedByRR
  <2>1. in_msg # <<>> => ~IsChannelRelease
    <3>1. in_msg # <<>> => 1 \in DOMAIN in_msg
      BY <1>2
    <3> QED BY <3>1 DEF IsChannelRelease, RInv, NoneReleases
  <2>2. disc_request
    BY <1>6, <2>1
  <2>3. rrView \in {"CLOSING", "DOWN"}
    BY <2>2 DEF RInv, AskedByRR
  <2> QED BY <1>7, <2>3
<1>10. Releasing'
  <2> SUFFICES ASSUME state' = "RELEASE" PROVE Releasing'
    BY DEF Releasing
  <2>1. state = "RELEASE" /\ UNCHANGED cch
    BY <1>6
  <2>2. /\ Timed \/ cch.vtx = "UA"
        /\ rrView = "UP" /\ RRCloses => cch.vtx = "UA" /\ ~Timed
        /\ Only(signals, LateSignals)
    BY <2>1 DEF RInv, Releasing
  <2>3. rrView' \in {"DOWN", rrView}
    BY <1>4, <1>7, <2>1 DEF LateSignals
  <2>4. Timed' <=> Timed
    BY <2>1 DEF Timed
  <2> QED BY <1>3, <2>1, <2>2, <2>3, <2>4 DEF Releasing
<1> QED BY <1>8, <1>9, <1>10 DEF RInv

\* RR asks for the link, sends on it and releases it.
LEMMA RRReleasing ==
  ASSUME OnSchedule, LInv, RInv, RREstablishes \/ RRSends \/ RRReleases
  PROVE  RInv'
<1>1. UNCHANGED signals /\ signals \in Seq(Signals)
  BY DEF RREstablishes, RRSends, RRReleases, RRStep, LInv, IInv, TypeOK
<1>2. CASE RREstablishes
  <2>1. net.st = "IDLE" /\ dcch0_establish_req(EstMsg) /\ Fresh /\ EstMsg # None
    BY <1>2, LinkAssumption, EntityAssumption DEF RREstablishes, LInv, Unused
  <2>2. state = "IDLE"
    BY <1>2, <2>1 DEF RREstablishes, Fresh, LInv, Contending, Asking
  <2>3. state' = "CONTENTION" /\ disc_request' = FALSE /\ UNCHANGED in_msg
    BY <2>1, <2>2 DEF dcch0_establish_req, Task
  <2> QED BY <1>1, <2>3 DEF RInv, NoneReleases, AskedByRR, Releasing
<1>3. CASE RRSends
  <2>1. PICK m : data_req(m) /\ RRGets(rrView)
    BY <1>3 DEF RRSends, RRStep
  <2>2. UNCHANGED <<state, cch, disc_request, in_msg>> /\ toRR' = <<>>
    BY <2>1 DEF data_req, Task
  <2>3. UNCHANGED rrView /\ (Timed' <=> Timed)
    BY <2>1, <2>2, RRViews DEF Timed
  <2> QED BY <1>1, <2>2, <2>3 DEF RInv, NoneReleases, AskedByRR, Releasing
<1>4. CASE RRReleases
  <2>1. RRCloses /\ rrView = "UP" /\ release_req(<<>>, rel) /\ RRGets("CLOSING")
    BY <1>4 DEF RRReleases, RRStep
  <2>2. ~disc_request /\ state # "CONTENTION"
    BY <2>1 DEF RInv, AskedByRR, LInv, Contending, Asking
  <2>3. Only(signals, SignalNames \ {"ESTABLISH_IND", "ESTABLISH_CNF"})
    <3>1. \A i \in DOMAIN signals : signals[i] \in Signals
      BY <1>1
    <3>2. \A i \in DOMAIN signals : signals[i].name \in SignalNames
      BY <3>1 DEF Signals
    <3>3. \A i \in DOMAIN signals : signals[i].name \notin {"ESTABLISH_IND", "ESTABLISH_CNF"}
      BY <2>1 DEF LInv, Agreed
    <3> QED BY <3>2, <3>3 DEF Only
  <2>4. CASE Linked /\ cch.vtx = "RR_CMD"
    <3>1. /\ state' = state /\ toRR' = <<>> /\ UNCHANGED in_msg
      BY <2>1, <2>2, <2>4 DEF release_req, Task, Linked
    <3>2. rrView' = "CLOSING"
      BY <2>1, <3>1, RRViews
    <3> QED BY <1>1, <2>4, <3>1, <3>2 DEF RInv, NoneReleases, AskedByRR, Releasing, Linked
  <2>5. CASE Linked /\ cch.vtx # "RR_CMD"
    <3>1. /\ state' = "RELEASE" /\ toRR' = <<>> /\ UNCHANGED <<in_msg, disc_request>>
          /\ cch' = com_prepare_DISC(cch)
      BY <2>1, <2>2, <2>5 DEF release_req, Task, Linked
    <3>2. cch'.time_flag
      BY <3>1 DEF com_prepare_DISC, LInv, IInv, TypeOK, Channel
    <3>3. rrView' = "CLOSING" /\ Timed'
      BY <2>1, <3>1, <3>2, RRViews DEF Timed
    <3>4. Only(signals, LateSignals)
      <4>1. Only(signals, LinkedSignals)
        BY <2>5 DEF LInv, UpAndRunning, Running
      <4> QED BY <2>3, <4>1 DEF Only, LinkedSignals, LateSignals
    <3> QED BY <1>1, <2>2, <3>1, <3>3, <3>4 DEF RInv, NoneReleases, AskedByRR, Releasing
  <2>6. CASE state = "RELEASE"
    <3>1. /\ state' = "RELEASE" /\ toRR' = <<>> /\ UNCHANGED <<in_msg, disc_request>>
          /\ cch' = [cch EXCEPT !.T200_counter = T200_STOPPED]
      BY <2>1, <2>2, <2>6 DEF release_req, Task
    <3>2. cch.vtx = "UA" /\ ~Timed /\ Only(signals, LateSignals)
      BY <2>1, <2>6 DEF RInv, Releasing
    <3>3. cch'.vtx = "UA" /\ rrView' = "CLOSING"
      BY <2>1, <3>1, <3>2, RRViews DEF LInv, IInv, TypeOK, Channel
    <3> QED BY <1>1, <2>2, <3>1, <3>2, <3>3 DEF RInv, NoneReleases, AskedByRR, Releasing
  <2>7. CASE state = "IDLE"
    <3>1. state' = "IDLE" /\ in_msg' = <<>> /\ disc_request' = FALSE
      BY <2>1, <2>7 DEF release_req, TaskInit, init_dl_data, InitialState, OnSchedule, OnTime
    <3> QED BY <1>1, <3>1 DEF RInv, NoneReleases, AskedByRR, Releasing
  <2> QED BY <2>2, <2>4, <2>5, <2>6, <2>7 DEF LInv, LinkType, Linked
<1> QED BY <1>2, <1>3, <1>4

\* Every step.
LEMMA NextReleasing ==
  ASSUME OnSchedule, OneRelease, LInv, RInv, [LinkNext]_allVars
  PROVE  RInv'
<1>1. CASE Receives \/ Opportunity
  BY <1>1, ReceivesReleasing, OpportunityReleasing
<1>2. CASE Task0 \/ RREstablishes \/ RRSends \/ RRReleases
  BY <1>2, TaskReleasing, RRReleasing
<1>3. CASE UNCHANGED <<vars, rrView>>
  BY <1>3 DEF vars, RInv, NoneReleases, AskedByRR, Releasing, Timed
<1>4. CASE Network \/ LoseUp \/ LoseDown \/ UNCHANGED allVars
  <2>1. UNCHANGED <<vars, rrView>>
    BY <1>4 DEF Network, NetReceives, NetSends, NetRepeats, NetReleases, NetStep, LoseUp,
                LoseDown, allVars, linkVars
  <2> QED BY <1>3, <2>1
<1> QED BY <1>1, <1>2, <1>4 DEF LinkNext, Mobile

\* DiscIsRepeated for every instance: from the moment the release is awaited T200
\* runs or will be started (com_prepare_DISC, T200_expiry), or the UA that ends
\* the link is to be sent, provided RR does not release a link that the network
\* is releasing with a CHANNEL RELEASE.
THEOREM DiscRepeated ==
  OnSchedule /\ OneRelease => (LinkSpec => []DiscIsRepeated)
<1> SUFFICES ASSUME OnSchedule, OneRelease PROVE LinkSpec => []DiscIsRepeated
  OBVIOUS
<1>1. OnTime
  BY DEF OnSchedule
<1>2. LinkInit => RInv
  BY <1>1 DEF LinkInit, Init, InitialState, OnTime, RInv, NoneReleases, AskedByRR, Releasing
<1>3. LInv /\ RInv /\ [LinkNext]_allVars => RInv'
  BY NextReleasing
<1>4. RInv => DiscIsRepeated
  BY DEF RInv, Releasing, DiscIsRepeated
<1>5. LinkSpec => []LInv
  BY <1>1, LinkInvariance
<1> QED BY <1>2, <1>3, <1>4, <1>5, PTL DEF LinkSpec

-----------------------------------------------------------------------------
(* The data of the link. *)

Piece == [info : SegmentRead, m : BOOLEAN]

DataType ==
  /\ handed \in 0..Len(Uplink0)
  /\ given \in Seq(Piece) /\ carried \in Seq(Piece)
  /\ confirmed \in Seq(Msgs) /\ indicated \in Seq(Seq(OrNone(Info)))

\* Before the network has taken up the link there is no data.
Unestablished == net.st = "IDLE" \/ state = "CONTENTION" \/ IsSABM

NoData ==
  Unestablished =>
    /\ handed = 0 /\ given = <<>> /\ carried = <<>> /\ confirmed = <<>> /\ indicated = <<>>
    /\ in_msg = <<>>
    /\ queue.store_buffer = <<>> /\ queue.sending_buffer = None /\ queue.act_length = 0
    /\ state = "CONTENTION" => cch.contention_resolution

\* The messages whose transmission has begun, the last one in the sending buffer.
Begun == handed - Len(queue.store_buffer)

Queued ==
  /\ Len(queue.store_buffer) <= handed
  /\ \A j \in DOMAIN queue.store_buffer : queue.store_buffer[j] = Uplink0[Begun + j]
  /\ queue.sending_buffer # None => Begun >= 1 /\ queue.sending_buffer = Uplink0[Begun]
  /\ queue.act_length # 0 =>
       /\ queue.sending_buffer # None
       /\ queue.act_length <= Segs[queue.sending_buffer]
       /\ queue.act_offset = Segs[queue.sending_buffer] - queue.act_length

\* at[i] segments were given before message i.
Laid(at) ==
  /\ at[1] = 0 /\ at[handed + 1] = Len(given)
  /\ \A i \in 1..handed :
       /\ at[i + 1] = at[i] + Segs[Uplink0[i]]
       /\ \A k \in 1..Segs[Uplink0[i]] : given[at[i] + k] = Segments(Uplink0[i])[k]

\* The number of segments that were read, the last one by the frame that is
\* outstanding; the network has received all of them, or all but this one.
ReadTo(at) == at[Begun + 1] - queue.act_length

Sending(at) ==
  Linked =>
    /\ queue.switch_buffer = None
    /\ ReadTo(at) = Len(carried) + (IF net.vr = cch.vs THEN 0 ELSE 1)
    /\ cch.vs # cch.va =>
         /\ ReadTo(at) >= 1
         /\ given[ReadTo(at)] = [info |-> queue.transmit_buffer, m |-> queue.m_bit]

Given == \E at \in [1..handed + 1 -> 0..Len(given)] : Laid(at) /\ Sending(at)

\* The network has received what was given, in order, and the next frame it
\* takes has the next segment.
Carried ==
  /\ Len(carried) <= Len(given)
  /\ \A j \in 1..Len(carried) : carried[j] = given[j]
  /\ up # None /\ up.type = "I" /\ net.st = "MFE" /\ up.ns = net.vr =>
       /\ Len(carried) < Len(given)
       /\ given[Len(carried) + 1] = [info |-> up.info, m |-> up.m]

Delivered(m) ==
  \A k \in 1..Segs[m] : \E j \in DOMAIN carried : carried[j] = Segments(m)[k]

\* A message is confirmed after it was delivered, and once.
Confirmed ==
  \A i \in DOMAIN confirmed :
    /\ Delivered(confirmed[i])
    /\ \E k \in 1..Begun :
         confirmed[i] = Uplink0[k] /\ (queue.sending_buffer # None => k < Begun)

\* Where the messages of the network start in DownFrames.
Starts(start) ==
  /\ start[1] = 0 /\ start[Len(Down) + 1] = Len(DownFrames)
  /\ \A i \in DOMAIN Down :
       /\ Down[i] # <<>> /\ start[i + 1] = start[i] + Len(Down[i])
       /\ \A k \in DOMAIN Down[i] :
            DownFrames[start[i] + k] = [info |-> Down[i][k], m |-> k < Len(Down[i])]

Start == CHOOSE start \in [1..Len(Down) + 1 -> 0..Len(DownFrames)] : Starts(start)

\* The signals that are left of a frame: c, a and i say which of the three.
Pending(c, a, i, seg) ==
  \/ signals = Batch(c, a, i, seg) /\ state \in {"MFE", "RECOVERY", "RELEASE"}
  \/ ~c /\ ~a /\ ~i /\ Only(signals, SignalNames \ DataSignals)

\* The message to be confirmed is delivered.
Ready(a) ==
  a => /\ queue.act_length = 0
       /\ queue.sending_buffer # None =>
            queue.sending_buffer \in Cnf /\ Delivered(queue.sending_buffer)

\* The message that is put together, the segment of the frame included, is the
\* next one of the network as far as it was acknowledged.
Assembled(c, seg) == IF c THEN Append(in_msg, seg) ELSE in_msg

Follows(msg) ==
  /\ Len(indicated) <= Len(Down)
  /\ Start[Len(indicated) + 1] + Len(msg) \in {net.acked, net.sent}
  /\ (Start[Len(indicated) + 1] + Len(msg)) % 8 = cch.vr

Part(msg, i) ==
  Len(indicated) < Len(Down) =>
    LET next == Down[Len(indicated) + 1]
    IN /\ Len(msg) <= Len(next) /\ \A j \in 1..Len(msg) : msg[j] = next[j]
       /\ i <=> Len(msg) = Len(next)

Whole(msg, i) == i => Len(indicated) < Len(Down) /\ msg = Down[Len(indicated) + 1]

Handling ==
  \E c, a, i \in BOOLEAN, seg \in OrNone(Info) :
    /\ Pending(c, a, i, seg) /\ Ready(a)
    /\ Whole(Assembled(c, seg), i)
    /\ Linked => Follows(Assembled(c, seg)) /\ Part(Assembled(c, seg), i)

DInv == DataType /\ NoData /\ Queued /\ Given /\ Carried /\ Confirmed /\ Handling

LEMMA StartFacts ==
  /\ Start \in [1..Len(Down) + 1 -> 0..Len(DownFrames)] /\ Starts(Start)
  /\ Down \in Seq(Seq(Info)) /\ Len(Down) \in Nat /\ DOMAIN Down = 1..Len(Down)
  /\ Len(DownFrames) \in Nat
<1>1. \E start \in [1..Len(Down) + 1 -> 0..Len(DownFrames)] : Starts(start)
  BY LinkAssumption DEF Starts
<1>2. Down \in Seq(Seq(Info)) /\ Len(DownFrames) \in Nat
  <2>1. PICK S : S = Seq(Info)
    OBVIOUS
  <2>2. Down \in Seq(S) /\ Len(DownFrames) \in Nat
    BY <2>1, LinkAssumption
  <2> QED BY <2>1, <2>2
<1>3. Len(Down) \in Nat /\ DOMAIN Down = 1..Len(Down)
  BY <1>2
<1> QED BY <1>1, <1>2, <1>3 DEF Start

LEMMA SegmentFacts ==
  ASSUME NEW m \in Msgs
  PROVE  /\ Segs[m] \in Nat /\ Segs[m] >= 1
         /\ Segments(m) \in Seq(Piece) /\ Len(Segments(m)) = Segs[m]
         /\ DOMAIN Segments(m) = 1..Segs[m]
         /\ \A k \in 1..Segs[m] :
              Segments(m)[k] = [info |-> [msg |-> m, k |-> k], m |-> k < Segs[m]]
<1>1. Segs[m] \in Nat /\ Segs[m] >= 1
  BY EntityAssumption
<1>2. \A k \in 1..Segs[m] : [info |-> [msg |-> m, k |-> k], m |-> k < Segs[m]] \in Piece
  <2> TAKE k \in 1..Segs[m]
  <2>1. [msg |-> m, k |-> k] \in SegmentRead
    BY DEF SegmentRead
  <2> QED BY <2>1 DEF Piece
<1>3. /\ DOMAIN Segments(m) = 1..Segs[m]
      /\ \A k \in 1..Segs[m] :
           Segments(m)[k] = [info |-> [msg |-> m, k |-> k], m |-> k < Segs[m]]
  BY DEF Segments
<1>4. Segments(m) \in [1..Segs[m] -> Piece]
  BY <1>2 DEF Segments
<1>5. Segments(m) \in Seq(Piece) /\ Len(Segments(m)) = Segs[m]
  BY <1>1, <1>4
<1> QED BY <1>1, <1>3, <1>5

LEMMA DataFacts ==
  ASSUME LInv, DataType, Queued
  PROVE  /\ handed \in Nat /\ Len(Uplink0) \in Nat /\ handed <= Len(Uplink0)
         /\ \A i \in 1..Len(Uplink0) : Uplink0[i] \in Msgs
         /\ given \in Seq(Piece) /\ carried \in Seq(Piece)
         /\ Len(given) \in Nat /\ Len(carried) \in Nat
         /\ DOMAIN given = 1..Len(given) /\ DOMAIN carried = 1..Len(carried)
         /\ queue \in Queue /\ queue.store_buffer \in Seq(Msgs)
         /\ queue.sending_buffer \in OrNone(Msgs) /\ queue.switch_buffer \in OrNone(Msgs)
         /\ queue.act_length \in Nat /\ queue.act_offset \in Int
         /\ Len(queue.store_buffer) \in Nat
         /\ DOMAIN queue.store_buffer = 1..Len(queue.store_buffer)
         /\ Begun \in 0..handed /\ None \notin Msgs
<1>1. Uplink0 \in Seq(Msgs) /\ None \notin Msgs
  BY LinkAssumption, EntityAssumption
<1>2. /\ queue \in Queue /\ queue.store_buffer \in Seq(Msgs)
      /\ queue.sending_buffer \in OrNone(Msgs) /\ queue.switch_buffer \in OrNone(Msgs)
      /\ queue.act_length \in Nat /\ queue.act_offset \in Int
  BY DEF LInv, IInv, TypeOK, Queue, Stored, Lengths, Offsets
<1>3. given \in Seq(Piece) /\ carried \in Seq(Piece)
  BY DEF DataType
<1>4. /\ Len(Uplink0) \in Nat /\ \A i \in 1..Len(Uplink0) : Uplink0[i] \in Msgs
  BY <1>1
<1>5. /\ Len(given) \in Nat /\ Len(carried) \in Nat
      /\ DOMAIN given = 1..Len(given) /\ DOMAIN carried = 1..Len(carried)
  BY <1>3
<1>6. Len(queue.store_buffer) \in Nat
      /\ DOMAIN queue.store_buffer = 1..Len(queue.store_buffer)
  BY <1>2
<1>7. Begun \in 0..handed /\ handed \in Nat /\ handed <= Len(Uplink0)
  BY <1>4, <1>6 DEF Begun, Queued, DataType
<1> QED BY <1>1, <1>2, <1>3, <1>4, <1>5, <1>6, <1>7

\* Changes of the uplink queue that read no segment.
Keeps ==
  /\ queue'.store_buffer = queue.store_buffer /\ queue'.act_length = queue.act_length
  /\ queue'.act_offset = queue.act_offset
  /\ \/ queue'.sending_buffer = queue.sending_buffer
     \/ queue'.sending_buffer = None /\ queue.act_length = 0
Clears ==
  /\ queue'.store_buffer = <<>> /\ queue'.sending_buffer = None /\ queue'.act_length = 0

LEMMA QueuedKept ==
  ASSUME LInv, DataType, Queued, UNCHANGED handed, Keeps \/ Clears
  PROVE  /\ Queued' /\ Begun' >= Begun /\ Begun' \in Int
         /\ Keeps => Begun' = Begun
         /\ queue'.sending_buffer # None => queue.sending_buffer # None /\ Begun' = Begun
<1>1. Keeps => Begun' = Begun
  BY DEF Keeps, Begun
<1>2. CASE Keeps
  <2>1. Queued'
    BY <1>1, <1>2 DEF Keeps, Queued
  <2> QED BY <1>1, <1>2, <2>1, DataFacts DEF Keeps
<1>3. CASE Clears
  <2>1. Begun' = handed
    BY <1>3, DataFacts DEF Clears, Begun
  <2>2. Queued'
    BY <1>3, DataFacts DEF Clears, Queued
  <2>3. Begun' >= Begun /\ Begun' \in Int
    BY <2>1, DataFacts
  <2> QED BY <1>1, <1>3, <2>2, <2>3 DEF Clears
<1> QED BY <1>2, <1>3

\* What was delivered stays so.
LEMMA DeliveredKept ==
  ASSUME DataType, carried' = carried \/ \E x \in Piece : carried' = Append(carried, x)
  PROVE  \A m : Delivered(m) => Delivered(m)'
<1>1. carried \in Seq(Piece)
  BY DEF DataType
<1>2. \A j \in DOMAIN carried : j \in DOMAIN carried' /\ carried'[j] = carried[j]
  BY <1>1
<1> QED BY <1>2 DEF Delivered, Segments

LEMMA ConfirmedKept ==
  ASSUME LInv, DataType, Queued, Confirmed, UNCHANGED confirmed,
         carried' = carried \/ \E x \in Piece : carried' = Append(carried, x),
         Begun' >= Begun, Begun' \in Int,
         queue'.sending_buffer # None =>
           (queue.sending_buffer # None /\ Begun' = Begun) \/ Begun' > Begun
  PROVE  Confirmed'
<1> SUFFICES ASSUME NEW i \in DOMAIN confirmed
             PROVE  /\ Delivered(confirmed[i])'
                    /\ \E k \in 1..Begun' : /\ confirmed[i] = Uplink0[k]
                                            /\ queue'.sending_buffer # None => k < Begun'
  BY DEF Confirmed
<1>1. PICK k \in 1..Begun :
        confirmed[i] = Uplink0[k] /\ (queue.sending_buffer # None => k < Begun)
  BY DEF Confirmed
<1>2. Begun \in Int
  BY DataFacts
<1>3. k \in 1..Begun' /\ (queue'.sending_buffer # None => k < Begun')
  BY <1>1, <1>2
<1>4. PICK m : m = confirmed[i]
  OBVIOUS
<1>5. Delivered(m)'
  BY <1>4, DeliveredKept DEF Confirmed
<1> QED BY <1>1, <1>3, <1>4, <1>5

\* A link that is not up.
LEMMA GivenKept ==
  ASSUME Given, UNCHANGED <<handed, given>>, ~Linked'
  PROVE  Given'
<1>1. \A at : Laid(at) => Laid(at)'
  BY DEF Laid, Segments
<1> QED BY <1>1 DEF Given, Sending

-----------------------------------------------------------------------------
(* Data and steps of the network and of the channel. *)

NetMoves ==
  net'.acked \in {net.acked, net.sent} /\ net'.sent \in {net.sent, net.sent + 1}

NetTakes ==
  /\ up # None /\ up.type = "I" /\ net.st = "MFE" /\ up.ns = net.vr
  /\ carried' = Append(carried, [info |-> up.info, m |-> up.m])
  /\ up' = None /\ net'.vr = Incr(net.vr) /\ net'.st = "MFE"

NetQuiet ==
  /\ UNCHANGED carried
  /\ up' # None => net'.vr = net.vr /\ (net'.st = "MFE" => net.st = "MFE")
  /\ Linked => net'.vr = net.vr

\* What a step of the network or of the channel changes.
LEMMA NetworkMoves ==
  ASSUME LInv, Network \/ LoseUp \/ LoseDown
  PROVE  /\ UNCHANGED <<vars, handed, given, confirmed, indicated>>
         /\ up' \in {up, None} /\ (net'.st = "IDLE" => net.st = "IDLE")
         /\ Linked => NetMoves
         /\ NetTakes \/ NetQuiet
<1>1. net \in NetState /\ DOMAIN net = {"st", "vr", "sent", "acked", "rej"}
  BY DEF LInv, LinkType, NetState
<1>2. Acked(up).acked \in {net.acked, net.sent} /\ Acked(up).sent = net.sent
      /\ Acked(up).vr = net.vr /\ Acked(up).st = net.st /\ Acked(up) \in NetState
  BY <1>1 DEF Acked, NetState
<1>3. CASE LoseUp \/ LoseDown
  BY <1>3 DEF LoseUp, LoseDown, NetMoves, NetQuiet
<1>4. CASE NetSends \/ NetRepeats \/ NetReleases
  <2>1. /\ UNCHANGED <<vars, handed, given, confirmed, indicated, up, carried>>
        /\ net' \in {net, [net EXCEPT !.sent = @ + 1], [net EXCEPT !.st = "CLOSING"]}
        /\ net'.st = "MFE" => net.st = "MFE"
    BY <1>1, <1>4 DEF NetSends, NetRepeats, NetReleases, NetStep, NetState
  <2>2. /\ net'.vr = net.vr /\ net'.acked = net.acked /\ net'.sent \in {net.sent, net.sent + 1}
        /\ net'.st \in {net.st, "CLOSING"}
    BY <1>1, <2>1 DEF NetState
  <2> QED BY <2>1, <2>2 DEF NetMoves, NetQuiet
<1>5. CASE NetReceives
  <2>1. UNCHANGED <<vars, handed, given, confirmed, indicated>> /\ up' = None /\ up # None
    BY <1>5 DEF NetReceives
  <2>2. CASE NetSABM(up)
    <3>1. ~Linked
      BY <2>1, <2>2 DEF LInv, Unused, IsSABM, Fresh, Linked, NetSABM
    <3>2. net'.st = "MFE" /\ UNCHANGED carried
      BY <2>2 DEF NetSABM, NetInit
    <3> QED BY <2>1, <3>1, <3>2 DEF NetQuiet
  <2>3. CASE NetDISC(up) \/ NetIRepeated(up) \/ NetSupervisory(up) \/ NetUAorDM(up) \/ NetElse(up)
    <3>1. /\ net' \in {net, [net EXCEPT !.st = "CLOSED"], Acked(up), [Acked(up) EXCEPT !.rej = TRUE]}
          /\ UNCHANGED carried
      BY <2>3 DEF NetDISC, NetIRepeated, NetSupervisory, NetUAorDM, NetElse
    <3>2. /\ net'.vr = net.vr /\ net'.st \in {net.st, "CLOSED"}
          /\ net'.acked \in {net.acked, net.sent} /\ net'.sent = net.sent
      BY <1>1, <1>2, <3>1 DEF NetState
    <3> QED BY <2>1, <3>1, <3>2 DEF NetMoves, NetQuiet
  <2>4. CASE NetIFrame(up)
    <3>1. PICK n : n = [Acked(up) EXCEPT !.vr = Incr(@), !.rej = FALSE]
      OBVIOUS
    <3>2. /\ n.acked \in {net.acked, net.sent} /\ n.sent = net.sent
          /\ n.vr = Incr(net.vr) /\ n.st = net.st /\ n \in NetState
      BY <1>1, <1>2, <3>1, Modulo DEF NetState
    <3>3. net' = n \/ net' = [n EXCEPT !.sent = @ + 1]
      BY <2>4, <3>1 DEF NetIFrame
    <3>4. /\ net'.acked = n.acked /\ net'.sent \in {net.sent, net.sent + 1}
          /\ net'.vr = n.vr /\ net'.st = n.st
      BY <3>2, <3>3 DEF NetState
    <3> QED BY <2>1, <2>4, <3>2, <3>4 DEF NetIFrame, NetMoves, NetTakes
  <2> QED BY <1>5, <2>2, <2>3, <2>4 DEF NetReceives
<1> QED BY <1>3, <1>4, <1>5 DEF Network

\* A window of one frame and numbers modulo 8: the place is known.
LEMMA Place ==
  ASSUME NEW a \in Nat, NEW s \in {a, a + 1}, NEW b \in {a, s}, NEW t \in {s, s + 1},
         t \in {b, b + 1}, NEW p \in {a, s}, p % 8 \in {b % 8, t % 8}
  PROVE  p \in {b, t}
<1>1. \A n \in Nat : n % 8 # (n + 1) % 8 /\ n % 8 # (n + 1 + 1) % 8
  OBVIOUS
<1>2. a % 8 # (a + 1) % 8 /\ a % 8 # (a + 1 + 1) % 8
  BY <1>1
<1>3. CASE p = s \/ b = a
  BY <1>3
<1>4. CASE p = a /\ b = s /\ s = a + 1
  BY <1>2, <1>4
<1> QED BY <1>3, <1>4

\* The place in the messages of the network moves with the acknowledgement.
LEMMA FollowsNet ==
  ASSUME LInv, LInv', Linked, UNCHANGED <<vars, indicated>>, NetMoves, NEW msg, Follows(msg)
  PROVE  Follows(msg)'
<1>1. PICK p : p = Start[Len(indicated) + 1] + Len(msg)
  OBVIOUS
<1>2. p \in {net.acked, net.sent} /\ p % 8 = cch.vr /\ Len(indicated) <= Len(Down)
  BY <1>1 DEF Follows
<1>3. /\ net.acked \in Nat /\ net.sent \in {net.acked, net.acked + 1}
      /\ net'.acked \in Nat /\ net'.sent \in {net'.acked, net'.acked + 1}
  BY DEF LInv, LinkType, NetState
<1>4. cch.vr \in {net'.acked % 8, net'.sent % 8} /\ cch' = cch
  BY DEF LInv, UpAndRunning, Synchronised, Linked, vars
<1>5. p \in {net'.acked, net'.sent}
  <2>1. PICK a, s, b, t :
          a = net.acked /\ s = net.sent /\ b = net'.acked /\ t = net'.sent
    OBVIOUS
  <2>2. /\ a \in Nat /\ s \in {a, a + 1} /\ b \in {a, s} /\ t \in {s, s + 1}
        /\ t \in {b, b + 1} /\ p \in {a, s} /\ p % 8 \in {b % 8, t % 8}
    BY <1>2, <1>3, <1>4, <2>1 DEF NetMoves
  <2> QED BY <2>1, <2>2, Place
<1> QED BY <1>1, <1>2, <1>4, <1>5 DEF Follows

\* Signals and messages of a step that touches none of them.
LEMMA HandlingNet ==
  ASSUME LInv, LInv', Handling, UNCHANGED <<vars, indicated>>, Linked => NetMoves,
         \A m : Delivered(m) => Delivered(m)'
  PROVE  Handling'
<1>1. PICK c \in BOOLEAN, a \in BOOLEAN, i \in BOOLEAN, seg \in OrNone(Info) :
        /\ Pending(c, a, i, seg) /\ Ready(a)
        /\ Whole(Assembled(c, seg), i)
        /\ Linked => Follows(Assembled(c, seg)) /\ Part(Assembled(c, seg), i)
  BY DEF Handling
<1>2. PICK msg : msg = Assembled(c, seg)
  OBVIOUS
<1>3. Assembled(c, seg)' = msg
  BY <1>2 DEF Assembled, vars
<1>4. Pending(c, a, i, seg)'
  BY <1>1 DEF Pending, vars, Only, Batch, When, Concatenate, DataCnf, DataInd, Sig
<1>5. Ready(a)'
  BY <1>1 DEF Ready, vars
<1>6. Whole(msg, i)' /\ (Part(msg, i) => Part(msg, i)')
  BY <1>1, <1>2 DEF Whole, Part
<1>7. Linked' => Follows(msg)' /\ Part(msg, i)'
  BY <1>1, <1>2, <1>6, FollowsNet DEF Linked, vars
<1> QED BY <1>3, <1>4, <1>5, <1>6, <1>7 DEF Handling

\* The segment of a frame that is taken is the next one given.
LEMMA TakesNext ==
  ASSUME LInv, DataType, Queued, Carried, NetTakes, UNCHANGED vars
  PROVE  /\ Len(carried) < Len(given)
         /\ carried' = Append(carried, given[Len(carried) + 1])
         /\ given[Len(carried) + 1] \in Piece
         /\ ~Unestablished'
         /\ Linked => net.vr # cch.vs /\ net'.vr = cch.vs
<1>1. /\ Len(carried) < Len(given)
      /\ given[Len(carried) + 1] = [info |-> up.info, m |-> up.m]
  BY DEF NetTakes, Carried
<1>2. given[Len(carried) + 1] \in Piece
  <2>1. /\ given \in Seq(Piece) /\ Len(carried) + 1 \in 1..Len(given)
    BY <1>1, DataFacts
  <2> QED BY <2>1
<1>3. ~Unestablished'
  <2>1. state # "CONTENTION"
    BY DEF NetTakes, LInv, Contending, Awaited
  <2> QED BY <2>1 DEF NetTakes, Unestablished, IsSABM, vars
<1>4. Linked => net.vr # cch.vs /\ net'.vr = cch.vs
  <2> SUFFICES ASSUME Linked PROVE net.vr # cch.vs /\ net'.vr = cch.vs
    OBVIOUS
  <2>1. /\ net.vr \in Numbers /\ cch.va \in Numbers /\ cch.vs \in Numbers
        /\ Synchronised /\ Windowed
    BY DEF LInv, LinkType, NetState, UpAndRunning, Running, IInv, TypeOK, Channel
  <2>2. net.vr = Decr(cch.vs) \/ (net.vr = cch.va /\ cch.vs # cch.va)
    BY <2>1 DEF Synchronised, UpFits, NetTakes
  <2>3. CASE net.vr = Decr(cch.vs)
    BY <2>1, <2>3, Modulo DEF NetTakes
  <2>4. CASE net.vr = cch.va /\ cch.vs # cch.va
    BY <2>1, <2>4, Modulo DEF NetTakes, Windowed
  <2> QED BY <2>2, <2>3, <2>4
<1> QED BY <1>1, <1>2, <1>3, <1>4 DEF NetTakes

\* Every step of the network and of the channel.
LEMMA NetworkData ==
  ASSUME LInv, LInv', DInv, Network \/ LoseUp \/ LoseDown
  PROVE  DInv'
<1>1. /\ UNCHANGED <<handed, given, confirmed, indicated>> /\ UNCHANGED vars
      /\ up' \in {up, None} /\ (net'.st = "IDLE" => net.st = "IDLE")
      /\ Linked => NetMoves
      /\ NetTakes \/ NetQuiet
  BY NetworkMoves
<1>2. DataType /\ NoData /\ Queued /\ Given /\ Carried /\ Confirmed /\ Handling
  BY DEF DInv
<1>3. carried' = carried \/ \E x \in Piece : carried' = Append(carried, x)
  BY <1>1, <1>2, TakesNext DEF NetQuiet
<1>4. carried' \in Seq(Piece)
  <2>1. carried \in Seq(Piece)
    BY <1>2 DEF DataType
  <2> QED BY <1>3, <2>1
<1>5. UNCHANGED <<state, cch, queue, in_msg, signals>>
  BY <1>1 DEF vars
<1>6. DataType'
  BY <1>1, <1>2, <1>4 DEF DataType
<1>7. NoData'
  <2>1. Unestablished' => Unestablished /\ carried' = carried
    <3>1. CASE NetTakes
      BY <1>1, <1>2, <3>1, TakesNext
    <3>2. CASE NetQuiet
      BY <1>1, <1>5, <3>2 DEF NetQuiet, Unestablished, IsSABM
    <3> QED BY <1>1, <3>1, <3>2
  <2> QED BY <1>1, <1>2, <1>5, <2>1 DEF NoData
<1>8. Queued' /\ Begun' = Begun
  BY <1>1, <1>2, <1>5 DEF Queued, Begun
<1>9. Given'
  <2>1. PICK at \in [1..handed + 1 -> 0..Len(given)] : Laid(at) /\ Sending(at)
    BY <1>2 DEF Given
  <2>2. Laid(at)'
    BY <1>1, <2>1 DEF Laid, Segments
  <2>3. Sending(at)'
    <3> SUFFICES ASSUME Linked PROVE Sending(at)'
      BY <1>5 DEF Sending, Linked
    <3>1. ReadTo(at)' = ReadTo(at)
      BY <1>5, <1>8 DEF ReadTo
    <3>2. CASE NetQuiet
      BY <1>1, <1>5, <2>1, <3>1, <3>2 DEF NetQuiet, Sending, Linked
    <3>3. CASE NetTakes
      <4>1. ReadTo(at) = Len(carried) + 1 /\ net'.vr = cch.vs
        BY <1>1, <1>2, <2>1, <3>3, TakesNext DEF Sending
      <4>2. Len(carried') = Len(carried) + 1 /\ Len(carried) \in Nat
        BY <1>1, <1>2, <3>3, TakesNext DEF DataType
      <4> QED BY <1>1, <1>5, <2>1, <3>1, <4>1, <4>2 DEF Sending, Linked
    <3> QED BY <1>1, <3>2, <3>3
  <2> QED BY <1>1, <2>1, <2>2, <2>3 DEF Given
<1>10. Carried'
  <2>1. CASE NetTakes
    <3>1. /\ Len(carried) < Len(given)
          /\ carried' = Append(carried, given[Len(carried) + 1])
          /\ given[Len(carried) + 1] \in Piece /\ Len(carried) \in Nat /\ Len(given) \in Nat
      BY <1>1, <1>2, <2>1, TakesNext, DataFacts
    <3>2. \A j \in 1..Len(carried') : carried'[j] = given[j]
      BY <1>2, <3>1 DEF Carried, DataType
    <3>3. Len(carried') <= Len(given)
      BY <1>2, <3>1 DEF DataType
    <3> QED BY <1>1, <2>1, <3>2, <3>3 DEF Carried, NetTakes
  <2>2. CASE NetQuiet
    BY <1>1, <1>2, <2>2 DEF Carried, NetQuiet
  <2> QED BY <1>1, <2>1, <2>2
<1>11. Confirmed'
  <2>1. Begun \in Int
    BY <1>2, DataFacts
  <2> QED BY <1>1, <1>2, <1>3, <1>5, <1>8, <2>1, ConfirmedKept
<1>12. Handling'
  <2>1. \A m : Delivered(m) => Delivered(m)'
    BY <1>2, <1>3, DeliveredKept
  <2> QED BY <1>1, <1>2, <2>1, HandlingNet
<1> QED BY <1>6, <1>7, <1>8, <1>9, <1>10, <1>11, <1>12 DEF DInv

-----------------------------------------------------------------------------
(* Data and a frame that is received. *)

\* A message that is confirmed was delivered: its last frame is acknowledged.
LEMMA AckedDelivered ==
  ASSUME LInv, DInv, Linked, NEW f, DownFits(f), Numbered(f), Confirming(f)
  PROVE  /\ Delivered(queue.sending_buffer) /\ queue.act_length = 0
         /\ queue.sending_buffer \in Cnf
<1>1. /\ DataType /\ Queued /\ Carried /\ SentCompletely(queue)
      /\ queue.sending_buffer \in Cnf
  BY DEF DInv, Confirming
<1>2. net.vr = cch.vs
  <2>1. /\ Acknowledges(f) /\ f.nr \in {cch.va, net.vr} /\ net.vr \in {cch.va, cch.vs}
        /\ Acks(f) => net.vr = cch.vs
    BY DEF DownFits, Confirming, LInv, UpAndRunning, Synchronised
  <2> QED BY <2>1 DEF Acknowledges
<1>3. PICK at \in [1..handed + 1 -> 0..Len(given)] : Laid(at) /\ Sending(at)
  BY DEF DInv, Given
<1>4. PICK m, b : m = queue.sending_buffer /\ b = Begun
  OBVIOUS
<1>5. queue.act_length = 0 /\ m # None /\ b \in 1..handed /\ m = Uplink0[b]
  BY <1>1, <1>4, DataFacts DEF SentCompletely, Queued
<1>6. Len(carried) = at[b + 1] /\ Len(carried) \in Nat
  <2>1. at[b + 1] \in Int /\ Len(carried) \in Nat
    <3>1. handed \in Nat /\ Len(given) \in Nat /\ Len(carried) \in Nat
      BY <1>1, DataFacts
    <3>2. b + 1 \in 1..handed + 1
      BY <1>5, <3>1
    <3> QED BY <1>3, <3>1, <3>2
  <2> QED BY <1>2, <1>3, <1>4, <1>5, <2>1 DEF Sending, ReadTo
<1>7. /\ at[b + 1] = at[b] + Segs[m] /\ at[b] \in Nat /\ m \in Msgs
      /\ \A k \in 1..Segs[m] : given[at[b] + k] = Segments(m)[k]
  <2>1. b \in 1..handed + 1 /\ m \in Msgs
    BY <1>1, <1>5, DataFacts
  <2>2. at[b] \in Nat
    BY <1>1, <1>3, <2>1, DataFacts
  <2> QED BY <1>3, <1>5, <2>1, <2>2 DEF Laid
<1>8. ASSUME NEW k \in 1..Segs[m]
      PROVE  \E j \in DOMAIN carried : carried[j] = Segments(m)[k]
  <2>1. Segs[m] \in Nat /\ DOMAIN carried = 1..Len(carried)
    BY <1>1, <1>7, SegmentFacts, DataFacts
  <2>2. at[b] + k \in 1..Len(carried)
    BY <1>6, <1>7, <2>1
  <2>3. carried[at[b] + k] = Segments(m)[k]
    BY <1>1, <1>7, <2>2 DEF Carried
  <2> QED BY <2>1, <2>2, <2>3
<1> QED BY <1>1, <1>4, <1>5, <1>8 DEF Delivered

\* With no signals to handle the message that is put together is not complete.
LEMMA Settled ==
  ASSUME LInv, Handling, signals = <<>>, Linked
  PROVE  Follows(in_msg) /\ Part(in_msg, FALSE)
<1>1. PICK c \in BOOLEAN, a \in BOOLEAN, i \in BOOLEAN, seg \in OrNone(Info) :
        /\ Pending(c, a, i, seg)
        /\ Linked => Follows(Assembled(c, seg)) /\ Part(Assembled(c, seg), i)
  BY DEF Handling
<1>2. ~c /\ ~i
  <2>1. CASE signals = Batch(c, a, i, seg)
    <3>1. Batch(c, a, i, seg) = <<>>
      BY <2>1
    <3> QED BY <3>1, BatchEmpty, Zenon
  <2>2. CASE ~c /\ ~a /\ ~i
    BY <2>2
  <2> QED BY <1>1, <2>1, <2>2 DEF Pending
<1>3. Assembled(c, seg) = in_msg /\ i = FALSE
  BY <1>2 DEF Assembled
<1> QED BY <1>1, <1>3

\* Signals that are not about data.
LEMMA HandlingNone ==
  ASSUME Only(signals', SignalNames \ DataSignals),
         Linked' => Follows(in_msg)' /\ Part(in_msg, FALSE)'
  PROVE  Handling'
<1>1. Pending(FALSE, FALSE, FALSE, None)' /\ Ready(FALSE)'
  BY DEF Pending, Ready
<1>2. Assembled(FALSE, None)' = in_msg'
  BY DEF Assembled
<1>3. Whole(Assembled(FALSE, None), FALSE)'
  BY DEF Whole
<1>4. None \in OrNone(Info)
  BY DEF OrNone
<1> QED BY <1>1, <1>2, <1>3, <1>4 DEF Handling

\* The segment of a new frame is the next one.
LEMMA NewFollows ==
  ASSUME LInv, DataType, Linked, NEW f, f.info \in OrNone(Info), DownFits(f), New(f),
         Follows(in_msg), Part(in_msg, FALSE),
         UNCHANGED <<net, indicated, in_msg>>, cch'.vr = Incr(cch.vr)
  PROVE  /\ Follows(Append(in_msg, f.info))'
         /\ Part(Append(in_msg, f.info), ~f.m)'
         /\ Whole(Append(in_msg, f.info), ~f.m)'
<1>1. /\ net.sent = net.acked + 1 /\ Body(f, net.sent) /\ net.sent <= Len(DownFrames)
      /\ cch.vr = net.acked % 8 /\ Incr(cch.vr) = net.sent % 8 /\ net.acked \in Nat
  BY NewIsNext DEF LInv, LinkType, NetState
<1>2. PICK n, len, msg : n = Len(indicated) /\ len = Len(in_msg) /\ msg = Append(in_msg, f.info)
  OBVIOUS
<1>3. /\ n \in Nat /\ len \in Nat /\ Len(msg) = len + 1 /\ msg[len + 1] = f.info
      /\ \A j \in 1..len : msg[j] = in_msg[j]
      /\ msg \in Seq(OrNone(Info)) /\ DOMAIN msg = 1..len + 1
  <2>1. in_msg \in Seq(OrNone(Info)) /\ indicated \in Seq(Seq(OrNone(Info)))
    BY DEF LInv, IInv, TypeOK, DataType
  <2>2. n \in Nat
    BY <1>2, <2>1
  <2> QED BY <1>2, <2>1, <2>2
<1>4. PICK p, st, ack : p = st + len /\ st = Start[n + 1] /\ ack = net.acked
  OBVIOUS
<1>5. n <= Len(Down) /\ p \in {net.acked, net.sent} /\ p % 8 = cch.vr
  BY <1>2, <1>4 DEF Follows
<1>6. p = ack /\ ack \in Nat /\ net.sent = ack + 1
  <2>1. (ack + 1) % 8 # ack % 8
    BY <1>1, <1>4
  <2> QED BY <1>1, <1>4, <1>5, <2>1
<1>7. /\ n < Len(Down) /\ n + 1 \in 1..Len(Down) /\ st \in Nat
  <2>1. Len(Down) \in Nat /\ Len(DownFrames) \in Nat
    BY StartFacts
  <2>2. n + 1 \in 1..Len(Down) + 1
    BY <1>3, <1>5, <2>1
  <2>3. st \in 0..Len(DownFrames)
    BY <1>4, <2>2, StartFacts
  <2>4. n = Len(Down) => st = Len(DownFrames)
    BY <1>4, StartFacts DEF Starts
  <2>5. n # Len(Down)
    BY <1>1, <1>3, <1>4, <1>6, <2>1, <2>4
  <2> QED BY <1>3, <1>5, <2>1, <2>3, <2>5
<1>8. PICK d : d = Down[n + 1]
  OBVIOUS
<1>9. d \in Seq(Info) /\ Len(d) \in Nat /\ DOMAIN d = 1..Len(d)
  <2>1. PICK S : S = Seq(Info)
    OBVIOUS
  <2>2. d \in S
    BY <1>7, <1>8, <2>1, StartFacts
  <2> QED BY <2>1, <2>2
<1>10. /\ len < Len(d) /\ \A j \in 1..len : in_msg[j] = d[j]
  BY <1>2, <1>3, <1>7, <1>8, <1>9 DEF Part
<1>11. f.info = d[len + 1] /\ f.m = (len + 1 < Len(d))
  <2>1. len + 1 \in DOMAIN d
    BY <1>3, <1>9, <1>10
  <2>2. net.sent = st + (len + 1)
    BY <1>3, <1>4, <1>6, <1>7
  <2>3. DownFrames[st + (len + 1)] = [info |-> d[len + 1], m |-> len + 1 < Len(d)]
    BY <1>4, <1>7, <1>8, <2>1, StartFacts DEF Starts
  <2> QED BY <1>1, <2>2, <2>3 DEF Body
<1>12. \A j \in 1..len + 1 : msg[j] = d[j]
  BY <1>3, <1>10, <1>11
<1>13. ~f.m <=> Len(msg) = Len(d)
  <2>1. PICK e : e = Len(d)
    OBVIOUS
  <2>2. e \in Nat /\ len \in Nat /\ len < e
    BY <1>3, <1>9, <1>10, <2>1
  <2>3. len + 1 < e <=> len + 1 # e
    BY <2>2
  <2> QED BY <1>3, <1>11, <2>1, <2>3
<1>14. Follows(msg)'
  <2>1. Start[n + 1] + Len(msg) = net.sent
    BY <1>3, <1>4, <1>6, <1>7
  <2> QED BY <1>1, <1>2, <1>5, <2>1 DEF Follows
<1>15. Part(msg, ~f.m)'
  <2>1. Len(msg) <= Len(d)
    BY <1>3, <1>9, <1>10
  <2> QED BY <1>2, <1>3, <1>8, <1>12, <1>13, <2>1 DEF Part
<1>16. Whole(msg, ~f.m)'
  <2> SUFFICES ASSUME ~f.m PROVE msg = d
    BY <1>2, <1>7, <1>8 DEF Whole
  <2>1. Len(msg) = Len(d) /\ d \in Seq(OrNone(Info))
    <3>1. \A j \in 1..Len(d) : d[j] \in OrNone(Info)
      BY <1>9 DEF OrNone
    <3> QED BY <1>9, <1>13, <3>1
  <2> QED BY <1>3, <1>9, <1>12, <2>1
<1>17. Append(in_msg', f.info) = msg
  BY <1>2
<1> QED BY <1>14, <1>15, <1>16, <1>17

\* The queue after an acknowledgement.
LEMMA FreedKeeps ==
  ASSUME queue \in Queue, queue.switch_buffer = None,
         queue' \in {queue, free_sending_buffer(queue)}
  PROVE  /\ Keeps /\ queue'.switch_buffer = None
         /\ queue'.transmit_buffer = queue.transmit_buffer /\ queue'.m_bit = queue.m_bit
         /\ queue.sending_buffer \in Cnf => queue' = queue
BY DEF free_sending_buffer, SentCompletely, Keeps, Queue

\* A frame that the entity takes on a link that is up.
LEMMA TakesData ==
  ASSUME OnSchedule, LInv, LInv', DInv, Receives, Linked, NEW f \in Frame(OrNone(Info)),
         DownFits(f), Fits(f), Numbered(f), Takes(f)
  PROVE  DInv'
<1>1. /\ DataType /\ NoData /\ Queued /\ Given /\ Carried /\ Confirmed /\ Handling
      /\ signals = <<>>
  BY Prompt DEF DInv
<1>2. /\ UNCHANGED <<net, up, handed, given, carried, confirmed, indicated, in_msg>>
      /\ cch'.va = f.nr /\ cch'.vs = cch.vs /\ f.nr \in {cch.va, cch.vs}
      /\ cch'.vr = (IF New(f) THEN Incr(cch.vr) ELSE cch.vr)
      /\ Linked'
  BY DEF Receives, Takes, Fits, Linked
<1>3. PICK at \in [1..handed + 1 -> 0..Len(given)] : Laid(at) /\ Sending(at)
  BY <1>1 DEF Given
<1>4. /\ Keeps /\ queue'.switch_buffer = None
      /\ queue'.transmit_buffer = queue.transmit_buffer /\ queue'.m_bit = queue.m_bit
      /\ queue.sending_buffer \in Cnf => queue' = queue
  <2>1. queue \in Queue /\ queue.switch_buffer = None
    BY <1>1, <1>3, DataFacts DEF Sending
  <2>2. queue' \in {queue, free_sending_buffer(queue)}
    BY DEF Takes
  <2> QED BY <2>1, <2>2, FreedKeeps
<1>5. /\ Queued' /\ Begun' >= Begun /\ Begun' \in Int /\ Begun' = Begun
      /\ queue'.sending_buffer # None => queue.sending_buffer # None /\ Begun' = Begun
  BY <1>1, <1>2, <1>4, QueuedKept
<1>6. DataType'
  BY <1>1, <1>2 DEF DataType
<1>7. NoData'
  <2>1. ~IsSABM /\ net.st # "IDLE"
    BY ReceivesFrame DEF LInv, UpAndRunning, Synchronised, UpFits, Numbered, IsSABM
  <2> QED BY <1>2, <2>1 DEF NoData, Unestablished, IsSABM, Linked
<1>8. Given'
  <2>1. Laid(at)'
    BY <1>2, <1>3 DEF Laid, Segments
  <2>2. ReadTo(at)' = ReadTo(at)
    BY <1>4, <1>5 DEF ReadTo, Keeps
  <2>3. Sending(at)'
    BY <1>2, <1>3, <1>4, <2>2 DEF Sending
  <2> QED BY <1>2, <1>3, <2>1, <2>3 DEF Given
<1>9. Carried'
  BY <1>1, <1>2 DEF Carried
<1>10. Confirmed'
  BY <1>1, <1>2, <1>5, ConfirmedKept
<1>11. Handling'
  <2>1. PICK c \in BOOLEAN, a \in BOOLEAN, i \in BOOLEAN :
          c = New(f) /\ a = Confirming(f) /\ i = (New(f) /\ ~f.m)
    BY TakesBatch
  <2>2. PICK seg \in OrNone(Info) : seg = f.info
    BY TakesBatch
  <2>3. signals' = Batch(c, a, i, seg)
    BY <2>1, <2>2, TakesBatch
  <2>4. Pending(c, a, i, seg)'
    BY <1>2, <2>3 DEF Pending, Linked, Batch, When, Concatenate, DataCnf, DataInd, Sig
  <2>5. Ready(a)'
    <3> SUFFICES ASSUME a
                 PROVE  /\ queue'.act_length = 0
                        /\ queue'.sending_buffer # None =>
                             queue'.sending_buffer \in Cnf /\ Delivered(queue.sending_buffer)'
      BY DEF Ready
    <3>1. /\ Delivered(queue.sending_buffer) /\ queue.act_length = 0
          /\ queue.sending_buffer \in Cnf
      BY <2>1, AckedDelivered
    <3>2. queue' = queue
      BY <1>4, <3>1
    <3> QED BY <1>2, <3>1, <3>2 DEF Delivered
  <2>6. Follows(in_msg) /\ Part(in_msg, FALSE)
    BY <1>1, Settled
  <2>7. CASE c
    <3>1. /\ Follows(Append(in_msg, f.info))'
          /\ Part(Append(in_msg, f.info), ~f.m)'
          /\ Whole(Append(in_msg, f.info), ~f.m)'
      BY <1>1, <1>2, <2>1, <2>2, <2>6, <2>7, NewFollows
    <3>2. Assembled(c, seg)' = Append(in_msg', f.info) /\ (i <=> ~f.m)
      BY <2>1, <2>2, <2>7 DEF Assembled
    <3>3. /\ Whole(Assembled(c, seg), i)' /\ Follows(Assembled(c, seg))'
          /\ Part(Assembled(c, seg), i)'
      BY <3>1, <3>2 DEF Whole, Follows, Part
    <3> QED BY <2>4, <2>5, <3>3 DEF Handling
  <2>8. CASE ~c
    <3>1. Assembled(c, seg)' = in_msg' /\ ~i
      BY <2>1, <2>8 DEF Assembled
    <3>2. Follows(in_msg)' /\ Part(in_msg, FALSE)'
      BY <1>2, <2>1, <2>6, <2>8 DEF Follows, Part
    <3>3. /\ Whole(Assembled(c, seg), i)' /\ Follows(Assembled(c, seg))'
          /\ Part(Assembled(c, seg), i)'
      BY <3>1, <3>2 DEF Whole, Follows, Part
    <3> QED BY <2>4, <2>5, <3>3 DEF Handling
  <2> QED BY <2>7, <2>8
<1> QED BY <1>6, <1>7, <1>5, <1>8, <1>9, <1>10, <1>11 DEF DInv

\* Steps after which the link is not up leave the data as it is.
LEMMA QuietData ==
  ASSUME LInv, DInv, UNCHANGED <<handed, given, carried, confirmed, indicated>>,
         Keeps \/ Clears, NoData', ~Linked',
         up' # None /\ up'.type = "I" => up' = up /\ UNCHANGED net,
         Only(signals', SignalNames \ DataSignals)
  PROVE  DInv'
<1>1. DataType /\ NoData /\ Queued /\ Given /\ Carried /\ Confirmed /\ Handling
  BY DEF DInv
<1>2. /\ Queued' /\ Begun' >= Begun /\ Begun' \in Int
      /\ queue'.sending_buffer # None => queue.sending_buffer # None /\ Begun' = Begun
  BY <1>1, QueuedKept
<1>3. DataType'
  BY <1>1 DEF DataType
<1>4. Given'
  BY <1>1, GivenKept
<1>5. Carried'
  BY <1>1 DEF Carried
<1>6. Confirmed'
  BY <1>1, <1>2, ConfirmedKept
<1>7. Handling'
  BY HandlingNone
<1> QED BY <1>2, <1>3, <1>4, <1>5, <1>6, <1>7 DEF DInv

\* The UA to the SABM: the link starts with no data.
LEMMA StartsData ==
  ASSUME LInv, DInv, UNCHANGED <<net, up, handed, given, carried, confirmed, indicated, in_msg>>,
         state = "CONTENTION", state' = "MFE", cch'.va = 0, cch'.vr = 0, cch'.vs = 0,
         queue' = [queue EXCEPT !.switch_buffer = None],
         Only(signals', SignalNames \ DataSignals)
  PROVE  DInv'
<1>1. /\ DataType /\ NoData /\ Queued /\ Given /\ Carried /\ Confirmed /\ Handling
      /\ queue \in Queue
  BY DataFacts DEF DInv
<1>2. /\ handed = 0 /\ given = <<>> /\ carried = <<>> /\ confirmed = <<>> /\ indicated = <<>>
      /\ in_msg = <<>>
      /\ queue.store_buffer = <<>> /\ queue.sending_buffer = None /\ queue.act_length = 0
  BY <1>1 DEF NoData, Unestablished
<1>3. /\ queue'.switch_buffer = None /\ queue'.store_buffer = <<>>
      /\ queue'.sending_buffer = None /\ queue'.act_length = 0 /\ Keeps
  BY <1>1, <1>2 DEF Queue, Keeps
<1>4. Queued' /\ Begun' = Begun /\ Begun = 0
  <2>1. UNCHANGED handed
    OBVIOUS
  <2>2. Queued' /\ Begun' = Begun
    BY <1>1, <1>3, <2>1, QueuedKept
  <2>3. Len(queue.store_buffer) = 0
    BY <1>2
  <2>4. handed = 0
    BY <1>2
  <2>5. Begun = 0
    BY <2>3, <2>4 DEF Begun
  <2> QED BY <2>2, <2>5
<1>5. DataType'
  BY <1>1 DEF DataType
<1>6. NoData'
  BY <1>2, <1>3 DEF NoData
<1>7. net.vr = 0 /\ net.acked = 0
  BY DEF LInv, Contending, Awaited
<1>8. Given'
  <2>1. PICK at \in [1..handed + 1 -> 0..Len(given)] : Laid(at)
    BY <1>1 DEF Given
  <2>2. Laid(at)' /\ at[1] = 0
    BY <2>1 DEF Laid, Segments
  <2>3. ReadTo(at)' = 0
    BY <1>3, <1>4, <2>2 DEF ReadTo
  <2>4. Sending(at)'
    BY <1>2, <1>3, <1>7, <2>3 DEF Sending
  <2> QED BY <2>1, <2>2, <2>4 DEF Given
<1>9. Carried'
  BY <1>1 DEF Carried
<1>10. Confirmed'
  BY <1>2 DEF Confirmed
<1>11. Handling'
  <2>1. Start[1] = 0 /\ Len(Down) \in Nat /\ DOMAIN Down = 1..Len(Down)
    BY StartFacts DEF Starts
  <2>2. Follows(in_msg)'
    BY <1>2, <1>7, <2>1 DEF Follows
  <2>3. Part(in_msg, FALSE)'
    <3> SUFFICES ASSUME 0 < Len(Down)
                 PROVE  0 <= Len(Down[1]) /\ ~(0 = Len(Down[1]))
      BY <1>2 DEF Part
    <3>1. PICK S : S = Seq(Info)
      OBVIOUS
    <3>2. Down[1] \in S /\ 1 \in DOMAIN Down
      BY <2>1, <3>1, StartFacts
    <3>3. Down[1] # <<>> /\ Down[1] \in Seq(Info)
      BY <3>1, <3>2, StartFacts DEF Starts
    <3> QED BY <3>3
  <2> QED BY <2>2, <2>3, HandlingNone
<1> QED BY <1>4, <1>5, <1>6, <1>8, <1>9, <1>10, <1>11 DEF DInv

\* Every frame that is received.
LEMMA ReceivesData ==
  ASSUME OnSchedule, LInv, LInv', DInv, Receives
  PROVE  DInv'
<1>1. UNCHANGED <<net, up, handed, given, carried, confirmed, indicated>> /\ NoData
  BY DEF Receives, DInv
<1>2. {"ESTABLISH_CNF", "RELEASE_IND", "RELEASE_CNF"} \subseteq SignalNames \ DataSignals
  BY DEF SignalNames, DataSignals
<1>3. Only(<<>>, SignalNames \ DataSignals)
  BY DEF Only
<1>4. CASE Linked
  <2>1. PICK f : f = Head(down)
    OBVIOUS
  <2>2. /\ f \in Frame(OrNone(Info)) /\ DownFits(f)
        /\ (Takes(f) /\ Fits(f) /\ Numbered(f)) \/ PromptDisc
    BY <1>4, <2>1, PromptLinked
  <2>3. CASE Takes(f) /\ Fits(f) /\ Numbered(f)
    BY <1>4, <2>2, <2>3, TakesData
  <2>4. CASE PromptDisc
    <3>1. queue' = queue /\ in_msg' = in_msg /\ state' = "RELEASE" /\ signals' = <<>>
      BY <2>4 DEF PromptDisc
    <3>2. NoData'
      BY <1>1, <3>1 DEF NoData, Unestablished, IsSABM
    <3> QED BY <1>1, <1>3, <3>1, <3>2, QuietData DEF Keeps, Linked
  <2> QED BY <2>2, <2>3, <2>4
<1>5. CASE state = "CONTENTION"
  <2>1. PICK s, t : s = EstablishCnf /\ t = ReleaseInd(FALSE)
    OBVIOUS
  <2>2. /\ Only(<<s>>, SignalNames \ DataSignals) /\ Only(<<t>>, SignalNames \ DataSignals)
    <3>1. s.name \in SignalNames \ DataSignals /\ t.name \in SignalNames \ DataSignals
      BY <1>2, <2>1 DEF EstablishCnf, ReleaseInd, Sig
    <3> QED BY <3>1, OnlyWhen
  <2>3. PromptContended /\ cch.contention_resolution
    BY <1>1, <1>5, PromptContention DEF NoData, Unestablished
  <2>4. Only(signals', SignalNames \ DataSignals)
    BY <1>3, <2>1, <2>2, <2>3 DEF PromptContended
  <2>5. CASE state' = "MFE"
    BY <1>1, <1>5, <2>3, <2>4, <2>5, StartsData DEF PromptContended
  <2>6. CASE state' # "MFE"
    <3>1. /\ Keeps /\ in_msg' = in_msg /\ state' \in {"IDLE", "CONTENTION"}
          /\ state' = "CONTENTION" => cch'.contention_resolution
      <4>1. queue \in Queue
        BY DEF LInv, IInv, TypeOK
      <4> QED BY <2>3, <2>6, <4>1 DEF PromptContended, Keeps, Queue
    <3>2. NoData'
      BY <1>1, <1>5, <3>1 DEF NoData, Unestablished, Keeps
    <3> QED BY <1>1, <2>4, <3>1, <3>2, QuietData DEF Linked
  <2> QED BY <2>5, <2>6
<1>6. CASE state \in {"IDLE", "RELEASE"}
  <2>1. PromptReleased
    BY <1>6, PromptEnded
  <2>2. queue' = queue /\ in_msg' = in_msg /\ state' \in {"IDLE", "RELEASE"}
    BY <1>6, <2>1 DEF PromptReleased
  <2>3. Only(signals', SignalNames \ DataSignals)
    <3>1. signals' = <<>> \/ \E b \in BOOLEAN : signals' = <<ReleaseCnf(b)>>
      BY <2>1 DEF PromptReleased
    <3>2. CASE signals' = <<>>
      BY <1>3, <3>2
    <3>3. CASE \E b \in BOOLEAN : signals' = <<ReleaseCnf(b)>>
      <4>1. PICK s : s.name = "RELEASE_CNF" /\ signals' = <<s>>
        BY <3>3 DEF ReleaseCnf, Sig
      <4>2. s.name \in SignalNames \ DataSignals
        BY <1>2, <4>1
      <4>3. Only(<<s>>, SignalNames \ DataSignals)
        BY <4>2, OnlyWhen
      <4> QED BY <4>1, <4>3
    <3> QED BY <3>1, <3>2, <3>3
  <2>4. NoData'
    BY <1>1, <2>2 DEF NoData, Unestablished, IsSABM
  <2> QED BY <1>1, <2>2, <2>3, <2>4, QuietData DEF Keeps, Linked
<1> QED BY <1>4, <1>5, <1>6 DEF LInv, LinkType, Linked

-----------------------------------------------------------------------------
(* Data and an opportunity to send. *)

\* The message the next segment is taken from, and what is left of it.
Taken(s, b) ==
  /\ s \in Queue /\ s.switch_buffer = None /\ s.act_length >= 1
  /\ s.sending_buffer \in Msgs /\ b \in 1..handed /\ s.sending_buffer = Uplink0[b]
  /\ s.act_length <= Segs[s.sending_buffer]
  /\ s.act_offset = Segs[s.sending_buffer] - s.act_length
  /\ Len(s.store_buffer) = handed - b
  /\ \A j \in DOMAIN s.store_buffer : s.store_buffer[j] = Uplink0[b + j]
  /\ (b = Begun /\ queue.sending_buffer # None) \/ b = Begun + 1

LEMMA TakesSending ==
  ASSUME LInv, DataType, Queued, queue.switch_buffer = None,
         com_queue_awaiting_transmission(queue), NEW s, s = NextSending(queue),
         NEW at \in [1..handed + 1 -> 0..Len(given)], Laid(at)
  PROVE  \E b \in 1..handed : Taken(s, b) /\ at[b + 1] - s.act_length = ReadTo(at)
<1>1. /\ handed \in Nat /\ handed <= Len(Uplink0) /\ Len(Uplink0) \in Nat
      /\ \A i \in 1..Len(Uplink0) : Uplink0[i] \in Msgs
      /\ queue \in Queue /\ queue.store_buffer \in Seq(Msgs) /\ queue.act_length \in Nat
      /\ queue.sending_buffer \in OrNone(Msgs)
      /\ Begun \in 0..handed /\ None \notin Msgs
  BY DataFacts
<1>2. CASE queue.act_length # 0
  <2>1. s = queue
    BY <1>2 DEF NextSending
  <2>2. PICK b : b = Begun
    OBVIOUS
  <2>3. /\ queue.sending_buffer # None /\ b >= 1 /\ queue.sending_buffer = Uplink0[b]
        /\ queue.act_length <= Segs[queue.sending_buffer]
        /\ queue.act_offset = Segs[queue.sending_buffer] - queue.act_length
        /\ \A j \in DOMAIN queue.store_buffer : queue.store_buffer[j] = Uplink0[b + j]
    BY <1>2, <2>2 DEF Queued
  <2>4. b \in 1..handed /\ queue.sending_buffer \in Msgs /\ queue.act_length >= 1
    BY <1>1, <1>2, <2>2, <2>3 DEF OrNone
  <2>5. Len(queue.store_buffer) = handed - b
    BY <1>1, <2>2 DEF Begun
  <2>6. Taken(s, b)
    BY <1>1, <2>1, <2>2, <2>3, <2>4, <2>5 DEF Taken
  <2>7. at[b + 1] - s.act_length = ReadTo(at)
    BY <2>1, <2>2 DEF ReadTo
  <2> QED BY <2>4, <2>6, <2>7
<1>3. CASE queue.act_length = 0
  <2>1. PICK b, st : b = Begun + 1 /\ st = queue.store_buffer
    OBVIOUS
  <2>2. st # <<>> /\ st \in Seq(Msgs)
    BY <1>1, <1>3, <2>1 DEF com_queue_awaiting_transmission
  <2>3. PICK m, tl : m = Head(st) /\ tl = Tail(st)
    OBVIOUS
  <2>4. /\ m \in Msgs /\ tl \in Seq(Msgs) /\ Len(tl) = Len(st) - 1 /\ Len(st) >= 1
        /\ Len(st) \in Nat /\ DOMAIN st = 1..Len(st) /\ m = st[1]
        /\ \A j \in DOMAIN tl : j \in Nat /\ j + 1 \in DOMAIN st /\ tl[j] = st[j + 1]
    BY <2>2, <2>3
  <2>5. \A j \in DOMAIN st : st[j] = Uplink0[Begun + j]
    BY <2>1 DEF Queued
  <2>6. /\ b \in 1..handed /\ Begun \in Int /\ Len(tl) = handed - b
    BY <1>1, <2>1, <2>4 DEF Begun
  <2>7. m = Uplink0[b]
    <3>1. 1 \in DOMAIN st
      BY <2>4
    <3> QED BY <2>1, <2>4, <2>5, <3>1
  <2>8. ASSUME NEW j \in DOMAIN tl PROVE tl[j] = Uplink0[b + j]
    <3>1. tl[j] = Uplink0[Begun + (j + 1)] /\ j \in Nat
      BY <2>4, <2>5
    <3>2. Begun + (j + 1) = b + j
      BY <2>1, <2>6, <3>1
    <3> QED BY <3>1, <3>2
  <2>9. Segs[m] \in Nat /\ Segs[m] >= 1
    BY <2>4, SegmentFacts
  <2>10. /\ s.sending_buffer = m /\ s.store_buffer = tl /\ s.act_offset = 0
         /\ s.act_length = Segs[m] /\ s.switch_buffer = None /\ s \in Queue
    <3>1. s = [queue EXCEPT !.sending_buffer = m, !.store_buffer = tl, !.act_offset = 0,
                            !.act_length = Segs[m]]
      BY <1>3, <2>1, <2>3 DEF NextSending
    <3>2. PICK g : g = Segs[m]
      OBVIOUS
    <3>3. /\ g \in Lengths /\ 0 \in Offsets /\ tl \in Stored /\ m \in OrNone(Msgs)
      BY <2>4, <2>9, <3>2 DEF OrNone, Stored, Lengths, Offsets
    <3>4. s = [queue EXCEPT !.sending_buffer = m, !.store_buffer = tl, !.act_offset = 0,
                            !.act_length = g]
      BY <3>1, <3>2
    <3>5. s \in Queue
      BY <1>1, <3>3, <3>4 DEF Queue
    <3>6. /\ s.sending_buffer = m /\ s.store_buffer = tl /\ s.act_offset = 0
          /\ s.act_length = g /\ s.switch_buffer = None
      BY <1>1, <3>4 DEF Queue
    <3> QED BY <3>2, <3>5, <3>6
  <2>11. Taken(s, b)
    BY <2>1, <2>4, <2>6, <2>7, <2>8, <2>9, <2>10 DEF Taken
  <2>12. at[b + 1] - s.act_length = ReadTo(at)
    <3>1. at[b + 1] = at[b] + Segs[Uplink0[b]]
      BY <2>6 DEF Laid
    <3>2. at[b] \in Int
      <4>1. b \in 1..handed + 1
        BY <1>1, <2>6
      <4>2. Len(given) \in Nat
        BY DataFacts
      <4> QED BY <4>1, <4>2
    <3>3. ReadTo(at) = at[b]
      BY <1>3, <2>1, <3>2 DEF ReadTo
    <3> QED BY <2>7, <2>9, <2>10, <3>1, <3>2, <3>3
  <2> QED BY <2>6, <2>11, <2>12
<1> QED BY <1>2, <1>3

\* com_read_queue reads the next segment given.
LEMMA ReadsNext ==
  ASSUME LInv, DataType, Queued, queue.switch_buffer = None,
         com_queue_awaiting_transmission(queue), queue' = com_read_queue(queue),
         UNCHANGED handed,
         NEW at \in [1..handed + 1 -> 0..Len(given)], Laid(at)
  PROVE  /\ Queued' /\ Begun' >= Begun /\ Begun' \in Int
         /\ (queue.sending_buffer # None /\ Begun' = Begun) \/ Begun' > Begun
         /\ queue'.switch_buffer = None
         /\ ReadTo(at) \in Nat /\ ReadTo(at)' = ReadTo(at) + 1 /\ ReadTo(at) < Len(given)
         /\ given[ReadTo(at) + 1] = [info |-> queue'.transmit_buffer, m |-> queue'.m_bit]
<1>1. PICK s : s = NextSending(queue)
  OBVIOUS
<1>2. PICK b \in 1..handed : Taken(s, b) /\ at[b + 1] - s.act_length = ReadTo(at)
  BY <1>1, TakesSending
<1>3. PICK m, l, o : m = s.sending_buffer /\ l = s.act_length /\ o = s.act_offset
  OBVIOUS
<1>4. /\ s \in Queue /\ m \in Msgs /\ l \in Nat /\ l >= 1 /\ l <= Segs[m] /\ o = Segs[m] - l
      /\ m = Uplink0[b] /\ Segs[m] \in Nat /\ Begun \in Int /\ handed \in Nat
      /\ s.store_buffer \in Seq(Msgs)
  BY <1>2, <1>3, SegmentFacts, DataFacts DEF Taken, Queue, Lengths, Stored
<1>5. /\ queue'.switch_buffer = None /\ queue'.store_buffer = s.store_buffer
      /\ queue'.sending_buffer = m /\ queue'.m_bit = (l > 1)
      /\ queue'.transmit_buffer = [msg |-> m, k |-> o + 1]
      /\ queue'.act_length = l - 1 /\ (l > 1 => queue'.act_offset = o + 1)
  <2>1. PICK more : more = (s.act_length > 1)
    OBVIOUS
  <2>2. queue' = [s EXCEPT !.m_bit = more,
                    !.transmit_buffer = [msg |-> s.sending_buffer, k |-> s.act_offset + 1],
                    !.act_offset = IF more THEN @ + 1 ELSE @,
                    !.act_length = IF more THEN @ - 1 ELSE 0]
    BY <1>1, <2>1 DEF com_read_queue
  <2>3. s.switch_buffer = None
    BY <1>2 DEF Taken
  <2>4. PICK t, o2, l2 : /\ t = [msg |-> m, k |-> o + 1]
                         /\ o2 = (IF l > 1 THEN o + 1 ELSE o) /\ l2 = (IF l > 1 THEN l - 1 ELSE 0)
    OBVIOUS
  <2>5. queue' = [s EXCEPT !.m_bit = more, !.transmit_buffer = t, !.act_offset = o2,
                           !.act_length = l2]
    BY <1>3, <2>1, <2>2, <2>4
  <2>6. /\ queue'.switch_buffer = None /\ queue'.store_buffer = s.store_buffer
        /\ queue'.sending_buffer = m /\ queue'.m_bit = more /\ queue'.transmit_buffer = t
        /\ queue'.act_length = l2 /\ queue'.act_offset = o2
    BY <1>3, <1>4, <2>3, <2>5 DEF Queue
  <2>7. l2 = l - 1 /\ (l > 1 => o2 = o + 1)
    BY <1>4, <2>4
  <2> QED BY <1>3, <2>1, <2>4, <2>6, <2>7
<1>6. /\ Begun' = b /\ b >= Begun
      /\ (queue.sending_buffer # None /\ Begun' = Begun) \/ Begun' > Begun
  <2>1. Len(s.store_buffer) = handed - b
    BY <1>2 DEF Taken
  <2>2. Begun' = b
    BY <1>4, <1>5, <2>1 DEF Begun
  <2> QED BY <1>2, <1>4, <2>2 DEF Taken
<1>7. Queued'
  <2>1. /\ Len(queue'.store_buffer) <= handed'
    BY <1>2, <1>4, <1>5 DEF Taken
  <2>2. \A j \in DOMAIN queue'.store_buffer : queue'.store_buffer[j] = Uplink0[Begun' + j]
    BY <1>2, <1>5, <1>6 DEF Taken
  <2>3. Begun' >= 1 /\ queue'.sending_buffer = Uplink0[Begun'] /\ queue'.sending_buffer # None
    BY <1>4, <1>5, <1>6, DataFacts
  <2>4. queue'.act_length # 0 =>
          /\ queue'.act_length <= Segs[queue'.sending_buffer]
          /\ queue'.act_offset = Segs[queue'.sending_buffer] - queue'.act_length
    <3>1. SUFFICES ASSUME l - 1 # 0
                   PROVE  l - 1 <= Segs[m] /\ o + 1 = Segs[m] - (l - 1) /\ l > 1
      BY <1>5
    <3> QED BY <1>4, <3>1
  <2> QED BY <2>1, <2>2, <2>3, <2>4 DEF Queued
<1>8. PICK p, a : p = at[b] /\ a = at[b + 1]
  OBVIOUS
<1>9. /\ p \in Nat /\ a = p + Segs[m] /\ a <= Len(given) /\ a \in Nat /\ Len(given) \in Nat
      /\ \A k \in 1..Segs[m] : given[p + k] = Segments(m)[k]
  <2>1. b \in 1..handed + 1 /\ b + 1 \in 1..handed + 1
    <3>1. b \in 1..handed /\ handed \in Nat
      BY <1>2, <1>4
    <3> QED BY <3>1
  <2>2. Len(given) \in Nat
    BY DataFacts
  <2>3. p \in Nat /\ a \in Nat /\ a <= Len(given)
    BY <1>8, <2>1, <2>2
  <2> QED BY <1>2, <1>4, <1>8, <2>2, <2>3 DEF Laid
<1>10. ReadTo(at) = a - l /\ ReadTo(at)' = a - (l - 1)
  BY <1>2, <1>3, <1>5, <1>6, <1>8 DEF ReadTo
<1>11. ReadTo(at) = p + o /\ ReadTo(at) \in Nat /\ ReadTo(at)' = ReadTo(at) + 1
       /\ ReadTo(at) < Len(given)
  <2>1. PICK r, r1 : r = ReadTo(at) /\ r1 = ReadTo(at)'
    OBVIOUS
  <2>2. r = a - l /\ r1 = a - (l - 1)
    BY <1>10, <2>1
  <2>3. PICK g, n : g = Segs[m] /\ n = Len(given)
    OBVIOUS
  <2>4. /\ p \in Nat /\ a = p + g /\ a <= n /\ n \in Nat /\ g \in Nat /\ l \in Nat /\ l >= 1
        /\ l <= g /\ o = g - l
    BY <1>4, <1>9, <2>3
  <2>5. r = p + o /\ r \in Nat /\ r1 = r + 1 /\ r < n
    BY <2>2, <2>4
  <2> QED BY <2>1, <2>3, <2>5
<1>12. given[ReadTo(at) + 1] = [info |-> queue'.transmit_buffer, m |-> queue'.m_bit]
  <2>1. o + 1 \in 1..Segs[m] /\ p + (o + 1) = p + o + 1 /\ (o + 1 < Segs[m] <=> l > 1)
    <3>1. PICK g : g = Segs[m]
      OBVIOUS
    <3>2. p \in Nat /\ g \in Nat /\ l \in Nat /\ l >= 1 /\ l <= g /\ o = g - l
      BY <1>4, <1>9, <3>1
    <3>3. o + 1 \in 1..g
      BY <3>2
    <3>4. o + 1 < g <=> l > 1
      BY <3>2
    <3>5. p + (o + 1) = p + o + 1
      BY <3>2
    <3> QED BY <3>1, <3>3, <3>4, <3>5
  <2>2. given[p + (o + 1)] = Segments(m)[o + 1]
    BY <1>9, <2>1
  <2>3. Segments(m)[o + 1] = [info |-> [msg |-> m, k |-> o + 1], m |-> o + 1 < Segs[m]]
    BY <1>4, <2>1, SegmentFacts
  <2>4. (o + 1 < Segs[m]) = (l > 1)
    BY <2>1
  <2>5. given[p + (o + 1)] = [info |-> queue'.transmit_buffer, m |-> queue'.m_bit]
    BY <1>5, <2>2, <2>3, <2>4
  <2>6. ReadTo(at) + 1 = p + (o + 1)
    <3>1. PICK r : r = ReadTo(at)
      OBVIOUS
    <3>2. r = p + o
      BY <1>11, <3>1
    <3> QED BY <2>1, <3>1, <3>2
  <2> QED BY <2>5, <2>6
<1> QED BY <1>5, <1>6, <1>7, <1>4, <1>11, <1>12

\* An opportunity of a link that goes on.
LEMMA GoesOnData ==
  ASSUME OnSchedule, LInv, LInv', DInv, Opportunity, GoesOnLinked
  PROVE  DInv'
<1>1. /\ DataType /\ NoData /\ Queued /\ Given /\ Carried /\ Confirmed /\ Handling
      /\ signals = <<>> /\ signals' = <<>> /\ Linked /\ GoesOn
  BY Prompt DEF DInv, GoesOnLinked
<1>2. /\ UNCHANGED <<net, handed, given, carried, confirmed, indicated>>
      /\ in_msg' = in_msg /\ up = None /\ up' = l2_frame'
  BY PromptOpportunity, OpportunityFrame DEF Opportunity, OnSchedule
<1>3. /\ Linked' /\ cch'.va = cch.va /\ cch'.vr = cch.vr
      /\ Silent \/ SendsNew \/ Polls
      /\ net.st \in {"MFE", "CLOSING"} /\ net.vr \in {cch.va, cch.vs}
      /\ cch.va \in Numbers /\ cch.vs \in Numbers /\ cch.vs \in {cch.va, Incr(cch.va)}
  BY <1>1 DEF GoesOn, Linked, LInv, UpAndRunning, Synchronised, Running, Windowed, IInv,
              TypeOK, Channel
<1>4. PICK at \in [1..handed + 1 -> 0..Len(given)] : Laid(at) /\ Sending(at)
  BY <1>1 DEF Given
<1>5. /\ queue.switch_buffer = None
      /\ ReadTo(at) = Len(carried) + (IF net.vr = cch.vs THEN 0 ELSE 1)
      /\ cch.vs # cch.va =>
           /\ ReadTo(at) >= 1
           /\ given[ReadTo(at)] = [info |-> queue.transmit_buffer, m |-> queue.m_bit]
  BY <1>1, <1>4 DEF Sending
<1>6. DataType'
  BY <1>1, <1>2 DEF DataType
<1>7. NoData'
  <2>1. up' # None => up'.type # "SABM"
    BY <1>2, <1>3 DEF Silent, SendsNew, Polls, Acks
  <2> QED BY <1>2, <1>3, <2>1 DEF NoData, Unestablished, IsSABM, Linked
<1>8. Handling'
  <2>1. Follows(in_msg) /\ Part(in_msg, FALSE)
    BY <1>1, Settled
  <2>2. Follows(in_msg)' /\ Part(in_msg, FALSE)'
    BY <1>2, <1>3, <2>1 DEF Follows, Part
  <2>3. Only(signals', SignalNames \ DataSignals)
    BY <1>1 DEF Only
  <2> QED BY <2>2, <2>3, HandlingNone
<1>9. Laid(at)'
  BY <1>2, <1>4 DEF Laid, Segments
<1>10. ReadTo(at) <= Len(given) /\ Len(given) \in Nat /\ Len(carried) \in Nat
  <2>1. PICK b, l, n : b = Begun /\ l = queue.act_length /\ n = Len(given)
    OBVIOUS
  <2>2. /\ b \in 0..handed /\ handed \in Nat /\ l \in Nat /\ n \in Nat /\ Len(carried) \in Nat
    BY <1>1, <2>1, DataFacts
  <2>3. b + 1 \in 1..handed + 1
    BY <2>2
  <2>4. at[b + 1] \in 0..n
    BY <1>4, <2>1, <2>3
  <2>5. at[b + 1] - l <= n
    BY <2>2, <2>4
  <2> QED BY <2>1, <2>2, <2>5 DEF ReadTo
<1>11. CASE Silent \/ Polls
  <2>1. queue' = queue /\ cch'.vs = cch.vs
    BY <1>11 DEF Silent, Polls
  <2>2. Queued' /\ Begun' = Begun
    BY <1>1, <1>2, <2>1 DEF Queued, Begun
  <2>3. ReadTo(at)' = ReadTo(at)
    BY <2>1, <2>2 DEF ReadTo
  <2>4. Sending(at)'
    BY <1>2, <1>3, <1>5, <2>1, <2>3 DEF Sending
  <2>5. Given'
    BY <1>2, <1>4, <1>9, <2>4 DEF Given
  <2>6. Confirmed'
    BY <1>1, <1>2, <2>1, <2>2, ConfirmedKept, DataFacts
  <2>7. Carried'
    <3>1. CASE Silent
      <4>1. up' # None => up'.type # "I"
        BY <1>2, <3>1 DEF Silent, Acks
      <4> QED BY <1>1, <1>2, <4>1 DEF Carried
    <3>2. CASE Polls
      <4> SUFFICES ASSUME up'.ns = net.vr
                   PROVE  /\ Len(carried) < Len(given)
                          /\ given[Len(carried) + 1] = [info |-> up'.info, m |-> up'.m]
        BY <1>1, <1>2 DEF Carried
      <4>1. net.vr # cch.vs /\ cch.vs # cch.va
        BY <1>2, <1>3, <3>2, Modulo DEF Polls
      <4>2. ReadTo(at) = Len(carried) + 1
        BY <1>5, <4>1
      <4>3. given[Len(carried) + 1] = [info |-> queue.transmit_buffer, m |-> queue.m_bit]
        BY <1>5, <4>1, <4>2
      <4> QED BY <1>2, <1>10, <3>2, <4>2, <4>3 DEF Polls
    <3> QED BY <1>11, <3>1, <3>2
  <2> QED BY <1>6, <1>7, <1>8, <2>2, <2>5, <2>6, <2>7 DEF DInv
<1>12. CASE SendsNew
  <2>1. cch.vs = cch.va /\ net.vr = cch.vs /\ cch'.vs = Incr(cch.vs) /\ cch'.vs # net.vr
    BY <1>3, <1>12, Modulo DEF SendsNew
  <2>2. PICK n : n = ReadTo(at)
    OBVIOUS
  <2>3. /\ Queued' /\ Begun' >= Begun /\ Begun' \in Int
        /\ (queue.sending_buffer # None /\ Begun' = Begun) \/ Begun' > Begun
        /\ queue'.switch_buffer = None
        /\ n \in Nat /\ ReadTo(at)' = n + 1 /\ n < Len(given)
        /\ given[n + 1] = [info |-> queue'.transmit_buffer, m |-> queue'.m_bit]
    <3>1. com_queue_awaiting_transmission(queue) /\ queue' = com_read_queue(queue)
      BY <1>12 DEF SendsNew
    <3> QED BY <1>1, <1>2, <1>4, <1>5, <2>2, <3>1, ReadsNext
  <2>4. n = Len(carried)
    BY <1>5, <1>10, <2>1, <2>2
  <2>5. Sending(at)'
    <3>1. PICK r : r = ReadTo(at)'
      OBVIOUS
    <3>2. r = n + 1 /\ r >= 1 /\ n + 1 >= 1
      BY <2>3, <3>1
    <3>3. net'.vr # cch'.vs /\ carried' = carried /\ given' = given
      BY <1>2, <2>1
    <3> QED BY <2>3, <2>4, <3>1, <3>2, <3>3 DEF Sending
  <2>6. Given'
    BY <1>2, <1>4, <1>9, <2>5 DEF Given
  <2>7. Confirmed'
    BY <1>1, <1>2, <2>3, ConfirmedKept
  <2>8. Carried'
    <3>1. /\ up'.info = queue'.transmit_buffer /\ up'.m = queue'.m_bit
      BY <1>2, <1>12 DEF SendsNew
    <3>2. /\ Len(carried) < Len(given)
          /\ given[Len(carried) + 1] = [info |-> up'.info, m |-> up'.m]
      BY <2>3, <2>4, <3>1
    <3> QED BY <1>1, <1>2, <3>2 DEF Carried
  <2> QED BY <1>6, <1>7, <1>8, <2>3, <2>6, <2>7, <2>8 DEF DInv
<1> QED BY <1>3, <1>11, <1>12

\* Every opportunity.
LEMMA OpportunityData ==
  ASSUME OnSchedule, LInv, LInv', DInv, Opportunity
  PROVE  DInv'
<1>1. /\ UNCHANGED <<net, handed, given, carried, confirmed, indicated>>
      /\ in_msg' = in_msg /\ up' = l2_frame' /\ Only(signals', EndSignals)
      /\ SendsDisc \/ GoesOnLinked \/ GivesUpLinked \/ GoesOnAsking \/ GoesOnEnding
      /\ NoData
  BY PromptOpportunity, OpportunityFrame DEF Opportunity, OnSchedule, DInv
<1>2. CASE GoesOnLinked
  BY <1>2, GoesOnData
<1>3. CASE SendsDisc \/ GivesUpLinked \/ GoesOnAsking \/ GoesOnEnding
  <2>1. /\ queue' = queue /\ ~Linked'
        /\ l2_frame' # None => l2_frame'.type \in {"DISC", "SABM", "UA", "DM"}
        /\ l2_frame' # None /\ l2_frame'.type = "SABM" => state = "CONTENTION"
        /\ state' = "CONTENTION" =>
             state = "CONTENTION" /\ cch'.contention_resolution = cch.contention_resolution
    BY <1>3 DEF SendsDisc, GivesUpLinked, GivesUp, GoesOnAsking, GoesOnEnding, Linked
  <2>2. Only(signals', SignalNames \ DataSignals)
    BY <1>1 DEF Only, EndSignals, SignalNames, DataSignals
  <2>3. NoData'
    BY <1>1, <2>1 DEF NoData, Unestablished, IsSABM
  <2>4. up' # None => up'.type # "I"
    BY <1>1, <2>1
  <2> QED BY <1>1, <2>1, <2>2, <2>3, <2>4, QuietData DEF Keeps
<1> QED BY <1>1, <1>2, <1>3

-----------------------------------------------------------------------------
(* Data and the DL task. *)

\* What RR gets.
LEMMA RRTold ==
  ASSUME NEW view, RRGets(view), NEW p, toRR' \in {<<>>, <<p>>}
  PROVE  /\ confirmed' = (IF toRR' # <<>> /\ p.name = "DATA_CNF" THEN Append(confirmed, p.msg)
                                                                 ELSE confirmed)
         /\ indicated' = (IF toRR' # <<>> /\ p.name = "DATA_IND" THEN Append(indicated, p.msg)
                                                                 ELSE indicated)
<1>1. CASE toRR' = <<>>
  <2>1. \A name : ~Gets(name)
    BY <1>1 DEF Gets
  <2> QED BY <1>1, <2>1 DEF RRGets
<1>2. CASE toRR' # <<>>
  <2>1. \A name : Gets(name) <=> name = p.name
    BY <1>2 DEF Gets
  <2>2. Head(toRR') = p
    BY <1>2
  <2> QED BY <1>2, <2>1, <2>2 DEF RRGets
<1> QED BY <1>1, <1>2

\* Steps of the mobile that send nothing and read no segment.
LEMMA StillGiven ==
  ASSUME LInv, DInv, UNCHANGED <<state, cch, net, up, handed, given, carried>>, Keeps,
         queue'.switch_buffer = queue.switch_buffer, queue'.m_bit = queue.m_bit,
         queue'.transmit_buffer = queue.transmit_buffer
  PROVE  /\ Queued' /\ Begun' = Begun /\ Given' /\ Carried'
         /\ UNCHANGED confirmed => Confirmed'
<1>1. DataType /\ Queued /\ Given /\ Carried /\ Confirmed
  BY DEF DInv
<1>2. /\ Queued' /\ Begun' >= Begun /\ Begun' \in Int /\ Begun' = Begun
      /\ queue'.sending_buffer # None => queue.sending_buffer # None /\ Begun' = Begun
  BY <1>1, QueuedKept
<1>3. Given'
  <2>1. PICK at \in [1..handed + 1 -> 0..Len(given)] : Laid(at) /\ Sending(at)
    BY <1>1 DEF Given
  <2>2. Laid(at)'
    BY <2>1 DEF Laid, Segments
  <2>3. ReadTo(at)' = ReadTo(at)
    BY <1>2 DEF ReadTo, Keeps
  <2>4. Sending(at)'
    BY <2>1, <2>3 DEF Sending, Linked
  <2> QED BY <2>1, <2>2, <2>4 DEF Given
<1>4. Carried'
  BY <1>1 DEF Carried
<1>5. UNCHANGED confirmed => Confirmed'
  BY <1>1, <1>2, ConfirmedKept
<1> QED BY <1>2, <1>3, <1>4, <1>5

\* The message of a DL_DATA_CNF is delivered, and was not confirmed before.
LEMMA ConfirmsNext ==
  ASSUME LInv, DInv, NEW m, m = queue.sending_buffer, m # None, Delivered(m),
         confirmed' = Append(confirmed, m), UNCHANGED <<carried, handed>>,
         Begun' = Begun, queue'.sending_buffer = None
  PROVE  /\ confirmed' \in Seq(Msgs) /\ Confirmed' /\ m \in Msgs
         /\ \E b \in 1..Len(Uplink0) : m = Uplink0[b]
         /\ \A i \in DOMAIN confirmed : confirmed[i] # m
<1>1. /\ DataType /\ Queued /\ Confirmed /\ confirmed \in Seq(Msgs)
      /\ queue.sending_buffer \in OrNone(Msgs)
      /\ handed \in Nat /\ handed <= Len(Uplink0) /\ Begun \in 0..handed
  BY DataFacts DEF DInv, DataType
<1>2. m \in Msgs /\ Begun >= 1 /\ m = Uplink0[Begun]
  BY <1>1 DEF Queued, OrNone
<1>3. PICK b : b = Begun
  OBVIOUS
<1>4. b \in 1..Len(Uplink0) /\ b \in 1..b /\ m = Uplink0[b] /\ Len(Uplink0) \in Nat
  BY <1>1, <1>2, <1>3, DataFacts
<1>5. \A i \in DOMAIN confirmed :
        Delivered(confirmed[i]) /\ \E k \in 1..b : confirmed[i] = Uplink0[k] /\ k < b
  BY <1>1, <1>2, <1>3 DEF Confirmed
<1>6. \A i \in DOMAIN confirmed' :
        (i \in DOMAIN confirmed /\ confirmed'[i] = confirmed[i]) \/ confirmed'[i] = m
  BY <1>1, <1>2
<1>7. \A d : Delivered(d) => Delivered(d)'
  BY DEF Delivered, Segments
<1>8. ASSUME NEW i \in DOMAIN confirmed'
      PROVE  Delivered(confirmed[i])' /\ \E k \in 1..b : confirmed'[i] = Uplink0[k]
  <2>1. PICK d : d = confirmed'[i]
    OBVIOUS
  <2>2. Delivered(d) /\ \E k \in 1..b : d = Uplink0[k]
    BY <1>4, <1>5, <1>6, <2>1
  <2>3. Delivered(d)'
    BY <1>7, <2>2
  <2>4. Delivered(confirmed[i])'
    BY <2>1, <2>3
  <2> QED BY <2>1, <2>2, <2>4
<1>9. Confirmed'
  BY <1>3, <1>8 DEF Confirmed
<1>10. \A i \in DOMAIN confirmed : confirmed[i] # m
  <2> SUFFICES ASSUME NEW i \in DOMAIN confirmed, confirmed[i] = m PROVE FALSE
    OBVIOUS
  <2>1. PICK k \in 1..b : Uplink0[k] = Uplink0[b] /\ k < b
    BY <1>4, <1>5
  <2>2. k \in DOMAIN Uplink0 /\ b \in DOMAIN Uplink0
    <3>1. Uplink0 \in Seq(Msgs)
      BY LinkAssumption
    <3> QED BY <1>4, <2>1, <3>1
  <2>3. k = b
    BY <2>1, <2>2, LinkAssumption
  <2> QED BY <1>4, <2>1, <2>3
<1>11. confirmed' \in Seq(Msgs)
  BY <1>1, <1>2
<1> QED BY <1>2, <1>4, <1>9, <1>10, <1>11

\* A message is indicated when it is complete, and the next one begins.
LEMMA IndicatesNext ==
  ASSUME LInv, DataType, Whole(in_msg, TRUE), Linked => Follows(in_msg),
         indicated' = Append(indicated, in_msg), in_msg' = <<>>, UNCHANGED <<state, cch, net>>
  PROVE  /\ indicated' \in Seq(Seq(OrNone(Info)))
         /\ Len(indicated) < Len(Down) /\ in_msg = Down[Len(indicated) + 1]
         /\ Linked' => Follows(in_msg)' /\ Part(in_msg, FALSE)'
<1>1. in_msg \in Seq(OrNone(Info)) /\ indicated \in Seq(Seq(OrNone(Info)))
  BY DEF LInv, IInv, TypeOK, DataType
<1>2. PICK n, msg : n = Len(indicated) /\ msg = in_msg
  OBVIOUS
<1>3. n < Len(Down) /\ msg = Down[n + 1] /\ n \in Nat /\ Len(Down) \in Nat
  <2>1. PICK S : S = Seq(OrNone(Info))
    OBVIOUS
  <2>2. n \in Nat
    BY <1>1, <1>2, <2>1
  <2> QED BY <1>2, <2>2, StartFacts DEF Whole
<1>4. indicated' \in Seq(Seq(OrNone(Info))) /\ Len(indicated') = n + 1
  <2>1. PICK S : S = Seq(OrNone(Info))
    OBVIOUS
  <2>2. indicated \in Seq(S) /\ msg \in S /\ indicated' = Append(indicated, msg)
    BY <1>1, <1>2, <2>1
  <2>3. indicated' \in Seq(S) /\ Len(indicated') = n + 1
    BY <1>2, <2>2
  <2> QED BY <2>1, <2>3
<1>5. ASSUME Linked PROVE Follows(in_msg)' /\ Part(in_msg, FALSE)'
  <2>1. PICK p, q, l : p = Start[n + 1] /\ q = Start[n + 2] /\ l = Len(msg)
    OBVIOUS
  <2>2. q = p + l /\ n + 2 = n + 1 + 1
    <3>1. n + 1 \in DOMAIN Down /\ n + 1 + 1 = n + 2
      BY <1>3, StartFacts
    <3>2. Start[n + 1 + 1] = Start[n + 1] + Len(Down[n + 1])
      BY <3>1, StartFacts DEF Starts
    <3> QED BY <1>3, <2>1, <3>1, <3>2
  <2>3. q \in Nat
    <3>1. n + 2 \in 1..Len(Down) + 1 /\ Len(DownFrames) \in Nat
      BY <1>3, StartFacts
    <3> QED BY <2>1, <3>1, StartFacts
  <2>4. Follows(in_msg)'
    <3>1. p + l \in {net.acked, net.sent} /\ (p + l) % 8 = cch.vr
      BY <1>2, <1>5, <2>1 DEF Follows
    <3>2. q + 0 = p + l
      BY <2>2, <2>3
    <3>3. Len(in_msg') = 0 /\ Len(indicated') + 1 = n + 2 /\ Len(indicated') <= Len(Down)
      BY <1>3, <1>4
    <3>4. Start[Len(indicated') + 1] + Len(in_msg') = p + l
      BY <2>1, <3>2, <3>3
    <3> QED BY <3>1, <3>3, <3>4 DEF Follows
  <2>5. Part(in_msg, FALSE)'
    <3> SUFFICES ASSUME n + 1 < Len(Down)
                 PROVE  0 <= Len(Down[n + 2]) /\ ~(0 = Len(Down[n + 2]))
      BY <1>3, <1>4, <2>2 DEF Part
    <3>1. PICK S : S = Seq(Info)
      OBVIOUS
    <3>2. Down[n + 2] \in S /\ n + 2 \in DOMAIN Down
      BY <1>3, <3>1, StartFacts
    <3>3. Down[n + 2] # <<>> /\ Down[n + 2] \in Seq(Info)
      BY <3>1, <3>2, StartFacts DEF Starts
    <3> QED BY <3>3
  <2> QED BY <2>4, <2>5
<1> QED BY <1>2, <1>3, <1>4, <1>5 DEF Linked

\* What the DL task tells RR.
Confirms ==
  \E b \in 1..Len(Uplink0) :
    /\ Uplink0[b] \in Cnf /\ Delivered(Uplink0[b])
    /\ \A i \in DOMAIN confirmed : confirmed[i] # Uplink0[b]
    /\ confirmed' = Append(confirmed, Uplink0[b]) /\ UNCHANGED indicated
Indicates ==
  /\ Len(indicated) < Len(Down)
  /\ indicated' = Append(indicated, Down[Len(indicated) + 1]) /\ UNCHANGED confirmed
Tells == Confirms \/ Indicates \/ UNCHANGED <<confirmed, indicated>>

\* The signal at the head.
LEMMA TaskFrame ==
  ASSUME OnSchedule, LInv, Task0
  PROVE  /\ signals # <<>> /\ signals \in Seq(Signals) /\ Head(signals) \in Signals
         /\ HandleSignal(Head(signals)) /\ signals' = Tail(signals) /\ RRGets(rrView)
         /\ UNCHANGED <<net, up, handed, given, carried>>
         /\ state # "CONTENTION"
         /\ Linked => Head(signals).name \in LinkedSignals
         /\ \A names : Only(signals, names) =>
              Head(signals).name \in names /\ Only(signals', names)
<1>1. /\ HandleSignal(Head(signals)) /\ signals' = Tail(signals) /\ RRGets(rrView)
      /\ signals # <<>> /\ signals \in Seq(Signals)
      /\ UNCHANGED <<net, up, handed, given, carried>>
  BY DEF Task0, DLTask, LInv, IInv, TypeOK
<1>2. /\ Head(signals) \in Signals
      /\ \A names : Only(signals, names) => Only(Tail(signals), names) /\ Head(signals).name \in names
  BY <1>1, SignalsLeft
<1>3. state # "CONTENTION" /\ (Linked => Head(signals).name \in LinkedSignals)
  BY <1>1, <1>2 DEF LInv, Contending, Asking, UpAndRunning, Running
<1> QED BY <1>1, <1>2, <1>3

\* A signal that is not about data.
LEMMA TaskOther ==
  ASSUME OnSchedule, LInv, DInv, Task0, Only(signals, SignalNames \ DataSignals),
         Linked => Follows(in_msg) /\ Part(in_msg, FALSE)
  PROVE  DInv' /\ UNCHANGED <<confirmed, indicated>>
<1>1. PICK s : s = Head(signals)
  OBVIOUS
<1>2. /\ s \in Signals /\ HandleSignal(s) /\ RRGets(rrView)
      /\ UNCHANGED <<net, up, handed, given, carried>>
      /\ state # "CONTENTION" /\ (Linked => s.name \in LinkedSignals)
      /\ s.name \in SignalNames \ DataSignals
      /\ Only(signals', SignalNames \ DataSignals)
  BY <1>1, TaskFrame
<1>3. s.name = "ERROR_IND" => state \in {"IDLE", "RELEASE"}
  BY <1>2 DEF LInv, LinkType, Linked, LinkedSignals
<1>4. /\ \/ UNCHANGED <<state, queue, in_msg>> /\ (Linked => UNCHANGED cch)
         \/ state' = "IDLE" /\ in_msg' = <<>> /\ queue' = com_clear_queue(queue)
      /\ \E n \in SignalNames \ DataSignals : toRR' = <<Prim(n, None)>>
  <2>1. s.name \in {"ESTABLISH_IND", "ESTABLISH_CNF", "RELEASE_IND", "RELEASE_CNF", "ERROR_IND"}
    BY <1>2 DEF SignalNames, DataSignals
  <2>2. {"ESTABLISH_IND", "ESTABLISH_CNF", "RELEASE_IND", "RELEASE_CNF", "ERROR_IND"}
          \subseteq SignalNames \ DataSignals
    BY DEF SignalNames, DataSignals
  <2>3. CASE s.name \in {"ESTABLISH_IND", "ESTABLISH_CNF"}
    BY <1>2, <2>1, <2>2, <2>3 DEF HandleSignal, Handled
  <2>4. CASE s.name \in {"RELEASE_IND", "RELEASE_CNF"}
    BY <1>2, <2>1, <2>2, <2>4 DEF HandleSignal, Handled, TaskInit, init_dl_data, InitialState,
       RELEASE_IND, RELEASE_CNF, OnSchedule, OnTime
  <2>5. CASE s.name = "ERROR_IND"
    BY <1>2, <1>3, <2>1, <2>2, <2>5 DEF HandleSignal, Handled, release_req, Task, RELEASE_IND, Linked
  <2> QED BY <2>1, <2>3, <2>4, <2>5
<1>5. UNCHANGED <<confirmed, indicated>>
  <2>1. PICK p, n : n \in SignalNames \ DataSignals /\ p = Prim(n, None) /\ toRR' = <<p>>
    BY <1>4
  <2>2. p.name # "DATA_CNF" /\ p.name # "DATA_IND"
    BY <2>1 DEF Prim, DataSignals
  <2> QED BY <1>2, <2>1, <2>2, RRTold
<1>6. NoData /\ queue \in Queue
  BY DEF DInv, LInv, IInv, TypeOK
<1>7. CASE state' = "IDLE" /\ in_msg' = <<>> /\ queue' = com_clear_queue(queue)
  <2>1. Clears
    BY <1>6, <1>7 DEF Clears, com_clear_queue, Queue
  <2>2. NoData'
    BY <1>2, <1>5, <1>6, <1>7, <2>1 DEF NoData, Unestablished, IsSABM, Clears
  <2> QED BY <1>2, <1>5, <1>7, <2>1, <2>2, QuietData DEF Linked
<1>8. CASE UNCHANGED <<state, queue, in_msg>> /\ (Linked => UNCHANGED cch)
  <2>1. NoData'
    BY <1>2, <1>5, <1>6, <1>8 DEF NoData, Unestablished, IsSABM
  <2>2. CASE ~Linked
    <3>1. ~Linked'
      BY <1>8, <2>2 DEF Linked
    <3> QED BY <1>2, <1>5, <1>8, <2>1, <3>1, QuietData DEF Keeps
  <2>3. CASE Linked
    <3>1. Queued' /\ Given' /\ Carried' /\ Confirmed'
      BY <1>2, <1>5, <1>8, <2>3, StillGiven DEF Keeps
    <3>2. DataType'
      BY <1>2, <1>5 DEF DInv, DataType
    <3>3. Handling'
      BY <1>2, <1>5, <1>8, <2>3, HandlingNone DEF Follows, Part
    <3> QED BY <1>5, <2>1, <3>1, <3>2, <3>3 DEF DInv
  <2> QED BY <1>5, <2>2, <2>3
<1> QED BY <1>4, <1>7, <1>8

LEMMA SegmentFirst ==
  ASSUME NEW a \in BOOLEAN, NEW i \in BOOLEAN, NEW seg \in OrNone(Info),
         NEW s, s = Batch(TRUE, a, i, seg)
  PROVE  Head(s) = Concatenate(seg) /\ Tail(s) = Batch(FALSE, a, i, seg)
<1>1. PICK x, t, u : x = Concatenate(seg) /\ t = When(a, DataCnf) /\ u = When(i, DataInd)
  OBVIOUS
<1>2. x \in Signals /\ t \in Seq(Signals) /\ u \in Seq(Signals)
  BY <1>1, SignalTypes
<1>3. Batch(TRUE, a, i, seg) = <<x>> \o t \o u
  BY <1>1 DEF Batch, When
<1>4. Batch(FALSE, a, i, seg) = <<>> \o t \o u
  BY <1>1 DEF Batch, When
<1>5. Head(<<x>> \o t \o u) = x /\ Tail(<<x>> \o t \o u) = <<>> \o t \o u
  BY <1>2
<1> QED BY <1>1, <1>3, <1>4, <1>5

\* A signal of a frame: its segment, its acknowledgement or the end of a message.
LEMMA TaskBatch ==
  ASSUME OnSchedule, LInv, DInv, Task0,
         NEW c \in BOOLEAN, NEW a \in BOOLEAN, NEW i \in BOOLEAN, NEW seg \in OrNone(Info),
         signals = Batch(c, a, i, seg), state \in {"MFE", "RECOVERY", "RELEASE"}, Ready(a),
         Whole(Assembled(c, seg), i),
         Linked => Follows(Assembled(c, seg)) /\ Part(Assembled(c, seg), i)
  PROVE  DInv' /\ Tells
<1>1. PICK s : s = Head(signals)
  OBVIOUS
<1>2. /\ signals # <<>> /\ HandleSignal(s) /\ signals' = Tail(signals) /\ RRGets(rrView)
      /\ UNCHANGED <<net, up, handed, given, carried>>
  BY <1>1, TaskFrame
<1>3. /\ DataType /\ NoData /\ Queued /\ Given /\ Carried /\ Confirmed
      /\ in_msg \in Seq(OrNone(Info)) /\ queue \in Queue
  BY DEF DInv, LInv, IInv, TypeOK
<1>4. ~Unestablished
  <2>1. ~Fresh
    BY DEF Fresh
  <2> QED BY <2>1 DEF LInv, Unused, Unestablished
<1>5. ASSUME UNCHANGED state PROVE NoData'
  BY <1>2, <1>4, <1>5 DEF NoData, Unestablished, IsSABM
<1>6. CASE c
  <2>1. s = Concatenate(seg) /\ signals' = Batch(FALSE, a, i, seg)
    <3>1. signals = Batch(TRUE, a, i, seg)
      BY <1>6
    <3>2. PICK b : b = Batch(TRUE, a, i, seg)
      OBVIOUS
    <3>3. Head(b) = Concatenate(seg) /\ Tail(b) = Batch(FALSE, a, i, seg)
      BY <3>2, SegmentFirst
    <3> QED BY <1>1, <1>2, <3>1, <3>2, <3>3
  <2>2. s.name = "CONCATENATE" /\ s.seg = seg
    BY <2>1 DEF Concatenate, Sig
  <2>3. /\ toRR' = <<>> /\ in_msg' = Append(in_msg, seg) /\ UNCHANGED <<state, cch, queue>>
    BY <1>2, <2>2 DEF HandleSignal, Handled
  <2>4. UNCHANGED <<confirmed, indicated>>
    BY <1>2, <2>3, RRTold
  <2>5. Queued' /\ Given' /\ Carried' /\ Confirmed' /\ NoData' /\ DataType'
    BY <1>2, <1>3, <1>5, <2>3, <2>4, StillGiven DEF Keeps, DataType
  <2>6. Handling'
    <3>1. Pending(FALSE, a, i, seg)'
      BY <2>1, <2>3 DEF Pending, Batch, When, Concatenate, DataCnf, DataInd, Sig
    <3>2. Ready(a)'
      BY <1>2, <2>3 DEF Ready, Delivered, Segments
    <3>3. Assembled(FALSE, seg)' = Assembled(c, seg)
      BY <1>6, <2>3 DEF Assembled
    <3>4. PICK msg : msg = Assembled(c, seg)
      OBVIOUS
    <3>5. /\ Whole(msg, i)' /\ (Linked' => Follows(msg)' /\ Part(msg, i)')
      BY <1>2, <2>3, <2>4, <3>4 DEF Whole, Follows, Part, Linked
    <3> QED BY <3>1, <3>2, <3>3, <3>4, <3>5 DEF Handling
  <2> QED BY <2>4, <2>5, <2>6 DEF DInv, Tells
<1>7. CASE ~c /\ a
  <2>1. s = DataCnf /\ signals' = Batch(FALSE, FALSE, i, seg)
    BY <1>1, <1>2, <1>7, BatchHandled
  <2>2. s.name = "DATA_CNF"
    BY <2>1 DEF DataCnf, Sig
  <2>3. PICK m : m = queue.sending_buffer
    OBVIOUS
  <2>4. /\ m # None /\ toRR' = <<Prim("DATA_CNF", m)>> /\ UNCHANGED <<state, cch, in_msg>>
        /\ queue' = [queue EXCEPT !.sending_buffer = None]
    BY <1>2, <2>2, <2>3 DEF HandleSignal, Handled
  <2>5. confirmed' = Append(confirmed, m) /\ UNCHANGED indicated
    <3>1. PICK p : p = Prim("DATA_CNF", m)
      OBVIOUS
    <3>2. p.name = "DATA_CNF" /\ p.msg = m /\ toRR' = <<p>> /\ toRR' # <<>>
      BY <2>4, <3>1 DEF Prim
    <3> QED BY <1>2, <3>2, RRTold
  <2>6. queue.act_length = 0 /\ m \in Cnf /\ Delivered(m)
    BY <1>7, <2>3, <2>4 DEF Ready
  <2>7. /\ Keeps /\ queue'.sending_buffer = None /\ queue'.act_length = 0
        /\ queue'.switch_buffer = queue.switch_buffer /\ queue'.m_bit = queue.m_bit
        /\ queue'.transmit_buffer = queue.transmit_buffer
    BY <1>3, <2>4, <2>6 DEF Keeps, Queue
  <2>8. Queued' /\ Begun' = Begun /\ Given' /\ Carried' /\ NoData'
    BY <1>2, <1>3, <1>5, <2>4, <2>7, StillGiven
  <2>9. /\ confirmed' \in Seq(Msgs) /\ Confirmed' /\ \E b \in 1..Len(Uplink0) : m = Uplink0[b]
        /\ \A j \in DOMAIN confirmed : confirmed[j] # m
    BY <1>2, <2>3, <2>4, <2>5, <2>6, <2>7, <2>8, ConfirmsNext
  <2>10. DataType'
    BY <1>2, <1>3, <2>5, <2>9 DEF DataType
  <2>11. Handling'
    <3>1. Pending(FALSE, FALSE, i, seg)'
      BY <2>1, <2>4 DEF Pending, Batch, When, Concatenate, DataCnf, DataInd, Sig
    <3>2. Ready(FALSE)'
      BY DEF Ready
    <3>3. Assembled(FALSE, seg)' = in_msg /\ Assembled(c, seg) = in_msg
      BY <1>7, <2>4 DEF Assembled
    <3>4. PICK msg : msg = in_msg
      OBVIOUS
    <3>5. /\ Whole(msg, i)' /\ (Linked' => Follows(msg)' /\ Part(msg, i)')
      BY <1>2, <2>4, <2>5, <3>3, <3>4 DEF Whole, Follows, Part, Linked
    <3> QED BY <3>1, <3>2, <3>3, <3>4, <3>5 DEF Handling
  <2>12. Confirms
    BY <2>5, <2>6, <2>9 DEF Confirms
  <2> QED BY <2>8, <2>9, <2>10, <2>11, <2>12 DEF DInv, Tells
<1>8. CASE ~c /\ ~a /\ i
  <2>1. s = DataInd /\ signals' = Batch(FALSE, FALSE, FALSE, seg)
    BY <1>1, <1>2, <1>8, BatchHandled
  <2>2. s.name = "DATA_IND"
    BY <2>1 DEF DataInd, Sig
  <2>3. Assembled(c, seg) = in_msg /\ Whole(in_msg, TRUE) /\ (Linked => Follows(in_msg))
    BY <1>8 DEF Assembled, Whole
  <2>4. in_msg # <<>>
    <3>1. Len(indicated) < Len(Down) /\ in_msg = Down[Len(indicated) + 1]
      BY <2>3 DEF Whole
    <3>2. Len(indicated) + 1 \in DOMAIN Down
      <4>1. PICK S : S = Seq(OrNone(Info))
        OBVIOUS
      <4>2. indicated \in Seq(S)
        BY <1>3, <4>1 DEF DataType
      <4>3. Len(indicated) \in Nat
        BY <4>2
      <4> QED BY <3>1, <4>3, StartFacts
    <3> QED BY <3>1, <3>2, StartFacts DEF Starts
  <2>5. toRR' = <<Prim("DATA_IND", in_msg)>> /\ in_msg' = <<>> /\ UNCHANGED <<state, cch, queue>>
    BY <1>2, <2>2, <2>4 DEF HandleSignal, Handled
  <2>6. indicated' = Append(indicated, in_msg) /\ UNCHANGED confirmed
    <3>1. PICK p : p = Prim("DATA_IND", in_msg)
      OBVIOUS
    <3>2. p.name = "DATA_IND" /\ p.msg = in_msg /\ toRR' = <<p>> /\ toRR' # <<>>
      BY <2>5, <3>1 DEF Prim
    <3> QED BY <1>2, <3>2, RRTold
  <2>7. /\ indicated' \in Seq(Seq(OrNone(Info)))
        /\ Len(indicated) < Len(Down) /\ in_msg = Down[Len(indicated) + 1]
        /\ Linked' => Follows(in_msg)' /\ Part(in_msg, FALSE)'
    BY <1>2, <1>3, <2>3, <2>5, <2>6, IndicatesNext
  <2>8. Queued' /\ Given' /\ Carried' /\ Confirmed' /\ NoData' /\ DataType'
    BY <1>2, <1>3, <1>5, <2>5, <2>6, <2>7, StillGiven DEF Keeps, DataType
  <2>9. Handling'
    <3>1. Pending(FALSE, FALSE, FALSE, seg)'
      BY <2>1, <2>5 DEF Pending, Batch, When, Concatenate, DataCnf, DataInd, Sig
    <3>2. Ready(FALSE)' /\ Whole(Assembled(FALSE, seg), FALSE)'
      BY DEF Ready, Whole
    <3>3. Assembled(FALSE, seg)' = in_msg'
      BY DEF Assembled
    <3> QED BY <2>7, <3>1, <3>2, <3>3 DEF Handling
  <2>10. Indicates
    BY <2>6, <2>7 DEF Indicates
  <2> QED BY <2>8, <2>9, <2>10 DEF DInv, Tells
<1>9. ~(~c /\ ~a /\ ~i)
  <2> SUFFICES ASSUME ~c, ~a, ~i PROVE FALSE
    OBVIOUS
  <2>1. signals = <<>>
    BY BatchHandled
  <2> QED BY <1>2, <2>1
<1> QED BY <1>6, <1>7, <1>8, <1>9

\* Every signal.
LEMMA TaskData ==
  ASSUME OnSchedule, LInv, DInv, Task0
  PROVE  DInv' /\ Tells
<1>1. PICK c \in BOOLEAN, a \in BOOLEAN, i \in BOOLEAN, seg \in OrNone(Info) :
        /\ Pending(c, a, i, seg) /\ Ready(a)
        /\ Whole(Assembled(c, seg), i)
        /\ Linked => Follows(Assembled(c, seg)) /\ Part(Assembled(c, seg), i)
  BY DEF DInv, Handling
<1>2. CASE signals = Batch(c, a, i, seg) /\ state \in {"MFE", "RECOVERY", "RELEASE"}
  BY <1>1, <1>2, TaskBatch
<1>3. CASE ~c /\ ~a /\ ~i /\ Only(signals, SignalNames \ DataSignals)
  <2>1. Assembled(c, seg) = in_msg /\ i = FALSE
    BY <1>3 DEF Assembled
  <2>2. Linked => Follows(in_msg) /\ Part(in_msg, FALSE)
    BY <1>1, <2>1
  <2> QED BY <1>3, <2>2, TaskOther DEF Tells
<1> QED BY <1>1, <1>2, <1>3 DEF Pending

-----------------------------------------------------------------------------
(* Data and RR. *)

\* Signals and messages when the link goes on or a release is awaited.
LEMMA HandlingKept ==
  ASSUME Handling, UNCHANGED <<signals, in_msg, net, indicated, carried>>,
         state' \in {state, "RELEASE"}, Linked' => UNCHANGED cch,
         queue'.act_length = queue.act_length, queue'.sending_buffer = queue.sending_buffer
  PROVE  Handling'
<1>1. PICK c \in BOOLEAN, a \in BOOLEAN, i \in BOOLEAN, seg \in OrNone(Info) :
        /\ Pending(c, a, i, seg) /\ Ready(a)
        /\ Whole(Assembled(c, seg), i)
        /\ Linked => Follows(Assembled(c, seg)) /\ Part(Assembled(c, seg), i)
  BY DEF Handling
<1>2. PICK msg : msg = Assembled(c, seg)
  OBVIOUS
<1>3. Assembled(c, seg)' = msg
  BY <1>2 DEF Assembled
<1>4. Pending(c, a, i, seg)'
  BY <1>1 DEF Pending, Only, Batch, When, Concatenate, DataCnf, DataInd, Sig
<1>5. Ready(a)'
  BY <1>1 DEF Ready, Delivered, Segments
<1>6. Whole(msg, i)' /\ (Linked' => Follows(msg)' /\ Part(msg, i)')
  BY <1>1, <1>2 DEF Whole, Part, Follows, Linked
<1> QED BY <1>3, <1>4, <1>5, <1>6 DEF Handling

\* A message that is handed over: its segments follow all others.
LEMMA GivesNext ==
  ASSUME LInv, DataType, Queued, Given, Carried, NEW m, handed < Len(Uplink0),
         m = Uplink0[handed + 1],
         UNCHANGED <<state, cch, net, up, carried>>,
         queue' = [queue EXCEPT !.store_buffer = Append(@, m)],
         handed' = handed + 1, given' = given \o Segments(m)
  PROVE  /\ Queued' /\ Begun' = Begun /\ Begun \in Int
         /\ Given' /\ Carried' /\ given' \in Seq(Piece) /\ handed' \in 0..Len(Uplink0)
         /\ queue'.sending_buffer = queue.sending_buffer /\ queue'.act_length = queue.act_length
<1>1. /\ handed \in Nat /\ handed <= Len(Uplink0) /\ Len(Uplink0) \in Nat
      /\ \A i \in 1..Len(Uplink0) : Uplink0[i] \in Msgs
      /\ given \in Seq(Piece) /\ Len(given) \in Nat /\ DOMAIN given = 1..Len(given)
      /\ Len(carried) \in Nat
      /\ queue \in Queue /\ queue.store_buffer \in Seq(Msgs) /\ queue.act_length \in Nat
      /\ Len(queue.store_buffer) \in Nat /\ Begun \in 0..handed
      /\ DOMAIN queue.store_buffer = 1..Len(queue.store_buffer)
  BY DataFacts
<1>2. PICK h, n, st : h = handed /\ n = Len(given) /\ st = queue.store_buffer
  OBVIOUS
<1>3. /\ m \in Msgs /\ h \in Nat /\ h < Len(Uplink0) /\ n \in Nat /\ st \in Seq(Msgs)
      /\ Begun = h - Len(st) /\ Len(st) \in Nat /\ DOMAIN st = 1..Len(st)
  <2>1. h \in Nat /\ h < Len(Uplink0) /\ n \in Nat /\ st \in Seq(Msgs)
    BY <1>1, <1>2
  <2>2. m \in Msgs
    <3>1. handed + 1 \in 1..Len(Uplink0)
      BY <1>1
    <3> QED BY <1>1, <3>1
  <2> QED BY <1>2, <2>1, <2>2 DEF Begun
<1>4. PICK g, sg : g = Segs[m] /\ sg = Segments(m)
  OBVIOUS
<1>5. g \in Nat /\ g >= 1 /\ sg \in Seq(Piece) /\ Len(sg) = g /\ DOMAIN sg = 1..g
  BY <1>3, <1>4, SegmentFacts
<1>6. /\ given' \in Seq(Piece) /\ Len(given') = n + g
      /\ \A k \in 1..n : given'[k] = given[k]
      /\ \A k \in 1..g : given'[n + k] = sg[k]
  <2>1. PICK P, gv : P = Piece /\ gv = given
    OBVIOUS
  <2>2. gv \in Seq(P) /\ sg \in Seq(P) /\ n = Len(gv) /\ Len(sg) = g /\ given' = gv \o sg
    BY <1>1, <1>2, <1>4, <1>5, <2>1
  <2>3. /\ gv \o sg \in Seq(P) /\ Len(gv \o sg) = Len(gv) + Len(sg)
        /\ \A k \in 1..Len(gv) : (gv \o sg)[k] = gv[k]
        /\ \A k \in 1..Len(sg) : (gv \o sg)[Len(gv) + k] = sg[k]
    BY <2>2
  <2> QED BY <2>1, <2>2, <2>3
<1>7. /\ queue'.store_buffer = Append(st, m) /\ queue'.act_length = queue.act_length
      /\ queue'.act_offset = queue.act_offset /\ queue'.sending_buffer = queue.sending_buffer
      /\ queue'.switch_buffer = queue.switch_buffer /\ queue'.m_bit = queue.m_bit
      /\ queue'.transmit_buffer = queue.transmit_buffer
  <2>1. PICK q : q = Append(st, m)
    OBVIOUS
  <2>2. queue' = [queue EXCEPT !.store_buffer = q]
    BY <1>2, <2>1
  <2> QED BY <1>1, <2>1, <2>2 DEF Queue
<1>8. /\ Len(queue'.store_buffer) = Len(st) + 1
      /\ \A j \in 1..Len(st) : queue'.store_buffer[j] = st[j]
      /\ queue'.store_buffer[Len(st) + 1] = m
      /\ DOMAIN queue'.store_buffer = 1..Len(st) + 1
  BY <1>3, <1>7
<1>9. Begun' = Begun /\ Begun \in Int
  <2>1. PICK l : l = Len(st)
    OBVIOUS
  <2>2. Begun' = (h + 1) - (l + 1)
    BY <1>2, <1>8, <2>1 DEF Begun
  <2>3. Begun = h - l /\ h \in Nat /\ l \in Nat
    BY <1>3, <2>1
  <2> QED BY <2>2, <2>3
<1>10. Queued'
  <2>1. ASSUME NEW j \in DOMAIN queue'.store_buffer
        PROVE  queue'.store_buffer[j] = Uplink0[Begun + j]
    <3>1. CASE j \in 1..Len(st)
      BY <1>2, <1>3, <1>8, <3>1 DEF Queued
    <3>2. CASE j = Len(st) + 1
      <4>1. Begun + j = h + 1
        BY <1>3, <3>2
      <4> QED BY <1>2, <1>8, <3>2, <4>1
    <3> QED BY <1>3, <1>8, <3>1, <3>2
  <2>2. Len(queue'.store_buffer) <= handed'
    <3>1. Len(st) <= h
      BY <1>2 DEF Queued
    <3> QED BY <1>2, <1>3, <1>8, <3>1
  <2> QED BY <1>7, <1>9, <2>1, <2>2 DEF Queued
<1>11. Given'
  <2>1. PICK at \in [1..h + 1 -> 0..n] : Laid(at) /\ Sending(at)
    BY <1>2 DEF Given
  <2>2. PICK to : to = [k \in 1..h + 2 |-> IF k <= h + 1 THEN at[k] ELSE n + g]
    OBVIOUS
  <2>3. /\ to \in [1..h + 2 -> 0..n + g] /\ h + 2 = h + 1 + 1
        /\ to[h + 2] = n + g
        /\ \A k \in 1..h + 1 : to[k] = at[k] /\ at[k] \in 0..n
    BY <1>3, <1>5, <2>2
  <2>4. at[1] = 0 /\ at[h + 1] = n
    BY <1>2, <2>1 DEF Laid
  <2>5. to[1] = 0 /\ to[h + 1] = n
    BY <1>3, <2>3, <2>4
  <2>6. ASSUME NEW i \in 1..h + 1
        PROVE  /\ to[i + 1] = to[i] + Segs[Uplink0[i]]
               /\ \A k \in 1..Segs[Uplink0[i]] : given'[to[i] + k] = Segments(Uplink0[i])[k]
    <3>1. CASE i = h + 1
      <4>1. Uplink0[i] = m /\ to[i] = n /\ to[i + 1] = n + g
        BY <1>2, <2>3, <2>5, <3>1
      <4> QED BY <1>4, <1>6, <4>1
    <3>2. CASE i \in 1..h
      <4>1. /\ at[i + 1] = at[i] + Segs[Uplink0[i]]
            /\ \A k \in 1..Segs[Uplink0[i]] : given[at[i] + k] = Segments(Uplink0[i])[k]
        BY <1>2, <2>1, <3>2 DEF Laid
      <4>2. i \in 1..h + 1 /\ i + 1 \in 1..h + 1
        BY <1>3, <3>2
      <4>3. PICK gi : gi = Segs[Uplink0[i]]
        OBVIOUS
      <4>4. gi \in Nat
        <5>1. Uplink0[i] \in Msgs
          BY <1>1, <1>2, <1>3, <3>2
        <5> QED BY <4>3, <5>1, SegmentFacts
      <4>5. \A k \in 1..gi : at[i] + k \in 1..n
        <5>1. at[i] \in 0..n /\ at[i + 1] \in 0..n /\ at[i + 1] = at[i] + gi
          BY <2>3, <4>1, <4>2, <4>3
        <5>2. PICK x, y : x = at[i] /\ y = at[i + 1]
          OBVIOUS
        <5>3. x \in 0..n /\ y \in 0..n /\ y = x + gi /\ n \in Nat /\ gi \in Nat
          BY <1>3, <4>4, <5>1, <5>2
        <5>4. \A k \in 1..gi : x + k \in 1..n
          BY <5>3
        <5> QED BY <5>2, <5>4
      <4>6. to[i] = at[i] /\ to[i + 1] = at[i + 1]
        BY <2>3, <4>2
      <4> QED BY <1>6, <4>1, <4>3, <4>5, <4>6
    <3>3. i = h + 1 \/ i \in 1..h
      BY <1>3
    <3> QED BY <3>1, <3>2, <3>3
  <2>7. Laid(to)'
    <3>1. handed' = h + 1 /\ h + 1 + 1 = h + 2 /\ Len(given') = n + g
      BY <1>2, <1>3, <1>6
    <3>2. \A i \in 1..h + 1 :
            /\ to[i + 1] = to[i] + Segs[Uplink0[i]]
            /\ \A k \in 1..Segs[Uplink0[i]] : given'[to[i] + k] = Segments(Uplink0[i])[k]
      BY <2>6
    <3>3. to[handed' + 1] = Len(given')
      BY <2>3, <3>1
    <3> QED BY <2>5, <3>1, <3>2, <3>3 DEF Laid, Segments
  <2>8. PICK b, l : b = Begun /\ l = queue.act_length
    OBVIOUS
  <2>9. /\ b + 1 \in 1..h + 1 /\ l \in Nat
        /\ ReadTo(at) = at[b + 1] - l /\ ReadTo(to)' = to[b + 1] - l /\ at[b + 1] \in 0..n
        /\ to[b + 1] = at[b + 1]
    <3>1. b + 1 \in 1..h + 1 /\ l \in Nat
      BY <1>1, <1>2, <2>8
    <3>2. ReadTo(at) = at[b + 1] - l /\ ReadTo(to)' = to[b + 1] - l
      BY <1>7, <1>9, <2>8 DEF ReadTo
    <3> QED BY <2>3, <3>1, <3>2
  <2>10. Sending(to)'
    <3> SUFFICES ASSUME Linked PROVE Sending(to)'
      BY DEF Sending, Linked
    <3>1. PICK r : r = ReadTo(at)
      OBVIOUS
    <3>2. ReadTo(to)' = r /\ r <= n /\ r \in Int
      BY <1>3, <2>9, <3>1
    <3>3. r >= 1 => given'[r] = given[r]
      <4>1. r >= 1 => r \in 1..n
        BY <1>3, <3>2
      <4> QED BY <1>6, <4>1
    <3> QED BY <1>7, <2>1, <3>1, <3>2, <3>3 DEF Sending
  <2>11. to \in [1..handed' + 1 -> 0..Len(given')]
    <3>1. handed' + 1 = h + 2 /\ Len(given') = n + g
      BY <1>2, <1>3, <1>6
    <3> QED BY <2>3, <3>1
  <2> QED BY <2>7, <2>10, <2>11 DEF Given
<1>12. Carried'
  <2>1. /\ Len(carried) <= n /\ \A j \in 1..Len(carried) : carried[j] = given[j]
        /\ up # None /\ up.type = "I" /\ net.st = "MFE" /\ up.ns = net.vr =>
             /\ Len(carried) < n
             /\ given[Len(carried) + 1] = [info |-> up.info, m |-> up.m]
    BY <1>2 DEF Carried
  <2>2. /\ Len(carried) <= n + g /\ \A j \in 1..Len(carried) : carried[j] = given'[j]
        /\ Len(carried) < n =>
             Len(carried) < n + g /\ given'[Len(carried) + 1] = given[Len(carried) + 1]
    <3>1. PICK l : l = Len(carried)
      OBVIOUS
    <3>2. /\ l \in Nat /\ l <= n /\ l <= n + g
          /\ l < n => l < n + g /\ l + 1 \in 1..n
          /\ \A j \in 1..l : j \in 1..n
      <4>1. l \in Nat /\ l <= n /\ n \in Nat /\ g \in Nat
        BY <1>1, <1>3, <1>5, <2>1, <3>1
      <4> QED BY <4>1
    <3> QED BY <1>6, <2>1, <3>1, <3>2
  <2> QED BY <1>6, <2>1, <2>2 DEF Carried
<1> QED BY <1>2, <1>3, <1>6, <1>7, <1>9, <1>10, <1>11, <1>12

\* Nothing happens to the data.
LEMMA SameData ==
  ASSUME LInv, DInv, NoData', state' \in {state, "RELEASE"},
         Linked' => UNCHANGED <<state, cch>>,
         UNCHANGED <<queue, signals, in_msg, net, up, handed, given, carried, confirmed, indicated>>
  PROVE  DInv'
<1>1. DataType /\ NoData /\ Queued /\ Given /\ Carried /\ Confirmed /\ Handling
  BY DEF DInv
<1>2. /\ Queued' /\ Begun' >= Begun /\ Begun' \in Int
      /\ queue'.sending_buffer # None => queue.sending_buffer # None /\ Begun' = Begun
  BY <1>1, QueuedKept DEF Keeps
<1>3. Given'
  <2>1. CASE Linked'
    BY <2>1, StillGiven DEF Keeps
  <2>2. CASE ~Linked'
    BY <1>1, <2>2, GivenKept
  <2> QED BY <2>1, <2>2
<1>4. Carried' /\ DataType'
  BY <1>1 DEF Carried, DataType
<1>5. Confirmed'
  BY <1>1, <1>2, ConfirmedKept
<1>6. Handling'
  BY <1>1, HandlingKept
<1> QED BY <1>2, <1>3, <1>4, <1>5, <1>6 DEF DInv

\* DL_DATA_REQ: the message is stored, or the store is full.
Gives == given' = given \o Segments(Uplink0[handed + 1])

LEMMA RRSendsData ==
  ASSUME OnSchedule, LInv, DInv, RRSends
  PROVE  /\ DInv' /\ UNCHANGED <<carried, confirmed, indicated>>
         /\ UNCHANGED given \/ (handed < Len(Uplink0) /\ Gives)
<1>1. PICK m : m = Uplink0[handed + 1]
  OBVIOUS
<1>2. /\ rrView = "UP" /\ handed < Len(Uplink0) /\ data_req(m) /\ RRGets(rrView)
      /\ UNCHANGED <<net, up, signals, carried>>
      /\ \/ queue' = queue /\ UNCHANGED <<handed, given>>
         \/ queue' # queue /\ handed' = handed + 1 /\ given' = given \o Segments(m)
  BY <1>1 DEF RRSends, RRStep
<1>3. UNCHANGED <<state, cch, in_msg>> /\ toRR' = <<>> /\ queue' \in {queue, com_store_queue(queue, m)}
  BY <1>2 DEF data_req, Task
<1>4. UNCHANGED <<confirmed, indicated>>
  BY <1>2, <1>3, RRTold
<1>5. ~Unestablished /\ ~Unestablished'
  <2>1. ~Fresh
    BY <1>2 DEF Fresh
  <2>2. ~Unestablished
    BY <2>1 DEF LInv, Unused, Unestablished
  <2> QED BY <1>2, <1>3, <2>2 DEF Unestablished, IsSABM
<1>6. NoData'
  BY <1>5 DEF NoData
<1>7. CASE queue' = queue /\ UNCHANGED <<handed, given>>
  <2>1. /\ UNCHANGED <<queue, signals, in_msg, net, up, handed, given, carried, confirmed, indicated>>
        /\ UNCHANGED <<state, cch>> /\ state' \in {state, "RELEASE"}
    BY <1>2, <1>3, <1>4, <1>7
  <2>2. DInv'
    BY <1>6, <2>1, SameData
  <2> QED BY <1>2, <1>4, <1>7, <2>2
<1>8. CASE queue' # queue /\ handed' = handed + 1 /\ given' = given \o Segments(m)
  <2>1. queue' = [queue EXCEPT !.store_buffer = Append(@, m)]
    BY <1>3, <1>8 DEF com_store_queue
  <2>2. DataType /\ Queued /\ Given /\ Carried /\ Confirmed /\ Handling
    BY DEF DInv
  <2>3. /\ Queued' /\ Begun' = Begun /\ Begun \in Int
        /\ Given' /\ Carried' /\ given' \in Seq(Piece) /\ handed' \in 0..Len(Uplink0)
        /\ queue'.sending_buffer = queue.sending_buffer /\ queue'.act_length = queue.act_length
    BY <1>1, <1>2, <1>3, <1>8, <2>1, <2>2, GivesNext
  <2>4. DataType'
    BY <1>2, <1>4, <2>2, <2>3 DEF DataType
  <2>5. Confirmed'
    <3>1. Begun' >= Begun /\ Begun' \in Int
      BY <2>3
    <3> QED BY <1>2, <1>4, <2>2, <2>3, <3>1, ConfirmedKept
  <2>6. Handling'
    BY <1>2, <1>3, <1>4, <2>2, <2>3, HandlingKept
  <2> QED BY <1>1, <1>2, <1>4, <1>6, <1>8, <2>3, <2>4, <2>5, <2>6 DEF DInv, Gives
<1> QED BY <1>2, <1>4, <1>7, <1>8

\* DL_ESTABLISH_REQ.
LEMMA RREstablishesData ==
  ASSUME OnSchedule, LInv, DInv, RREstablishes
  PROVE  DInv' /\ UNCHANGED <<given, carried, confirmed, indicated>>
<1>1. /\ net.st = "IDLE" /\ signals = <<>> /\ UNCHANGED signals
      /\ dcch0_establish_req(EstMsg) /\ RRGets("ASKED")
      /\ UNCHANGED <<net, up, handed, given, carried>>
      /\ Fresh /\ EstMsg # None
  BY LinkAssumption, EntityAssumption DEF RREstablishes, RRStep, LInv, Unused
<1>2. state = "IDLE"
  BY <1>1 DEF RREstablishes, Fresh, LInv, Contending, Asking
<1>3. /\ cch' = Establishing([cch EXCEPT !.contention_resolution = TRUE])
      /\ state' = "CONTENTION" /\ toRR' = <<>> /\ UNCHANGED in_msg
      /\ queue' = [com_clear_queue(queue) EXCEPT !.switch_buffer = EstMsg]
  BY <1>1, <1>2 DEF dcch0_establish_req, Task
<1>4. UNCHANGED <<confirmed, indicated>>
  BY <1>1, <1>3, RRTold
<1>5. cch'.contention_resolution /\ Clears
  <2>1. cch \in Channel /\ queue \in Queue /\ com_clear_queue(queue) \in Queue
    BY QueueTypes DEF LInv, IInv, TypeOK
  <2>2. cch'.contention_resolution
    BY <1>3, <2>1 DEF Establishing, Channel
  <2>3. Clears
    <3>1. PICK q : q = com_clear_queue(queue)
      OBVIOUS
    <3>2. q.store_buffer = <<>> /\ q.sending_buffer = None /\ q.act_length = 0 /\ q \in Queue
      BY <2>1, <3>1 DEF com_clear_queue, Queue
    <3> QED BY <1>3, <3>1, <3>2 DEF Clears, Queue
  <2> QED BY <2>2, <2>3
<1>6. NoData'
  <2>1. /\ handed = 0 /\ given = <<>> /\ carried = <<>> /\ confirmed = <<>> /\ indicated = <<>>
        /\ in_msg = <<>>
    BY <1>1 DEF DInv, NoData, Unestablished
  <2> QED BY <1>1, <1>3, <1>4, <1>5, <2>1 DEF NoData, Clears
<1>7. ~Linked' /\ Only(signals', SignalNames \ DataSignals)
  BY <1>1, <1>3 DEF Linked, Only
<1> QED BY <1>1, <1>4, <1>5, <1>6, <1>7, QuietData

\* DL_RELEASE_REQ.
LEMMA RRReleasesData ==
  ASSUME OnSchedule, LInv, DInv, RRReleases
  PROVE  DInv' /\ UNCHANGED <<given, carried, confirmed, indicated>>
<1>1. /\ rrView = "UP" /\ release_req(<<>>, rel) /\ RRGets("CLOSING")
      /\ UNCHANGED <<net, up, signals, handed, given, carried>>
  BY DEF RRReleases, RRStep
<1>2. state # "CONTENTION" /\ ~Unestablished
  BY <1>1 DEF LInv, Contending, Asking, Fresh, Unused, Unestablished
<1>3. \/ /\ UNCHANGED <<queue, in_msg>> /\ toRR' = <<>>
         /\ state' \in {state, "RELEASE"} /\ (Linked' => UNCHANGED <<state, cch>>)
      \/ /\ state = "IDLE" /\ state' = "IDLE" /\ in_msg' = <<>>
         /\ queue' = com_clear_queue(queue) /\ toRR' = Append(<<>>, RELEASE_CNF)
  BY <1>1, <1>2 DEF release_req, Task, TaskInit, init_dl_data, InitialState, OnSchedule, OnTime,
                    Linked, LInv, LinkType
<1>4. state' # "CONTENTION"
  BY <1>2, <1>3
<1>5. UNCHANGED <<confirmed, indicated>>
  <2>1. PICK p : p = RELEASE_CNF
    OBVIOUS
  <2>2. p.name = "RELEASE_CNF" /\ Append(<<>>, p) = <<p>>
    BY <2>1 DEF RELEASE_CNF, Prim
  <2>3. toRR' \in {<<>>, <<p>>}
    BY <1>3, <2>1, <2>2
  <2> QED BY <1>1, <2>2, <2>3, RRTold
<1>6. NoData'
  BY <1>1, <1>2, <1>4 DEF NoData, Unestablished, IsSABM
<1>7. CASE /\ UNCHANGED <<queue, in_msg>> /\ toRR' = <<>>
           /\ state' \in {state, "RELEASE"} /\ (Linked' => UNCHANGED <<state, cch>>)
  BY <1>1, <1>5, <1>6, <1>7, SameData
<1>8. CASE /\ state = "IDLE" /\ state' = "IDLE" /\ in_msg' = <<>>
           /\ queue' = com_clear_queue(queue) /\ toRR' = Append(<<>>, RELEASE_CNF)
  <2>1. Only(signals', SignalNames \ DataSignals)
    BY <1>1, <1>8 DEF DInv, Handling, Pending
  <2>2. queue \in Queue
    BY DEF LInv, IInv, TypeOK
  <2>3. Clears /\ ~Linked'
    BY <1>8, <2>2 DEF Clears, com_clear_queue, Queue, Linked
  <2> QED BY <1>1, <1>5, <1>6, <2>1, <2>3, QuietData
<1> QED BY <1>1, <1>3, <1>5, <1>7, <1>8

-----------------------------------------------------------------------------
(* The invariant of the data. *)

LEMMA InitData ==
  ASSUME OnSchedule, LinkInit
  PROVE  DInv
<1>1. /\ state = "IDLE" /\ queue = EmptyQueue /\ in_msg = <<>> /\ signals = <<>> /\ up = None
      /\ handed = 0 /\ given = <<>> /\ carried = <<>> /\ confirmed = <<>> /\ indicated = <<>>
  BY DEF LinkInit, Init, InitialState, OnSchedule, OnTime
<1>2. Uplink0 \in Seq(Msgs)
  BY LinkAssumption
<1>3. DataType
  <2>1. 0 \in 0..Len(Uplink0)
    BY <1>2
  <2> QED BY <1>1, <2>1 DEF DataType
<1>4. /\ NoData
  BY <1>1 DEF NoData, EmptyQueue
<1>5. Queued
  <2>1. /\ queue.store_buffer = <<>> /\ queue.sending_buffer = None /\ queue.act_length = 0
    BY <1>1 DEF EmptyQueue
  <2> QED BY <1>1, <2>1 DEF Queued
<1>6. Given
  <2>1. PICK at : at = [k \in 1..1 |-> 0]
    OBVIOUS
  <2>2. /\ at \in [1..handed + 1 -> 0..Len(given)] /\ Laid(at)
    BY <1>1, <2>1 DEF Laid
  <2>3. Sending(at)
    BY <1>1 DEF Sending, Linked
  <2> QED BY <2>2, <2>3 DEF Given
<1>7. Carried /\ Confirmed
  BY <1>1 DEF Carried, Confirmed
<1>8. Handling
  <2>1. None \in OrNone(Info)
    BY DEF OrNone
  <2>2. Pending(FALSE, FALSE, FALSE, None)
    BY <1>1 DEF Pending, Only
  <2> QED BY <1>1, <2>1, <2>2 DEF Handling, Ready, Whole, Linked
<1> QED BY <1>3, <1>4, <1>5, <1>6, <1>7, <1>8 DEF DInv

LEMMA NextData ==
  ASSUME OnSchedule, LInv, LInv', DInv, [LinkNext]_allVars
  PROVE  DInv'
<1>1. CASE Receives \/ Opportunity
  BY <1>1, ReceivesData, OpportunityData
<1>2. CASE Task0
  BY <1>2, TaskData
<1>3. CASE RREstablishes \/ RRSends \/ RRReleases
  BY <1>3, RREstablishesData, RRSendsData, RRReleasesData
<1>4. CASE Network \/ LoseUp \/ LoseDown
  BY <1>4, NetworkData
<1>5. CASE UNCHANGED allVars
  <2>1. /\ UNCHANGED <<queue, signals, in_msg, net, up, handed, given, carried, confirmed, indicated>>
        /\ UNCHANGED <<state, cch>>
    BY <1>5 DEF allVars, vars, linkVars
  <2>2. NoData'
    BY <2>1 DEF DInv, NoData, Unestablished, IsSABM
  <2> QED BY <2>1, <2>2, SameData
<1> QED BY <1>1, <1>2, <1>3, <1>4, <1>5 DEF LinkNext, Mobile

\* The invariant of the data: what the network received is the beginning of what
\* RR gave, the entity has read one segment more at most, and what it put
\* together is the beginning of the next message of the network.
THEOREM DataInvariance == OnSchedule => (LinkSpec => [](LInv /\ DInv))
<1> SUFFICES ASSUME OnSchedule PROVE LinkSpec => [](LInv /\ DInv)
  OBVIOUS
<1>1. LinkInit => DInv
  BY InitData
<1>2. LInv /\ LInv' /\ DInv /\ [LinkNext]_allVars => DInv'
  BY NextData
<1>3. OnTime
  BY DEF OnSchedule
<1>4. LinkSpec => []LInv
  BY <1>3, LinkInvariance
<1> QED BY <1>1, <1>2, <1>4, PTL DEF LinkSpec

\* ConfirmedIsDelivered for every instance: DL_DATA_CNF comes after the last
\* segment was acknowledged, and every segment before it (drr_dl_data_cnf,
\* com_free_sending_buffer).
THEOREM ConfirmedDelivered == OnSchedule => (LinkSpec => []ConfirmedIsDelivered)
<1> SUFFICES ASSUME OnSchedule PROVE LinkSpec => []ConfirmedIsDelivered
  OBVIOUS
<1>1. DInv => ConfirmedIsDelivered
  <2> SUFFICES ASSUME DInv, NEW i \in DOMAIN confirmed,
                      NEW k \in DOMAIN Segments(confirmed[i])
               PROVE  \E j \in DOMAIN carried : carried[j] = Segments(confirmed[i])[k]
    BY DEF ConfirmedIsDelivered
  <2>1. PICK m : m = confirmed[i]
    OBVIOUS
  <2>2. m \in Msgs /\ Delivered(m)
    BY <2>1 DEF DInv, DataType, Confirmed
  <2>3. k \in 1..Segs[m]
    BY <2>1, <2>2, SegmentFacts
  <2> QED BY <2>1, <2>2, <2>3 DEF Delivered
<1> QED BY <1>1, DataInvariance, PTL

-----------------------------------------------------------------------------
(* The link is a reliable link. *)

LEMMA NetworkCarries ==
  ASSUME LInv, DInv, Network \/ LoseUp \/ LoseDown
  PROVE  Service!Carry \/ UNCHANGED Service!svars
<1>1. /\ UNCHANGED <<given, confirmed, indicated>> /\ UNCHANGED vars
      /\ NetTakes \/ NetQuiet
  BY NetworkMoves
<1>2. CASE NetTakes
  BY <1>1, <1>2, TakesNext DEF DInv, Service!Carry
<1>3. CASE NetQuiet
  BY <1>1, <1>3 DEF NetQuiet, Service!svars
<1> QED BY <1>1, <1>2, <1>3

LEMMA TaskServes ==
  ASSUME OnSchedule, LInv, DInv, Task0
  PROVE  \/ \E m \in {Uplink0[i] : i \in DOMAIN Uplink0} : Service!Confirm(m)
         \/ Service!Indicate
         \/ UNCHANGED Service!svars
<1>1. Tells /\ UNCHANGED <<given, carried>>
  BY TaskData, TaskFrame
<1>2. CASE Confirms
  <2>1. PICK b \in 1..Len(Uplink0) :
          /\ Uplink0[b] \in Cnf /\ Delivered(Uplink0[b])
          /\ \A i \in DOMAIN confirmed : confirmed[i] # Uplink0[b]
          /\ confirmed' = Append(confirmed, Uplink0[b]) /\ UNCHANGED indicated
    BY <1>2 DEF Confirms
  <2>2. PICK m : m = Uplink0[b]
    OBVIOUS
  <2>3. m \in Msgs /\ m \in {Uplink0[i] : i \in DOMAIN Uplink0}
    BY <2>2, LinkAssumption
  <2>4. \E i \in DOMAIN carried : carried[i] = Service!Last(m)
    <3>1. PICK g : g = Segs[m]
      OBVIOUS
    <3>2. g \in 1..g /\ Len(Segments(m)) = g
      <4>1. g \in Nat /\ g >= 1 /\ Len(Segments(m)) = g
        BY <2>3, <3>1, SegmentFacts
      <4> QED BY <4>1
    <3>3. \E i \in DOMAIN carried : carried[i] = Segments(m)[g]
      BY <2>1, <2>2, <3>1, <3>2 DEF Delivered
    <3> QED BY <3>2, <3>3 DEF Service!Last
  <2>5. Service!Confirm(m)
    BY <1>1, <2>1, <2>2, <2>4 DEF Service!Confirm
  <2> QED BY <2>3, <2>5
<1>3. CASE Indicates
  BY <1>1, <1>3 DEF Indicates, Service!Indicate
<1>4. CASE UNCHANGED <<confirmed, indicated>>
  BY <1>1, <1>4 DEF Service!svars
<1> QED BY <1>1, <1>2, <1>3, <1>4 DEF Tells

LEMMA RRServes ==
  ASSUME OnSchedule, LInv, DInv, RREstablishes \/ RRSends \/ RRReleases
  PROVE  \/ \E m \in {Uplink0[i] : i \in DOMAIN Uplink0} : Service!Give(m)
         \/ UNCHANGED Service!svars
<1>1. CASE RREstablishes \/ RRReleases
  BY <1>1, RREstablishesData, RRReleasesData DEF Service!svars
<1>2. CASE RRSends
  <2>1. /\ UNCHANGED <<carried, confirmed, indicated>>
        /\ UNCHANGED given \/ (handed < Len(Uplink0) /\ Gives)
    BY <1>2, RRSendsData
  <2>2. CASE handed < Len(Uplink0) /\ Gives
    <3>1. PICK m : m = Uplink0[handed + 1]
      OBVIOUS
    <3>2. m \in {Uplink0[i] : i \in DOMAIN Uplink0}
      <4>1. handed \in 0..Len(Uplink0) /\ Uplink0 \in Seq(Msgs)
        BY LinkAssumption DEF DInv, DataType
      <4>2. handed + 1 \in DOMAIN Uplink0
        BY <2>2, <4>1
      <4> QED BY <3>1, <4>2
    <3>3. Service!Give(m)
      BY <2>1, <2>2, <3>1 DEF Gives, Service!Give
    <3> QED BY <3>2, <3>3
  <2> QED BY <2>1, <2>2 DEF Service!svars
<1> QED BY <1>1, <1>2

\* ReliableLink for every instance: the entity of dl_state.c, with a channel that
\* loses frames, carries what it is given in order and once, indicates what the
\* network sent, and confirms a message once and after its last segment.
THEOREM LinkIsReliable == OnSchedule => (LinkSpec => ReliableLink)
<1> SUFFICES ASSUME OnSchedule PROVE LinkSpec => ReliableLink
  OBVIOUS
<1>1. LinkInit => Service!Init
  BY DEF LinkInit, Service!Init
<1>2. LInv /\ DInv /\ [LinkNext]_allVars => [Service!Next]_(Service!svars)
  <2> SUFFICES ASSUME LInv, DInv, [LinkNext]_allVars
               PROVE  Service!Next \/ UNCHANGED Service!svars
    OBVIOUS
  <2>1. CASE Receives \/ Opportunity \/ UNCHANGED allVars
    BY <2>1 DEF Receives, Opportunity, allVars, linkVars, Service!svars
  <2>2. CASE Task0
    BY <2>2, TaskServes DEF Service!Next
  <2>3. CASE RREstablishes \/ RRSends \/ RRReleases
    BY <2>3, RRServes DEF Service!Next
  <2>4. CASE Network \/ LoseUp \/ LoseDown
    BY <2>4, NetworkCarries DEF Service!Next
  <2> QED BY <2>1, <2>2, <2>3, <2>4 DEF LinkNext, Mobile
<1>3. LinkSpec => [](LInv /\ DInv)
  BY DataInvariance
<1> QED BY <1>1, <1>2, <1>3, PTL DEF LinkSpec, ReliableLink, Service!Spec

=============================================================================
