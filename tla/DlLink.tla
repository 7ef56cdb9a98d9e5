------------------------------- MODULE DlLink -------------------------------
(***************************************************************************)
(* A link of SAPI 0: the entity of DlEntity, the radio channel and the     *)
(* data link entity of the network.  The network is external: it follows   *)
(* 3GPP TS 04.06 the way the handlers of dl_state.c expect it to.          *)
(*                                                                         *)
(* A frame may be lost in either direction.  Frames are not reordered.     *)
(***************************************************************************)
EXTENDS DlEntity

CONSTANTS
  EstMsg,       \* message of the DL_ESTABLISH_REQ
  Uplink0,      \* messages RR sends on the link, in this order
  Down,         \* messages of the network, each a sequence of segments
  DownFrames,   \* segments of the I frames the network sends them in, with the M bit
  DownMax,      \* frames the network may have on their way
  LateAnswers,  \* answers may arrive after the next opportunity to send
  NetPolls,     \* the network may ask for the state with an RR command
  NetCloses,    \* the network may release the link
  RRCloses      \* RR may release the link

VARIABLES
  net,      \* data link entity of the network
  up,       \* frame on its way to the network, or None
  down,     \* frames on their way to the mobile
  last,     \* last new I frame of the mobile, or None
  handed,   \* number of messages RR handed over
  given,    \* segments of these messages
  carried,  \* segments the network received in I frames
  confirmed,\* messages confirmed to RR
  indicated,\* messages indicated to RR
  rrView    \* the link as RR knows it

linkVars == <<net, up, down, last, handed, given, carried, confirmed, indicated, rrView>>
allVars  == <<vars, linkVars>>

Segments(m) == [k \in 1..Segs[m] |-> [info |-> [msg |-> m, k |-> k], m |-> k < Segs[m]]]

\* The messages RR hands over are different ones, and the network sends the
\* segments of its messages one after the other.
ASSUME LinkAssumption ==
  /\ EstMsg \in Msgs \cap Info
  /\ Uplink0 \in Seq(Msgs)
  /\ \A i, j \in DOMAIN Uplink0 : Uplink0[i] = Uplink0[j] => i = j
  /\ Down \in Seq(Seq(Info))
  /\ DownFrames \in Seq([info : Info, m : BOOLEAN])
  /\ \E start \in [1..Len(Down) + 1 -> 0..Len(DownFrames)] :
       /\ start[1] = 0 /\ start[Len(Down) + 1] = Len(DownFrames)
       /\ \A i \in DOMAIN Down :
            /\ Down[i] # <<>> /\ start[i + 1] = start[i] + Len(Down[i])
            /\ \A k \in DOMAIN Down[i] :
                 DownFrames[start[i] + k] = [info |-> Down[i][k], m |-> k < Len(Down[i])]
  /\ None \notin Frame(OrNone(Msgs \cup SegmentRead))

NetInit == [st |-> "IDLE", vr |-> 0, sent |-> 0, acked |-> 0, rej |-> FALSE]

LinkInit ==
  /\ Init
  /\ net = NetInit
  /\ up = None /\ down = <<>> /\ last = None
  /\ handed = 0 /\ given = <<>> /\ carried = <<>> /\ confirmed = <<>> /\ indicated = <<>>
  /\ rrView = "DOWN"

-----------------------------------------------------------------------------
(* The network. *)

NetS(t, cmd, pf) == [SResponse(t, net.vr, pf) EXCEPT !.cmd = cmd]
NetI(i, nr, p) ==
  [type |-> "I", cmd |-> TRUE, pf |-> p, nr |-> nr, ns |-> (i - 1) % 8,
   info |-> DownFrames[i].info, m |-> DownFrames[i].m]

Outstanding == net.sent # net.acked
CanSendI(n) == n.sent = n.acked /\ n.sent < Len(DownFrames)

\* N(R) of f acknowledges the I frame the network has sent.
Acked(f) == IF f.nr = net.sent % 8 THEN [net EXCEPT !.acked = net.sent] ELSE net

Answers(frames) == down' = down \o frames

NetSABM(f) ==
  /\ f.type = "SABM" /\ net.st \in {"IDLE", "MFE"}
  /\ net' = [NetInit EXCEPT !.st = "MFE"]
  /\ Answers(<<UFrame("UA", FALSE, f.pf, f.info)>>)
  /\ UNCHANGED carried

NetDISC(f) ==
  /\ f.type = "DISC"
  /\ net' = [net EXCEPT !.st = "CLOSED"]
  /\ Answers(<<UFrame(IF net.st = "CLOSED" THEN "DM" ELSE "UA", FALSE, f.pf, None)>>)
  /\ UNCHANGED carried

\* The I frame expected is acknowledged by an I frame or a response.
NetIFrame(f) ==
  /\ f.type = "I" /\ net.st = "MFE" /\ f.ns = net.vr
  /\ carried' = Append(carried, [info |-> f.info, m |-> f.m])
  /\ LET n == [Acked(f) EXCEPT !.vr = Incr(@), !.rej = FALSE]
     IN \/ /\ net' = n
           /\ Answers(<<SResponse("RR", n.vr, f.pf)>>)
        \/ /\ ~f.pf /\ CanSendI(n)
           /\ net' = [n EXCEPT !.sent = @ + 1]
           /\ Answers(<<NetI(n.sent + 1, n.vr, FALSE)>>)

NetIRepeated(f) ==
  /\ f.type = "I" /\ net.st = "MFE" /\ f.ns # net.vr
  /\ net' = [Acked(f) EXCEPT !.rej = TRUE]
  /\ Answers(IF f.pf \/ ~net.rej THEN <<NetS("REJ", FALSE, f.pf)>> ELSE <<>>)
  /\ UNCHANGED carried

NetSupervisory(f) ==
  /\ f.type \in {"RR", "REJ"} /\ net.st = "MFE"
  /\ net' = Acked(f)
  /\ UNCHANGED <<down, carried>>

NetUAorDM(f) ==
  /\ f.type \in {"UA", "DM"}
  /\ net' = [net EXCEPT !.st = "CLOSED"]
  /\ UNCHANGED <<down, carried>>

\* Frames of a link that is closed or being closed.
NetElse(f) ==
  /\ f.type \in {"I", "RR", "REJ", "SABM"} /\ net.st \notin {"IDLE", "MFE"}
  /\ Answers(IF f.pf /\ f.cmd /\ net.st = "CLOSED" THEN <<UFrame("DM", FALSE, TRUE, None)>>
                                                   ELSE <<>>)
  /\ UNCHANGED <<net, carried>>

NetReceives ==
  /\ up # None /\ Len(down) < DownMax
  /\ \/ NetSABM(up) \/ NetDISC(up) \/ NetIFrame(up) \/ NetIRepeated(up)
     \/ NetSupervisory(up) \/ NetUAorDM(up) \/ NetElse(up)
  /\ up' = None
  /\ UNCHANGED <<vars, last, handed, given, confirmed, indicated, rrView>>

NetStep ==
  /\ Len(down) < DownMax
  /\ UNCHANGED <<vars, up, last, handed, given, carried, confirmed, indicated, rrView>>

NetSends ==
  /\ net.st = "MFE" /\ CanSendI(net)
  /\ NetStep
  /\ net' = [net EXCEPT !.sent = @ + 1]
  /\ Answers(<<NetI(net.sent + 1, net.vr, FALSE)>>)

\* T200 of the network expires: it repeats its I frame or asks with RR.
NetRepeats ==
  /\ net.st = "MFE" /\ Outstanding
  /\ NetStep /\ UNCHANGED net
  /\ \/ Answers(<<NetI(net.sent, net.vr, TRUE)>>)
     \/ NetPolls /\ Answers(<<NetS("RR", TRUE, TRUE)>>)

NetReleases ==
  /\ NetCloses /\ net.st \in {"MFE", "CLOSING"}
  /\ NetStep
  /\ net' = [net EXCEPT !.st = "CLOSING"]
  /\ Answers(<<UFrame("DISC", TRUE, TRUE, None)>>)

-----------------------------------------------------------------------------
(* The radio channel and the mobile. *)

LoseUp ==
  /\ up # None /\ up' = None
  /\ UNCHANGED <<vars, net, down, last, handed, given, carried, confirmed, indicated, rrView>>

LoseDown ==
  /\ down # <<>> /\ down' = Tail(down)
  /\ UNCHANGED <<vars, net, up, last, handed, given, carried, confirmed, indicated, rrView>>

Receives ==
  /\ down # <<>> /\ down' = Tail(down)
  /\ dl_downlink(Head(down))
  /\ UNCHANGED <<net, up, last, handed, given, carried, confirmed, indicated, rrView>>

NewIFrame == l2_frame' # None /\ l2_frame'.type = "I" /\ ~l2_frame'.pf

Opportunity ==
  /\ up = None
  /\ LateAnswers \/ down = <<>>
  /\ Uplink
  /\ up' = l2_frame'
  /\ last' = IF NewIFrame THEN l2_frame' ELSE last
  /\ UNCHANGED <<net, down, handed, given, carried, confirmed, indicated, rrView>>

\* What RR gets from the DL task, one primitive with a message at a time; view
\* is the link as RR has it otherwise.
Gets(name) == \E i \in DOMAIN toRR' : toRR'[i].name = name

RRGets(view) ==
  /\ confirmed' = IF Gets("DATA_CNF") THEN Append(confirmed, Head(toRR').msg) ELSE confirmed
  /\ indicated' = IF Gets("DATA_IND") THEN Append(indicated, Head(toRR').msg) ELSE indicated
  /\ rrView' = IF Gets("RELEASE_IND") \/ Gets("RELEASE_CNF") THEN "DOWN"
               ELSE IF Gets("ESTABLISH_IND") \/ Gets("ESTABLISH_CNF") THEN "UP"
               ELSE view

Task0 ==
  /\ DLTask
  /\ RRGets(rrView)
  /\ UNCHANGED <<net, up, down, last, handed, given, carried>>

-----------------------------------------------------------------------------
(* RR. *)

RRStep(view) ==
  /\ UNCHANGED signals
  /\ RRGets(view)
  /\ UNCHANGED <<net, up, down, last, carried>>

\* RR asks for the link until the network has taken it up.
RREstablishes ==
  /\ rrView = "DOWN" /\ net.st = "IDLE" /\ signals = <<>>
  /\ dcch0_establish_req(EstMsg)
  /\ RRStep("ASKED") /\ UNCHANGED <<handed, given>>

\* RR hands over its next message; a full store loses it.
RRSends ==
  /\ rrView = "UP" /\ handed < Len(Uplink0)
  /\ LET m == Uplink0[handed + 1]
     IN /\ data_req(m)
        /\ IF queue' = queue THEN UNCHANGED <<handed, given>>
           ELSE handed' = handed + 1 /\ given' = given \o Segments(m)
  /\ RRStep(rrView)

\* RR asks once.
RRReleases ==
  /\ RRCloses /\ rrView = "UP"
  /\ release_req(<<>>, rel)
  /\ RRStep("CLOSING") /\ UNCHANGED <<handed, given>>

Mobile  == Receives \/ Opportunity \/ Task0 \/ RREstablishes \/ RRSends \/ RRReleases
Network == NetReceives \/ NetSends \/ NetRepeats \/ NetReleases

LinkNext == Mobile \/ Network \/ LoseUp \/ LoseDown
LinkSpec == LinkInit /\ [][LinkNext]_allVars

\* Opportunities come with the TDMA frames and a frame that is not lost
\* arrives, however often the network sends meanwhile; the DL task and layer 1
\* do their work.
LinkFairness ==
  /\ SF_allVars(Opportunity) /\ SF_allVars(NetReceives)
  /\ WF_allVars(Receives) /\ WF_allVars(Task0)

FairLinkSpec == LinkSpec /\ LinkFairness

-----------------------------------------------------------------------------
(* Properties. *)

Service == INSTANCE DlService
             WITH Messages <- {Uplink0[i] : i \in DOMAIN Uplink0}, Segments <- Segments,
                  Confirms <- Cnf, NetMessages <- Down

\* The link is a reliable link: whatever frames are lost, what the network
\* receives is what RR handed over, in order and once, what RR is indicated
\* is what the network sent, and a DL_DATA_CNF (drr_dl_data_cnf) comes after
\* its message, for frames sent, acknowledged and repeated by dl_state.c.
ReliableLink == Service!Spec

\* What drr_dl_data_cnf says in its PURPOSE, "Indicates the acknowledgement
\* of an uplinked message": RR gets no DL_DATA_CNF for a message of which the
\* network has not received every segment.
ConfirmedIsDelivered ==
  \A i \in DOMAIN confirmed : \A k \in DOMAIN Segments(confirmed[i]) :
    \E j \in DOMAIN carried : carried[j] = Segments(confirmed[i])[k]

\* An I frame that is not yet acknowledged is repeated: while it is
\* outstanding in state MFE, T200 runs or is about to be started (dl_uplink).
OutstandingIsTimed ==
  state = "MFE" /\ cch.vs # cch.va => Timed

\* uplink_timer_recovery sends "repetition of the last frame" (dl_uplink): the
\* command that polls the network is the last I frame, with the same N(S),
\* segment and M bit.
RepeatsLastFrame ==
  [][Opportunity /\ l2_frame' # None /\ l2_frame'.type = "I" /\ l2_frame'.pf
       => /\ last # None
          /\ l2_frame'.ns = last.ns /\ l2_frame'.info = last.info /\ l2_frame'.m = last.m
    ]_allVars

\* RR and the entity agree on the link: when the entity has left it, the
\* DL_RELEASE_IND or DL_RELEASE_CNF that tells RR is on its way (the signal or
\* the delayed indication), and when RR was told so the entity has left the
\* link or is about to send a DISC.
AgreesWithRR ==
  /\ state = "IDLE" /\ rrView # "DOWN"
       => \/ rel.pending
          \/ \E i \in DOMAIN signals :
               signals[i].name \in {"RELEASE_IND", "RELEASE_CNF", "ERROR_IND"}
  /\ rrView = "DOWN" => state \notin {"CONTENTION", "MFE", "RECOVERY"} \/ disc_request

\* "Layer 2 has enough time for at least two DISC frames" (dat_disconnect_link
\* of rr_datf.c): a DISC that is not answered is repeated, so while the
\* release is awaited T200 runs, or is about to be started with the DISC, or
\* the UA that ends the link is about to be sent.
DiscIsRepeated ==
  state = "RELEASE" => Timed \/ cch.vtx = "UA"

\* A release that is asked for, by RR or by a CHANNEL RELEASE, or that the
\* network starts, ends: RR is told.
ReleaseTold ==
  disc_request \/ state \in {"RELEASE", "IDLE"} ~> rrView = "DOWN"

\* What RR handed over reaches the network, or the link is given up
\* (T200_expiry after N200 repetitions).
Delivers == given # <<>> ~> (carried = given \/ state \notin {"MFE", "RECOVERY"})
=============================================================================
