----------------------------- MODULE MCDlEntity -----------------------------
(***************************************************************************)
(* Instances of DlEntity for TLC: the network sends any frame of a small   *)
(* set in any state.                                                       *)
(***************************************************************************)
EXTENDS DlEntity

CONSTANTS a, rel_msg

One == [m \in Msgs |-> 1]
Two == [m \in Msgs |-> 2]

S(t, cmd, pf, nr) == [type |-> t, cmd |-> cmd, pf |-> pf, nr |-> nr, ns |-> 0,
                      info |-> None, m |-> FALSE]
U(t, cmd, pf, info) == [S(t, cmd, pf, 0) EXCEPT !.info = info]
I(nr, ns, p, info, m) == [S("I", TRUE, p, nr) EXCEPT !.ns = ns, !.info = info, !.m = m]

UFrames ==
  {U("SABM", TRUE, TRUE, None), U("DISC", TRUE, TRUE, None), U("DM", FALSE, TRUE, None),
   U("DM", FALSE, FALSE, None), U("UA", FALSE, TRUE, None), U("UA", FALSE, TRUE, a)}

SmallFrames ==
  UFrames \cup {S("RR", cmd, TRUE, nr) : cmd \in BOOLEAN, nr \in {0, 1}}
  \cup {S("REJ", cmd, TRUE, 0) : cmd \in BOOLEAN}
  \cup {I(0, 0, FALSE, rel_msg, FALSE), I(1, 0, TRUE, rel_msg, FALSE)}

\* The link is set up and used, and the network polls.
FewFrames ==
  {U("UA", FALSE, TRUE, a), U("UA", FALSE, TRUE, None), S("RR", TRUE, TRUE, 0),
   I(0, 0, FALSE, rel_msg, FALSE)}

\* The network takes the link up and rejects what it did not expect.
HandoverFrames ==
  {U("UA", FALSE, TRUE, a), U("UA", FALSE, TRUE, None), S("REJ", FALSE, FALSE, 0),
   S("RR", FALSE, FALSE, 1)}
=============================================================================
