----------------------------- MODULE SmsService -----------------------------
(***************************************************************************)
(* What the submission of short messages promises the user: one message is *)
(* submitted at a time, and it is confirmed as sent only after the service *)
(* centre accepted that very message.  A confirmed failure promises        *)
(* nothing: the message may have been accepted, or may still be.           *)
(***************************************************************************)
CONSTANTS
  Messages,        \* the messages
  NoMessage

VARIABLES
  pending,         \* the message being submitted, or NoMessage
  accepted,        \* the messages the service centre accepted
  sent             \* the messages confirmed as sent

serviceVars == <<pending, accepted, sent>>

Submit(n) == pending = NoMessage /\ pending' = n /\ UNCHANGED <<accepted, sent>>

Accept(n) == accepted' = accepted \cup {n} /\ UNCHANGED <<pending, sent>>

ConfirmSent ==
  /\ pending \in accepted
  /\ sent' = sent \cup {pending}
  /\ pending' = NoMessage
  /\ UNCHANGED accepted

ConfirmFailed == pending # NoMessage /\ pending' = NoMessage /\ UNCHANGED <<accepted, sent>>

ServiceInit == pending = NoMessage /\ accepted = {} /\ sent = {}

ServiceNext ==
  \/ \E n \in Messages : Submit(n) \/ Accept(n)
  \/ ConfirmSent
  \/ ConfirmFailed

ServiceSpec == ServiceInit /\ [][ServiceNext]_serviceVars

=============================================================================
