------------------------------- MODULE MCSmsMt ------------------------------
(* Small instances of SmsMt. *)
EXTENDS SmsMt

=============================================================================
