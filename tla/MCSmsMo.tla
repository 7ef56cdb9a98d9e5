------------------------------- MODULE MCSmsMo ------------------------------
(* Small instances of SmsMo. *)
EXTENDS SmsMo

=============================================================================
