----------------------------- MODULE MCSmsRelay -----------------------------
(* Small instances of SmsRelay: two transaction identifiers of each side.  *)
EXTENDS SmsRelay

=============================================================================
