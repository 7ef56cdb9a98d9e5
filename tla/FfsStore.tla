----------------------------- MODULE FfsStore ------------------------------
(***************************************************************************)
(* What the flash file system promises: a set of files that survives a     *)
(* loss of power at any moment.  A request takes effect at one moment, as  *)
(* a whole, and when it is answered it has taken effect if and only if the *)
(* answer says so.  A request that a power failure interrupts has taken    *)
(* effect or not.                                                          *)
(***************************************************************************)
CONSTANTS
  Files,           \* the possible contents of the file system
  Requests,        \* requests, without NoRequest
  NoRequest,
  Effect(_, _)     \* the contents after a request

VARIABLES
  files,           \* the contents
  request,         \* the request being worked on
  before,          \* the contents when it was made
  answer           \* the last answer: "ok", "failed"

storeVars == <<files, request, before, answer>>

Ask(q) ==
  /\ request = NoRequest
  /\ request' = q
  /\ before' = files
  /\ UNCHANGED <<files, answer>>

TakeEffect ==
  /\ request # NoRequest
  /\ files = before
  /\ files' = Effect(before, request)
  /\ UNCHANGED <<request, before, answer>>

Answer(a) ==
  /\ request # NoRequest
  /\ files = IF a = "ok" THEN Effect(before, request) ELSE before
  /\ answer' = a
  /\ request' = NoRequest
  /\ UNCHANGED <<files, before>>

Interrupt ==
  /\ request' = NoRequest
  /\ UNCHANGED <<files, before, answer>>

StoreInit == files \in Files /\ request = NoRequest /\ before = files /\ answer = "ok"

StoreNext ==
  \/ \E q \in Requests : Ask(q)
  \/ TakeEffect
  \/ \E a \in {"ok", "failed"} : Answer(a)
  \/ Interrupt

StoreSpec == StoreInit /\ [][StoreNext]_storeVars

=============================================================================
