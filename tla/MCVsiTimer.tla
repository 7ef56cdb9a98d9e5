----------------------------- MODULE MCVsiTimer -----------------------------
(* Small instances of VsiTimer. *)
EXTENDS VsiTimer, TLC

CONSTANTS t1, t2, a, b, c

TwoAndOne == (a :> t1) @@ (b :> t2) @@ (c :> t2)
Once == (a :> {2}) @@ (b :> {1, 3}) @@ (c :> {1})
Again == (a :> {}) @@ (b :> {}) @@ (c :> {2})

=============================================================================
