------------------------------- MODULE MCFfs -------------------------------
(* Small instances of Ffs. *)
EXTENDS Ffs

CONSTANT Warm      \* how many writes precede a behaviour, for each start

\* A formatted file system in which file a was written k times, then b once.
Preformatted ==
  LET blank == [f |-> [b \in Blocks |-> BlankBlock], r |-> NoRam, w |-> <<>>, v |-> 0]
  IN FoldLeft(LAMBDA s, b : block_preformat([s EXCEPT !.r.age_max = 1], b, 0), blank,
              [b \in Blocks |-> b])
Formatted == fs_format([Preformatted EXCEPT !.r.initerror = FALSE])
A == CHOOSE n \in Names : TRUE
B == CHOOSE n \in Names : n # A
Write(s, n, v) == Do([s EXCEPT !.w = <<>>], Request("write", n, n, v))
Aged(s, k) == FoldLeft(LAMBDA t, n : Write(t, A, 1 + (n % 2)), s, [n \in 1..k |-> n])
Used(k) == Write(Aged(Boot(Formatted.f), k), B, 1).f
MCStart == {Used(k) : k \in Warm}

=============================================================================
