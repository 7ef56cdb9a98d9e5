---------------------------- MODULE TimerService ----------------------------
(***************************************************************************)
(* What the timers of the GPF frame promise an entity: a timer that was    *)
(* started expires when its time has passed and not before, the entity is  *)
(* told once for it, and never of a timer that it has stopped or started   *)
(* again meanwhile.  Expiries of a periodic timer that the entity has not  *)
(* been told of yet are told as one.                                       *)
(***************************************************************************)
EXTENDS Naturals

CONSTANTS
  Timers,
  NoTimer,
  Ticks            \* times a timer may be started with, and 0

VARIABLES
  left,            \* ticks until a timer may expire, or NoTimer
  period,          \* ticks between two expiries, 0 for a timer that expires once
  due,             \* expired, and the entity is not told yet
  told             \* the timer the entity is told of in this step, or NoTimer

serviceVars == <<left, period, due, told>>

Start(i, v, p) ==
  /\ left' = [left EXCEPT ![i] = v]
  /\ period' = [period EXCEPT ![i] = p]
  /\ ~due[i] /\ UNCHANGED due
  /\ told' = NoTimer

\* A start takes back what the entity has not been told yet.
Withdraw(i) == due' = [due EXCEPT ![i] = FALSE] /\ told' = NoTimer /\ UNCHANGED <<left, period>>

\* So does a stop, and it ends the timer.
Stop(i) ==
  /\ left' = [left EXCEPT ![i] = NoTimer]
  /\ period' = [period EXCEPT ![i] = 0]
  /\ due' = [due EXCEPT ![i] = FALSE]
  /\ told' = NoTimer

Tick ==
  /\ left' = [i \in Timers |-> IF left[i] \in {0, NoTimer} THEN left[i] ELSE left[i] - 1]
  /\ told' = NoTimer
  /\ UNCHANGED <<period, due>>

Expire(i) ==
  /\ left[i] = 0
  /\ due' = [due EXCEPT ![i] = TRUE]
  /\ left' = [left EXCEPT ![i] = IF period[i] = 0 THEN NoTimer ELSE period[i]]
  /\ told' = NoTimer
  /\ UNCHANGED period

Deliver(i) ==
  /\ due[i]
  /\ due' = [due EXCEPT ![i] = FALSE]
  /\ told' = i
  /\ UNCHANGED <<left, period>>

Nothing == told' = NoTimer /\ UNCHANGED <<left, period, due>>

ServiceInit ==
  /\ left = [i \in Timers |-> NoTimer]
  /\ period = [i \in Timers |-> 0]
  /\ due = [i \in Timers |-> FALSE]
  /\ told = NoTimer

ServiceNext ==
  \/ \E i \in Timers : Withdraw(i) \/ Stop(i) \/ Expire(i) \/ Deliver(i)
  \/ \E i \in Timers, v, p \in Ticks : Start(i, v, p)
  \/ Tick
  \/ Nothing

ServiceSpec == ServiceInit /\ [][ServiceNext]_serviceVars

=============================================================================
