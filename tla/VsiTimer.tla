------------------------------ MODULE VsiTimer ------------------------------
(***************************************************************************)
(* The timers of the GPF frame: vsi_tim.c above, os_tim_ir.c below, and    *)
(* the timeout messages between them.  Tasks start and stop the timers of  *)
(* their entities.  All running timers are in one list, each with the      *)
(* ticks it expires after the one before it; one timer of the kernel runs  *)
(* for the head.  When it expires, os_Timeout() runs as a high level       *)
(* interrupt (HISR), takes the expired timers from the list and puts a     *)
(* message for each into the queue of its task.  The tasks change the list *)
(* under a semaphore and with the flag t_list_access, which makes          *)
(* os_Timeout() come again a tick later.                                   *)
(*                                                                         *)
(* A task is preempted by ticks and by other tasks between any two of its  *)
(* steps; the HISR is not.  The clock is only ever used as the difference  *)
(* to t_start_ticks, which is variable elapsed.  Left out: the timer       *)
(* configuration of the test interface, and starts from interrupts.  What  *)
(* a free handle, or one that is not in the list, still holds is not used  *)
(* and is cleared here.                                                    *)
(***************************************************************************)
EXTENDS Integers, Sequences, SequencesExt

CONSTANTS
  Timers,          \* timers of the entities (FirstTimerEntry + TimerIndex)
  Tasks,
  Owner,           \* the task of a timer
  MaxSimultaneousTimer,
  Values,          \* of a timer: times in ticks it is started with
  Periods,         \* of a timer: periods in ticks, when it is used as a periodic timer
  Wrap,            \* the arithmetic is modulo this (2^32)
  MaxQueued,       \* bound: timeout messages in a queue
  MaxLate,         \* bound: ticks between a task's reading the clock and using it
  RestartRace,     \* a timer may expire in the middle of its restart
  None

Handles == 1 .. MaxSimultaneousTimer
Ticks == {0} \cup UNION {Values[i] \cup Periods[i] : i \in Timers}

\* What a task is at: a start with its times, or a stop.
Ops == [kind : {"start", "stop"}, i : Timers, v : Ticks, p : Ticks]

ASSUME TimerAssumption ==
  /\ MaxSimultaneousTimer \in Nat /\ Wrap \in Nat \ {0} /\ MaxQueued \in Nat /\ MaxLate \in Nat
  /\ Owner \in [Timers -> Tasks]
  /\ Values \in [Timers -> SUBSET (0 .. Wrap - 1)]
  /\ Periods \in [Timers -> SUBSET (1 .. Wrap - 1)]
  /\ RestartRace \in BOOLEAN
  /\ None \notin Timers \cup Tasks \cup Nat \cup Ops

VARIABLES
  handle,          \* of a timer, 0 for none: TIMER_HANDLE_MASK of its entry
  periodic,        \* PERIODIC_TIMER of the entry
  occurred,        \* TIMEOUT_OCCURRED of the entry
  status,          \* of a handle: "FREE", "USED", "ACTIVE"
  t_index,         \* timer of a handle
  p_ticks,         \* period of a handle
  r_ticks,         \* ticks after the one before it in the list
  list,            \* running timers, t_running first
  elapsed,         \* NU_Retrieve_Clock() - t_start_ticks
  nu,              \* ticks until os_timer_cb expires, 0 when it is disabled
  t_list_access,
  sem,             \* holder of TimSemCB
  passed,          \* ticks since the holder came to the step it is at, up to MaxLate
  hisr,            \* os_Timeout(): "off", "timeout": taking timers from the list,
                   \* "again": starting the periodic ones again
  p_list,          \* periodic timers os_Timeout() is to start again
  queue,           \* MSG_TIMEOUT messages of a task
  pc, op,          \* where a task is, in which operation
  told,            \* timer whose pei_timeout() is called in this step
  left, period     \* history: ticks until a timer may expire; its period

entries == <<handle, periodic, occurred>>
table   == <<status, t_index, p_ticks>>
running == <<list, r_ticks, elapsed, nu>>
locks   == <<t_list_access, sem, passed>>
tasks   == <<pc, op>>
asked   == <<left, period>>
vars == <<entries, table, running, locks, hisr, p_list, queue, tasks, told, asked>>

TimerInit ==
  /\ handle = [i \in Timers |-> 0]
  /\ periodic = [i \in Timers |-> FALSE]
  /\ occurred = [i \in Timers |-> FALSE]
  /\ status = [h \in Handles |-> "FREE"]
  /\ t_index = [h \in Handles |-> None]
  /\ p_ticks = [h \in Handles |-> 0]
  /\ r_ticks = [h \in Handles |-> 0]
  /\ list = <<>> /\ elapsed = 0 /\ nu = 0
  /\ t_list_access = FALSE /\ sem = None /\ passed = 0
  /\ hisr = "off" /\ p_list = <<>>
  /\ queue = [t \in Tasks |-> <<>>]
  /\ pc = [t \in Tasks |-> "ready"]
  /\ op = [t \in Tasks |-> None]
  /\ told = None
  /\ left = [i \in Timers |-> None]
  /\ period = [i \in Timers |-> 0]

----------------------------------------------------------------------------
(* The list of running timers.  The clock was read late ticks ago: the code's         *)
(* c_ticks - t_start_ticks is ClockRead(late).  Of the unsigned arithmetic only the   *)
(* borrow matters, sums of times stay far below 2^32 ticks.                           *)

Unsigned(x) == IF x < 0 THEN x + Wrap ELSE x
ClockRead(late) == Unsigned(elapsed - late)

\* A timer behind the head that is taken out leaves its ticks to the one after it.
Leaving_Dropped(k) == [r_ticks EXCEPT ![list[k]] = 0]
Leaving(k) ==
  IF k = Len(list) THEN [r_ticks EXCEPT ![list[k]] = 0]
  ELSE [r_ticks EXCEPT ![list[k + 1]] = @ + r_ticks[list[k]], ![list[k]] = 0]

\* os_remove_timer_from_list() for the timer at position k.  For the head the kernel
\* timer is started for the next one, unless that one has no ticks to go.
os_remove_timer_from_list(k, late) ==
  LET h == list[k]
      n == list[IF Len(list) = 1 THEN 1 ELSE 2]
      rest == Unsigned(r_ticks[h] + r_ticks[n] - ClockRead(late))
  IN /\ list' = RemoveAt(list, k)
     /\ IF k # 1
          THEN r_ticks' = Leaving(k) /\ UNCHANGED <<elapsed, nu>>
        ELSE IF Len(list) = 1
          THEN elapsed' = 0 /\ nu' = 0 /\ r_ticks' = [r_ticks EXCEPT ![h] = 0]
        ELSE /\ r_ticks' = [r_ticks EXCEPT ![n] = rest, ![h] = 0]
             /\ elapsed' = late
             /\ nu' = rest
     /\ status' = [status EXCEPT ![h] = "USED"]

\* The while loop of os_add_timer_to_list(): the ticks a timer has left after it has passed
\* the first m in the list, and its place, before the first one that expires later.
TicksAfter(r, ticks) ==
  LET after[m \in 0 .. Len(list)] == IF m = 0 THEN ticks ELSE after[m - 1] - r[list[m]]
  IN after
Place_Anywhere(r, ticks) ==
  {p \in (2 .. Len(list) + 1) \X (0 .. ticks) : p[2] = TicksAfter(r, ticks)[p[1] - 1]}
Place(r, ticks) ==
  {p \in (2 .. Len(list) + 1) \X (0 .. ticks) :
     /\ p[2] = TicksAfter(r, ticks)[p[1] - 1]
     /\ p[1] <= Len(list) => p[2] < r[list[p[1]]]}

\* os_add_timer_to_list(), and the start of the kernel timer when there is a new head.
AddTicks(h, ticks, late) ==
  LET head == list[1]
      wait == IF r_ticks[head] >= ClockRead(late) THEN r_ticks[head] - ClockRead(late) ELSE 0
      r == [r_ticks EXCEPT ![head] = wait]
  IN /\ IF list = <<>>
          THEN /\ list' = <<h>>
               /\ r_ticks' = [r_ticks EXCEPT ![h] = ticks]
               /\ nu' = ticks
        ELSE IF ticks < wait
          THEN /\ list' = InsertAt(list, 1, h)
               /\ r_ticks' = [r EXCEPT ![head] = @ - ticks, ![h] = ticks]
               /\ nu' = ticks
        ELSE \E p \in Place(r, ticks) :
               /\ list' = InsertAt(list, p[1], h)
               /\ r_ticks' = IF p[1] > Len(list) THEN [r EXCEPT ![h] = p[2]]
                             ELSE [r EXCEPT ![list[p[1]]] = @ - p[2], ![h] = p[2]]
               /\ UNCHANGED nu
     /\ elapsed' = late
     /\ status' = [status EXCEPT ![h] = "ACTIVE"]
os_add_timer_to_list(h, ticks, late) == AddTicks(h, IF ticks = 0 THEN 1 ELSE ticks, late)

----------------------------------------------------------------------------
(* The tasks                                                                *)

Quiet == told' = None /\ UNCHANGED <<hisr, p_list>>

\* vsi_t_start(), and vsi_t_pstart() with a period: get a handle, write the entry.  The
\* semaphore is held only while os_CreateTimer() is looking for one; without a free one
\* an assertion ends the system.
vsi_t_start(i, v, p) ==
  LET t == Owner[i] IN
  /\ hisr = "off" /\ pc[t] = "ready"
  /\ \/ handle[i] # 0 /\ UNCHANGED <<handle, status>>
     \/ /\ handle[i] = 0 /\ sem = None
        /\ \E h \in Handles :
             /\ status[h] = "FREE"
             /\ status' = [status EXCEPT ![h] = "USED"]
             /\ handle' = [handle EXCEPT ![i] = h]
  /\ periodic' = [periodic EXCEPT ![i] = p # 0]
  /\ occurred' = [occurred EXCEPT ![i] = FALSE]
  /\ op' = [op EXCEPT ![t] = [kind |-> "start", i |-> i, v |-> v, p |-> p]]
  /\ pc' = [pc EXCEPT ![t] = "obtain"]
  /\ Quiet
  /\ UNCHANGED <<t_index, p_ticks, running, locks, queue, asked>>

\* vsi_t_stop() of a timer that has a handle.
vsi_t_stop(i) ==
  LET t == Owner[i] IN
  /\ hisr = "off" /\ pc[t] = "ready"
  /\ handle[i] # 0
  /\ op' = [op EXCEPT ![t] = [kind |-> "stop", i |-> i, v |-> 0, p |-> 0]]
  /\ pc' = [pc EXCEPT ![t] = "obtain"]
  /\ Quiet
  /\ UNCHANGED <<entries, table, running, locks, queue, asked>>

\* os_StartTimer() and os_StopTimer(): the semaphore, then the flag.
Obtain(t) ==
  /\ hisr = "off" /\ pc[t] = "obtain"
  /\ sem = None
  /\ sem' = t
  /\ t_list_access' = (status[handle[op[t].i]] # "FREE")
  /\ pc' = [pc EXCEPT ![t] = IF t_list_access' THEN "remove" ELSE "release"]
  /\ Quiet
  /\ UNCHANGED <<entries, table, running, passed, queue, op, asked>>

RemoveTimer(t) ==
  LET h == handle[op[t].i] IN
  /\ hisr = "off" /\ pc[t] = "remove"
  /\ \/ \E k \in 1 .. Len(list), late \in 0 .. passed :
          list[k] = h /\ os_remove_timer_from_list(k, late)
     \/ status[h] # "ACTIVE" /\ UNCHANGED <<running, status>>
  /\ left' = [left EXCEPT ![op[t].i] = None]
  /\ period' = [period EXCEPT ![op[t].i] = 0]
  /\ passed' = 0
  /\ pc' = [pc EXCEPT ![t] = IF op[t].kind = "start" THEN "add" ELSE "release"]
  /\ Quiet
  /\ UNCHANGED <<entries, t_index, p_ticks, t_list_access, sem, queue, op>>

AddTimer(t) ==
  LET o == op[t]
      h == handle[o.i]
  IN
  /\ hisr = "off" /\ pc[t] = "add"
  /\ t_index' = [t_index EXCEPT ![h] = o.i]
  /\ p_ticks' = [p_ticks EXCEPT ![h] = o.p]
  /\ \E late \in 0 .. passed : os_add_timer_to_list(h, o.v, late)
  /\ left' = [left EXCEPT ![o.i] = o.v]
  /\ period' = [period EXCEPT ![o.i] = o.p]
  /\ passed' = 0
  /\ pc' = [pc EXCEPT ![t] = "release"]
  /\ Quiet
  /\ UNCHANGED <<entries, t_list_access, sem, queue, op>>

Release(t) ==
  /\ hisr = "off" /\ pc[t] = "release"
  /\ t_list_access' = FALSE /\ sem' = None
  /\ pc' = [pc EXCEPT ![t] = IF op[t].kind = "start" THEN "ready" ELSE "destroy"]
  /\ op' = [op EXCEPT ![t] = IF op[t].kind = "start" THEN None ELSE @]
  /\ Quiet
  /\ UNCHANGED <<entries, table, running, passed, queue, asked>>

\* os_DestroyTimer() and the clearing of the entry.
DestroyTimer_Kept(i) ==
  /\ handle' = [handle EXCEPT ![i] = 0]
  /\ periodic' = [periodic EXCEPT ![i] = FALSE]
  /\ occurred' = [occurred EXCEPT ![i] = FALSE]
  /\ UNCHANGED table
DestroyTimer(i) ==
  LET freed == {h \in Handles : h = handle[i] /\ status[h] = "USED"} IN
  /\ sem = None
  /\ status' = [h \in Handles |-> IF h \in freed THEN "FREE" ELSE status[h]]
  /\ t_index' = [h \in Handles |-> IF h \in freed THEN None ELSE t_index[h]]
  /\ p_ticks' = [h \in Handles |-> IF h \in freed THEN 0 ELSE p_ticks[h]]
  /\ handle' = [handle EXCEPT ![i] = 0]
  /\ periodic' = [periodic EXCEPT ![i] = FALSE]
  /\ occurred' = [occurred EXCEPT ![i] = FALSE]

\* The end of vsi_t_stop().
Stopped(t) ==
  /\ hisr = "off" /\ pc[t] = "destroy"
  /\ DestroyTimer(op[t].i)
  /\ pc' = [pc EXCEPT ![t] = "ready"]
  /\ op' = [op EXCEPT ![t] = None]
  /\ Quiet
  /\ UNCHANGED <<running, locks, queue, asked>>

\* pf_HandleMessage() for a MSG_TIMEOUT, and pei_timeout().  A message that is not that of
\* the last expiry of its timer is dropped.
HandleTimeout(t) ==
  /\ hisr = "off" /\ pc[t] = "ready"
  /\ queue[t] # <<>>
  /\ queue' = [queue EXCEPT ![t] = Tail(@)]
  /\ LET i == Head(queue[t]) IN
     \/ ~occurred[i] /\ told' = None /\ UNCHANGED <<entries, table>>
     \/ /\ occurred[i] /\ told' = i
        /\ \/ ~periodic[i] /\ DestroyTimer(i)
           \/ /\ periodic[i]
              /\ occurred' = [occurred EXCEPT ![i] = FALSE]
              /\ UNCHANGED <<handle, periodic, table>>
  /\ UNCHANGED <<running, locks, hisr, p_list, tasks, asked>>

----------------------------------------------------------------------------
(* The clock and the HISR                                                   *)

\* The timers that are first in the list expire with the next tick, and one of them is
\* being started again: its entry is written, and it is still in the list.
ExpiresInRestart ==
  /\ nu = 1
  /\ \E n \in 1 .. Len(list), t \in Tasks :
       /\ \A m \in 2 .. n : r_ticks[list[m]] = 0
       /\ pc[t] = "obtain" /\ op[t].kind = "start" /\ handle[op[t].i] = list[n]

UsesClock == \E t \in Tasks : pc[t] \in {"remove", "add"}

\* A tick; the kernel timer expires.
Tick ==
  /\ hisr = "off"
  /\ \A t \in Tasks : Len(queue[t]) <= MaxQueued
  /\ ExpiresInRestart => RestartRace
  /\ elapsed' = IF list = <<>> THEN 0 ELSE elapsed + 1
  /\ nu' = IF nu = 0 THEN 0 ELSE nu - 1
  /\ hisr' = IF nu = 1 THEN "timeout" ELSE "off"
  /\ passed' = IF UsesClock /\ passed < MaxLate THEN passed + 1 ELSE passed
  /\ left' = [i \in Timers |-> IF left[i] \in {0, None} THEN left[i] ELSE left[i] - 1]
  /\ told' = None
  /\ UNCHANGED <<entries, table, list, r_ticks, t_list_access, sem, p_list, queue, tasks, period>>

\* os_Timeout() while a task is changing the list.
Postpone_Unshifted ==
  /\ hisr = "timeout" /\ t_list_access
  /\ nu' = 1
  /\ hisr' = "off"
  /\ told' = None
  /\ UNCHANGED <<entries, table, list, r_ticks, elapsed, locks, p_list, queue, tasks, asked>>
Postpone ==
  /\ hisr = "timeout" /\ t_list_access
  /\ elapsed' = elapsed - 1
  /\ nu' = 1
  /\ hisr' = "off"
  /\ told' = None
  /\ UNCHANGED <<entries, table, list, r_ticks, locks, p_list, queue, tasks, asked>>

Restarting(pl) == IF pl = <<>> THEN "off" ELSE "again"

\* A round of the loop of os_Timeout() with pf_Timeout(): the head expires.  The loop goes
\* on while the next timer expires with it.
os_Timeout ==
  LET h == Head(list)
      i == t_index[h]
      rest == Tail(list)
      more == rest # <<>> /\ r_ticks[Head(rest)] = 0
  IN
  /\ hisr = "timeout" /\ ~t_list_access
  /\ list' = rest
  /\ r_ticks' = [r_ticks EXCEPT ![h] = 0]
  /\ elapsed' = IF more THEN elapsed ELSE 0
  /\ nu' = IF more \/ rest = <<>> THEN 0 ELSE r_ticks[Head(rest)]
  /\ status' = [status EXCEPT ![h] = "USED"]
  /\ p_list' = IF p_ticks[h] # 0 THEN Append(p_list, h) ELSE p_list
  /\ hisr' = IF more THEN "timeout" ELSE Restarting(p_list')
  /\ occurred' = [occurred EXCEPT ![i] = TRUE]
  /\ queue' = [queue EXCEPT ![Owner[i]] = Append(@, i)]
  /\ left' = [left EXCEPT ![i] = IF period[i] = 0 THEN None ELSE period[i]]
  /\ told' = None
  /\ UNCHANGED <<handle, periodic, t_index, p_ticks, locks, tasks, period>>

\* Its last loop: the periodic timers start again.
StartAgain ==
  /\ hisr = "again"
  /\ os_add_timer_to_list(Head(p_list), p_ticks[Head(p_list)], 0)
  /\ p_list' = Tail(p_list)
  /\ hisr' = Restarting(p_list')
  /\ told' = None
  /\ UNCHANGED <<entries, t_index, p_ticks, locks, queue, tasks, asked>>

TimerNext ==
  \/ \E i \in Timers :
       \/ \E v \in Values[i], p \in Periods[i] \cup {0} : vsi_t_start(i, v, p)
       \/ vsi_t_stop(i)
  \/ \E t \in Tasks :
       \/ Obtain(t) \/ RemoveTimer(t) \/ AddTimer(t) \/ Release(t)
       \/ Stopped(t)
       \/ HandleTimeout(t)
  \/ Tick
  \/ Postpone
  \/ os_Timeout
  \/ StartAgain

TimerSpec == TimerInit /\ [][TimerNext]_vars

----------------------------------------------------------------------------
(* Properties                                                               *)

TypeOK ==
  /\ handle \in [Timers -> Handles \cup {0}]
  /\ periodic \in [Timers -> BOOLEAN] /\ occurred \in [Timers -> BOOLEAN]
  /\ status \in [Handles -> {"FREE", "USED", "ACTIVE"}]
  /\ t_index \in [Handles -> Timers \cup {None}]
  /\ p_ticks \in [Handles -> Ticks]
  /\ r_ticks \in [Handles -> Nat]
  /\ list \in Seq(Handles) /\ p_list \in Seq(Handles)
  /\ elapsed \in Nat /\ nu \in Nat /\ passed \in 0 .. MaxLate
  /\ t_list_access \in BOOLEAN /\ hisr \in {"off", "timeout", "again"}
  /\ sem \in Tasks \cup {None}
  /\ queue \in [Tasks -> Seq(Timers)]
  /\ pc \in [Tasks -> {"ready", "obtain", "remove", "add", "release", "destroy"}]
  /\ op \in [Tasks -> Ops \cup {None}]
  /\ told \in Timers \cup {None}
  /\ left \in [Timers -> Nat \cup {None}] /\ period \in [Timers -> Ticks]

\* The kernel timer always runs for the head of the list, through insertions, removals and
\* postponements: when it is lost every timer of the telephone stands still.
NextIsArmed ==
  list # <<>> /\ hisr # "timeout" => nu # 0 /\ nu + elapsed = r_ticks[list[1]]

\* The handles in use are those of the entries, one each, and those in the list are the
\* active ones: none of the MAX_SIMULTANEOUS_TIMER leaks, none is used for two timers.
HandlesAccounted ==
  /\ \A h \in Handles : status[h] # "FREE" <=> \E i \in Timers : handle[i] = h
  /\ \A i, j \in Timers : handle[i] = handle[j] /\ handle[i] # 0 => i = j
  /\ \A h \in Handles : status[h] = "ACTIVE" <=> \E k \in 1 .. Len(list) : list[k] = h
  /\ \A k \in 1 .. Len(list) : handle[t_index[list[k]]] = list[k]

\* A timer that a stop has taken from the list is stopped, whatever its entry still says.
IsStopped(i) ==
  LET t == Owner[i] IN
  pc[t] \in {"release", "destroy"} /\ op[t].kind = "stop" /\ op[t].i = i

\* The entity is told of a timer exactly when it was promised, see TimerService.
Service == INSTANCE TimerService WITH
  NoTimer <- None,
  due     <- [i \in Timers |-> occurred[i] /\ ~IsStopped(i)]
TimersServed == Service!ServiceSpec

=============================================================================
