--------------------------- MODULE VsiTimer_proofs ---------------------------
(***************************************************************************)
(* Theorems about the timers, for any number of timers, tasks and handles  *)
(* and any times: no handle leaks and the kernel timer runs for the head   *)
(* of the list, as long as the clock is read and used within a tick and no *)
(* timer expires in the middle of its own restart.                         *)
(***************************************************************************)
EXTENDS VsiTimer, SequenceTheorems, FiniteSetTheorems, WellFoundedInduction, TLAPS

\* The two assumptions about time.
Punctual == MaxLate = 0 /\ RestartRace = FALSE

----------------------------------------------------------------------------
(* The inductive invariant                                                  *)

\* The timer a task is working at, and its handle.
Timer(t) == op[t].i
Handle(t) == handle[Timer(t)]
Starts(t) == op[t].kind = "start"

\* A task at work has an operation on one of its timers, which has a handle.
Works(t) ==
  /\ pc[t] = "ready" <=> op[t] = None
  /\ pc[t] # "ready" => op[t] \in Ops /\ Owner[Timer(t)] = t /\ Handle(t) # 0
  /\ pc[t] = "add" => Starts(t)
  /\ pc[t] = "destroy" => ~Starts(t)
WorkInv == \A t \in Tasks : Works(t)

\* The task in the list has the semaphore and the flag; the HISR then only comes again.
LockInv ==
  /\ \A t \in Tasks : pc[t] \in {"remove", "add", "release"} <=> sem = t
  /\ t_list_access <=> sem # None
  /\ passed = 0
  /\ hisr = "off" => p_list = <<>>
  /\ hisr = "again" => p_list # <<>> /\ ~t_list_access
  /\ hisr = "timeout" /\ t_list_access => p_list = <<>>

\* The list holds each active handle once.
ListInv ==
  /\ \A j, k \in 1 .. Len(list) : list[j] = list[k] => j = k
  /\ \A k \in 1 .. Len(list) : t_index[list[k]] \in Timers

\* What a start has written stays until the timer is in the list, and a handle that was
\* taken from the list stays out of it.
KeepsEntry(t) ==
  /\ pc[t] \in {"obtain", "remove", "add"} /\ Starts(t) =>
       ~occurred[Timer(t)] /\ (periodic[Timer(t)] <=> op[t].p # 0)
  /\ pc[t] = "add" => status[Handle(t)] = "USED"
  /\ pc[t] \in {"release", "destroy"} /\ ~Starts(t) => status[Handle(t)] = "USED"
EntryInv == \A t \in Tasks : KeepsEntry(t)

BeingStarted(i) ==
  LET t == Owner[i] IN pc[t] \in {"obtain", "remove"} /\ Starts(t) /\ Timer(t) = i

\* A timer that has expired for good is not in the list, and in the list the periodic
\* timers are those that the entries call so.
ExpiredInv ==
  \A i \in Timers :
    occurred[i] => handle[i] # 0 /\ (~periodic[i] => status[handle[i]] = "USED")
PeriodicInv ==
  \A k \in 1 .. Len(list) :
    LET i == t_index[list[k]] IN ~BeingStarted(i) => (p_ticks[list[k]] # 0 <=> periodic[i])

\* The timers that are to be started again are still those of their entries.
AgainInv ==
  /\ \A j, k \in 1 .. Len(p_list) : p_list[j] = p_list[k] => j = k
  /\ \A k \in 1 .. Len(p_list) :
       /\ status[p_list[k]] = "USED" /\ p_ticks[p_list[k]] # 0
       /\ t_index[p_list[k]] \in Timers
       /\ handle[t_index[p_list[k]]] = p_list[k]
       /\ periodic[t_index[p_list[k]]] /\ ~BeingStarted(t_index[p_list[k]])
       /\ \A t \in Tasks : pc[t] = "destroy" => Handle(t) # p_list[k]

\* The kernel timer and the reference time fit the head.
ArmedInv ==
  /\ NextIsArmed
  /\ hisr = "timeout" =>
       list # <<>> /\ nu = 0 /\ (t_list_access => elapsed = r_ticks[list[1]] /\ elapsed # 0)
  /\ list = <<>> => nu = 0 /\ elapsed = 0

\* None of the timers that are expiring is being started.
RestartInv ==
  hisr = "timeout" /\ ~t_list_access =>
    \A n \in 1 .. Len(list) :
      (\A m \in 2 .. n : r_ticks[list[m]] = 0) =>
        \A t \in Tasks : ~(pc[t] = "obtain" /\ Starts(t) /\ Handle(t) = list[n])

\* A timeout message is in the queue of the task of its timer.
QueueInv == \A t \in Tasks : \A m \in 1 .. Len(queue[t]) : Owner[queue[t][m]] = t

TimerInv ==
  /\ TypeOK /\ HandlesAccounted /\ QueueInv
  /\ WorkInv /\ LockInv /\ ListInv /\ EntryInv /\ ExpiredInv /\ PeriodicInv
  /\ AgainInv /\ ArmedInv /\ RestartInv

----------------------------------------------------------------------------
(* The steps                                                                *)

\* The times of the timers are numbers.
LEMMA TickTypes ==
  /\ Ticks \subseteq Nat /\ 0 \in Ticks
  /\ \A i \in Timers : Values[i] \subseteq Ticks /\ Periods[i] \subseteq Ticks
<1>1. \A i \in Timers : Values[i] \subseteq Nat /\ Periods[i] \subseteq Nat
  BY TimerAssumption
<1>2. 0 \in Ticks
  BY DEF Ticks
<1>3. \A i \in Timers : Values[i] \subseteq Ticks /\ Periods[i] \subseteq Ticks
  BY ZenonT(30) DEF Ticks
<1>4. \A x \in Ticks : x = 0 \/ \E i \in Timers : x \in Values[i] \/ x \in Periods[i]
  BY Zenon DEF Ticks
<1>5. Ticks \subseteq Nat
  BY <1>1, <1>4
<1> QED
  BY <1>2, <1>3, <1>5

\* What is known of the timer and the handle of a task at work.
LEMMA WorkTypes ==
  ASSUME TypeOK, WorkInv, NEW t \in Tasks, pc[t] # "ready"
  PROVE  /\ op[t] \in Ops /\ op[t] # None
         /\ Timer(t) \in Timers /\ Owner[Timer(t)] = t
         /\ Handle(t) \in Handles /\ Handle(t) # 0 /\ handle[Timer(t)] = Handle(t)
<1>1. op[t] \in Ops /\ Owner[Timer(t)] = t /\ Handle(t) # 0 /\ op[t] # None
  BY DEF WorkInv, Works
<1>2. Timer(t) \in Timers
  BY <1>1 DEF Ops, Timer
<1> QED
  BY <1>1, <1>2 DEF TypeOK, Handle

\* A sequence without its entry at a position, and with one more.
LEMMA RemoveAtFacts ==
  ASSUME NEW S, NEW s \in Seq(S), NEW k \in 1 .. Len(s)
  PROVE  /\ RemoveAt(s, k) \in Seq(S)
         /\ Len(RemoveAt(s, k)) = Len(s) - 1
         /\ \A m \in 1 .. Len(s) - 1 : RemoveAt(s, k)[m] = IF m < k THEN s[m] ELSE s[m + 1]
<1> DEFINE before == SubSeq(s, 1, k - 1)
           after == SubSeq(s, k + 1, Len(s))
<1>1. Len(s) \in Nat /\ k \in Nat /\ \A m \in 1 .. Len(s) : s[m] \in S
  OBVIOUS
<1>2. /\ before \in Seq(S) /\ Len(before) = k - 1
      /\ \A m \in 1 .. k - 1 : before[m] = s[m]
  <2>1. 1 \in Int /\ k - 1 \in Int /\ \A m \in 1 .. k - 1 : s[m] \in S
    BY <1>1
  <2>2. /\ before \in Seq(S) /\ Len(before) = IF 1 <= k - 1 THEN k - 1 - 1 + 1 ELSE 0
        /\ \A m \in 1 .. k - 1 - 1 + 1 : before[m] = s[1 + m - 1]
    BY <2>1, SubSeqProperties
  <2> HIDE DEF before
  <2> QED
    BY <1>1, <2>2
<1>3. /\ after \in Seq(S) /\ Len(after) = Len(s) - k
      /\ \A m \in 1 .. Len(s) - k : after[m] = s[k + m]
  <2>1. k + 1 \in Int /\ Len(s) \in Int /\ \A m \in k + 1 .. Len(s) : s[m] \in S
    BY <1>1
  <2>2. /\ after \in Seq(S) /\ Len(after) = IF k + 1 <= Len(s) THEN Len(s) - (k + 1) + 1 ELSE 0
        /\ \A m \in 1 .. Len(s) - (k + 1) + 1 : after[m] = s[k + 1 + m - 1]
    BY <2>1, SubSeqProperties
  <2> HIDE DEF after
  <2> QED
    BY <1>1, <2>2
<1> HIDE DEF before, after
<1>4. RemoveAt(s, k) = before \o after
  BY DEF RemoveAt, before, after
<1>5. /\ before \o after \in Seq(S) /\ Len(before \o after) = Len(before) + Len(after)
      /\ \A m \in 1 .. Len(before) + Len(after) :
           (before \o after)[m] = IF m <= Len(before) THEN before[m] ELSE after[m - Len(before)]
  BY <1>2, <1>3, ConcatProperties
<1> QED
  BY <1>1, <1>2, <1>3, <1>4, <1>5

\* The sequence v is s with e at the place k.
IsInserted(v, s, k, e) ==
  /\ Len(v) = Len(s) + 1
  /\ \A m \in 1 .. Len(s) + 1 : v[m] = IF m < k THEN s[m] ELSE IF m = k THEN e ELSE s[m - 1]

LEMMA InsertAtFacts ==
  ASSUME NEW S, NEW s \in Seq(S), NEW k \in 1 .. Len(s) + 1, NEW e \in S
  PROVE  InsertAt(s, k, e) \in Seq(S) /\ IsInserted(InsertAt(s, k, e), s, k, e)
<1> DEFINE before == SubSeq(s, 1, k - 1)
           after == SubSeq(s, k, Len(s))
           first == before \o <<e>>
<1>1. Len(s) \in Nat /\ k \in Nat /\ \A m \in 1 .. Len(s) : s[m] \in S
  OBVIOUS
<1>2. /\ before \in Seq(S) /\ Len(before) = k - 1
      /\ \A m \in 1 .. k - 1 : before[m] = s[m]
  <2>1. 1 \in Int /\ k - 1 \in Int /\ \A m \in 1 .. k - 1 : s[m] \in S
    BY <1>1
  <2>2. /\ before \in Seq(S) /\ Len(before) = IF 1 <= k - 1 THEN k - 1 - 1 + 1 ELSE 0
        /\ \A m \in 1 .. k - 1 - 1 + 1 : before[m] = s[1 + m - 1]
    BY <2>1, SubSeqProperties
  <2> HIDE DEF before
  <2> QED
    BY <1>1, <2>2
<1>3. /\ after \in Seq(S) /\ Len(after) = Len(s) - k + 1
      /\ \A m \in 1 .. Len(s) - k + 1 : after[m] = s[k + m - 1]
  <2>1. k \in Int /\ Len(s) \in Int /\ \A m \in k .. Len(s) : s[m] \in S
    BY <1>1
  <2>2. /\ after \in Seq(S) /\ Len(after) = IF k <= Len(s) THEN Len(s) - k + 1 ELSE 0
        /\ \A m \in 1 .. Len(s) - k + 1 : after[m] = s[k + m - 1]
    BY <2>1, SubSeqProperties
  <2> HIDE DEF after
  <2> QED
    BY <1>1, <2>2
<1>4. InsertAt(s, k, e) = first \o after
  BY DEF InsertAt
<1> HIDE DEF before, after
<1>5. <<e>> \in Seq(S) /\ Len(<<e>>) = 1 /\ <<e>>[1] = e
  OBVIOUS
<1>6. /\ first \in Seq(S) /\ Len(first) = k
      /\ \A m \in 1 .. k : first[m] = IF m < k THEN s[m] ELSE e
  <2>1. /\ first \in Seq(S) /\ Len(first) = Len(before) + Len(<<e>>)
        /\ \A m \in 1 .. Len(before) + Len(<<e>>) :
             first[m] = IF m <= Len(before) THEN before[m] ELSE <<e>>[m - Len(before)]
    BY <1>2, <1>5, ConcatProperties
  <2> HIDE DEF first
  <2> QED
    BY <1>1, <1>2, <1>5, <2>1
<1> HIDE DEF first
<1>7. /\ first \o after \in Seq(S) /\ Len(first \o after) = Len(first) + Len(after)
      /\ \A m \in 1 .. Len(first) + Len(after) :
           (first \o after)[m] = IF m <= Len(first) THEN first[m] ELSE after[m - Len(first)]
  BY <1>3, <1>6, ConcatProperties
<1> DEFINE v == first \o after
<1>8. /\ Len(v) = Len(s) + 1
      /\ \A m \in 1 .. k : v[m] = IF m < k THEN s[m] ELSE e
      /\ \A m \in k + 1 .. Len(s) + 1 : v[m] = s[m - 1]
  <2> HIDE DEF v
  <2>1. Len(v) = Len(s) + 1 /\ \A m \in 1 .. k : v[m] = first[m]
    BY <1>1, <1>3, <1>6, <1>7 DEF v
  <2>2. ASSUME NEW m \in k + 1 .. Len(s) + 1
        PROVE  v[m] = s[m - 1]
    <3>1. m - k \in 1 .. Len(s) - k + 1 /\ k + (m - k) - 1 = m - 1
      BY <1>1
    <3>2. v[m] = after[m - k]
      BY <1>1, <1>3, <1>6, <1>7 DEF v
    <3> QED
      BY <1>3, <3>1, <3>2
  <2> QED
    BY <1>6, <2>1, <2>2
<1> HIDE DEF v
<1>9. IsInserted(v, s, k, e)
  BY <1>1, <1>8 DEF IsInserted
<1> QED
  BY <1>4, <1>7, <1>9 DEF v

\* The handles in the list.
LEMMA ListTypes ==
  ASSUME TypeOK, HandlesAccounted
  PROVE  /\ Len(list) \in Nat
         /\ \A k \in 1 .. Len(list) : list[k] \in Handles /\ status[list[k]] = "ACTIVE"
<1>1. list \in Seq(Handles)
  BY DEF TypeOK
<1>2. Len(list) \in Nat /\ \A k \in 1 .. Len(list) : list[k] \in Handles
  BY <1>1
<1> QED
  BY <1>2 DEF HandlesAccounted

LEMMA StartInv ==
  ASSUME Punctual, TimerInv,
         NEW i \in Timers, NEW v \in Values[i], NEW p \in Periods[i] \cup {0}, vsi_t_start(i, v, p)
  PROVE  TimerInv'
<1> USE TimerAssumption DEF entries, table, running, locks, tasks, asked
<1> DEFINE t == Owner[i]
           o == [kind |-> "start", i |-> i, v |-> v, p |-> p]
<1>1. t \in Tasks /\ o \in Ops /\ o # None
  BY TickTypes DEF Ops
<1>2. o.i = i /\ o.kind = "start" /\ o.p = p
  OBVIOUS
<1>3. /\ hisr = "off" /\ pc[t] = "ready"
      /\ periodic' = [periodic EXCEPT ![i] = p # 0]
      /\ occurred' = [occurred EXCEPT ![i] = FALSE]
      /\ op' = [op EXCEPT ![t] = o] /\ pc' = [pc EXCEPT ![t] = "obtain"]
      /\ told' = None
      /\ UNCHANGED <<hisr, p_list, t_index, p_ticks, list, r_ticks, elapsed, nu, t_list_access, sem,
                     passed, queue, left, period>>
  BY DEF vsi_t_start, Quiet
<1>4. PICK h \in Handles :
        /\ handle' = [handle EXCEPT ![i] = h]
        /\ \/ handle[i] = h /\ status' = status
           \/ handle[i] = 0 /\ status[h] = "FREE" /\ status' = [status EXCEPT ![h] = "USED"]
  <2>1. CASE handle[i] # 0 /\ UNCHANGED <<handle, status>>
    <3>1. handle' = [handle EXCEPT ![i] = handle[i]] /\ handle[i] \in Handles
      BY <2>1 DEF TimerInv, TypeOK
    <3> QED
      BY <2>1, <3>1
  <2>2. CASE handle[i] = 0 /\ \E h \in Handles : /\ status[h] = "FREE"
                                               /\ status' = [status EXCEPT ![h] = "USED"]
                                               /\ handle' = [handle EXCEPT ![i] = h]
    BY <2>2
  <2> QED
    BY <2>1, <2>2 DEF vsi_t_start
<1>5. 0 \notin Handles
  BY DEF Handles
<1> HIDE DEF o
<1>6. TypeOK'
  <2>1. op' \in [Tasks -> Ops \cup {None}]
    BY <1>1, <1>3 DEF TimerInv, TypeOK
  <2>2. handle' \in [Timers -> Handles \cup {0}] /\ status' \in [Handles -> {"FREE", "USED", "ACTIVE"}]
    BY <1>4 DEF TimerInv, TypeOK
  <2>3. pc' \in [Tasks -> {"ready", "obtain", "remove", "add", "release", "destroy"}]
    BY <1>3 DEF TimerInv, TypeOK
  <2> QED
    BY <1>3, <2>1, <2>2, <2>3 DEF TimerInv, TypeOK
<1>7. /\ handle'[i] = h
      /\ \A j \in Timers : j # i => /\ handle'[j] = handle[j]
                                   /\ occurred'[j] = occurred[j] /\ periodic'[j] = periodic[j]
      /\ ~occurred'[i] /\ (periodic'[i] <=> p # 0)
      /\ \A g \in Handles : status[g] # "FREE" => status'[g] = status[g]
  BY <1>3, <1>4, ZenonT(40) DEF TimerInv, TypeOK
<1>8. HandlesAccounted'
  <2>1. \A g \in Handles : status'[g] # "FREE" <=> \E j \in Timers : handle'[j] = g
    BY <1>4, <1>5, <1>7 DEF TimerInv, TypeOK, HandlesAccounted
  <2>2. \A j, k \in Timers : handle'[j] = handle'[k] /\ handle'[j] # 0 => j = k
    BY <1>4, <1>7 DEF TimerInv, TypeOK, HandlesAccounted
  <2>3. \A g \in Handles : status'[g] = "ACTIVE" <=> \E k \in 1 .. Len(list) : list[k] = g
    BY <1>4 DEF TimerInv, TypeOK, HandlesAccounted
  <2>4. \A k \in 1 .. Len(list) : handle'[t_index[list[k]]] = list[k]
    BY <1>4, <1>5, <1>7 DEF TimerInv, TypeOK, HandlesAccounted, ListInv
  <2> QED
    BY <1>3, <2>1, <2>2, <2>3, <2>4 DEF HandlesAccounted
<1>9. /\ pc'[t] = "obtain" /\ op'[t] = o
      /\ \A u \in Tasks : u # t => pc'[u] = pc[u] /\ op'[u] = op[u]
  BY <1>1, <1>3 DEF TimerInv, TypeOK
<1>10. ASSUME NEW u \in Tasks, pc[u] # "ready"
       PROVE  u # t /\ Timer(u) \in Timers /\ Timer(u) # i /\ status[Handle(u)] # "FREE"
                    /\ Handle(u) \in Handles
  BY <1>3, <1>10, WorkTypes DEF TimerInv, HandlesAccounted
<1>11. WorkInv'
  <2> SUFFICES ASSUME NEW u \in Tasks PROVE Works(u)'
    BY DEF WorkInv
  <2>1. CASE u = t
    BY <1>1, <1>2, <1>5, <1>4, <1>7, <1>9, <2>1 DEF Works, Timer, Handle, Starts
  <2>2. CASE u # t
    BY <1>4, <1>7, <1>9, <1>10, <2>2 DEF TimerInv, WorkInv, Works, Timer, Handle, Starts
  <2> QED
    BY <2>1, <2>2
<1>12. LockInv'
  BY <1>3, <1>9 DEF TimerInv, LockInv
<1>13. ListInv'
  BY <1>3 DEF TimerInv, ListInv
<1>14. EntryInv'
  <2> SUFFICES ASSUME NEW u \in Tasks PROVE KeepsEntry(u)'
    BY DEF EntryInv
  <2>1. CASE u = t
    BY <1>2, <1>4, <1>7, <1>9, <2>1 DEF KeepsEntry, Timer, Handle, Starts
  <2>2. CASE u # t
    BY <1>4, <1>7, <1>9, <1>10, <2>2 DEF TimerInv, EntryInv, KeepsEntry, Timer, Handle, Starts
  <2> QED
    BY <2>1, <2>2
<1>15. ExpiredInv'
  BY <1>4, <1>7 DEF TimerInv, TypeOK, ExpiredInv, HandlesAccounted
<1>16. ASSUME NEW j \in Timers, j # i
       PROVE  BeingStarted(j)' <=> BeingStarted(j)
  BY <1>2, <1>3, <1>9, <1>16 DEF BeingStarted, Timer, Starts
<1>17. PeriodicInv'
  <2> SUFFICES ASSUME NEW k \in 1 .. Len(list), ~BeingStarted(t_index[list[k]])'
               PROVE  p_ticks[list[k]] # 0 <=> periodic'[t_index[list[k]]]
    BY <1>3 DEF PeriodicInv
  <2>1. BeingStarted(i)'
    BY <1>2, <1>3, <1>9 DEF BeingStarted, Timer, Starts
  <2>2. t_index[list[k]] \in Timers /\ t_index[list[k]] # i
    BY <1>3, <2>1 DEF TimerInv, ListInv
  <2> QED
    BY <1>3, <1>7, <1>16, <2>2 DEF TimerInv, PeriodicInv
<1>18. AgainInv' /\ ArmedInv' /\ RestartInv' /\ QueueInv'
  BY <1>3 DEF TimerInv, LockInv, AgainInv, ArmedInv, NextIsArmed, RestartInv, QueueInv
<1> QED
  BY <1>6, <1>8, <1>11, <1>12, <1>13, <1>14, <1>15, <1>17, <1>18 DEF TimerInv

LEMMA StopInv ==
  ASSUME Punctual, TimerInv, NEW i \in Timers, vsi_t_stop(i)
  PROVE  TimerInv'
<1> USE TimerAssumption DEF entries, table, running, locks, tasks, asked
<1> DEFINE t == Owner[i]
           o == [kind |-> "stop", i |-> i, v |-> 0, p |-> 0]
<1>1. t \in Tasks /\ o \in Ops /\ o # None
  BY TickTypes DEF Ops
<1>2. o.i = i /\ o.kind # "start"
  OBVIOUS
<1>3. /\ hisr = "off" /\ pc[t] = "ready" /\ handle[i] # 0
      /\ op' = [op EXCEPT ![t] = o] /\ pc' = [pc EXCEPT ![t] = "obtain"]
      /\ told' = None
      /\ UNCHANGED <<hisr, p_list, entries, table, running, locks, queue, asked>>
  BY DEF vsi_t_stop, Quiet
<1> HIDE DEF o
<1>4. /\ pc'[t] = "obtain" /\ op'[t] = o
      /\ \A u \in Tasks : u # t => pc'[u] = pc[u] /\ op'[u] = op[u]
  BY <1>1, <1>3 DEF TimerInv, TypeOK
<1>5. TypeOK'
  BY <1>1, <1>3 DEF TimerInv, TypeOK
<1>6. HandlesAccounted' /\ QueueInv' /\ ListInv' /\ ExpiredInv' /\ ArmedInv'
  BY <1>3 DEF TimerInv, HandlesAccounted, QueueInv, ListInv, ExpiredInv, ArmedInv, NextIsArmed
<1>7. WorkInv'
  BY <1>1, <1>2, <1>3, <1>4 DEF TimerInv, WorkInv, Works, Timer, Handle, Starts
<1>8. LockInv'
  BY <1>3, <1>4 DEF TimerInv, LockInv
<1>9. EntryInv'
  BY <1>2, <1>3, <1>4 DEF TimerInv, EntryInv, KeepsEntry, Timer, Handle, Starts
<1>10. \A j \in Timers : BeingStarted(j)' <=> BeingStarted(j)
  BY <1>2, <1>3, <1>4 DEF BeingStarted, Timer, Starts
<1>11. PeriodicInv'
  BY <1>3, <1>10 DEF TimerInv, ListInv, PeriodicInv
<1>12. AgainInv' /\ RestartInv'
  BY <1>3 DEF TimerInv, LockInv, AgainInv, RestartInv
<1> QED
  BY <1>5, <1>6, <1>7, <1>8, <1>9, <1>11, <1>12 DEF TimerInv

LEMMA ObtainInv ==
  ASSUME Punctual, TimerInv, NEW t \in Tasks, Obtain(t)
  PROVE  TimerInv'
<1> USE TimerAssumption DEF entries, table, running, locks, tasks, asked
<1>1. status[Handle(t)] # "FREE" /\ op[t] \in Ops /\ op[t] # None
  BY WorkTypes DEF TimerInv, Obtain, HandlesAccounted
<1>2. /\ hisr = "off" /\ pc[t] = "obtain" /\ sem = None
      /\ sem' = t /\ t_list_access' = TRUE
      /\ pc' = [pc EXCEPT ![t] = "remove"]
      /\ told' = None
      /\ UNCHANGED <<hisr, p_list, entries, table, running, passed, queue, op, asked>>
  BY <1>1 DEF Obtain, Quiet, Handle, Timer
<1>3. pc'[t] = "remove" /\ \A u \in Tasks : u # t => pc'[u] = pc[u]
  BY <1>2 DEF TimerInv, TypeOK
<1>4. TypeOK'
  BY <1>2 DEF TimerInv, TypeOK
<1>5. HandlesAccounted' /\ QueueInv' /\ ListInv' /\ ExpiredInv' /\ ArmedInv'
  BY <1>2 DEF TimerInv, HandlesAccounted, QueueInv, ListInv, ExpiredInv, ArmedInv, NextIsArmed
<1>6. WorkInv'
  BY <1>2, <1>3 DEF TimerInv, WorkInv, Works, Timer, Handle, Starts
<1>7. LockInv'
  BY <1>2, <1>3 DEF TimerInv, TypeOK, LockInv
<1>8. EntryInv'
  BY <1>2, <1>3 DEF TimerInv, EntryInv, KeepsEntry, Timer, Handle, Starts
<1>9. \A j \in Timers : BeingStarted(j)' <=> BeingStarted(j)
  BY <1>2, <1>3 DEF BeingStarted, Timer, Starts
<1>10. PeriodicInv'
  BY <1>2, <1>9 DEF TimerInv, ListInv, PeriodicInv
<1>11. AgainInv' /\ RestartInv'
  BY <1>2 DEF TimerInv, LockInv, AgainInv, RestartInv
<1> QED
  BY <1>4, <1>5, <1>6, <1>7, <1>8, <1>10, <1>11 DEF TimerInv

LEMMA ReleaseInv ==
  ASSUME Punctual, TimerInv, NEW t \in Tasks, Release(t)
  PROVE  TimerInv'
<1> USE TimerAssumption DEF entries, table, running, locks, tasks, asked
<1>1. /\ hisr = "off" /\ pc[t] = "release"
      /\ sem' = None /\ t_list_access' = FALSE
      /\ pc' = [pc EXCEPT ![t] = IF Starts(t) THEN "ready" ELSE "destroy"]
      /\ op' = [op EXCEPT ![t] = IF Starts(t) THEN None ELSE op[t]]
      /\ told' = None
      /\ UNCHANGED <<hisr, p_list, entries, table, running, passed, queue, asked>>
  BY DEF Release, Quiet, Starts
<1>2. /\ pc'[t] = IF Starts(t) THEN "ready" ELSE "destroy"
      /\ op'[t] = IF Starts(t) THEN None ELSE op[t]
      /\ \A u \in Tasks : u # t => pc'[u] = pc[u] /\ op'[u] = op[u]
  BY <1>1 DEF TimerInv, TypeOK
<1>3. TypeOK'
  BY <1>1 DEF TimerInv, TypeOK
<1>4. HandlesAccounted' /\ QueueInv' /\ ListInv' /\ ExpiredInv' /\ ArmedInv'
  BY <1>1 DEF TimerInv, HandlesAccounted, QueueInv, ListInv, ExpiredInv, ArmedInv, NextIsArmed
<1>5. WorkInv'
  BY <1>1, <1>2 DEF TimerInv, WorkInv, Works, Timer, Handle, Starts
<1>6. LockInv'
  BY <1>1, <1>2 DEF TimerInv, TypeOK, LockInv
<1>7. EntryInv'
  BY <1>1, <1>2 DEF TimerInv, EntryInv, KeepsEntry, Timer, Handle, Starts
<1>8. \A j \in Timers : BeingStarted(j)' <=> BeingStarted(j)
  BY <1>1, <1>2 DEF BeingStarted, Timer, Starts
<1>9. PeriodicInv'
  BY <1>1, <1>8 DEF TimerInv, ListInv, PeriodicInv
<1>10. AgainInv' /\ RestartInv'
  BY <1>1 DEF TimerInv, LockInv, AgainInv, RestartInv
<1> QED
  BY <1>3, <1>4, <1>5, <1>6, <1>7, <1>9, <1>10 DEF TimerInv

\* DestroyTimer() frees the handle of a timer that is not in the list.
LEMMA Destroyed ==
  ASSUME TimerInv, NEW i \in Timers, DestroyTimer(i), UNCHANGED list,
         handle[i] # 0, status[handle[i]] = "USED"
  PROVE  /\ handle' = [handle EXCEPT ![i] = 0]
         /\ periodic' = [periodic EXCEPT ![i] = FALSE]
         /\ occurred' = [occurred EXCEPT ![i] = FALSE]
         /\ status' = [status EXCEPT ![handle[i]] = "FREE"]
         /\ \A h \in Handles : h # handle[i] => t_index'[h] = t_index[h] /\ p_ticks'[h] = p_ticks[h]
         /\ status' \in [Handles -> {"FREE", "USED", "ACTIVE"}]
         /\ t_index' \in [Handles -> Timers \cup {None}] /\ p_ticks' \in [Handles -> Ticks]
         /\ HandlesAccounted' /\ ListInv'
<1> USE DEF entries, table
<1> DEFINE f == handle[i]
<1>1. f \in Handles /\ {h \in Handles : h = handle[i] /\ status[h] = "USED"} = {f}
  BY DEF TimerInv, TypeOK
<1>2. /\ handle' = [handle EXCEPT ![i] = 0]
      /\ periodic' = [periodic EXCEPT ![i] = FALSE]
      /\ occurred' = [occurred EXCEPT ![i] = FALSE]
      /\ status' = [h \in Handles |-> IF h \in {f} THEN "FREE" ELSE status[h]]
      /\ t_index' = [h \in Handles |-> IF h \in {f} THEN None ELSE t_index[h]]
      /\ p_ticks' = [h \in Handles |-> IF h \in {f} THEN 0 ELSE p_ticks[h]]
  BY <1>1 DEF DestroyTimer
<1> HIDE DEF f
<1>3. status' = [status EXCEPT ![f] = "FREE"]
  BY <1>2 DEF TimerInv, TypeOK
<1>4. /\ \A h \in Handles : h # f => t_index'[h] = t_index[h] /\ p_ticks'[h] = p_ticks[h]
      /\ t_index' \in [Handles -> Timers \cup {None}] /\ p_ticks' \in [Handles -> Ticks]
      /\ status' \in [Handles -> {"FREE", "USED", "ACTIVE"}]
  BY <1>2, TickTypes DEF TimerInv, TypeOK
<1>5. \A k \in 1 .. Len(list) : list[k] \in Handles /\ list[k] # f
  BY ListTypes DEF TimerInv, f
<1>6. HandlesAccounted'
  <2>1. \A h \in Handles : status'[h] # "FREE" <=> \E j \in Timers : handle'[j] = h
    BY <1>1, <1>2, <1>3 DEF TimerInv, TypeOK, HandlesAccounted, f, Handles
  <2>2. \A j, k \in Timers : handle'[j] = handle'[k] /\ handle'[j] # 0 => j = k
    BY <1>2 DEF TimerInv, TypeOK, HandlesAccounted
  <2>3. \A h \in Handles : status'[h] = "ACTIVE" <=> \E k \in 1 .. Len(list) : list[k] = h
    BY <1>3, <1>5 DEF TimerInv, TypeOK, HandlesAccounted
  <2>4. \A k \in 1 .. Len(list) : handle'[t_index'[list[k]]] = list[k]
    BY <1>2, <1>4, <1>5 DEF TimerInv, TypeOK, HandlesAccounted, ListInv, f
  <2> QED
    BY <2>1, <2>2, <2>3, <2>4 DEF HandlesAccounted
<1>7. ListInv'
  BY <1>4, <1>5 DEF TimerInv, ListInv
<1> QED
  BY <1>2, <1>3, <1>4, <1>6, <1>7 DEF f

\* The timer of one task is destroyed while the task is in none of its operations after it.
LEMMA DestroyInv ==
  ASSUME Punctual, TimerInv, NEW t \in Tasks, NEW i \in Timers, Owner[i] = t,
         hisr = "off", pc[t] \in {"ready", "destroy"}, handle[i] # 0, status[handle[i]] = "USED",
         DestroyTimer(i),
         pc' = [pc EXCEPT ![t] = "ready"], op' = [op EXCEPT ![t] = None],
         queue' \in [Tasks -> Seq(Timers)], QueueInv', told' \in Timers \cup {None},
         UNCHANGED <<hisr, p_list, running, locks, asked>>
  PROVE  TimerInv'
<1> USE TimerAssumption DEF running, locks, asked
<1>1. /\ handle' = [handle EXCEPT ![i] = 0]
      /\ periodic' = [periodic EXCEPT ![i] = FALSE]
      /\ occurred' = [occurred EXCEPT ![i] = FALSE]
      /\ status' = [status EXCEPT ![handle[i]] = "FREE"]
      /\ \A h \in Handles : h # handle[i] => t_index'[h] = t_index[h] /\ p_ticks'[h] = p_ticks[h]
      /\ status' \in [Handles -> {"FREE", "USED", "ACTIVE"}]
      /\ t_index' \in [Handles -> Timers \cup {None}] /\ p_ticks' \in [Handles -> Ticks]
      /\ HandlesAccounted' /\ ListInv'
  BY Destroyed
<1>2. /\ pc'[t] = "ready" /\ op'[t] = None
      /\ \A u \in Tasks : u # t => pc'[u] = pc[u] /\ op'[u] = op[u]
  BY DEF TimerInv, TypeOK
<1>3. TypeOK'
  BY <1>1 DEF TimerInv, TypeOK
<1>4. ASSUME NEW u \in Tasks, u # t, pc[u] # "ready"
      PROVE  /\ Timer(u) \in Timers /\ Timer(u) # i /\ Handle(u) \in Handles
             /\ Handle(u) # handle[i]
             /\ Handle(u)' = Handle(u) /\ status'[Handle(u)] = status[Handle(u)]
             /\ Timer(u)' = Timer(u) /\ Starts(u)' = Starts(u)
  <2>1. Timer(u) \in Timers /\ Timer(u) # i /\ Handle(u) \in Handles /\ handle[Timer(u)] = Handle(u)
    BY <1>4, WorkTypes DEF TimerInv
  <2>2. Handle(u) # handle[i]
    BY <2>1 DEF TimerInv, HandlesAccounted
  <2>3. Timer(u)' = Timer(u) /\ Starts(u)' = Starts(u)
    BY <1>2, <1>4 DEF Timer, Starts
  <2>4. Handle(u)' = Handle(u)
    BY <1>1, <2>1, <2>3 DEF Handle, TimerInv, TypeOK
  <2> QED
    BY <1>1, <2>1, <2>2, <2>3, <2>4 DEF TimerInv, TypeOK
<1>5. WorkInv'
  BY <1>2, <1>4 DEF TimerInv, WorkInv, Works
<1>6. LockInv'
  BY <1>2 DEF TimerInv, LockInv
<1>7. EntryInv'
  BY <1>1, <1>2, <1>4 DEF TimerInv, TypeOK, EntryInv, KeepsEntry
<1>8. ExpiredInv'
  BY <1>1 DEF TimerInv, TypeOK, ExpiredInv, HandlesAccounted
<1>9. \A j \in Timers : BeingStarted(j)' <=> BeingStarted(j)
  BY <1>2 DEF BeingStarted, Timer, Starts
<1>10. PeriodicInv'
  <2>1. \A k \in 1 .. Len(list) : list[k] \in Handles /\ list[k] # handle[i]
    BY ListTypes DEF TimerInv
  <2>2. \A k \in 1 .. Len(list) : t_index[list[k]] \in Timers /\ t_index[list[k]] # i
    BY <2>1 DEF TimerInv, HandlesAccounted, ListInv
  <2>3. ASSUME NEW k \in 1 .. Len(list), NEW j \in Timers, j = t_index'[list[k]], ~BeingStarted(j)'
        PROVE  p_ticks'[list[k]] # 0 <=> periodic'[j]
    <3>1. j = t_index[list[k]] /\ p_ticks'[list[k]] = p_ticks[list[k]] /\ j # i
      BY <1>1, <2>1, <2>2, <2>3
    <3>2. periodic'[j] = periodic[j]
      BY <1>1, <3>1 DEF TimerInv, TypeOK
    <3>3. ~BeingStarted(j)
      BY <1>9, <2>3
    <3> QED
      BY <3>1, <3>2, <3>3 DEF TimerInv, PeriodicInv
  <2>4. \A k \in 1 .. Len(list) : t_index'[list[k]] \in Timers
    BY <1>1, <2>1, <2>2
  <2> QED
    BY <2>3, <2>4 DEF PeriodicInv, BeingStarted, Timer, Starts
<1>11. AgainInv' /\ RestartInv' /\ ArmedInv'
  BY DEF TimerInv, LockInv, AgainInv, RestartInv, ArmedInv, NextIsArmed
<1> QED
  BY <1>1, <1>3, <1>5, <1>6, <1>7, <1>8, <1>10, <1>11 DEF TimerInv

LEMMA StoppedInv ==
  ASSUME Punctual, TimerInv, NEW t \in Tasks, Stopped(t)
  PROVE  TimerInv'
<1> DEFINE i == Timer(t)
<1>1. i \in Timers /\ Owner[i] = t /\ handle[i] # 0 /\ status[handle[i]] = "USED"
  BY WorkTypes DEF TimerInv, Stopped, WorkInv, Works, EntryInv, KeepsEntry, Handle
<1>2. /\ hisr = "off" /\ pc[t] = "destroy" /\ DestroyTimer(i)
      /\ pc' = [pc EXCEPT ![t] = "ready"] /\ op' = [op EXCEPT ![t] = None]
      /\ queue' \in [Tasks -> Seq(Timers)] /\ QueueInv' /\ told' \in Timers \cup {None}
      /\ UNCHANGED <<hisr, p_list, running, locks, asked>>
  BY DEF Stopped, Quiet, Timer, TimerInv, TypeOK, QueueInv
<1> QED
  BY <1>1, <1>2, DestroyInv

LEMMA HandleTimeoutInv ==
  ASSUME Punctual, TimerInv, NEW t \in Tasks, HandleTimeout(t)
  PROVE  TimerInv'
<1> USE TimerAssumption DEF running, locks, tasks, asked, entries, table
<1> DEFINE i == Head(queue[t])
<1>1. /\ hisr = "off" /\ pc[t] = "ready" /\ queue[t] # <<>>
      /\ queue' = [queue EXCEPT ![t] = Tail(@)]
      /\ UNCHANGED <<running, locks, hisr, p_list, tasks, asked>>
  BY DEF HandleTimeout
<1>2. queue[t] \in Seq(Timers)
  BY DEF TimerInv, TypeOK
<1>3. i \in Timers /\ Owner[i] = t /\ Tail(queue[t]) \in Seq(Timers)
  BY <1>1, <1>2 DEF TimerInv, QueueInv
<1>4. queue' \in [Tasks -> Seq(Timers)]
  BY <1>1, <1>3 DEF TimerInv, TypeOK
<1>5. QueueInv'
  <2> SUFFICES ASSUME NEW u \in Tasks, NEW m \in 1 .. Len(queue'[u])
               PROVE  Owner[queue'[u][m]] = u
    BY DEF QueueInv
  <2>1. CASE u = t
    <3>1. queue'[u] = Tail(queue[t])
      BY <1>1, <2>1 DEF TimerInv, TypeOK
    <3>2. m + 1 \in 1 .. Len(queue[t]) /\ Tail(queue[t])[m] = queue[t][m + 1]
      <4>1. /\ Len(Tail(queue[t])) = Len(queue[t]) - 1
            /\ \A n \in 1 .. Len(Tail(queue[t])) : Tail(queue[t])[n] = queue[t][n + 1]
        BY <1>1, <1>2, HeadTailProperties, Zenon
      <4>2. Len(queue[t]) \in Nat
        BY <1>2
      <4> HIDE DEF i
      <4> QED
        BY <3>1, <4>1, <4>2
    <3> QED
      BY <2>1, <3>1, <3>2 DEF TimerInv, QueueInv
  <2>2. CASE u # t
    BY <1>1, <2>2 DEF TimerInv, TypeOK, QueueInv
  <2> QED
    BY <2>1, <2>2
<1>6. CASE ~occurred[i] /\ told' = None /\ UNCHANGED <<entries, table>>
  <2>1. TypeOK'
    BY <1>1, <1>4, <1>6 DEF TimerInv, TypeOK
  <2>2. HandlesAccounted' /\ WorkInv' /\ LockInv' /\ ListInv' /\ EntryInv'
    BY <1>1, <1>6 DEF TimerInv, HandlesAccounted, WorkInv, Works, LockInv, ListInv, EntryInv, KeepsEntry,
                      Timer, Handle, Starts
  <2>3. ExpiredInv' /\ PeriodicInv' /\ AgainInv' /\ ArmedInv' /\ RestartInv'
    BY <1>1, <1>6 DEF TimerInv, ExpiredInv, PeriodicInv, AgainInv, ArmedInv, NextIsArmed, RestartInv,
                      BeingStarted, Timer, Handle, Starts
  <2> QED
    BY <1>5, <2>1, <2>2, <2>3 DEF TimerInv
<1>7. CASE occurred[i] /\ told' = i /\ ~periodic[i] /\ DestroyTimer(i)
  <2>1. handle[i] # 0 /\ status[handle[i]] = "USED"
    BY <1>3, <1>7 DEF TimerInv, ExpiredInv
  <2>2. pc' = [pc EXCEPT ![t] = "ready"] /\ op' = [op EXCEPT ![t] = None]
    BY <1>1 DEF TimerInv, TypeOK, WorkInv, Works
  <2> QED
    BY <1>1, <1>3, <1>4, <1>5, <1>7, <2>1, <2>2, DestroyInv
<1>8. CASE /\ occurred[i] /\ told' = i /\ periodic[i]
           /\ occurred' = [occurred EXCEPT ![i] = FALSE]
           /\ UNCHANGED <<handle, periodic, table>>
  <2>1. TypeOK'
    BY <1>1, <1>3, <1>4, <1>8 DEF TimerInv, TypeOK
  <2>2. HandlesAccounted' /\ WorkInv' /\ LockInv' /\ ListInv'
    BY <1>1, <1>8 DEF TimerInv, HandlesAccounted, WorkInv, Works, LockInv, ListInv, Timer, Handle, Starts
  <2>3. \A j \in Timers : occurred'[j] => occurred[j]
    BY <1>8 DEF TimerInv, TypeOK
  <2>4. EntryInv'
    <3> SUFFICES ASSUME NEW u \in Tasks PROVE KeepsEntry(u)'
      BY DEF EntryInv
    <3>1. pc[u] # "ready" => Timer(u) \in Timers
      BY WorkTypes DEF TimerInv
    <3> QED
      BY <1>1, <1>8, <2>3, <3>1 DEF TimerInv, EntryInv, KeepsEntry, Timer, Handle, Starts
  <2>5. ExpiredInv' /\ PeriodicInv' /\ AgainInv' /\ ArmedInv' /\ RestartInv'
    BY <1>1, <1>8, <2>3 DEF TimerInv, ExpiredInv, PeriodicInv, AgainInv, ArmedInv, NextIsArmed, RestartInv,
                      BeingStarted, Timer, Handle, Starts
  <2> QED
    BY <1>5, <2>1, <2>2, <2>4, <2>5 DEF TimerInv
<1> QED
  BY <1>6, <1>7, <1>8 DEF HandleTimeout

LEMMA TickInv ==
  ASSUME Punctual, TimerInv, Tick
  PROVE  TimerInv'
<1> USE TimerAssumption DEF entries, table, tasks, Punctual
<1>1. /\ hisr = "off" /\ ~ExpiresInRestart
      /\ elapsed' = IF list = <<>> THEN 0 ELSE elapsed + 1
      /\ nu' = IF nu = 0 THEN 0 ELSE nu - 1
      /\ hisr' = IF nu = 1 THEN "timeout" ELSE "off"
      /\ passed' = passed
      /\ left' = [i \in Timers |-> IF left[i] \in {0, None} THEN left[i] ELSE left[i] - 1]
      /\ told' = None
      /\ UNCHANGED <<entries, table, list, r_ticks, t_list_access, sem, p_list, queue, tasks, period>>
  BY DEF Tick, TimerInv, TypeOK
<1>2. left' \in [Timers -> Nat \cup {None}]
  <2>1. \A i \in Timers : left[i] \in Nat \cup {None}
    BY DEF TimerInv, TypeOK
  <2>2. \A i \in Timers :
          (IF left[i] \in {0, None} THEN left[i] ELSE left[i] - 1) \in Nat \cup {None}
    BY <2>1
  <2> QED
    BY <1>1, <2>2
<1>3. TypeOK'
  BY <1>1, <1>2 DEF TimerInv, TypeOK
<1>4. HandlesAccounted' /\ QueueInv' /\ WorkInv' /\ ListInv' /\ EntryInv'
  BY <1>1 DEF TimerInv, HandlesAccounted, QueueInv, WorkInv, Works, ListInv, EntryInv, KeepsEntry,
              Timer, Handle, Starts
<1>5. LockInv'
  BY <1>1 DEF TimerInv, LockInv
<1>6. ExpiredInv' /\ PeriodicInv' /\ AgainInv'
  BY <1>1 DEF TimerInv, ExpiredInv, PeriodicInv, AgainInv, BeingStarted, Timer, Handle, Starts
<1>7. ArmedInv'
  <2>1. CASE list = <<>>
    BY <1>1, <2>1 DEF TimerInv, ArmedInv, NextIsArmed
  <2>2. CASE list # <<>>
    <3>1. nu \in Nat /\ elapsed \in Nat /\ nu # 0 /\ nu + elapsed = r_ticks[list[1]]
      BY <1>1, <2>2 DEF TimerInv, TypeOK, ArmedInv, NextIsArmed
    <3> QED
      BY <1>1, <2>2, <3>1 DEF ArmedInv, NextIsArmed
  <2> QED
    BY <2>1, <2>2
<1>8. RestartInv'
  BY <1>1 DEF RestartInv, ExpiresInRestart, Handle, Timer, Starts
<1> QED
  BY <1>3, <1>4, <1>5, <1>6, <1>7, <1>8 DEF TimerInv

LEMMA PostponeInv ==
  ASSUME Punctual, TimerInv, Postpone
  PROVE  TimerInv'
<1> USE TimerAssumption DEF entries, table, locks, tasks, asked
<1>1. /\ hisr = "timeout" /\ t_list_access
      /\ elapsed' = elapsed - 1 /\ nu' = 1 /\ hisr' = "off" /\ told' = None
      /\ UNCHANGED <<entries, table, list, r_ticks, locks, p_list, queue, tasks, asked>>
  BY DEF Postpone
<1>2. elapsed \in Nat /\ elapsed # 0 /\ list # <<>> /\ elapsed = r_ticks[list[1]]
  BY <1>1 DEF TimerInv, TypeOK, ArmedInv
<1>3. TypeOK'
  BY <1>1, <1>2, SMTT(20) DEF TimerInv, TypeOK
<1>4. HandlesAccounted' /\ QueueInv' /\ WorkInv' /\ ListInv' /\ EntryInv'
  BY <1>1 DEF TimerInv, HandlesAccounted, QueueInv, WorkInv, Works, ListInv, EntryInv, KeepsEntry,
              Timer, Handle, Starts
<1>5. LockInv'
  BY <1>1 DEF TimerInv, LockInv
<1>6. ExpiredInv' /\ PeriodicInv' /\ AgainInv'
  BY <1>1 DEF TimerInv, ExpiredInv, PeriodicInv, AgainInv, BeingStarted, Timer, Handle, Starts
<1>7. ArmedInv' /\ RestartInv'
  BY <1>1, <1>2 DEF ArmedInv, NextIsArmed, RestartInv
<1> QED
  BY <1>3, <1>4, <1>5, <1>6, <1>7 DEF TimerInv

\* Read in time, the clock gives the reference time.
LEMMA InTime ==
  ASSUME Punctual, TimerInv
  PROVE  passed = 0 /\ \A late \in 0 .. passed : late = 0 /\ ClockRead(late) = elapsed
<1>1. passed = 0 /\ elapsed \in Nat
  BY DEF TimerInv, LockInv, TypeOK
<1> QED
  BY <1>1 DEF ClockRead, Unsigned

\* What is in the list when a timer is taken out, and that the kernel timer fits again.
LEMMA Removed ==
  ASSUME Punctual, TimerInv, hisr = "off", NEW k \in 1 .. Len(list),
         os_remove_timer_from_list(k, 0)
  PROVE  /\ list' \in Seq(Handles) /\ r_ticks' \in [Handles -> Nat]
         /\ elapsed' \in Nat /\ nu' \in Nat
         /\ status' = [status EXCEPT ![list[k]] = "USED"]
         /\ \A m \in 1 .. Len(list') : \E n \in 1 .. Len(list) : n # k /\ list'[m] = list[n]
         /\ \A n \in 1 .. Len(list) : n # k => \E m \in 1 .. Len(list') : list'[m] = list[n]
         /\ \A m, n \in 1 .. Len(list') : list'[m] = list'[n] => m = n
         /\ list' # <<>> => nu' # 0 /\ nu' + elapsed' = r_ticks'[list'[1]]
         /\ list' = <<>> => nu' = 0 /\ elapsed' = 0
<1>1. list \in Seq(Handles) /\ Len(list) \in Nat /\ \A m \in 1 .. Len(list) : list[m] \in Handles
  BY ListTypes DEF TimerInv, TypeOK
<1>2. \A m, n \in 1 .. Len(list) : list[m] = list[n] => m = n
  BY DEF TimerInv, ListInv
<1>3. list' = RemoveAt(list, k) /\ status' = [status EXCEPT ![list[k]] = "USED"]
  BY DEF os_remove_timer_from_list
<1>4. /\ list' \in Seq(Handles) /\ Len(list') = Len(list) - 1
      /\ \A m \in 1 .. Len(list) - 1 : list'[m] = IF m < k THEN list[m] ELSE list[m + 1]
  BY <1>1, <1>3, RemoveAtFacts
<1>5. \A m \in 1 .. Len(list') : \E n \in 1 .. Len(list) : n # k /\ list'[m] = list[n]
  <2> TAKE m \in 1 .. Len(list')
  <2>1. CASE m < k
    BY <1>1, <1>4, <2>1
  <2>2. CASE m >= k
    <3>1. m + 1 \in 1 .. Len(list) /\ m + 1 # k /\ list'[m] = list[m + 1]
      BY <1>1, <1>4, <2>2
    <3> QED
      BY <3>1
  <2> QED
    BY <1>1, <1>4, <2>1, <2>2
<1>6. \A n \in 1 .. Len(list) : n # k => \E m \in 1 .. Len(list') : list'[m] = list[n]
  <2> SUFFICES ASSUME NEW n \in 1 .. Len(list), n # k
               PROVE  \E m \in 1 .. Len(list') : list'[m] = list[n]
    OBVIOUS
  <2>1. CASE n < k
    BY <1>1, <1>4, <2>1
  <2>2. CASE n > k
    <3>1. n - 1 \in 1 .. Len(list') /\ list'[n - 1] = list[n]
      BY <1>1, <1>4, <2>2
    <3> QED
      BY <3>1
  <2> QED
    BY <1>1, <2>1, <2>2
<1>7. \A m, n \in 1 .. Len(list') : list'[m] = list'[n] => m = n
  <2> SUFFICES ASSUME NEW m \in 1 .. Len(list'), NEW n \in 1 .. Len(list'), list'[m] = list'[n]
               PROVE  m = n
    OBVIOUS
  <2> DEFINE from(x) == IF x < k THEN x ELSE x + 1
  <2>1. from(m) \in 1 .. Len(list) /\ from(n) \in 1 .. Len(list)
    BY <1>1, <1>4
  <2>2. list'[m] = list[from(m)] /\ list'[n] = list[from(n)]
    BY <1>1, <1>4
  <2>3. from(m) = from(n)
    BY <1>2, <2>1, <2>2
  <2> QED
    BY <1>1, <1>4, <2>3
<1>8. /\ r_ticks \in [Handles -> Nat] /\ elapsed \in Nat /\ nu \in Nat
      /\ nu # 0 /\ nu + elapsed = r_ticks[list[1]]
  BY <1>1 DEF TimerInv, TypeOK, ArmedInv, NextIsArmed
<1>9. CASE k # 1
  <2>1. elapsed' = elapsed /\ nu' = nu /\ r_ticks' = Leaving(k)
    BY <1>9 DEF os_remove_timer_from_list
  <2>2. r_ticks' \in [Handles -> Nat] /\ r_ticks'[list[1]] = r_ticks[list[1]]
    <3>1. CASE k = Len(list)
      BY <1>1, <1>2, <1>8, <1>9, <2>1, <3>1 DEF Leaving
    <3>2. CASE k # Len(list)
      <4>1. list[k] \in Handles /\ list[k + 1] \in Handles /\ list[k] # list[1] /\ list[k + 1] # list[1]
        BY <1>1, <1>2, <1>9, <3>2
      <4>2. r_ticks' = [r_ticks EXCEPT ![list[k + 1]] = r_ticks[list[k + 1]] + r_ticks[list[k]],
                                       ![list[k]] = 0]
        BY <2>1, <3>2 DEF Leaving
      <4>3. r_ticks[list[k + 1]] + r_ticks[list[k]] \in Nat
        BY <1>8, <4>1
      <4>4. r_ticks' \in [Handles -> Nat]
        BY <1>8, <4>2, <4>3
      <4>5. list[1] \in Handles
        BY <1>1
      <4> QED
        BY <1>8, <4>1, <4>2, <4>4, <4>5
    <3> QED
      BY <3>1, <3>2
  <2>3. list' # <<>> /\ list'[1] = list[1]
    BY <1>1, <1>4, <1>9
  <2> QED
    BY <1>3, <1>4, <1>5, <1>6, <1>7, <1>8, <2>1, <2>2, <2>3
<1>10. CASE k = 1 /\ Len(list) = 1
  <2>1. elapsed' = 0 /\ nu' = 0 /\ r_ticks' = [r_ticks EXCEPT ![list[1]] = 0]
    BY <1>10 DEF os_remove_timer_from_list
  <2>2. list' = <<>>
    BY <1>4, <1>10
  <2> QED
    BY <1>1, <1>3, <1>4, <1>5, <1>6, <1>7, <1>8, <1>10, <2>1, <2>2
<1>11. CASE k = 1 /\ Len(list) # 1
  <2> DEFINE rest == r_ticks[list[1]] + r_ticks[list[2]] - elapsed
  <2> HIDE DEF rest
  <2>1. list[1] \in Handles /\ list[2] \in Handles /\ list[1] # list[2]
    <3>1. 1 \in 1 .. Len(list) /\ 2 \in 1 .. Len(list)
      <4>1. Len(list) \in Nat /\ Len(list) >= 1
        BY <1>1
      <4>2. Len(list) # 1
        BY <1>11
      <4>3. \A n \in Nat : n >= 1 /\ n # 1 => 1 \in 1 .. n /\ 2 \in 1 .. n
        OBVIOUS
      <4> QED
        BY <4>1, <4>2, <4>3, Zenon
    <3> QED
      BY <1>1, <1>2, <3>1
  <2>2. rest \in Nat /\ rest # 0
    BY <1>8, <2>1 DEF rest
  <2>3. Unsigned(r_ticks[list[1]] + r_ticks[list[2]] - ClockRead(0)) = rest
    BY <1>8, <2>2, InTime DEF Unsigned, rest
  <2>4. elapsed' = 0 /\ nu' = rest /\ r_ticks' = [r_ticks EXCEPT ![list[2]] = rest, ![list[1]] = 0]
    BY <1>11, <2>3 DEF os_remove_timer_from_list
  <2>5. list' # <<>> /\ list'[1] = list[2]
    BY <1>1, <1>4, <1>11
  <2>6. r_ticks' \in [Handles -> Nat] /\ r_ticks'[list[2]] = rest
    BY <1>8, <2>1, <2>2, <2>4
  <2>7. /\ elapsed' \in Nat /\ nu' \in Nat /\ nu' # 0 /\ nu' + elapsed' = r_ticks'[list'[1]]
    BY <2>2, <2>4, <2>5, <2>6
  <2> QED
    BY <1>3, <1>4, <1>5, <1>6, <1>7, <2>5, <2>6, <2>7
<1> QED
  BY <1>9, <1>10, <1>11

LEMMA RemoveTimerInv ==
  ASSUME Punctual, TimerInv, NEW t \in Tasks, RemoveTimer(t)
  PROVE  TimerInv'
<1> USE TimerAssumption DEF entries, asked
<1> DEFINE h == Handle(t)
           i == Timer(t)
<1>1. /\ hisr = "off" /\ pc[t] = "remove" /\ passed' = 0 /\ told' = None
      /\ left' = [left EXCEPT ![i] = None] /\ period' = [period EXCEPT ![i] = 0]
      /\ pc' = [pc EXCEPT ![t] = IF Starts(t) THEN "add" ELSE "release"]
      /\ UNCHANGED <<hisr, p_list, handle, periodic, occurred, t_index, p_ticks, t_list_access,
                     sem, queue, op>>
  BY DEF RemoveTimer, Quiet, Timer, Starts
<1>2. op[t] # None /\ i \in Timers /\ h \in Handles /\ h # 0 /\ handle[i] = h /\ status[h] # "FREE"
  BY <1>1, WorkTypes DEF TimerInv, HandlesAccounted
<1>3. /\ pc'[t] = IF Starts(t) THEN "add" ELSE "release"
      /\ \A u \in Tasks : u # t => pc'[u] = pc[u]
  BY <1>1 DEF TimerInv, TypeOK
<1>4. /\ list' \in Seq(Handles) /\ r_ticks' \in [Handles -> Nat]
      /\ elapsed' \in Nat /\ nu' \in Nat
      /\ status' = [status EXCEPT ![h] = "USED"]
      /\ \A m \in 1 .. Len(list') : \E n \in 1 .. Len(list) : list[n] # h /\ list'[m] = list[n]
      /\ \A n \in 1 .. Len(list) : list[n] # h => \E m \in 1 .. Len(list') : list'[m] = list[n]
      /\ \A m, n \in 1 .. Len(list') : list'[m] = list'[n] => m = n
      /\ list' # <<>> => nu' # 0 /\ nu' + elapsed' = r_ticks'[list'[1]]
      /\ list' = <<>> => nu' = 0 /\ elapsed' = 0
  <2>1. CASE \E k \in 1 .. Len(list), late \in 0 .. passed :
               list[k] = h /\ os_remove_timer_from_list(k, late)
    <3>1. PICK k \in 1 .. Len(list) : list[k] = h /\ os_remove_timer_from_list(k, 0)
      BY <2>1, InTime
    <3>2. \A n \in 1 .. Len(list) : n # k <=> list[n] # h
      BY <3>1 DEF TimerInv, ListInv
    <3> QED
      BY <1>1, <3>1, <3>2, Removed
  <2>2. CASE status[h] # "ACTIVE" /\ UNCHANGED <<running, status>>
    <3>1. status[h] = "USED" /\ \A n \in 1 .. Len(list) : list[n] # h
      BY <1>2, <2>2 DEF TimerInv, TypeOK, HandlesAccounted
    <3>2. status' = [status EXCEPT ![h] = "USED"]
      BY <2>2, <3>1 DEF TimerInv, TypeOK
    <3>3. UNCHANGED <<list, r_ticks, elapsed, nu>>
      BY <2>2 DEF running
    <3> QED
      BY <1>1, <3>1, <3>2, <3>3 DEF TimerInv, TypeOK, ListInv, ArmedInv, NextIsArmed
  <2> QED
    BY <2>1, <2>2 DEF RemoveTimer, Handle, Timer
<1> HIDE DEF h, i
<1>5. \A m \in 1 .. Len(list') : \E n \in 1 .. Len(list) : list[n] # h /\ list'[m] = list[n]
  BY <1>4
<1>6. \A n \in 1 .. Len(list) : list[n] # h => \E m \in 1 .. Len(list') : list'[m] = list[n]
  BY <1>4
<1>7. TypeOK'
  <2>1. period' \in [Timers -> Ticks] /\ left' \in [Timers -> Nat \cup {None}]
    BY <1>1, TickTypes DEF TimerInv, TypeOK
  <2>2. status' \in [Handles -> {"FREE", "USED", "ACTIVE"}]
    BY <1>4 DEF TimerInv, TypeOK
  <2>3. pc' \in [Tasks -> {"ready", "obtain", "remove", "add", "release", "destroy"}]
    BY <1>1 DEF TimerInv, TypeOK
  <2>4. passed' \in 0 .. MaxLate
    BY <1>1
  <2> QED
    BY <1>1, <1>4, <2>1, <2>2, <2>3, <2>4 DEF TimerInv, TypeOK
<1>9. \A g \in Handles : g # h => status'[g] = status[g]
  BY <1>4 DEF TimerInv, TypeOK
<1>10. status'[h] = "USED"
  BY <1>2, <1>4 DEF TimerInv, TypeOK
<1>11. HandlesAccounted'
  <2>1. \A g \in Handles : status'[g] # "FREE" <=> \E j \in Timers : handle[j] = g
    BY <1>2, <1>9, <1>10 DEF TimerInv, HandlesAccounted
  <2>2. ASSUME NEW g \in Handles
        PROVE  status'[g] = "ACTIVE" <=> \E k \in 1 .. Len(list') : list'[k] = g
    <3>1. status'[g] = "ACTIVE" <=> g # h /\ \E n \in 1 .. Len(list) : list[n] = g
      BY <1>9, <1>10 DEF TimerInv, HandlesAccounted
    <3>2. g # h /\ (\E n \in 1 .. Len(list) : list[n] = g) <=> \E k \in 1 .. Len(list') : list'[k] = g
      BY <1>5, <1>6, Zenon
    <3> QED
      BY <3>1, <3>2
  <2>3. ASSUME NEW k \in 1 .. Len(list')
        PROVE  handle[t_index[list'[k]]] = list'[k]
    <3>1. PICK n \in 1 .. Len(list) : list[n] # h /\ list'[k] = list[n]
      BY <1>5
    <3> QED
      BY <3>1, Zenon DEF TimerInv, HandlesAccounted
  <2> QED
    BY <1>1, <2>1, <2>2, <2>3 DEF TimerInv, HandlesAccounted
<1>12. \A k \in 1 .. Len(list') : t_index[list'[k]] \in Timers
  <2> TAKE k \in 1 .. Len(list')
  <2>1. PICK n \in 1 .. Len(list) : list[n] # h /\ list'[k] = list[n]
    BY <1>5
  <2> QED
    BY <2>1, Zenon DEF TimerInv, ListInv
<1>13. ListInv' /\ QueueInv'
  <2>1. \A m, n \in 1 .. Len(list') : list'[m] = list'[n] => m = n
    BY <1>4
  <2> QED
    BY <1>1, <1>12, <2>1 DEF TimerInv, ListInv, QueueInv
<1>14. ASSUME NEW u \in Tasks, u # t, pc[u] # "ready"
       PROVE  Handle(u) \in Handles /\ Handle(u) # h
  <2>1. /\ Timer(u) \in Timers /\ Timer(u) # i /\ Handle(u) \in Handles /\ Handle(u) # 0
        /\ handle[Timer(u)] = Handle(u)
    <3>1. Owner[i] = t
      BY <1>1, WorkTypes DEF TimerInv, i
    <3> QED
      BY <1>14, <3>1, WorkTypes DEF TimerInv
  <2>2. \A j, k \in Timers : handle[j] = handle[k] /\ handle[j] # 0 => j = k
    BY DEF TimerInv, HandlesAccounted
  <2> QED
    BY <1>2, <2>1, <2>2
<1>15. WorkInv'
  BY <1>1, <1>2, <1>3 DEF TimerInv, WorkInv, Works, Timer, Handle, Starts
<1>16. LockInv'
  BY <1>1, <1>3 DEF TimerInv, LockInv
<1>17. EntryInv'
  <2> SUFFICES ASSUME NEW u \in Tasks PROVE KeepsEntry(u)'
    BY DEF EntryInv
  <2>1. CASE u = t
    BY <1>1, <1>2, <1>3, <1>10, <2>1 DEF TimerInv, EntryInv, KeepsEntry, Timer, Handle, Starts, h
  <2>2. CASE u # t
    BY <1>1, <1>3, <1>9, <1>14, <2>2 DEF TimerInv, EntryInv, KeepsEntry, Timer, Handle, Starts
  <2> QED
    BY <2>1, <2>2
<1>18. ExpiredInv'
  BY <1>1, <1>9, <1>10 DEF TimerInv, TypeOK, ExpiredInv
<1>19. ASSUME NEW k \in 1 .. Len(list'), NEW j \in Timers, j = t_index[list'[k]], ~BeingStarted(j)'
       PROVE  p_ticks[list'[k]] # 0 <=> periodic[j]
  <2>1. PICK n \in 1 .. Len(list) : list[n] # h /\ list'[k] = list[n]
    BY <1>4
  <2>2. j # i
    BY <1>2, <1>19, <2>1 DEF TimerInv, HandlesAccounted
  <2>3. ~BeingStarted(j)
    BY <1>1, <1>3, <1>19, <2>2 DEF BeingStarted, Timer, Starts, i
  <2> QED
    BY <1>19, <2>1, <2>3 DEF TimerInv, PeriodicInv
<1>20. PeriodicInv'
  BY <1>1, <1>19, <1>12 DEF PeriodicInv, BeingStarted, Timer, Starts
<1>21. AgainInv' /\ ArmedInv' /\ RestartInv'
  BY <1>1, <1>4 DEF TimerInv, LockInv, AgainInv, ArmedInv, NextIsArmed, RestartInv
<1> QED
  BY <1>7, <1>11, <1>13, <1>15, <1>16, <1>17, <1>18, <1>20, <1>21 DEF TimerInv

\* The same when a timer is put in.
LEMMA Added ==
  ASSUME Punctual, TimerInv, hisr # "timeout", NEW h \in Handles, status[h] = "USED",
         NEW ticks \in Nat, ticks # 0, AddTicks(h, ticks, 0)
  PROVE  /\ list' \in Seq(Handles) /\ r_ticks' \in [Handles -> Nat]
         /\ elapsed' \in Nat /\ nu' \in Nat
         /\ status' = [status EXCEPT ![h] = "ACTIVE"]
         /\ \A m \in 1 .. Len(list') : list'[m] = h \/ \E n \in 1 .. Len(list) : list'[m] = list[n]
         /\ \A n \in 1 .. Len(list) : \E m \in 1 .. Len(list') : list'[m] = list[n]
         /\ \E m \in 1 .. Len(list') : list'[m] = h
         /\ \A m, n \in 1 .. Len(list') : list'[m] = list'[n] => m = n
         /\ list' # <<>> /\ nu' # 0 /\ nu' + elapsed' = r_ticks'[list'[1]]
<1>1. /\ list \in Seq(Handles) /\ Len(list) \in Nat
      /\ \A m \in 1 .. Len(list) : list[m] \in Handles /\ list[m] # h
  BY ListTypes DEF TimerInv, TypeOK
<1>2. \A m, n \in 1 .. Len(list) : list[m] = list[n] => m = n
  BY DEF TimerInv, ListInv
<1>3. r_ticks \in [Handles -> Nat] /\ elapsed \in Nat /\ nu \in Nat
  BY DEF TimerInv, TypeOK
<1>4. elapsed' = 0 /\ status' = [status EXCEPT ![h] = "ACTIVE"]
  BY DEF AddTicks
\* The list with h at a position.
<1>5. ASSUME NEW k \in 1 .. Len(list) + 1, list' = InsertAt(list, k, h)
      PROVE  /\ list' \in Seq(Handles) /\ list' # <<>>
             /\ list'[1] = IF k = 1 THEN h ELSE list[1]
             /\ \A m \in 1 .. Len(list') : list'[m] = h \/ \E n \in 1 .. Len(list) : list'[m] = list[n]
             /\ \A n \in 1 .. Len(list) : \E m \in 1 .. Len(list') : list'[m] = list[n]
             /\ \E m \in 1 .. Len(list') : list'[m] = h
             /\ \A m, n \in 1 .. Len(list') : list'[m] = list'[n] => m = n
  <2>1. /\ list' \in Seq(Handles) /\ Len(list') = Len(list) + 1
        /\ \A m \in 1 .. Len(list) + 1 :
             list'[m] = IF m < k THEN list[m] ELSE IF m = k THEN h ELSE list[m - 1]
    <3>1. InsertAt(list, k, h) \in Seq(Handles) /\ IsInserted(InsertAt(list, k, h), list, k, h)
      <4>1. list \in Seq(Handles)
        BY <1>1
      <4> QED
        BY <4>1, InsertAtFacts, Zenon
    <3> QED
      BY <1>5, <3>1 DEF IsInserted
  <2>2. list' # <<>> /\ list'[1] = IF k = 1 THEN h ELSE list[1]
    BY <1>1, <2>1
  <2>3. list'[k] = h /\ k \in 1 .. Len(list')
    BY <1>1, <2>1
  <2>4. \A m \in 1 .. Len(list') : list'[m] = h \/ \E n \in 1 .. Len(list) : list'[m] = list[n]
    <3> TAKE m \in 1 .. Len(list')
    <3>1. CASE m < k
      <4>1. m \in 1 .. Len(list) /\ list'[m] = list[m]
        BY <1>1, <2>1, <3>1
      <4> QED
        BY <4>1
    <3>2. CASE m = k
      BY <2>3, <3>2
    <3>3. CASE m > k
      <4>1. m - 1 \in 1 .. Len(list) /\ list'[m] = list[m - 1]
        BY <1>1, <2>1, <3>3
      <4> QED
        BY <4>1
    <3> QED
      BY <1>1, <2>1, <3>1, <3>2, <3>3
  <2>5. \A n \in 1 .. Len(list) : \E m \in 1 .. Len(list') : list'[m] = list[n]
    <3> TAKE n \in 1 .. Len(list)
    <3>1. CASE n < k
      <4>1. n \in 1 .. Len(list') /\ list'[n] = list[n]
        BY <1>1, <2>1, <3>1
      <4> QED
        BY <4>1
    <3>2. CASE n >= k
      <4>1. n + 1 \in 1 .. Len(list') /\ list'[n + 1] = list[n]
        BY <1>1, <2>1, <3>2
      <4> QED
        BY <4>1
    <3> QED
      BY <1>1, <3>1, <3>2
  <2>6. ASSUME NEW m \in 1 .. Len(list'), NEW n \in 1 .. Len(list'), list'[m] = list'[n]
        PROVE  m = n
    <3> DEFINE from(x) == IF x < k THEN x ELSE x - 1
    <3>1. CASE m = k
      <4>1. n # k => from(n) \in 1 .. Len(list) /\ list'[n] = list[from(n)]
        BY <1>1, <2>1
      <4> QED
        BY <1>1, <2>3, <2>6, <3>1, <4>1
    <3>2. CASE n = k
      <4>1. m # k => from(m) \in 1 .. Len(list) /\ list'[m] = list[from(m)]
        BY <1>1, <2>1
      <4> QED
        BY <1>1, <2>3, <2>6, <3>2, <4>1
    <3>3. CASE m # k /\ n # k
      <4>1. from(m) \in 1 .. Len(list) /\ from(n) \in 1 .. Len(list)
        BY <1>1, <2>1, <3>3
      <4>2. list'[m] = list[from(m)] /\ list'[n] = list[from(n)]
        BY <1>1, <2>1, <3>3
      <4>3. from(m) = from(n)
        BY <1>2, <2>6, <4>1, <4>2
      <4> QED
        BY <1>1, <2>1, <3>3, <4>3
    <3> QED
      BY <3>1, <3>2, <3>3
  <2> QED
    BY <2>1, <2>2, <2>3, <2>4, <2>5, <2>6
<1>6. CASE list = <<>>
  <2>1. list' = <<h>> /\ r_ticks' = [r_ticks EXCEPT ![h] = ticks] /\ nu' = ticks
    BY <1>6 DEF AddTicks
  <2>2. Len(list') = 1 /\ list'[1] = h /\ list' \in Seq(Handles) /\ list' # <<>>
    BY <2>1
  <2>3. r_ticks' \in [Handles -> Nat] /\ r_ticks'[h] = ticks
    BY <1>3, <2>1
  <2>4. \A n \in 1 .. Len(list) : FALSE
    BY <1>6
  <2> QED
    BY <1>4, <2>1, <2>2, <2>3, <2>4
<1>7. CASE list # <<>>
  <2> DEFINE head == list[1]
             r == [r_ticks EXCEPT ![head] = nu]
  <2>1. 1 \in 1 .. Len(list) /\ head \in Handles /\ head # h
    BY <1>1, <1>7
  <2>2. nu # 0 /\ nu + elapsed = r_ticks[head]
    BY <1>7 DEF TimerInv, ArmedInv, NextIsArmed
  <2>3. ClockRead(0) = elapsed
    BY <1>3 DEF ClockRead, Unsigned
  <2>4. (IF r_ticks[head] >= ClockRead(0) THEN r_ticks[head] - ClockRead(0) ELSE 0) = nu
    BY <1>3, <2>1, <2>2, <2>3
  <2>5. r \in [Handles -> Nat] /\ r[head] = nu
    BY <1>3, <2>1
  <2>6. CASE ticks < nu
    <3>1. /\ list' = InsertAt(list, 1, h) /\ nu' = ticks
          /\ r_ticks' = [r EXCEPT ![head] = r[head] - ticks, ![h] = ticks]
      BY <1>7, <2>4, <2>6 DEF AddTicks
    <3>2. r[head] - ticks \in Nat
      BY <1>3, <2>5, <2>6
    <3> HIDE DEF r
    <3>3. r_ticks' \in [Handles -> Nat] /\ r_ticks'[h] = ticks
      BY <2>1, <2>5, <3>1, <3>2
    <3>4. 1 \in 1 .. Len(list) + 1
      BY <1>1
    <3>5. list'[1] = h
      BY <1>5, <3>1, <3>4
    <3>6. /\ list' \in Seq(Handles) /\ list' # <<>>
          /\ \A m \in 1 .. Len(list') : list'[m] = h \/ \E n \in 1 .. Len(list) : list'[m] = list[n]
          /\ \A n \in 1 .. Len(list) : \E m \in 1 .. Len(list') : list'[m] = list[n]
          /\ \E m \in 1 .. Len(list') : list'[m] = h
          /\ \A m, n \in 1 .. Len(list') : list'[m] = list'[n] => m = n
      BY <1>5, <3>1, <3>4
    <3>7. elapsed' \in Nat /\ nu' \in Nat /\ nu' # 0 /\ nu' + elapsed' = r_ticks'[list'[1]]
      BY <1>4, <3>1, <3>3, <3>5
    <3> QED
      BY <1>4, <3>3, <3>6, <3>7, Zenon
  <2>7. CASE ~(ticks < nu)
    <3>1. PICK p \in Place(r, ticks) :
            /\ list' = InsertAt(list, p[1], h) /\ nu' = nu
            /\ r_ticks' = IF p[1] > Len(list) THEN [r EXCEPT ![h] = p[2]]
                          ELSE [r EXCEPT ![list[p[1]]] = r[list[p[1]]] - p[2], ![h] = p[2]]
      BY <1>7, <2>4, <2>7 DEF AddTicks
    <3> HIDE DEF r
    <3>2. /\ p[1] \in 2 .. Len(list) + 1 /\ p[2] \in 0 .. ticks
          /\ p[1] <= Len(list) => p[2] < r[list[p[1]]]
      BY DEF Place
    <3>3. p[1] \in 1 .. Len(list) + 1 /\ p[1] # 1 /\ p[2] \in Nat
      BY <1>1, <3>2
    <3>4. r_ticks' \in [Handles -> Nat] /\ r_ticks'[head] = nu
      <4>1. CASE p[1] > Len(list)
        BY <2>1, <2>5, <3>1, <3>3, <4>1
      <4>2. CASE ~(p[1] > Len(list))
        <5>1. p[1] \in 1 .. Len(list) /\ list[p[1]] \in Handles /\ list[p[1]] # head
          BY <1>1, <1>2, <2>1, <3>3, <4>2
        <5>2. r[list[p[1]]] - p[2] \in Nat
          BY <1>1, <2>5, <3>2, <3>3, <5>1
        <5>3. r_ticks' = [r EXCEPT ![list[p[1]]] = r[list[p[1]]] - p[2], ![h] = p[2]]
          BY <3>1, <4>2
        <5> QED
          BY <2>1, <2>5, <3>3, <5>1, <5>2, <5>3
      <4> QED
        BY <4>1, <4>2
    <3>5. list'[1] = head
      BY <1>5, <3>1, <3>3
    <3>6. elapsed' \in Nat /\ nu' \in Nat /\ nu' # 0 /\ nu' + elapsed' = r_ticks'[list'[1]]
      BY <1>3, <1>4, <2>2, <3>1, <3>4, <3>5
    <3> DEFINE k == p[1]
    <3>7. k \in 1 .. Len(list) + 1 /\ list' = InsertAt(list, k, h)
      BY <3>1, <3>3
    <3> HIDE DEF k
    <3>8. /\ list' \in Seq(Handles) /\ list' # <<>>
          /\ \A m \in 1 .. Len(list') : list'[m] = h \/ \E n \in 1 .. Len(list) : list'[m] = list[n]
          /\ \A n \in 1 .. Len(list) : \E m \in 1 .. Len(list') : list'[m] = list[n]
          /\ \E m \in 1 .. Len(list') : list'[m] = h
          /\ \A m, n \in 1 .. Len(list') : list'[m] = list'[n] => m = n
      BY <1>5, <3>7
    <3> QED
      BY <1>4, <3>4, <3>6, <3>8, Zenon
  <2> QED
    BY <2>6, <2>7
<1> QED
  BY <1>6, <1>7

LEMMA AddTimerInv ==
  ASSUME Punctual, TimerInv, NEW t \in Tasks, AddTimer(t)
  PROVE  TimerInv'
<1> USE TimerAssumption DEF entries, asked
<1> DEFINE h == Handle(t)
           i == Timer(t)
<1>1. /\ hisr = "off" /\ pc[t] = "add" /\ passed' = 0 /\ told' = None
      /\ t_index' = [t_index EXCEPT ![h] = i] /\ p_ticks' = [p_ticks EXCEPT ![h] = op[t].p]
      /\ left' = [left EXCEPT ![i] = op[t].v] /\ period' = [period EXCEPT ![i] = op[t].p]
      /\ pc' = [pc EXCEPT ![t] = "release"]
      /\ os_add_timer_to_list(h, op[t].v, 0)
      /\ UNCHANGED <<hisr, p_list, handle, periodic, occurred, t_list_access, sem, queue, op>>
  BY InTime DEF AddTimer, Quiet, Timer, Handle
<1>2. /\ op[t] \in Ops /\ op[t].v \in Ticks /\ op[t].p \in Ticks /\ Starts(t)
      /\ i \in Timers /\ Owner[i] = t /\ h \in Handles /\ h # 0 /\ handle[i] = h
  BY <1>1, WorkTypes DEF TimerInv, WorkInv, Works, Ops
<1>3. status[h] = "USED" /\ ~occurred[i] /\ (periodic[i] <=> op[t].p # 0)
  BY <1>1, <1>2 DEF TimerInv, EntryInv, KeepsEntry
<1>4. pc'[t] = "release" /\ \A u \in Tasks : u # t => pc'[u] = pc[u]
  BY <1>1 DEF TimerInv, TypeOK
<1> HIDE DEF h, i
<1>5. /\ list' \in Seq(Handles) /\ r_ticks' \in [Handles -> Nat]
      /\ elapsed' \in Nat /\ nu' \in Nat
      /\ status' = [status EXCEPT ![h] = "ACTIVE"]
      /\ \A m \in 1 .. Len(list') : list'[m] = h \/ \E n \in 1 .. Len(list) : list'[m] = list[n]
      /\ \A n \in 1 .. Len(list) : \E m \in 1 .. Len(list') : list'[m] = list[n]
      /\ \E m \in 1 .. Len(list') : list'[m] = h
      /\ \A m, n \in 1 .. Len(list') : list'[m] = list'[n] => m = n
      /\ list' # <<>> /\ nu' # 0 /\ nu' + elapsed' = r_ticks'[list'[1]]
  <2> DEFINE ticks == IF op[t].v = 0 THEN 1 ELSE op[t].v
  <2>1. AddTicks(h, ticks, 0)
    BY <1>1, Zenon DEF os_add_timer_to_list
  <2>2. ticks \in Nat /\ ticks # 0
    <3>1. op[t].v \in Nat
      BY <1>2, TickTypes, Zenon
    <3> QED
      BY <3>1
  <2> HIDE DEF ticks
  <2> QED
    BY <1>1, <1>2, <1>3, <2>1, <2>2, Added
<1>6. \A m \in 1 .. Len(list') : list'[m] = h \/ \E n \in 1 .. Len(list) : list'[m] = list[n]
  BY <1>5
<1>7. \A n \in 1 .. Len(list) : \E m \in 1 .. Len(list') : list'[m] = list[n]
  BY <1>5
<1>8. TypeOK'
  <2>1. period' \in [Timers -> Ticks] /\ left' \in [Timers -> Nat \cup {None}]
    BY <1>1, <1>2, TickTypes DEF TimerInv, TypeOK
  <2>2. status' \in [Handles -> {"FREE", "USED", "ACTIVE"}]
    BY <1>5 DEF TimerInv, TypeOK
  <2>3. pc' \in [Tasks -> {"ready", "obtain", "remove", "add", "release", "destroy"}]
    BY <1>1 DEF TimerInv, TypeOK
  <2>4. passed' \in 0 .. MaxLate
    BY <1>1
  <2>5. t_index' \in [Handles -> Timers \cup {None}] /\ p_ticks' \in [Handles -> Ticks]
    BY <1>1, <1>2 DEF TimerInv, TypeOK
  <2> QED
    BY <1>1, <1>5, <2>1, <2>2, <2>3, <2>4, <2>5 DEF TimerInv, TypeOK
<1>9. /\ t_index'[h] = i /\ p_ticks'[h] = op[t].p /\ status'[h] = "ACTIVE"
      /\ \A g \in Handles : g # h => /\ t_index'[g] = t_index[g] /\ p_ticks'[g] = p_ticks[g]
                                    /\ status'[g] = status[g]
  BY <1>1, <1>2, <1>5 DEF TimerInv, TypeOK
\* A timer in the list is the one that is added, or was in the list.
<1>10. ASSUME NEW k \in 1 .. Len(list'), list'[k] # h
       PROVE  \E n \in 1 .. Len(list) :
                /\ list'[k] = list[n] /\ t_index'[list'[k]] = t_index[list[n]]
                /\ p_ticks'[list'[k]] = p_ticks[list[n]]
  <2>1. PICK n \in 1 .. Len(list) : list'[k] = list[n]
    BY <1>6, <1>10
  <2>2. list[n] \in Handles
    BY ListTypes DEF TimerInv
  <2> QED
    BY <1>9, <1>10, <2>1, <2>2
<1>11. HandlesAccounted'
  <2>1. \A g \in Handles : status'[g] # "FREE" <=> \E j \in Timers : handle[j] = g
    BY <1>2, <1>9 DEF TimerInv, HandlesAccounted
  <2>2. ASSUME NEW g \in Handles
        PROVE  status'[g] = "ACTIVE" <=> \E k \in 1 .. Len(list') : list'[k] = g
    <3>1. status'[g] = "ACTIVE" <=> g = h \/ \E n \in 1 .. Len(list) : list[n] = g
      BY <1>9 DEF TimerInv, HandlesAccounted
    <3>2. \E k \in 1 .. Len(list') : list'[k] = h
      BY <1>5
    <3>3. g = h \/ (\E n \in 1 .. Len(list) : list[n] = g) <=> \E k \in 1 .. Len(list') : list'[k] = g
      BY <1>6, <1>7, <3>2, Zenon
    <3> QED
      BY <3>1, <3>3
  <2>3. ASSUME NEW k \in 1 .. Len(list')
        PROVE  handle[t_index'[list'[k]]] = list'[k]
    <3>1. CASE list'[k] = h
      BY <1>2, <1>9, <3>1
    <3>2. CASE list'[k] # h
      <4>1. \A n \in 1 .. Len(list) : handle[t_index[list[n]]] = list[n]
        BY DEF TimerInv, HandlesAccounted
      <4> QED
        BY <1>10, <3>2, <4>1
    <3> QED
      BY <3>1, <3>2
  <2> QED
    BY <1>1, <2>1, <2>2, <2>3 DEF TimerInv, HandlesAccounted
<1>12. \A k \in 1 .. Len(list') : t_index'[list'[k]] \in Timers
  <2> TAKE k \in 1 .. Len(list')
  <2>1. CASE list'[k] = h
    BY <1>2, <1>9, <2>1
  <2>2. CASE list'[k] # h
    BY <1>10, <2>2, Zenon DEF TimerInv, ListInv
  <2> QED
    BY <2>1, <2>2
<1>13. ListInv' /\ QueueInv'
  <2>1. \A m, n \in 1 .. Len(list') : list'[m] = list'[n] => m = n
    BY <1>5
  <2> QED
    BY <1>1, <1>12, <2>1 DEF TimerInv, ListInv, QueueInv
<1>14. \A j \in Timers : j # i => handle[j] # h
  BY <1>2 DEF TimerInv, HandlesAccounted
<1>15. ASSUME NEW u \in Tasks, u # t, pc[u] # "ready"
       PROVE  Handle(u) \in Handles /\ Handle(u) # h
  BY <1>2, <1>14, <1>15, WorkTypes DEF TimerInv
<1>16. WorkInv'
  BY <1>1, <1>2, <1>4 DEF TimerInv, WorkInv, Works, Timer, Handle, Starts
<1>17. LockInv'
  BY <1>1, <1>4 DEF TimerInv, LockInv
<1>18. EntryInv'
  <2> SUFFICES ASSUME NEW u \in Tasks PROVE KeepsEntry(u)'
    BY DEF EntryInv
  <2>1. CASE u = t
    BY <1>1, <1>2, <1>4, <2>1 DEF KeepsEntry, Starts
  <2>2. CASE u # t
    BY <1>1, <1>4, <1>9, <1>15, <2>2 DEF TimerInv, EntryInv, KeepsEntry, Timer, Handle, Starts
  <2> QED
    BY <2>1, <2>2
<1>19. ExpiredInv'
  BY <1>1, <1>3, <1>9, <1>14 DEF TimerInv, TypeOK, ExpiredInv
<1>20. ASSUME NEW k \in 1 .. Len(list'), NEW j \in Timers, j = t_index'[list'[k]], ~BeingStarted(j)'
       PROVE  p_ticks'[list'[k]] # 0 <=> periodic[j]
  <2>1. CASE list'[k] = h
    BY <1>3, <1>9, <1>20, <2>1
  <2>2. CASE list'[k] # h
    <3>1. PICK n \in 1 .. Len(list) : /\ list'[k] = list[n] /\ t_index'[list'[k]] = t_index[list[n]]
                                     /\ p_ticks'[list'[k]] = p_ticks[list[n]]
      BY <1>10, <2>2
    <3>2. ~BeingStarted(j)
      BY <1>1, <1>4, <1>20 DEF BeingStarted, Timer, Starts
    <3> QED
      BY <1>20, <3>1, <3>2 DEF TimerInv, PeriodicInv
  <2> QED
    BY <2>1, <2>2
<1>21. PeriodicInv'
  BY <1>1, <1>12, <1>20 DEF PeriodicInv, BeingStarted, Timer, Starts
<1>22. AgainInv' /\ ArmedInv' /\ RestartInv'
  BY <1>1, <1>5 DEF TimerInv, LockInv, AgainInv, ArmedInv, NextIsArmed, RestartInv
<1> QED
  BY <1>8, <1>11, <1>13, <1>16, <1>17, <1>18, <1>19, <1>21, <1>22 DEF TimerInv

LEMMA StartAgainInv ==
  ASSUME Punctual, TimerInv, StartAgain
  PROVE  TimerInv'
<1> USE TimerAssumption DEF entries, locks, tasks, asked
<1> DEFINE h == Head(p_list)
           i == t_index[h]
<1>1. /\ hisr = "again" /\ told' = None
      /\ p_list' = Tail(p_list) /\ hisr' = IF p_list' = <<>> THEN "off" ELSE "again"
      /\ UNCHANGED <<entries, t_index, p_ticks, locks, queue, tasks, asked>>
      /\ os_add_timer_to_list(h, p_ticks[h], 0)
  BY DEF StartAgain, Restarting
<1>2. /\ p_list # <<>> /\ p_list \in Seq(Handles) /\ Len(p_list) \in Nat
      /\ 1 \in 1 .. Len(p_list) /\ h = p_list[1] /\ h \in Handles
  BY <1>1 DEF TimerInv, LockInv, TypeOK
<1>3. /\ Tail(p_list) \in Seq(Handles) /\ Len(Tail(p_list)) = Len(p_list) - 1
      /\ \A n \in 1 .. Len(Tail(p_list)) : Tail(p_list)[n] = p_list[n + 1]
  BY <1>2, HeadTailProperties, Zenon
<1>4. /\ status[h] = "USED" /\ p_ticks[h] # 0 /\ i \in Timers /\ handle[i] = h
      /\ periodic[i] /\ \A t \in Tasks : pc[t] = "destroy" => Handle(t) # h
  BY <1>2 DEF TimerInv, AgainInv
<1>5. \A t \in Tasks : pc[t] \notin {"remove", "add", "release"}
  BY <1>1 DEF TimerInv, LockInv
<1> HIDE DEF h, i
<1>6. /\ list' \in Seq(Handles) /\ r_ticks' \in [Handles -> Nat]
      /\ elapsed' \in Nat /\ nu' \in Nat
      /\ status' = [status EXCEPT ![h] = "ACTIVE"]
      /\ \A m \in 1 .. Len(list') : list'[m] = h \/ \E n \in 1 .. Len(list) : list'[m] = list[n]
      /\ \A n \in 1 .. Len(list) : \E m \in 1 .. Len(list') : list'[m] = list[n]
      /\ \E m \in 1 .. Len(list') : list'[m] = h
      /\ \A m, n \in 1 .. Len(list') : list'[m] = list'[n] => m = n
      /\ list' # <<>> /\ nu' # 0 /\ nu' + elapsed' = r_ticks'[list'[1]]
  <2>1. AddTicks(h, p_ticks[h], 0)
    BY <1>1, <1>4, Zenon DEF os_add_timer_to_list
  <2>2. p_ticks[h] \in Ticks
    BY <1>2 DEF TimerInv, TypeOK
  <2>3. p_ticks[h] \in Nat
    BY <2>2, TickTypes, Zenon
  <2> QED
    BY <1>1, <1>2, <1>4, <2>1, <2>3, Added
<1>7. \A m \in 1 .. Len(list') : list'[m] = h \/ \E n \in 1 .. Len(list) : list'[m] = list[n]
  BY <1>6
<1>8. \A n \in 1 .. Len(list) : \E m \in 1 .. Len(list') : list'[m] = list[n]
  BY <1>6
<1>9. status'[h] = "ACTIVE" /\ \A g \in Handles : g # h => status'[g] = status[g]
  <2>1. h \in Handles /\ status' = [status EXCEPT ![h] = "ACTIVE"]
    BY <1>2, <1>6
  <2>2. status \in [Handles -> {"FREE", "USED", "ACTIVE"}]
    BY DEF TimerInv, TypeOK
  <2> QED
    BY <2>1, <2>2
<1>10. TypeOK'
  <2>1. status' \in [Handles -> {"FREE", "USED", "ACTIVE"}]
    BY <1>6 DEF TimerInv, TypeOK
  <2> QED
    BY <1>1, <1>3, <1>6, <2>1 DEF TimerInv, TypeOK
<1>11. HandlesAccounted'
  <2>1. \A g \in Handles : status'[g] # "FREE" <=> \E j \in Timers : handle[j] = g
    BY <1>4, <1>9 DEF TimerInv, HandlesAccounted
  <2>2. ASSUME NEW g \in Handles
        PROVE  status'[g] = "ACTIVE" <=> \E k \in 1 .. Len(list') : list'[k] = g
    <3>1. status'[g] = "ACTIVE" <=> g = h \/ \E n \in 1 .. Len(list) : list[n] = g
      BY <1>9 DEF TimerInv, HandlesAccounted
    <3>2. \E k \in 1 .. Len(list') : list'[k] = h
      BY <1>6
    <3>3. g = h \/ (\E n \in 1 .. Len(list) : list[n] = g) <=> \E k \in 1 .. Len(list') : list'[k] = g
      BY <1>7, <1>8, <3>2, Zenon
    <3> QED
      BY <3>1, <3>3
  <2>3. ASSUME NEW k \in 1 .. Len(list')
        PROVE  handle[t_index[list'[k]]] = list'[k]
    <3>1. \A n \in 1 .. Len(list) : handle[t_index[list[n]]] = list[n]
      BY DEF TimerInv, HandlesAccounted
    <3> QED
      BY <1>4, <1>7, <3>1 DEF i
  <2> QED
    BY <1>1, <2>1, <2>2, <2>3 DEF TimerInv, HandlesAccounted
<1>12. \A k \in 1 .. Len(list') : t_index[list'[k]] \in Timers
  <2>1. \A n \in 1 .. Len(list) : t_index[list[n]] \in Timers
    BY DEF TimerInv, ListInv
  <2> QED
    BY <1>4, <1>7, <2>1 DEF i
<1>13. ListInv' /\ QueueInv'
  <2>1. \A m, n \in 1 .. Len(list') : list'[m] = list'[n] => m = n
    BY <1>6
  <2> QED
    BY <1>1, <1>12, <2>1 DEF TimerInv, ListInv, QueueInv
<1>14. WorkInv'
  BY <1>1 DEF TimerInv, WorkInv, Works, Timer, Handle, Starts
<1>15. EntryInv'
  <2> SUFFICES ASSUME NEW u \in Tasks PROVE KeepsEntry(u)'
    BY DEF EntryInv
  <2>1. pc[u] = "destroy" => Handle(u) \in Handles
    BY WorkTypes DEF TimerInv
  <2>2. KeepsEntry(u)
    BY DEF TimerInv, EntryInv
  <2> QED
    BY <1>1, <1>4, <1>5, <1>9, <2>1, <2>2 DEF KeepsEntry, Timer, Handle, Starts
<1>16. ExpiredInv'
  <2>1. \A j \in Timers : j # i => handle[j] # h
    <3>1. h # 0
      BY <1>2 DEF Handles
    <3>2. \A j, k \in Timers : handle[j] = handle[k] /\ handle[j] # 0 => j = k
      BY DEF TimerInv, HandlesAccounted
    <3> QED
      BY <1>4, <3>1, <3>2
  <2> QED
    BY <1>1, <1>4, <1>9, <2>1 DEF TimerInv, TypeOK, ExpiredInv
<1>17. ASSUME NEW k \in 1 .. Len(list'), NEW j \in Timers, j = t_index[list'[k]], ~BeingStarted(j)
       PROVE  p_ticks[list'[k]] # 0 <=> periodic[j]
  <2>1. CASE list'[k] = h
    BY <1>4, <1>17, <2>1 DEF i
  <2>2. CASE list'[k] # h
    BY <1>7, <1>17, <2>2 DEF TimerInv, PeriodicInv
  <2> QED
    BY <2>1, <2>2
<1>18. PeriodicInv'
  BY <1>1, <1>12, <1>17 DEF PeriodicInv, BeingStarted, Timer, Starts
<1>19. AgainInv'
  <2>1. \A j, k \in 1 .. Len(p_list') : p_list'[j] = p_list'[k] => j = k
    BY <1>1, <1>2, <1>3 DEF TimerInv, AgainInv
  <2>2. ASSUME NEW k \in 1 .. Len(p_list')
        PROVE  \E n \in 1 .. Len(p_list) :
                 p_list'[k] = p_list[n] /\ status'[p_list[n]] = status[p_list[n]]
    <3>1. k + 1 \in 1 .. Len(p_list) /\ k + 1 # 1 /\ p_list'[k] = p_list[k + 1]
      BY <1>1, <1>2, <1>3
    <3>2. p_list[k + 1] # h /\ p_list[k + 1] \in Handles
      BY <1>2, <3>1 DEF TimerInv, AgainInv
    <3> QED
      BY <1>9, <3>1, <3>2
  <2>3. ASSUME NEW k \in 1 .. Len(p_list')
        PROVE  /\ status'[p_list'[k]] = "USED" /\ p_ticks[p_list'[k]] # 0
               /\ t_index[p_list'[k]] \in Timers
               /\ handle[t_index[p_list'[k]]] = p_list'[k]
               /\ periodic[t_index[p_list'[k]]] /\ ~BeingStarted(t_index[p_list'[k]])
               /\ \A t \in Tasks : pc[t] = "destroy" => Handle(t) # p_list'[k]
    <3>1. PICK n \in 1 .. Len(p_list) :
            p_list'[k] = p_list[n] /\ status'[p_list[n]] = status[p_list[n]]
      BY <2>2
    <3> QED
      BY <3>1 DEF TimerInv, AgainInv
  <2> QED
    BY <1>1, <2>1, <2>3 DEF AgainInv, BeingStarted, Timer, Handle, Starts
<1>20. LockInv'
  BY <1>1 DEF TimerInv, LockInv
<1>21. ArmedInv' /\ RestartInv'
  BY <1>1, <1>6 DEF ArmedInv, NextIsArmed, RestartInv
<1> QED
  BY <1>10, <1>11, <1>13, <1>14, <1>15, <1>16, <1>18, <1>19, <1>20, <1>21 DEF TimerInv

LEMMA ExpiryInv ==
  ASSUME Punctual, TimerInv, os_Timeout
  PROVE  TimerInv'
<1> USE TimerAssumption DEF locks, tasks
<1> DEFINE h == Head(list)
           i == t_index[h]
           more == Tail(list) # <<>> /\ r_ticks[Head(Tail(list))] = 0
<1>1. /\ hisr = "timeout" /\ ~t_list_access /\ told' = None
      /\ list' = Tail(list) /\ r_ticks' = [r_ticks EXCEPT ![h] = 0]
      /\ elapsed' = IF more THEN elapsed ELSE 0
      /\ nu' = IF more \/ Tail(list) = <<>> THEN 0 ELSE r_ticks[Head(Tail(list))]
      /\ status' = [status EXCEPT ![h] = "USED"]
      /\ p_list' = IF p_ticks[h] # 0 THEN Append(p_list, h) ELSE p_list
      /\ hisr' = IF more THEN "timeout" ELSE IF p_list' = <<>> THEN "off" ELSE "again"
      /\ occurred' = [occurred EXCEPT ![i] = TRUE]
      /\ queue' = [queue EXCEPT ![Owner[i]] = Append(@, i)]
      /\ left' = [left EXCEPT ![i] = IF period[i] = 0 THEN None ELSE period[i]]
      /\ UNCHANGED <<handle, periodic, t_index, p_ticks, locks, tasks, period>>
  BY DEF os_Timeout, Restarting
<1>2. /\ list # <<>> /\ nu = 0
      /\ list \in Seq(Handles) /\ Len(list) \in Nat
      /\ 1 \in 1 .. Len(list) /\ h = list[1] /\ h \in Handles /\ h # 0
  <2>1. list # <<>> /\ nu = 0 /\ list \in Seq(Handles)
    BY <1>1 DEF TimerInv, ArmedInv, TypeOK
  <2> QED
    BY <2>1 DEF Handles
<1>3. /\ Tail(list) \in Seq(Handles) /\ Len(Tail(list)) = Len(list) - 1
      /\ \A n \in 1 .. Len(Tail(list)) : Tail(list)[n] = list[n + 1]
  BY <1>2, HeadTailProperties, Zenon
<1>4. i \in Timers /\ handle[i] = h /\ status[h] = "ACTIVE" /\ Owner[i] \in Tasks
  BY <1>2, ListTypes DEF TimerInv, HandlesAccounted, ListInv
<1>5. \A t \in Tasks : pc[t] \notin {"remove", "add", "release"}
  BY <1>1 DEF TimerInv, LockInv
<1>6. \A t \in Tasks : ~(pc[t] = "obtain" /\ Starts(t) /\ Timer(t) = i)
  <2> SUFFICES ASSUME NEW t \in Tasks, pc[t] = "obtain", Starts(t), Timer(t) = i PROVE FALSE
    OBVIOUS
  <2>1. Handle(t) = list[1]
    BY <1>2, <1>4 DEF Handle
  <2>2. \A m \in 2 .. 1 : r_ticks[list[m]] = 0
    OBVIOUS
  <2> QED
    BY <1>1, <1>2, <2>1, <2>2 DEF TimerInv, RestartInv
<1>7. ~BeingStarted(i)
  BY <1>4, <1>5, <1>6 DEF BeingStarted
<1>8. p_ticks[h] # 0 <=> periodic[i]
  BY <1>2, <1>7 DEF TimerInv, PeriodicInv
<1>9. \A t \in Tasks : pc[t] = "destroy" => Handle(t) # h /\ Handle(t) \in Handles
  BY <1>4, WorkTypes DEF TimerInv, EntryInv, KeepsEntry, WorkInv, Works
\* What follows the head moves up.
<1>10. \A n \in 1 .. Len(list') : n + 1 \in 1 .. Len(list) /\ list'[n] = list[n + 1]
                                 /\ list'[n] # h /\ list'[n] \in Handles
  <2> TAKE n \in 1 .. Len(list')
  <2>1. n + 1 \in 1 .. Len(list) /\ n + 1 # 1 /\ list'[n] = list[n + 1]
    BY <1>1, <1>2, <1>3
  <2> QED
    BY <1>2, <2>1, ListTypes DEF TimerInv, ListInv
<1> HIDE DEF h, i, more
<1>11. status'[h] = "USED" /\ \A g \in Handles : g # h => status'[g] = status[g]
  <2>1. status \in [Handles -> {"FREE", "USED", "ACTIVE"}]
    BY DEF TimerInv, TypeOK
  <2> QED
    BY <1>1, <1>2, <2>1
<1>12. occurred'[i] /\ \A j \in Timers : j # i => occurred'[j] = occurred[j]
  BY <1>1, <1>4 DEF TimerInv, TypeOK
<1>13. TypeOK'
  <2>1. status' \in [Handles -> {"FREE", "USED", "ACTIVE"}] /\ occurred' \in [Timers -> BOOLEAN]
    BY <1>1 DEF TimerInv, TypeOK
  <2>2. p_list' \in Seq(Handles)
    BY <1>1, <1>2 DEF TimerInv, TypeOK
  <2>3. queue' \in [Tasks -> Seq(Timers)]
    <3>1. Append(queue[Owner[i]], i) \in Seq(Timers)
      BY <1>4 DEF TimerInv, TypeOK
    <3> QED
      BY <1>1, <3>1 DEF TimerInv, TypeOK
  <2>4. left' \in [Timers -> Nat \cup {None}]
    <3>1. period[i] \in Nat
      BY <1>4, TickTypes DEF TimerInv, TypeOK
    <3> QED
      BY <1>1, <3>1 DEF TimerInv, TypeOK
  <2>5. r_ticks' \in [Handles -> Nat]
    BY <1>1 DEF TimerInv, TypeOK
  <2>6. elapsed' \in Nat
    BY <1>1 DEF TimerInv, TypeOK
  <2>7. nu' \in Nat
    <3>1. Tail(list) # <<>> => Head(Tail(list)) \in Handles
      BY <1>3
    <3> QED
      BY <1>1, <3>1 DEF TimerInv, TypeOK
  <2>8. hisr' \in {"off", "timeout", "again"}
    BY <1>1
  <2> QED
    BY <1>1, <1>3, <2>1, <2>2, <2>3, <2>4, <2>5, <2>6, <2>7, <2>8 DEF TimerInv, TypeOK
<1>14. HandlesAccounted'
  <2>1. \A g \in Handles : status'[g] # "FREE" <=> \E j \in Timers : handle[j] = g
    BY <1>4, <1>11 DEF TimerInv, HandlesAccounted
  <2>2. ASSUME NEW g \in Handles
        PROVE  status'[g] = "ACTIVE" <=> \E k \in 1 .. Len(list') : list'[k] = g
    <3>1. status'[g] = "ACTIVE" <=> g # h /\ \E n \in 1 .. Len(list) : list[n] = g
      BY <1>11 DEF TimerInv, HandlesAccounted
    <3>2. ASSUME NEW n \in 1 .. Len(list), list[n] = g, g # h
          PROVE  \E k \in 1 .. Len(list') : list'[k] = g
      <4>1. n - 1 \in 1 .. Len(list') /\ list'[n - 1] = g
        BY <1>1, <1>2, <1>3, <3>2
      <4> QED
        BY <4>1
    <3>3. ASSUME NEW k \in 1 .. Len(list'), list'[k] = g
          PROVE  g # h /\ \E n \in 1 .. Len(list) : list[n] = g
      BY <1>10, <3>3
    <3> QED
      BY <3>1, <3>2, <3>3
  <2>3. \A k \in 1 .. Len(list') : handle[t_index[list'[k]]] = list'[k]
    BY <1>10 DEF TimerInv, HandlesAccounted
  <2> QED
    BY <1>1, <2>1, <2>2, <2>3 DEF TimerInv, HandlesAccounted
<1>15. ListInv'
  <2>1. \A j, k \in 1 .. Len(list') : list'[j] = list'[k] => j = k
    <3> TAKE j, k \in 1 .. Len(list')
    <3>1. list'[j] = list'[k] => j + 1 = k + 1
      BY <1>10 DEF TimerInv, ListInv
    <3> QED
      BY <1>1, <1>2, <1>3, <3>1
  <2>2. \A k \in 1 .. Len(list') : t_index[list'[k]] \in Timers
    BY <1>10 DEF TimerInv, ListInv
  <2> QED
    BY <1>1, <2>1, <2>2 DEF ListInv
<1>16. QueueInv'
  <2> SUFFICES ASSUME NEW u \in Tasks, NEW m \in 1 .. Len(queue'[u])
               PROVE  Owner[queue'[u][m]] = u
    BY DEF QueueInv
  <2>1. CASE u = Owner[i]
    <3>1. queue'[u] = Append(queue[u], i) /\ queue[u] \in Seq(Timers)
      BY <1>1, <2>1 DEF TimerInv, TypeOK
    <3>2. CASE m \in 1 .. Len(queue[u])
      BY <3>1, <3>2 DEF TimerInv, QueueInv
    <3>3. CASE m = Len(queue[u]) + 1
      BY <2>1, <3>1, <3>3
    <3> QED
      BY <3>1, <3>2, <3>3
  <2>2. CASE u # Owner[i]
    BY <1>1, <2>2 DEF TimerInv, TypeOK, QueueInv
  <2> QED
    BY <2>1, <2>2
<1>17. WorkInv' /\ LockInv'
  BY <1>1 DEF TimerInv, WorkInv, Works, Timer, Handle, Starts, LockInv
<1>18. EntryInv'
  <2> SUFFICES ASSUME NEW u \in Tasks PROVE KeepsEntry(u)'
    BY DEF EntryInv
  <2>1. pc[u] # "ready" => Timer(u) \in Timers
    BY WorkTypes DEF TimerInv
  <2>2. KeepsEntry(u)
    BY DEF TimerInv, EntryInv
  <2> QED
    BY <1>1, <1>5, <1>6, <1>9, <1>11, <1>12, <2>1, <2>2 DEF KeepsEntry, Timer, Handle, Starts
<1>19. ExpiredInv'
  BY <1>1, <1>2, <1>4, <1>11, <1>12 DEF TimerInv, TypeOK, ExpiredInv
<1>20. PeriodicInv'
  <2>1. ASSUME NEW k \in 1 .. Len(list'), NEW j \in Timers, j = t_index[list'[k]], ~BeingStarted(j)
        PROVE  p_ticks[list'[k]] # 0 <=> periodic[j]
    <3>1. k + 1 \in 1 .. Len(list) /\ list'[k] = list[k + 1]
      BY <1>10
    <3> DEFINE n == k + 1
    <3>2. n \in 1 .. Len(list) /\ list'[k] = list[n]
      BY <3>1
    <3> HIDE DEF n
    <3> QED
      BY <2>1, <3>2 DEF TimerInv, PeriodicInv
  <2> QED
    BY <1>1, <1>15, <2>1 DEF ListInv, PeriodicInv, BeingStarted, Timer, Starts
<1>21. AgainInv'
  <2> DEFINE Again(g) ==
        /\ status'[g] = "USED" /\ p_ticks[g] # 0
        /\ t_index[g] \in Timers
        /\ handle[t_index[g]] = g
        /\ periodic[t_index[g]] /\ ~BeingStarted(t_index[g])
        /\ \A t \in Tasks : pc[t] = "destroy" => Handle(t) # g
  <2>1. ASSUME NEW k \in 1 .. Len(p_list) PROVE p_list[k] # h /\ Again(p_list[k])
    <3>1. p_list[k] \in Handles /\ status[p_list[k]] = "USED"
      BY DEF TimerInv, TypeOK, AgainInv
    <3>2. p_list[k] # h /\ status'[p_list[k]] = "USED"
      BY <1>4, <1>11, <3>1
    <3> QED
      BY <3>2 DEF TimerInv, AgainInv
  <2>2. p_ticks[h] # 0 => Again(h)
    BY <1>4, <1>7, <1>8, <1>9, <1>11 DEF i
  <2> HIDE DEF Again
  <2>3. /\ \A k \in 1 .. Len(p_list') : Again(p_list'[k])
        /\ \A j, k \in 1 .. Len(p_list') : p_list'[j] = p_list'[k] => j = k
    <3>1. p_list \in Seq(Handles) /\ \A j, k \in 1 .. Len(p_list) : p_list[j] = p_list[k] => j = k
      BY DEF TimerInv, TypeOK, AgainInv
    <3>2. CASE p_ticks[h] = 0
      BY <1>1, <2>1, <3>1, <3>2
    <3>3. CASE p_ticks[h] # 0
      <4>1. p_list' = Append(p_list, h) /\ Len(p_list) \in Nat
        BY <1>1, <3>1, <3>3
      <4>2. /\ Len(p_list') = Len(p_list) + 1 /\ p_list'[Len(p_list) + 1] = h
            /\ \A k \in 1 .. Len(p_list) : p_list'[k] = p_list[k]
        BY <1>2, <3>1, <4>1, AppendProperties
      <4>3. \A k \in 1 .. Len(p_list') : k \in 1 .. Len(p_list) \/ k = Len(p_list) + 1
        BY <4>1, <4>2
      <4> QED
        BY <2>1, <2>2, <3>1, <3>3, <4>2, <4>3
    <3> QED
      BY <3>2, <3>3
  <2> QED
    BY <1>1, <2>3, SMTT(20) DEF Again, AgainInv, BeingStarted, Timer, Handle, Starts
<1>22. list' # <<>> =>
         /\ 2 \in 1 .. Len(list) /\ Head(Tail(list)) = list[2] /\ list'[1] = list[2]
         /\ r_ticks'[list[2]] = r_ticks[list[2]] /\ r_ticks[list[2]] \in Nat
  <2> SUFFICES ASSUME list' # <<>>
               PROVE  /\ 2 \in 1 .. Len(list) /\ Head(Tail(list)) = list[2] /\ list'[1] = list[2]
                      /\ r_ticks'[list[2]] = r_ticks[list[2]] /\ r_ticks[list[2]] \in Nat
    OBVIOUS
  <2>1. 1 \in 1 .. Len(list') /\ Head(list') = list'[1]
    BY <1>1, <1>3
  <2>2. 2 \in 1 .. Len(list) /\ list'[1] = list[2] /\ list[2] # h /\ list[2] \in Handles
    BY <1>10, <2>1
  <2> QED
    BY <1>1, <2>1, <2>2 DEF TimerInv, TypeOK
<1>23. ArmedInv'
  <2>1. CASE list' = <<>>
    BY <1>1, <2>1 DEF ArmedInv, NextIsArmed, more
  <2>2. CASE list' # <<>> /\ more
    BY <1>1, <2>2 DEF ArmedInv, NextIsArmed
  <2>3. CASE list' # <<>> /\ ~more
    <3>1. elapsed' = 0 /\ nu' = r_ticks[list[2]] /\ nu' # 0 /\ hisr' # "timeout"
      BY <1>1, <1>22, <2>3 DEF more
    <3>2. nu' + elapsed' = r_ticks'[list'[1]]
      BY <1>22, <2>3, <3>1
    <3> QED
      BY <2>3, <3>1, <3>2 DEF ArmedInv, NextIsArmed
  <2> QED
    BY <2>1, <2>2, <2>3
<1>24. RestartInv'
  <2> SUFFICES ASSUME hisr' = "timeout", NEW n \in 1 .. Len(list'),
                      \A m \in 2 .. n : r_ticks'[list'[m]] = 0,
                      NEW t \in Tasks, pc[t] = "obtain", Starts(t), Handle(t) = list'[n]
               PROVE  FALSE
    BY <1>1 DEF RestartInv, Handle, Timer, Starts
  <2>1. more
    BY <1>1
  <2>2. n + 1 \in 1 .. Len(list) /\ list'[n] = list[n + 1]
    BY <1>10
  <2>3. ASSUME NEW m \in 2 .. n + 1 PROVE r_ticks[list[m]] = 0
    <3>1. CASE m = 2
      BY <1>1, <1>22, <2>1, <3>1 DEF more
    <3>2. CASE m # 2
      <4>1. m - 1 \in 2 .. n /\ m - 1 \in 1 .. Len(list') /\ (m - 1) + 1 = m
        BY <1>1, <1>2, <1>3, <3>2
      <4>2. list'[m - 1] = list[m] /\ list[m] # h /\ list[m] \in Handles
        BY <1>10, <4>1
      <4>3. r_ticks'[list[m]] = 0
        BY <4>1, <4>2
      <4> QED
        BY <1>1, <4>2, <4>3 DEF TimerInv, TypeOK
    <3> QED
      BY <3>1, <3>2
  <2> QED
    BY <1>1, <2>2, <2>3 DEF TimerInv, RestartInv
<1> QED
  BY <1>13, <1>14, <1>15, <1>16, <1>17, <1>18, <1>19, <1>20, <1>21, <1>23, <1>24 DEF TimerInv

----------------------------------------------------------------------------
(* The theorems                                                             *)

LEMMA InitInv == TimerInit => TimerInv
<1> SUFFICES ASSUME TimerInit PROVE TimerInv
  OBVIOUS
<1> USE TimerAssumption DEF TimerInit
<1>1. list = <<>> /\ Len(list) = 0 /\ p_list = <<>> /\ Len(p_list) = 0
  OBVIOUS
<1>2. TypeOK
  <2>1. 0 \in Ticks /\ 0 \in Handles \cup {0} /\ 0 \in 0 .. MaxLate
    BY TickTypes
  <2>2. list \in Seq(Handles) /\ p_list \in Seq(Handles) /\ <<>> \in Seq(Timers)
    BY <1>1
  <2> QED
    BY <2>1, <2>2 DEF TypeOK
<1>3. HandlesAccounted
  BY <1>1 DEF HandlesAccounted, Handles
<1>4. WorkInv /\ LockInv
  BY DEF WorkInv, Works, LockInv
<1>5. ListInv /\ EntryInv /\ ExpiredInv /\ PeriodicInv
  BY <1>1 DEF ListInv, EntryInv, KeepsEntry, ExpiredInv, PeriodicInv
<1>6. AgainInv /\ ArmedInv /\ RestartInv /\ QueueInv
  BY <1>1 DEF AgainInv, ArmedInv, NextIsArmed, RestartInv, QueueInv
<1> QED
  BY <1>2, <1>3, <1>4, <1>5, <1>6 DEF TimerInv

\* Nothing happens.
LEMMA StutterInv ==
  ASSUME TimerInv, UNCHANGED vars
  PROVE  TimerInv'
<1>1. UNCHANGED <<handle, periodic, occurred, status, t_index, p_ticks, list, r_ticks, elapsed, nu,
                  t_list_access, sem, passed, hisr, p_list, queue, pc, op, told, left, period>>
  BY DEF vars, entries, table, running, locks, tasks, asked
<1>2. TypeOK' /\ HandlesAccounted' /\ QueueInv' /\ WorkInv' /\ LockInv' /\ ListInv' /\ EntryInv'
  BY <1>1 DEF TimerInv, TypeOK, HandlesAccounted, QueueInv, WorkInv, Works, LockInv, ListInv, EntryInv,
              KeepsEntry, Timer, Handle, Starts
<1>3. ExpiredInv' /\ PeriodicInv' /\ AgainInv' /\ ArmedInv' /\ RestartInv'
  BY <1>1 DEF TimerInv, ExpiredInv, PeriodicInv, AgainInv, ArmedInv, NextIsArmed, RestartInv,
              BeingStarted, Timer, Handle, Starts
<1> QED
  BY <1>2, <1>3 DEF TimerInv

\* Every step of the tasks, the clock and the HISR keeps the invariant.
LEMMA NextInv ==
  ASSUME Punctual, TimerInv, [TimerNext]_vars
  PROVE  TimerInv'
<1>1. ASSUME NEW i \in Timers, NEW v \in Values[i], NEW p \in Periods[i] \cup {0}, vsi_t_start(i, v, p)
      PROVE  TimerInv'
  BY <1>1, StartInv
<1>2. ASSUME NEW i \in Timers, vsi_t_stop(i) PROVE TimerInv'
  BY <1>2, StopInv
<1>3. ASSUME NEW t \in Tasks, Obtain(t) \/ RemoveTimer(t) \/ AddTimer(t) \/ Release(t)
      PROVE  TimerInv'
  BY <1>3, ObtainInv, RemoveTimerInv, AddTimerInv, ReleaseInv
<1>4. ASSUME NEW t \in Tasks, Stopped(t) \/ HandleTimeout(t) PROVE TimerInv'
  BY <1>4, StoppedInv, HandleTimeoutInv
<1>5. CASE Tick \/ Postpone \/ os_Timeout \/ StartAgain
  BY <1>5, TickInv, PostponeInv, ExpiryInv, StartAgainInv
<1>6. CASE UNCHANGED vars
  BY <1>6, StutterInv
<1> QED
  BY <1>1, <1>2, <1>3, <1>4, <1>5, <1>6, Zenon DEF TimerNext

\* The invariant: the list, the handles, the entries, the locks and the kernel timer fit
\* each other between any two steps of the tasks and the HISR, as long as the clock is
\* used within the tick it was read in and no timer expires during its own restart.
THEOREM TimersInvariant == Punctual => (TimerSpec => []TimerInv)
<1> SUFFICES ASSUME Punctual PROVE TimerSpec => []TimerInv
  OBVIOUS
<1>1. TimerInit => TimerInv
  BY InitInv
<1>2. TimerInv /\ [TimerNext]_vars => TimerInv'
  BY NextInv
<1> QED
  BY <1>1, <1>2, PTL DEF TimerSpec

\* Handles, ticks, messages and operations stay in their ranges: the times that
\* os_remove_timer_from_list() and os_add_timer_to_list() compute never turn negative.
THEOREM TimerTypes == Punctual => (TimerSpec => []TypeOK)
<1>1. TimerInv => TypeOK
  BY DEF TimerInv
<1> QED
  BY <1>1, TimersInvariant, PTL

\* No handle of os_CreateTimer() is lost or used for two timers, whatever starts, stops,
\* expiries and timeout messages meet.
THEOREM HandlesAreAccounted == Punctual => (TimerSpec => []HandlesAccounted)
<1>1. TimerInv => HandlesAccounted
  BY DEF TimerInv
<1> QED
  BY <1>1, TimersInvariant, PTL

\* The kernel timer runs for the head of the list whenever os_Timeout() is not at work.
THEOREM KernelTimerIsArmed == Punctual => (TimerSpec => []NextIsArmed)
<1>1. TimerInv => NextIsArmed
  BY DEF TimerInv, ArmedInv
<1> QED
  BY <1>1, TimersInvariant, PTL

----------------------------------------------------------------------------
(* The timers implement TimerService: the list of running timers, which     *)
(* holds differences, never tells an entity of a timer before its time,     *)
(* twice, or after it was stopped or started again.                         *)

----------------------------------------------------------------------------
(* Counting                                                                 *)

\* A set of numbers has a least one: the intervals below its members are finite sets, and
\* the strict subset is well-founded on those.
LEMMA LeastNumber ==
  ASSUME NEW T \in SUBSET Nat, T # {}
  PROVE  \E x \in T : \A y \in T : x <= y
<1> DEFINE Below == {0 .. x : x \in T}
<1>1. Below \subseteq FiniteSubsetsOf(Nat)
  <2>1. \A x \in T : IsFiniteSet(0 .. x)
    BY FS_Interval
  <2>2. \A x \in T : 0 .. x \in SUBSET Nat
    OBVIOUS
  <2> QED
    BY <2>1, <2>2 DEF FiniteSubsetsOf
<1>2. Below # {}
  OBVIOUS
<1>3. IsWellFoundedOn(StrictSubsetOrdering(Nat), FiniteSubsetsOf(Nat))
  BY FS_StrictSubsetOrderingWellFounded
<1>4. PICK B \in Below : \A C \in Below : <<C, B>> \notin StrictSubsetOrdering(Nat)
  <2> HIDE DEF Below
  <2> QED
    BY <1>1, <1>2, <1>3, WFMin, Zenon
<1>5. PICK x \in T : B = 0 .. x
  OBVIOUS
<1>6. ASSUME NEW y \in T, y < x
      PROVE  FALSE
  <2>1. 0 .. y \in SUBSET Nat /\ 0 .. x \in SUBSET Nat
    OBVIOUS
  <2>2. 0 .. y \subseteq 0 .. x
    BY <1>6
  <2>3. 0 .. y # 0 .. x
    <3>1. x \in 0 .. x /\ x \notin 0 .. y
      BY <1>6
    <3> QED
      BY <3>1, Zenon
  <2>4. <<0 .. y, B>> \in StrictSubsetOrdering(Nat)
    BY <2>1, <2>2, <2>3, <1>5 DEF StrictSubsetOrdering
  <2> QED
    BY <2>4, <1>4
<1> QED
  BY <1>6

\* What holds of 0, and of a number when it holds of the one before it, holds up to n.
LEMMA Counting ==
  ASSUME NEW n \in Nat, NEW S, 0 \in S, \A k \in 1 .. n : k - 1 \in S => k \in S
  PROVE  0 .. n \subseteq S
<1> SUFFICES ASSUME ~(0 .. n \subseteq S)
             PROVE  FALSE
  OBVIOUS
<1> DEFINE T == {k \in 0 .. n : k \notin S}
<1>1. T \in SUBSET Nat /\ T # {}
  OBVIOUS
<1>2. PICK x \in T : \A y \in T : x <= y
  <2> HIDE DEF T
  <2> QED
    BY <1>1, LeastNumber
<1>3. x \in 0 .. n /\ x \notin S
  OBVIOUS
<1>4. x - 1 \in 0 .. n /\ x - 1 < x
  BY <1>3
<1>5. x - 1 \in S
  BY <1>2, <1>4
<1> QED
  BY <1>3, <1>4, <1>5

----------------------------------------------------------------------------
(* The invariant                                                            *)

\* The ticks that each timer in the list still waits: the kernel timer for the head, and
\* for each other one the difference to the one before it.
Waits(S) ==
  /\ S \in [1 .. Len(list) -> Nat]
  /\ list # <<>> => S[1] = IF hisr = "timeout" THEN 0 ELSE nu
  /\ \A k \in 2 .. Len(list) : S[k] = S[k - 1] + r_ticks[list[k]]

\* A timer in the list may have expired when it does.
Ripe(S) == \A k \in 1 .. Len(list) : left[t_index[list[k]]] \in 0 .. S[k]
LeftInv == \E S : Waits(S) /\ Ripe(S)

\* A running timer has the period it was started with, and a periodic one that has just
\* expired has not longer to go than it.
RunsInv ==
  /\ \A k \in 1 .. Len(list) : period[t_index[list[k]]] = p_ticks[list[k]]
  /\ \A k \in 1 .. Len(p_list) :
       /\ period[t_index[p_list[k]]] = p_ticks[p_list[k]]
       /\ left[t_index[p_list[k]]] \in 0 .. p_ticks[p_list[k]]

ServedInv == LeftInv /\ RunsInv

----------------------------------------------------------------------------
(* The waits                                                                *)

\* The while loop of os_add_timer_to_list() takes from the ticks what the timer it passes
\* waits.
LEMMA TicksAfterFacts ==
  ASSUME list \in Seq(Handles), NEW r \in [Handles -> Nat], NEW ticks \in Nat,
         NEW S \in [1 .. Len(list) -> Nat],
         \A k \in 1 .. Len(list) : S[k] = (IF k = 1 THEN 0 ELSE S[k - 1]) + r[list[k]],
         NEW m \in 1 .. Len(list)
  PROVE  TicksAfter(r, ticks)[m] = ticks - S[m]
<1> DEFINE N == Len(list)
           G == [n \in 0 .. N |-> IF n = 0 THEN ticks ELSE ticks - S[n]]
           W == TicksAfter(r, ticks)
<1>1. N \in Nat /\ \A n \in 1 .. N : list[n] \in Handles
  OBVIOUS
<1>2. G = [n \in 0 .. N |-> IF n = 0 THEN ticks ELSE G[n - 1] - r[list[n]]]
  <2>1. ASSUME NEW n \in 1 .. N
        PROVE  G[n] = G[n - 1] - r[list[n]]
    <3>1. r[list[n]] \in Nat /\ S[n] \in Nat /\ n - 1 \in 0 .. N /\ n \in 0 .. N /\ n # 0
      BY <1>1, SMTT(20)
    <3>2. CASE n = 1
      BY <3>1, <3>2
    <3>3. CASE n # 1
      <4>1. n - 1 \in 1 .. N /\ n - 1 # 0
        BY <1>1, <3>3
      <4>2. S[n - 1] \in Nat /\ S[n] = S[n - 1] + r[list[n]]
        BY <3>3, <4>1
      <4> QED
        BY <3>1, <4>1, <4>2
    <3> QED
      BY <3>2, <3>3
  <2> QED
    BY <1>1, <2>1, SMTT(20)
<1>3. W = [n \in 0 .. N |-> IF n = 0 THEN ticks ELSE W[n - 1] - r[list[n]]]
  <2> HIDE DEF G
  <2> QED
    BY <1>2 DEF TicksAfter
<1> HIDE DEF W
<1> DEFINE Q == {n \in 0 .. N : W[n] = G[n]}
<1>4. 0 \in Q
  BY <1>1, <1>3
<1>5. ASSUME NEW n \in 1 .. N, n - 1 \in Q
      PROVE  n \in Q
  <2>1. n \in 0 .. N /\ n # 0 /\ n - 1 \in 0 .. N
    BY <1>1
  <2>2. W[n] = W[n - 1] - r[list[n]] /\ G[n] = G[n - 1] - r[list[n]]
    <3> HIDE DEF G
    <3> QED
      BY <1>2, <1>3, <2>1
  <2> QED
    BY <1>5, <2>1, <2>2
<1>6. 0 .. N \subseteq Q
  <2>1. \A n \in 1 .. N : n - 1 \in Q => n \in Q
    BY <1>5
  <2> HIDE DEF Q, N
  <2> QED
    BY <1>1, <1>4, <2>1, Counting, Zenon
<1>7. m \in 0 .. N /\ m # 0
  BY <1>1
<1>8. W[m] = G[m]
  BY <1>6, <1>7
<1> QED
  BY <1>7, <1>8 DEF W

\* What each timer waits is not changed when another one is taken out.
LEMMA RemovedWaits ==
  ASSUME Punctual, TimerInv, hisr = "off", NEW k \in 1 .. Len(list),
         os_remove_timer_from_list(k, 0), UNCHANGED hisr, NEW S, Waits(S)
  PROVE  \E R : /\ Waits(R)'
                /\ \A m \in 1 .. Len(list') :
                     \E n \in 1 .. Len(list) : n # k /\ list'[m] = list[n] /\ R[m] = S[n]
<1> DEFINE N == Len(list)
<1>1. list \in Seq(Handles) /\ N \in Nat /\ \A m \in 1 .. N : list[m] \in Handles
  BY ListTypes DEF TimerInv, TypeOK
<1>2. \A m, n \in 1 .. N : list[m] = list[n] => m = n
  BY DEF TimerInv, ListInv
<1>3. /\ Len(list') = N - 1
      /\ \A m \in 1 .. N - 1 : list'[m] = IF m < k THEN list[m] ELSE list[m + 1]
      /\ list' \in Seq(Handles)
  <2>1. list' = RemoveAt(list, k)
    BY DEF os_remove_timer_from_list
  <2> QED
    BY <1>1, <2>1, RemoveAtFacts
<1>4. /\ r_ticks \in [Handles -> Nat] /\ elapsed \in Nat /\ nu \in Nat
      /\ nu + elapsed = r_ticks[list[1]]
  BY <1>1 DEF TimerInv, TypeOK, ArmedInv, NextIsArmed
<1>5. /\ S \in [1 .. N -> Nat] /\ S[1] = nu
      /\ \A m \in 2 .. N : S[m] = S[m - 1] + r_ticks[list[m]]
  BY <1>1 DEF Waits
<1>6. PICK R : R = [m \in 1 .. N - 1 |-> IF m < k THEN S[m] ELSE S[m + 1]]
  OBVIOUS
<1>7. \A m \in 1 .. N - 1 : m < k => m \in 1 .. N /\ R[m] = S[m] /\ list'[m] = list[m]
  BY <1>1, <1>3, <1>6
<1>8. \A m \in 1 .. N - 1 : m >= k => m + 1 \in 1 .. N /\ R[m] = S[m + 1] /\ list'[m] = list[m + 1]
  BY <1>1, <1>3, <1>6
<1>9. R \in [1 .. N - 1 -> Nat]
  <2>1. \A m \in 1 .. N - 1 : (IF m < k THEN S[m] ELSE S[m + 1]) \in Nat
    BY <1>1, <1>5, SMTT(20)
  <2> QED
    BY <1>6, <2>1
<1>10. ASSUME NEW m \in 1 .. N - 1
       PROVE  \E n \in 1 .. N : n # k /\ list'[m] = list[n] /\ R[m] = S[n]
  <2>1. CASE m < k
    BY <1>1, <1>7, <2>1
  <2>2. CASE m >= k
    <3>1. m + 1 \in 1 .. N /\ m + 1 # k
      BY <1>1, <1>8, <2>2
    <3> QED
      BY <1>8, <2>2, <3>1
  <2> QED
    BY <1>1, <2>1, <2>2
<1> DEFINE Follows == \A m \in 2 .. N - 1 : R[m] = R[m - 1] + r_ticks'[list'[m]]
<1>11. (N # 1 => R[1] = nu') /\ Follows
  <2>1. CASE k # 1
    <3>1. nu' = nu /\ r_ticks' = Leaving(k)
      BY <2>1 DEF os_remove_timer_from_list
    <3>2. 1 \in 1 .. N - 1 /\ 1 < k
      BY <1>1, <2>1
    <3>3. R[1] = nu'
      BY <1>5, <1>7, <3>1, <3>2
    <3>4. ASSUME NEW n \in 1 .. N, n # k, n # k + 1
          PROVE  r_ticks'[list[n]] = r_ticks[list[n]]
      <4>1. list[n] \in Handles /\ list[n] # list[k]
        BY <1>1, <1>2, <3>4
      <4>2. k # N => list[n] # list[k + 1]
        BY <1>1, <1>2, <3>4
      <4> QED
        BY <1>4, <3>1, <4>1, <4>2 DEF Leaving
    <3>5. k # N => r_ticks'[list[k + 1]] = r_ticks[list[k + 1]] + r_ticks[list[k]]
      <4>1. k # N => list[k + 1] \in Handles /\ list[k + 1] # list[k]
        BY <1>1, <1>2
      <4> QED
        BY <1>4, <3>1, <4>1 DEF Leaving
    <3>6. ASSUME NEW m \in 2 .. N - 1
          PROVE  R[m] = R[m - 1] + r_ticks'[list'[m]]
      <4>1. m \in 1 .. N - 1 /\ m - 1 \in 1 .. N - 1 /\ m \in 2 .. N /\ m + 1 \in 2 .. N
        BY <1>1
      <4>2. CASE m < k
        <5>1. R[m] = S[m] /\ R[m - 1] = S[m - 1] /\ list'[m] = list[m]
          BY <1>7, <4>1, <4>2
        <5>2. r_ticks'[list[m]] = r_ticks[list[m]]
          BY <1>1, <3>4, <4>1, <4>2
        <5> QED
          BY <1>5, <4>1, <5>1, <5>2
      <4>3. CASE m = k
        <5>1. R[m] = S[m + 1] /\ R[m - 1] = S[m - 1] /\ list'[m] = list[m + 1]
          BY <1>7, <1>8, <4>1, <4>3
        <5>2. S[m + 1] = S[m] + r_ticks[list[m + 1]] /\ S[m] = S[m - 1] + r_ticks[list[m]]
          BY <1>5, <4>1
        <5>3. r_ticks'[list[m + 1]] = r_ticks[list[m + 1]] + r_ticks[list[m]]
          BY <1>1, <3>5, <4>1, <4>3
        <5>4. m \in 1 .. N /\ m - 1 \in 1 .. N /\ m + 1 \in 1 .. N
          BY <1>1, <4>1
        <5>5. S[m - 1] \in Nat /\ r_ticks[list[m]] \in Nat /\ r_ticks[list[m + 1]] \in Nat
          BY <1>1, <1>4, <1>5, <5>4
        <5> QED
          BY <5>1, <5>2, <5>3, <5>5
      <4>4. CASE m > k
        <5>1. R[m] = S[m + 1] /\ R[m - 1] = S[m] /\ list'[m] = list[m + 1]
          BY <1>8, <4>1, <4>4
        <5>2. S[m + 1] = S[m] + r_ticks[list[m + 1]]
          BY <1>5, <4>1
        <5>3. r_ticks'[list[m + 1]] = r_ticks[list[m + 1]]
          BY <1>1, <3>4, <4>1, <4>4
        <5> QED
          BY <5>1, <5>2, <5>3
      <4> QED
        BY <4>1, <4>2, <4>3, <4>4
    <3> QED
      BY <3>3, <3>6
  <2>2. CASE k = 1 /\ N = 1
    BY <2>2
  <2>3. CASE k = 1 /\ N # 1
    <3>1. 1 \in 1 .. N - 1 /\ 2 \in 2 .. N /\ 2 \in 1 .. N
      <4>1. N \in Nat /\ 1 \in 1 .. N /\ N # 1
        BY <1>1, <2>3
      <4>2. \A n \in Nat : 1 \in 1 .. n /\ n # 1 => 1 \in 1 .. n - 1 /\ 2 \in 2 .. n /\ 2 \in 1 .. n
        OBVIOUS
      <4> QED
        BY <4>1, <4>2, Zenon
    <3>2. list[1] \in Handles /\ list[2] \in Handles /\ list[1] # list[2]
      BY <1>1, <1>2, <3>1
    <3>3. r_ticks[list[2]] \in Nat /\ S[2] = nu + r_ticks[list[2]]
      BY <1>4, <1>5, <3>1, <3>2
    <3> DEFINE rest == Unsigned(r_ticks[list[1]] + r_ticks[list[2]] - ClockRead(0))
    <3>4. ClockRead(0) = elapsed
      BY <1>4 DEF ClockRead, Unsigned
    <3>5. rest = S[2]
      BY <1>4, <3>3, <3>4 DEF Unsigned
    <3>6. nu' = rest /\ r_ticks' = [r_ticks EXCEPT ![list[2]] = rest, ![list[1]] = 0]
      BY <2>3 DEF os_remove_timer_from_list
    <3>7. R[1] = nu'
      BY <1>8, <2>3, <3>1, <3>5, <3>6
    <3>8. ASSUME NEW m \in 2 .. N - 1
          PROVE  R[m] = R[m - 1] + r_ticks'[list'[m]]
      <4>1. m \in 1 .. N - 1 /\ m - 1 \in 1 .. N - 1 /\ m + 1 \in 2 .. N /\ m + 1 \in 1 .. N
            /\ m >= k /\ m - 1 >= k /\ m + 1 # 1 /\ m + 1 # 2 /\ m - 1 + 1 = m
        BY <1>1, <2>3
      <4>2. R[m] = S[m + 1] /\ R[m - 1] = S[m] /\ list'[m] = list[m + 1]
        BY <1>8, <4>1
      <4>3. S[m + 1] = S[m] + r_ticks[list[m + 1]]
        BY <1>5, <4>1
      <4>4. list[m + 1] \in Handles /\ list[m + 1] # list[1] /\ list[m + 1] # list[2]
        BY <1>1, <1>2, <3>1, <4>1
      <4>5. r_ticks'[list[m + 1]] = r_ticks[list[m + 1]]
        <5> HIDE DEF rest
        <5> QED
          BY <1>4, <3>6, <4>4
      <4> QED
        BY <4>2, <4>3, <4>5
    <3> QED
      BY <3>7, <3>8
  <2> QED
    BY <2>1, <2>2, <2>3
<1>12. Waits(R)'
  <2>1. list' # <<>> => N # 1
    BY <1>1, <1>3
  <2>2. hisr' # "timeout"
    OBVIOUS
  <2> QED
    BY <1>3, <1>9, <1>11, <2>1, <2>2 DEF Waits
<1>13. \A m \in 1 .. Len(list') :
         \E n \in 1 .. Len(list) : n # k /\ list'[m] = list[n] /\ R[m] = S[n]
  <2>1. \A m \in 1 .. N - 1 : \E n \in 1 .. N : n # k /\ list'[m] = list[n] /\ R[m] = S[n]
    BY <1>10, Zenon
  <2> QED
    BY <1>3, <2>1, Zenon
<1> QED
  BY <1>12, <1>13, Zenon

\* Nor when one is put in, and that one waits the ticks it was started with.
LEMMA AddedWaits ==
  ASSUME Punctual, TimerInv, hisr # "timeout", hisr' # "timeout",
         NEW h \in Handles, status[h] = "USED",
         NEW ticks \in Nat, ticks # 0, AddTicks(h, ticks, 0), NEW S, Waits(S)
  PROVE  \E R : /\ Waits(R)'
                /\ \A m \in 1 .. Len(list') :
                     \/ list'[m] = h /\ R[m] = ticks
                     \/ \E n \in 1 .. Len(list) : list'[m] = list[n] /\ R[m] = S[n]
<1> DEFINE N == Len(list)
<1>1. /\ list \in Seq(Handles) /\ N \in Nat
      /\ \A m \in 1 .. N : list[m] \in Handles /\ list[m] # h
  BY ListTypes DEF TimerInv, TypeOK
<1>2. \A m, n \in 1 .. N : list[m] = list[n] => m = n
  BY DEF TimerInv, ListInv
<1>3. r_ticks \in [Handles -> Nat] /\ elapsed \in Nat /\ nu \in Nat
  BY DEF TimerInv, TypeOK
<1>4. /\ S \in [1 .. N -> Nat] /\ \A m \in 2 .. N : S[m] = S[m - 1] + r_ticks[list[m]]
      /\ list # <<>> => S[1] = nu
  BY DEF Waits
\* The waits with those of h at a position.
<1>5. ASSUME NEW k \in 1 .. N + 1, list' = InsertAt(list, k, h),
             k = 1 => ticks = nu', k # 1 => nu' = nu,
             k # 1 => ticks = S[k - 1] + r_ticks'[h],
             k <= N => S[k] = ticks + r_ticks'[list[k]],
             \A m \in 2 .. N : m # k => r_ticks'[list[m]] = r_ticks[list[m]]
      PROVE  \E R : /\ Waits(R)'
                    /\ \A m \in 1 .. Len(list') :
                         \/ list'[m] = h /\ R[m] = ticks
                         \/ \E n \in 1 .. N : list'[m] = list[n] /\ R[m] = S[n]
  <2>1. /\ Len(list') = N + 1
        /\ \A m \in 1 .. N + 1 :
             list'[m] = IF m < k THEN list[m] ELSE IF m = k THEN h ELSE list[m - 1]
    <3>1. list \in Seq(Handles) /\ k \in 1 .. Len(list) + 1
      BY <1>1
    <3>2. IsInserted(InsertAt(list, k, h), list, k, h)
      BY <3>1, InsertAtFacts, Zenon
    <3> QED
      BY <1>5, <3>2 DEF IsInserted
  <2>2. PICK R : R = [m \in 1 .. N + 1 |-> IF m < k THEN S[m] ELSE IF m = k THEN ticks ELSE S[m - 1]]
    OBVIOUS
  <2>3. \A m \in 1 .. N + 1 : m < k => m \in 1 .. N /\ R[m] = S[m] /\ list'[m] = list[m]
    BY <1>1, <2>1, <2>2
  <2>4. \A m \in 1 .. N + 1 : m > k => m - 1 \in 1 .. N /\ R[m] = S[m - 1] /\ list'[m] = list[m - 1]
    BY <1>1, <2>1, <2>2
  <2>5. R[k] = ticks /\ list'[k] = h
    BY <1>1, <2>1, <2>2
  <2>6. R \in [1 .. N + 1 -> Nat]
    <3>1. \A m \in 1 .. N + 1 : (IF m < k THEN S[m] ELSE IF m = k THEN ticks ELSE S[m - 1]) \in Nat
      BY <1>1, <1>4, SMTT(20)
    <3> QED
      BY <2>2, <3>1
  <2>7. ASSUME NEW m \in 1 .. N + 1
        PROVE  \/ list'[m] = h /\ R[m] = ticks
               \/ \E n \in 1 .. N : list'[m] = list[n] /\ R[m] = S[n]
    <3>1. CASE m < k
      BY <2>3, <3>1
    <3>2. CASE m = k
      BY <2>5, <3>2
    <3>3. CASE m > k
      BY <2>4, <3>3
    <3> QED
      BY <1>1, <3>1, <3>2, <3>3
  <2>8. R[1] = nu'
    <3>1. CASE k = 1
      BY <1>5, <2>5, <3>1
    <3>2. CASE k # 1
      <4>1. 1 \in 1 .. N + 1 /\ 1 < k /\ N # 0
        BY <1>1, <3>2
      <4>2. list # <<>>
        BY <1>1, <4>1
      <4> QED
        <5>1. R[1] = S[1]
          BY <2>3, <4>1
        <5>2. S[1] = nu /\ nu' = nu
          BY <1>4, <1>5, <3>2, <4>2
        <5> QED
          BY <5>1, <5>2
    <3> QED
      BY <3>1, <3>2
  <2>9. ASSUME NEW m \in 2 .. N + 1
        PROVE  R[m] = R[m - 1] + r_ticks'[list'[m]]
    <3>1. m \in 1 .. N + 1 /\ m - 1 \in 1 .. N + 1 /\ m - 1 \in 1 .. N
      BY <1>1
    <3>2. CASE m < k
      <4>1. R[m] = S[m] /\ R[m - 1] = S[m - 1] /\ list'[m] = list[m] /\ m \in 2 .. N
        BY <1>1, <2>3, <3>1, <3>2
      <4> QED
        BY <1>4, <1>5, <3>2, <4>1
    <3>3. CASE m = k
      <4>1. R[m - 1] = S[m - 1] /\ k # 1
        BY <2>3, <3>1, <3>3
      <4> QED
        BY <1>5, <2>5, <3>3, <4>1
    <3>4. CASE m - 1 = k
      <4>1. R[m] = S[k] /\ R[m - 1] = ticks /\ list'[m] = list[k] /\ k <= N
        BY <1>1, <2>4, <2>5, <3>1, <3>4
      <4> QED
        BY <1>5, <4>1
    <3>5. CASE m - 1 > k
      <4>1. R[m] = S[m - 1] /\ R[m - 1] = S[m - 1 - 1] /\ list'[m] = list[m - 1]
            /\ m - 1 \in 2 .. N /\ m - 1 # k
        BY <1>1, <2>4, <3>1, <3>5
      <4>2. S[m - 1] = S[m - 1 - 1] + r_ticks[list[m - 1]]
        BY <1>4, <4>1
      <4>3. r_ticks'[list[m - 1]] = r_ticks[list[m - 1]]
        BY <1>5, <4>1
      <4> QED
        BY <4>1, <4>2, <4>3
    <3> QED
      BY <1>1, <3>2, <3>3, <3>4, <3>5
  <2>10. Waits(R)'
    BY <2>1, <2>6, <2>8, <2>9 DEF Waits
  <2> QED
    BY <2>1, <2>7, <2>10
<1>6. CASE list = <<>>
  <2>1. list' = <<h>> /\ r_ticks' = [r_ticks EXCEPT ![h] = ticks] /\ nu' = ticks
    BY <1>6 DEF AddTicks
  <2>2. N = 0 /\ Len(list') = 1 /\ list'[1] = h
    BY <1>6, <2>1
  <2>3. PICK R : R = [m \in 1 .. 1 |-> ticks]
    OBVIOUS
  <2>4. R \in [1 .. 1 -> Nat] /\ R[1] = ticks
    BY <2>3
  <2>5. Waits(R)'
    BY <2>1, <2>2, <2>4 DEF Waits
  <2> QED
    BY <2>2, <2>4, <2>5
<1>7. CASE list # <<>>
  <2> DEFINE head == list[1]
             r == [r_ticks EXCEPT ![head] = nu]
  <2>1. 1 \in 1 .. N /\ head \in Handles /\ head # h
    BY <1>1, <1>7
  <2>2. nu + elapsed = r_ticks[head] /\ S[1] = nu
    BY <1>4, <1>7 DEF TimerInv, ArmedInv, NextIsArmed
  <2>3. ClockRead(0) = elapsed
    BY <1>3 DEF ClockRead, Unsigned
  <2>4. (IF r_ticks[head] >= ClockRead(0) THEN r_ticks[head] - ClockRead(0) ELSE 0) = nu
    BY <1>3, <2>1, <2>2, <2>3
  <2>5. r \in [Handles -> Nat] /\ r[head] = nu /\ \A g \in Handles : g # head => r[g] = r_ticks[g]
    BY <1>3, <2>1
  <2>6. \A m \in 2 .. N : m \in 1 .. N /\ list[m] \in Handles /\ list[m] # head /\ list[m] # h
    BY <1>1, <1>2, <2>1
  <2>7. CASE ticks < nu
    <3>1. /\ list' = InsertAt(list, 1, h) /\ nu' = ticks
          /\ r_ticks' = [r EXCEPT ![head] = r[head] - ticks, ![h] = ticks]
      BY <1>7, <2>4, <2>7 DEF AddTicks
    <3> HIDE DEF r
    <3>2. r_ticks'[head] = nu - ticks
      BY <2>1, <2>5, <3>1
    <3>3. S[1] = ticks + r_ticks'[head]
      BY <1>3, <2>2, <3>2
    <3>4. \A m \in 2 .. N : r_ticks'[list[m]] = r_ticks[list[m]]
      BY <2>5, <2>6, <3>1
    <3>5. 1 \in 1 .. N + 1
      BY <1>1
    <3> QED
      BY <1>5, <3>1, <3>3, <3>4, <3>5
  <2>8. CASE ~(ticks < nu)
    <3>1. PICK p \in Place(r, ticks) :
            /\ list' = InsertAt(list, p[1], h) /\ nu' = nu
            /\ r_ticks' = IF p[1] > N THEN [r EXCEPT ![h] = p[2]]
                          ELSE [r EXCEPT ![list[p[1]]] = r[list[p[1]]] - p[2], ![h] = p[2]]
      BY <1>7, <2>4, <2>8 DEF AddTicks
    <3> HIDE DEF r
    <3>2. p[1] \in 2 .. N + 1 /\ p[2] \in 0 .. ticks /\ p[2] = TicksAfter(r, ticks)[p[1] - 1]
      BY DEF Place
    <3>3. PICK k \in 2 .. N + 1, w \in Nat : k = p[1] /\ w = p[2]
      BY <3>2
    <3>4. k - 1 \in 1 .. N /\ k \in 1 .. N + 1 /\ k # 1
      BY <1>1, <3>3
    <3>5. \A m \in 1 .. N : S[m] = (IF m = 1 THEN 0 ELSE S[m - 1]) + r[list[m]]
      <4> TAKE m \in 1 .. N
      <4>1. CASE m = 1
        BY <1>3, <2>2, <2>5, <4>1
      <4>2. CASE m # 1
        <5>1. m \in 2 .. N
          BY <1>1, <4>2
        <5> QED
          BY <1>4, <2>5, <2>6, <4>2, <5>1
      <4> QED
        BY <4>1, <4>2
    <3>6. w = ticks - S[k - 1]
      <4>1. TicksAfter(r, ticks)[k - 1] = ticks - S[k - 1]
        BY <1>1, <1>4, <2>5, <3>4, <3>5, TicksAfterFacts
      <4> QED
        BY <3>2, <3>3, <4>1
    <3>7. /\ r_ticks'[h] = w
          /\ \A m \in 2 .. N : m # k => r_ticks'[list[m]] = r_ticks[list[m]]
          /\ k <= N => r_ticks'[list[k]] = r[list[k]] - w
      <4>1. CASE k > N
        <5>1. r_ticks' = [r EXCEPT ![h] = w]
          BY <3>1, <3>3, <4>1
        <5> QED
          BY <1>1, <2>5, <2>6, <4>1, <5>1
      <4>2. CASE ~(k > N)
        <5>1. r_ticks' = [r EXCEPT ![list[k]] = r[list[k]] - w, ![h] = w]
          BY <3>1, <3>3, <4>2
        <5>2. k \in 2 .. N /\ list[k] \in Handles /\ list[k] # h
          BY <1>1, <2>6, <4>2
        <5>3. \A m \in 2 .. N : m # k => list[m] # list[k]
          BY <1>2, <2>6, <5>2
        <5>4. r_ticks'[h] = w /\ r_ticks'[list[k]] = r[list[k]] - w
          BY <2>5, <5>1, <5>2
        <5> QED
          BY <2>5, <2>6, <5>1, <5>2, <5>3, <5>4
      <4> QED
        BY <4>1, <4>2
    <3>8. ticks = S[k - 1] + r_ticks'[h]
      BY <1>4, <3>4, <3>6, <3>7
    <3>9. ASSUME k <= N
          PROVE  S[k] = ticks + r_ticks'[list[k]]
      <4>1. k \in 2 .. N /\ list[k] \in Handles /\ list[k] # head
        BY <1>1, <2>6, <3>9
      <4>2. S[k] = S[k - 1] + r_ticks[list[k]] /\ r[list[k]] = r_ticks[list[k]]
        BY <1>4, <2>5, <4>1
      <4>3. S[k - 1] \in Nat /\ r_ticks[list[k]] \in Nat
        BY <1>3, <1>4, <3>4, <4>1
      <4>4. r_ticks'[list[k]] = r_ticks[list[k]] - w
        BY <3>7, <3>9, <4>2
      <4>5. w \in Nat /\ w = ticks - S[k - 1]
        BY <3>6
      <4> QED
        BY <4>2, <4>3, <4>4, <4>5
    <3>10. list' = InsertAt(list, k, h) /\ nu' = nu
      BY <3>1, <3>3
    <3> QED
      BY <1>5, <3>4, <3>7, <3>8, <3>9, <3>10
  <2> QED
    BY <2>7, <2>8
<1> QED
  BY <1>6, <1>7

----------------------------------------------------------------------------
(* The steps                                                                *)

\* The timer of a handle in the list, and in the list of those that start again.
LEMMA Running ==
  ASSUME TimerInv
  PROVE  /\ Len(list) \in Nat
         /\ \A k \in 1 .. Len(list) :
              /\ list[k] \in Handles /\ status[list[k]] = "ACTIVE"
              /\ t_index[list[k]] \in Timers /\ handle[t_index[list[k]]] = list[k]
         /\ Len(p_list) \in Nat
         /\ \A k \in 1 .. Len(p_list) :
              /\ p_list[k] \in Handles /\ status[p_list[k]] = "USED" /\ p_ticks[p_list[k]] \in Nat \ {0}
              /\ t_index[p_list[k]] \in Timers /\ handle[t_index[p_list[k]]] = p_list[k]
<1>1. /\ Len(list) \in Nat
      /\ \A k \in 1 .. Len(list) : list[k] \in Handles /\ status[list[k]] = "ACTIVE"
  BY ListTypes DEF TimerInv
<1>2. \A k \in 1 .. Len(list) : t_index[list[k]] \in Timers /\ handle[t_index[list[k]]] = list[k]
  BY DEF TimerInv, ListInv, HandlesAccounted
<1>3. p_list \in Seq(Handles) /\ p_ticks \in [Handles -> Ticks]
  BY DEF TimerInv, TypeOK
<1>4. Len(p_list) \in Nat /\ \A k \in 1 .. Len(p_list) : p_list[k] \in Handles
  BY <1>3
<1>5. \A k \in 1 .. Len(p_list) : p_ticks[p_list[k]] \in Nat
  BY <1>3, <1>4, TickTypes
<1>6. \A k \in 1 .. Len(p_list) :
        /\ status[p_list[k]] = "USED" /\ p_ticks[p_list[k]] # 0
        /\ t_index[p_list[k]] \in Timers /\ handle[t_index[p_list[k]]] = p_list[k]
  BY DEF TimerInv, AgainInv
<1> QED
  BY <1>1, <1>2, <1>4, <1>5, <1>6

\* A step that leaves the list of running timers alone, and what the entities asked for.
LEMMA AsideServed ==
  ASSUME TimerInv, ServedInv,
         UNCHANGED <<list, r_ticks, nu, hisr, p_list, left, period>>,
         \A h \in Handles : status[h] = "ACTIVE" => t_index'[h] = t_index[h] /\ p_ticks'[h] = p_ticks[h],
         UNCHANGED <<t_index, p_ticks>> \/ p_list = <<>>
  PROVE  ServedInv'
<1>1. PICK S : Waits(S) /\ Ripe(S)
  BY DEF ServedInv, LeftInv
<1>2. \A k \in 1 .. Len(list) : t_index'[list[k]] = t_index[list[k]] /\ p_ticks'[list[k]] = p_ticks[list[k]]
  BY Running
<1>3. Waits(S)'
  BY <1>1 DEF Waits
<1>4. Ripe(S)'
  BY <1>1, <1>2 DEF Ripe
<1>5. \A k \in 1 .. Len(p_list) : t_index'[p_list[k]] = t_index[p_list[k]]
                                  /\ p_ticks'[p_list[k]] = p_ticks[p_list[k]]
  <2>1. CASE UNCHANGED <<t_index, p_ticks>>
    BY <2>1
  <2>2. CASE p_list = <<>>
    BY <2>2
  <2> QED
    BY <2>1, <2>2
<1>6. RunsInv'
  BY <1>2, <1>5 DEF ServedInv, RunsInv
<1> QED
  BY <1>3, <1>4, <1>6 DEF ServedInv, LeftInv

\* A tick brings all timers one nearer; postponed, they wait one more.
LEMMA TickServed ==
  ASSUME Punctual, TimerInv, ServedInv, Tick
  PROVE  ServedInv'
<1> USE DEF entries, table, tasks
<1>1. /\ hisr = "off"
      /\ nu' = IF nu = 0 THEN 0 ELSE nu - 1
      /\ hisr' = IF nu = 1 THEN "timeout" ELSE "off"
      /\ left' = [i \in Timers |-> IF left[i] \in {0, None} THEN left[i] ELSE left[i] - 1]
      /\ UNCHANGED <<t_index, p_ticks, list, r_ticks, p_list, period>>
  BY DEF Tick
<1>2. PICK S : Waits(S) /\ Ripe(S)
  BY DEF ServedInv, LeftInv
<1> DEFINE N == Len(list)
<1>3. N \in Nat /\ (\A k \in 1 .. N : list[k] \in Handles /\ t_index[list[k]] \in Timers)
  BY Running
<1>4. S \in [1 .. N -> Nat] /\ \A k \in 2 .. N : S[k] = S[k - 1] + r_ticks[list[k]]
  BY <1>2 DEF Waits
<1>5. nu \in Nat /\ r_ticks \in [Handles -> Nat]
  BY DEF TimerInv, TypeOK
<1>6. N # 0 => S[1] = nu /\ nu # 0
  <2>1. N # 0 => list # <<>>
    BY <1>3
  <2> QED
    BY <1>1, <1>2, <2>1 DEF Waits, TimerInv, ArmedInv, NextIsArmed
<1>7. \A k \in 1 .. N : S[k] \in Nat \ {0}
  <2> DEFINE Q == {k \in 0 .. N : k # 0 => S[k] # 0}
  <2>1. 0 \in Q
    BY <1>3
  <2>2. ASSUME NEW k \in 1 .. N, k - 1 \in Q
        PROVE  k \in Q
    <3>1. k \in 0 .. N /\ S[k] \in Nat
      BY <1>3, <1>4
    <3>2. CASE k = 1
      BY <1>6, <3>1, <3>2
    <3>3. CASE k # 1
      <4>1. k \in 2 .. N /\ k - 1 \in 1 .. N /\ k - 1 # 0
        BY <1>3, <3>3
      <4>2. S[k - 1] \in Nat /\ S[k - 1] # 0 /\ r_ticks[list[k]] \in Nat
        BY <1>3, <1>4, <1>5, <2>2, <4>1
      <4> QED
        BY <1>4, <3>1, <4>1, <4>2
    <3> QED
      BY <3>2, <3>3
  <2>3. \A k \in 1 .. N : k - 1 \in Q => k \in Q
    BY <2>2
  <2>4. 0 .. N \subseteq Q
    <3> HIDE DEF Q, N
    <3> QED
      BY <1>3, <2>1, <2>3, Counting, Zenon
  <2>5. \A k \in 1 .. N : k \in 0 .. N /\ k # 0
    BY <1>3
  <2> QED
    BY <1>4, <2>4, <2>5
<1>8. PICK R : R = [k \in 1 .. N |-> S[k] - 1]
  OBVIOUS
<1>9. Waits(R)'
  <2>1. R \in [1 .. N -> Nat]
    BY <1>7, <1>8
  <2>2. list # <<>> => R[1] = IF hisr' = "timeout" THEN 0 ELSE nu'
    <3>1. list # <<>> => 1 \in 1 .. N /\ N # 0
      BY <1>3
    <3> QED
      BY <1>1, <1>5, <1>6, <1>8, <3>1
  <2>3. \A k \in 2 .. N : R[k] = R[k - 1] + r_ticks[list[k]]
    <3> TAKE k \in 2 .. N
    <3>1. k \in 1 .. N /\ k - 1 \in 1 .. N
      BY <1>3
    <3>2. S[k] \in Nat /\ S[k - 1] \in Nat /\ r_ticks[list[k]] \in Nat
      BY <1>3, <1>4, <1>5, <3>1
    <3>3. R[k] = S[k] - 1 /\ R[k - 1] = S[k - 1] - 1
      BY <1>8, <3>1
    <3> QED
      BY <1>4, <3>2, <3>3
  <2> QED
    BY <1>1, <2>1, <2>2, <2>3 DEF Waits
<1>10. Ripe(R)'
  <2> SUFFICES ASSUME NEW k \in 1 .. N
               PROVE  left'[t_index[list[k]]] \in 0 .. R[k]
    BY <1>1 DEF Ripe
  <2> DEFINE i == t_index[list[k]]
  <2>1. i \in Timers /\ left[i] \in 0 .. S[k] /\ S[k] \in Nat \ {0} /\ R[k] = S[k] - 1
    BY <1>2, <1>3, <1>7, <1>8 DEF Ripe
  <2>2. left'[i] = IF left[i] \in {0, None} THEN left[i] ELSE left[i] - 1
    BY <1>1, <2>1
  <2>3. left[i] # None
    BY <2>1, TimerAssumption
  <2> QED
    BY <2>1, <2>2, <2>3
<1>11. RunsInv'
  <2>1. p_list = <<>>
    BY <1>1 DEF TimerInv, LockInv
  <2>2. Len(p_list) = 0
    BY <2>1
  <2> QED
    BY <1>1, <2>2 DEF ServedInv, RunsInv
<1> QED
  BY <1>9, <1>10, <1>11 DEF ServedInv, LeftInv

LEMMA PostponeServed ==
  ASSUME Punctual, TimerInv, ServedInv, Postpone
  PROVE  ServedInv'
<1> USE DEF entries, table, tasks, asked
<1>1. /\ hisr = "timeout" /\ nu' = 1 /\ hisr' = "off"
      /\ UNCHANGED <<t_index, p_ticks, list, r_ticks, p_list, left, period>>
  BY DEF Postpone
<1>2. PICK S : Waits(S) /\ Ripe(S)
  BY DEF ServedInv, LeftInv
<1> DEFINE N == Len(list)
<1>3. N \in Nat /\ \A k \in 1 .. N : list[k] \in Handles
  BY Running
<1>4. /\ S \in [1 .. N -> Nat] /\ \A k \in 2 .. N : S[k] = S[k - 1] + r_ticks[list[k]]
      /\ list # <<>> => S[1] = 0
  BY <1>1, <1>2 DEF Waits
<1>5. r_ticks \in [Handles -> Nat]
  BY DEF TimerInv, TypeOK
<1>6. PICK R : R = [k \in 1 .. N |-> S[k] + 1]
  OBVIOUS
<1>7. Waits(R)'
  <2>1. R \in [1 .. N -> Nat]
    BY <1>4, <1>6
  <2>2. list # <<>> => R[1] = 1
    <3>1. list # <<>> => 1 \in 1 .. N
      BY <1>3
    <3> QED
      BY <1>4, <1>6, <3>1
  <2>3. \A k \in 2 .. N : R[k] = R[k - 1] + r_ticks[list[k]]
    <3> TAKE k \in 2 .. N
    <3>1. k \in 1 .. N /\ k - 1 \in 1 .. N
      BY <1>3
    <3>2. S[k] \in Nat /\ S[k - 1] \in Nat /\ r_ticks[list[k]] \in Nat
      BY <1>3, <1>4, <1>5, <3>1
    <3>3. R[k] = S[k] + 1 /\ R[k - 1] = S[k - 1] + 1
      BY <1>6, <3>1
    <3> QED
      BY <1>4, <3>2, <3>3
  <2> QED
    BY <1>1, <2>1, <2>2, <2>3 DEF Waits
<1>8. Ripe(R)'
  <2>1. \A k \in 1 .. N : left[t_index[list[k]]] \in 0 .. S[k] /\ S[k] \in Nat /\ R[k] = S[k] + 1
    BY <1>2, <1>4, <1>6 DEF Ripe
  <2>2. \A k \in 1 .. N : left[t_index[list[k]]] \in 0 .. R[k]
    BY <2>1
  <2> QED
    BY <1>1, <2>2 DEF Ripe
<1>9. RunsInv'
  BY <1>1 DEF ServedInv, RunsInv
<1> QED
  BY <1>7, <1>8, <1>9 DEF ServedInv, LeftInv

LEMMA RemoveTimerServed ==
  ASSUME Punctual, TimerInv, ServedInv, NEW t \in Tasks, RemoveTimer(t)
  PROVE  ServedInv'
<1> DEFINE h == Handle(t)
           i == Timer(t)
<1>1. /\ hisr = "off" /\ pc[t] = "remove"
      /\ left' = [left EXCEPT ![i] = None] /\ period' = [period EXCEPT ![i] = 0]
      /\ UNCHANGED <<hisr, p_list, t_index, p_ticks>>
  BY DEF RemoveTimer, Quiet, Timer, table
<1>2. PICK S : Waits(S) /\ Ripe(S)
  BY DEF ServedInv, LeftInv
<1>3. i \in Timers /\ h \in Handles /\ handle[i] = h
  BY <1>1, WorkTypes DEF TimerInv
<1>4. p_list = <<>> /\ Len(p_list) = 0
  BY <1>1 DEF TimerInv, LockInv
<1>5. left \in [Timers -> Nat \cup {None}] /\ period \in [Timers -> Ticks]
  BY DEF TimerInv, TypeOK
\* The timers in the list afterwards are the others.
<1>6. \A n \in 1 .. Len(list) :
        list[n] # h => /\ left'[t_index[list[n]]] = left[t_index[list[n]]]
                       /\ period'[t_index[list[n]]] = period[t_index[list[n]]]
  BY <1>1, <1>3, <1>5, Running
<1>7. \E R : /\ Waits(R)'
             /\ \A m \in 1 .. Len(list') :
                  \E n \in 1 .. Len(list) : list[n] # h /\ list'[m] = list[n] /\ R[m] = S[n]
  <2>1. CASE \E k \in 1 .. Len(list), late \in 0 .. passed :
               list[k] = h /\ os_remove_timer_from_list(k, late)
    <3>1. PICK k \in 1 .. Len(list) : list[k] = h /\ os_remove_timer_from_list(k, 0)
      BY <2>1, InTime
    <3>2. PICK R : /\ Waits(R)'
                   /\ \A m \in 1 .. Len(list') :
                        \E n \in 1 .. Len(list) : n # k /\ list'[m] = list[n] /\ R[m] = S[n]
      BY <1>1, <1>2, <3>1, RemovedWaits
    <3>3. \A n \in 1 .. Len(list) : n # k => list[n] # h
      BY <3>1 DEF TimerInv, ListInv
    <3> QED
      BY <3>2, <3>3, SMTT(20)
  <2>2. CASE status[h] # "ACTIVE" /\ UNCHANGED <<list, r_ticks, elapsed, nu>>
    <3>1. \A n \in 1 .. Len(list) : list[n] # h
      BY <2>2, Running
    <3>2. Waits(S)'
      BY <1>1, <1>2, <2>2 DEF Waits
    <3> QED
      BY <2>2, <3>1, <3>2
  <2> QED
    BY <2>1, <2>2 DEF RemoveTimer, Handle, Timer, running
<1>8. PICK R : /\ Waits(R)'
               /\ \A m \in 1 .. Len(list') :
                    \E n \in 1 .. Len(list) : list[n] # h /\ list'[m] = list[n] /\ R[m] = S[n]
  BY <1>7
<1>9. \A m \in 1 .. Len(list') :
        left'[t_index[list'[m]]] \in 0 .. R[m] /\ period'[t_index[list'[m]]] = p_ticks[list'[m]]
  <2> TAKE m \in 1 .. Len(list')
  <2>1. PICK n \in 1 .. Len(list) : list[n] # h /\ list'[m] = list[n] /\ R[m] = S[n]
    BY <1>8
  <2>2. left[t_index[list[n]]] \in 0 .. S[n] /\ period[t_index[list[n]]] = p_ticks[list[n]]
    BY <1>2 DEF Ripe, ServedInv, RunsInv
  <2> QED
    BY <1>6, <2>1, <2>2
<1>10. Ripe(R)' /\ RunsInv'
  BY <1>1, <1>4, <1>9 DEF Ripe, RunsInv
<1> QED
  BY <1>8, <1>10 DEF ServedInv, LeftInv

LEMMA AddTimerServed ==
  ASSUME Punctual, TimerInv, ServedInv, NEW t \in Tasks, AddTimer(t)
  PROVE  ServedInv'
<1> DEFINE h == Handle(t)
           i == Timer(t)
           o == op[t]
           ticks == IF o.v = 0 THEN 1 ELSE o.v
<1>1. /\ hisr = "off" /\ pc[t] = "add"
      /\ t_index' = [t_index EXCEPT ![h] = i] /\ p_ticks' = [p_ticks EXCEPT ![h] = o.p]
      /\ left' = [left EXCEPT ![i] = o.v] /\ period' = [period EXCEPT ![i] = o.p]
      /\ UNCHANGED <<hisr, p_list>>
  BY DEF AddTimer, Quiet, Timer, Handle
<1>2. PICK S : Waits(S) /\ Ripe(S)
  BY DEF ServedInv, LeftInv
<1>3. i \in Timers /\ h \in Handles /\ handle[i] = h /\ o \in Ops
  BY <1>1, WorkTypes DEF TimerInv
<1>4. status[h] = "USED"
  BY <1>1 DEF TimerInv, EntryInv, KeepsEntry
<1>5. p_list = <<>> /\ Len(p_list) = 0
  BY <1>1 DEF TimerInv, LockInv
<1>6. /\ left \in [Timers -> Nat \cup {None}] /\ period \in [Timers -> Ticks]
      /\ t_index \in [Handles -> Timers \cup {None}] /\ p_ticks \in [Handles -> Ticks]
  BY DEF TimerInv, TypeOK
<1>7. o.v \in Nat /\ ticks \in Nat /\ ticks # 0 /\ o.v \in 0 .. ticks
  <2>1. o.v \in Ticks
    BY <1>3 DEF Ops
  <2>2. o.v \in Nat
    BY <2>1, TickTypes
  <2>3. \A n \in Nat : LET x == IF n = 0 THEN 1 ELSE n IN x \in Nat /\ x # 0 /\ n \in 0 .. x
    OBVIOUS
  <2> QED
    BY <2>2, <2>3, Zenon
<1>8. AddTicks(h, ticks, 0)
  <2>1. PICK late \in 0 .. passed : os_add_timer_to_list(handle[op[t].i], op[t].v, late)
    BY DEF AddTimer
  <2>2. late = 0
    BY InTime
  <2> QED
    BY <2>1, <2>2 DEF os_add_timer_to_list, Handle, Timer
<1>9. PICK R : /\ Waits(R)'
               /\ \A m \in 1 .. Len(list') :
                    \/ list'[m] = h /\ R[m] = ticks
                    \/ \E n \in 1 .. Len(list) : list'[m] = list[n] /\ R[m] = S[n]
  <2>1. hisr # "timeout" /\ hisr' # "timeout"
    BY <1>1
  <2> HIDE DEF h, ticks
  <2> QED
    BY <1>2, <1>3, <1>4, <1>7, <1>8, <2>1, AddedWaits
\* The timers that were in the list are others.
<1>10. \A n \in 1 .. Len(list) :
         /\ t_index'[list[n]] = t_index[list[n]] /\ p_ticks'[list[n]] = p_ticks[list[n]]
         /\ left'[t_index[list[n]]] = left[t_index[list[n]]]
         /\ period'[t_index[list[n]]] = period[t_index[list[n]]]
  <2> TAKE n \in 1 .. Len(list)
  <2>1. /\ list[n] \in Handles /\ list[n] # h /\ t_index[list[n]] \in Timers
        /\ t_index[list[n]] # i
    BY <1>3, <1>4, Running
  <2> QED
    BY <1>1, <1>3, <1>6, <2>1
<1>11. t_index'[h] = i /\ p_ticks'[h] = o.p /\ left'[i] = o.v /\ period'[i] = o.p
  BY <1>1, <1>3, <1>6
<1>12. \A m \in 1 .. Len(list') :
         left'[t_index'[list'[m]]] \in 0 .. R[m] /\ period'[t_index'[list'[m]]] = p_ticks'[list'[m]]
  <2> TAKE m \in 1 .. Len(list')
  <2>1. CASE list'[m] = h /\ R[m] = ticks
    <3> HIDE DEF h, i, ticks, o
    <3> QED
      BY <1>7, <1>11, <2>1
  <2>2. CASE \E n \in 1 .. Len(list) : list'[m] = list[n] /\ R[m] = S[n]
    <3>1. PICK n \in 1 .. Len(list) : list'[m] = list[n] /\ R[m] = S[n]
      BY <2>2
    <3>2. left[t_index[list[n]]] \in 0 .. S[n] /\ period[t_index[list[n]]] = p_ticks[list[n]]
      BY <1>2 DEF Ripe, ServedInv, RunsInv
    <3> QED
      BY <1>10, <3>1, <3>2
  <2> QED
    BY <1>9, <2>1, <2>2
<1>13. Ripe(R)' /\ RunsInv'
  BY <1>1, <1>5, <1>12 DEF Ripe, RunsInv
<1> QED
  BY <1>9, <1>13 DEF ServedInv, LeftInv

LEMMA StartAgainServed ==
  ASSUME Punctual, TimerInv, ServedInv, StartAgain
  PROVE  ServedInv'
<1> DEFINE h == Head(p_list)
           i == t_index[h]
           ticks == p_ticks[h]
<1>1. /\ hisr = "again" /\ p_list' = Tail(p_list)
      /\ hisr' = IF p_list' = <<>> THEN "off" ELSE "again"
      /\ UNCHANGED <<t_index, p_ticks, left, period>>
      /\ os_add_timer_to_list(h, ticks, 0)
  BY DEF StartAgain, Restarting, asked
<1>2. PICK S : Waits(S) /\ Ripe(S)
  BY DEF ServedInv, LeftInv
<1>3. p_list # <<>> /\ p_list \in Seq(Handles)
  BY <1>1 DEF TimerInv, LockInv, TypeOK
<1>4. /\ Len(p_list) \in Nat /\ 1 \in 1 .. Len(p_list) /\ p_list[1] = h
      /\ Len(Tail(p_list)) = Len(p_list) - 1
      /\ \A k \in 1 .. Len(p_list) - 1 : Tail(p_list)[k] = p_list[k + 1] /\ k + 1 \in 1 .. Len(p_list)
  BY <1>3
<1>5. h \in Handles /\ status[h] = "USED" /\ ticks \in Nat /\ ticks # 0
  BY <1>4, Running
<1>6. period[i] = ticks /\ left[i] \in 0 .. ticks
  BY <1>4 DEF ServedInv, RunsInv
<1>7. AddTicks(h, ticks, 0)
  BY <1>1, <1>5 DEF os_add_timer_to_list
<1>8. PICK R : /\ Waits(R)'
               /\ \A m \in 1 .. Len(list') :
                    \/ list'[m] = h /\ R[m] = ticks
                    \/ \E n \in 1 .. Len(list) : list'[m] = list[n] /\ R[m] = S[n]
  <2>1. hisr # "timeout" /\ hisr' # "timeout"
    BY <1>1
  <2> HIDE DEF h, ticks
  <2> QED
    BY <1>2, <1>5, <1>7, <2>1, AddedWaits
<1>9. \A m \in 1 .. Len(list') :
        left[t_index[list'[m]]] \in 0 .. R[m] /\ period[t_index[list'[m]]] = p_ticks[list'[m]]
  <2> TAKE m \in 1 .. Len(list')
  <2>1. CASE list'[m] = h /\ R[m] = ticks
    BY <1>6, <2>1
  <2>2. CASE \E n \in 1 .. Len(list) : list'[m] = list[n] /\ R[m] = S[n]
    BY <1>2, <2>2 DEF Ripe, ServedInv, RunsInv
  <2> QED
    BY <1>8, <2>1, <2>2
<1>10. Ripe(R)'
  BY <1>1, <1>9 DEF Ripe
<1>11. RunsInv'
  <2>1. \A k \in 1 .. Len(p_list') : \E n \in 1 .. Len(p_list) : p_list'[k] = p_list[n]
    BY <1>1, <1>4
  <2>2. \A n \in 1 .. Len(p_list) : /\ period[t_index[p_list[n]]] = p_ticks[p_list[n]]
                                    /\ left[t_index[p_list[n]]] \in 0 .. p_ticks[p_list[n]]
    BY DEF ServedInv, RunsInv
  <2>3. \A k \in 1 .. Len(p_list') : /\ period[t_index[p_list'[k]]] = p_ticks[p_list'[k]]
                                     /\ left[t_index[p_list'[k]]] \in 0 .. p_ticks[p_list'[k]]
    BY <2>1, <2>2
  <2> QED
    BY <1>1, <1>9, <2>3 DEF RunsInv
<1> QED
  BY <1>8, <1>10, <1>11 DEF ServedInv, LeftInv

\* The head expires: the next timer becomes the head and waits what it waited.
LEMMA ExpiryServed ==
  ASSUME Punctual, TimerInv, ServedInv, os_Timeout
  PROVE  ServedInv' /\ left[t_index[Head(list)]] = 0
<1> DEFINE h == Head(list)
           i == t_index[h]
           N == Len(list)
           more == Tail(list) # <<>> /\ r_ticks[Head(Tail(list))] = 0
<1>1. /\ hisr = "timeout" /\ list' = Tail(list) /\ r_ticks' = [r_ticks EXCEPT ![h] = 0]
      /\ nu' = IF more \/ Tail(list) = <<>> THEN 0 ELSE r_ticks[Head(Tail(list))]
      /\ p_list' = IF p_ticks[h] # 0 THEN Append(p_list, h) ELSE p_list
      /\ hisr' = IF more THEN "timeout" ELSE IF p_list' = <<>> THEN "off" ELSE "again"
      /\ left' = [left EXCEPT ![i] = IF period[i] = 0 THEN None ELSE period[i]]
      /\ UNCHANGED <<t_index, p_ticks, period>>
  BY DEF os_Timeout, Restarting
<1>2. PICK S : Waits(S) /\ Ripe(S)
  BY DEF ServedInv, LeftInv
<1>3. list # <<>> /\ list \in Seq(Handles) /\ p_list \in Seq(Handles)
  BY <1>1 DEF TimerInv, ArmedInv, TypeOK
<1>4. N \in Nat /\ 1 \in 1 .. N /\ h = list[1]
  BY <1>3
<1>5. /\ Len(list') = N - 1
      /\ \A n \in 1 .. N - 1 : list'[n] = list[n + 1]
      /\ N - 1 # 0 => Tail(list) # <<>> /\ Head(Tail(list)) = list[2]
  <2>1. /\ Tail(list) \in Seq(Handles) /\ Len(Tail(list)) = N - 1
        /\ \A n \in 1 .. Len(Tail(list)) : Tail(list)[n] = list[n + 1]
    BY <1>3, HeadTailProperties, Zenon
  <2>2. ASSUME N - 1 # 0
        PROVE  Tail(list) # <<>> /\ Head(Tail(list)) = list[2]
    <3>1. 1 \in 1 .. Len(Tail(list))
      BY <1>4, <2>1, <2>2
    <3>2. Tail(list)[1] = list[1 + 1]
      BY <2>1, <3>1, Zenon
    <3>3. \A s \in Seq(Handles) : Head(s) = s[1] /\ (1 \in 1 .. Len(s) => s # <<>>)
      OBVIOUS
    <3>4. Tail(list) # <<>> /\ Head(Tail(list)) = list[1 + 1]
      BY <2>1, <3>1, <3>2, <3>3, Zenon
    <3> QED
      BY <3>4
  <2> QED
    BY <1>1, <2>1, <2>2
<1>6. /\ h \in Handles /\ i \in Timers /\ handle[i] = h /\ status[h] = "ACTIVE"
      /\ left[i] \in 0 .. S[1] /\ period[i] = p_ticks[h]
  BY <1>2, <1>4, Running DEF Ripe, ServedInv, RunsInv
<1>7. S \in [1 .. N -> Nat] /\ S[1] = 0 /\ \A k \in 2 .. N : S[k] = S[k - 1] + r_ticks[list[k]]
  BY <1>1, <1>2, <1>3 DEF Waits
<1>8. left[i] = 0
  BY <1>6, <1>7
<1>9. /\ r_ticks \in [Handles -> Nat] /\ left \in [Timers -> Nat \cup {None}]
      /\ p_ticks \in [Handles -> Ticks]
  BY DEF TimerInv, TypeOK
<1>10. PICK R : R = [k \in 1 .. N - 1 |-> S[k + 1]]
  OBVIOUS
<1>11. \A k \in 1 .. N - 1 : /\ k + 1 \in 1 .. N /\ k + 1 \in 2 .. N /\ k + 1 # 1
                             /\ R[k] = S[k + 1] /\ list'[k] = list[k + 1]
  BY <1>4, <1>5, <1>10
<1>12. \A n \in 2 .. N : n \in 1 .. N /\ n # 1
  BY <1>4
<1>13. \A n \in 2 .. N : list[n] \in Handles /\ list[n] # h /\ t_index[list[n]] \in Timers
                         /\ t_index[list[n]] # i
  BY <1>4, <1>6, <1>12, Running DEF TimerInv, ListInv
<1> HIDE DEF h, i, N, more
<1>14. \A n \in 2 .. N : r_ticks'[list[n]] = r_ticks[list[n]]
                         /\ left'[t_index[list[n]]] = left[t_index[list[n]]]
  BY <1>1, <1>6, <1>9, <1>13
<1>15. Waits(R)'
  <2>1. R \in [1 .. N - 1 -> Nat]
    <3>1. \A k \in 1 .. N - 1 : S[k + 1] \in Nat
      BY <1>7, <1>11
    <3> QED
      BY <1>10, <3>1
  <2>2. N - 1 # 0 => R[1] = IF hisr' = "timeout" THEN 0 ELSE nu'
    <3> SUFFICES ASSUME N - 1 # 0
                 PROVE  R[1] = IF hisr' = "timeout" THEN 0 ELSE nu'
      OBVIOUS
    <3>1. 1 \in 1 .. N - 1 /\ 2 \in 2 .. N
      <4>1. N \in Nat /\ 1 \in 1 .. N /\ N - 1 # 0
        BY <1>4
      <4>2. \A n \in Nat : 1 \in 1 .. n /\ n - 1 # 0 => 1 \in 1 .. n - 1 /\ 2 \in 2 .. n
        OBVIOUS
      <4> QED
        BY <4>1, <4>2, Zenon
    <3>2. R[1] = S[2] /\ S[2] = S[1] + r_ticks[list[2]] /\ r_ticks[list[2]] \in Nat
      BY <1>7, <1>9, <1>11, <1>13, <3>1
    <3>3. R[1] = r_ticks[list[2]]
      BY <1>7, <3>2
    <3>4. Tail(list) # <<>> /\ (more <=> r_ticks[list[2]] = 0)
      BY <1>5 DEF more
    <3>5. hisr' = "timeout" <=> more
      BY <1>1
    <3>6. ~more => nu' = r_ticks[list[2]]
      BY <1>1, <1>5, <3>4
    <3> QED
      BY <3>3, <3>4, <3>5, <3>6
  <2>3. ASSUME NEW k \in 2 .. N - 1
        PROVE  R[k] = R[k - 1] + r_ticks'[list'[k]]
    <3>1. k \in 1 .. N - 1 /\ k - 1 \in 1 .. N - 1 /\ k + 1 \in 2 .. N /\ k - 1 + 1 = k /\ k + 1 - 1 = k
      BY <1>4
    <3>2. R[k] = S[k + 1] /\ R[k - 1] = S[k] /\ list'[k] = list[k + 1]
      <4>1. R[k - 1] = S[k - 1 + 1]
        BY <1>11, <3>1
      <4> QED
        BY <1>11, <3>1, <4>1
    <3>3. S[k + 1] = S[k] + r_ticks[list[k + 1]]
      <4>1. S[k + 1] = S[k + 1 - 1] + r_ticks[list[k + 1]]
        BY <1>7, <3>1
      <4> QED
        BY <3>1, <4>1
    <3> QED
      BY <1>14, <3>1, <3>2, <3>3
  <2>4. list' # <<>> => N - 1 # 0
    BY <1>1, <1>3, <1>5
  <2> QED
    BY <1>5, <2>1, <2>2, <2>3, <2>4 DEF Waits
<1>16. \A k \in 1 .. N - 1 : /\ left'[t_index[list'[k]]] \in 0 .. R[k]
                             /\ period[t_index[list'[k]]] = p_ticks[list'[k]]
  <2> TAKE k \in 1 .. N - 1
  <2>1. k + 1 \in 2 .. N /\ k + 1 \in 1 .. N /\ R[k] = S[k + 1] /\ list'[k] = list[k + 1]
    BY <1>11
  <2>2. /\ left[t_index[list[k + 1]]] \in 0 .. S[k + 1]
        /\ period[t_index[list[k + 1]]] = p_ticks[list[k + 1]]
    BY <1>2, <2>1 DEF Ripe, ServedInv, RunsInv, N
  <2> QED
    BY <1>14, <2>1, <2>2
<1>17. Ripe(R)'
  BY <1>1, <1>5, <1>16 DEF Ripe
<1>18. \A k \in 1 .. Len(p_list') : /\ period[t_index[p_list'[k]]] = p_ticks[p_list'[k]]
                                    /\ left'[t_index[p_list'[k]]] \in 0 .. p_ticks[p_list'[k]]
  <2>1. ASSUME NEW k \in 1 .. Len(p_list)
        PROVE  /\ period[t_index[p_list[k]]] = p_ticks[p_list[k]]
               /\ left'[t_index[p_list[k]]] \in 0 .. p_ticks[p_list[k]]
    <3>1. t_index[p_list[k]] \in Timers /\ t_index[p_list[k]] # i
      BY <1>6, Running
    <3>2. left'[t_index[p_list[k]]] = left[t_index[p_list[k]]]
      BY <1>1, <1>9, <3>1
    <3> QED
      BY <3>2 DEF ServedInv, RunsInv
  <2>2. CASE p_ticks[h] = 0
    BY <1>1, <2>1, <2>2
  <2>3. CASE p_ticks[h] # 0
    <3>1. left'[i] = p_ticks[h] /\ p_ticks[h] \in Nat
      BY <1>1, <1>6, <1>9, <2>3, TickTypes
    <3>2. /\ Len(p_list') = Len(p_list) + 1 /\ p_list'[Len(p_list) + 1] = h
          /\ \A k \in 1 .. Len(p_list) : p_list'[k] = p_list[k]
      BY <1>1, <1>3, <1>6, <2>3
    <3>3. p_ticks[h] \in 0 .. p_ticks[h] /\ t_index[h] = i
      BY <3>1 DEF i
    <3>4. \A k \in 1 .. Len(p_list) + 1 : k \in 1 .. Len(p_list) \/ k = Len(p_list) + 1
      BY <1>3
    <3> TAKE k \in 1 .. Len(p_list')
    <3>5. CASE k \in 1 .. Len(p_list)
      BY <2>1, <3>2, <3>5
    <3>6. CASE k = Len(p_list) + 1
      BY <1>6, <3>1, <3>2, <3>3, <3>6
    <3> QED
      BY <3>2, <3>4, <3>5, <3>6
  <2> QED
    BY <2>2, <2>3
<1>19. RunsInv'
  BY <1>1, <1>5, <1>16, <1>18 DEF RunsInv
<1> QED
  BY <1>8, <1>15, <1>17, <1>19 DEF ServedInv, LeftInv, i, h

----------------------------------------------------------------------------
(* The refinement                                                           *)

\* An entity is to be told of a timer: the variable due of TimerService.
IsDue(i) == occurred[i] /\ ~IsStopped(i)
Due == [i \in Timers |-> IsDue(i)]

\* What is due changes for one timer, or for none.
LEMMA DueKept ==
  ASSUME \A j \in Timers : IsDue(j)' <=> IsDue(j)
  PROVE  Due' = Due
<1>1. \A j \in Timers : IsDue(j)' = IsDue(j)
  BY DEF IsDue
<1> QED
  BY <1>1 DEF Due

LEMMA DueSet ==
  ASSUME NEW i \in Timers, NEW b \in BOOLEAN, IsDue(i)' <=> b,
         \A j \in Timers : j # i => (IsDue(j)' <=> IsDue(j))
  PROVE  Due' = [Due EXCEPT ![i] = b]
<1>1. \A j \in Timers : IsDue(j)' = IF j = i THEN b ELSE IsDue(j)
  BY DEF IsDue
<1> QED
  BY <1>1 DEF Due

\* Which timers are stopped changes with the step of a task for its own timers only.
LEMMA StoppedAt ==
  ASSUME TypeOK, NEW t \in Tasks, NEW x, NEW o, pc' = [pc EXCEPT ![t] = x], op' = [op EXCEPT ![t] = o],
         NEW j \in Timers
  PROVE  IsStopped(j)' <=> IF Owner[j] = t
                             THEN x \in {"release", "destroy"} /\ o.kind = "stop" /\ o.i = j
                             ELSE IsStopped(j)
  BY TimerAssumption DEF TypeOK, IsStopped

\* The steps of the tasks.  A start withdraws what the entity was not told yet.
LEMMA StartMaps ==
  ASSUME TimerInv, NEW i \in Timers, NEW v \in Values[i], NEW p \in Periods[i] \cup {0},
         vsi_t_start(i, v, p)
  PROVE  Service!Withdraw(i)
<1> DEFINE t == Owner[i]
           o == [kind |-> "start", i |-> i, v |-> v, p |-> p]
<1>1. /\ pc[t] = "ready" /\ occurred' = [occurred EXCEPT ![i] = FALSE]
      /\ op' = [op EXCEPT ![t] = o] /\ pc' = [pc EXCEPT ![t] = "obtain"]
      /\ told' = None /\ UNCHANGED <<left, period>>
  BY DEF vsi_t_start, Quiet, asked
<1>2. t \in Tasks /\ TypeOK
  BY TimerAssumption DEF TimerInv
<1> HIDE DEF o
<1>3. \A j \in Timers : IsStopped(j)' <=> IF Owner[j] = t THEN FALSE ELSE IsStopped(j)
  BY <1>1, <1>2, StoppedAt
<1>4. \A j \in Timers : Owner[j] = t => ~IsStopped(j)
  BY <1>1 DEF IsStopped
<1>5. ~occurred'[i] /\ \A j \in Timers : j # i => occurred'[j] = occurred[j]
  BY <1>1, <1>2 DEF TypeOK
<1>6. IsDue(i)' <=> FALSE
  BY <1>5 DEF IsDue
<1>7. \A j \in Timers : j # i => (IsDue(j)' <=> IsDue(j))
  BY <1>3, <1>4, <1>5 DEF IsDue
<1>8. Due' = [Due EXCEPT ![i] = FALSE]
  BY <1>6, <1>7, DueSet
<1> QED
  BY <1>1, <1>8 DEF Service!Withdraw, Due, IsDue

\* A stop, the semaphore and the end of a start are not seen by the entity.
LEMMA StopMaps ==
  ASSUME TimerInv, NEW i \in Timers, vsi_t_stop(i)
  PROVE  Service!Nothing
<1> DEFINE t == Owner[i]
           o == [kind |-> "stop", i |-> i, v |-> 0, p |-> 0]
<1>1. /\ pc[t] = "ready" /\ op' = [op EXCEPT ![t] = o] /\ pc' = [pc EXCEPT ![t] = "obtain"]
      /\ told' = None /\ UNCHANGED <<occurred, left, period>>
  BY DEF vsi_t_stop, Quiet, asked, entries
<1>2. t \in Tasks /\ TypeOK
  BY TimerAssumption DEF TimerInv
<1> HIDE DEF o
<1>3. \A j \in Timers : IsStopped(j)' <=> IF Owner[j] = t THEN FALSE ELSE IsStopped(j)
  BY <1>1, <1>2, StoppedAt
<1>4. \A j \in Timers : Owner[j] = t => ~IsStopped(j)
  BY <1>1 DEF IsStopped
<1>5. Due' = Due
  BY <1>1, <1>3, <1>4, DueKept DEF IsDue
<1> QED
  BY <1>1, <1>5 DEF Service!Nothing, Due, IsDue

LEMMA ObtainMaps ==
  ASSUME TimerInv, NEW t \in Tasks, Obtain(t)
  PROVE  Service!Nothing
<1>1. status[Handle(t)] # "FREE"
  BY WorkTypes DEF TimerInv, Obtain, HandlesAccounted
<1>2. /\ pc[t] = "obtain" /\ pc' = [pc EXCEPT ![t] = "remove"] /\ op' = [op EXCEPT ![t] = op[t]]
      /\ told' = None /\ UNCHANGED <<occurred, left, period>>
  BY <1>1 DEF Obtain, Quiet, asked, entries, Handle, Timer, TimerInv, TypeOK
<1>3. \A j \in Timers : IsStopped(j)' <=> IF Owner[j] = t THEN FALSE ELSE IsStopped(j)
  <2>1. TypeOK
    BY DEF TimerInv
  <2>2. PICK o : o = op[t]
    OBVIOUS
  <2>3. pc' = [pc EXCEPT ![t] = "remove"] /\ op' = [op EXCEPT ![t] = o]
    BY <1>2, <2>2
  <2> QED
    BY <2>1, <2>3, StoppedAt
<1>4. \A j \in Timers : Owner[j] = t => ~IsStopped(j)
  BY <1>2 DEF IsStopped
<1>5. Due' = Due
  BY <1>2, <1>3, <1>4, DueKept DEF IsDue
<1> QED
  BY <1>2, <1>5 DEF Service!Nothing, Due, IsDue

LEMMA ReleaseMaps ==
  ASSUME TimerInv, NEW t \in Tasks, Release(t)
  PROVE  Service!Nothing
<1>1. /\ pc[t] = "release"
      /\ pc' = [pc EXCEPT ![t] = IF Starts(t) THEN "ready" ELSE "destroy"]
      /\ op' = [op EXCEPT ![t] = IF Starts(t) THEN None ELSE op[t]]
      /\ told' = None /\ UNCHANGED <<occurred, left, period>>
  BY DEF Release, Quiet, asked, entries, Starts
<1>2. op[t] \in Ops
  BY <1>1, WorkTypes DEF TimerInv
<1>3. op[t].kind = "stop" <=> ~Starts(t)
  BY <1>2 DEF Ops, Starts
<1>4. TypeOK
  BY DEF TimerInv
<1>5. ASSUME NEW j \in Timers
      PROVE  IsStopped(j)' <=> IsStopped(j)
  <2>1. CASE Starts(t)
    <3>1. pc' = [pc EXCEPT ![t] = "ready"] /\ op' = [op EXCEPT ![t] = None]
      BY <1>1, <2>1
    <3>2. IsStopped(j)' <=> IF Owner[j] = t THEN FALSE ELSE IsStopped(j)
      BY <1>4, <3>1, StoppedAt
    <3>3. Owner[j] = t => ~IsStopped(j)
      BY <1>3, <2>1 DEF IsStopped
    <3> QED
      BY <3>2, <3>3
  <2>2. CASE ~Starts(t)
    <3>1. PICK o : o = op[t]
      OBVIOUS
    <3>2. pc' = [pc EXCEPT ![t] = "destroy"] /\ op' = [op EXCEPT ![t] = o]
      BY <1>1, <2>2, <3>1
    <3>3. IsStopped(j)' <=> IF Owner[j] = t THEN o.kind = "stop" /\ o.i = j ELSE IsStopped(j)
      BY <1>4, <3>2, StoppedAt
    <3>4. Owner[j] = t => (IsStopped(j) <=> o.kind = "stop" /\ o.i = j)
      BY <1>1, <3>1 DEF IsStopped
    <3> QED
      BY <3>3, <3>4
  <2> QED
    BY <2>1, <2>2
<1>6. Due' = Due
  BY <1>1, <1>5, DueKept DEF IsDue
<1> QED
  BY <1>1, <1>6 DEF Service!Nothing, Due, IsDue

\* The timer is stopped when it has left the list.
LEMMA RemoveTimerMaps ==
  ASSUME TimerInv, NEW t \in Tasks, RemoveTimer(t)
  PROVE  \E i \in Timers : Service!Stop(i)
<1> DEFINE x == IF Starts(t) THEN "add" ELSE "release"
<1>1. PICK i \in Timers : i = Timer(t)
  BY WorkTypes DEF TimerInv, RemoveTimer
<1>2. /\ pc[t] = "remove" /\ pc' = [pc EXCEPT ![t] = x] /\ op' = [op EXCEPT ![t] = op[t]]
      /\ left' = [left EXCEPT ![i] = None] /\ period' = [period EXCEPT ![i] = 0]
      /\ told' = None /\ UNCHANGED occurred
  BY <1>1 DEF RemoveTimer, Quiet, entries, Starts, Timer, TimerInv, TypeOK
<1>3. i \in Timers /\ Owner[i] = t /\ op[t] \in Ops
  BY <1>1, <1>2, WorkTypes DEF TimerInv
<1>4. op[t].kind = "stop" <=> ~Starts(t)
  BY <1>3 DEF Ops, Starts
<1>5. Starts(t) => ~occurred[i]
  BY <1>1, <1>2 DEF TimerInv, EntryInv, KeepsEntry
<1>6. \A j \in Timers :
        IsStopped(j)' <=> IF Owner[j] = t THEN ~Starts(t) /\ i = j ELSE IsStopped(j)
  BY <1>1, <1>2, <1>4, StoppedAt DEF TimerInv, Timer
<1>7. \A j \in Timers : Owner[j] = t => ~IsStopped(j)
  BY <1>2 DEF IsStopped
<1>8. IsDue(i)' <=> FALSE
  BY <1>2, <1>3, <1>5, <1>6 DEF IsDue
<1>9. \A j \in Timers : j # i => (IsDue(j)' <=> IsDue(j))
  BY <1>2, <1>6, <1>7 DEF IsDue
<1>10. Due' = [Due EXCEPT ![i] = FALSE]
  BY <1>3, <1>8, <1>9, DueSet
<1> QED
  BY <1>2, <1>3, <1>10 DEF Service!Stop, Due, IsDue

\* It is started when it is in the list again.
LEMMA AddTimerMaps ==
  ASSUME TimerInv, NEW t \in Tasks, AddTimer(t)
  PROVE  \E i \in Timers, v, p \in Ticks : Service!Start(i, v, p)
<1> DEFINE i == Timer(t)
<1>1. /\ pc[t] = "add" /\ pc' = [pc EXCEPT ![t] = "release"] /\ op' = [op EXCEPT ![t] = op[t]]
      /\ left' = [left EXCEPT ![i] = op[t].v] /\ period' = [period EXCEPT ![i] = op[t].p]
      /\ told' = None /\ UNCHANGED occurred
  BY DEF AddTimer, Quiet, entries, Timer, TimerInv, TypeOK
<1>2. i \in Timers /\ op[t] \in Ops /\ Starts(t)
  BY <1>1, WorkTypes DEF TimerInv, WorkInv, Works
<1>3. op[t].kind # "stop"
  BY <1>2 DEF Starts
<1>4. ~occurred[i]
  BY <1>1, <1>2 DEF TimerInv, EntryInv, KeepsEntry
<1>5. \A j \in Timers : IsStopped(j)' <=> IF Owner[j] = t THEN FALSE ELSE IsStopped(j)
  BY <1>1, <1>3, StoppedAt DEF TimerInv
<1>6. \A j \in Timers : Owner[j] = t => ~IsStopped(j)
  BY <1>1 DEF IsStopped
<1>7. Due' = Due
  BY <1>1, <1>5, <1>6, DueKept DEF IsDue
<1>8. ~Due[i]
  BY <1>2, <1>4 DEF Due, IsDue
<1>9. Service!Start(i, op[t].v, op[t].p)
  BY <1>1, <1>7, <1>8 DEF Service!Start, Due, IsDue
<1>10. op[t].v \in Ticks /\ op[t].p \in Ticks
  BY <1>2 DEF Ops
<1> QED
  BY <1>2, <1>9, <1>10

LEMMA StoppedMaps ==
  ASSUME TimerInv, NEW t \in Tasks, Stopped(t)
  PROVE  Service!Nothing
<1> DEFINE i == Timer(t)
<1>1. /\ pc[t] = "destroy" /\ pc' = [pc EXCEPT ![t] = "ready"] /\ op' = [op EXCEPT ![t] = None]
      /\ told' = None /\ UNCHANGED <<left, period>>
      /\ occurred' = [occurred EXCEPT ![i] = FALSE]
  BY DEF Stopped, DestroyTimer, Quiet, asked, Timer
<1>2. i \in Timers /\ Owner[i] = t /\ op[t] \in Ops /\ ~Starts(t)
  BY <1>1, WorkTypes DEF TimerInv, WorkInv, Works
<1>3. op[t].kind = "stop"
  BY <1>2 DEF Ops, Starts
<1>4. \A j \in Timers : IsStopped(j)' <=> IF Owner[j] = t THEN FALSE ELSE IsStopped(j)
  BY <1>1, StoppedAt DEF TimerInv
<1>5. \A j \in Timers : Owner[j] = t => (IsStopped(j) <=> j = i)
  BY <1>1, <1>3 DEF IsStopped, Timer
<1>6. ~occurred'[i] /\ \A j \in Timers : j # i => occurred'[j] = occurred[j]
  BY <1>1, <1>2 DEF TimerInv, TypeOK
<1>7. \A j \in Timers : IsDue(j)' <=> IsDue(j)
  BY <1>2, <1>4, <1>5, <1>6 DEF IsDue
<1>8. Due' = Due
  BY <1>7, DueKept
<1> QED
  BY <1>1, <1>8 DEF Service!Nothing, Due, IsDue

\* The entity is told of a timer that is due, and of no other one.
LEMMA HandleTimeoutMaps ==
  ASSUME TimerInv, NEW t \in Tasks, HandleTimeout(t)
  PROVE  Service!Nothing \/ \E i \in Timers : Service!Deliver(i)
<1>1. /\ pc[t] = "ready" /\ queue[t] # <<>>
      /\ UNCHANGED <<pc, op, left, period>>
  BY DEF HandleTimeout, tasks, asked
<1>2. PICK i \in Timers : i = Head(queue[t]) /\ Owner[i] = t
  <2>1. queue[t] \in Seq(Timers)
    BY DEF TimerInv, TypeOK
  <2>2. 1 \in 1 .. Len(queue[t]) /\ Head(queue[t]) = queue[t][1] /\ Head(queue[t]) \in Timers
    BY <1>1, <2>1
  <2> QED
    BY <2>2 DEF TimerInv, QueueInv
<1>3. \A j \in Timers : IsStopped(j)' <=> IsStopped(j)
  BY <1>1 DEF IsStopped
<1>4. CASE ~occurred[i] /\ told' = None /\ UNCHANGED <<entries, table>>
  <2>1. Due' = Due
    BY <1>3, <1>4, DueKept DEF IsDue, entries
  <2> QED
    BY <1>1, <1>4, <2>1 DEF Service!Nothing, Due, IsDue
<1>5. CASE /\ occurred[i] /\ told' = i
           /\ \/ ~periodic[i] /\ DestroyTimer(i)
              \/ /\ periodic[i]
                 /\ occurred' = [occurred EXCEPT ![i] = FALSE]
                 /\ UNCHANGED <<handle, periodic, table>>
  <2>1. occurred' = [occurred EXCEPT ![i] = FALSE]
    BY <1>5 DEF DestroyTimer
  <2>2. ~occurred'[i] /\ \A j \in Timers : j # i => occurred'[j] = occurred[j]
    BY <1>2, <2>1 DEF TimerInv, TypeOK
  <2>3. IsDue(i)' <=> FALSE
    BY <2>2 DEF IsDue
  <2>4. \A j \in Timers : j # i => (IsDue(j)' <=> IsDue(j))
    BY <1>3, <2>2 DEF IsDue
  <2>5. Due' = [Due EXCEPT ![i] = FALSE]
    BY <1>2, <2>3, <2>4, DueSet
  <2>6. Due[i]
    BY <1>1, <1>2, <1>5 DEF Due, IsDue, IsStopped
  <2>7. Service!Deliver(i)
    BY <1>1, <1>5, <2>5, <2>6 DEF Service!Deliver, Due, IsDue
  <2> QED
    BY <1>2, <2>7
<1> QED
  BY <1>2, <1>4, <1>5 DEF HandleTimeout

\* The clock and the HISR.
LEMMA TickMaps ==
  ASSUME TimerInv, Tick
  PROVE  Service!Tick
<1>1. /\ left' = [i \in Timers |-> IF left[i] \in {0, None} THEN left[i] ELSE left[i] - 1]
      /\ told' = None /\ UNCHANGED <<occurred, pc, op, period>>
  BY DEF Tick, entries, tasks
<1>2. \A j \in Timers : IsDue(j)' <=> IsDue(j)
  BY <1>1 DEF IsDue, IsStopped
<1>3. Due' = Due
  BY <1>2, DueKept
<1> QED
  BY <1>1, <1>3 DEF Service!Tick, Due, IsDue

LEMMA IdleMaps ==
  ASSUME TimerInv, told' = None, UNCHANGED <<occurred, pc, op, left, period>>
  PROVE  Service!Nothing
<1>1. \A j \in Timers : IsDue(j)' <=> IsDue(j)
  BY DEF IsDue, IsStopped
<1>2. Due' = Due
  BY <1>1, DueKept
<1> QED
  BY <1>2 DEF Service!Nothing, Due, IsDue

LEMMA ExpiryMaps ==
  ASSUME TimerInv, Punctual, ServedInv, os_Timeout
  PROVE  \E i \in Timers : Service!Expire(i)
<1> DEFINE h == Head(list)
<1>1. PICK i \in Timers : i = t_index[h] /\ handle[i] = h /\ status[h] = "ACTIVE"
  <2>1. list # <<>> /\ list \in Seq(Handles)
    BY DEF TimerInv, ArmedInv, TypeOK, os_Timeout
  <2>2. 1 \in 1 .. Len(list) /\ h = list[1]
    BY <2>1
  <2> QED
    BY <2>2, Running
<1>2. /\ occurred' = [occurred EXCEPT ![i] = TRUE]
      /\ left' = [left EXCEPT ![i] = IF period[i] = 0 THEN None ELSE period[i]]
      /\ told' = None /\ UNCHANGED <<pc, op, period>>
  BY <1>1 DEF os_Timeout, tasks
<1>3. left[i] = 0
  BY <1>1, ExpiryServed
<1>4. i \in Timers /\ handle[i] = h /\ status[h] = "ACTIVE"
  BY <1>1
<1> HIDE DEF h
<1>5. ~IsStopped(i)
  <2> SUFFICES ASSUME IsStopped(i)
               PROVE  FALSE
    OBVIOUS
  <2> DEFINE t == Owner[i]
  <2>1. t \in Tasks /\ pc[t] \in {"release", "destroy"} /\ ~Starts(t) /\ Handle(t) = h
    BY <1>4, TimerAssumption DEF IsStopped, Starts, Handle, Timer
  <2> QED
    BY <1>4, <2>1 DEF TimerInv, EntryInv, KeepsEntry
<1>6. \A j \in Timers : IsStopped(j)' <=> IsStopped(j)
  BY <1>2 DEF IsStopped
<1>7. occurred'[i] = TRUE /\ \A j \in Timers : j # i => occurred'[j] = occurred[j]
  BY <1>2, <1>4 DEF TimerInv, TypeOK
<1>8. IsDue(i)' <=> TRUE
  BY <1>4, <1>5, <1>6, <1>7 DEF IsDue
<1>9. \A j \in Timers : j # i => (IsDue(j)' <=> IsDue(j))
  BY <1>6, <1>7 DEF IsDue
<1>10. Due' = [Due EXCEPT ![i] = TRUE]
  BY <1>4, <1>8, <1>9, DueSet
<1>11. Service!Expire(i)
  BY <1>2, <1>3, <1>10 DEF Service!Expire, Due, IsDue
<1> QED
  BY <1>4, <1>11

----------------------------------------------------------------------------
(* The theorem                                                              *)

LEMMA InitServed == TimerInit => ServedInv /\ Service!ServiceInit
<1> SUFFICES ASSUME TimerInit
             PROVE  ServedInv /\ Service!ServiceInit
  OBVIOUS
<1>1. list = <<>> /\ Len(list) = 0 /\ p_list = <<>> /\ Len(p_list) = 0
  BY DEF TimerInit
<1>2. PICK S : S = [k \in 1 .. 0 |-> 0]
  OBVIOUS
<1>3. Waits(S) /\ Ripe(S) /\ RunsInv
  BY <1>1, <1>2 DEF Waits, Ripe, RunsInv
<1>4. Due = [i \in Timers |-> FALSE]
  BY DEF TimerInit, Due, IsDue
<1>5. Service!ServiceInit
  BY <1>4 DEF TimerInit, Service!ServiceInit, Due, IsDue
<1> QED
  BY <1>3, <1>5 DEF ServedInv, LeftInv

\* Every step keeps the invariant and is a step of the service.
LEMMA NextServed ==
  ASSUME Punctual, TimerInv, ServedInv, TimerNext
  PROVE  ServedInv' /\ Service!ServiceNext
<1> USE DEF Service!ServiceNext
<1>1. ASSUME NEW i \in Timers, NEW v \in Values[i], NEW p \in Periods[i] \cup {0}, vsi_t_start(i, v, p)
      PROVE  ServedInv' /\ Service!ServiceNext
  <2>1. /\ UNCHANGED <<list, r_ticks, nu, hisr, p_list, left, period, t_index, p_ticks>>
    BY <1>1 DEF vsi_t_start, Quiet, running, asked
  <2> QED
    BY <1>1, <2>1, AsideServed, StartMaps
<1>2. ASSUME NEW i \in Timers, vsi_t_stop(i)
      PROVE  ServedInv' /\ Service!ServiceNext
  <2>1. UNCHANGED <<list, r_ticks, nu, hisr, p_list, left, period, t_index, p_ticks>>
    BY <1>2 DEF vsi_t_stop, Quiet, running, asked, table
  <2> QED
    BY <1>2, <2>1, AsideServed, StopMaps
<1>3. ASSUME NEW t \in Tasks, Obtain(t)
      PROVE  ServedInv' /\ Service!ServiceNext
  <2>1. UNCHANGED <<list, r_ticks, nu, hisr, p_list, left, period, t_index, p_ticks>>
    BY <1>3 DEF Obtain, Quiet, running, asked, table
  <2> QED
    BY <1>3, <2>1, AsideServed, ObtainMaps
<1>4. ASSUME NEW t \in Tasks, Release(t)
      PROVE  ServedInv' /\ Service!ServiceNext
  <2>1. UNCHANGED <<list, r_ticks, nu, hisr, p_list, left, period, t_index, p_ticks>>
    BY <1>4 DEF Release, Quiet, running, asked, table
  <2> QED
    BY <1>4, <2>1, AsideServed, ReleaseMaps
<1>5. ASSUME NEW t \in Tasks, RemoveTimer(t)
      PROVE  ServedInv' /\ Service!ServiceNext
  BY <1>5, RemoveTimerServed, RemoveTimerMaps
<1>6. ASSUME NEW t \in Tasks, AddTimer(t)
      PROVE  ServedInv' /\ Service!ServiceNext
  BY <1>6, AddTimerServed, AddTimerMaps
<1>7. ASSUME NEW i \in Timers, DestroyTimer(i), hisr = "off", handle[i] = 0 \/ status[handle[i]] = "USED",
             UNCHANGED <<list, r_ticks, nu, hisr, p_list, left, period>>
      PROVE  ServedInv'
  <2>1. p_list = <<>>
    BY <1>7 DEF TimerInv, LockInv
  <2>2. \A h \in Handles : status[h] = "ACTIVE" => t_index'[h] = t_index[h] /\ p_ticks'[h] = p_ticks[h]
    BY <1>7 DEF DestroyTimer
  <2> QED
    BY <1>7, <2>1, <2>2, AsideServed
<1>8. ASSUME NEW t \in Tasks, Stopped(t)
      PROVE  ServedInv' /\ Service!ServiceNext
  <2>1. Timer(t) \in Timers /\ status[handle[Timer(t)]] = "USED"
    BY <1>8, WorkTypes DEF TimerInv, Stopped, WorkInv, Works, EntryInv, KeepsEntry, Handle
  <2>2. /\ DestroyTimer(Timer(t)) /\ hisr = "off"
        /\ UNCHANGED <<list, r_ticks, nu, hisr, p_list, left, period>>
    BY <1>8 DEF Stopped, Timer, Quiet, running, asked
  <2>3. ServedInv'
    BY <1>7, <2>1, <2>2
  <2> QED
    BY <1>8, <2>3, StoppedMaps
<1>9. ASSUME NEW t \in Tasks, HandleTimeout(t)
      PROVE  ServedInv' /\ Service!ServiceNext
  <2> DEFINE i == Head(queue[t])
  <2>1. /\ hisr = "off" /\ queue[t] # <<>>
        /\ UNCHANGED <<list, r_ticks, nu, hisr, p_list, left, period>>
    BY <1>9 DEF HandleTimeout, running, asked
  <2>2. i \in Timers
    BY <2>1 DEF TimerInv, TypeOK
  <2>3. ServedInv'
    <3>1. CASE occurred[i] /\ ~periodic[i] /\ DestroyTimer(i)
      <4>1. status[handle[i]] = "USED"
        BY <2>2, <3>1 DEF TimerInv, ExpiredInv
      <4> QED
        BY <1>7, <2>1, <2>2, <3>1, <4>1
    <3>2. CASE UNCHANGED <<t_index, p_ticks>>
      BY <2>1, <3>2, AsideServed
    <3> QED
      BY <1>9, <3>1, <3>2 DEF HandleTimeout, table
  <2> QED
    BY <1>9, <2>3, HandleTimeoutMaps
<1>10. CASE Tick
  BY <1>10, TickServed, TickMaps
<1>11. CASE Postpone
  <2>1. Service!Nothing
    BY <1>11, IdleMaps DEF Postpone, entries, tasks, asked
  <2> QED
    BY <1>11, <2>1, PostponeServed
<1>12. CASE os_Timeout
  BY <1>12, ExpiryServed, ExpiryMaps
<1>13. CASE StartAgain
  <2>1. Service!Nothing
    BY <1>13, IdleMaps DEF StartAgain, entries, tasks, asked
  <2> QED
    BY <1>13, <2>1, StartAgainServed
<1> QED
  BY <1>1, <1>2, <1>3, <1>4, <1>5, <1>6, <1>8, <1>9, <1>10, <1>11, <1>12, <1>13, Zenon DEF TimerNext

LEMMA StutterServed ==
  ASSUME TimerInv, ServedInv, UNCHANGED vars
  PROVE  ServedInv' /\ UNCHANGED Service!serviceVars
<1>1. UNCHANGED <<list, r_ticks, nu, hisr, p_list, left, period, t_index, p_ticks, occurred, pc, op, told>>
  BY DEF vars, entries, table, running, tasks, asked
<1>2. ServedInv'
  BY <1>1, AsideServed
<1>3. \A j \in Timers : IsDue(j)' <=> IsDue(j)
  BY <1>1 DEF IsDue, IsStopped
<1>4. Due' = Due
  BY <1>3, DueKept
<1> QED
  BY <1>1, <1>2, <1>4 DEF Service!serviceVars, Due, IsDue

\* An entity is told of a timer exactly when it was promised: not before its time, once for
\* an expiry, and never when it has stopped or started the timer again meanwhile.
THEOREM TimersAreServed == Punctual => (TimerSpec => TimersServed)
<1> SUFFICES ASSUME Punctual
             PROVE  TimerSpec => TimersServed
  OBVIOUS
<1>1. TimerSpec => []TimerInv
  BY TimersInvariant
<1>2. TimerInit => ServedInv /\ Service!ServiceInit
  BY InitServed
<1>3. TimerInv /\ ServedInv /\ [TimerNext]_vars => ServedInv' /\ [Service!ServiceNext]_Service!serviceVars
  BY NextServed, StutterServed
<1> QED
  BY <1>1, <1>2, <1>3, PTL DEF TimerSpec, TimersServed, Service!ServiceSpec

=============================================================================
