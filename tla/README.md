# A verification project for the Citrine GSM firmware

TLA+ models of four parts of the software in `src/`, checked with TLC and, as far as
section 4 says, proved with TLAPS:

- layer 2 of the GSM air interface, LAPDm, in `src/g23m-gsm/dl/`: interrupts, a
  task, timers, retransmissions and an unreliable peer meet;
- the flash file system in `src/services/ffs/`: the power may fail between any two
  programmings of the flash;
- the short message entity in `src/g23m-gsm/sms/`: three protocol layers, two
  transactions at a time, and messages that cross in the queues of two tasks;
- the timers of the frame all entities run in, `src/gpf/`: tasks, a high level
  interrupt and messages that are late share a list and a table.

## 1. The system

Citrine is the firmware of a GSM telephone. Layer 1 (`L1/`) talks to the DSP and
the radio. The protocol stack (`g23m-gsm/`) is a set of entities that exchange
primitives through the GPF frame (`gpf/`), each a task on the Nucleus kernel
(`nucleus/`). Above it the AT command interpreter (`g23m-aci/`) serves the
terminal. Riviera (`riviera/`) and `services/` supply files, buffers and tests.

| Component | State it keeps | Operations and partners | Hard behaviour | What makes it correct |
|---|---|---|---|---|
| DL, LAPDm entities (`g23m-gsm/dl`) | per channel and SAPI: state, V(S), V(R), V(A), T200 and retry counter, frame to be sent; uplink queue; message being put together | `dl_downlink`, `dl_uplink` from layer 1; DL primitives of RR | two contexts, lost frames, T200, suspension and resumption | reliable link, no wait without a timer, release told to RR |
| DL signals (`dl_signal.c`, `dl_pei.c`) | ring of nine signal buffers, busy flags | posted in interrupt context, handled by the DL task | reuse of the ring, decisions handled later on a changed entity | no signal lost, signals handled on what they were posted for |
| DL on SACCH (`dl_sacch0.c`) | which SAPI is next, measurement report | every second opportunity for SAPI 3 | arbitration between two entities | neither SAPI starves |
| RR (`g23m-gsm/rr`) | radio resource state, channels, cells, timers T31xx | uses DL, drives ALR, serves MM | handover, cell reselection, races with release | channel and link agree |
| ALR (`g23m-gsm/alr`) | cell lists, measurement and paging schedule | RR above, L1 below | schedules against radio events | every request answered |
| MM (`g23m-gsm/mm`) | MM state, up to n MM connections, timers | RR below; CC, SS, SMS above | parallel connections, reestablishment | connections released once |
| CC (`g23m-gsm/cc`) | call state per TI, T303 to T313 | MM below, ACI above | crossing releases | call states of 24.008 |
| SMS (`g23m-gsm/sms`) | CP and RP state per entity, TC1, retransmission count | MM below over SAPI 3, MMI above | retransmission, parallel transactions | message acknowledged once |
| SS (`g23m-gsm/ss`) | transaction per TI | MM below, ACI above | release against facility | transaction ends |
| SIM (`g23m-gsm/sim`) | card state, file cache | card driver, all entities | removal during a command | requests answered |
| L1 and DSP drivers (`L1`) | TDMA schedule, hardware | interrupts; calls DL | hard real time | schedule |
| FFS (`services/ffs`) | inodes, blocks and a journal in flash | file operations, reclaim, check at power up | power loss between any two flash writes | a file is old or new, nothing leaks |
| ACI (`g23m-aci/aci` and extensions) | command tables, per client state | terminal, all entities | parallel clients | one final result per command |
| DTI manager (`g23m-aci/dti`, `aci_dti_mng`, `gdd_dio`) | links and flow control | entities on the data path | connect crossing disconnect | no data on a closed link |
| BAT (`g23m-aci/bat`) | clients, outstanding commands | applications, ACI | responses matched to clients | one response each |
| L2P, UART, KSD (`g23m-aci`) | framing, escape and key state | serial line | flow control | octets in order |
| GPF frame and VSI (`gpf`) | queues, timers, partitions, semaphores | every entity | timer lists, partition exhaustion | a timer fires once, a partition has one owner |
| Nucleus (`nucleus`) | kernel | everything | third party | |
| Riviera (`riviera`) | banks of buffers with watermarks | services | limit and colour of a bank | counters match the buffers |
| Serial switch, BSP (`serial`, `bsp`) | UART and device registers | interrupts | hardware | |
| ETM, PCM, DAR (`services`) | test interface, factory data, records | serial line | | |
| CCD (`ccd`, `cdg`) | decoding stack | every entity with messages | nested optional elements | decode inverts code |
| GLUE, comlib (`g23m-glue`, `comlib`) | adaptation, ring buffers, short messages | ACI, entities | ring at its limit | |
| debug monitor, libraries, build, documents | | | | |

`PROJECT.json` lists them with the sources and the status of each.

### DL, closer

RR asks for a link (`DL_ESTABLISH_REQ`), sends and receives messages on it and
releases it. Layer 1 calls `dl_downlink()` with every frame it decoded and
`dl_uplink()` at every opportunity to send; both run in **interrupt context**.
There a primitive cannot be sent: the call posts a *signal* instead, and the
**DL task** handles it later, on the entity as it has become meanwhile
(`dl_signal.c`). The primitives of RR are handled in the same task.

The window is one I frame. T200 does not count time but opportunities, and it is
started one opportunity after it was asked for (`time_flag`). An entity that does
not get an answer repeats SABM, DISC or its I frame until a retry counter is
exhausted. A release of the network is acknowledged by a UA and told to RR only
some opportunities later (`DELAYED_RELEASE_IND`); a CHANNEL RELEASE makes DL send
a DISC by itself (`LATE_LEAVING_DEDICATED`). On SDCCH, SAPI 3 is asked for a frame
only when SAPI 0 has none. The hazards this gives are listed, each at its line,
in `PROJECT.json`.

### FFS, closer

A file is an *object* (name and data) in a data block and an *inode* in the one inode
block that is in use; directories are lists through the inodes. Flash can be
programmed from 1 to 0 and erased by blocks only, so nothing is changed in place:
a new object and inode are written, and the journal entry says which inode takes
the place of which. An operation takes effect when its journal entry is marked
ready; `journal_init()` finishes or drops the last entry at power-up. A full block
is reclaimed: what is valid is moved (each move with a journal entry of its own),
the block is marked, its old inodes are invalidated, and it is erased. The inode
block and the journal file are themselves moved in this way. One block is kept
spare for this. Each block carries its state in flags that are programmed one after
the other, from which `blocks_fsck()` finds out at power-up what was interrupted.

All that modifies runs in one task; readers run in any task, without a lock. What
is hard is the order of the programmings, and that every operation may contain
the others (a write that reclaims a block, that moves the journal, that moves the
inodes), with an interrupted power-up as one more operation.

### SMS, closer

The entity stacks CP (acknowledgement and repetition of one message, `sms_cp.c`),
RL (references, TR1M and TR2M, `sms_rl.c`) and TL (submission, storing in the SIM,
`sms_tl.c`, `sms_tls.c`) on a connection of MM. It has one slot for a message being
submitted (MO) and one for a message being delivered (MT). Handlers of all three
layers call each other directly; between SMS and MM are queues, so a request and
an indication cross. `csf_get_sms_instance()` looks an instance up by its transaction
identifier without regard of the state it is in, `rl_data_ind()` does not compare
references, and the answers of the SIM name no message: what is handled may belong
to an older transaction.

### GPF timers, closer

All running timers are in one list, each with the ticks it expires after the one
before it; one timer of the kernel runs for the head (`os_tim_ir.c`). When it expires,
`os_Timeout()` takes the head, and all that expire with it, from the list, and
`pf_Timeout()` marks the entry of each and sends a message to its task
(`frame.c:857`). It runs as a high level interrupt, which no task interrupts and which
cannot wait: a task changes the list under a semaphore and a flag, and an interrupt
that finds the flag set comes again a tick later, with the reference time moved by that
tick. The entry of a timer (`vsi_tim.c`) holds its handle and whether it is periodic and
has expired; it is written by the task *before* the list changes, without the semaphore.
A message may be late: its timer was stopped, started again, or has expired once more
meanwhile. `pf_HandleMessage()` tells by the entry.

## 2. Modules

| Module | What it is |
|---|---|
| `DlEntity` | one acknowledged entity, DCCH0 (SAPI 0) or DCCH3 (SAPI 3 on SDCCH), under any frames of a set `Frames` |
| `DlEntity_proofs` | the inductive invariant of `DlEntity` and six theorems |
| `DlLink` | SAPI 0 end to end: `DlEntity`, a radio channel that loses frames, the entity of the network (external), RR as user of the link |
| `DlLink_proofs` | the inductive invariant of `DlLink`: numbers, frames and signals; four theorems |
| `DlLinkService_proofs` | the data on the link, a release, and the refinement of `DlService`; four theorems |
| `DlService` | the abstract specification: a reliable link |
| `FfsCore` | what the functions of `core.c`, `reclaim.c` and the journal write to flash, and in which order |
| `FfsBoot` | the power-up: `ffs_initialize()`, `blocks_reclaim()`, and `fs_format()` |
| `Ffs` | the requests, executed one programming at a time, readers, loss of power, power-up |
| `Ffs_proofs` | the inductive invariant of `Ffs`: the inode table is never lost; three theorems |
| `FfsStore` | the abstract specification: a set of files that survives a loss of power |
| `SmsRelay` | one slot (MO or MT) of the SMS entity under any input |
| `SmsRelay_proofs` | the inductive invariant of `SmsRelay` and six theorems |
| `SmsMo` | submission: `SmsRelay` (MO), the queues, MM and the network (external) |
| `SmsMo_proofs` | the inductive invariant of `SmsMo`, three theorems and the refinement of `SmsService` |
| `SmsMt` | delivery: `SmsRelay` (MT), the queues, MM, the network and the SIM (external) |
| `SmsMt_proofs` | the inductive invariant of `SmsMt` and three theorems |
| `SmsService` | the abstract specification of the submission |
| `VsiTimer` | the timers of the frame: tasks, list, kernel timer, interrupt, messages |
| `VsiTimer_proofs` | the inductive invariant of `VsiTimer`, four theorems and the refinement of `TimerService` |
| `TimerService` | the abstract specification: each timer for itself |
| `MCDlEntity`, `MCDlLink`, `MCFfs`, `MCSmsRelay`, `MCSmsMo`, `MCSmsMt`, `MCVsiTimer` | instances for TLC |

### DlEntity and the code

| Variable | In the code |
|---|---|
| `state` | `dl_data->state[channel]` |
| `cch` | `dl_data->cch[channel]`, `T_CCH` |
| `queue` | `dcch0_queue` or `dcch3_queue`, `T_QUEUE` |
| `in_msg` | `dcch0_in_msg` or `dcch3_in_msg`, as the segments put together so far |
| `disc_request` | `dcch0_disc_request` or `dcch3_disc_request` |
| `rel` | the delayed `DL_RELEASE_IND` and its counter |
| `signals` | the signals of the interrupt context that are not handled yet |
| `l2_frame`, `toRR` | outputs of the step: frame to layer 1, primitives to RR |

| Action | In the code |
|---|---|
| `dl_downlink(f)` | `dl_downlink()` with the handler of the state: `downlink_idle`, `downlink_contention_resolution`, `downlink_mfe`, `downlink_timer_recovery`, `downlink_awaiting_release`, and what they call (`downlink_i_frame`, `nr_error_recovery`, `invoke_retransmission`, `free_sending_buffer`, ...) |
| `dl_uplink(busy)` | `dl_uplink()`: count T200 down, `dcch0_check_disc`, `T200_expiry`, the `uplink_...` handler of the state, `delayed_release_ind`. `busy` is `dl_active` |
| `dcch0_uplink`, `Dcch0Calls` | what the entity of SAPI 0 does to the one of SAPI 3 |
| `RRRequest` | the handlers of the DL primitives in `dl_dcch0.c` and `dl_dcch3.c` |
| `DLTask` | `dl_process_signal()`, one signal |

A handler is one step with everything it does. `Downlinked`, `Uplinked` and `Task`
are the common ends of the three families of handlers: `Downlinked` contains the
storing of the P/F bit and of the start or stop of T200 with which
`dl_downlink()` ends, also for a frame that is ignored.

Abstractions:

- a message is a model value; a message of `Segs[m]` segments needs as many I
  frames. Lengths and offsets of the queue (octets) count segments. `act_offset`
  is an unsigned 16 bit number in the code; in the model a negative value stands
  for its wrap below 0.
- frames the checks at the top of `dl_downlink()` throw away (format, length,
  SAPI, address) do not occur: `Frames` holds accepted frames. UI frames, fill
  frames, traces and the frame number handed to RR are left out.
- one primitive of RR, or one signal, is one step. That an interrupt may come in
  the middle of one is represented only by `busy`.
- signals that only return memory (`FREE_POINTER`) are left out; the ring that
  holds the signals is unbounded here. `Lag` is the number of signals the DL task
  may be behind when layer 1 calls (0 in the runs, see section 6).
- when a `DATA_CNF` signal finds the sending buffer released, the code reads
  through NULL: the execution has no defined continuation and ends in the model.
- options as the build has them: `DELAYED_RELEASE_IND`, `LATE_LEAVING_DEDICATED`,
  `IFRAME_AS_RR`, `INVOKE_SIGNAL`, `NEW_REJ_ACK` on; `DELAYED_SABM`, `DL_2TO1` off.

`EntityAssumption` is all that is assumed of the constants; in particular that
T200 counts at least two opportunities, as all values of `cus_dl.h` do.

### DlLink and DlService

The network of `DlLink` is not in this repository. It behaves as 3GPP TS 04.06
asks and as the handlers of `dl_state.c` expect: answers every frame, sends one I
frame at a time, repeats it, releases. The channel holds one frame up and
`DownMax` down; any of them may be lost, none is reordered. RR asks for the link
until it is up, sends its messages in order, and may release, as in `rr_datf.c`.
`handed` counts the messages RR has handed over: each is another one
(`LinkAssumption`), because the entity knows a message by its address, which names one
message as long as that is not released. `DownFrames` are the segments of the messages
`Down` of the network, one after the other, with the M bit on all but the last of each.

`DlService` says what the users are promised: segments are carried in order,
without loss or duplicate; a message of the network is indicated once, whole and
in order; a `DL_DATA_CNF` comes once and only after the last segment of its message
was carried. `DlLink` implements it: `ReliableLink` is `DlService!Spec` with the
history variables `given`, `carried`, `confirmed`, `indicated` as the mapping.

### Ffs and the code

A C function that modifies the file system is an operator from a state
`[f, r, w, v]` to such a state: the flash, the variables of RAM (`fs`, `bstat`), the
programmings made so far, and the result. Calls are compositions; early returns are
results. `Do(s, q)` so computes a whole request of `ffs.c` and the *list* of its
programmings, in order; nothing in it depends on anything but the flash and RAM,
which no one else changes. `Ffs` then executes the list one programming at a time.

| Variable | In the code |
|---|---|
| `flash` | the blocks: header flags, age, objects, the inode table |
| `root`, `inodes` | `fs.root`, `fs.inodes` at this moment, which readers use |
| `ram` | the rest of `fs` and `bstat`, as the running request will leave them |
| `pending` | the programmings that are still to be made |
| `phase`, `request`, `result`, `answer` | what the FFS task is doing |
| `files`, `before` | history: what a power-up would find now, and at the request |

| Action | In the code |
|---|---|
| `Begin(q, wear)` | a request: `ffs_file_write()`, `ffs_remove()`, `ffs_rename()`, `ffs_fcontrol()` with all they call. `wear` stands for `rand()` in `data_reclaim()` |
| `Step` | one call of the flash driver |
| `Finish` | the answer, or the end of the power-up |
| `PowerFail` | between any two programmings, those of a power-up included |
| `PowerUp` | `ffs_initialize()`, then `blocks_reclaim()` (`task.c`) |

Abstractions: an object fills one slot of a block and sizes count slots; one
directory, the root; no segments of large files (`stream`), no symbolic links.
Copying the inode table is one programming, because at power-up a block in that
state is freed whatever was copied. An erase is two steps (unreadable, blank).
After a power-up that failed every request fails (`initerror`).
The drivers are external: synchronous, no suspended erase.

`FfsStore` promises: a request takes effect at one moment and as a whole, the answer
says whether it did, and a loss of power changes nothing. The mapping takes for the
contents `files`, that is, the result of a whole power-up on the flash as it is:
the refinement says that *every* programming either leaves what would be found
unchanged or carries out the request.

### SmsRelay and the code

A handler is a function from the slot to the slot, named as in the code
(`cp_data_ind`, `rl_report_req`, `tl_establish_cnf_send`, ...); what it sends to MM is
collected in `out`, what it tells the user and the SIM in `up`. The fields of the slot
are those of `T_SMS_INSTANCE` and the states of the three layers. The actions are the
primitives of `sms_pei.c` (`EstablishCnf`, `EstablishInd`, `ReleaseInd`, `ErrorInd`,
`DataInd` of MM; `SubmitReq` of the user; `SimUpdateCnf`) and the timers `TC1M`, `TR1M`,
`TR2M`. Messages are decoded: a faulty one is a value of its own, the cause of an
RP-ERROR is one of the classes the handler tells apart. In `SmsRelay` any input comes
at any time.

`SmsMo` and `SmsMt` put a queue in each direction between the slot and MM, give MM its
connections (`conn`: asked for, open, lost, none) and the network what it received and
owes (`rx`, `net`). The network and MM's other side are external. `SmsMo` refines
`SmsService`: one submission at a time, and one is confirmed as sent only after the
service centre accepted that very message. It does so as long as no indication of an older
transaction was taken for the present one (the history variable `mixed`, section 6).
`SmsMt` has the SIM as a queue of writes. There the network uses a transaction identifier
again only when nothing of the delivery before is left in either queue (`NetworkDelivers`),
and has a reference for each message (`ReferencesAssumption`).
The two slots share only the queue and the SIM, and are looked up by disjoint
transaction identifiers; each composition has one of them.

### VsiTimer and the code

| Variable | In the code |
|---|---|
| `handle`, `periodic`, `occurred` | the entry of a timer (`FirstTimerEntry + TimerIndex`): `TIMER_HANDLE_MASK`, `PERIODIC_TIMER`, `TIMEOUT_OCCURRED` |
| `status`, `t_index`, `p_ticks`, `r_ticks` | `TimerTable` |
| `list` | the chain from `t_running` |
| `elapsed` | `NU_Retrieve_Clock() - t_start_ticks`, the only way both are used |
| `nu` | what is left of `os_timer_cb`, 0 when it is disabled |
| `t_list_access`, `sem` | `t_list_access`, `TimSemCB` |
| `p_list`, `hisr` | `p_list`, and where `os_Timeout()` is |
| `queue` | the `MSG_TIMEOUT` messages of a task |
| `pc`, `op` | where a task is in `vsi_t_start()`, `vsi_t_pstart()` or `vsi_t_stop()` |
| `passed` | the ticks since the task came to its step, of which it may have missed some |
| `left`, `period`, `told` | history, for `TimerService` |

| Action | In the code |
|---|---|
| `vsi_t_start`, `vsi_t_stop` | up to the call of `os_StartTimer()` or `os_StopTimer()`, with `os_CreateTimer()` |
| `Obtain`, `RemoveTimer`, `AddTimer`, `Release` | the steps of those two, between any of which ticks, the interrupt and other tasks come |
| `Stopped` | `os_DestroyTimer()` and the clearing of the entry |
| `HandleTimeout` | `pf_HandleMessage()` for a `MSG_TIMEOUT`; `vsi_c_await()` does the same |
| `Tick` | the clock and the kernel timer (external) |
| `Postpone`, `os_Timeout`, `StartAgain` | `os_Timeout()`: the flag is set; one timer expires; one periodic timer starts again |

Abstractions: times are ticks (`TIME_TO_SYSTEM_TICKS` is applied to what the caller
gives). Of the unsigned arithmetic the borrow is kept: a difference below 0 becomes one
near `Wrap`. What a free handle, or one that is not in the list, still holds is cleared,
as nothing reads it. The place of a timer in the list is stated (`Place`: before the first
one that expires later) and not searched for; `TicksAfter` is the count that is subtracted on
the way. `os_Timeout` takes one expired timer per step;
no task runs between these steps.

`TimerService` has no list, handles or messages: a timer that is started has so many
ticks left, one that has expired may be announced to its task, and is so at most once
per expiry, never before its time and never after it was stopped or started again.
`TimersServed` is its specification under the mapping of `occurred` to the announced
expiry, except that a timer a stop has taken from the list counts as stopped although
its entry is cleared only later (`IsStopped`), and of the history to the promised times.

## 3. Model checking

| Run | What it asks | Size of the instance |
|---|---|---|
| `sapi0` | types, the message of contention resolution, retry limits, a timer for every wait; under *any* frame of `SmallFrames` in any state | 1 message with confirmation, T200 2, N200 2, N200Est 1, delay 1 |
| `sapi3` | the segments of a message, for SAPI 3, through repetition and REJ | as above, 2 segments |
| `link` | the link with losses: invariants, refinement of `DlService`, liveness | 2 messages up (2 and 1 segments), 1 down (2 segments), either side may release |
| `ffs` | refinement of `FfsStore`, the move of the inode table, statistics, spare block, room in the journal, readers, programmability, reasons of a failed write | 4 blocks of 4 slots, 2 file names, 2 requests, 1 loss of power, 10 starting fill levels |
| `sms_entity` | types and the four invariants of the slot, under any input | both slots, 2 and 2 transaction identifiers, 2 references, 1 repetition |
| `sms_mo` | refinement of `SmsService`, what is kept and released, liveness | 2 messages, 2 connections lost, queues of 3, 3 transaction identifiers |
| `sms_mt` | acknowledged means stored, connections, liveness | 3 messages on 2 connections, 1 connection lost, queues of 2 |
| `timers` | refinement of `TimerService`, the kernel timer, the handles | 3 timers of 2 tasks, times of 1 to 3 ticks, one periodic with 2, 3 handles |
| `disc3`, `channel_release`, `ffs_dir`, `sms_unsent` | four disagreements of section 6 | |

`SmallFrames` has every frame type, commands and responses, P/F of 0 and 1,
N(R) inside and outside of the window, N(S) expected and repeated, the UA with and
without the message, and a CHANNEL RELEASE. The entity is given these in any
state, which includes all a correct or an incorrect network can send with these
fields.

Why the bounds are enough:

- `T200Count = 2` is the smallest value at which T200 both runs and expires, and
  it is the real one of SDCCH for SAPI 0. The larger ones (4 to 10) add steps in
  which nothing but the counter changes.
- `N200 = 2`, `N200Est = 1`: a repetition, and the last one, both happen, and the
  two limits differ so that mixing them up shows. (The code uses 5 for the
  establishment, 5 to 34 for the repetitions.)
- `MaxQueued`: 1 or 2 instead of 10, so that the full queue is reached.
- `ReleaseDelay = 1` against 1 and 4 of the code: the interval in which the link is
  gone and RR is not told exists.
- `Lag = 0`: the DL task keeps up; section 6 says what happens otherwise. The theorems of
  `DlLink_proofs` hold for any `Lag`.
- `InMsgMax` and `ActLengthMax` bound what a network of arbitrary frames could let
  grow without limit. The guard `Bounded` only stops the input of further frames.
- The sequence numbers are the real ones, modulo 8.

For the file system:

- 4 blocks: one for inodes, one spare, two with data, the smallest number with which
  data moves between blocks. 4 slots: root, journal and two files.
- `Warm`: how many writes preceded. The ten levels were chosen so that the requests
  that follow meet each of: free space, a data reclaim, one with a move of the root, of
  the journal, of the inodes, a full journal, and their combinations.
- 2 requests and 1 loss of power: an interrupted request, the power-up, an interrupted
  power-up followed by another, and a request on the result. Every programming of
  every request is a point of failure.
- `Excluded = {"dir", "journal", "spare"}`: three windows in which a loss of power is *not*
  survived (section 6). `Window(flash)` defines them by what is in flash. The property is
  claimed outside of them.

For SMS:

- `MAX_RETRANS = TL_MAX_RETANS = 1` are the real values (`cus_sms.h`).
- The transaction identifiers wrap around (2 or 3 instead of 7), so that an old one is
  met again; more would only make that rarer.
- `SlowSim = FALSE`: the SIM has answered before the slot is used for the next message
  (`SimInTime`); `Stray = FALSE`: the network sends no RP message out of place. Section 6
  says what happens otherwise.
- the timers, of tens of seconds, expire only when both queues are empty.
- `MaxQueue`: 3 for the submission, so that what is left of the transaction before and the
  present one meet in the queue. The invariants of both proofs were checked with queues of 3
  and 4 as well; that showed the conditions of `mixed` and of `NetworkDelivers`, which queues
  of 2 had hidden.

For the timers of the frame:

- 3 timers: the smallest number for which one is inserted and removed between two
  others. Two belong to one task, so that its messages queue up, and one to another, so
  that tasks meet in the list. Times of 1 to 3 ticks, with an expiry of several timers in one
  tick, and a period that is equal to the time of another timer.
- `Wrap = 16` stands for 2^32: times stay far below either, and only a borrow can
  reach it.
- `MaxQueued = 1`: no tick while a task is more than one message behind. Two expiries of
  one timer, or of two, are queued with that. Section 5 says what a full queue does.
- `MaxLate = 0`: a task uses the clock within the tick in which it read it;
  `RestartRace = FALSE`: no timer expires while its own restart is under way. The code
  ensures neither; section 6 says what happens otherwise.

Deadlock is not checked: with `Bounded` the DL entity may really stop taking frames, a
finished link has nothing left to do, and requests, messages and failures are bounded
in number in the other runs.

### Properties

Of the entity:

- `TypeOK`.
- `ContentionHasMessage`: while the answer to a SABM with a message is awaited, the
  message is there. `com_compare_L3_msg()` does not look.
- `RetriesBounded`: the retry counter stays within the limit of the state. In state
  RELEASE only while T200 counts: the DISC of the network enters that state with the
  counter left over from timer recovery, which may be larger than N200Est, but with
  T200 stopped, so it is never compared.
- `WaitIsSupervised`: an answer is never awaited with T200 stopped for good.
- `SegmentsExist`: an I frame carries a segment the message has, through REJ,
  repetition and restoring of the queue.

Of the link:

- `OutstandingIsTimed`: an unacknowledged I frame has T200 running.
- `ConfirmedIsDelivered`, `ReliableLink`: see above.
- `RepeatsLastFrame`: the poll of timer recovery repeats the last I frame exactly.
- `AgreesWithRR`: when the entity has left the link RR knows, or is about to be told;
  when RR was told so, the entity is not left in the link.
- `DiscIsRepeated`: a DISC of a release is timed.
- `Delivers`: what RR handed over reaches the network or the link is given up.
- `ReleaseTold`: a release that has begun is told to RR.

Of the file system:

- `TypeOK`: also that between requests the flags of every block in `bstat` are those in its
  header, and `fs.inodes` is the block RAM takes for the table. Both are kept twice, and
  every decision about a block is made by the copy.
- `TableKept`: whatever moves, and whenever the power fails, `blocks_fsck()` finds an inode
  table (never "Oops no valid inode block", `reclaim.c:226`); the one readers look at is
  found, or already marked as lost and not yet erased; only blocks marked as lost are
  erased; the table is copied to a block that holds no inodes.
- `StoreKept`: the refinement of `FfsStore`.
- `CountersAgree`: between requests `bstat` agrees with the flash; a block with a wrong
  number of objects would be erased with its contents, or never.
- `ReadyForNext`: a spare block, a root, a journal file, and readers see what a power-up would
  find; no block was chosen by a variable that was never set.
- `JournalHasRoom`: the margin of the journal file is not used up.
- `Programmable`: no cell is programmed twice with different contents.
- `ReadersFindFiles`: a reader in another task finds every file that exists before and after,
  with the one or the other contents, between any two programmings.
- `FailsForReason`: a write fails only for lack of room or of inodes or on a read-only file.

Of SMS:

- `RetransmitExists`: while a CP-DATA waits for its CP-ACK the message to repeat is kept.
- `WaitIsTimed`: while RL waits for a connection, for the RP-ACK or for TL its timer runs.
- `LayersAgree`: RL and TL agree on whose turn it is.
- `AckIsSent`: an owed CP-ACK is not forgotten, whatever layer ends the transaction.
- `SubmitIsServed`: a submission TL accepted is under way in RL.
- `SduIsKept`: the message to be built on the confirmation is still there.
- `ConnectionsReleased`, `HoldsItsConnection`: no connection of MM outlives its transaction.
- `ImplementsService`: the refinement of `SmsService`.
- `AckedIsStored`: the service centre is told to forget a message only if the SIM has it.
- `ReleaseIsDelayed`: a release waits for a CP-ACK only while one is outstanding and RL is
  done; nothing of it is left for the next transaction.
- `SubmitIsConfirmed`, `DeliveryEnds`: transactions end, and the slot is free again.

Of the timers:

- `NextIsArmed`: the kernel timer runs for the rest of the head's time. When it is lost,
  every timer of the telephone stands still.
- `HandlesAccounted`: the handles in use are those of the entries, one each, and those in
  the list are the active ones.
- `TimersServed`: the refinement of `TimerService`.

Every one of these has a mutant in `PROJECT.json`: a definition changed as a slip
in the code would, with which TLC finds the property violated.

### Fairness

`Fairness` of `DlEntity` and `LinkFairness` of `DlLink` have strong fairness of the
opportunities and of the arrival of a frame at the network: opportunities come
with the TDMA frames whatever the network does, and of infinitely many repetitions
of a frame one arrives. Strong, because the channel being occupied or a frame being
on its way disables them again and again. A downlink frame in the decoder and a
signal in the queue of the DL task are handled under weak fairness. Nothing is
assumed of RR, of the network's sending, or of losses beyond that.

`MoFairness` and `MtFairness`: a task whose queue is not empty runs, a timer that runs
expires, the SIM answers, each under weak fairness, as nothing disables them again.
Nothing is asked of the network: it may stay silent for ever, and may lose the
connection.

No liveness is claimed of the timers of the frame. `NextIsArmed` is its safety part: as
long as it holds, ticks alone make the head expire.

## 4. Proofs

`DlEntity_proofs` proves, for all messages and segmentations, any set of well-formed
frames, either SAPI and any values of the counters that satisfy `EntityAssumption`:

| Theorem | Statement |
|---|---|
| `Invariance` | `Spec => []IInv` |
| `TypeCorrect` | `Spec => []TypeOK` |
| `ContentionSafe` | `Spec => []ContentionHasMessage` |
| `RetriesSafe` | `Spec => []RetriesBounded` |
| `WaitSupervised` | `Spec => []WaitIsSupervised` |
| `SegmentsSafe` | `Sapi = 3 => (Spec => []SegmentsExist)` |

The invariant `IInv` is `TypeOK` with three strengthened properties, each stated of
any channel, state and queue because a handler first builds these and then stores
them:

- `ContentionKept` adds that contention resolution happens for SAPI 0 only. Without
  it the SABM with which the network answers a SABM of SAPI 3 would be allowed to
  clear the queue while the message is still compared.
- `RetriesKept` is `RetriesBounded`; it is inductive because T200 only expires while
  it counts, and `T200_expiry` counts a repetition only below the limit.
- `Watched` sharpens `WaitIsSupervised`: for SAPI 0 T200 is never missing, and the UA
  of SAPI 3 is an excuse in state CONTENTION only. Without the first, handling an
  `ERROR_IND` could take away the last reason.

The proof follows the code. Lemmas on the data (`NumberTypes`, `QueueTypes`,
`ChannelTypes`, `SignalTypes`, `FailingStays`) say what the operators keep. Each of
the three families of handlers has one lemma on its common end (`DownlinkedStep`,
`UplinkedStep` with `SendsStep` and `DummyStep`, `TaskStep` with `KeepStep` and
`InitStep`), with the conditions under which storing a result preserves `IInv`; and
one lemma per handler shows that its results meet them. `T200_expiryGood` goes
through the cases of `T200_expiry`.

`SegmentsSafe` has an invariant of its own, `Segmented(queue)`: while a message is in the sending
buffer, what was read of it and what is left are the message, after its last segment the
offset stays at that one, and the segment that is outstanding exists. It needs that the
switch buffer is empty: SAPI 3 is never suspended and resumed, the one way in which an offset
comes to belong to another message (finding 7 of section 6), and only there the property
fails.

`DlLink_proofs` proves, for any messages and segmentations on both sides, any counters and any
number of frames on their way, from

    OnTime == Sapi = 0 /\ ~LateAnswers /\ ~NetPolls

| Theorem | Statement |
|---|---|
| `LinkInvariance` | `OnTime => (LinkSpec => []LInv)` |
| `OutstandingTimed` | `OnTime => (LinkSpec => []OutstandingIsTimed)` |
| `LastFrameRepeated` | `OnTime => (LinkSpec => RepeatsLastFrame)` |
| `AgreementWithRR` | `OnTime => (LinkSpec => []AgreesWithRR)` |

`NetPolls` and `LateAnswers` are findings 5 and 8 of section 6: with the one `RepeatsLastFrame`
fails, with the other `ConfirmedIsDelivered`. `Lag` is any. `LInv` adds to the invariant of the
entity, of the link as a whole: `Unused`, what never was up has no state; `Contending`, while
the answer to the SABM is awaited the network is idle or has answered with number 0
everywhere; `UpAndRunning`, on a link that is up (`Synchronised`) V(S), V(A) and V(R) of the
entity, those of the network, the frame that was sent last and each frame on its way fit, a
frame behind another fits what the first leaves, T200 runs exactly while an I frame is
outstanding, and `last` is what would be repeated; `Agreed`, RR was told or will be. `Takes` is what
a frame that fits does to the entity; `GoesOn` what an opportunity does: nothing, a new I
frame, a poll. The lemmas on the two sides are put together in `NextLInv`.

`DlLinkService_proofs` proves, from

    OnSchedule == OnTime /\ Lag = 0
    OneRelease == RRCloses => no message of the network is a CHANNEL RELEASE

| Theorem | Statement |
|---|---|
| `DiscRepeated` | `OnSchedule /\ OneRelease => (LinkSpec => []DiscIsRepeated)` |
| `DataInvariance` | `OnSchedule => (LinkSpec => [](LInv /\ DInv))` |
| `ConfirmedDelivered` | `OnSchedule => (LinkSpec => []ConfirmedIsDelivered)` |
| `LinkIsReliable` | `OnSchedule => (LinkSpec => ReliableLink)` |

`Lag = 0` says that the DL task has handled all signals when layer 1 acts again; without it a
message is confirmed that was not delivered (finding 6). Without `OneRelease` the timer of a
release may be stopped (finding 2, run `channel_release`). For `DiscIsRepeated` the invariant
`RInv` says that RR asks for a release only of a link it has, and what signals a release may
leave. `DInv` is about the data. `Queued`: the queue holds the messages of RR from one on, in
order. `Given` and `Carried`: there are positions `at` in `given` where each message starts; the
offsets of the queue name the position up to which it was read, and what the network received
is a prefix of `given` that ends there or one segment, the one outstanding, before.
`Confirmed`: a message is confirmed once, after all of it. `Handling`: the signals of one frame
that are left are a `Batch`, at most one segment, one confirmation, one indication, in this
order; what was put together is the beginning of the next message of the network, and the
whole of it when the indication is due. From the invariant and from what each signal tells RR
(`Tells`) the refinement follows step by step.

`SmsRelay_proofs` proves, for either slot, any number of transaction identifiers,
references and repetitions, and any input in any state:

| Theorem | Statement |
|---|---|
| `SmsInvariant` | `Spec => []IInv` |
| `SmsTypeCorrect` | `Spec => []TypeOK` |
| `SmsRetransmitExists` | `Spec => []RetransmitExists` |
| `SmsWaitIsTimed` | `Spec => []WaitIsTimed` |
| `SmsLayersAgree` | `Spec => []LayersAgree` |
| `SmsAckIsSent` | `Spec => []AckIsSent` |

`IInv` is `SlotInv(sms)`, of two parts. `UpperInv`: the types, the timers of the layers, RL
and TL agree, and a delivery slot never asks for a connection. `LowerInv`: a message
that waits is kept, its CP-ACK bookkeeping is right, and CP waits for MM exactly while
RL establishes. They are split because a handler of CP restores the lower part before
RL and TL, which it calls, have restored the upper one.

The proof goes up the layers, as the calls do: lemmas on the functions of CP, then of
RL, then of TL, then one per primitive and timer; each has the form "from a slot in which
this much holds, the function leaves a slot in which that much holds". `Orderly` is what a
function of CP that sends must find (nothing awaited, no CP-ACK owed while waiting).

`VsiTimer_proofs` proves, for any number of timers, tasks and handles and any times,
from `TimerAssumption` and

    Punctual == MaxLate = 0 /\ RestartRace = FALSE

without which two of the properties do not hold (section 6):

| Theorem | Statement |
|---|---|
| `TimersInvariant` | `Punctual => (TimerSpec => []TimerInv)` |
| `TimerTypes` | `Punctual => (TimerSpec => []TypeOK)` |
| `HandlesAreAccounted` | `Punctual => (TimerSpec => []HandlesAccounted)` |
| `KernelTimerIsArmed` | `Punctual => (TimerSpec => []NextIsArmed)` |
| `TimersAreServed` | `Punctual => (TimerSpec => TimersServed)` |

`TimerInv` adds to the properties what ties the parts together. `WorkInv` and `LockInv`: a task at
work has a timer of its own, with a handle, and the one in the list has semaphore and
flag. `ListInv`: a handle is in the list once. `EntryInv`, `ExpiredInv`, `PeriodicInv`: entry and
table may differ only while a start is under way, and a timer that has expired for good
is out of the list, which is why its message may free the handle. `AgainInv`: what the interrupt
is to start again is not touched meanwhile. `ArmedInv`: an interrupt that is postponed finds
the head's time elapsed and more than 0, so moving the reference time does not make it
negative. `RestartInv`: none of the timers that expire is being started, the inductive form of
the second assumption.

`RemoveAtFacts` and `InsertAtFacts` say what removal and insertion leave of a sequence; `Removed`
and `Added`, that after them the list, the relative times and the kernel timer fit again; one
lemma per action does the rest.

`TimersAreServed` needs in addition that the list keeps the promises (`ServedInv`): the kernel timer
and the relative times of the timers up to one sum up to the wait of that one (`Waits`), and no
timer in the list has longer to go than its wait (`Ripe`). That the sums stay right when a timer
is removed, inserted or skipped (`TicksAfterFacts`) is shown from place to place; `Counting`,
which rests on the well-ordering of the numbers, takes the place of an induction theorem with an
operator parameter.

`SmsMt_proofs` proves, for any number of connections, deliveries, failures and any length of
the queues:

| Theorem | Statement |
|---|---|
| `DeliveriesAreOrderly` | `MtSpec => []MtInv` |
| `ReleaseWaitsForItsAck` | `MtSpec => []ReleaseIsDelayed` |
| `SlotHoldsItsConnection` | `MtSpec => []HoldsItsConnection` |
| `AcknowledgedIsStored` | `SlowSim = FALSE => (MtSpec => []AckedIsStored)` |

`ReleaseIsDelayed` does not hold of the slot alone (`SmsRelay`, any network), so these are about
the composition. `MtInv` says of the slot that it is free, receives, or closes; of each
transaction identifier, by `Link`, what is in the queues for it, given the state of its
connection and whether the slot has it: announced and not yet taken, in use, about to be
released; and by `Store`, that what is or will be acknowledged is with the SIM.

`SmsMo_proofs` proves, for any number of submissions, failures, references, repetitions and
any length of the queues, from

    Regular == MoTiCount > 1 /\ Stray = FALSE /\ PrepareFails = FALSE

| Theorem | Statement |
|---|---|
| `SubmissionsAreOrderly` | `Regular => (MoSpec => []MoInv)` |
| `SubmissionIsServed` | `Regular => (MoSpec => []SubmitIsServed)` |
| `MessageIsKept` | `Regular => (MoSpec => []SduIsKept)` |
| `NoConnectionIsLeft` | `Regular => (MoSpec => []ConnectionsReleased)` |
| `SubmissionImplementsService` | `Regular => (MoSpec => ImplementsService)` |

The code has seven identifiers; with a single one a connection would be asked for on the
transaction that is being released. `Stray` and `PrepareFails` are findings 14 and 4 of section
6. `MoInv` says that the slot is in one of six situations (`MoSlot`: idle, asking for a connection,
waiting to ask again, stuck, sending, about to send again), also after identifiers were
mixed up; and, until then, how the queues read. `Steady`, when no connection is asked for:
there is one transaction, what is under way is about the present message, and a connection
the slot has left has its RELEASE_REQ in the queue. `Opening`, when one is: first in both queues
is what is left of the transaction before, then the request, or its confirmation or
rejection. The queues are described by position, because their order is what matters. The first
part of the proof computes what each handler does in each situation, the second follows the
queues step by step; `Serves` is what every step of SMS tells the user, from which the
refinement follows.

`Ffs_proofs` proves, for any number of blocks, any sizes and margins that satisfy
`FfsAssumption`, any number of files, requests and losses of power, without any exception
(`Excluded` may be empty, and the power may fail in the windows of section 6):

| Theorem | Statement |
|---|---|
| `FfsInvariance` | `FfsSpec => []FfsInv` |
| `TableIsKept` | `FfsSpec => []TableKept` |
| `FfsTypeCorrect` | `FfsSpec => []TypeOK` |

It assumes of the flash at the start (`StartAssumption`) what a formatted file system has:
headers that can be read, at most one block marked as the table and at most one as its copy,
the table or a copy of a lost one, and no inodes in a block that is free or blank. TLC evaluates
this on the ten flashes of `MCFfs`.

`TableKept` says of one moment that the table can be found. What makes it inductive is that
the *rest of the running request* keeps it so, and this rest is a list that was computed at the
start. `FfsInv` therefore says: there is a path (`PathTo`) from the flash and `fs.inodes` as they
are, through the programmings of `pending`, to a flash that RAM describes (`Match`); each flash
on the way is `Safe`, each programming `Legal`. `Step` goes one place along the path (`PathTail`),
`PowerFail` drops it, and `Begin` and `PowerUp` build it. For these every function of `FfsCore`,
`FfsBoot` and `Ffs` has a lemma of the form `Leads(s, F(s))` or `Moves(s, F(s))`: from a state in
which RAM describes the flash, the function ends in such a state, and a path to the one is
continued to the other. `Leads` adds that data blocks keep their flags, which is why a block chosen
for a reclaim is still a data block after the inodes have moved. Sequences of programmings that
leave the headers alone are one case (`QuietLeads`); the headers are written by
`block_preformat()`, `block_reclaim()`, `block_alloc()` and `block_commit()` only, and
`CommitLeads` is the heart: marking the old table as lost before the new one is validated is safe
since a complete copy together with a lost table counts as a table.

The power-up starts from any `Safe` flash: `ScanKnown`, `FormatBlankKnown` and `ChooseInodesChecked`
follow `blocks_fsck()` block by block until RAM describes the flash. Where the code repeats (blocks,
objects of a block, rounds of `data_prealloc()`) the model has a recursive function;
`...Is` lemmas take it apart into a first value and a step, and `Counting` does the induction.

What the proof does not use is what is in the inodes and objects: which inode is taken and where an
object lands is left open, so the theorems hold of every such choice.

Model-checked only:

- liveness, all of it: `Delivers`, `ReleaseTold`, `SubmitIsConfirmed`, `DeliveryEnds`.
  It rests on fairness and `ENABLED`, which the prover does not treat.
- `SegmentsExist` for SAPI 0, which does not hold of every set of frames (finding 7).
- the properties of the link without `OnTime` or `OnSchedule`, of the timers without
  `Punctual`, of the submission without `Regular`: there they do not hold, see section 6.
- of the file system what depends on the contents of inodes and objects: `StoreKept`,
  `ReadersFindFiles`, `CountersAgree`, `Programmable`, `FailsForReason`. What a lookup finds is computed
  along lists through the inodes (`Chain`), what is counted by sums over them, for every
  content an induction over data, which is out of the prover's reach.
- `ReadyForNext` and `JournalHasRoom`. They do not hold for every value of the constants: findings 9, 12,
  13 and 19 of section 6 are such cases, and which room is enough is a sum over the objects of all
  blocks.

## 5. Not modelled

Of DL: SAPI 3 on SACCH and its arbitration, measurement reports, UI frames, several
channel types in one run (the channel change of a handover is there as suspension
and resumption), the ring of signal buffers, interrupts in the middle of a
primitive.

Of FFS: directories below the root, symbolic links, files of several segments and open
file descriptors (`ffs.c`: `stream_...`), the RAM file system, the drivers (suspended
erase), the requests' queue and mailbox (`task.c`), formatting and `ffs_preformat`.

Of SMS: GPRS, continuous mode (CMMS), concatenated messages, commands, memory available
notification (SMMA), keeping a sent message in a record, cell broadcast, the coding of
messages; `MNSMS_DELETE_REQ` and `MNSMS_STORE_REQ` (which may release a message in transit,
`sms_tlp.c:473`, `sms_tlp.c:889`).

Of the frame: the query of a timer (`os_QueryTimer()`), the correction of the clock after sleep
(`os_RecoverTick()`), the timer configuration of the test interface, starts from interrupts,
what `pf_Timeout()` does when the queue of a task is full (an assertion), queues of primitives,
partitions and memory pools.

Of the repository: everything else in the table of section 1. Layer 1, drivers, kernel and
build are out of reach (hardware, real time, third party); ACI and CCD are parsing,
formatting and tables; RR and ALR are larger than one project.

## 6. Where code and documentation disagree

Runs TLC ends with a counterexample:

1. `disc3`. A release of SAPI 3 that has to wait for an acknowledgement is never
   carried out: after the acknowledgement SAPI 3 is not asked again.
2. `channel_release`. DL sends a DISC by itself after a CHANNEL RELEASE; the
   `DL_RELEASE_REQ` of RR for the same event stops its timer, so a lost DISC is not
   repeated.
3. `ffs_dir`. When the power fails while a directory is being moved, after the journal entry
   is ready, `journal_init()` commits the entry with `fs.link_child` still 0: the new
   directory has no entries.
4. `sms_unsent`. When a message cannot be built once the connection is there, CP is
   released but RL stays established; the next submission waits for ever.

Others were met while modelling. They have no run of their own and can be reproduced
with the settings given:

5. In timer recovery an RR command with N(R) = V(A) makes `invoke_retransmission` step V(S)
   back and empty the transmit buffer while the poll is still owed: the next poll is an
   empty frame with a wrong N(S), not the "repetition of the last frame"
   (`dl_state.c:2242`). `link` with `NetPolls = TRUE`, `RepeatsLastFrame`.
6. `DL_DATA_CNF` is decided in the interrupt and carried out later on whatever message is
   then in the sending buffer: one that is not acknowledged is confirmed and released.
   `link` with `Lag = 2`, `ConfirmedIsDelivered`.
7. The message sent first after a resumption shares the offset with the message that was
   interrupted: a REJ moves the offset of the wrong one. `sapi0` with
   `Frames <- HandoverFrames`, `SegmentsExist`.
8. When an answer may come after the next opportunity to send (`LateAnswers = TRUE`,
   `DownMax = 2`), an answer to the frame before the poll ends timer recovery
   (`dl_state.c:1279`, `1306`) and a message that was not received is confirmed. `link`
   therefore assumes that answers come first.
9. A loss of power during the move of the journal file leaves two valid ones, of which
    the last counts; after a second one files are lost. `ffs` with
    `Excluded = {"dir", "spare"}`, `MaxFailures = 2`, `StoreKept`.
10. A file renamed to its own name is deleted twice in the statistics of its block.
    `ffs` with `SelfRename = TRUE`, `CountersAgree`.
11. While the root directory moves readers find no file. `ReadersFind` in place of
    `ReadersFindFiles`.
12. The margin of the journal (`core.h:91`; the FIXME at `fsck.c:1267`) does not cover two
    losses of power during its move. `ffs` with `MaxFailures = 2`, `JournalHasRoom`.
13. `journal_create()` failing within `journal_end()` leaves `fs.ijournal` 0: from then on
    nothing is journalled until the next power-up. By reading; `ffs` keeps enough room.
14. A release flag left by a transaction that was answered out of place is inherited by the
    next submission (`sms.h:558`), whose connection is released at its first CP-ACK.
    `sms_mo` with `Stray = TRUE`, `ReleaseIsDelayed` stated of `SmsMo`.
15. A late confirmation of the SIM acknowledges the next message (`STATE_NET` names none).
    `sms_mt` with `SlowSim = TRUE`, `AckedIsStored`.
16. `tl_timeout_ind()` ignores a timeout while a submission is repeated (`sms_tls.c:1013`): TL
    stays in `TL_ESTABLISH`. `SubmitIsConfirmed` therefore ends in `Repeating`.
17. An indication of an older transaction is taken for the present one: a connection of MM
    is leaked or the message to be sent is released. `SduIsKept` and
    `ConnectionsReleased` therefore exempt histories in which that happened (`mixed`), and so
    does `ImplementsService`: when the release of an older connection ends the present
    submission, `csf_get_new_mo_ti()` comes back to an identifier MM still has asked for,
    and the late confirmation and the RP-ACK of one message confirm the next. `sms_mo` with
    `MaxSubmits = 3`, `MaxFailures = 2`, `MaxQueue = 3` and `ImplementsService` without
    `~mixed'`.
18. A repeated CP-DATA is answered with an RP-ERROR, after which the RP-ACK for the message is
    dropped (`rl_data_ind` in `RL_WAIT_FOR_SEND_ACK`).
19. When the power fails after the last object was moved out of a block and before the block
    is marked for cleaning, the power-up gives the block up and no spare block is left.
    `ffs` with `Excluded = {"dir", "journal"}`, `MaxRequests = 1`, `Warm = {9, 10, 11}`,
    `ReadyForNext`.
20. "start timer that expires only once" (`vsi_tim.c:167`): a restart clears
    `TIMEOUT_OCCURRED` (`vsi_tim.c:192`) before the old run leaves the list. When that expires
    in between, the entity is told at once of the timer it has just started, the entry is
    cleared, and the timer that runs then is known to no entry: its handle is lost when
    it expires. `timers` with `RestartRace = TRUE`, `TimersServed` and `HandlesAccounted`.
21. The clock is read (`os_tim_ir.c:53`, `90`) some instructions before the kernel timer is
    started for the difference. With a tick in between, the timer that becomes the head can be
    left without ticks; no kernel timer is started for it, and no timer expires any more
    until another start becomes the head. `timers` with `MaxLate = 1`, `NextIsArmed`.
22. A periodic timer whose period is less than a tick is entered with `p_ticks` 0 and runs
    once, though its entry says periodic. By reading; `Periods` has none.
23. `vsi_c_await()` leaves `Msg.Timer.Index` unset for a timeout message it drops
    (`vsi_com.c:1219` to `1229`). By reading.

## 7. Plan

1. Done: `DlEntity`, `DlLink`, `DlService`; `FfsCore`, `FfsBoot`, `Ffs`, `FfsStore`;
   `SmsRelay`, `SmsMo`, `SmsMt`, `SmsService`; `VsiTimer`, `TimerService`; the theorems above.
2. `DlSignals`: the ring of nine signal buffers and the busy flags (`dl_signal.c:75`),
   abstractly a queue; properties: no pending signal overwritten, order kept; run at
   the limit of the ring; theorem: at most nine pending implies the refinement.
3. `DlSacch`: two entities and a measurement report on one channel
   (`dl_state.c:2137`); property: neither SAPI starves.
4. `DlLink` with a network that establishes again and a second link, for the delayed
   release that comes late; SAPI 3 end to end, then `SmsMo` over it.
5. Proofs: every safety property of the entity, the link, SMS and the timers has a theorem, and
   of the file system the move of the inode table. Next there: the lists through the inodes stay
   acyclic (a rank on irefs as a history variable makes it a statement without
   induction), then that a request takes effect at one programming.
6. FFS: segments of large files and directories.
7. Timers: `vsi_t_status()`, the correction after sleep and the timer configuration.
8. `RvfBuffer`, `ClRibu`: buffer banks of Riviera, the ring buffer of comlib; queues and
   partitions of the frame; each with a small abstract specification and proofs.
