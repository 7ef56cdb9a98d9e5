-------------------------------- MODULE Ffs --------------------------------
(***************************************************************************)
(* The flash file system in use: requests of ffs.c carried out by the FFS  *)
(* task, one flash programming at a time, readers in other tasks, loss of  *)
(* power between any two programmings (also during the power-up), and      *)
(* power-up.                                                               *)
(***************************************************************************)
EXTENDS FfsBoot

CONSTANTS
  MaxRequests,     \* requests in a behaviour
  MaxFailures,     \* losses of power in a behaviour
  Excluded,        \* windows in which the power does not fail, see Window
  SelfRename,      \* whether a file is renamed to its own name
  Start            \* the flashes a behaviour starts with

VARIABLES
  flash,
  root, inodes,    \* fs.root and fs.inodes, which readers look at
  ram,             \* the other variables of RAM, as the running request leaves them
  pending,         \* the programmings the running request has still to make
  phase,           \* "off", "boot", "idle", "busy"
  request,         \* the request that is running
  result,          \* what it will answer
  answer,          \* the last answer
  files,           \* history: the files a power-up would find if the power failed now
  before,          \* history: those when the request was made
  requests, failures

vars == <<flash, root, inodes, ram, pending, phase, request, result, answer, files,
          before, requests, failures>>

NoRequest == [op |-> "none"]

----------------------------------------------------------------------------
(* The requests                                                            *)

Request(op, n, m, v) == [op |-> op, name |-> n, new |-> m, val |-> v]
Requests ==
       {Request("write", n, n, v) : n \in Names, v \in Values}
  \cup {Request("remove", n, n, 0) : n \in Names}
  \cup {Request("rename", n, m, 0) : n \in Names, m \in Names}
  \cup {Request("fcontrol", n, n, 0) : n \in Names}
Allowed(q) == q.op = "rename" /\ q.name = q.new => SelfRename

Fail(s) == Ret(s, -1)
\* The end of a request that has created its object.
Complete(s) == IF s.v = -1 THEN s ELSE Ret(journal_end(s), 0)

is_readonly(s, i) ==
  i \in {s.r.root, s.r.ijournal} \/ Inode(s, i).flags = "readonly"

\* ffs_file_write() with FFS_O_CREATE.  The new object takes the place of the old one
\* completely, its segments included.
EndWrite(c, i) ==
  IF c.v = -1 THEN c
  ELSE Complete(IF i = 0 THEN [c EXCEPT !.r.journal.flags = "file"]
                ELSE [c EXCEPT !.r.link_child = FALSE])
file_write(s, name, val) ==
  LET i == object_lookup(s, name)
      begun == IF i = 0 THEN journal_begin(s, 0) ELSE [journal_begin(s, i) EXCEPT !.r.i_backup = 0]
  IN IF BytesFree(s) < 1 \/ (i # 0 /\ is_readonly(s, i)) THEN Fail(s)
     ELSE EndWrite(object_create(begun, [name |-> name, val |-> val], -s.r.root), i)

file_remove(s, name) ==
  LET i == object_lookup(s, name)
  IN IF i = 0 \/ is_readonly(s, i) THEN Fail(s) ELSE Ret(object_remove(s, i), 0)

\* The space is looked for first, so that the object is not moved while it is copied.
CreateRenamed(p, new) ==
  IF p.v = NoLoc THEN Fail(p)
  ELSE Complete(object_create(p, [name |-> new, val |-> Object(p, p.r.journal.oldi).val],
                              p.r.i_backup))
object_rename(s, new, dir) == CreateRenamed(data_prealloc([s EXCEPT !.r.i_backup = dir]), new)

file_rename(s, name, new) ==
  LET i == object_lookup(s, name)
      n == object_lookup(s, new)
      b == journal_begin(s, i)
  IN IF i = 0 \/ is_readonly(s, i) THEN Fail(s)
     ELSE IF n # 0 /\ is_readonly(s, n) THEN Fail(b)
     ELSE object_rename([b EXCEPT !.r.journal.repli = n], new, -s.r.root)

\* ffs_fcontrol(OC_FLAGS): make the file read-only, by a new inode for the same data.
EndFcontrol(a) ==
  LET j == [a EXCEPT !.r.journal.i = a.v]
  IN IF a.v = 0 THEN Fail(j)
     ELSE Ret(journal_end([j EXCEPT !.r.journal.diri = dir_traverse(j, @)]), 0)
file_fcontrol(s, name) ==
  LET i == object_lookup(s, name)
  IN IF i = 0 \/ is_readonly(s, i) THEN Fail(s)
     ELSE EndFcontrol(inode_alloc([journal_begin(s, i) EXCEPT !.r.journal.flags = "readonly"]))

\* Nothing is done when the power-up has failed.
Do(s, q) ==
  IF s.r.initerror THEN Fail(s)
  ELSE CASE q.op = "write"    -> file_write(s, q.name, q.val)
         [] q.op = "remove"   -> file_remove(s, q.name)
         [] q.op = "rename"   -> file_rename(s, q.name, q.new)
         [] q.op = "fcontrol" -> file_fcontrol(s, q.name)

----------------------------------------------------------------------------
(* The headers of the blocks                                               *)

\* What is read from the headers of the blocks: at most one block is the inode table and at
\* most one a copy of it, and there is the table, or a complete copy of a table that is lost.
\* A block that is free, or blank, holds no inodes.
InFlash(f, state) == {b \in Blocks : f[b].magic = "ok" /\ f[b].flags = state}
OnlyOne(S) == \A b, c \in S : b = c
TableIsThere(f) ==
  /\ OnlyOne(InFlash(f, IsInodes)) /\ OnlyOne(InFlash(f, IsCopying))
  /\ \/ InFlash(f, IsInodes) # {}
     \/ InFlash(f, IsCopying) # {} /\ InFlash(f, IsInodesLost) # {}
Magics == {"blank", "bad", "ok"}
NoInodes == [i \in Irefs |-> BlankInode]
IsFresh(block) == block.magic # "bad" /\ block.flags \in {{}, IsFree}
HeadersRead(f) ==
  /\ DOMAIN f = Blocks
  /\ \A b \in Blocks :
       /\ {"magic", "age", "flags", "inode"} \subseteq DOMAIN f[b]
       /\ f[b].magic \in Magics /\ f[b].age \in Nat
       /\ f[b].magic = "bad" => f[b].flags \subseteq {"LOST"}
       /\ f[b].magic = "blank" => f[b].flags = {}
       /\ IsFresh(f[b]) => f[b].inode = NoInodes

\* Flashes of formatted file systems.
ASSUME StartAssumption == \A f \in Start : HeadersRead(f) /\ TableIsThere(f)

BlocksChecked(f) == blocks_fsck([f |-> f, r |-> NoRam, w |-> <<>>, v |-> 0])

----------------------------------------------------------------------------
(* What is in the file system                                              *)

NoFile == [val |-> 0, ro |-> FALSE]

\* The files a lookup finds, through the given inode block and root.
Visible(f, n, r) ==
  [name \in Names |->
     LET i == LookupIn(f, n, r, name)
         ip == f[n].inode[i]
     IN IF i = 0 THEN NoFile
        ELSE [val |-> f[ip.loc[1]].slot[ip.loc[2]].val, ro |-> ip.flags = "readonly"]]

\* The files after a loss of power now; none when the power-up does not succeed.
Found(s) ==
  IF s.v # 0 THEN [name \in {} |-> NoFile] ELSE Visible(s.f, s.r.inodes, s.r.root)
Recovered(f) == Found(Fsck(f))

\* What a request should make of the files.
Effect(old, q) ==
  LET file == old[q.name]
  IN CASE q.op = "write"    -> [old EXCEPT ![q.name] = [val |-> q.val, ro |-> FALSE]]
       [] q.op = "remove"   -> [old EXCEPT ![q.name] = NoFile]
       [] q.op = "rename"   -> IF q.name = q.new THEN old
                               ELSE [old EXCEPT ![q.new] = file, ![q.name] = NoFile]
       [] q.op = "fcontrol" -> [old EXCEPT ![q.name].ro = TRUE]

\* Moments in which a loss of power is not survived: a directory moves and the journal
\* entry is ready but the link to its files not copied; there are two valid journal
\* files; all is moved from a block but it is not yet marked as one to clean.
ReadyEntries(s) ==
  UNION {{e \in Range(Object(s, i).val) : e.state = "ready"} : i \in Named(s, ".journal")}

Spareless(u) ==
  /\ u.v = 0 /\ u.r.to_clean = 0
  /\ \A b \in Blocks : ~is_block(u, b, IsFree) /\ "LOST" \notin u.r.flags[b]
  /\ \A b \in Interrupted(u) : u.r.objects[b] = 0

WindowAt(s, u) ==
  [dir |-> \E e \in ReadyEntries(s) :
             e.oldi # 0 /\ Inode(s, e.oldi).child # Inode(s, e.i).child,
   journal |-> Cardinality(Named(s, ".journal")) > 1,
   spare |-> Spareless(u)]
Window(f) == WindowAt(BlocksChecked(f), Fsck(f))

PowerIsSafe(f) == \A x \in Excluded : ~Window(f)[x]

----------------------------------------------------------------------------
(* Behaviour                                                               *)

FfsInit ==
  /\ flash \in Start
  /\ \E s \in {Boot(flash)} :
       /\ ram = s.r
       /\ pending = s.w
       /\ result = "ok"
  /\ root = 0 /\ inodes = 0
  /\ phase = "boot"
  /\ request = NoRequest
  /\ answer = "ok"
  /\ files = Recovered(flash) /\ before = files
  /\ requests = 0 /\ failures = 0

\* The FFS task takes a request.  wear: whether a data reclaim takes the youngest block.
Begin(q, wear) ==
  /\ phase = "idle"
  /\ requests < MaxRequests
  /\ Allowed(q)
  /\ \E s \in {Do([f |-> flash, r |-> [ram EXCEPT !.wear = wear], w |-> <<>>, v |-> 0], q)} :
       /\ ram' = [s.r EXCEPT !.wear = FALSE]
       /\ pending' = s.w
       /\ result' = IF s.v = -1 THEN "failed" ELSE "ok"
  /\ phase' = "busy"
  /\ request' = q
  /\ before' = files
  /\ requests' = requests + 1
  /\ UNCHANGED <<flash, root, inodes, answer, files, failures>>

\* The next programming.
Step ==
  /\ pending # <<>>
  /\ LET w == Head(pending)
     IN /\ flash' = Program(flash, w)
        /\ root' = IF w.op = "root" THEN w.v ELSE root
        /\ inodes' = IF w.op = "inodes" THEN w.v ELSE inodes
  /\ files' = IF PowerIsSafe(flash') THEN Recovered(flash') ELSE files
  /\ pending' = Tail(pending)
  /\ UNCHANGED <<ram, phase, request, result, answer, before, requests, failures>>

\* All is written: the power-up is complete, or the request is answered.
Finish ==
  /\ phase \in {"boot", "busy"}
  /\ pending = <<>>
  /\ phase' = "idle"
  /\ root' = ram.root
  /\ inodes' = ram.inodes
  /\ answer' = IF phase = "busy" THEN result ELSE answer
  /\ request' = NoRequest
  /\ result' = "ok"
  /\ UNCHANGED <<flash, ram, pending, files, before, requests, failures>>

PowerFail ==
  /\ phase # "off"
  /\ failures < MaxFailures
  /\ PowerIsSafe(flash)
  /\ phase' = "off"
  /\ pending' = <<>>
  /\ ram' = NoRam
  /\ root' = 0 /\ inodes' = 0
  /\ request' = NoRequest
  /\ result' = "ok"
  /\ failures' = failures + 1
  /\ UNCHANGED <<flash, answer, files, before, requests>>

PowerUp ==
  /\ phase = "off"
  /\ \E s \in {Boot(flash)} :
       /\ ram' = s.r
       /\ pending' = s.w
       /\ result' = IF s.v = 0 THEN "ok" ELSE "failed"
  /\ phase' = "boot"
  /\ UNCHANGED <<flash, root, inodes, request, answer, files, before, requests, failures>>

FfsNext ==
  \/ \E q \in Requests, wear \in BOOLEAN : Begin(q, wear)
  \/ Step
  \/ Finish
  \/ PowerFail
  \/ PowerUp

FfsSpec == FfsInit /\ [][FfsNext]_vars

----------------------------------------------------------------------------
(* Properties                                                              *)

Ram == [f |-> flash, r |-> ram, w |-> <<>>, v |-> 0]

\* The phases, and the shape of what is kept: there are programmings to make only while a
\* request or the power-up is carried out, and afterwards RAM has the flags of every block
\* and the number of the one with the inodes.
TypeOK ==
  /\ phase \in {"off", "boot", "idle", "busy"}
  /\ answer \in {"ok", "failed"} /\ result \in {"ok", "failed"}
  /\ request = NoRequest \/ (request \in Requests /\ phase = "busy")
  /\ inodes \in Blocks \cup {0}
  /\ phase = "idle" => inodes = ram.inodes /\ \A b \in Blocks : ram.flags[b] = flash[b].flags
  /\ pending # <<>> => phase \in {"boot", "busy"}
  /\ \A b \in Blocks : flash[b].magic \in Magics

\* The file system keeps what it promises: seen through what a power-up would find, every
\* request takes effect at one programming, whatever else it had to move, and a loss of
\* power at any moment, during a power-up too, changes nothing.
Store == INSTANCE FfsStore WITH
           Files <- [Names -> [val : Values \cup {0}, ro : BOOLEAN]]
StoreKept == Store!StoreSpec

\* Between requests the statistics of RAM are those of the flash: objects is the "number
\* of valid objects" of a block (core.h), which decides whether a block is moved or just
\* erased, and nothing is accounted as lost that is valid.
CountersAgree ==
  phase = "idle" =>
    \A b \in DataBlocks(Ram) :
      LET valid == {i \in ValidInodes(Ram) : Inode(Ram, i).loc[1] = b}
      IN /\ ram.objects[b] = Cardinality(valid)
         /\ ram.used[b] >= block_used(flash[b])
         /\ ram.used[b] - ram.lost[b] >= Cardinality({Inode(Ram, i).loc : i \in valid})

\* The inode table is never lost, however often the power fails while it moves to another
\* block (block_commit(): "Oops no valid inode block").  The power-up finds a table; the one
\* that readers look at is found again or was already given up, and it is in a block that
\* is not erased; only blocks that are marked as lost are.  It is copied to a block in which
\* no inode is programmed yet.
TableKept ==
  /\ LET s == BlocksChecked(flash)
     IN /\ s.v # -1
        /\ inodes # 0 => \/ s.r.inodes = inodes
                         \/ flash[inodes].flags = IsInodesLost
  /\ inodes # 0 => flash[inodes].magic = "ok"
  /\ \A b \in Blocks : pending # <<>> /\ Head(pending) = [op |-> "spoil", b |-> b] =>
       "LOST" \in flash[b].flags /\ b # inodes
  /\ pending # <<>> /\ Head(pending).op = "table" => flash[Head(pending).b].inode = NoInodes

SpareKept == phase = "idle" => \E b \in Blocks : is_block(Ram, b, IsFree)

\* Between requests the journal file has room for the entry of a request and for that of
\* its own relocation: FFS_JOURNAL_MARGIN entries are kept "for emergencies" (core.h), as
\* each loss of power costs one or two.
JournalHasRoom == phase = "idle" => ram.journal_pos + 1 <= JournalEntries

\* No block number is used that was never determined, and the journal file is not searched
\* beyond its end.  Between requests there is a spare block, a root directory and a journal
\* file in use, and the files that are seen are those that a power-up would find.
ReadyForNext ==
  /\ ~ram.undefined
  /\ phase = "idle" =>
       /\ SpareKept
       /\ root \in Irefs
       /\ ram.ijournal # 0
       /\ Visible(flash, inodes, root) = files

\* Flash is only programmed where it is blank, or with what is there already, or to set
\* the next flags: the drivers refuse anything else.
Programmable ==
  pending # <<>> =>
    LET w == Head(pending)
        cell == flash[w.b]
        slot == cell.slot[w.k]
        ip == cell.inode[w.i]
        stage == [empty |-> 0, writing |-> 1, ready |-> 2, done |-> 3]
    IN CASE w.op = "slot"    -> slot.name = ""
         [] w.op = "entry"   -> slot.val[w.n].state = "empty"
         [] w.op = "state"   -> stage[slot.val[w.n].state] <= stage[w.v]
         [] w.op = "place"   -> ip.loc \in {NoLoc, w.v} /\ ip.size # 0
         [] w.op = "child"   -> ip.child \in {0, w.v}
         [] w.op = "sibling" -> ip.sibling \in {0, w.v}
         [] w.op = "flags"   -> ip.flags \in {"null", w.v} \/ w.v = "erased"
         [] w.op = "table"   -> \A i \in Irefs : cell.inode[i] = BlankInode
         [] w.op = "magic"   -> cell.magic = "blank"
         [] OTHER            -> TRUE

\* A reader in another task finds every file that is there before and after the running
\* request, with the old or the new contents; except while the root directory moves.
ReadersFind ==
  phase = "busy" =>
    LET after == Effect(before, request)
        now == Visible(flash, inodes, root)
    IN \A n \in Names : before[n] # NoFile /\ after[n] # NoFile => now[n] \in {before[n], after[n]}
RootMoves == flash[inodes].inode[root].flags # "dir"
ReadersFindFiles == phase = "busy" /\ ~RootMoves => ReadersFind

\* A write only fails when the file is read-only, or there is no room, or too many objects.
FailsForReason ==
  [][request # request' /\ request'.op = "write" /\ result' = "failed"
       => \/ before'[request'.name].ro
          \/ BytesFree(Ram) < 1
          \/ ObjectsFull(Ram)]_vars

=============================================================================
