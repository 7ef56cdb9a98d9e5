------------------------------ MODULE FfsCore ------------------------------
(***************************************************************************)
(* The flash file system of services/ffs: what its functions write, and    *)
(* in which order.  core.c, reclaim.c and the journal part of fsck.c.      *)
(*                                                                         *)
(* All modifying functions run in the FFS task, one after the other, and   *)
(* everything they do outside RAM is a sequence of programmings of single  *)
(* flash cells.  A C function is therefore an operator from a state to a   *)
(* state                                                                   *)
(*      [f |-> flash, r |-> RAM, w |-> programmings so far, v |-> result]  *)
(* and module Ffs executes the programmings one at a time, with power      *)
(* failures and readers between any two of them.                           *)
(*                                                                         *)
(* Abstracted: an object (name and data) fills one slot of a data block,   *)
(* sizes are counted in slots, and the slack of a file name that           *)
(* data_prealloc() allows is less than a slot; one directory, the root; no *)
(* segments, no links; the sequence and update counters, which are for     *)
(* debugging, are left out.                                                *)
(***************************************************************************)
EXTENDS Integers, Sequences, SequencesExt, FiniteSetsExt

CONSTANTS
  NumBlocks,          \* dev.numblocks
  Slots,              \* objects that fit into a block
  InodesMax,          \* fs.inodes_max
  InodesMargin,       \* FFS_INODES_MARGIN
  ObjectsMax,         \* fs.objects_max
  BlockFilesMax,      \* fs.block_files_max
  BlockFilesReserved, \* fs.block_files_reserved
  ReservedSpace,      \* fs.reserved_space
  JournalEntries,     \* entries in a journal file
  JournalMargin,      \* FFS_JOURNAL_MARGIN
  Names,              \* of files in the root directory
  Values              \* what a file can hold

ASSUME FfsAssumption ==
  /\ NumBlocks \in Nat /\ NumBlocks > 2     \* with two blocks the file system is write-once
  /\ {Slots, InodesMax, ObjectsMax, BlockFilesMax, JournalEntries} \subseteq Nat \ {0}
  /\ {InodesMargin, BlockFilesReserved, ReservedSpace, JournalMargin} \subseteq Nat
  /\ BlockFilesMax <= JournalEntries - JournalMargin - 2
  /\ ObjectsMax <= InodesMax - BlockFilesMax

Blocks == 1..NumBlocks
Irefs == 1..(InodesMax - 1)
BlocksFreeMin == 1
ReservedLow == 2          \* RESERVED_LOW: two journal files

----------------------------------------------------------------------------
(* The flash.  A block that is not programmed is all Blank.                *)

NoLoc == <<0, 0>>                       \* FLASH_NULL32
BlankInode == [loc |-> NoLoc, size |-> -1, child |-> 0, sibling |-> 0, flags |-> "null"]
BlankSlot == [name |-> "", val |-> 0]
BlankEntry == [state |-> "empty", flags |-> "null", i |-> 0, diri |-> 0, oldi |-> 0,
               loc |-> NoLoc, repli |-> 0]
JournalFile == [name |-> ".journal", val |-> [n \in 1..JournalEntries |-> BlankEntry]]
RootDir == [name |-> "/", val |-> 0]
BlankBlock == [magic |-> "blank", age |-> 0, flags |-> {},
               slot |-> [k \in 1..Slots |-> BlankSlot],
               inode |-> [i \in Irefs |-> BlankInode]]

\* The states of a block: the flags that are programmed (BLOCK_STATES).
IsFree == {"FREE"}
IsData == {"FREE", "DATA"}
IsCleaning == {"FREE", "DATA", "CLEANING"}
IsCopying == {"FREE", "COPYING"}
IsInodes == {"FREE", "COPYING", "INODES"}
IsInodesLost == {"FREE", "COPYING", "INODES", "LOST"}

is_object_valid(ip) == ip.flags \in {"dir", "file", "readonly"}

\* One programming (or erase) w of the flash f.  An erase is not atomic: block "spoil"
\* is unreadable until "erase".  "root" and "inodes" are no programmings but the two
\* variables of RAM that readers in other tasks look at.
Program(f, w) ==
  CASE w.op = "flag"   -> [f EXCEPT ![w.b].flags = @ \cup {w.v}]
    [] w.op = "slot"   -> [f EXCEPT ![w.b].slot[w.k] = w.v]
    [] w.op = "entry"  -> [f EXCEPT ![w.b].slot[w.k].val[w.n] = w.v]
    [] w.op = "state"  -> [f EXCEPT ![w.b].slot[w.k].val[w.n].state = w.v]
    [] w.op = "place"  -> [f EXCEPT ![w.b].inode[w.i].loc = w.v, ![w.b].inode[w.i].size = 1]
    [] w.op = "child"  -> [f EXCEPT ![w.b].inode[w.i].child = w.v]
    [] w.op = "sibling" -> [f EXCEPT ![w.b].inode[w.i].sibling = w.v]
    [] w.op = "flags"  -> [f EXCEPT ![w.b].inode[w.i].flags = w.v]
    [] w.op = "table"  -> [f EXCEPT ![w.b].inode = w.v]
    [] w.op = "clean"  -> [f EXCEPT ![w.b].inode = [i \in Irefs |->
                             IF @[i].loc[1] = w.v THEN [@[i] EXCEPT !.size = 0] ELSE @[i]]]
    [] w.op = "spoil"  -> [f EXCEPT ![w.b] = [BlankBlock EXCEPT !.magic = "bad"]]
    [] w.op = "erase"  -> [f EXCEPT ![w.b] = BlankBlock]
    [] w.op = "magic"  -> [f EXCEPT ![w.b].magic = "ok", ![w.b].age = w.v]
    [] OTHER -> f

Put(s, w) == [s EXCEPT !.f = Program(@, w), !.w = Append(@, w)]
Ret(s, v) == [s EXCEPT !.v = v]

Inode(s, i) == s.f[s.r.inodes].inode[i]            \* inode_addr()
Object(s, i) == LET l == Inode(s, i).loc IN s.f[l[1]].slot[l[2]]
PutInode(s, field, i, v) == Put(s, [op |-> field, b |-> s.r.inodes, i |-> i, v |-> v])

\* Something the code leaves undefined: a block number that was never set.
Undefined(s) == Ret([s EXCEPT !.r.undefined = TRUE], -1)

----------------------------------------------------------------------------
(* Directories                                                             *)

\* The irefs from i on, along the sibling links of an inode table.
Chain(table, i) ==
  LET from[k \in {0} \cup Irefs] == IF k = 0 THEN <<>> ELSE <<k>> \o from[table[k].sibling]
  IN from[i]

Entries(table, dir) == Chain(table, table[dir].child)

\* The last object from i on, or of directory -i; i itself for an empty directory.
dir_traverse(s, i) ==
  LET t == s.f[s.r.inodes].inode
      c == IF i < 0 THEN Entries(t, -i) ELSE Chain(t, i)
  IN IF c = <<>> THEN i ELSE Last(c)

\* The first valid entry of the root directory with that name; 0 for EFFS_NOTFOUND.
LookupIn(f, inodes, root, name) ==
  LET t == f[inodes].inode
      found == SelectSeq(Entries(t, root),
                 LAMBDA i : is_object_valid(t[i]) /\ f[t[i].loc[1]].slot[t[i].loc[2]].name = name)
  IN IF found = <<>> THEN 0 ELSE found[1]

object_lookup(s, name) == LookupIn(s.f, s.r.inodes, s.r.root, name)

----------------------------------------------------------------------------
(* Blocks                                                                  *)

is_block(s, b, state) == s.r.flags[b] = state

block_flags_write(s, b, flag) ==
  Put([s EXCEPT !.r.flags[b] = @ \cup {flag}], [op |-> "flag", b |-> b, v |-> flag])

\* The youngest free block; only a privileged caller gets the last one.
block_alloc(s, priority, flag) ==
  LET free == {b \in Blocks : is_block(s, b, IsFree)}
      youngest == {b \in free : \A c \in free : s.f[b].age <= s.f[c].age}
      b == Min(youngest)
  IN IF Cardinality(free) <= BlocksFreeMin - priority THEN Ret(s, 0)
     ELSE Ret(block_flags_write([s EXCEPT !.r.used[b] = 0, !.r.lost[b] = 0,
                                          !.r.objects[b] = IF flag = "DATA" THEN 0 ELSE 1],
                                b, flag), b)

\* Mutant: the flags in RAM are those of before.
block_preformat_KeepFlags(s, b, age) ==
  LET new == IF age = 0 THEN s.r.age_max ELSE age + 1
      p == Put(s, [op |-> "magic", b |-> b, v |-> new])
  IN block_flags_write([p EXCEPT !.r.used[b] = 0, !.r.lost[b] = 0, !.r.objects[b] = 0,
                                 !.r.age_max = IF age = @ THEN new ELSE @], b, "FREE")

block_preformat(s, b, age) ==
  LET new == IF age = 0 THEN s.r.age_max ELSE age + 1
      p == Put(s, [op |-> "magic", b |-> b, v |-> new])
  IN block_flags_write([p EXCEPT !.r.flags[b] = {}, !.r.used[b] = 0, !.r.lost[b] = 0,
                                 !.r.objects[b] = 0,
                                 !.r.age_max = IF age = @ THEN new ELSE @], b, "FREE")

\* Erase; not while the blocks are being checked at power-up.
block_reclaim(s, b) ==
  IF s.r.initerror THEN s
  ELSE block_preformat(Put(Put(s, [op |-> "spoil", b |-> b]), [op |-> "erase", b |-> b]),
                       b, s.f[b].age)

block_free(s, b) == block_reclaim(block_flags_write(s, b, "LOST"), b)

----------------------------------------------------------------------------
(* Inodes                                                                  *)

inodes_set(s, b) == Put([s EXCEPT !.r.inodes = b], [op |-> "inodes", v |-> b])

inode_alloc_try(s) ==
  LET b == s.r.inodes
      free == {i \in s.r.objects[b]..(InodesMax - InodesMargin - 1) : Inode(s, i).loc = NoLoc}
  IN IF s.r.used[b] - s.r.lost[b] >= ObjectsMax \/ free = {} THEN Ret(s, 0)
     ELSE Ret([s EXCEPT !.r.objects[b] = Min(free), !.r.used[b] = @ + 1], Min(free))

\* The new inode table: the root and its valid entries, linked anew.
Compacted(s) ==
  LET t == s.f[s.r.inodes].inode
      valid == SelectSeq(Entries(t, s.r.root), LAMBDA i : is_object_valid(t[i]))
      after(i) == LET n == CHOOSE n \in DOMAIN valid : valid[n] = i
                  IN IF n = Len(valid) THEN 0 ELSE valid[n + 1]
  IN [i \in Irefs |->
        IF i = s.r.root
          THEN [t[i] EXCEPT !.sibling = 0, !.child = IF valid = <<>> THEN 0 ELSE valid[1]]
        ELSE IF i \in ToSet(valid) THEN [t[i] EXCEPT !.sibling = after(i), !.child = 0]
        ELSE BlankInode]

\* Mutant: the old block is freed before the new one is validated.
block_commit_FreeFirst(s, old, new) ==
  LET i == block_flags_write(block_free(s, old), new, "INODES")
  IN inodes_set([i EXCEPT !.r.lost[new] = 0, !.r.objects[new] = 1], new)

block_commit(s, old, new) ==
  LET l == block_flags_write(s, old, "LOST")
      i == block_flags_write(l, new, "INODES")
  IN block_free(inodes_set([i EXCEPT !.r.lost[new] = 0, !.r.objects[new] = 1], new), old)

\* Move the inodes to another block, which a has allocated.  The copying is one step: the
\* block is freed at power-up whatever part of it was copied.
Copied(a, table) ==
  Put([a EXCEPT !.r.used[a.v] = Cardinality({i \in Irefs : table[i] # BlankInode})],
      [op |-> "table", b |-> a.v, v |-> table])
MoveInodes(s, a) ==
  IF a.v = 0 THEN Ret(s, -1) ELSE Ret(block_commit(Copied(a, Compacted(s)), s.r.inodes, a.v), 0)

inodes_reclaim(s) == MoveInodes(s, block_alloc(s, 1, "COPYING"))

AllocAgain(i, s) == IF i.v # 0 THEN i ELSE inode_alloc_try(inodes_reclaim(s))
inode_alloc(s) == AllocAgain(inode_alloc_try(s), s)

----------------------------------------------------------------------------
(* Data space.  A result is a location, NoLoc for none.                    *)

DataBlocks(s) == {b \in Blocks : is_block(s, b, IsData)}
FreeSlots(s, b) == Slots - s.r.used[b]

\* ffs_query(Q_BYTES_FREE_RAW), in slots.
BytesFree(s) ==
  (NumBlocks - BlocksFreeMin - 1) * Slots - s.r.reserved_space
    - MapThenSumSet(LAMBDA b : s.r.used[b] - s.r.lost[b], DataBlocks(s))

\* A block with room for an object such that the reserve is left: there or elsewhere.
HasRoom(s, b, n) ==
  /\ b \in DataBlocks(s)
  /\ s.r.objects[b] < BlockFilesMax - s.r.block_files_reserved
  /\ FreeSlots(s, b) >= n
FindRoom(s, found, b, big, small) ==
  IF found.big # 0 /\ found.small # 0 THEN found
  ELSE IF found.big = 0 /\ found.small = 0 /\ HasRoom(s, b, big + small)
    THEN [big |-> b, small |-> b]
  ELSE IF found.big = 0 /\ HasRoom(s, b, big) THEN [found EXCEPT !.big = b]
  ELSE IF found.small = 0 /\ HasRoom(s, b, small) THEN [found EXCEPT !.small = b]
  ELSE found
Room(s, found, b) ==
  IF found.big = 0 \/ found.small = 0 THEN NoLoc ELSE <<b, s.r.used[b] + 1>>
RoomIn(s, found, reserved) == Room(s, found, IF reserved < 1 THEN found.big ELSE found.small)
RoomBeside(s, reserved) ==
  RoomIn(s, FoldLeft(LAMBDA found, b : FindRoom(s, found, b, Max({1, reserved}), Min({1, reserved})),
                     [big |-> 0, small |-> 0], [b \in Blocks |-> b]), reserved)
RoomLeft(s) == RoomBeside(s, Min({ReservedLow, s.r.reserved_space}))
data_alloc_try(s) == Ret(s, RoomLeft(s))

\* For the journal file: the reserve may be used.
data_reserved_alloc(s) ==
  LET room == {b \in DataBlocks(s) : FreeSlots(s, b) >= 1}
  IN Ret(s, IF room = {} THEN NoLoc ELSE <<Min(room), s.r.used[Min(room)] + 1>>)

\* Within a data reclaim a second reclaim is refused (EFFS_RECLAIMLOOP), so that
\* data_prealloc() comes down to one try.
AllocInReclaim(s, name) ==
  IF name = ".journal" THEN data_reserved_alloc(s)
  ELSE IF BytesFree(s) < 1 THEN Ret(s, NoLoc)
  ELSE data_alloc_try(s)

\* The second half of object_create(): the object is written to loc, its inode is i.v.  diri
\* was put into the journal before, because a reclaim keeps it up to date there.
WriteObject(i, loc, object) ==
  LET n == Put([i EXCEPT !.r.journal.i = i.v],
               [op |-> "slot", b |-> loc[1], k |-> loc[2], v |-> object])
  IN IF i.v = 0 THEN Ret([i EXCEPT !.r.journal.i = 0], -1)
     ELSE [n EXCEPT !.r.journal.diri = IF @ = 0 THEN 0 ELSE dir_traverse(n, @)]

\* object_create() from where chunk_alloc() has the space, a.v, on.
Created(a, object) ==
  IF a.v = NoLoc THEN Ret(a, -1)
  ELSE WriteObject(inode_alloc([a EXCEPT !.r.used[a.v[1]] = @ + 1, !.r.journal.loc = a.v]),
                   a.v, object)

ObjectsFull(s) == s.r.used[s.r.inodes] - s.r.lost[s.r.inodes] >= ObjectsMax
WithDir(s, dir) == [s EXCEPT !.r.journal.diri = dir]

\* object_create() of the journal file, and of an object that is relocated.  A journal file
\* is relocated without its entries.
CreateJournal(s, dir) ==
  IF ObjectsFull(s) THEN Ret(WithDir(s, dir), -1)
  ELSE Created(data_reserved_alloc(WithDir(s, dir)), JournalFile)
CreateInReclaim(s, object, dir) ==
  IF ObjectsFull(s) THEN Ret(WithDir(s, dir), -1)
  ELSE Created(AllocInReclaim(WithDir(s, dir), object.name),
               IF object.name = ".journal" THEN JournalFile ELSE object)

----------------------------------------------------------------------------
(* The journal                                                             *)

journal_begin(s, oldi) ==
  [s EXCEPT
     !.r.link_child = TRUE,
     !.r.journal = IF oldi = 0 THEN BlankEntry
                   ELSE [BlankEntry EXCEPT !.flags = Inode(s, oldi).flags, !.diri = oldi,
                                           !.oldi = oldi, !.loc = Inode(s, oldi).loc]]

\* Mutant: what is deleted counts as lost though the new inode has the same data.
Discard_Counted(s, oldi, moved) ==
  LET b == Inode(s, oldi).loc[1]
      e == PutInode(s, "flags", oldi, "erased")
  IN [e EXCEPT !.r.objects[b] = @ - 1, !.r.lost[b] = @ + Inode(s, oldi).size,
               !.r.lost[s.r.inodes] = @ + 1]

\* Delete an object.
Discard(s, oldi, moved) ==
  LET b == Inode(s, oldi).loc[1]
      e == PutInode(s, "flags", oldi, "erased")
  IN [e EXCEPT !.r.objects[b] = @ - 1,
               !.r.lost[b] = IF moved THEN @ + Inode(s, oldi).size ELSE @,
               !.r.lost[s.r.inodes] = @ + 1]

object_remove(s, i) == Discard(journal_begin(s, i), i, TRUE)

\* The first half of journal_commit(): fill in the new inode, link it into the directory,
\* validate it.
CopyChild(s) ==
  LET j == s.r.journal
      child == Inode(s, j.oldi).child
  IN IF j.oldi = 0 \/ ~s.r.link_child \/ child = 0 THEN s ELSE PutInode(s, "child", j.i, child)
LinkInto(s) ==
  LET j == s.r.journal
  IN IF j.diri = 0 THEN s
     ELSE PutInode(s, IF j.diri < 0 THEN "child" ELSE "sibling",
                   IF j.diri < 0 THEN -j.diri ELSE j.diri, j.i)
Validate(s) ==
  LET j == s.r.journal
  IN [PutInode(s, "flags", j.i, j.flags) EXCEPT !.r.objects[j.loc[1]] = @ + 1]
Insert(s) ==
  LET j == s.r.journal
  IN IF j.i = 0 THEN s ELSE Validate(LinkInto(CopyChild(PutInode(s, "place", j.i, j.loc))))

\* The second half: delete the old object, and the one whose name a renamed file takes.
DiscardOld(s) ==
  LET j == s.r.journal
  IN IF j.oldi = 0 THEN s ELSE Discard(s, j.oldi, j.loc # Inode(s, j.oldi).loc)
DiscardReplaced(s) ==
  LET j == s.r.journal
  IN IF j.oldi = 0 \/ j.repli <= 0 THEN s ELSE object_remove(s, j.repli)

\* Mutant: the old object is deleted before the new one is there.
journal_commit_DeleteFirst(s) == DiscardReplaced(Insert(DiscardOld(s)))

journal_commit(s) == DiscardReplaced(DiscardOld(Insert(s)))

\* The current entry of the journal file.
EntryState(s, state) ==
  LET l == Inode(s, s.r.ijournal).loc
  IN [op |-> "state", b |-> l[1], k |-> l[2], n |-> s.r.journal_pos, v |-> state]
PutEntry(s) ==
  Put(s, [EntryState(s, "") EXCEPT !.op = "entry", !.v = [s.r.journal EXCEPT !.state = "writing"]])

\* Mutant: the entry is committed when it is written, it never is ready.
WriteEntry_NotReady(s) == PutEntry(s)

\* Write the entry, then mark it ready; one that was found at power-up is ready.
WriteEntry(s) ==
  IF s.r.journal.state = "ready" THEN s
  ELSE Put(PutEntry([s EXCEPT !.r.journal.state = "ready"]), EntryState(s, "ready"))

FinishEntry(s) == [Put(s, EntryState(s, "done")) EXCEPT !.r.journal_pos = @ + 1]

EndEntry(s) == FinishEntry(journal_commit(WriteEntry(s)))

\* The end of journal_end() when the entry was for the journal file itself.
JournalMoved(s) ==
  IF s.r.journal.oldi = s.r.ijournal
    THEN [s EXCEPT !.r.journal_pos = 1, !.r.ijournal = s.r.journal.i] ELSE s

\* journal_create() for an existing journal file: relocate it.
JournalCreated(c) == IF c.v = -1 THEN c ELSE JournalMoved(EndEntry(c))
RelocateJournal(s) == JournalCreated(CreateJournal(journal_begin(s, s.r.ijournal), -s.r.root))

\* Mutant: no margin.
RelocateWhenFull_NoMargin(s) ==
  LET full == s.r.journal_pos > JournalEntries /\ s.r.journal.oldi # s.r.ijournal
  IN JournalMoved(IF full THEN RelocateJournal(s) ELSE s)

RelocateWhenFull(s) ==
  LET full == /\ s.r.journal_pos >= JournalEntries - JournalMargin + 1
              /\ s.r.journal.oldi # s.r.ijournal
  IN JournalMoved(IF full THEN RelocateJournal(s) ELSE s)

journal_end(s) == IF s.r.ijournal = 0 THEN journal_commit(s) ELSE RelocateWhenFull(EndEntry(s))

----------------------------------------------------------------------------
(* Data reclaim                                                            *)

EndRelocate(c, isRoot) ==
  LET m == IF isRoot THEN Put([c EXCEPT !.r.root = c.v], [op |-> "root", v |-> c.v]) ELSE c
  IN IF c.v = -1 THEN c ELSE Ret(journal_end(m), c.v)
object_relocate(s, oldi) ==
  LET object == Object(s, oldi)
      isRoot == object.name = "/"
  IN EndRelocate(CreateInReclaim(journal_begin(s, oldi), object, IF isRoot THEN 0 ELSE oldi),
                 isRoot)

\* References to the relocated object that an interrupted operation holds.
Renumber(s, i, new) ==
  LET ref(x) == IF x = i THEN new ELSE IF x = -i THEN -new ELSE x
      o == s.r.ojournal
      moved == [o EXCEPT !.loc = IF o.oldi = i THEN Inode(s, new).loc ELSE @,
                         !.oldi = IF @ = i THEN new ELSE @,
                         !.diri = ref(@),
                         !.repli = ref(@)]
  IN [s EXCEPT !.r.ojournal = moved, !.r.i_backup = ref(@)]

\* Relocate the valid objects of block b.  The inode table is the one of the beginning
\* even when an inodes_reclaim() moves the inodes.  Stops at the first that fails;
\* otherwise the result is their number.
Relocated(m, i, count) == IF m.v = -1 THEN m ELSE Ret(Renumber(m, i, m.v), count + 1)
RelocateOne(s, i, b, table) ==
  LET ip == s.f[table].inode[i]
  IN IF s.v = -1 \/ ~is_object_valid(ip) \/ ip.loc[1] # b THEN s
     ELSE Relocated(object_relocate(s, i), i, s.v)
RelocateAll(s, b) ==
  LET done[i \in 0..(InodesMax - 1)] ==
        IF i = 0 THEN Ret(s, 0) ELSE RelocateOne(done[i - 1], i, b, s.r.inodes)
  IN done[InodesMax - 1]

\* While they are relocated the block takes nothing, the reserves may be used, and the
\* journal entry of the interrupted operation is put aside.
Relocating(a, b) ==
  [a EXCEPT !.r.ojournal = a.r.journal, !.r.used[b] = Slots,
            !.r.block_files_reserved = 0, !.r.reserved_space = 0]
Restored(m, a, b) ==
  Ret([m EXCEPT !.r.journal = m.r.ojournal,
                !.r.block_files_reserved = a.r.block_files_reserved,
                !.r.reserved_space = a.r.reserved_space,
                !.r.used[b] = IF m.v = -1 THEN a.r.used[b] ELSE @],
      IF a.v = 0 /\ m.v = 0 THEN -1 ELSE m.v)
EmptyBlock(a, b) ==
  IF a.r.objects[b] > 0 THEN Restored(RelocateAll(Relocating(a, b), b), a, b)
  ELSE Ret(a, IF a.v = 0 THEN -1 ELSE 0)

\* Mark the block as one to clean, invalidate the old inodes of its objects, free it.
CleanEmptied(e, b) ==
  IF e.v = -1 THEN e
  ELSE Ret(block_free(Put(block_flags_write(e, b, "CLEANING"),
                          [op |-> "clean", b |-> e.r.inodes, v |-> b]), b), e.v)

\* Move what is valid out of the block, clean it and free it.
data_block_reclaim(s, b) ==
  LET r == s.r
      few == r.objects[b] >= InodesMax - (r.used[r.inodes] + r.lost[r.inodes] + InodesMargin)
  IN IF b = 0 THEN Undefined(s)
     ELSE CleanEmptied(
            EmptyBlock(block_alloc(IF few THEN inodes_reclaim(s) ELSE s, 1, "DATA"), b), b)

\* Which block to reclaim.  Whether the youngest one is due for wear levelling depends
\* on the ages and on rand(); it is an input, r.wear.
Most(score, data) ==
  LET m == {b \in data : score[b] > 0 /\ \A c \in data : score[c] <= score[b]}
  IN IF m = {} THEN 0 ELSE Min(m)
TotalUnused(s, unused) ==
  MapThenSumSet(LAMBDA b : unused[b], DataBlocks(s))
    + Slots * Cardinality({b \in Blocks : is_block(s, b, IsFree)})
Choice(s, unused) ==
  LET data == DataBlocks(s)
      mostLost == Most(s.r.lost, data)
      mostUnused == Most(unused, data)
      youngest == Max({b \in data : \A c \in data : s.f[b].age <= s.f[c].age})
  IN IF \A b \in data : FreeSlots(s, b) < ReservedLow THEN mostLost
     ELSE IF s.r.wear THEN youngest
     ELSE IF mostLost # 0 /\ unused[mostLost] >= 1 THEN mostLost
     ELSE IF mostUnused # 0 THEN mostUnused
     ELSE mostLost
data_reclaim(s) ==
  LET unused == [b \in Blocks |-> Slots - (s.r.used[b] - s.r.lost[b])]
  IN IF TotalUnused(s, unused) < 1 THEN Ret(s, 0) ELSE data_block_reclaim(s, Choice(s, unused))

\* One round of data_prealloc(): look for the space, else reclaim a block.  more: whether
\* another round follows.
TryAgain(d) == [more |-> d.v # -1, s |-> Ret(d, NoLoc)]
Tried(t) == IF t.v # NoLoc THEN [more |-> FALSE, s |-> t] ELSE TryAgain(data_reclaim(t))
Round(x) == IF x.more THEN Tried(data_alloc_try(x.s)) ELSE x
AllocOrReclaim(s, tries) ==
  LET after[n \in 0..tries] ==
        IF n = 0 THEN [more |-> TRUE, s |-> Ret(s, NoLoc)] ELSE Round(after[n - 1])
  IN after[tries].s

\* Mutant: one try.
data_prealloc_OneTry(s) == IF BytesFree(s) < 1 THEN Ret(s, NoLoc) ELSE AllocOrReclaim(s, 1)
data_prealloc(s) == IF BytesFree(s) < 1 THEN Ret(s, NoLoc) ELSE AllocOrReclaim(s, NumBlocks)

object_create(s, object, dir) ==
  IF ObjectsFull(s) THEN Ret(WithDir(s, dir), -1)
  ELSE Created(data_prealloc(WithDir(s, dir)), object)

=============================================================================
