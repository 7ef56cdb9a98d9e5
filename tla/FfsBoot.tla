------------------------------ MODULE FfsBoot ------------------------------
(***************************************************************************)
(* The power-up of the flash file system: ffs_initialize() of fsck.c and   *)
(* blocks_reclaim() of reclaim.c, from the flash alone.                    *)
(***************************************************************************)
EXTENDS FfsCore

NoRam == [root |-> 0, inodes |-> 0, to_clean |-> 0, ijournal |-> 0, journal_pos |-> 1,
          journal |-> BlankEntry, ojournal |-> BlankEntry, link_child |-> FALSE, i_backup |-> 0,
          flags |-> [b \in Blocks |-> {}], used |-> [b \in Blocks |-> 0],
          lost |-> [b \in Blocks |-> 0], objects |-> [b \in Blocks |-> 0],
          age_max |-> 0, initerror |-> TRUE, reserved_space |-> ReservedSpace,
          block_files_reserved |-> BlockFilesReserved, wear |-> FALSE, undefined |-> FALSE]

----------------------------------------------------------------------------
(* blocks_fsck()                                                           *)

\* block_used(): up to the last slot that is programmed.
block_used(block) == Max({0} \cup {k \in 1..Slots : block.slot[k].name # ""})

\* The statistics of a block before the inodes are counted: everything is lost.
Scan(s, b) ==
  LET block == s.f[b]
      used == IF block.magic = "bad" THEN Slots ELSE block_used(block)
      t == [s EXCEPT !.r.flags[b] = block.flags, !.r.used[b] = used, !.r.lost[b] = used,
                     !.r.objects[b] = 0]
  IN IF block.magic = "blank" \/ block.flags \in {IsFree, IsData, IsCleaning, IsCopying,
                                                  IsInodes, IsInodesLost}
       THEN t ELSE block_free(t, b)

InState(s, state) == {b \in Blocks : s.f[b].magic = "ok" /\ s.r.flags[b] = state}
LastOf(set) == Max({0} \cup set)

FormatOne(t, b) == IF t.f[b].magic = "blank" THEN block_preformat(t, b, 0) ELSE t
FormatBlank(s) ==
  LET done[b \in 0..NumBlocks] ==
        IF b = 0 THEN [s EXCEPT !.r.age_max = Max({s.f[c].age : c \in Blocks})]
        ELSE FormatOne(done[b - 1], b)
  IN done[NumBlocks]

\* Result: the block to be cleaned, 0 for none; -1 when there are no inodes.
ChooseInodes(s) ==
  LET clean == LastOf(InState(s, IsCleaning))
      inodes == LastOf(InState(s, IsInodes))
      new == LastOf(InState(s, IsCopying))
      old == LastOf(InState(s, IsInodesLost))
  IN IF inodes # 0
       THEN Ret(inodes_set(IF new # 0 THEN block_free(s, new) ELSE s, inodes), clean)
     ELSE IF new # 0 /\ old # 0 THEN Ret(block_commit(s, old, new), clean)
     ELSE Ret(s, -1)

ScanAll(s) ==
  LET done[b \in 0..NumBlocks] == IF b = 0 THEN s ELSE Scan(done[b - 1], b)
  IN done[NumBlocks]
blocks_fsck(s) == ChooseInodes(FormatBlank(ScanAll([s EXCEPT !.r.initerror = TRUE])))

----------------------------------------------------------------------------
(* inodes_fsck()                                                           *)

ValidInodes(s) == {i \in Irefs : is_object_valid(Inode(s, i))}
Named(s, name) == {i \in ValidInodes(s) : Object(s, i).name = name}

SizeOf(s, objects) == MapThenSumSet(LAMBDA i : Inode(s, i).size, objects)

\* Count what the valid inodes use; the last root and the last journal file count.
inodes_fsck(s) ==
  LET used == {i \in Irefs : Inode(s, i).loc # NoLoc}
      valid == ValidInodes(s)
      in(b) == {i \in valid : Inode(s, i).loc[1] = b}
      n == s.r.inodes
  IN [s EXCEPT
        !.r.initerror = FALSE,
        !.r.root = LastOf(Named(s, "/")),
        !.r.ijournal = LastOf(Named(s, ".journal")),
        !.r.objects = [b \in Blocks |-> IF b = n THEN 1 ELSE Cardinality(in(b))],
        !.r.used[n] = Cardinality(used),
        !.r.lost = [b \in Blocks |->
                      IF b = n THEN Cardinality(used \ valid)
                      ELSE @[b] - SizeOf(s, in(b))]]

----------------------------------------------------------------------------
(* The journal                                                             *)

\* Mutant: an entry that was not finished is used again.
journal_init_Again(s) ==
  LET l == Inode(s, s.r.ijournal).loc
      entries == s.f[l[1]].slot[l[2]].val
      open == {n \in 1..JournalEntries : entries[n].state # "done"}
      at == [s EXCEPT !.r.journal_pos = Min(open)]
  IN IF s.r.ijournal = 0 \/ open = {} THEN Undefined(s)
     ELSE IF entries[Min(open)].state = "ready"
       THEN Ret(journal_end([at EXCEPT !.r.journal = entries[Min(open)]]), 1)
     ELSE Ret(at, 0)

\* Result 1 when an entry was pending and is committed now, else 0.  fs.link_child has
\* the value it has after a reset.
journal_init(s) ==
  LET l == Inode(s, s.r.ijournal).loc
      entries == s.f[l[1]].slot[l[2]].val
      open == {n \in 1..JournalEntries : entries[n].state # "done"}
      pos == Min(open)
      at == [s EXCEPT !.r.journal_pos = pos]
      state == entries[pos].state
  IN IF s.r.ijournal = 0 \/ open = {} THEN Undefined(s)
     ELSE IF state = "empty" THEN Ret(at, 0)
     ELSE IF state = "ready"
       THEN Ret(journal_end([at EXCEPT !.r.journal = entries[pos]]), 1)
     ELSE Ret(Put([at EXCEPT !.r.journal_pos = pos + 1],
                  [op |-> "state", b |-> l[1], k |-> l[2], n |-> pos, v |-> "done"]), 0)

----------------------------------------------------------------------------
(* Initialisation                                                          *)

\* One pass of ffs_initialize(): result -1 when it failed, 1 when an entry was committed
\* and the pass has to be repeated.
EndPass(j, clean) == [j EXCEPT !.r.to_clean = clean, !.r.initerror = j.v # 0]
PassJournal(i, clean) == EndPass(IF i.r.root = 0 THEN Ret(i, -1) ELSE journal_init(i), clean)
PassInodes(b) == IF b.v = -1 THEN b ELSE PassJournal(inodes_fsck(b), b.v)
Pass(s) == PassInodes(blocks_fsck(s))

\* The block that was being cleaned when the power failed.
Clean(s) ==
  LET b == s.r.to_clean
      c == Put(s, [op |-> "clean", b |-> s.r.inodes, v |-> b])
  IN IF b = 0 THEN s ELSE [block_free(c, b) EXCEPT !.r.to_clean = 0]

\* At most two passes.
PassAgain(p) == IF p.v = 1 THEN Pass(p) ELSE p
Fsck(f) ==
  LET after[i \in 0..2] == IF i = 0 THEN [f |-> f, r |-> NoRam, w |-> <<>>, v |-> 1]
                           ELSE PassAgain(after[i - 1])
  IN after[2]

\* Result 0, or what is left in fs.initerror.
Cleaned(s) == IF s.v = -1 THEN s ELSE Ret(Clean(s), s.v)
ffs_initialize(f) == Cleaned(Fsck(f))

\* The block whose reclaim the power failure interrupted: the one that has most to gain,
\* except the one with most room.  Empty when nothing is lost: b_lost is not set then.
DataFlagged(s) == {b \in Blocks : "DATA" \in s.r.flags[b]}
Roomiest(s) == LET data == DataFlagged(s)
               IN {b \in data : FreeSlots(s, b) > 0 /\ \A c \in data : FreeSlots(s, c) <= FreeSlots(s, b)}
Interrupted(s) ==
  IF Roomiest(s) = {} THEN {}
  ELSE LET rest == DataFlagged(s) \ {Min(Roomiest(s))}
       IN {b \in rest : s.r.lost[b] > 0 /\ \A c \in rest : s.r.lost[c] <= s.r.lost[b]}

\* Erase the blocks that are lost.
EraseOne(t, b) == IF "LOST" \in t.r.flags[b] THEN block_reclaim(t, b) ELSE t
EraseLost(s) ==
  LET done[b \in 0..NumBlocks] == IF b = 0 THEN s ELSE EraseOne(done[b - 1], b)
  IN done[NumBlocks]

\* Mutant: an interrupted reclaim is not carried on.
blocks_reclaim_LostOnly(s) == EraseLost(s)

\* Without a free block a reclaim was interrupted: go on
\* with it.
ResumeReclaim(s) ==
  IF \E b \in Blocks : is_block(s, b, IsFree) THEN s
  ELSE IF Interrupted(s) = {} THEN Undefined(s)
  ELSE data_block_reclaim(s, Min(Interrupted(s)))
blocks_reclaim(s) == ResumeReclaim(EraseLost(s))

\* fs_format() on blocks that are all preformatted: an inode block, the data blocks, the
\* root directory and the journal file.
FormatInodes(n) == inodes_set(block_flags_write(n, n.v, "INODES"), n.v)
FormatData(i) ==
  FoldLeft(LAMBDA t, k : block_alloc(t, 0, "DATA"), i, [k \in 1..(NumBlocks - 2) |-> k])
FormatRoot(r) == journal_commit([r EXCEPT !.r.root = r.v, !.r.journal.flags = "dir"])
FormatJournal(c) ==
  journal_commit([CreateJournal(journal_begin(c, 0), -c.r.root) EXCEPT !.r.journal.flags = "readonly"])
fs_format(s) ==
  FormatJournal(FormatRoot(object_create(
    journal_begin(FormatData(FormatInodes(block_alloc(s, 1, "COPYING"))), 0), RootDir, 0)))

Reclaimed(s) == IF s.v # 0 THEN s ELSE Ret(blocks_reclaim(s), 0)
Boot(f) == Reclaimed(ffs_initialize(f))

=============================================================================
