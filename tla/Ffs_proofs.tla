----------------------------- MODULE Ffs_proofs -----------------------------
(***************************************************************************)
(* The inode table of the flash file system is never lost, for every size  *)
(* of the flash and of its blocks and however often the power fails.       *)
(***************************************************************************)
EXTENDS Ffs, SequenceTheorems, FiniteSetTheorems, WellFoundedInduction, TLAPS

----------------------------------------------------------------------------
(* Numbers                                                                 *)

\* A set of numbers has a least one: the intervals below its members are finite sets, and
\* the strict subset is well-founded on those.
LEMMA LeastNumber ==
  ASSUME NEW T \in SUBSET Nat, T # {}
  PROVE  \E x \in T : \A y \in T : x <= y
<1> DEFINE Below == {0 .. x : x \in T}
<1>1. Below \subseteq FiniteSubsetsOf(Nat)
  <2>1. \A x \in T : IsFiniteSet(0 .. x)
    BY FS_Interval
  <2>2. \A x \in T : 0 .. x \in SUBSET Nat
    OBVIOUS
  <2> QED
    BY <2>1, <2>2 DEF FiniteSubsetsOf
<1>2. Below # {}
  OBVIOUS
<1>3. IsWellFoundedOn(StrictSubsetOrdering(Nat), FiniteSubsetsOf(Nat))
  BY FS_StrictSubsetOrderingWellFounded
<1>4. PICK B \in Below : \A C \in Below : <<C, B>> \notin StrictSubsetOrdering(Nat)
  <2> HIDE DEF Below
  <2> QED
    BY <1>1, <1>2, <1>3, WFMin, Zenon
<1>5. PICK x \in T : B = 0 .. x
  OBVIOUS
<1>6. ASSUME NEW y \in T, y < x
      PROVE  FALSE
  <2>1. 0 .. y \in SUBSET Nat /\ 0 .. x \in SUBSET Nat
    OBVIOUS
  <2>2. 0 .. y \subseteq 0 .. x
    BY <1>6
  <2>3. 0 .. y # 0 .. x
    <3>1. x \in 0 .. x /\ x \notin 0 .. y
      BY <1>6
    <3> QED
      BY <3>1, Zenon
  <2>4. <<0 .. y, B>> \in StrictSubsetOrdering(Nat)
    BY <2>1, <2>2, <2>3, <1>5 DEF StrictSubsetOrdering
  <2> QED
    BY <2>4, <1>4
<1> QED
  BY <1>6

\* What holds of 0, and of a number when it holds of the one before it, holds up to n.
LEMMA Counting ==
  ASSUME NEW n \in Nat, NEW S, 0 \in S, \A k \in 1 .. n : k - 1 \in S => k \in S
  PROVE  0 .. n \subseteq S
<1> SUFFICES ASSUME ~(0 .. n \subseteq S)
             PROVE  FALSE
  OBVIOUS
<1> DEFINE T == {k \in 0 .. n : k \notin S}
<1>1. T \in SUBSET Nat /\ T # {}
  OBVIOUS
<1>2. PICK x \in T : \A y \in T : x <= y
  <2> HIDE DEF T
  <2> QED
    BY <1>1, LeastNumber
<1>3. x \in 0 .. n /\ x \notin S
  OBVIOUS
<1>4. x - 1 \in 0 .. n /\ x - 1 < x
  BY <1>3
<1>5. x - 1 \in S
  BY <1>2, <1>4
<1> QED
  BY <1>3, <1>4, <1>5

LEMMA LeastIsMin ==
  ASSUME NEW T \in SUBSET Nat, T # {}
  PROVE  Min(T) \in T
<1>1. PICK x \in T : \A y \in T : x <= y
  BY LeastNumber
<1> QED
  BY <1>1 DEF Min

LEMMA GreatestIsMax ==
  ASSUME NEW n \in Nat, NEW T \in SUBSET (0 .. n), T # {}
  PROVE  Max(T) \in T /\ \A y \in T : Max(T) >= y
<1> DEFINE U == {n - x : x \in T}
<1>1. U \in SUBSET Nat /\ U # {}
  <2>1. \A x \in T : x \in 0 .. n
    OBVIOUS
  <2>2. \A x \in T : n - x \in Nat
    BY <2>1
  <2> QED
    BY <2>2
<1>2. PICK u \in U : \A y \in U : u <= y
  <2> HIDE DEF U
  <2> QED
    BY <1>1, LeastNumber
<1>3. PICK x \in T : u = n - x
  OBVIOUS
<1>4. \A y \in T : x >= y
  <2>1. \A y \in T : n - x <= n - y
    BY <1>2, <1>3
  <2> QED
    BY <2>1
<1> QED
  BY <1>4 DEF Max

\* The greatest of numbers g[1], ..., g[n], and of a set of such numbers.
LEMMA GreatestValue ==
  ASSUME NEW n \in Nat, n > 0, NEW g, \A k \in 1 .. n : g[k] \in Nat
  PROVE  \E m \in 1 .. n : \A k \in 1 .. n : g[k] <= g[m]
<1> DEFINE P == {j \in Nat : j = 0 \/ j > n \/ \E m \in 1 .. j : \A k \in 1 .. j : g[k] <= g[m]}
<1>1. 0 \in P
  OBVIOUS
<1>2. ASSUME NEW j \in 1 .. n, j - 1 \in P
      PROVE  j \in P
  <2>1. CASE j = 1
    BY <2>1
  <2>2. CASE j # 1
    <3>1. PICK m \in 1 .. j - 1 : \A k \in 1 .. j - 1 : g[k] <= g[m]
      BY <1>2, <2>2
    <3>2. CASE g[j] <= g[m]
      <4>1. \A k \in 1 .. j : g[k] <= g[m]
        BY <3>1, <3>2
      <4> QED
        BY <3>1, <4>1
    <3>3. CASE ~(g[j] <= g[m])
      <4>1. \A k \in 1 .. j : g[k] <= g[j]
        BY <3>1, <3>3
      <4> QED
        BY <4>1
    <3> QED
      BY <3>2, <3>3
  <2> QED
    BY <2>1, <2>2
<1>3. n \in P
  <2> HIDE DEF P
  <2>1. 0 .. n \subseteq P
    BY <1>1, <1>2, Counting
  <2> QED
    BY <2>1
<1> QED
  BY <1>3

----------------------------------------------------------------------------
(* What holds of a flash at every moment                                   *)

\* A reader that looks at table n finds it.
Safe(f, n) ==
  /\ HeadersRead(f)
  /\ TableIsThere(f)
  /\ n # 0 => /\ n \in Blocks
              /\ f[n].magic = "ok"
              /\ f[n].flags \in {IsInodes, IsInodesLost}

\* Only a block that is lost is erased, and not the one of the readers; the table is copied
\* to a block without inodes.
Legal(f, n, w) ==
  /\ w.op = "spoil" => w.b \in Blocks /\ "LOST" \in f[w.b].flags /\ w.b # n
  /\ w.op = "table" => f[w.b].inode = NoInodes

TableAfter(n, w) == IF w.op = "inodes" THEN w.v ELSE n

\* Programmings w lead from flash f and table n through fs and ns.
Path(f, n, w, fs, ns) ==
  /\ fs[0] = f /\ ns[0] = n
  /\ \A k \in 0 .. Len(w) : Safe(fs[k], ns[k])
  /\ \A k \in 1 .. Len(w) :
       /\ fs[k] = Program(fs[k - 1], w[k])
       /\ ns[k] = TableAfter(ns[k - 1], w[k])
       /\ Legal(fs[k - 1], ns[k - 1], w[k])

IsSeq(w) == \E S : w \in Seq(S)

PathTo(f, n, w, g, m) ==
  \E fs, ns : Path(f, n, w, fs, ns) /\ fs[Len(w)] = g /\ ns[Len(w)] = m

\* The state s of a function was reached from f and n.
Traced(f, n, s) == IsSeq(s.w) /\ PathTo(f, n, s.w, s.f, s.r.inodes)

----------------------------------------------------------------------------
(* What holds of RAM between two functions                                 *)

RamShape(r) ==
  /\ {"flags", "inodes", "initerror", "age_max", "to_clean"} \subseteq DOMAIN r
  /\ DOMAIN r.flags = Blocks
Shape(s) == {"f", "r", "w", "v"} \subseteq DOMAIN s /\ RamShape(s.r)

\* RAM knows the flags of the blocks and the one that is the table.
Match(f, r) ==
  /\ \A b \in Blocks : r.flags[b] = f[b].flags
  /\ r.inodes \in InFlash(f, IsInodes)
  /\ InFlash(f, IsCopying) = {}
  /\ r.age_max \in Nat

Good(s) == Shape(s) /\ Safe(s.f, s.r.inodes) /\ Match(s.f, s.r)

\* A function that leads from s to t; one that leaves the data blocks as they are.
Moves(s, t) == Good(t) /\ \A f, n : Traced(f, n, s) => Traced(f, n, t)
Keeps(s, t) ==
  /\ \A b \in Blocks : "DATA" \in s.r.flags[b] => t.r.flags[b] = s.r.flags[b]
  /\ t.r.initerror = s.r.initerror
  /\ t.r.to_clean = s.r.to_clean
Leads(s, t) == Moves(s, t) /\ Keeps(s, t)

\* What is not about the headers of the blocks.
SameCore(s, t) ==
  /\ Shape(t)
  /\ t.f = s.f /\ t.w = s.w
  /\ t.r.flags = s.r.flags /\ t.r.inodes = s.r.inodes /\ t.r.age_max = s.r.age_max
  /\ t.r.initerror = s.r.initerror /\ t.r.to_clean = s.r.to_clean

LEMMA LeadsTrans ==
  ASSUME NEW s, NEW t, NEW u, Leads(s, t), Leads(t, u)
  PROVE  Leads(s, u)
BY DEF Leads, Moves, Keeps

LEMMA MovesTrans ==
  ASSUME NEW s, NEW t, NEW u, Moves(s, t), Moves(t, u)
  PROVE  Moves(s, u)
BY DEF Moves

LEMMA LeadsGood ==
  ASSUME NEW s, NEW t, Leads(s, t)
  PROVE  Good(t) /\ Moves(s, t)
BY DEF Leads, Moves

LEMMA SameLeads ==
  ASSUME NEW s, NEW t, Good(s), SameCore(s, t)
  PROVE  Leads(s, t)
<1>1. Good(t)
  BY DEF Good, SameCore, Match
<1>2. \A f, n : Traced(f, n, s) => Traced(f, n, t)
  BY DEF Traced, SameCore
<1>3. Keeps(s, t)
  BY DEF Keeps, SameCore
<1> QED
  BY <1>1, <1>2, <1>3 DEF Leads, Moves

LEMMA RetLeads ==
  ASSUME NEW s, NEW v, Good(s)
  PROVE  Leads(s, Ret(s, v))
<1>1. SameCore(s, Ret(s, v))
  BY DEF SameCore, Ret, Good, Shape, RamShape
<1> QED
  BY <1>1, SameLeads

----------------------------------------------------------------------------
(* One programming more, and one less                                      *)

LEMMA AppendSeq ==
  ASSUME NEW w, IsSeq(w), NEW x
  PROVE  /\ IsSeq(Append(w, x))
         /\ Len(w) \in Nat /\ Len(Append(w, x)) = Len(w) + 1
         /\ \A k \in 1 .. Len(w) : Append(w, x)[k] = w[k]
         /\ Append(w, x)[Len(w) + 1] = x
<1>1. PICK S : w \in Seq(S)
  BY DEF IsSeq
<1>2. w \in Seq(S \cup {x}) /\ x \in S \cup {x}
  BY <1>1
<1> HIDE <1>1
<1>3. Append(w, x) \in Seq(S \cup {x})
  BY <1>2
<1> QED
  BY <1>2, <1>3 DEF IsSeq

LEMMA TailSeq ==
  ASSUME NEW w, IsSeq(w), w # <<>>
  PROVE  /\ IsSeq(Tail(w))
         /\ Len(w) \in Nat \ {0} /\ Len(Tail(w)) = Len(w) - 1
         /\ \A k \in 1 .. Len(w) - 1 : Tail(w)[k] = w[k + 1]
         /\ Head(w) = w[1]
<1>1. PICK S : w \in Seq(S)
  BY DEF IsSeq
<1>2. Tail(w) \in Seq(S)
  BY <1>1
<1> QED
  BY <1>1, <1>2 DEF IsSeq

LEMMA PathAppend ==
  ASSUME NEW f, NEW n, NEW w, IsSeq(w), NEW h, NEW o, PathTo(f, n, w, h, o), NEW x,
         Legal(h, o, x), Safe(Program(h, x), TableAfter(o, x))
  PROVE  PathTo(f, n, Append(w, x), Program(h, x), TableAfter(o, x))
<1>0. PICK fs, ns : Path(f, n, w, fs, ns) /\ fs[Len(w)] = h /\ ns[Len(w)] = o
  BY DEF PathTo
<1> DEFINE l == Len(w)
           g == Program(fs[l], x)
           m == TableAfter(ns[l], x)
           gs == [k \in 0 .. l + 1 |-> IF k = l + 1 THEN g ELSE fs[k]]
           ms == [k \in 0 .. l + 1 |-> IF k = l + 1 THEN m ELSE ns[k]]
           v == Append(w, x)
<1>1. /\ l \in Nat /\ Len(v) = l + 1
      /\ \A k \in 1 .. l : v[k] = w[k]
      /\ v[l + 1] = x
  BY AppendSeq
<1>2. /\ \A k \in 0 .. l : gs[k] = fs[k] /\ ms[k] = ns[k]
      /\ gs[l + 1] = g /\ ms[l + 1] = m
  BY <1>1
<1>3. Safe(g, m) /\ Legal(fs[l], ns[l], x)
  BY <1>0
<1>4. /\ g = Program(fs[l], x)
      /\ m = TableAfter(ns[l], x)
  OBVIOUS
<1> HIDE DEF l, g, m, gs, ms, v
<1>5. Path(f, n, v, gs, ms)
  <2>1. gs[0] = f /\ ms[0] = n
    BY <1>0, <1>1, <1>2 DEF Path
  <2>2. \A k \in 0 .. l + 1 : Safe(gs[k], ms[k])
    BY <1>0, <1>1, <1>2, <1>3 DEF Path, l
  <2>3. ASSUME NEW k \in 1 .. l + 1
        PROVE  /\ gs[k] = Program(gs[k - 1], v[k])
               /\ ms[k] = TableAfter(ms[k - 1], v[k])
               /\ Legal(gs[k - 1], ms[k - 1], v[k])
    <3>1. CASE k = l + 1
      <4>1. k - 1 = l /\ l \in 0 .. l
        BY <1>1, <3>1
      <4> QED
        BY <1>1, <1>2, <1>3, <1>4, <3>1, <4>1
    <3>2. CASE k # l + 1
      <4>1. k \in 1 .. l /\ k \in 0 .. l /\ k - 1 \in 0 .. l
        BY <1>1, <3>2
      <4> QED
        BY <1>0, <1>1, <1>2, <4>1 DEF Path, l
    <3> QED
      BY <3>1, <3>2
  <2> QED
    BY <1>1, <2>1, <2>2, <2>3 DEF Path
<1> QED
  BY <1>0, <1>1, <1>2, <1>5 DEF l, g, m, v, PathTo

LEMMA PathTail ==
  ASSUME NEW f, NEW n, NEW w, IsSeq(w), w # <<>>, NEW h, NEW o, PathTo(f, n, w, h, o)
  PROVE  /\ Legal(f, n, Head(w))
         /\ PathTo(Program(f, Head(w)), TableAfter(n, Head(w)), Tail(w), h, o)
<1>0. PICK fs, ns : Path(f, n, w, fs, ns) /\ fs[Len(w)] = h /\ ns[Len(w)] = o
  BY DEF PathTo
<1> DEFINE l == Len(w)
           gs == [k \in 0 .. l - 1 |-> fs[k + 1]]
           ms == [k \in 0 .. l - 1 |-> ns[k + 1]]
           v == Tail(w)
<1>1. /\ l \in Nat \ {0} /\ Len(v) = l - 1
      /\ \A k \in 1 .. l - 1 : v[k] = w[k + 1]
      /\ Head(w) = w[1]
  BY TailSeq
<1>2. \A k \in 0 .. l - 1 : gs[k] = fs[k + 1] /\ ms[k] = ns[k + 1]
  OBVIOUS
<1>3. /\ fs[0] = f /\ ns[0] = n
      /\ \A k \in 0 .. l : Safe(fs[k], ns[k])
      /\ \A k \in 1 .. l :
           /\ fs[k] = Program(fs[k - 1], w[k])
           /\ ns[k] = TableAfter(ns[k - 1], w[k])
           /\ Legal(fs[k - 1], ns[k - 1], w[k])
  BY <1>0 DEF Path
<1> HIDE DEF l, gs, ms, v
<1>4. 1 \in 1 .. l /\ 1 - 1 = 0
  BY <1>1
<1>5. /\ fs[1] = Program(f, Head(w)) /\ ns[1] = TableAfter(n, Head(w))
      /\ Legal(f, n, Head(w))
  BY <1>1, <1>3, <1>4
<1>6. Path(fs[1], ns[1], v, gs, ms)
  <2>1. gs[0] = fs[1] /\ ms[0] = ns[1]
    BY <1>1, <1>2
  <2>2. \A k \in 0 .. l - 1 : Safe(gs[k], ms[k])
    BY <1>1, <1>2, <1>3
  <2>3. ASSUME NEW k \in 1 .. l - 1
        PROVE  /\ gs[k] = Program(gs[k - 1], v[k])
               /\ ms[k] = TableAfter(ms[k - 1], v[k])
               /\ Legal(gs[k - 1], ms[k - 1], v[k])
    <3>1. k \in 0 .. l - 1 /\ k - 1 \in 0 .. l - 1 /\ k + 1 \in 1 .. l /\ k - 1 + 1 = k
          /\ k + 1 - 1 = k
      BY <1>1
    <3> QED
      BY <1>1, <1>2, <1>3, <3>1
  <2> QED
    BY <1>1, <2>1, <2>2, <2>3 DEF Path
<1>7. l - 1 \in 0 .. l - 1 /\ l - 1 + 1 = l
  BY <1>1
<1> QED
  BY <1>0, <1>1, <1>2, <1>5, <1>6, <1>7 DEF l, v, PathTo

\* One programming more.
LEMMA TracedPut ==
  ASSUME NEW s, NEW t, NEW w,
         t.f = Program(s.f, w), t.w = Append(s.w, w), t.r.inodes = TableAfter(s.r.inodes, w),
         Legal(s.f, s.r.inodes, w), Safe(t.f, t.r.inodes)
  PROVE  \A f, n : Traced(f, n, s) => Traced(f, n, t)
<1> SUFFICES ASSUME NEW f, NEW n, Traced(f, n, s)
             PROVE  Traced(f, n, t)
  OBVIOUS
<1>1. IsSeq(s.w) /\ PathTo(f, n, s.w, s.f, s.r.inodes)
  BY DEF Traced
<1>2. Safe(Program(s.f, w), TableAfter(s.r.inodes, w))
  OBVIOUS
<1>3. PathTo(f, n, Append(s.w, w), Program(s.f, w), TableAfter(s.r.inodes, w))
  BY <1>1, <1>2, PathAppend
<1>4. IsSeq(t.w)
  BY <1>1, AppendSeq
<1> QED
  BY <1>3, <1>4 DEF Traced

----------------------------------------------------------------------------
(* The states of a block                                                   *)

LEMMA States ==
  /\ IsFree \cup {"DATA"} = IsData /\ IsFree \cup {"COPYING"} = IsCopying
  /\ IsCopying \cup {"INODES"} = IsInodes /\ IsInodes \cup {"LOST"} = IsInodesLost
  /\ IsInodesLost \cup {"LOST"} = IsInodesLost
  /\ IsInodes # IsCopying /\ IsInodes # IsInodesLost /\ IsCopying # IsInodesLost
  /\ \A F : "DATA" \in F => F \notin {IsFree, IsCopying, IsInodes, IsInodesLost}
  /\ \A F : "LOST" \in F => F \notin {IsFree, IsCopying, IsInodes, IsData}
  /\ \A F : F # {} /\ (\E x \in F : x # "FREE") => F \notin {{}, IsFree}
  /\ "DATA" \in IsData /\ "LOST" \in IsInodesLost /\ "DATA" \in IsCleaning
  /\ IsFree \notin {IsCopying, IsInodes, IsInodesLost, IsData}
  /\ \A S \in {IsFree, IsCopying, IsInodes, IsInodesLost, IsData} : S # {} /\ ~(S \subseteq {"LOST"})
  /\ {} \notin {IsFree, IsCopying, IsInodes, IsInodesLost, IsData}
BY DEF IsFree, IsData, IsCleaning, IsCopying, IsInodes, IsInodesLost

LEMMA MagicsAre ==
  "blank" \in Magics /\ "bad" \in Magics /\ "ok" \in Magics
BY DEF Magics

LEMMA Differ ==
  /\ {} # IsFree /\ {} # IsInodes /\ {} # IsCopying /\ {} # IsInodesLost
  /\ IsFree # IsInodes /\ IsFree # IsCopying /\ IsFree # IsInodesLost /\ IsFree # IsData
  /\ IsData # IsInodes /\ IsData # IsCopying /\ IsData # IsInodesLost
  /\ IsInodes # IsCopying /\ IsInodes # IsInodesLost /\ IsCopying # IsInodesLost
BY DEF IsFree, IsData, IsCopying, IsInodes, IsInodesLost

\* A flash that differs from f in the header of block b.
BlockIs(f, g, b, magic, age, flags) ==
  /\ DOMAIN g = Blocks
  /\ \A c \in Blocks :
       /\ {"magic", "age", "flags", "inode"} \subseteq DOMAIN g[c]
       /\ c # b => /\ g[c].magic = f[c].magic /\ g[c].age = f[c].age
                   /\ g[c].flags = f[c].flags /\ g[c].inode = f[c].inode
       /\ c = b => /\ g[c].magic = magic /\ g[c].age = age /\ g[c].flags = flags
                   /\ g[c].inode \in {f[c].inode, NoInodes}
SameHeaders(f, g) ==
  /\ DOMAIN g = Blocks
  /\ \A c \in Blocks :
       /\ {"magic", "age", "flags", "inode"} \subseteq DOMAIN g[c]
       /\ g[c].magic = f[c].magic /\ g[c].age = f[c].age /\ g[c].flags = f[c].flags
       /\ IsFresh(f[c]) => g[c].inode = f[c].inode

\* Block b, as it becomes, may hold these inodes.
Holds(magic, flags, inode) == magic = "bad" \/ flags \notin {{}, IsFree} \/ inode = NoInodes

LEMMA UsedHolds ==
  ASSUME NEW magic, NEW flags, NEW inode,
         flags \in {IsInodes, IsCopying, IsInodesLost} \/ \E x \in flags : x # "FREE"
  PROVE  Holds(magic, flags, inode)
<1>1. flags # {}
  BY Differ
<1> QED
  BY <1>1, Differ, States DEF Holds

LEMMA BlockIsIn ==
  ASSUME NEW f, NEW g, NEW b \in Blocks, NEW magic, NEW age, NEW flags,
         BlockIs(f, g, b, magic, age, flags), NEW state
  PROVE  InFlash(g, state) = IF magic = "ok" /\ flags = state THEN InFlash(f, state) \cup {b}
                             ELSE InFlash(f, state) \ {b}
BY DEF BlockIs, InFlash

LEMMA BlockIsRead ==
  ASSUME NEW f, NEW g, NEW b \in Blocks, NEW magic \in Magics, NEW age \in Nat, NEW flags,
         BlockIs(f, g, b, magic, age, flags), HeadersRead(f),
         magic = "bad" => flags \subseteq {"LOST"}, magic = "blank" => flags = {},
         Holds(magic, flags, g[b].inode)
  PROVE  HeadersRead(g)
<1>1. DOMAIN g = Blocks
  BY DEF BlockIs
<1>2. ASSUME NEW c \in Blocks
      PROVE  /\ {"magic", "age", "flags", "inode"} \subseteq DOMAIN g[c]
             /\ g[c].magic \in Magics /\ g[c].age \in Nat
             /\ g[c].magic = "bad" => g[c].flags \subseteq {"LOST"}
             /\ g[c].magic = "blank" => g[c].flags = {}
             /\ IsFresh(g[c]) => g[c].inode = NoInodes
  <2>1. CASE c = b
    BY <2>1 DEF BlockIs, IsFresh, Holds
  <2>2. CASE c # b
    BY <2>2 DEF BlockIs, HeadersRead, IsFresh
  <2> QED
    BY <2>1, <2>2
<1> QED
  BY <1>1, <1>2 DEF HeadersRead

\* A block that is neither the table, nor a copy, nor a lost table.
LEMMA OtherIsSafe ==
  ASSUME NEW f, NEW g, NEW b \in Blocks, NEW magic \in Magics, NEW age \in Nat, NEW flags, NEW n,
         BlockIs(f, g, b, magic, age, flags), Safe(f, n),
         magic = "bad" => flags \subseteq {"LOST"}, magic = "blank" => flags = {},
         flags \notin {IsInodes, IsCopying, IsInodesLost} \/ magic # "ok",
         Holds(magic, flags, g[b].inode),
         \A state \in {IsInodes, IsCopying, IsInodesLost} : b \notin InFlash(f, state)
  PROVE  Safe(g, n)
<1>1. \A state \in {IsInodes, IsCopying, IsInodesLost} : InFlash(g, state) = InFlash(f, state)
  BY BlockIsIn
<1>2. TableIsThere(g)
  BY <1>1 DEF Safe, TableIsThere
<1>3. HeadersRead(g)
  BY BlockIsRead DEF Safe
<1>4. n # 0 => n \in Blocks /\ n # b
  BY DEF Safe, InFlash
<1> QED
  BY <1>2, <1>3, <1>4 DEF Safe, BlockIs

\* Any other block when there is a table.
LEMMA WithTableIsSafe ==
  ASSUME NEW f, NEW g, NEW b \in Blocks, NEW magic \in Magics, NEW age \in Nat, NEW flags, NEW n,
         BlockIs(f, g, b, magic, age, flags), Safe(f, n),
         magic = "bad" => flags \subseteq {"LOST"}, magic = "blank" => flags = {},
         flags # IsInodes, flags = IsCopying => InFlash(f, IsCopying) = {},
         Holds(magic, flags, g[b].inode),
         InFlash(f, IsInodes) # {}, b \notin InFlash(f, IsInodes), b # n
  PROVE  Safe(g, n)
<1>1. InFlash(g, IsInodes) = InFlash(f, IsInodes)
  BY BlockIsIn
<1>2. InFlash(g, IsCopying) = {b} \/ InFlash(g, IsCopying) \subseteq InFlash(f, IsCopying)
  BY BlockIsIn
<1>3. TableIsThere(g)
  BY <1>1, <1>2 DEF Safe, TableIsThere, OnlyOne
<1>4. HeadersRead(g)
  BY BlockIsRead DEF Safe
<1> QED
  BY <1>3, <1>4 DEF Safe, BlockIs

LEMMA SameHeadersIn ==
  ASSUME NEW f, NEW g, SameHeaders(f, g)
  PROVE  /\ \A state : InFlash(g, state) = InFlash(f, state)
         /\ \A n : Safe(f, n) => Safe(g, n)
<1>1. \A state : InFlash(g, state) = InFlash(f, state)
  BY DEF SameHeaders, InFlash
<1>2. TableIsThere(f) => TableIsThere(g)
  BY <1>1 DEF TableIsThere
<1>3. HeadersRead(f) => HeadersRead(g)
  <2>1. SUFFICES ASSUME HeadersRead(f), NEW c \in Blocks
                 PROVE  /\ {"magic", "age", "flags", "inode"} \subseteq DOMAIN g[c]
                        /\ g[c].magic \in Magics /\ g[c].age \in Nat
                        /\ g[c].magic = "bad" => g[c].flags \subseteq {"LOST"}
                        /\ g[c].magic = "blank" => g[c].flags = {}
                        /\ IsFresh(g[c]) => g[c].inode = NoInodes
    BY DEF HeadersRead, SameHeaders
  <2>2. IsFresh(g[c]) => IsFresh(f[c])
    BY DEF SameHeaders, IsFresh
  <2> QED
    BY <2>1, <2>2 DEF HeadersRead, SameHeaders
<1> QED
  BY <1>1, <1>2, <1>3 DEF Safe, SameHeaders

----------------------------------------------------------------------------
(* Programmings                                                            *)

QuietOps ==
  {"slot", "entry", "state", "place", "child", "sibling", "flags", "table", "clean", "root"}

\* Those that write inodes write them to the table, or to a copy of it.
InodeOps == {"place", "child", "sibling", "flags", "table", "clean"}
Placed(f, w) == w.op \in InodeOps => ~IsFresh(f[w.b])

\* Most programmings do not touch the header of a block.
LEMMA QuietProgram ==
  ASSUME NEW f, HeadersRead(f), NEW w, w.op \in QuietOps \cup {"inodes"}, Placed(f, w)
  PROVE  SameHeaders(f, Program(f, w))
<1>0. /\ DOMAIN f = Blocks
      /\ \A c \in Blocks : {"magic", "age", "flags", "inode"} \subseteq DOMAIN f[c]
  BY DEF HeadersRead
<1>1. CASE w.op = "slot"
  BY <1>0, <1>1 DEF Program, SameHeaders
<1>2. CASE w.op = "entry"
  BY <1>0, <1>2 DEF Program, SameHeaders
<1>3. CASE w.op = "state"
  BY <1>0, <1>3 DEF Program, SameHeaders
<1>4. CASE w.op \in InodeOps
  <2>1. ~IsFresh(f[w.b])
    BY <1>4 DEF Placed
  <2>2. ASSUME NEW t
        PROVE  SameHeaders(f, [f EXCEPT ![w.b].inode = t])
    BY <1>0, <2>1 DEF SameHeaders
  <2>3. CASE w.op = "place"
    BY <1>0, <2>1, <2>3 DEF Program, SameHeaders
  <2>4. CASE w.op = "child"
    BY <1>0, <2>1, <2>4 DEF Program, SameHeaders
  <2>6. CASE w.op = "sibling"
    BY <1>0, <2>1, <2>6 DEF Program, SameHeaders
  <2>7. CASE w.op = "flags"
    BY <1>0, <2>1, <2>7 DEF Program, SameHeaders
  <2>5. CASE w.op \in {"table", "clean"}
    <3>1. \E t : Program(f, w) = [f EXCEPT ![w.b].inode = t]
      BY <2>5 DEF Program
    <3> QED
      BY <2>2, <3>1
  <2> QED
    BY <1>4, <2>3, <2>4, <2>5, <2>6, <2>7 DEF InodeOps
<1>5. CASE w.op \in {"root", "inodes"}
  BY <1>0, <1>5 DEF Program, SameHeaders
<1> QED
  BY <1>1, <1>2, <1>3, <1>4, <1>5 DEF QuietOps, InodeOps

LEMMA BlockProgram ==
  ASSUME NEW f, HeadersRead(f), NEW b \in Blocks, NEW v
  PROVE  /\ BlockIs(f, Program(f, [op |-> "flag", b |-> b, v |-> v]),
                    b, f[b].magic, f[b].age, f[b].flags \cup {v})
         /\ BlockIs(f, Program(f, [op |-> "spoil", b |-> b]), b, "bad", 0, {})
         /\ BlockIs(f, Program(f, [op |-> "erase", b |-> b]), b, "blank", 0, {})
         /\ Program(f, [op |-> "erase", b |-> b])[b].inode = NoInodes
         /\ BlockIs(f, Program(f, [op |-> "magic", b |-> b, v |-> v]), b, "ok", v, f[b].flags)
<1>1. BlockIs(f, Program(f, [op |-> "flag", b |-> b, v |-> v]),
              b, f[b].magic, f[b].age, f[b].flags \cup {v})
  BY DEF BlockIs, HeadersRead, Program
<1>2. BlockIs(f, Program(f, [op |-> "spoil", b |-> b]), b, "bad", 0, {})
  BY DEF BlockIs, HeadersRead, Program, BlankBlock, NoInodes
<1>3. BlockIs(f, Program(f, [op |-> "erase", b |-> b]), b, "blank", 0, {})
  BY DEF BlockIs, HeadersRead, Program, BlankBlock, NoInodes
<1>4. BlockIs(f, Program(f, [op |-> "magic", b |-> b, v |-> v]), b, "ok", v, f[b].flags)
  BY DEF BlockIs, HeadersRead, Program
<1>5. Program(f, [op |-> "erase", b |-> b])[b].inode = NoInodes
  BY DEF HeadersRead, Program, BlankBlock, NoInodes
<1> QED
  BY <1>1, <1>2, <1>3, <1>4, <1>5

\* What a programming makes of a state.
Follows(s, t) == \A f, n : Traced(f, n, s) => Traced(f, n, t)

LEMMA PutCore ==
  ASSUME NEW s, NEW w, Shape(s)
  PROVE  /\ Shape(Put(s, w))
         /\ Put(s, w).f = Program(s.f, w) /\ Put(s, w).w = Append(s.w, w)
         /\ Put(s, w).r = s.r /\ Put(s, w).v = s.v
BY DEF Put, Shape

LEMMA QuietFollows ==
  ASSUME NEW s, NEW w, Shape(s), Safe(s.f, s.r.inodes), w.op \in QuietOps,
         Placed(s.f, w), w.op = "table" => s.f[w.b].inode = NoInodes
  PROVE  Follows(s, Put(s, w)) /\ SameHeaders(s.f, Put(s, w).f) /\ Safe(Put(s, w).f, s.r.inodes)
<1> DEFINE t == Put(s, w)
<1>1. t.f = Program(s.f, w) /\ t.w = Append(s.w, w) /\ t.r = s.r
  BY PutCore
<1> HIDE DEF t
<1>2. SameHeaders(s.f, t.f)
  BY <1>1, QuietProgram DEF Safe
<1>3. Safe(t.f, s.r.inodes)
  BY <1>2, SameHeadersIn
<1>4. Legal(s.f, s.r.inodes, w) /\ TableAfter(s.r.inodes, w) = s.r.inodes
  BY DEF Legal, TableAfter, QuietOps
<1>5. Follows(s, t)
  BY <1>1, <1>3, <1>4, TracedPut DEF Follows
<1> QED
  BY <1>2, <1>3, <1>5 DEF t

LEMMA QuietLeads ==
  ASSUME NEW s, NEW w, Good(s), w.op \in QuietOps \ {"table"},
         w.op \in InodeOps => w.b = s.r.inodes
  PROVE  Leads(s, Put(s, w))
<1> DEFINE t == Put(s, w)
<1>1. Shape(t) /\ t.r = s.r
  BY PutCore DEF Good
<1>0. Placed(s.f, w)
  BY Differ DEF Good, Match, InFlash, Placed, IsFresh
<1>2. Follows(s, t) /\ SameHeaders(s.f, t.f) /\ Safe(t.f, t.r.inodes)
  BY <1>0, <1>1, QuietFollows DEF Good
<1> HIDE DEF t
<1>3. Match(t.f, t.r)
  <2>1. \A state : InFlash(t.f, state) = InFlash(s.f, state)
    BY <1>2, SameHeadersIn
  <2>2. \A b \in Blocks : t.f[b].flags = s.f[b].flags
    BY <1>2 DEF SameHeaders
  <2> QED
    BY <1>1, <2>1, <2>2 DEF Good, Match
<1>4. Good(t)
  BY <1>1, <1>2, <1>3 DEF Good
<1>5. Leads(s, t)
  BY <1>1, <1>2, <1>4 DEF Leads, Moves, Keeps, Follows
<1> QED
  BY <1>5 DEF t

\* The core of RAM but for the flags.
SameRam(s, t) ==
  /\ t.r.inodes = s.r.inodes /\ t.r.age_max = s.r.age_max
  /\ t.r.initerror = s.r.initerror /\ t.r.to_clean = s.r.to_clean

Flagged(s, t, b, flag) ==
  /\ Shape(t) /\ SameRam(s, t) /\ t.v = s.v
  /\ BlockIs(s.f, t.f, b, s.f[b].magic, s.f[b].age, s.f[b].flags \cup {flag})
  /\ t.r.flags = [s.r.flags EXCEPT ![b] = @ \cup {flag}]
  /\ Safe(t.f, t.r.inodes) => Follows(s, t)

LEMMA FlagWritten ==
  ASSUME NEW s, Shape(s), Safe(s.f, s.r.inodes), NEW b \in Blocks, NEW flag
  PROVE  Flagged(s, block_flags_write(s, b, flag), b, flag)
<1> DEFINE u == [s EXCEPT !.r.flags[b] = @ \cup {flag}]
           w == [op |-> "flag", b |-> b, v |-> flag]
           t == Put(u, w)
<1>1. /\ Shape(u) /\ SameRam(s, u) /\ u.v = s.v /\ u.f = s.f /\ u.w = s.w
      /\ u.r.flags = [s.r.flags EXCEPT ![b] = @ \cup {flag}]
  BY DEF Shape, RamShape, SameRam
<1> HIDE DEF u
<1>2. Shape(t) /\ t.f = Program(s.f, w) /\ t.w = Append(s.w, w) /\ t.r = u.r /\ t.v = s.v
  BY <1>1, PutCore
<1>3. BlockIs(s.f, t.f, b, s.f[b].magic, s.f[b].age, s.f[b].flags \cup {flag})
  <2>1. HeadersRead(s.f)
    BY DEF Safe
  <2>2. BlockIs(s.f, Program(s.f, w), b, s.f[b].magic, s.f[b].age, s.f[b].flags \cup {flag})
    BY <2>1, BlockProgram
  <2> HIDE DEF w, t
  <2> QED
    BY <1>2, <2>2
<1>4. Legal(s.f, s.r.inodes, w) /\ TableAfter(s.r.inodes, w) = s.r.inodes
  BY DEF Legal, TableAfter
<1> HIDE DEF t, w
<1>5. Safe(t.f, t.r.inodes) => Follows(s, t)
  BY <1>1, <1>2, <1>4, TracedPut DEF Follows, SameRam
<1>6. t = block_flags_write(s, b, flag)
  BY DEF t, u, w, block_flags_write
<1> QED
  BY <1>1, <1>2, <1>3, <1>5, <1>6 DEF SameRam, Flagged

----------------------------------------------------------------------------
(* Erasing                                                                 *)

\* Between two functions: the table, and which other blocks may be written to.
LEMMA GoodFacts ==
  ASSUME NEW s, Good(s)
  PROVE  /\ s.r.inodes \in Blocks /\ s.f[s.r.inodes].flags = IsInodes
         /\ s.f[s.r.inodes].magic = "ok"
         /\ InFlash(s.f, IsInodes) = {s.r.inodes} /\ InFlash(s.f, IsCopying) = {}
         /\ \A b \in Blocks : /\ s.r.flags[b] = s.f[b].flags /\ s.f[b].age \in Nat
                              /\ s.f[b].magic \in Magics
                              /\ s.f[b].magic = "bad" => s.f[b].flags \subseteq {"LOST"}
                              /\ s.f[b].magic = "blank" => s.f[b].flags = {}
         /\ Shape(s) /\ Safe(s.f, s.r.inodes) /\ s.r.age_max \in Nat
         /\ 0 \notin Blocks
<1>1. Shape(s) /\ Safe(s.f, s.r.inodes) /\ Match(s.f, s.r)
  BY DEF Good
<1>2. 0 \notin Blocks
  BY DEF Blocks
<1>3. s.r.inodes \in Blocks /\ s.f[s.r.inodes].flags = IsInodes /\ s.f[s.r.inodes].magic = "ok"
  BY <1>1 DEF Match, InFlash
<1>4. InFlash(s.f, IsInodes) = {s.r.inodes}
  BY <1>1 DEF Match, Safe, TableIsThere, OnlyOne
<1>5. \A b \in Blocks : /\ s.r.flags[b] = s.f[b].flags /\ s.f[b].age \in Nat
                        /\ s.f[b].magic \in Magics
                        /\ s.f[b].magic = "bad" => s.f[b].flags \subseteq {"LOST"}
                        /\ s.f[b].magic = "blank" => s.f[b].flags = {}
  BY <1>1 DEF Match, Safe, HeadersRead
<1> QED
  BY <1>1, <1>2, <1>3, <1>4, <1>5 DEF Match

\* Another block changes while there is a table.
LEMMA OtherChanges ==
  ASSUME NEW s, Good(s), NEW g, NEW b \in Blocks, NEW magic \in Magics, NEW age \in Nat, NEW flags,
         BlockIs(s.f, g, b, magic, age, flags), b # s.r.inodes,
         magic = "bad" => flags \subseteq {"LOST"}, magic = "blank" => flags = {},
         flags # IsInodes, Holds(magic, flags, g[b].inode)
  PROVE  Safe(g, s.r.inodes)
<1>1. /\ Safe(s.f, s.r.inodes) /\ InFlash(s.f, IsInodes) = {s.r.inodes}
      /\ InFlash(s.f, IsCopying) = {}
  BY GoodFacts
<1>2. b \notin InFlash(s.f, IsInodes) /\ InFlash(s.f, IsInodes) # {}
  BY <1>1
<1> QED
  BY <1>1, <1>2, WithTableIsSafe

LEMMA FollowsTrans ==
  ASSUME NEW s, NEW t, NEW u, Follows(s, t), Follows(t, u)
  PROVE  Follows(s, u)
BY DEF Follows

\* A programming of the header of a block.
LEMMA HeaderPut ==
  ASSUME NEW s, NEW w, Shape(s), Legal(s.f, s.r.inodes, w), w.op # "inodes"
  PROVE  LET t == Put(s, w)
         IN /\ Shape(t) /\ t.r = s.r /\ t.f = Program(s.f, w)
            /\ Safe(t.f, s.r.inodes) => Follows(s, t)
<1> DEFINE t == Put(s, w)
<1>1. Shape(t) /\ t.r = s.r /\ t.f = Program(s.f, w) /\ t.w = Append(s.w, w)
  BY PutCore
<1>2. TableAfter(s.r.inodes, w) = s.r.inodes
  BY DEF TableAfter
<1> HIDE DEF t
<1>3. Safe(t.f, s.r.inodes) => Follows(s, t)
  BY <1>1, <1>2, TracedPut DEF Follows
<1> QED
  BY <1>1, <1>3 DEF t

\* A blank block becomes a free one.
Freed(s, t, b) ==
  /\ Shape(t) /\ Follows(s, t) /\ Safe(t.f, t.r.inodes)
  /\ BlockIs(s.f, t.f, b, "ok", t.f[b].age, IsFree)
  /\ t.r.flags = [s.r.flags EXCEPT ![b] = IsFree]
  /\ t.r.inodes = s.r.inodes /\ t.r.age_max \in Nat
  /\ t.r.initerror = s.r.initerror /\ t.r.to_clean = s.r.to_clean

LEMMA Preformatted ==
  ASSUME NEW s, Shape(s), Safe(s.f, s.r.inodes), NEW b \in Blocks, s.f[b].magic = "blank",
         NEW age \in Nat, s.r.age_max \in Nat
  PROVE  Freed(s, block_preformat(s, b, age), b)
<1> DEFINE new == IF age = 0 THEN s.r.age_max ELSE age + 1
           w == [op |-> "magic", b |-> b, v |-> new]
           p == Put(s, w)
           u == [p EXCEPT !.r.flags[b] = {}, !.r.used[b] = 0, !.r.lost[b] = 0,
                          !.r.objects[b] = 0, !.r.age_max = IF age = @ THEN new ELSE @]
           t == block_flags_write(u, b, "FREE")
<1>1. new \in Nat
  OBVIOUS
<1>2. s.f[b].flags = {} /\ s.f[b].inode = NoInodes
  BY DEF Safe, HeadersRead, IsFresh
<1>3. Legal(s.f, s.r.inodes, w) /\ w.op # "inodes"
  BY DEF Legal
<1> HIDE DEF new
<1>4. BlockIs(s.f, Program(s.f, w), b, "ok", new, s.f[b].flags)
  BY BlockProgram DEF Safe
<1> HIDE DEF w
<1>5. Shape(p) /\ p.r = s.r /\ p.f = Program(s.f, w) /\ (Safe(p.f, s.r.inodes) => Follows(s, p))
  BY <1>3, HeaderPut
<1> HIDE DEF p
<1>6. BlockIs(s.f, p.f, b, "ok", new, {})
  BY <1>2, <1>4, <1>5
<1>7. \A state \in {IsInodes, IsCopying, IsInodesLost} : b \notin InFlash(s.f, state)
  BY DEF InFlash
<1>22. p.f[b].inode = NoInodes
  BY <1>2, <1>6 DEF BlockIs
<1>23. Holds("ok", {}, p.f[b].inode)
  BY <1>22 DEF Holds
<1>8. Safe(p.f, s.r.inodes)
  BY <1>1, <1>6, <1>7, <1>23, Differ, MagicsAre, OtherIsSafe
<1>9. Follows(s, p)
  BY <1>5, <1>8
<1>10. /\ Shape(u) /\ u.f = p.f /\ u.w = p.w /\ u.r.inodes = s.r.inodes
       /\ u.r.flags = [s.r.flags EXCEPT ![b] = {}]
       /\ u.r.age_max \in Nat
       /\ u.r.initerror = s.r.initerror /\ u.r.to_clean = s.r.to_clean
  <2>1. /\ Shape(u) /\ u.f = p.f /\ u.w = p.w /\ u.r.inodes = p.r.inodes
        /\ u.r.flags = [p.r.flags EXCEPT ![b] = {}]
        /\ u.r.age_max = IF age = p.r.age_max THEN new ELSE p.r.age_max
        /\ u.r.initerror = p.r.initerror /\ u.r.to_clean = p.r.to_clean
    BY <1>5, ZenonT(60) DEF Shape, RamShape
  <2> HIDE DEF u
  <2> QED
    BY <1>1, <1>5, <2>1
<1> HIDE DEF u
<1>11. Follows(p, u)
  BY <1>5, <1>10 DEF Follows, Traced
<1>12. Safe(u.f, u.r.inodes)
  BY <1>8, <1>10
<1>13. /\ Shape(t) /\ SameRam(u, t)
       /\ BlockIs(u.f, t.f, b, u.f[b].magic, u.f[b].age, u.f[b].flags \cup {"FREE"})
       /\ t.r.flags = [u.r.flags EXCEPT ![b] = @ \cup {"FREE"}]
       /\ Safe(t.f, t.r.inodes) => Follows(u, t)
  <2>1. Flagged(u, t, b, "FREE")
    BY <1>10, <1>12, FlagWritten
  <2> QED
    BY <2>1 DEF Flagged
<1> HIDE DEF t
<1>14. u.f[b].magic = "ok" /\ u.f[b].age = new /\ u.f[b].flags = {}
  BY <1>6, <1>10 DEF BlockIs
<1>15. BlockIs(u.f, t.f, b, "ok", new, IsFree)
  BY <1>13, <1>14 DEF IsFree
<1>16. \A state \in {IsInodes, IsCopying, IsInodesLost} : b \notin InFlash(u.f, state)
  BY <1>14, States DEF InFlash
<1>24. Holds("ok", IsFree, t.f[b].inode)
  BY <1>10, <1>15, <1>22 DEF Holds, BlockIs
<1>17. Safe(t.f, u.r.inodes)
  BY <1>1, <1>12, <1>15, <1>16, <1>24, Differ, MagicsAre, OtherIsSafe
<1>18. Follows(s, t)
  BY <1>9, <1>11, <1>13, <1>17, FollowsTrans DEF SameRam
<1>19. BlockIs(s.f, t.f, b, "ok", t.f[b].age, IsFree)
  BY <1>6, <1>10, <1>15 DEF BlockIs
<1>20. t.r.flags = [s.r.flags EXCEPT ![b] = IsFree]
  BY <1>5, <1>10, <1>13 DEF Shape, RamShape, IsFree
<1>21. t = block_preformat(s, b, age)
  BY DEF t, u, p, w, new, block_preformat
<1> QED
  BY <1>10, <1>13, <1>17, <1>18, <1>19, <1>20, <1>21 DEF SameRam, Freed

\* Only block b changes.
MovesBut(s, t, b) ==
  /\ Moves(s, t)
  /\ \A c \in Blocks : c # b => t.r.flags[c] = s.r.flags[c]
  /\ t.r.initerror = s.r.initerror /\ t.r.to_clean = s.r.to_clean

LEMMA BlockReclaimed ==
  ASSUME NEW s, Good(s), NEW b \in Blocks, "LOST" \in s.r.flags[b]
  PROVE  MovesBut(s, block_reclaim(s, b), b)
<1>1. CASE s.r.initerror
  <2>1. block_reclaim(s, b) = s
    BY <1>1 DEF block_reclaim
  <2> QED
    BY <2>1 DEF MovesBut, Moves
<1>2. CASE ~s.r.initerror
  <2> DEFINE v == [op |-> "spoil", b |-> b]
             w == [op |-> "erase", b |-> b]
             x == Put(s, v)
             y == Put(x, w)
             t == block_preformat(y, b, s.f[b].age)
  <2>1. /\ Shape(s) /\ b # s.r.inodes /\ "LOST" \in s.f[b].flags
        /\ s.f[b].age \in Nat /\ s.r.age_max \in Nat /\ HeadersRead(s.f)
    BY GoodFacts, States DEF Safe
  <2>2. Legal(s.f, s.r.inodes, v) /\ v.op # "inodes"
    BY <2>1 DEF Legal
  <2>3. BlockIs(s.f, Program(s.f, v), b, "bad", 0, {})
    BY <2>1, BlockProgram
  <2> HIDE DEF v
  <2>4. Shape(x) /\ x.r = s.r /\ x.f = Program(s.f, v) /\ (Safe(x.f, s.r.inodes) => Follows(s, x))
    BY <2>1, <2>2, HeaderPut
  <2> HIDE DEF x
  <2>5. BlockIs(s.f, x.f, b, "bad", 0, {})
    BY <2>3, <2>4
  <2>6. Safe(x.f, x.r.inodes)
    <3>1. 0 \in Nat /\ {} # IsInodes /\ {} \subseteq {"LOST"} /\ "bad" # "blank"
      BY Differ
    <3>3. Holds("bad", {}, x.f[b].inode)
      BY DEF Holds
    <3>2. Safe(x.f, s.r.inodes)
      BY <2>1, <2>5, <3>1, <3>3, MagicsAre, OtherChanges
    <3> QED
      BY <2>4, <3>2
  <2>7. Legal(x.f, x.r.inodes, w) /\ w.op # "inodes"
    BY DEF Legal
  <2>8. /\ BlockIs(x.f, Program(x.f, w), b, "blank", 0, {})
        /\ Program(x.f, w)[b].inode = NoInodes
    BY <2>6, BlockProgram DEF Safe
  <2> HIDE DEF w
  <2>9. Shape(y) /\ y.r = x.r /\ y.f = Program(x.f, w) /\ (Safe(y.f, x.r.inodes) => Follows(x, y))
    BY <2>4, <2>7, HeaderPut
  <2> HIDE DEF y
  <2>10. BlockIs(x.f, y.f, b, "blank", 0, {}) /\ Holds("blank", {}, y.f[b].inode)
    BY <2>8, <2>9 DEF Holds
  <2>11. x.f[b].magic = "bad"
    BY <2>5 DEF BlockIs
  <2>12. \A state \in {IsInodes, IsCopying, IsInodesLost} : b \notin InFlash(x.f, state)
    BY <2>11 DEF InFlash
  <2>13. Safe(y.f, y.r.inodes)
    BY <2>6, <2>9, <2>10, <2>12, MagicsAre, OtherIsSafe
  <2>14. y.f[b].magic = "blank"
    BY <2>10 DEF BlockIs
  <2>15. Freed(y, t, b)
    BY <2>1, <2>4, <2>9, <2>13, <2>14, Preformatted
  <2>16. Follows(s, t)
    BY <2>4, <2>6, <2>9, <2>13, <2>15, FollowsTrans DEF Freed
  <2> HIDE DEF t
  <2>17. BlockIs(s.f, t.f, b, "ok", t.f[b].age, IsFree)
    BY <2>5, <2>10, <2>15 DEF Freed, BlockIs
  <2>18. t.r.flags = [s.r.flags EXCEPT ![b] = IsFree] /\ DOMAIN s.r.flags = Blocks
    BY <2>1, <2>4, <2>9, <2>15 DEF Freed, Shape, RamShape
  <2>19. InFlash(t.f, IsInodes) = InFlash(s.f, IsInodes) /\ InFlash(t.f, IsCopying) = {}
    <3>1. b \notin InFlash(s.f, IsInodes) /\ InFlash(s.f, IsCopying) = {}
      BY <2>1, GoodFacts
    <3>2. IsFree # IsInodes /\ IsFree # IsCopying
      BY Differ
    <3>3. \A state \in {IsInodes, IsCopying} : InFlash(t.f, state) = InFlash(s.f, state) \ {b}
      BY <2>17, <3>2, BlockIsIn
    <3> QED
      BY <3>1, <3>3
  <2>20. Match(t.f, t.r)
    <3>1. \A c \in Blocks : t.r.flags[c] = t.f[c].flags
      BY <2>17, <2>18, GoodFacts DEF BlockIs
    <3>2. t.r.inodes = s.r.inodes /\ t.r.age_max \in Nat
      BY <2>4, <2>9, <2>15 DEF Freed
    <3>3. s.r.inodes \in InFlash(s.f, IsInodes)
      BY GoodFacts DEF InFlash
    <3> QED
      BY <2>19, <3>1, <3>2, <3>3 DEF Match
  <2>21. Good(t)
    BY <2>15, <2>20 DEF Good, Freed
  <2>22. MovesBut(s, t, b)
    BY <2>4, <2>9, <2>15, <2>16, <2>18, <2>21 DEF MovesBut, Moves, Follows, Freed
  <2>23. t = block_reclaim(s, b)
    BY <1>2 DEF t, y, x, w, v, block_reclaim
  <2> QED
    BY <2>22, <2>23
<1> QED
  BY <1>1, <1>2

LEMMA MovesButTrans ==
  ASSUME NEW s, NEW t, NEW u, NEW b, MovesBut(s, t, b), MovesBut(t, u, b)
  PROVE  MovesBut(s, u, b)
BY DEF MovesBut, Moves

LEMMA MovesButLeads ==
  ASSUME NEW s, NEW t, NEW b, MovesBut(s, t, b), "DATA" \notin s.r.flags[b]
  PROVE  Leads(s, t)
BY DEF MovesBut, Leads, Keeps

\* A flag is set in a block that is not the table.
LEMMA FlagMoves ==
  ASSUME NEW s, Good(s), NEW b \in Blocks, b # s.r.inodes, NEW flag,
         s.r.flags[b] \cup {flag} \notin {IsInodes, IsCopying}, flag # "FREE",
         s.f[b].magic # "blank", s.f[b].magic = "bad" => flag = "LOST"
  PROVE  /\ MovesBut(s, block_flags_write(s, b, flag), b)
         /\ block_flags_write(s, b, flag).r.flags[b] = s.r.flags[b] \cup {flag}
         /\ block_flags_write(s, b, flag).r.inodes = s.r.inodes
         /\ block_flags_write(s, b, flag).f[b].magic = s.f[b].magic
         /\ block_flags_write(s, b, flag).v = s.v
<1> DEFINE t == block_flags_write(s, b, flag)
           F == s.f[b].flags \cup {flag}
<1>1. /\ Shape(s) /\ Safe(s.f, s.r.inodes) /\ s.r.flags[b] = s.f[b].flags
      /\ s.f[b].age \in Nat /\ s.r.age_max \in Nat /\ s.f[b].magic \in Magics
      /\ s.f[b].magic = "bad" => s.f[b].flags \subseteq {"LOST"}
      /\ \A c \in Blocks : s.r.flags[c] = s.f[c].flags
  BY GoodFacts
<1>2. Flagged(s, t, b, flag)
  BY <1>1, FlagWritten
<1> HIDE DEF t
<1>3. /\ Shape(t) /\ SameRam(s, t) /\ t.v = s.v
      /\ BlockIs(s.f, t.f, b, s.f[b].magic, s.f[b].age, F)
      /\ t.r.flags = [s.r.flags EXCEPT ![b] = @ \cup {flag}]
      /\ Safe(t.f, t.r.inodes) => Follows(s, t)
  BY <1>2 DEF Flagged
<1>4. F # IsInodes /\ F # IsCopying
  BY <1>1
<1>5. s.f[b].magic = "bad" => F \subseteq {"LOST"}
  BY <1>1
<1> HIDE DEF F
<1>0. Holds(s.f[b].magic, F, t.f[b].inode)
  <2>1. flag \in F /\ F # {}
    BY DEF F
  <2> QED
    BY <2>1, States DEF Holds
<1>6. Safe(t.f, s.r.inodes)
  BY <1>0, <1>1, <1>3, <1>4, <1>5, OtherChanges
<1>7. /\ \A c \in Blocks : t.r.flags[c] = IF c = b THEN F ELSE s.r.flags[c]
      /\ \A c \in Blocks : t.r.flags[c] = t.f[c].flags
  <2>1. \A c \in Blocks : t.r.flags[c] = IF c = b THEN F ELSE s.r.flags[c]
    BY <1>1, <1>3 DEF F, Shape, RamShape
  <2>2. \A c \in Blocks : t.f[c].flags = IF c = b THEN F ELSE s.f[c].flags
    BY <1>3 DEF BlockIs
  <2> QED
    BY <1>1, <2>1, <2>2
<1>8. InFlash(t.f, IsInodes) = InFlash(s.f, IsInodes) /\ InFlash(t.f, IsCopying) = {}
  <2>1. \A state \in {IsInodes, IsCopying} : InFlash(t.f, state) = InFlash(s.f, state) \ {b}
    BY <1>3, <1>4, BlockIsIn
  <2>2. b \notin InFlash(s.f, IsInodes) /\ InFlash(s.f, IsCopying) = {}
    <3>1. InFlash(s.f, IsInodes) = {s.r.inodes} /\ InFlash(s.f, IsCopying) = {}
      BY GoodFacts
    <3> QED
      BY <3>1
  <2> QED
    BY <2>1, <2>2
<1>9. Match(t.f, t.r)
  <2>1. s.r.inodes \in InFlash(s.f, IsInodes)
    BY GoodFacts DEF InFlash
  <2> QED
    BY <1>1, <1>3, <1>7, <1>8, <2>1 DEF Match, SameRam
<1>10. Good(t) /\ Follows(s, t)
  BY <1>3, <1>6, <1>9 DEF Good, SameRam
<1>11. MovesBut(s, t, b)
  BY <1>3, <1>7, <1>10 DEF MovesBut, Moves, Follows, SameRam
<1>12. t.r.flags[b] = s.r.flags[b] \cup {flag} /\ t.f[b].magic = s.f[b].magic
  BY <1>1, <1>3, <1>7 DEF F, BlockIs
<1> QED
  BY <1>3, <1>11, <1>12 DEF t, SameRam

LEMMA BlockFreed ==
  ASSUME NEW s, Good(s), NEW b \in Blocks, b # s.r.inodes, s.f[b].magic # "blank"
  PROVE  MovesBut(s, block_free(s, b), b)
<1> DEFINE t == block_flags_write(s, b, "LOST")
<1>1. s.r.flags[b] \cup {"LOST"} \notin {IsInodes, IsCopying}
  BY States
<1>2. MovesBut(s, t, b) /\ t.r.flags[b] = s.r.flags[b] \cup {"LOST"}
  BY <1>1, FlagMoves
<1> HIDE DEF t
<1>3. Good(t) /\ "LOST" \in t.r.flags[b]
  BY <1>2 DEF MovesBut, Moves
<1>4. MovesBut(t, block_reclaim(t, b), b)
  BY <1>3, BlockReclaimed
<1>5. MovesBut(s, block_reclaim(t, b), b)
  BY <1>2, <1>4, MovesButTrans
<1> QED
  BY <1>5 DEF t, block_free

----------------------------------------------------------------------------
(* The table moves                                                         *)

\* RAM knows the flags, whether or not there is a table now.
Read(s) ==
  /\ Shape(s) /\ Safe(s.f, s.r.inodes) /\ s.r.age_max \in Nat
  /\ \A b \in Blocks : s.r.flags[b] = s.f[b].flags

LEMMA InodesSet ==
  ASSUME NEW s, Read(s), NEW b \in InFlash(s.f, IsInodes), InFlash(s.f, IsCopying) = {}
  PROVE  /\ Leads(s, inodes_set(s, b))
         /\ inodes_set(s, b).r.inodes = b
         /\ inodes_set(s, b).r.flags = s.r.flags
<1> DEFINE u == [s EXCEPT !.r.inodes = b]
           w == [op |-> "inodes", v |-> b]
           t == Put(u, w)
<1>1. /\ Shape(u) /\ u.f = s.f /\ u.w = s.w /\ u.r.inodes = b /\ u.r.flags = s.r.flags
      /\ u.r.initerror = s.r.initerror /\ u.r.age_max = s.r.age_max
      /\ u.r.to_clean = s.r.to_clean
  BY DEF Read, Shape, RamShape
<1>2. Program(s.f, w) = s.f
  BY DEF Program
<1>3. Legal(s.f, s.r.inodes, w) /\ TableAfter(s.r.inodes, w) = b
  BY DEF Legal, TableAfter
<1> HIDE DEF u, w
<1>4. Shape(t) /\ t.f = s.f /\ t.w = Append(s.w, w) /\ t.r = u.r
  BY <1>1, <1>2, PutCore
<1> HIDE DEF t
<1>5. Safe(t.f, t.r.inodes)
  BY <1>1, <1>4 DEF Read, Safe, InFlash
<1>6. Follows(s, t)
  BY <1>1, <1>2, <1>3, <1>4, <1>5, TracedPut DEF Follows
<1>7. Match(t.f, t.r)
  BY <1>1, <1>4 DEF Match, Read
<1>8. Leads(s, t)
  BY <1>1, <1>4, <1>5, <1>6, <1>7 DEF Leads, Moves, Keeps, Good, Follows
<1> QED
  BY <1>1, <1>4, <1>8 DEF t, u, w, inodes_set

\* There is a copy of the table that was or is in block old.
Copy(s, old, new) ==
  /\ Read(s)
  /\ new \in Blocks /\ InFlash(s.f, IsCopying) = {new}
  /\ old \in InFlash(s.f, IsInodes) \cup InFlash(s.f, IsInodesLost)
  /\ InFlash(s.f, IsInodes) \subseteq {old}

FlagKnown(s, t, b, flag) ==
  /\ Read(t) /\ Follows(s, t) /\ SameRam(s, t)
  /\ \A c \in Blocks : t.r.flags[c] = IF c = b THEN s.r.flags[b] \cup {flag} ELSE s.r.flags[c]

LEMMA FlagRead ==
  ASSUME NEW s, Read(s), NEW b \in Blocks, NEW flag, NEW t, Flagged(s, t, b, flag),
         Safe(t.f, t.r.inodes)
  PROVE  FlagKnown(s, t, b, flag)
<1>1. \A c \in Blocks : t.r.flags[c] = IF c = b THEN s.r.flags[b] \cup {flag} ELSE s.r.flags[c]
  BY DEF Flagged, Read, Shape, RamShape
<1>2. \A c \in Blocks : t.r.flags[c] = t.f[c].flags
  <2>1. \A c \in Blocks : t.f[c].flags = IF c = b THEN s.f[b].flags \cup {flag} ELSE s.f[c].flags
    BY DEF Flagged, BlockIs
  <2>2. \A c \in Blocks : s.r.flags[c] = s.f[c].flags
    BY DEF Read
  <2> QED
    BY <1>1, <2>1, <2>2
<1> QED
  BY <1>1, <1>2 DEF FlagKnown, Flagged, Read, SameRam

LEMMA CommitLeads ==
  ASSUME NEW s, NEW old, NEW new, Copy(s, old, new)
  PROVE  Leads(s, block_commit(s, old, new))
<1> DEFINE n == s.r.inodes
           l == block_flags_write(s, old, "LOST")
           i == block_flags_write(l, new, "INODES")
           j == [i EXCEPT !.r.lost[new] = 0, !.r.objects[new] = 1]
           k == inodes_set(j, new)
<1>1. /\ Read(s) /\ Shape(s) /\ Safe(s.f, n) /\ old \in Blocks /\ new \in Blocks
      /\ s.f[old].magic = "ok" /\ s.f[old].flags \in {IsInodes, IsInodesLost}
      /\ s.f[new].magic = "ok" /\ s.f[new].flags = IsCopying /\ old # new
      /\ s.f[old].age \in Nat /\ s.f[new].age \in Nat
  BY Differ DEF Copy, Read, InFlash, Safe, HeadersRead
<1>2. s.f[old].flags \cup {"LOST"} = IsInodesLost
  BY <1>1, States
<1>3. Flagged(s, l, old, "LOST")
  BY <1>1, FlagWritten
<1> HIDE DEF l
<1>4. BlockIs(s.f, l.f, old, "ok", s.f[old].age, IsInodesLost) /\ l.r.inodes = n
  BY <1>1, <1>2, <1>3 DEF Flagged, SameRam
<1>5. /\ InFlash(l.f, IsInodes) = {} /\ InFlash(l.f, IsCopying) = {new}
      /\ InFlash(l.f, IsInodesLost) # {}
  <2>1. \A state \in {IsInodes, IsCopying} : InFlash(l.f, state) = InFlash(s.f, state) \ {old}
    BY <1>1, <1>4, BlockIsIn, Differ
  <2>2. InFlash(l.f, IsInodesLost) = InFlash(s.f, IsInodesLost) \cup {old}
    BY <1>1, <1>4, BlockIsIn
  <2> QED
    BY <1>1, <2>1, <2>2 DEF Copy
<1>6. Safe(l.f, l.r.inodes)
  <2>3. Holds("ok", IsInodesLost, l.f[old].inode)
    BY UsedHolds
  <2>1. HeadersRead(l.f)
    BY <1>1, <1>4, <2>3, MagicsAre, BlockIsRead DEF Safe
  <2>2. TableIsThere(l.f)
    BY <1>5 DEF TableIsThere, OnlyOne
  <2> QED
    BY <1>1, <1>4, <2>1, <2>2 DEF Safe, BlockIs
<1>7. /\ Read(l) /\ Follows(s, l) /\ SameRam(s, l)
      /\ \A c \in Blocks : l.r.flags[c] = IF c = old THEN s.r.flags[old] \cup {"LOST"} ELSE s.r.flags[c]
  <2>1. Read(s) /\ old \in Blocks /\ Safe(l.f, l.r.inodes)
    BY <1>1, <1>6
  <2>2. FlagKnown(s, l, old, "LOST")
    BY <1>3, <2>1, FlagRead
  <2> QED
    BY <2>2 DEF FlagKnown
<1>8. l.f[new].magic = "ok" /\ l.f[new].flags = IsCopying /\ l.f[new].age \in Nat
  BY <1>1, <1>4 DEF BlockIs
<1>9. Flagged(l, i, new, "INODES")
  BY <1>1, <1>7, FlagWritten DEF Read
<1> HIDE DEF i
<1>10. BlockIs(l.f, i.f, new, "ok", l.f[new].age, IsInodes) /\ i.r.inodes = n
  BY <1>4, <1>8, <1>9, States DEF Flagged, SameRam
<1>11. InFlash(i.f, IsInodes) = {new} /\ InFlash(i.f, IsCopying) = {}
  <2>1. InFlash(i.f, IsInodes) = InFlash(l.f, IsInodes) \cup {new}
    BY <1>1, <1>10, BlockIsIn
  <2>2. InFlash(i.f, IsCopying) = InFlash(l.f, IsCopying) \ {new}
    BY <1>1, <1>10, BlockIsIn, Differ
  <2> QED
    BY <1>5, <2>1, <2>2
<1>12. Safe(i.f, i.r.inodes)
  <2>4. Holds("ok", IsInodes, i.f[new].inode)
    BY UsedHolds
  <2>5. /\ HeadersRead(l.f) /\ new \in Blocks /\ l.f[new].age \in Nat
        /\ BlockIs(l.f, i.f, new, "ok", l.f[new].age, IsInodes)
    BY <1>1, <1>6, <1>8, <1>10 DEF Safe
  <2>6. "ok" # "bad" /\ "ok" # "blank" /\ "ok" \in Magics
    BY MagicsAre
  <2>1. HeadersRead(i.f)
    BY <2>4, <2>5, <2>6, BlockIsRead, Zenon
  <2>2. TableIsThere(i.f)
    BY <1>11 DEF TableIsThere, OnlyOne
  <2>3. n # 0 => n # new
    BY <1>4, <1>6, <1>8, Differ DEF Safe
  <2> QED
    BY <1>4, <1>6, <1>10, <2>1, <2>2, <2>3 DEF Safe, BlockIs
<1>13. /\ Read(i) /\ Follows(l, i) /\ SameRam(l, i)
       /\ \A c \in Blocks : i.r.flags[c] = IF c = new THEN l.r.flags[new] \cup {"INODES"} ELSE l.r.flags[c]
  <2>1. Read(l) /\ new \in Blocks /\ Safe(i.f, i.r.inodes)
    BY <1>1, <1>7, <1>12
  <2>2. FlagKnown(l, i, new, "INODES")
    BY <1>9, <2>1, FlagRead
  <2> QED
    BY <2>2 DEF FlagKnown
<1>14. Shape(j) /\ j.f = i.f /\ j.w = i.w /\ SameRam(i, j) /\ j.r.flags = i.r.flags
  BY <1>13 DEF Read, Shape, RamShape, SameRam
<1> HIDE DEF j
<1>15. Read(j) /\ Follows(i, j)
  BY <1>13, <1>14 DEF Read, SameRam, Follows, Traced
<1>16. new \in InFlash(j.f, IsInodes) /\ InFlash(j.f, IsCopying) = {}
  BY <1>11, <1>14
<1>17. Leads(j, k) /\ k.r.inodes = new /\ k.r.flags = j.r.flags
  BY <1>15, <1>16, InodesSet
<1> HIDE DEF k
<1>18. Good(k) /\ Follows(j, k)
  BY <1>17 DEF Leads, Moves, Follows
<1>19. Follows(s, k)
  BY <1>7, <1>13, <1>15, <1>18, FollowsTrans
<1>20. k.f[old].flags = IsInodesLost
  <2>1. k.r.flags[old] = s.r.flags[old] \cup {"LOST"}
    BY <1>1, <1>7, <1>13, <1>14, <1>17
  <2> QED
    BY <1>1, <1>2, <1>18, <2>1, GoodFacts DEF Read
<1>21. k.f[old].magic # "blank"
  BY <1>1, <1>18, <1>20, GoodFacts, Differ
<1>22. MovesBut(k, block_free(k, old), old)
  BY <1>1, <1>17, <1>18, <1>21, BlockFreed
<1>23. \A b \in Blocks : "DATA" \in s.r.flags[b] =>
         b # old /\ b # new /\ k.r.flags[b] = s.r.flags[b]
  <2>1. "DATA" \notin IsInodes /\ "DATA" \notin IsInodesLost /\ "DATA" \notin IsCopying
    BY DEF IsInodes, IsInodesLost, IsCopying
  <2>2. "DATA" \notin s.r.flags[old] /\ "DATA" \notin s.r.flags[new]
    BY <1>1, <2>1 DEF Read
  <2> QED
    BY <1>7, <1>13, <1>14, <1>17, <2>2
<1>24. k.r.initerror = s.r.initerror /\ k.r.to_clean = s.r.to_clean
  BY <1>7, <1>13, <1>14, <1>17 DEF SameRam, Leads, Keeps
<1> DEFINE t == block_free(k, old)
<1> HIDE DEF t
<1>25. MovesBut(k, t, old)
  BY <1>22 DEF t
<1>26. Leads(s, t)
  BY <1>19, <1>23, <1>24, <1>25 DEF Leads, Moves, Keeps, Follows, MovesBut
<1> QED
  BY <1>26 DEF t, k, j, i, l, block_commit

----------------------------------------------------------------------------
(* Allocation of blocks, and of inodes                                     *)

LEMMA YoungestIsFree ==
  ASSUME NEW s, Good(s), NEW free \in SUBSET Blocks, free # {}
  PROVE  LET Y == {b \in free : \A c \in free : s.f[b].age <= s.f[c].age}
         IN Y # {} /\ Min(Y) \in free
<1> DEFINE Ages == {s.f[c].age : c \in free}
           Y == {b \in free : \A c \in free : s.f[b].age <= s.f[c].age}
<1>1. \A c \in free : s.f[c].age \in Nat
  BY GoodFacts
<1>2. Ages \in SUBSET Nat /\ Ages # {}
  BY <1>1
<1>3. PICK a \in Ages : \A x \in Ages : a <= x
  <2> HIDE DEF Ages
  <2> QED
    BY <1>2, LeastNumber
<1>4. PICK b \in free : a = s.f[b].age
  OBVIOUS
<1>5. b \in Y
  BY <1>3, <1>4
<1>6. Y \in SUBSET Nat /\ Y # {}
  <2>1. Blocks \subseteq Nat
    BY FfsAssumption DEF Blocks
  <2>2. Y \subseteq Blocks
    OBVIOUS
  <2> HIDE DEF Y
  <2> QED
    BY <1>5, <2>1, <2>2
<1>7. Min(Y) \in Y
  <2> HIDE DEF Y
  <2> QED
    BY <1>6, LeastIsMin
<1> QED
  BY <1>7

\* What is allocated is a free block.
LEMMA AllocSteps ==
  ASSUME NEW s, Good(s), NEW flag
  PROVE  \/ block_alloc(s, 1, flag) = Ret(s, 0)
         \/ \E b, u :
              /\ b \in Blocks /\ s.r.flags[b] = IsFree /\ SameCore(s, u)
              /\ block_alloc(s, 1, flag) = Ret(block_flags_write(u, b, flag), b)
<1> DEFINE free == {b \in Blocks : is_block(s, b, IsFree)}
           youngest == {b \in free : \A c \in free : s.f[b].age <= s.f[c].age}
           b == Min(youngest)
           u == [s EXCEPT !.r.used[b] = 0, !.r.lost[b] = 0,
                          !.r.objects[b] = IF flag = "DATA" THEN 0 ELSE 1]
<1>1. block_alloc(s, 1, flag) = IF Cardinality(free) <= BlocksFreeMin - 1 THEN Ret(s, 0)
                                ELSE Ret(block_flags_write(u, b, flag), b)
  BY DEF block_alloc
<1>2. CASE Cardinality(free) <= BlocksFreeMin - 1
  BY <1>1, <1>2
<1>3. CASE ~(Cardinality(free) <= BlocksFreeMin - 1)
  <2>1. free # {}
    BY <1>3, FS_EmptySet DEF BlocksFreeMin
  <2>2. b \in free
    <3> HIDE DEF free
    <3>1. free \in SUBSET Blocks
      BY DEF free
    <3> QED
      BY <2>1, <3>1, YoungestIsFree
  <2>3. b \in Blocks /\ s.r.flags[b] = IsFree
    BY <2>2 DEF is_block
  <2> HIDE DEF b
  <2>4. SameCore(s, u)
    BY DEF SameCore, Good, Shape, RamShape
  <2> QED
    BY <1>1, <1>3, <2>3, <2>4
<1> QED
  BY <1>2, <1>3

LEMMA FreeFacts ==
  ASSUME NEW s, Good(s), NEW b \in Blocks, s.r.flags[b] = IsFree
  PROVE  s.f[b].magic \notin {"blank", "bad"} /\ b # s.r.inodes
<1>1. /\ s.f[b].flags = IsFree
      /\ s.f[b].magic = "bad" => s.f[b].flags \subseteq {"LOST"}
      /\ s.f[b].magic = "blank" => s.f[b].flags = {}
      /\ s.f[s.r.inodes].flags = IsInodes
  BY GoodFacts
<1> QED
  BY <1>1 DEF IsFree, IsInodes

LEMMA AllocDataLeads ==
  ASSUME NEW s, Good(s)
  PROVE  Leads(s, block_alloc(s, 1, "DATA"))
<1>1. CASE block_alloc(s, 1, "DATA") = Ret(s, 0)
  BY <1>1, RetLeads
<1>2. CASE \E b, u :
             /\ b \in Blocks /\ s.r.flags[b] = IsFree /\ SameCore(s, u)
             /\ block_alloc(s, 1, "DATA") = Ret(block_flags_write(u, b, "DATA"), b)
  <2>1. PICK b, u :
             /\ b \in Blocks /\ s.r.flags[b] = IsFree /\ SameCore(s, u)
             /\ block_alloc(s, 1, "DATA") = Ret(block_flags_write(u, b, "DATA"), b)
    BY <1>2
  <2>2. Leads(s, u) /\ Good(u) /\ u.r.flags[b] = IsFree
    BY <2>1, SameLeads, LeadsGood DEF SameCore
  <2>3. u.f[b].magic \notin {"blank", "bad"} /\ b # u.r.inodes
    BY <2>1, <2>2, FreeFacts
  <2>4. u.r.flags[b] \cup {"DATA"} \notin {IsInodes, IsCopying}
    BY <2>2, States
  <2>5. MovesBut(u, block_flags_write(u, b, "DATA"), b)
    BY <2>1, <2>2, <2>3, <2>4, FlagMoves
  <2>6. "DATA" \notin u.r.flags[b]
    BY <2>2, States
  <2>7. Leads(u, block_flags_write(u, b, "DATA"))
    BY <2>5, <2>6, MovesButLeads
  <2>8. Leads(s, block_flags_write(u, b, "DATA"))
    BY <2>2, <2>7, LeadsTrans
  <2> QED
    BY <2>1, <2>8, RetLeads, LeadsGood, LeadsTrans
<1> QED
  BY <1>1, <1>2, AllocSteps

LEMMA AllocCopying ==
  ASSUME NEW s, Good(s)
  PROVE  \/ block_alloc(s, 1, "COPYING") = Ret(s, 0)
         \/ \E b, t : /\ b \in Blocks
                   /\ block_alloc(s, 1, "COPYING") = Ret(t, b)
                   /\ Copy(t, s.r.inodes, b) /\ t.f[b].inode = NoInodes
                   /\ Follows(s, t) /\ Keeps(s, t)
<1> SUFFICES ASSUME NEW b \in Blocks, NEW u, s.r.flags[b] = IsFree, SameCore(s, u)
             PROVE  LET t == block_flags_write(u, b, "COPYING")
                    IN /\ Copy(t, s.r.inodes, b) /\ t.f[b].inode = NoInodes
                       /\ Follows(s, t) /\ Keeps(s, t)
  BY AllocSteps
<1> DEFINE t == block_flags_write(u, b, "COPYING")
<1>2. Leads(s, u) /\ Good(u) /\ u.r.flags[b] = IsFree /\ u.r.inodes = s.r.inodes
  BY SameLeads, LeadsGood DEF SameCore
<1>3. u.f[b].magic \notin {"blank", "bad"} /\ b # u.r.inodes
  BY <1>2, FreeFacts
<1>4. /\ Read(u) /\ u.f[b].age \in Nat /\ u.f[b].magic \in Magics /\ u.f[b].flags = IsFree
      /\ Shape(u) /\ Safe(u.f, u.r.inodes)
      /\ InFlash(u.f, IsInodes) = {u.r.inodes} /\ InFlash(u.f, IsCopying) = {}
  BY <1>2, GoodFacts DEF Read
<1>5. Flagged(u, t, b, "COPYING")
  BY <1>4, FlagWritten
<1> HIDE DEF t
<1>6. BlockIs(u.f, t.f, b, u.f[b].magic, u.f[b].age, IsCopying) /\ SameRam(u, t)
  BY <1>4, <1>5, States DEF Flagged
<1>7. Safe(t.f, t.r.inodes)
  <2>1. b \notin InFlash(u.f, IsInodes) /\ InFlash(u.f, IsInodes) # {} /\ IsCopying # IsInodes
    BY <1>3, <1>4, Differ
  <2>3. Holds(u.f[b].magic, IsCopying, t.f[b].inode)
    BY UsedHolds
  <2>4. BlockIs(u.f, t.f, b, u.f[b].magic, u.f[b].age, IsCopying)
    BY <1>6
  <2>5. /\ u.f[b].magic = "bad" => IsCopying \subseteq {"LOST"}
        /\ u.f[b].magic = "blank" => IsCopying = {}
    BY <1>3
  <2>6. /\ Safe(u.f, u.r.inodes) /\ u.f[b].age \in Nat /\ u.f[b].magic \in Magics
        /\ b # u.r.inodes /\ InFlash(u.f, IsCopying) = {}
    BY <1>3, <1>4
  <2>2. Safe(t.f, u.r.inodes)
    BY <2>1, <2>3, <2>4, <2>5, <2>6, WithTableIsSafe
  <2> QED
    BY <1>6, <2>2 DEF SameRam
<1>8. FlagKnown(u, t, b, "COPYING")
  BY <1>4, <1>5, <1>7, FlagRead
<1>9. InFlash(t.f, IsInodes) = {u.r.inodes}
  <2>1. InFlash(t.f, IsInodes) = InFlash(u.f, IsInodes) \ {b}
    BY <1>6, BlockIsIn, Differ
  <2> QED
    BY <1>3, <1>4, <2>1
<1>10. InFlash(t.f, IsCopying) = {b}
  <2>1. b \in InFlash(t.f, IsCopying)
    <3>1. t.f[b].magic = u.f[b].magic /\ t.f[b].flags = IsCopying
      BY <1>6 DEF BlockIs
    <3>2. u.f[b].magic = "ok"
      BY <1>3, <1>4 DEF Safe, HeadersRead, Magics
    <3> QED
      BY <3>1, <3>2 DEF InFlash
  <2> QED
    BY <1>7, <2>1 DEF Safe, TableIsThere, OnlyOne
<1>11. Copy(t, s.r.inodes, b)
  BY <1>2, <1>8, <1>9, <1>10 DEF Copy, FlagKnown
<1>12. Follows(s, t) /\ Keeps(s, t)
  <2>1. "DATA" \notin u.r.flags[b]
    BY <1>2 DEF IsFree
  <2>2. Follows(s, u) /\ Keeps(s, u)
    BY <1>2 DEF Leads, Moves, Follows
  <2>3. Follows(s, t)
    BY <1>8, <2>2, FollowsTrans DEF FlagKnown
  <2> QED
    BY <1>8, <2>1, <2>2, <2>3 DEF FlagKnown, Keeps, SameRam
<1>13. t.f[b].inode = NoInodes
  <2>1. u.f[b].inode = NoInodes
    BY <1>3, <1>4 DEF Safe, HeadersRead, IsFresh
  <2> QED
    BY <1>6, <2>1 DEF BlockIs
<1> QED
  BY <1>11, <1>12, <1>13 DEF t

LEMMA InodesReclaimLeads ==
  ASSUME NEW s, Good(s)
  PROVE  Leads(s, inodes_reclaim(s))
<1>1. CASE block_alloc(s, 1, "COPYING") = Ret(s, 0)
  <2>1. Ret(s, 0).v = 0
    BY DEF Ret, Good, Shape
  <2>2. inodes_reclaim(s) = Ret(s, -1)
    BY <1>1, <2>1 DEF inodes_reclaim, MoveInodes
  <2> QED
    BY <2>2, RetLeads
<1>2. CASE block_alloc(s, 1, "COPYING") # Ret(s, 0)
  <2>1. PICK b, t : /\ b \in Blocks
                    /\ block_alloc(s, 1, "COPYING") = Ret(t, b)
                    /\ Copy(t, s.r.inodes, b) /\ t.f[b].inode = NoInodes
                    /\ Follows(s, t) /\ Keeps(s, t)
    BY <1>2, AllocCopying
  <2> DEFINE table == Compacted(s)
             a == Ret(t, b)
             u == [a EXCEPT !.r.used[a.v] = Cardinality({i \in Irefs : table[i] # BlankInode})]
             w == [op |-> "table", b |-> a.v, v |-> table]
             c == Put(u, w)
  <2>2. /\ Shape(a) /\ a.f = t.f /\ a.w = t.w /\ a.r = t.r /\ a.v = b
    BY <2>1 DEF Copy, Read, Shape, Ret
  <2> HIDE DEF a, table
  <2>3. /\ Shape(u) /\ u.f = t.f /\ u.w = t.w /\ SameRam(t, u) /\ u.r.flags = t.r.flags
    BY <2>2 DEF Shape, RamShape, SameRam
  <2> HIDE DEF u
  <2>4. /\ Shape(t) /\ Safe(t.f, t.r.inodes) /\ t.r.age_max \in Nat
        /\ \A d \in Blocks : t.r.flags[d] = t.f[d].flags
    BY <2>1 DEF Copy, Read
  <2>5. Safe(u.f, u.r.inodes) /\ w.op \in QuietOps /\ w.b = b
    BY <2>2, <2>3, <2>4 DEF SameRam, QuietOps
  <2> HIDE DEF w
  <2>16. Placed(u.f, w) /\ u.f[w.b].inode = NoInodes
    <3>1. u.f[b].flags = IsCopying
      BY <2>1, <2>3 DEF Copy, InFlash
    <3> QED
      BY <2>1, <2>3, <2>5, <3>1, Differ DEF Placed, IsFresh
  <2>6. Follows(u, c) /\ SameHeaders(u.f, c.f) /\ Safe(c.f, u.r.inodes)
    BY <2>3, <2>5, <2>16, QuietFollows
  <2>7. Shape(c) /\ c.r = u.r
    BY <2>3, PutCore
  <2> HIDE DEF c
  <2>8. \A state : InFlash(c.f, state) = InFlash(t.f, state)
    BY <2>3, <2>6, SameHeadersIn
  <2>9. Read(c)
    BY <2>3, <2>4, <2>6, <2>7 DEF Read, SameRam, SameHeaders
  <2>10. Copy(c, s.r.inodes, b)
    BY <2>1, <2>8, <2>9 DEF Copy
  <2>11. Leads(c, block_commit(c, s.r.inodes, b))
    BY <2>10, CommitLeads
  <2>12. Follows(s, c) /\ Keeps(s, c)
    <3>1. Follows(t, u)
      BY <2>3 DEF Follows, Traced, SameRam
    <3>2. Follows(s, c)
      BY <2>1, <2>6, <3>1, FollowsTrans
    <3> QED
      BY <2>1, <2>3, <2>7, <3>2 DEF Keeps, SameRam
  <2>13. Leads(s, block_commit(c, s.r.inodes, b))
    <3> DEFINE d == block_commit(c, s.r.inodes, b)
    <3> HIDE DEF d
    <3>1. Leads(c, d)
      BY <2>11 DEF d
    <3>2. Leads(s, d)
      BY <2>12, <3>1 DEF Leads, Moves, Keeps, Follows
    <3> QED
      BY <3>2 DEF d
  <2>14. b # 0
    BY <2>1 DEF Blocks
  <2>15. inodes_reclaim(s) = Ret(block_commit(c, s.r.inodes, b), 0)
    <3>1. inodes_reclaim(s) = MoveInodes(s, a)
      BY <2>1 DEF inodes_reclaim, a
    <3>2. MoveInodes(s, a) = Ret(block_commit(Copied(a, table), s.r.inodes, b), 0)
      BY <2>2, <2>14 DEF MoveInodes, table
    <3> QED
      BY <3>1, <3>2 DEF Copied, c, u, w
  <2> QED
    BY <2>13, <2>15, LeadsGood, RetLeads, LeadsTrans
<1> QED
  BY <1>1, <1>2

LEMMA InodeAllocTryLeads ==
  ASSUME NEW s, Good(s)
  PROVE  Leads(s, inode_alloc_try(s))
<1> SUFFICES ASSUME NEW u, SameCore(s, u), NEW v
             PROVE  Leads(s, Ret(u, v))
  <2>1. ASSUME NEW b, NEW x
        PROVE  SameCore(s, [s EXCEPT !.r.objects[b] = x, !.r.used[b] = @ + 1])
    BY DEF SameCore, Good, Shape, RamShape
  <2>2. SameCore(s, s)
    BY DEF SameCore, Good
  <2> QED
    BY <2>1, <2>2 DEF inode_alloc_try
<1> QED
  BY SameLeads, LeadsGood, RetLeads, LeadsTrans

LEMMA InodeAllocLeads ==
  ASSUME NEW s, Good(s)
  PROVE  Leads(s, inode_alloc(s))
<1> DEFINE i == inode_alloc_try(s)
<1>1. Leads(s, i)
  BY InodeAllocTryLeads
<1>2. Leads(s, inode_alloc_try(inodes_reclaim(s)))
  BY InodesReclaimLeads, InodeAllocTryLeads, LeadsGood, LeadsTrans
<1> QED
  BY <1>1, <1>2 DEF inode_alloc, AllocAgain

----------------------------------------------------------------------------
(* Objects and the journal: these functions do not touch the headers.      *)

LEMMA PutInodeLeads ==
  ASSUME NEW s, Good(s), NEW field \in QuietOps \ {"table"}, NEW i, NEW v
  PROVE  Leads(s, PutInode(s, field, i, v))
<1> DEFINE w == [op |-> field, b |-> s.r.inodes, i |-> i, v |-> v]
<1>1. w.op \in QuietOps \ {"table"} /\ w.b = s.r.inodes
  OBVIOUS
<1> HIDE DEF w
<1>2. Leads(s, Put(s, w))
  BY <1>1, QuietLeads
<1> QED
  BY <1>2 DEF w, PutInode

LEMMA NotInodeOps ==
  {"slot", "entry", "state", "root"} \subseteq QuietOps \ InodeOps
BY DEF QuietOps, InodeOps

\* A programming that is not about inodes.
LEMMA OtherLeads ==
  ASSUME NEW s, Good(s), NEW w, w.op \in QuietOps \ InodeOps
  PROVE  Leads(s, Put(s, w))
<1>1. w.op \in QuietOps \ {"table"} /\ w.op \notin InodeOps
  BY DEF InodeOps
<1> QED
  BY <1>1, QuietLeads

LEMMA FieldsAreQuiet ==
  {"place", "child", "sibling", "flags"} \subseteq QuietOps \ {"table"}
BY DEF QuietOps

LEMMA WithDirLeads ==
  ASSUME NEW s, Good(s), NEW dir
  PROVE  Leads(s, WithDir(s, dir))
<1>1. SameCore(s, WithDir(s, dir))
  BY DEF WithDir, SameCore, Good, Shape, RamShape
<1> QED
  BY <1>1, SameLeads

LEMMA AllocTryLeads ==
  ASSUME NEW s, Good(s)
  PROVE  Leads(s, data_alloc_try(s))
BY RetLeads DEF data_alloc_try

LEMMA ReservedAllocLeads ==
  ASSUME NEW s, Good(s)
  PROVE  Leads(s, data_reserved_alloc(s))
<1>1. \E v : data_reserved_alloc(s) = Ret(s, v)
  BY DEF data_reserved_alloc
<1> QED
  BY <1>1, RetLeads

LEMMA AllocInReclaimLeads ==
  ASSUME NEW s, Good(s), NEW name
  PROVE  Leads(s, AllocInReclaim(s, name))
BY RetLeads, AllocTryLeads, ReservedAllocLeads DEF AllocInReclaim

LEMMA WriteObjectLeads ==
  ASSUME NEW s, Good(s), NEW loc, NEW object
  PROVE  Leads(s, WriteObject(s, loc, object))
<1> DEFINE u == [s EXCEPT !.r.journal.i = s.v]
           w == [op |-> "slot", b |-> loc[1], k |-> loc[2], v |-> object]
           n == Put(u, w)
<1>1. SameCore(s, u)
  BY DEF SameCore, Good, Shape, RamShape
<1>2. Leads(s, u) /\ Good(u)
  BY <1>1, SameLeads, LeadsGood
<1> HIDE DEF u
<1>3. w.op \in QuietOps \ InodeOps
  BY NotInodeOps
<1> HIDE DEF w
<1>4. Leads(u, n)
  BY <1>2, <1>3, OtherLeads
<1>5. Leads(s, n) /\ Good(n)
  BY <1>2, <1>4, LeadsTrans, LeadsGood
<1>6. CASE s.v = 0
  <2>1. SameCore(s, [s EXCEPT !.r.journal.i = 0])
    BY DEF SameCore, Good, Shape, RamShape
  <2>2. Leads(s, Ret([s EXCEPT !.r.journal.i = 0], -1))
    BY <2>1, SameLeads, LeadsGood, RetLeads, LeadsTrans
  <2>3. WriteObject(s, loc, object) = Ret([s EXCEPT !.r.journal.i = 0], -1)
    BY <1>6 DEF WriteObject
  <2> QED
    BY <2>2, <2>3
<1>7. CASE s.v # 0
  <2> HIDE DEF n
  <2> DEFINE t == [n EXCEPT !.r.journal.diri = IF @ = 0 THEN 0 ELSE dir_traverse(n, @)]
  <2>1. SameCore(n, t)
    BY <1>5 DEF SameCore, Good, Shape, RamShape
  <2> HIDE DEF t
  <2>2. Leads(s, t)
    BY <1>5, <2>1, SameLeads, LeadsTrans
  <2>3. WriteObject(s, loc, object) = t
    BY <1>7 DEF WriteObject, t, n, u, w
  <2> QED
    BY <2>2, <2>3
<1> QED
  BY <1>6, <1>7

LEMMA CreatedLeads ==
  ASSUME NEW s, Good(s), NEW object
  PROVE  Leads(s, Created(s, object))
<1> DEFINE u == [s EXCEPT !.r.used[s.v[1]] = @ + 1, !.r.journal.loc = s.v]
<1>1. SameCore(s, u)
  BY DEF SameCore, Good, Shape, RamShape
<1>2. Leads(s, u) /\ Good(u)
  BY <1>1, SameLeads, LeadsGood
<1>3. Created(s, object) = IF s.v = NoLoc THEN Ret(s, -1)
                           ELSE WriteObject(inode_alloc(u), s.v, object)
  BY DEF Created
<1> HIDE DEF u
<1>4. Leads(s, inode_alloc(u)) /\ Good(inode_alloc(u))
  BY <1>2, InodeAllocLeads, LeadsTrans, LeadsGood
<1>5. Leads(s, WriteObject(inode_alloc(u), s.v, object))
  BY <1>4, WriteObjectLeads, LeadsTrans
<1> QED
  BY <1>3, <1>5, RetLeads

LEMMA CreateJournalLeads ==
  ASSUME NEW s, Good(s), NEW dir
  PROVE  Leads(s, CreateJournal(s, dir))
<1> DEFINE d == WithDir(s, dir)
<1>1. Leads(s, d) /\ Good(d)
  BY WithDirLeads, LeadsGood
<1>2. Leads(s, Ret(d, -1))
  BY <1>1, RetLeads, LeadsTrans
<1> DEFINE a == data_reserved_alloc(d)
<1> HIDE DEF d
<1>3. Leads(s, a) /\ Good(a)
  BY <1>1, ReservedAllocLeads, LeadsTrans, LeadsGood
<1> HIDE DEF a
<1>4. Leads(s, Created(a, JournalFile))
  BY <1>3, CreatedLeads, LeadsTrans
<1> QED
  BY <1>2, <1>4 DEF CreateJournal, a, d

LEMMA CreateInReclaimLeads ==
  ASSUME NEW s, Good(s), NEW object, NEW dir
  PROVE  Leads(s, CreateInReclaim(s, object, dir))
<1> DEFINE d == WithDir(s, dir)
           new == IF object.name = ".journal" THEN JournalFile ELSE object
<1>1. Leads(s, d) /\ Good(d)
  BY WithDirLeads, LeadsGood
<1>2. Leads(s, Ret(d, -1))
  BY <1>1, RetLeads, LeadsTrans
<1> DEFINE a == AllocInReclaim(d, object.name)
<1> HIDE DEF d
<1>3. Leads(s, a) /\ Good(a)
  BY <1>1, AllocInReclaimLeads, LeadsTrans, LeadsGood
<1> HIDE DEF a, new
<1>4. Leads(s, Created(a, new))
  BY <1>3, CreatedLeads, LeadsTrans
<1> QED
  BY <1>2, <1>4 DEF CreateInReclaim, a, d, new

LEMMA JournalBeginLeads ==
  ASSUME NEW s, Good(s), NEW oldi
  PROVE  Leads(s, journal_begin(s, oldi))
<1>1. SameCore(s, journal_begin(s, oldi))
  BY DEF journal_begin, SameCore, Good, Shape, RamShape
<1> QED
  BY <1>1, SameLeads

LEMMA DiscardLeads ==
  ASSUME NEW s, Good(s), NEW oldi, NEW moved
  PROVE  Leads(s, Discard(s, oldi, moved))
<1> DEFINE e == PutInode(s, "flags", oldi, "erased")
<1>1. Leads(s, e) /\ Good(e)
  BY PutInodeLeads, LeadsGood, FieldsAreQuiet
<1> HIDE DEF e
<1>2. SameCore(e, [e EXCEPT !.r.objects[Inode(s, oldi).loc[1]] = @ - 1,
                     !.r.lost[Inode(s, oldi).loc[1]] = IF moved THEN @ + Inode(s, oldi).size ELSE @,
                     !.r.lost[s.r.inodes] = @ + 1])
  BY <1>1 DEF SameCore, Good, Shape, RamShape
<1>3. SameCore(e, Discard(s, oldi, moved))
  BY <1>2 DEF Discard, e
<1> QED
  BY <1>1, <1>3, SameLeads, LeadsTrans

LEMMA ObjectRemoveLeads ==
  ASSUME NEW s, Good(s), NEW i
  PROVE  Leads(s, object_remove(s, i))
BY JournalBeginLeads, DiscardLeads, LeadsGood, LeadsTrans DEF object_remove

LEMMA CopyChildLeads ==
  ASSUME NEW s, Good(s)
  PROVE  Leads(s, CopyChild(s))
<1>1. Leads(s, s)
  BY DEF Leads, Moves, Keeps
<1>2. \A i, v : Leads(s, PutInode(s, "child", i, v))
  BY PutInodeLeads, FieldsAreQuiet
<1> QED
  BY <1>1, <1>2 DEF CopyChild

LEMMA LinkIntoLeads ==
  ASSUME NEW s, Good(s)
  PROVE  Leads(s, LinkInto(s))
<1>1. Leads(s, s)
  BY DEF Leads, Moves, Keeps
<1>2. \A i, v : Leads(s, PutInode(s, "child", i, v)) /\ Leads(s, PutInode(s, "sibling", i, v))
  BY PutInodeLeads, FieldsAreQuiet
<1> QED
  BY <1>1, <1>2 DEF LinkInto

LEMMA ValidateLeads ==
  ASSUME NEW s, Good(s)
  PROVE  Leads(s, Validate(s))
<1> DEFINE p == PutInode(s, "flags", s.r.journal.i, s.r.journal.flags)
<1>1. Leads(s, p) /\ Good(p)
  BY PutInodeLeads, FieldsAreQuiet, LeadsGood
<1> HIDE DEF p
<1>2. SameCore(p, [p EXCEPT !.r.objects[s.r.journal.loc[1]] = @ + 1])
  BY <1>1 DEF SameCore, Good, Shape, RamShape
<1>3. SameCore(p, Validate(s))
  BY <1>2 DEF Validate, p
<1> QED
  BY <1>1, <1>3, SameLeads, LeadsTrans

LEMMA InsertLeads ==
  ASSUME NEW s, Good(s)
  PROVE  Leads(s, Insert(s))
<1> DEFINE p == PutInode(s, "place", s.r.journal.i, s.r.journal.loc)
<1>1. Leads(s, p) /\ Good(p)
  BY PutInodeLeads, FieldsAreQuiet, LeadsGood
<1> HIDE DEF p
<1>2. Leads(s, CopyChild(p)) /\ Good(CopyChild(p))
  BY <1>1, CopyChildLeads, LeadsTrans, LeadsGood
<1>3. Leads(s, LinkInto(CopyChild(p))) /\ Good(LinkInto(CopyChild(p)))
  BY <1>2, LinkIntoLeads, LeadsTrans, LeadsGood
<1>4. Leads(s, Validate(LinkInto(CopyChild(p))))
  BY <1>3, ValidateLeads, LeadsTrans
<1>5. Leads(s, s)
  BY DEF Leads, Moves, Keeps
<1> QED
  BY <1>4, <1>5 DEF Insert, p

LEMMA DiscardsLead ==
  ASSUME NEW s, Good(s)
  PROVE  Leads(s, DiscardOld(s)) /\ Leads(s, DiscardReplaced(s))
<1>1. Leads(s, s)
  BY DEF Leads, Moves, Keeps
<1>2. Leads(s, DiscardOld(s))
  BY <1>1, DiscardLeads DEF DiscardOld
<1>3. Leads(s, DiscardReplaced(s))
  BY <1>1, ObjectRemoveLeads DEF DiscardReplaced
<1> QED
  BY <1>2, <1>3

LEMMA JournalCommitLeads ==
  ASSUME NEW s, Good(s)
  PROVE  Leads(s, journal_commit(s))
<1>1. Leads(s, Insert(s)) /\ Good(Insert(s))
  BY InsertLeads, LeadsGood
<1>2. Leads(s, DiscardOld(Insert(s))) /\ Good(DiscardOld(Insert(s)))
  BY <1>1, DiscardsLead, LeadsTrans, LeadsGood
<1>3. Leads(s, DiscardReplaced(DiscardOld(Insert(s))))
  BY <1>2, DiscardsLead, LeadsTrans
<1> QED
  BY <1>3 DEF journal_commit

LEMMA PutStateLeads ==
  ASSUME NEW s, Good(s), NEW u, NEW state
  PROVE  Leads(s, Put(s, EntryState(u, state)))
<1>1. EntryState(u, state).op \in QuietOps \ InodeOps
  BY NotInodeOps DEF EntryState
<1> QED
  BY <1>1, OtherLeads

LEMMA WriteEntryLeads ==
  ASSUME NEW s, Good(s)
  PROVE  Leads(s, WriteEntry(s))
<1>1. CASE s.r.journal.state = "ready"
  <2>1. Leads(s, s)
    BY DEF Leads, Moves, Keeps
  <2> QED
    BY <1>1, <2>1 DEF WriteEntry
<1>2. CASE s.r.journal.state # "ready"
  <2> DEFINE u == [s EXCEPT !.r.journal.state = "ready"]
             w == [EntryState(u, "") EXCEPT !.op = "entry", !.v = [u.r.journal EXCEPT !.state = "writing"]]
  <2>1. SameCore(s, u)
    BY DEF SameCore, Good, Shape, RamShape
  <2>2. Leads(s, u) /\ Good(u)
    BY <2>1, SameLeads, LeadsGood
  <2> HIDE DEF u
  <2>3. w.op \in QuietOps \ InodeOps
    BY NotInodeOps DEF EntryState
  <2> HIDE DEF w
  <2>4. Leads(s, Put(u, w)) /\ Good(Put(u, w))
    BY <2>2, <2>3, OtherLeads, LeadsTrans, LeadsGood
  <2>5. Leads(s, Put(Put(u, w), EntryState(s, "ready")))
    BY <2>4, PutStateLeads, LeadsTrans
  <2>6. WriteEntry(s) = Put(Put(u, w), EntryState(s, "ready"))
    BY <1>2 DEF WriteEntry, PutEntry, u, w
  <2> QED
    BY <2>5, <2>6
<1> QED
  BY <1>1, <1>2

LEMMA FinishEntryLeads ==
  ASSUME NEW s, Good(s)
  PROVE  Leads(s, FinishEntry(s))
<1> DEFINE p == Put(s, EntryState(s, "done"))
<1>1. Leads(s, p) /\ Good(p)
  BY PutStateLeads, LeadsGood
<1> HIDE DEF p
<1>2. SameCore(p, [p EXCEPT !.r.journal_pos = @ + 1])
  BY <1>1 DEF SameCore, Good, Shape, RamShape
<1>3. Leads(s, [p EXCEPT !.r.journal_pos = @ + 1])
  BY <1>1, <1>2, SameLeads, LeadsTrans
<1> QED
  BY <1>3 DEF FinishEntry, p

LEMMA EndEntryLeads ==
  ASSUME NEW s, Good(s)
  PROVE  Leads(s, EndEntry(s))
<1>1. Leads(s, WriteEntry(s)) /\ Good(WriteEntry(s))
  BY WriteEntryLeads, LeadsGood
<1>2. Leads(s, journal_commit(WriteEntry(s))) /\ Good(journal_commit(WriteEntry(s)))
  BY <1>1, JournalCommitLeads, LeadsTrans, LeadsGood
<1>3. Leads(s, FinishEntry(journal_commit(WriteEntry(s))))
  BY <1>2, FinishEntryLeads, LeadsTrans
<1> QED
  BY <1>3 DEF EndEntry

LEMMA JournalMovedLeads ==
  ASSUME NEW s, Good(s)
  PROVE  Leads(s, JournalMoved(s))
<1>1. SameCore(s, s) /\ SameCore(s, [s EXCEPT !.r.journal_pos = 1, !.r.ijournal = s.r.journal.i])
  BY DEF SameCore, Good, Shape, RamShape
<1>2. SameCore(s, JournalMoved(s))
  BY <1>1 DEF JournalMoved
<1> QED
  BY <1>2, SameLeads

LEMMA JournalCreatedLeads ==
  ASSUME NEW s, Good(s)
  PROVE  Leads(s, JournalCreated(s))
<1>1. Leads(s, s)
  BY DEF Leads, Moves, Keeps
<1>2. Leads(s, EndEntry(s)) /\ Good(EndEntry(s))
  BY EndEntryLeads, LeadsGood
<1>3. Leads(s, JournalMoved(EndEntry(s)))
  BY <1>2, JournalMovedLeads, LeadsTrans
<1> QED
  BY <1>1, <1>3 DEF JournalCreated

LEMMA RelocateJournalLeads ==
  ASSUME NEW s, Good(s)
  PROVE  Leads(s, RelocateJournal(s))
<1> DEFINE b == journal_begin(s, s.r.ijournal)
           c == CreateJournal(b, -s.r.root)
<1>1. Leads(s, b) /\ Good(b)
  BY JournalBeginLeads, LeadsGood
<1> HIDE DEF b
<1>2. Leads(s, c) /\ Good(c)
  BY <1>1, CreateJournalLeads, LeadsTrans, LeadsGood
<1> HIDE DEF c
<1>3. Leads(s, JournalCreated(c))
  BY <1>2, JournalCreatedLeads, LeadsTrans
<1> QED
  BY <1>3 DEF RelocateJournal, b, c

LEMMA JournalEndLeads ==
  ASSUME NEW s, Good(s)
  PROVE  Leads(s, journal_end(s))
<1>1. Leads(s, EndEntry(s)) /\ Good(EndEntry(s))
  BY EndEntryLeads, LeadsGood
<1> DEFINE e == EndEntry(s)
<1>2. Leads(s, RelocateJournal(e)) /\ Good(RelocateJournal(e))
  BY <1>1, RelocateJournalLeads, LeadsTrans, LeadsGood
<1>3. Leads(s, JournalMoved(e)) /\ Leads(s, JournalMoved(RelocateJournal(e)))
  BY <1>1, <1>2, JournalMovedLeads, LeadsTrans
<1>4. Leads(s, RelocateWhenFull(e))
  BY <1>3 DEF RelocateWhenFull
<1> QED
  BY <1>4, JournalCommitLeads DEF journal_end

----------------------------------------------------------------------------
(* Data reclaim                                                            *)

\* The function by which RelocateAll() is defined exists: it is built up from 0.
LEMMA RelocateAllIs ==
  ASSUME NEW s, NEW b
  PROVE  \E d : /\ d[0] = Ret(s, 0)
                /\ \A i \in 1 .. InodesMax - 1 : d[i] = RelocateOne(d[i - 1], i, b, s.r.inodes)
                /\ RelocateAll(s, b) = d[InodesMax - 1]
<1> DEFINE N == InodesMax - 1
           First == Ret(s, 0)
           Next1(t, i) == RelocateOne(t, i, b, s.r.inodes)
           Is(d, n) == d = [i \in 0 .. n |-> IF i = 0 THEN First ELSE Next1(d[i - 1], i)]
           done == CHOOSE d : Is(d, N)
<1>1. RelocateAll(s, b) = done[N]
  BY DEF RelocateAll
<1>2. N \in Nat
  BY FfsAssumption
<1> HIDE DEF N, First, Next1
<1> DEFINE S == {n \in 0 .. N : \E d : Is(d, n)}
<1>3. 0 \in S
  <2>1. Is([i \in 0 .. 0 |-> First], 0)
    OBVIOUS
  <2> HIDE DEF Is
  <2> QED
    BY <1>2, <2>1
<1>4. ASSUME NEW n \in 1 .. N, n - 1 \in S
      PROVE  n \in S
  <2>1. PICK g : Is(g, n - 1)
    BY <1>4
  <2> DEFINE h == [i \in 0 .. n |-> IF i = n THEN Next1(g[n - 1], n) ELSE g[i]]
  <2>2. Is(h, n)
    <3>1. ASSUME NEW i \in 0 .. n
          PROVE  h[i] = IF i = 0 THEN First ELSE Next1(h[i - 1], i)
      <4>1. CASE i = n
        <5>1. n # 0 /\ n - 1 \in 0 .. n /\ n - 1 # n
          BY <1>2
        <5> QED
          BY <4>1, <5>1
      <4>2. CASE i # n
        <5>1. i \in 0 .. n - 1 /\ (i # 0 => i - 1 \in 0 .. n /\ i - 1 # n)
          BY <1>2, <4>2
        <5>2. g[i] = IF i = 0 THEN First ELSE Next1(g[i - 1], i)
          BY <2>1, <5>1
        <5> QED
          BY <4>2, <5>1, <5>2
      <4> QED
        BY <4>1, <4>2
    <3> QED
      BY <3>1
  <2> HIDE DEF Is, h
  <2> QED
    BY <1>2, <2>2
<1>5. N \in S
  <2> HIDE DEF S
  <2>1. 0 .. N \subseteq S
    BY <1>2, <1>3, <1>4, Counting
  <2> QED
    BY <1>2, <2>1
<1>6. Is(done, N)
  BY <1>5
<1> HIDE DEF done
<1>7. done[0] = First /\ \A i \in 1 .. N : done[i] = Next1(done[i - 1], i)
  BY <1>2, <1>6
<1> QED
  BY <1>1, <1>7 DEF N, First, Next1

LEMMA EndRelocateLeads ==
  ASSUME NEW s, Good(s), NEW isRoot
  PROVE  Leads(s, EndRelocate(s, isRoot))
<1> DEFINE u == [s EXCEPT !.r.root = s.v]
           w == [op |-> "root", v |-> s.v]
           m == IF isRoot THEN Put(u, w) ELSE s
<1>1. SameCore(s, u)
  BY DEF SameCore, Good, Shape, RamShape
<1>2. Leads(s, u) /\ Good(u)
  BY <1>1, SameLeads, LeadsGood
<1> HIDE DEF u
<1>3. w.op \in QuietOps \ InodeOps
  BY NotInodeOps
<1> HIDE DEF w
<1>4. Leads(s, s)
  BY DEF Leads, Moves, Keeps
<1>8. Leads(s, Put(u, w))
  BY <1>2, <1>3, OtherLeads, LeadsTrans
<1>5. Leads(s, m) /\ Good(m)
  BY <1>4, <1>8, LeadsGood
<1>6. EndRelocate(s, isRoot) = IF s.v = -1 THEN s ELSE Ret(journal_end(m), s.v)
  BY DEF EndRelocate, m, u, w
<1> HIDE DEF m
<1>7. Leads(s, Ret(journal_end(m), s.v))
  BY <1>5, JournalEndLeads, RetLeads, LeadsTrans, LeadsGood
<1> QED
  BY <1>4, <1>6, <1>7

LEMMA ObjectRelocateLeads ==
  ASSUME NEW s, Good(s), NEW oldi
  PROVE  Leads(s, object_relocate(s, oldi))
<1> DEFINE j == journal_begin(s, oldi)
<1>1. Leads(s, j) /\ Good(j)
  BY JournalBeginLeads, LeadsGood
<1> HIDE DEF j
<1>2. \A object, dir : Leads(s, CreateInReclaim(j, object, dir)) /\ Good(CreateInReclaim(j, object, dir))
  BY <1>1, CreateInReclaimLeads, LeadsTrans, LeadsGood
<1>3. \A object, dir, isRoot : Leads(s, EndRelocate(CreateInReclaim(j, object, dir), isRoot))
  BY <1>2, EndRelocateLeads, LeadsTrans
<1> QED
  BY <1>3 DEF object_relocate, j

LEMMA RelocateOneLeads ==
  ASSUME NEW s, Good(s), NEW i, NEW b, NEW table
  PROVE  Leads(s, RelocateOne(s, i, b, table))
<1> DEFINE m == object_relocate(s, i)
<1>1. Leads(s, s)
  BY DEF Leads, Moves, Keeps
<1>2. Leads(s, m) /\ Good(m)
  BY ObjectRelocateLeads, LeadsGood
<1> HIDE DEF m
<1>3. SameCore(m, Renumber(m, i, m.v))
  <2>1. ASSUME NEW moved, NEW backup
        PROVE  SameCore(m, [m EXCEPT !.r.ojournal = moved, !.r.i_backup = backup])
    BY <1>2 DEF SameCore, Good, Shape, RamShape
  <2>2. PICK moved, backup :
          Renumber(m, i, m.v) = [m EXCEPT !.r.ojournal = moved, !.r.i_backup = backup]
    BY DEF Renumber
  <2>3. SameCore(m, [m EXCEPT !.r.ojournal = moved, !.r.i_backup = backup])
    BY <2>1
  <2> QED
    BY <2>2, <2>3, Zenon
<1>4. Leads(s, Renumber(m, i, m.v)) /\ Good(Renumber(m, i, m.v))
  BY <1>2, <1>3, SameLeads, LeadsTrans, LeadsGood
<1>5. Leads(s, Relocated(m, i, s.v))
  BY <1>2, <1>4, RetLeads, LeadsTrans DEF Relocated
<1> QED
  BY <1>1, <1>5 DEF RelocateOne, m

LEMMA RelocateAllLeads ==
  ASSUME NEW s, Good(s), NEW b
  PROVE  Leads(s, RelocateAll(s, b))
<1> DEFINE N == InodesMax - 1
           First == Ret(s, 0)
<1>1. PICK d : /\ d[0] = First
               /\ \A i \in 1 .. N : d[i] = RelocateOne(d[i - 1], i, b, s.r.inodes)
               /\ RelocateAll(s, b) = d[N]
  BY RelocateAllIs
<1>2. N \in Nat
  BY FfsAssumption
<1>3. Leads(s, First)
  BY RetLeads
<1> HIDE DEF N, First
<1> DEFINE S == {n \in 0 .. N : Leads(s, d[n])}
<1>4. 0 \in S
  BY <1>1, <1>2, <1>3
<1>5. ASSUME NEW n \in 1 .. N, n - 1 \in S
      PROVE  n \in S
  <2>1. Leads(s, d[n - 1]) /\ Good(d[n - 1])
    BY <1>5, LeadsGood
  <2>2. Leads(s, d[n])
    BY <1>1, <2>1, RelocateOneLeads, LeadsTrans
  <2> QED
    BY <1>2, <2>2
<1>6. N \in S
  <2> HIDE DEF S
  <2>1. 0 .. N \subseteq S
    BY <1>2, <1>4, <1>5, Counting
  <2> QED
    BY <1>2, <2>1
<1> QED
  BY <1>1, <1>6

LEMMA EmptyBlockLeads ==
  ASSUME NEW s, Good(s), NEW b
  PROVE  Leads(s, EmptyBlock(s, b))
<1> DEFINE u == Relocating(s, b)
           m == RelocateAll(u, b)
           t == [m EXCEPT !.r.journal = m.r.ojournal,
                          !.r.block_files_reserved = s.r.block_files_reserved,
                          !.r.reserved_space = s.r.reserved_space,
                          !.r.used[b] = IF m.v = -1 THEN s.r.used[b] ELSE @]
<1>1. SameCore(s, u)
  BY DEF Relocating, SameCore, Good, Shape, RamShape
<1>2. Leads(s, u) /\ Good(u)
  BY <1>1, SameLeads, LeadsGood
<1> HIDE DEF u
<1>3. Leads(s, m) /\ Good(m)
  BY <1>2, RelocateAllLeads, LeadsTrans, LeadsGood
<1>4. Restored(m, s, b) = Ret(t, IF s.v = 0 /\ m.v = 0 THEN -1 ELSE m.v)
  BY DEF Restored
<1> HIDE DEF m
<1>5. SameCore(m, t)
  BY <1>3 DEF SameCore, Good, Shape, RamShape
<1> HIDE DEF t
<1>6. Leads(s, t) /\ Good(t)
  BY <1>3, <1>5, SameLeads, LeadsTrans, LeadsGood
<1>7. Leads(s, Restored(m, s, b))
  BY <1>4, <1>6, RetLeads, LeadsTrans
<1> QED
  BY <1>7, RetLeads DEF EmptyBlock, m, u

LEMMA CleanEmptiedMoves ==
  ASSUME NEW s, Good(s), NEW b \in Blocks, "DATA" \in s.r.flags[b]
  PROVE  Moves(s, CleanEmptied(s, b))
<1> DEFINE t == block_flags_write(s, b, "CLEANING")
           w == [op |-> "clean", b |-> s.r.inodes, v |-> b]
           c == Put(t, w)
<1>1. b # s.r.inodes /\ s.f[b].magic \notin {"blank", "bad"}
  <2>1. "DATA" \in s.f[b].flags
    BY GoodFacts
  <2>2. s.f[s.r.inodes].flags = IsInodes
    BY GoodFacts
  <2>3. s.f[b].magic = "bad" => s.f[b].flags \subseteq {"LOST"}
    BY GoodFacts
  <2>4. s.f[b].magic = "blank" => s.f[b].flags = {}
    BY GoodFacts
  <2> QED
    BY <2>1, <2>2, <2>3, <2>4, States
<1>2. s.r.flags[b] \cup {"CLEANING"} \notin {IsInodes, IsCopying}
  BY States
<1>3. /\ MovesBut(s, t, b) /\ t.r.flags[b] = s.r.flags[b] \cup {"CLEANING"}
      /\ t.r.inodes = s.r.inodes
  BY <1>1, <1>2, FlagMoves
<1>4. Moves(s, t) /\ Good(t) /\ "DATA" \in t.r.flags[b]
  BY <1>3 DEF MovesBut, Moves
<1> HIDE DEF t
<1>5. w.op \in QuietOps \ {"table"} /\ w.b = t.r.inodes
  BY <1>3 DEF QuietOps
<1> HIDE DEF w
<1>6. Leads(t, c) /\ Good(c) /\ Moves(t, c)
  BY <1>4, <1>5, QuietLeads, LeadsGood
<1> HIDE DEF c
<1>7. "DATA" \in c.r.flags[b]
  BY <1>4, <1>6 DEF Leads, Keeps
<1>8. b # c.r.inodes /\ c.f[b].magic # "blank"
  <2>1. "DATA" \in c.f[b].flags /\ c.f[c.r.inodes].flags = IsInodes
    BY <1>6, <1>7, GoodFacts
  <2>2. c.f[b].magic = "blank" => c.f[b].flags = {}
    BY <1>6, GoodFacts
  <2> QED
    BY <2>1, <2>2, States
<1> DEFINE e == block_free(c, b)
<1>9. MovesBut(c, e, b)
  BY <1>6, <1>8, BlockFreed
<1> HIDE DEF e
<1>10. Moves(s, e) /\ Good(e)
  BY <1>4, <1>6, <1>9, MovesTrans DEF MovesBut, Moves
<1>11. Moves(s, Ret(e, s.v))
  BY <1>10, RetLeads, LeadsGood, MovesTrans
<1>12. Moves(s, s)
  BY DEF Moves
<1> QED
  BY <1>11, <1>12 DEF CleanEmptied, e, c, w, t

\* Of the block that is reclaimed only this is needed: it is a data block.
LEMMA DataBlockReclaimMoves ==
  ASSUME NEW s, Good(s), NEW b, b = 0 \/ (b \in Blocks /\ "DATA" \in s.r.flags[b])
  PROVE  Moves(s, data_block_reclaim(s, b))
<1>1. CASE b = 0
  <2>1. SameCore(s, [s EXCEPT !.r.undefined = TRUE])
    BY DEF SameCore, Good, Shape, RamShape
  <2>2. Moves(s, Undefined(s))
    BY <2>1, SameLeads, RetLeads, LeadsGood, MovesTrans DEF Undefined
  <2> QED
    BY <1>1, <2>2 DEF data_block_reclaim
<1>2. CASE b # 0
  <2>1. b \in Blocks /\ "DATA" \in s.r.flags[b]
    BY <1>2
  <2>2. Leads(s, s)
    BY DEF Leads, Moves, Keeps
  <2>3. ASSUME NEW i, Leads(s, i)
        PROVE  Moves(s, CleanEmptied(EmptyBlock(block_alloc(i, 1, "DATA"), b), b))
    <3> DEFINE a == block_alloc(i, 1, "DATA")
               e == EmptyBlock(a, b)
    <3>1. Leads(s, a) /\ Good(a)
      BY <2>3, AllocDataLeads, LeadsTrans, LeadsGood
    <3> HIDE DEF a
    <3>2. Leads(s, e) /\ Good(e)
      BY <3>1, EmptyBlockLeads, LeadsTrans, LeadsGood
    <3> HIDE DEF e
    <3>3. "DATA" \in e.r.flags[b]
      BY <2>1, <3>2 DEF Leads, Keeps
    <3>4. Moves(s, CleanEmptied(e, b))
      BY <2>1, <3>2, <3>3, CleanEmptiedMoves, LeadsGood, MovesTrans
    <3> QED
      BY <3>4 DEF e, a
  <2>4. Moves(s, CleanEmptied(EmptyBlock(block_alloc(s, 1, "DATA"), b), b))
    BY <2>2, <2>3
  <2>5. Moves(s, CleanEmptied(EmptyBlock(block_alloc(inodes_reclaim(s), 1, "DATA"), b), b))
    BY <2>3, InodesReclaimLeads
  <2> QED
    BY <1>2, <2>4, <2>5 DEF data_block_reclaim
<1> QED
  BY <1>1, <1>2

LEMMA MostIsIn ==
  ASSUME NEW score, NEW data \in SUBSET Blocks
  PROVE  Most(score, data) \in data \cup {0}
<1> DEFINE m == {b \in data : score[b] > 0 /\ \A c \in data : score[c] <= score[b]}
<1>1. m \in SUBSET Nat /\ m \subseteq data
  <2>1. m \subseteq data /\ data \subseteq Blocks
    OBVIOUS
  <2>2. Blocks \subseteq Nat
    BY FfsAssumption DEF Blocks
  <2> HIDE DEF m
  <2> QED
    BY <2>1, <2>2
<1>2. Most(score, data) = IF m = {} THEN 0 ELSE Min(m)
  BY DEF Most
<1> HIDE DEF m
<1>3. m # {} => Min(m) \in m
  BY <1>1, LeastIsMin
<1> QED
  BY <1>1, <1>2, <1>3

\* The block that is chosen is a data block, if there is one to choose.
LEMMA ChoiceIsData ==
  ASSUME NEW s, Good(s), NEW unused
  PROVE  Choice(s, unused) \in DataBlocks(s) \cup {0}
<1> DEFINE data == DataBlocks(s)
           Y == {b \in data : \A c \in data : s.f[b].age <= s.f[c].age}
<1>1. data \in SUBSET Blocks
  BY DEF DataBlocks
<1>2. Most(s.r.lost, data) \in data \cup {0} /\ Most(unused, data) \in data \cup {0}
  BY <1>1, MostIsIn
<1>3. ASSUME NEW b \in data
      PROVE  Max(Y) \in data
  <2>1. Y # {}
    BY <1>1, YoungestIsFree
  <2>2. Y \in SUBSET (0 .. NumBlocks) /\ NumBlocks \in Nat /\ Y \subseteq data
    BY <1>1, FfsAssumption DEF Blocks
  <2> HIDE DEF Y
  <2>3. Max(Y) \in Y
    BY <2>1, <2>2, GreatestIsMax
  <2> QED
    BY <2>2, <2>3
<1>4. CASE \A b \in data : FreeSlots(s, b) < ReservedLow
  BY <1>2, <1>4 DEF Choice
<1>5. CASE ~(\A b \in data : FreeSlots(s, b) < ReservedLow)
  <2>1. Max(Y) \in data
    BY <1>3, <1>5
  <2>2. Choice(s, unused) \in {Max(Y), Most(s.r.lost, data), Most(unused, data)}
    BY DEF Choice
  <2> QED
    BY <1>2, <2>1, <2>2
<1> QED
  BY <1>4, <1>5

LEMMA DataReclaimMoves ==
  ASSUME NEW s, Good(s)
  PROVE  Moves(s, data_reclaim(s))
<1>1. \A unused : Moves(s, data_block_reclaim(s, Choice(s, unused)))
  <2> SUFFICES ASSUME NEW unused
               PROVE  Moves(s, data_block_reclaim(s, Choice(s, unused)))
    OBVIOUS
  <2>1. \A b \in DataBlocks(s) : b \in Blocks /\ "DATA" \in s.r.flags[b]
    BY States DEF DataBlocks, is_block
  <2> QED
    BY <2>1, ChoiceIsData, DataBlockReclaimMoves
<1> QED
  BY <1>1, RetLeads, LeadsGood DEF data_reclaim

LEMMA AllocOrReclaimIs ==
  ASSUME NEW s, NEW tries \in Nat
  PROVE  \E d : /\ d[0] = [more |-> TRUE, s |-> Ret(s, NoLoc)]
                /\ \A i \in 1 .. tries : d[i] = Round(d[i - 1])
                /\ AllocOrReclaim(s, tries) = d[tries].s
<1> DEFINE N == tries
           First == [more |-> TRUE, s |-> Ret(s, NoLoc)]
           Next1(t, i) == Round(t)
           Is(d, n) == d = [i \in 0 .. n |-> IF i = 0 THEN First ELSE Next1(d[i - 1], i)]
           done == CHOOSE d : Is(d, N)
<1>1. AllocOrReclaim(s, tries) = done[N].s
  BY DEF AllocOrReclaim
<1>2. N \in Nat
  BY FfsAssumption
<1> HIDE DEF N, First, Next1
<1> DEFINE S == {n \in 0 .. N : \E d : Is(d, n)}
<1>3. 0 \in S
  <2>1. Is([i \in 0 .. 0 |-> First], 0)
    OBVIOUS
  <2> HIDE DEF Is
  <2> QED
    BY <1>2, <2>1
<1>4. ASSUME NEW n \in 1 .. N, n - 1 \in S
      PROVE  n \in S
  <2>1. PICK g : Is(g, n - 1)
    BY <1>4
  <2> DEFINE h == [i \in 0 .. n |-> IF i = n THEN Next1(g[n - 1], n) ELSE g[i]]
  <2>2. Is(h, n)
    <3>1. ASSUME NEW i \in 0 .. n
          PROVE  h[i] = IF i = 0 THEN First ELSE Next1(h[i - 1], i)
      <4>1. CASE i = n
        <5>1. n # 0 /\ n - 1 \in 0 .. n /\ n - 1 # n
          BY <1>2
        <5> QED
          BY <4>1, <5>1
      <4>2. CASE i # n
        <5>1. i \in 0 .. n - 1 /\ (i # 0 => i - 1 \in 0 .. n /\ i - 1 # n)
          BY <1>2, <4>2
        <5>2. g[i] = IF i = 0 THEN First ELSE Next1(g[i - 1], i)
          BY <2>1, <5>1
        <5> QED
          BY <4>2, <5>1, <5>2
      <4> QED
        BY <4>1, <4>2
    <3> QED
      BY <3>1
  <2> HIDE DEF Is, h
  <2> QED
    BY <1>2, <2>2
<1>5. N \in S
  <2> HIDE DEF S
  <2>1. 0 .. N \subseteq S
    BY <1>2, <1>3, <1>4, Counting
  <2> QED
    BY <1>2, <2>1
<1>6. Is(done, N)
  BY <1>5
<1> HIDE DEF done
<1>7. done[0] = First /\ \A i \in 1 .. N : done[i] = Next1(done[i - 1], i)
  BY <1>2, <1>6
<1> QED
  BY <1>1, <1>7 DEF N, First, Next1

\* A round of the search keeps what a function keeps.
LEMMA RoundMoves ==
  ASSUME NEW x, Good(x.s)
  PROVE  Moves(x.s, Round(x).s)
<1> DEFINE t == data_alloc_try(x.s)
           d == data_reclaim(t)
<1>1. Moves(x.s, x.s)
  BY DEF Moves
<1>2. Moves(x.s, t) /\ Good(t)
  BY AllocTryLeads, LeadsGood
<1> HIDE DEF t
<1>3. Moves(t, d) /\ Good(d)
  BY <1>2, DataReclaimMoves DEF Moves
<1> HIDE DEF d
<1>4. Moves(x.s, Ret(d, NoLoc))
  BY <1>2, <1>3, RetLeads, LeadsGood, MovesTrans
<1>5. Round(x).s \in {x.s, t, Ret(d, NoLoc)}
  BY DEF Round, Tried, TryAgain, t, d
<1> QED
  BY <1>1, <1>2, <1>4, <1>5

LEMMA AllocOrReclaimMoves ==
  ASSUME NEW s, Good(s), NEW tries \in Nat
  PROVE  Moves(s, AllocOrReclaim(s, tries))
<1> DEFINE First == Ret(s, NoLoc)
<1>1. PICK d : /\ d[0] = [more |-> TRUE, s |-> First]
               /\ \A i \in 1 .. tries : d[i] = Round(d[i - 1])
               /\ AllocOrReclaim(s, tries) = d[tries].s
  BY AllocOrReclaimIs
<1>2. Moves(s, First)
  BY RetLeads, LeadsGood
<1> HIDE DEF First
<1> DEFINE S == {n \in 0 .. tries : Moves(s, d[n].s)}
<1>3. 0 \in S
  BY <1>1, <1>2
<1>4. ASSUME NEW n \in 1 .. tries, n - 1 \in S
      PROVE  n \in S
  <2>1. Moves(s, d[n - 1].s) /\ Good(d[n - 1].s)
    BY <1>4 DEF Moves
  <2>2. Moves(s, d[n].s)
    BY <1>1, <2>1, RoundMoves, MovesTrans
  <2> QED
    BY <2>2
<1>5. tries \in S
  <2> HIDE DEF S
  <2>1. 0 .. tries \subseteq S
    BY <1>3, <1>4, Counting
  <2> QED
    BY <2>1
<1> QED
  BY <1>1, <1>5

LEMMA DataPreallocMoves ==
  ASSUME NEW s, Good(s)
  PROVE  Moves(s, data_prealloc(s))
<1>1. NumBlocks \in Nat
  BY FfsAssumption
<1> QED
  BY <1>1, AllocOrReclaimMoves, RetLeads, LeadsGood DEF data_prealloc

LEMMA ObjectCreateMoves ==
  ASSUME NEW s, Good(s), NEW object, NEW dir
  PROVE  Moves(s, object_create(s, object, dir))
<1> DEFINE d == WithDir(s, dir)
           a == data_prealloc(d)
<1>1. Moves(s, d) /\ Good(d)
  BY WithDirLeads, LeadsGood
<1> HIDE DEF d
<1>2. Moves(s, Ret(d, -1))
  BY <1>1, RetLeads, LeadsGood, MovesTrans
<1>3. Moves(s, a) /\ Good(a)
  BY <1>1, DataPreallocMoves, MovesTrans DEF Moves
<1> HIDE DEF a
<1>4. Moves(s, Created(a, object))
  BY <1>3, CreatedLeads, LeadsGood, MovesTrans
<1> QED
  BY <1>2, <1>4 DEF object_create, a, d

----------------------------------------------------------------------------
(* Requests                                                                *)

LEMMA FailMoves ==
  ASSUME NEW s, NEW t, Moves(s, t)
  PROVE  Moves(s, Fail(t))
BY RetLeads, LeadsGood, MovesTrans DEF Fail, Moves

LEMMA CompleteMoves ==
  ASSUME NEW s, Good(s)
  PROVE  Moves(s, Complete(s))
<1>1. Moves(s, journal_end(s)) /\ Good(journal_end(s))
  BY JournalEndLeads, LeadsGood
<1>2. Moves(s, Ret(journal_end(s), 0))
  BY <1>1, RetLeads, LeadsGood, MovesTrans
<1>3. Moves(s, s)
  BY DEF Moves
<1> QED
  BY <1>2, <1>3 DEF Complete

LEMMA EndWriteMoves ==
  ASSUME NEW s, Good(s), NEW i
  PROVE  Moves(s, EndWrite(s, i))
<1> DEFINE t == [s EXCEPT !.r.journal.flags = "file"]
           u == [s EXCEPT !.r.link_child = FALSE]
<1>1. SameCore(s, t) /\ SameCore(s, u)
  BY DEF SameCore, Good, Shape, RamShape
<1>2. EndWrite(s, i) = IF s.v = -1 THEN s ELSE Complete(IF i = 0 THEN t ELSE u)
  BY DEF EndWrite
<1> HIDE DEF t, u
<1>3. Moves(s, t) /\ Moves(s, u) /\ Good(t) /\ Good(u)
  BY <1>1, SameLeads, LeadsGood
<1>4. Moves(s, Complete(t)) /\ Moves(s, Complete(u)) /\ Moves(s, s)
  BY <1>3, CompleteMoves, MovesTrans DEF Moves
<1> QED
  BY <1>2, <1>4

LEMMA FileWriteMoves ==
  ASSUME NEW s, Good(s), NEW name, NEW val
  PROVE  Moves(s, file_write(s, name, val))
<1> DEFINE i == object_lookup(s, name)
           begun == IF i = 0 THEN journal_begin(s, 0)
                    ELSE [journal_begin(s, i) EXCEPT !.r.i_backup = 0]
           c == object_create(begun, [name |-> name, val |-> val], -s.r.root)
<1>1. ASSUME NEW k
      PROVE  Moves(s, journal_begin(s, k)) /\ Moves(s, [journal_begin(s, k) EXCEPT !.r.i_backup = 0])
  <2> DEFINE b == journal_begin(s, k)
             t == [b EXCEPT !.r.i_backup = 0]
  <2>1. Moves(s, b) /\ Good(b)
    BY JournalBeginLeads, LeadsGood
  <2> HIDE DEF b
  <2>2. SameCore(b, t)
    BY <2>1 DEF SameCore, Good, Shape, RamShape
  <2> HIDE DEF t
  <2>3. Moves(s, t)
    BY <2>1, <2>2, SameLeads, LeadsGood, MovesTrans
  <2> QED
    BY <2>1, <2>3 DEF b, t
<1>2. file_write(s, name, val) = IF BytesFree(s) < 1 \/ (i # 0 /\ is_readonly(s, i)) THEN Fail(s)
                                 ELSE EndWrite(c, i)
  BY DEF file_write
<1>3. Moves(s, begun) /\ Good(begun)
  BY <1>1 DEF Moves
<1> HIDE DEF i, begun
<1>4. Moves(s, c) /\ Good(c)
  BY <1>3, ObjectCreateMoves, MovesTrans DEF Moves
<1> HIDE DEF c
<1>5. Moves(s, EndWrite(c, i)) /\ Moves(s, s)
  BY <1>4, EndWriteMoves, MovesTrans DEF Moves
<1> QED
  BY <1>2, <1>5, FailMoves

LEMMA FileRemoveMoves ==
  ASSUME NEW s, Good(s), NEW name
  PROVE  Moves(s, file_remove(s, name))
<1>1. Moves(s, s)
  BY DEF Moves
<1>2. \A i : Moves(s, Ret(object_remove(s, i), 0))
  BY ObjectRemoveLeads, RetLeads, LeadsGood, MovesTrans
<1> QED
  BY <1>1, <1>2, FailMoves DEF file_remove

LEMMA CreateRenamedMoves ==
  ASSUME NEW s, Good(s), NEW new
  PROVE  Moves(s, CreateRenamed(s, new))
<1>1. Moves(s, s)
  BY DEF Moves
<1>2. ASSUME NEW object, NEW dir
      PROVE  Moves(s, Complete(object_create(s, object, dir)))
  <2>1. Moves(s, object_create(s, object, dir)) /\ Good(object_create(s, object, dir))
    BY ObjectCreateMoves DEF Moves
  <2> QED
    BY <2>1, CompleteMoves, MovesTrans
<1> QED
  BY <1>1, <1>2, FailMoves DEF CreateRenamed

LEMMA ObjectRenameMoves ==
  ASSUME NEW s, Good(s), NEW new, NEW dir
  PROVE  Moves(s, object_rename(s, new, dir))
<1> DEFINE t == [s EXCEPT !.r.i_backup = dir]
           p == data_prealloc(t)
<1>1. SameCore(s, t)
  BY DEF SameCore, Good, Shape, RamShape
<1> HIDE DEF t
<1>2. Moves(s, t) /\ Good(t)
  BY <1>1, SameLeads, LeadsGood
<1>3. Moves(s, p) /\ Good(p)
  BY <1>2, DataPreallocMoves, MovesTrans DEF Moves
<1> HIDE DEF p
<1>4. Moves(s, CreateRenamed(p, new))
  BY <1>3, CreateRenamedMoves, MovesTrans
<1> QED
  BY <1>4 DEF object_rename, p, t

LEMMA FileRenameMoves ==
  ASSUME NEW s, Good(s), NEW name, NEW new
  PROVE  Moves(s, file_rename(s, name, new))
<1> DEFINE b == journal_begin(s, object_lookup(s, name))
           t == [b EXCEPT !.r.journal.repli = object_lookup(s, new)]
<1>1. Moves(s, b) /\ Good(b)
  BY JournalBeginLeads, LeadsGood
<1> HIDE DEF b
<1>2. SameCore(b, t)
  BY <1>1 DEF SameCore, Good, Shape, RamShape
<1> HIDE DEF t
<1>3. Moves(s, t) /\ Good(t)
  BY <1>1, <1>2, SameLeads, LeadsGood, MovesTrans
<1>4. Moves(s, object_rename(t, new, -s.r.root))
  BY <1>3, ObjectRenameMoves, MovesTrans
<1>5. Moves(s, Fail(s)) /\ Moves(s, Fail(b))
  BY <1>1, FailMoves DEF Moves
<1> QED
  BY <1>4, <1>5 DEF file_rename, t, b

LEMMA FileFcontrolMoves ==
  ASSUME NEW s, Good(s), NEW name
  PROVE  Moves(s, file_fcontrol(s, name))
<1> DEFINE b == journal_begin(s, object_lookup(s, name))
           t == [b EXCEPT !.r.journal.flags = "readonly"]
           a == inode_alloc(t)
           j == [a EXCEPT !.r.journal.i = a.v]
           k == [j EXCEPT !.r.journal.diri = dir_traverse(j, @)]
<1>1. Moves(s, b) /\ Good(b)
  BY JournalBeginLeads, LeadsGood
<1> HIDE DEF b
<1>2. SameCore(b, t)
  BY <1>1 DEF SameCore, Good, Shape, RamShape
<1> HIDE DEF t
<1>3. Moves(s, a) /\ Good(a)
  BY <1>1, <1>2, SameLeads, InodeAllocLeads, LeadsGood, MovesTrans
<1> HIDE DEF a
<1>4. SameCore(a, j)
  BY <1>3 DEF SameCore, Good, Shape, RamShape
<1> HIDE DEF j
<1>5. Moves(s, j) /\ Good(j)
  BY <1>3, <1>4, SameLeads, LeadsGood, MovesTrans
<1>6. SameCore(j, k)
  BY <1>5 DEF SameCore, Good, Shape, RamShape
<1> HIDE DEF k
<1>7. Moves(s, k) /\ Good(k)
  BY <1>5, <1>6, SameLeads, LeadsGood, MovesTrans
<1>8. Moves(s, Ret(journal_end(k), 0))
  BY <1>7, JournalEndLeads, RetLeads, LeadsGood, MovesTrans
<1>9. EndFcontrol(a) = IF a.v = 0 THEN Fail(j) ELSE Ret(journal_end(k), 0)
  BY DEF EndFcontrol, j, k
<1>10. Moves(s, EndFcontrol(a)) /\ Moves(s, Fail(s))
  BY <1>5, <1>8, <1>9, FailMoves DEF Moves
<1> QED
  BY <1>10 DEF file_fcontrol, a, t, b

LEMMA DoMoves ==
  ASSUME NEW s, Good(s), NEW q \in Requests
  PROVE  Moves(s, Do(s, q))
<1>1. Moves(s, Fail(s))
  BY FailMoves DEF Moves
<1>2. q.op \in {"write", "remove", "rename", "fcontrol"}
  BY DEF Requests, Request
<1> QED
  BY <1>1, <1>2, FileWriteMoves, FileRemoveMoves, FileRenameMoves, FileFcontrolMoves DEF Do

----------------------------------------------------------------------------
(* Power-up: the headers of the blocks are read                            *)

TableStates == {IsInodes, IsCopying, IsInodesLost}
SameTables(f, g) == \A state \in TableStates : InFlash(g, state) = InFlash(f, state)

\* The blocks up to k are known.
Known(s, t, k) ==
  /\ Shape(t) /\ Safe(t.f, t.r.inodes) /\ Follows(s, t) /\ SameTables(s.f, t.f)
  /\ t.r.initerror
  /\ \A c \in 1 .. k : t.r.flags[c] = t.f[c].flags

\* The error of the power-up protects blocks from being erased: they are only marked.
LEMMA MarkedLost ==
  ASSUME NEW s, s.r.initerror, Shape(s), Safe(s.f, s.r.inodes), NEW b \in Blocks
  PROVE  Flagged(s, block_free(s, b), b, "LOST")
<1>1. Flagged(s, block_flags_write(s, b, "LOST"), b, "LOST")
  BY FlagWritten
<1>2. block_flags_write(s, b, "LOST").r.initerror
  BY <1>1 DEF Flagged, SameRam
<1> QED
  BY <1>1, <1>2 DEF block_free, block_reclaim

LEMMA ScanKnown ==
  ASSUME NEW s, NEW t, NEW b \in Blocks, Known(s, t, b - 1)
  PROVE  Known(s, Scan(t, b), b)
<1> DEFINE used == IF t.f[b].magic = "bad" THEN Slots ELSE block_used(t.f[b])
           u == [t EXCEPT !.r.flags[b] = t.f[b].flags, !.r.used[b] = used, !.r.lost[b] = used,
                          !.r.objects[b] = 0]
           states == {IsFree, IsData, IsCleaning, IsCopying, IsInodes, IsInodesLost}
<1>0. /\ Shape(t) /\ Safe(t.f, t.r.inodes) /\ Follows(s, t) /\ SameTables(s.f, t.f)
      /\ t.r.initerror
      /\ \A c \in 1 .. b - 1 : t.r.flags[c] = t.f[c].flags
      /\ b \in Nat \ {0} /\ \A c \in 1 .. b : c \in Blocks /\ (c # b => c \in 1 .. b - 1)
  BY FfsAssumption DEF Known, Blocks
<1> HIDE DEF used
<1>1. /\ Shape(u) /\ u.f = t.f /\ u.w = t.w /\ u.r.inodes = t.r.inodes /\ u.r.initerror
      /\ u.r.flags = [t.r.flags EXCEPT ![b] = t.f[b].flags]
  BY <1>0 DEF Shape, RamShape
<1>2. Scan(t, b) = IF t.f[b].magic = "blank" \/ t.f[b].flags \in states THEN u ELSE block_free(u, b)
  BY DEF Scan, used
<1> HIDE DEF u
<1>3. \A c \in Blocks : u.r.flags[c] = IF c = b THEN t.f[b].flags ELSE t.r.flags[c]
  BY <1>0, <1>1 DEF Shape, RamShape
<1>4. Safe(u.f, u.r.inodes) /\ Follows(s, u)
  BY <1>0, <1>1 DEF Follows, Traced
<1>5. CASE t.f[b].magic = "blank" \/ t.f[b].flags \in states
  <2>1. \A c \in 1 .. b : u.r.flags[c] = u.f[c].flags
    BY <1>0, <1>1, <1>3
  <2>2. SameTables(s.f, u.f)
    BY <1>0, <1>1
  <2>3. Known(s, u, b)
    BY <1>1, <1>4, <2>1, <2>2 DEF Known
  <2> QED
    BY <1>2, <1>5, <2>3
<1>6. CASE ~(t.f[b].magic = "blank" \/ t.f[b].flags \in states)
  <2> DEFINE v == block_free(u, b)
  <2>1. Flagged(u, v, b, "LOST")
    BY <1>1, <1>4, MarkedLost
  <2> HIDE DEF v
  <2>2. /\ Shape(v) /\ v.r.inodes = u.r.inodes /\ v.r.initerror
        /\ BlockIs(u.f, v.f, b, u.f[b].magic, u.f[b].age, u.f[b].flags \cup {"LOST"})
        /\ v.r.flags = [u.r.flags EXCEPT ![b] = @ \cup {"LOST"}]
        /\ Safe(v.f, v.r.inodes) => Follows(u, v)
    BY <1>1, <2>1 DEF Flagged, SameRam
  <2>3. /\ u.f[b].magic \in Magics /\ u.f[b].age \in Nat /\ u.f[b].magic # "blank"
        /\ u.f[b].magic = "bad" => u.f[b].flags \subseteq {"LOST"}
        /\ u.f[b].flags \notin states
    BY <1>1, <1>4, <1>6 DEF Safe, HeadersRead
  <2>4. u.f[b].flags \cup {"LOST"} \notin TableStates
    <3>1. u.f[b].flags \cup {"LOST"} \notin {IsInodes, IsCopying}
      BY States
    <3>2. u.f[b].flags \notin {IsInodes, IsInodesLost}
      BY <2>3
    <3>3. u.f[b].flags \cup {"LOST"} # IsInodesLost
      BY <3>2 DEF IsInodes, IsInodesLost
    <3> QED
      BY <3>1, <3>3 DEF TableStates
  <2>5. \A state \in TableStates : b \notin InFlash(u.f, state)
    BY <2>3 DEF TableStates, InFlash
  <2> DEFINE F == u.f[b].flags \cup {"LOST"}
  <2>6. u.f[b].magic = "bad" => F \subseteq {"LOST"}
    BY <2>3
  <2> HIDE DEF F
  <2>7. Safe(v.f, u.r.inodes)
    <3>1. BlockIs(u.f, v.f, b, u.f[b].magic, u.f[b].age, F)
      BY <2>2 DEF F
    <3>2. F \notin {IsInodes, IsCopying, IsInodesLost}
      BY <2>4 DEF F, TableStates
    <3>3. \A state \in {IsInodes, IsCopying, IsInodesLost} : b \notin InFlash(u.f, state)
      BY <2>5 DEF TableStates
    <3>4. Holds(u.f[b].magic, F, v.f[b].inode)
      BY UsedHolds DEF F
    <3> QED
      BY <1>4, <2>3, <2>6, <3>1, <3>2, <3>3, <3>4, OtherIsSafe
  <2>8. Follows(s, v)
    BY <1>4, <2>2, <2>7, FollowsTrans
  <2>9. SameTables(u.f, v.f)
    <3>1. ASSUME NEW state \in TableStates
          PROVE  InFlash(v.f, state) = InFlash(u.f, state)
      <4>1. InFlash(v.f, state) = InFlash(u.f, state) \ {b}
        BY <2>2, <2>4, BlockIsIn
      <4> QED
        BY <2>5, <4>1
    <3> QED
      BY <3>1 DEF SameTables
  <2>10. SameTables(s.f, v.f)
    BY <1>0, <1>1, <2>9 DEF SameTables
  <2>11. ASSUME NEW c \in 1 .. b
         PROVE  v.r.flags[c] = v.f[c].flags
    <3>1. v.r.flags[c] = IF c = b THEN u.r.flags[b] \cup {"LOST"} ELSE u.r.flags[c]
      BY <1>0, <1>1, <2>2 DEF Shape, RamShape
    <3>2. v.f[c].flags = IF c = b THEN u.f[b].flags \cup {"LOST"} ELSE u.f[c].flags
      BY <1>0, <2>2 DEF BlockIs
    <3>3. u.r.flags[c] = u.f[c].flags
      <4>1. CASE c = b
        BY <1>1, <1>3, <4>1
      <4>2. CASE c # b
        BY <1>0, <1>1, <1>3, <4>2
      <4> QED
        BY <4>1, <4>2
    <3> QED
      BY <3>1, <3>2, <3>3
  <2>12. Scan(t, b) = v
    BY <1>2, <1>6 DEF v
  <2> QED
    BY <2>2, <2>7, <2>8, <2>10, <2>11, <2>12 DEF Known
<1> QED
  BY <1>5, <1>6

LEMMA ScanAllIs ==
  ASSUME NEW s
  PROVE  \E d : /\ d[0] = s
                /\ \A i \in 1 .. NumBlocks : d[i] = Scan(d[i - 1], i)
                /\ ScanAll(s) = d[NumBlocks]
<1> DEFINE N == NumBlocks
           First == s
           Next1(t, i) == Scan(t, i)
           Is(d, n) == d = [i \in 0 .. n |-> IF i = 0 THEN First ELSE Next1(d[i - 1], i)]
           done == CHOOSE d : Is(d, N)
<1>1. ScanAll(s) = done[N]
  BY DEF ScanAll
<1>2. N \in Nat
  BY FfsAssumption
<1> HIDE DEF N, First, Next1
<1> DEFINE S == {n \in 0 .. N : \E d : Is(d, n)}
<1>3. 0 \in S
  <2>1. Is([i \in 0 .. 0 |-> First], 0)
    OBVIOUS
  <2> HIDE DEF Is
  <2> QED
    BY <1>2, <2>1
<1>4. ASSUME NEW n \in 1 .. N, n - 1 \in S
      PROVE  n \in S
  <2>1. PICK g : Is(g, n - 1)
    BY <1>4
  <2> DEFINE h == [i \in 0 .. n |-> IF i = n THEN Next1(g[n - 1], n) ELSE g[i]]
  <2>2. Is(h, n)
    <3>1. ASSUME NEW i \in 0 .. n
          PROVE  h[i] = IF i = 0 THEN First ELSE Next1(h[i - 1], i)
      <4>1. CASE i = n
        <5>1. n # 0 /\ n - 1 \in 0 .. n /\ n - 1 # n
          BY <1>2
        <5> QED
          BY <4>1, <5>1
      <4>2. CASE i # n
        <5>1. i \in 0 .. n - 1 /\ (i # 0 => i - 1 \in 0 .. n /\ i - 1 # n)
          BY <1>2, <4>2
        <5>2. g[i] = IF i = 0 THEN First ELSE Next1(g[i - 1], i)
          BY <2>1, <5>1
        <5> QED
          BY <4>2, <5>1, <5>2
      <4> QED
        BY <4>1, <4>2
    <3> QED
      BY <3>1
  <2> HIDE DEF Is, h
  <2> QED
    BY <1>2, <2>2
<1>5. N \in S
  <2> HIDE DEF S
  <2>1. 0 .. N \subseteq S
    BY <1>2, <1>3, <1>4, Counting
  <2> QED
    BY <1>2, <2>1
<1>6. Is(done, N)
  BY <1>5
<1> HIDE DEF done
<1>7. done[0] = First /\ \A i \in 1 .. N : done[i] = Next1(done[i - 1], i)
  BY <1>2, <1>6
<1> QED
  BY <1>1, <1>7 DEF N, First, Next1

LEMMA ScanAllKnown ==
  ASSUME NEW s, NEW t, Known(s, t, 0)
  PROVE  Known(s, ScanAll(t), NumBlocks)
<1>1. PICK d : /\ d[0] = t
               /\ \A i \in 1 .. NumBlocks : d[i] = Scan(d[i - 1], i)
               /\ ScanAll(t) = d[NumBlocks]
  BY ScanAllIs
<1>2. NumBlocks \in Nat
  BY FfsAssumption
<1> DEFINE S == {n \in 0 .. NumBlocks : Known(s, d[n], n)}
<1>3. 0 \in S
  BY <1>1, <1>2
<1>4. ASSUME NEW n \in 1 .. NumBlocks, n - 1 \in S
      PROVE  n \in S
  BY <1>1, <1>4, ScanKnown DEF Blocks
<1>5. NumBlocks \in S
  <2> HIDE DEF S
  <2>1. 0 .. NumBlocks \subseteq S
    BY <1>2, <1>3, <1>4, Counting
  <2> QED
    BY <1>2, <2>1
<1> QED
  BY <1>1, <1>5

LEMMA FormatBlankIs ==
  ASSUME NEW s
  PROVE  \E d : /\ d[0] = [s EXCEPT !.r.age_max = Max({s.f[c].age : c \in Blocks})]
                /\ \A i \in 1 .. NumBlocks : d[i] = FormatOne(d[i - 1], i)
                /\ FormatBlank(s) = d[NumBlocks]
<1> DEFINE N == NumBlocks
           First == [s EXCEPT !.r.age_max = Max({s.f[c].age : c \in Blocks})]
           Next1(t, i) == FormatOne(t, i)
           Is(d, n) == d = [i \in 0 .. n |-> IF i = 0 THEN First ELSE Next1(d[i - 1], i)]
           done == CHOOSE d : Is(d, N)
<1>1. FormatBlank(s) = done[N]
  BY DEF FormatBlank
<1>2. N \in Nat
  BY FfsAssumption
<1> HIDE DEF N, First, Next1
<1> DEFINE S == {n \in 0 .. N : \E d : Is(d, n)}
<1>3. 0 \in S
  <2>1. Is([i \in 0 .. 0 |-> First], 0)
    OBVIOUS
  <2> HIDE DEF Is
  <2> QED
    BY <1>2, <2>1
<1>4. ASSUME NEW n \in 1 .. N, n - 1 \in S
      PROVE  n \in S
  <2>1. PICK g : Is(g, n - 1)
    BY <1>4
  <2> DEFINE h == [i \in 0 .. n |-> IF i = n THEN Next1(g[n - 1], n) ELSE g[i]]
  <2>2. Is(h, n)
    <3>1. ASSUME NEW i \in 0 .. n
          PROVE  h[i] = IF i = 0 THEN First ELSE Next1(h[i - 1], i)
      <4>1. CASE i = n
        <5>1. n # 0 /\ n - 1 \in 0 .. n /\ n - 1 # n
          BY <1>2
        <5> QED
          BY <4>1, <5>1
      <4>2. CASE i # n
        <5>1. i \in 0 .. n - 1 /\ (i # 0 => i - 1 \in 0 .. n /\ i - 1 # n)
          BY <1>2, <4>2
        <5>2. g[i] = IF i = 0 THEN First ELSE Next1(g[i - 1], i)
          BY <2>1, <5>1
        <5> QED
          BY <4>2, <5>1, <5>2
      <4> QED
        BY <4>1, <4>2
    <3> QED
      BY <3>1
  <2> HIDE DEF Is, h
  <2> QED
    BY <1>2, <2>2
<1>5. N \in S
  <2> HIDE DEF S
  <2>1. 0 .. N \subseteq S
    BY <1>2, <1>3, <1>4, Counting
  <2> QED
    BY <1>2, <2>1
<1>6. Is(done, N)
  BY <1>5
<1> HIDE DEF done
<1>7. done[0] = First /\ \A i \in 1 .. N : done[i] = Next1(done[i - 1], i)
  BY <1>2, <1>6
<1> QED
  BY <1>1, <1>7 DEF N, First, Next1

\* All blocks are known.
AllKnown(s, t) == Read(t) /\ Follows(s, t) /\ SameTables(s.f, t.f) /\ t.r.initerror

LEMMA FormatOneKnown ==
  ASSUME NEW s, NEW t, AllKnown(s, t), NEW b \in Blocks
  PROVE  AllKnown(s, FormatOne(t, b))
<1>1. CASE t.f[b].magic # "blank"
  BY <1>1 DEF FormatOne
<1>2. CASE t.f[b].magic = "blank"
  <2> DEFINE u == block_preformat(t, b, 0)
  <2>0. /\ Shape(t) /\ Safe(t.f, t.r.inodes) /\ t.r.age_max \in Nat
        /\ \A c \in Blocks : t.r.flags[c] = t.f[c].flags
        /\ Follows(s, t) /\ SameTables(s.f, t.f) /\ t.r.initerror
    BY DEF AllKnown, Read
  <2>1. Freed(t, u, b)
    BY <1>2, <2>0, Preformatted
  <2> HIDE DEF u
  <2>2. /\ Shape(u) /\ Follows(t, u) /\ Safe(u.f, u.r.inodes)
        /\ BlockIs(t.f, u.f, b, "ok", u.f[b].age, IsFree)
        /\ u.r.flags = [t.r.flags EXCEPT ![b] = IsFree]
        /\ u.r.age_max \in Nat /\ u.r.initerror
    BY <2>0, <2>1 DEF Freed
  <2>3. SameTables(t.f, u.f)
    <3>1. IsFree \notin TableStates
      BY Differ DEF TableStates
    <3>2. \A state \in TableStates : b \notin InFlash(t.f, state)
      BY <1>2 DEF InFlash
    <3>3. \A state \in TableStates : InFlash(u.f, state) = InFlash(t.f, state) \ {b}
      BY <2>2, <3>1, BlockIsIn
    <3> QED
      BY <3>2, <3>3 DEF SameTables
  <2>4. \A c \in Blocks : u.r.flags[c] = u.f[c].flags
    BY <2>0, <2>2 DEF BlockIs, Shape, RamShape
  <2>5. Follows(s, u)
    BY <2>0, <2>2, FollowsTrans
  <2>6. SameTables(s.f, u.f)
    BY <2>0, <2>3 DEF SameTables
  <2>7. AllKnown(s, u)
    BY <2>2, <2>4, <2>5, <2>6 DEF AllKnown, Read
  <2> QED
    BY <1>2, <2>7 DEF FormatOne, u
<1> QED
  BY <1>1, <1>2

LEMMA FormatBlankKnown ==
  ASSUME NEW s, NEW t, Known(s, t, NumBlocks)
  PROVE  AllKnown(s, FormatBlank(t))
<1> DEFINE Ages == {t.f[c].age : c \in Blocks}
           First == [t EXCEPT !.r.age_max = Max(Ages)]
<1>1. PICK d : /\ d[0] = First
               /\ \A i \in 1 .. NumBlocks : d[i] = FormatOne(d[i - 1], i)
               /\ FormatBlank(t) = d[NumBlocks]
  BY FormatBlankIs
<1>2. NumBlocks \in Nat /\ NumBlocks > 0 /\ Blocks = 1 .. NumBlocks
  BY FfsAssumption DEF Blocks
<1>3. Max(Ages) \in Nat
  <2> DEFINE g == [c \in Blocks |-> t.f[c].age]
  <2>1. \A c \in Blocks : t.f[c].age \in Nat
    BY DEF Known, Safe, HeadersRead
  <2>2. \A c \in 1 .. NumBlocks : g[c] \in Nat
    BY <1>2, <2>1
  <2>3. \E m \in 1 .. NumBlocks : \A c \in 1 .. NumBlocks : g[c] <= g[m]
    <3> HIDE DEF g
    <3> QED
      BY <1>2, <2>2, GreatestValue
  <2>4. PICK m \in Blocks : \A c \in Blocks : t.f[c].age <= t.f[m].age
    BY <1>2, <2>3
  <2>5. t.f[m].age \in Ages /\ \A a \in Ages : t.f[m].age >= a
    BY <2>1, <2>4
  <2>6. Max(Ages) \in Ages
    <3> HIDE DEF Ages
    <3> QED
      BY <2>5 DEF Max
  <2> QED
    BY <2>1, <2>6
<1> HIDE DEF Ages
<1>4. AllKnown(s, First)
  <2>1. /\ Shape(t) /\ Safe(t.f, t.r.inodes) /\ Follows(s, t) /\ SameTables(s.f, t.f)
        /\ t.r.initerror
        /\ \A c \in Blocks : t.r.flags[c] = t.f[c].flags
    BY <1>2 DEF Known
  <2>2. /\ Shape(First) /\ First.f = t.f /\ First.w = t.w /\ First.r.flags = t.r.flags
        /\ First.r.inodes = t.r.inodes /\ First.r.initerror /\ First.r.age_max = Max(Ages)
    BY <2>1 DEF Shape, RamShape
  <2> HIDE DEF First
  <2>3. Follows(s, First)
    BY <2>1, <2>2 DEF Follows, Traced
  <2> QED
    BY <1>3, <2>1, <2>2, <2>3 DEF AllKnown, Read
<1> HIDE DEF First
<1> DEFINE S == {n \in 0 .. NumBlocks : AllKnown(s, d[n])}
<1>5. 0 \in S
  BY <1>1, <1>2, <1>4
<1>6. ASSUME NEW n \in 1 .. NumBlocks, n - 1 \in S
      PROVE  n \in S
  BY <1>1, <1>2, <1>6, FormatOneKnown
<1>7. NumBlocks \in S
  <2> HIDE DEF S
  <2>1. 0 .. NumBlocks \subseteq S
    BY <1>2, <1>5, <1>6, Counting
  <2> QED
    BY <1>2, <2>1
<1> QED
  BY <1>1, <1>7

LEMMA LastIsIn ==
  ASSUME NEW S \in SUBSET Blocks
  PROVE  LastOf(S) \in S \cup {0} /\ (LastOf(S) = 0 => S = {})
<1> DEFINE T == {0} \cup S
<1>1. NumBlocks \in Nat /\ T \in SUBSET (0 .. NumBlocks) /\ T # {}
  BY FfsAssumption DEF Blocks
<1>2. S \subseteq T /\ T = S \cup {0} /\ \A x \in S : x \in Nat \ {0}
  BY FfsAssumption DEF Blocks
<1>3. LastOf(S) = Max(T)
  BY DEF LastOf
<1> HIDE DEF T
<1>4. Max(T) \in T /\ \A y \in T : Max(T) >= y
  BY <1>1, GreatestIsMax
<1>5. Max(T) = 0 => \A x \in S : FALSE
  BY <1>2, <1>4
<1> QED
  BY <1>2, <1>3, <1>4, <1>5

\* What the check of the blocks says of the state s in which it is made: t.
Checked(s, t) ==
  /\ Good(t) /\ Follows(s, t) /\ t.v # -1
  /\ t.v = 0 \/ (t.v \in Blocks /\ "DATA" \in t.r.flags[t.v])
  /\ \A b \in InFlash(s.f, IsInodes) : t.r.inodes = b

LEMMA CopyMarkedLost ==
  ASSUME NEW s, Read(s), s.r.initerror, NEW b \in InFlash(s.f, IsInodes),
         NEW new \in InFlash(s.f, IsCopying)
  PROVE  LET t == block_free(s, new)
         IN /\ FlagKnown(s, t, new, "LOST")
            /\ InFlash(t.f, IsCopying) = {} /\ b \in InFlash(t.f, IsInodes)
<1> DEFINE t == block_free(s, new)
           F == s.f[new].flags \cup {"LOST"}
           n == s.r.inodes
<1>1. /\ Shape(s) /\ Safe(s.f, n) /\ new \in Blocks /\ b \in Blocks
      /\ s.f[new].magic = "ok" /\ s.f[new].flags = IsCopying /\ s.f[new].age \in Nat
      /\ s.f[b].flags = IsInodes
      /\ InFlash(s.f, IsCopying) = {new}
  BY DEF Read, InFlash, Safe, HeadersRead, TableIsThere, OnlyOne
<1>2. F \notin {IsInodes, IsCopying} /\ new # n /\ new # b
      /\ new \notin InFlash(s.f, IsInodes)
  <2>1. F \notin {IsInodes, IsCopying}
    BY States
  <2>2. new # n /\ new # b
    BY <1>1, Differ DEF Safe, Blocks
  <2> QED
    BY <1>1, <2>1, <2>2, Differ DEF InFlash
<1>3. Flagged(s, t, new, "LOST")
  BY <1>1, MarkedLost
<1> HIDE DEF t
<1>4. BlockIs(s.f, t.f, new, "ok", s.f[new].age, F) /\ t.r.inodes = n
  BY <1>1, <1>3 DEF Flagged, SameRam
<1>8. Holds("ok", F, t.f[new].inode)
  BY UsedHolds DEF F
<1> HIDE DEF F, n
<1>5. Safe(t.f, t.r.inodes)
  <2>1. InFlash(s.f, IsInodes) # {}
    OBVIOUS
  <2>2. Safe(t.f, n)
    BY <1>1, <1>2, <1>4, <1>8, <2>1, MagicsAre, WithTableIsSafe
  <2> QED
    BY <1>4, <2>2
<1>6. FlagKnown(s, t, new, "LOST")
  BY <1>1, <1>3, <1>5, FlagRead
<1>7. \A state \in {IsInodes, IsCopying} : InFlash(t.f, state) = InFlash(s.f, state) \ {new}
  BY <1>1, <1>2, <1>4, BlockIsIn
<1> QED
  BY <1>1, <1>2, <1>6, <1>7 DEF t

LEMMA ChooseInodesChecked ==
  ASSUME NEW s, NEW t, AllKnown(s, t)
  PROVE  Checked(s, ChooseInodes(t))
<1> DEFINE clean == LastOf(InState(t, IsCleaning))
           tab == LastOf(InState(t, IsInodes))
           new == LastOf(InState(t, IsCopying))
           old == LastOf(InState(t, IsInodesLost))
<1>1. Read(t) /\ Follows(s, t) /\ SameTables(s.f, t.f) /\ t.r.initerror
  BY DEF AllKnown
<1>2. /\ Shape(t) /\ Safe(t.f, t.r.inodes)
      /\ \A b \in Blocks : t.r.flags[b] = t.f[b].flags
  BY <1>1 DEF Read
<1>3. \A state : InState(t, state) = InFlash(t.f, state) /\ InFlash(t.f, state) \in SUBSET Blocks
  BY <1>2 DEF InState, InFlash
<1>4. /\ clean = 0 \/ (clean \in Blocks /\ "DATA" \in t.r.flags[clean])
      /\ tab \in InFlash(t.f, IsInodes) \cup {0} /\ (tab = 0 => InFlash(t.f, IsInodes) = {})
      /\ new \in InFlash(t.f, IsCopying) \cup {0} /\ (new = 0 => InFlash(t.f, IsCopying) = {})
      /\ old \in InFlash(t.f, IsInodesLost) \cup {0} /\ (old = 0 => InFlash(t.f, IsInodesLost) = {})
  <2>1. \A state : /\ LastOf(InState(t, state)) \in InFlash(t.f, state) \cup {0}
                   /\ LastOf(InState(t, state)) = 0 => InFlash(t.f, state) = {}
    BY <1>3, LastIsIn
  <2>2. \A b \in InFlash(t.f, IsCleaning) : b \in Blocks /\ "DATA" \in t.r.flags[b]
    BY <1>2, States DEF InFlash
  <2> QED
    BY <2>1, <2>2
<1>5. 0 \notin Blocks /\ clean # -1
  BY <1>4, FfsAssumption DEF Blocks
<1>6. ChooseInodes(t) =
        IF tab # 0 THEN Ret(inodes_set(IF new # 0 THEN block_free(t, new) ELSE t, tab), clean)
        ELSE IF new # 0 /\ old # 0 THEN Ret(block_commit(t, old, new), clean)
        ELSE Ret(t, -1)
  BY DEF ChooseInodes
<1> HIDE DEF clean, tab, new, old
<1>7. SUFFICES ASSUME NEW u, Leads(t, u) \/ (Moves(t, u) /\ (clean # 0 => u.r.flags[clean] = t.r.flags[clean])),
                      ChooseInodes(t) = Ret(u, clean), tab # 0 => u.r.inodes = tab
               PROVE  Checked(s, ChooseInodes(t))
  <2>1. CASE tab # 0 /\ new # 0
    <3> DEFINE v == block_free(t, new)
               u == inodes_set(v, tab)
    <3>1. tab \in InFlash(t.f, IsInodes) /\ new \in InFlash(t.f, IsCopying)
      BY <1>4, <2>1
    <3>2. FlagKnown(t, v, new, "LOST") /\ InFlash(v.f, IsCopying) = {} /\ tab \in InFlash(v.f, IsInodes)
      BY <1>1, <3>1, CopyMarkedLost
    <3> HIDE DEF v
    <3>3. Read(v) /\ Follows(t, v) /\ \A c \in Blocks : c # new => v.r.flags[c] = t.r.flags[c]
      BY <3>2 DEF FlagKnown
    <3>4. Leads(v, u) /\ u.r.inodes = tab /\ u.r.flags = v.r.flags
      BY <3>2, <3>3, InodesSet
    <3> HIDE DEF u
    <3>5. Moves(t, u)
      BY <3>3, <3>4 DEF Leads, Moves, Follows
    <3>6. clean # 0 => u.r.flags[clean] = t.r.flags[clean]
      <4>1. t.r.flags[new] = IsCopying
        BY <1>2, <3>1 DEF InFlash
      <4>2. clean # 0 => clean # new /\ clean \in Blocks
        BY <1>4, <4>1, States
      <4> QED
        BY <3>3, <3>4, <4>2
    <3>7. ChooseInodes(t) = Ret(u, clean)
      BY <1>6, <2>1 DEF u, v
    <3> QED
      BY <1>7, <3>4, <3>5, <3>6, <3>7
  <2>2. CASE tab # 0 /\ new = 0
    <3> DEFINE u == inodes_set(t, tab)
    <3>1. Leads(t, u) /\ u.r.inodes = tab
      BY <1>1, <1>4, <2>2, InodesSet
    <3>2. ChooseInodes(t) = Ret(u, clean)
      BY <1>6, <2>2
    <3> HIDE DEF u
    <3> QED
      BY <1>7, <3>1, <3>2
  <2>3. CASE tab = 0
    <3>1. InFlash(t.f, IsInodes) = {} /\ new # 0 /\ old # 0
      BY <1>2, <1>4, <2>3 DEF Safe, TableIsThere
    <3>2. InFlash(t.f, IsCopying) = {new} /\ new \in Blocks
      BY <1>2, <1>3, <1>4, <3>1 DEF Safe, TableIsThere, OnlyOne
    <3>3. Copy(t, old, new)
      BY <1>1, <1>4, <3>1, <3>2 DEF Copy
    <3> DEFINE u == block_commit(t, old, new)
    <3>4. Leads(t, u)
      BY <3>3, CommitLeads
    <3>5. ChooseInodes(t) = Ret(u, clean)
      BY <1>6, <2>3, <3>1
    <3> HIDE DEF u
    <3> QED
      BY <1>7, <2>3, <3>4, <3>5
  <2> QED
    BY <2>1, <2>2, <2>3
<1>8. Good(u) /\ Follows(t, u) /\ (clean # 0 => "DATA" \in u.r.flags[clean])
  BY <1>4, <1>7 DEF Leads, Moves, Keeps, Follows
<1> DEFINE x == Ret(u, clean)
<1>9. Leads(u, x) /\ x.v = clean /\ x.r = u.r
  BY <1>8, RetLeads DEF Ret, Good, Shape
<1> HIDE DEF x
<1>10. Good(x) /\ Follows(s, x)
  BY <1>1, <1>8, <1>9 DEF Leads, Moves, Follows
<1>11. \A b \in InFlash(s.f, IsInodes) : x.r.inodes = b
  <2>1. InFlash(t.f, IsInodes) = InFlash(s.f, IsInodes)
    BY <1>1 DEF SameTables, TableStates
  <2>2. \A b, c \in InFlash(t.f, IsInodes) : b = c
    BY <1>2 DEF Safe, TableIsThere, OnlyOne
  <2>3. ASSUME NEW b \in InFlash(s.f, IsInodes)
        PROVE  x.r.inodes = b
    <3>1. tab # 0 /\ tab \in InFlash(t.f, IsInodes)
      BY <1>4, <2>1
    <3> QED
      BY <1>7, <1>9, <2>1, <2>2, <3>1
  <2> QED
    BY <2>3
<1>12. Checked(s, x)
  BY <1>4, <1>5, <1>8, <1>9, <1>10, <1>11 DEF Checked
<1> QED
  BY <1>7, <1>12 DEF x

LEMMA BlocksFsckChecked ==
  ASSUME NEW s, Shape(s), Safe(s.f, s.r.inodes)
  PROVE  Checked(s, blocks_fsck(s))
<1> DEFINE t == [s EXCEPT !.r.initerror = TRUE]
<1>1. /\ Shape(t) /\ t.f = s.f /\ t.w = s.w /\ t.r.inodes = s.r.inodes /\ t.r.initerror
  BY DEF Shape, RamShape
<1> HIDE DEF t
<1>2. Follows(s, t)
  BY <1>1 DEF Follows, Traced
<1>3. SameTables(s.f, t.f)
  BY <1>1 DEF SameTables
<1>4. \A c \in 1 .. 0 : t.r.flags[c] = t.f[c].flags
  OBVIOUS
<1>5. Known(s, t, 0)
  BY <1>1, <1>2, <1>3, <1>4 DEF Known
<1> QED
  BY <1>5, ScanAllKnown, FormatBlankKnown, ChooseInodesChecked DEF blocks_fsck, t

----------------------------------------------------------------------------
(* Power-up: inodes and journal, and what a loss of power interrupted      *)

LEMMA InodesFsckMoves ==
  ASSUME NEW s, Good(s)
  PROVE  Moves(s, inodes_fsck(s)) /\ inodes_fsck(s).r.flags = s.r.flags
<1> DEFINE t == inodes_fsck(s)
<1>1. /\ Shape(t) /\ t.f = s.f /\ t.w = s.w /\ t.r.flags = s.r.flags
      /\ t.r.inodes = s.r.inodes /\ t.r.age_max = s.r.age_max
  BY ZenonT(60) DEF inodes_fsck, Good, Shape, RamShape
<1> HIDE DEF t
<1>2. Good(t)
  BY <1>1 DEF Good, Match
<1>3. Follows(s, t)
  BY <1>1 DEF Follows, Traced
<1> QED
  BY <1>1, <1>2, <1>3 DEF t, Moves, Follows

LEMMA JournalInitLeads ==
  ASSUME NEW s, Good(s)
  PROVE  Leads(s, journal_init(s))
<1>1. ASSUME NEW pos
      PROVE  Leads(s, [s EXCEPT !.r.journal_pos = pos])
  <2>1. SameCore(s, [s EXCEPT !.r.journal_pos = pos])
    BY DEF SameCore, Good, Shape, RamShape
  <2> QED
    BY <2>1, SameLeads
<1>2. ASSUME NEW pos
      PROVE  Leads(s, Ret([s EXCEPT !.r.journal_pos = pos], 0))
  BY <1>1, RetLeads, LeadsGood, LeadsTrans
<1>3. ASSUME NEW pos, NEW entry
      PROVE  Leads(s, Ret(journal_end([[s EXCEPT !.r.journal_pos = pos] EXCEPT !.r.journal = entry]), 1))
  <2> DEFINE a == [s EXCEPT !.r.journal_pos = pos]
             t == [a EXCEPT !.r.journal = entry]
  <2>1. Leads(s, a) /\ Good(a)
    BY <1>1, LeadsGood
  <2> HIDE DEF a
  <2>2. SameCore(a, t)
    BY <2>1 DEF SameCore, Good, Shape, RamShape
  <2> HIDE DEF t
  <2>3. Leads(s, t) /\ Good(t)
    BY <2>1, <2>2, SameLeads, LeadsTrans, LeadsGood
  <2>4. Leads(s, Ret(journal_end(t), 1))
    BY <2>3, JournalEndLeads, RetLeads, LeadsTrans, LeadsGood
  <2> QED
    BY <2>4 DEF t, a
<1>4. ASSUME NEW pos, NEW b, NEW k
      PROVE  Leads(s, Ret(Put([[s EXCEPT !.r.journal_pos = pos] EXCEPT !.r.journal_pos = pos + 1],
                              [op |-> "state", b |-> b, k |-> k, n |-> pos, v |-> "done"]), 0))
  <2> DEFINE a == [s EXCEPT !.r.journal_pos = pos]
             t == [a EXCEPT !.r.journal_pos = pos + 1]
             w == [op |-> "state", b |-> b, k |-> k, n |-> pos, v |-> "done"]
  <2>1. Leads(s, a) /\ Good(a)
    BY <1>1, LeadsGood
  <2> HIDE DEF a
  <2>2. SameCore(a, t)
    BY <2>1 DEF SameCore, Good, Shape, RamShape
  <2> HIDE DEF t
  <2>3. Leads(s, t) /\ Good(t)
    BY <2>1, <2>2, SameLeads, LeadsTrans, LeadsGood
  <2>4. w.op \in QuietOps \ InodeOps
    BY NotInodeOps
  <2> HIDE DEF w
  <2>5. Leads(s, Ret(Put(t, w), 0))
    BY <2>3, <2>4, OtherLeads, RetLeads, LeadsTrans, LeadsGood
  <2> QED
    BY <2>5 DEF t, a, w
<1>5. Leads(s, Undefined(s))
  <2>1. SameCore(s, [s EXCEPT !.r.undefined = TRUE])
    BY DEF SameCore, Good, Shape, RamShape
  <2> QED
    BY <2>1, SameLeads, RetLeads, LeadsGood, LeadsTrans DEF Undefined
<1> QED
  BY <1>2, <1>3, <1>4, <1>5 DEF journal_init

\* A pass leads from any flash that can be read to a state with a table, and the block
\* that it leaves to clean is a data block.
Passed(s, t) ==
  /\ Good(t) /\ Follows(s, t)
  /\ t.r.to_clean = 0 \/ (t.r.to_clean \in Blocks /\ "DATA" \in t.r.flags[t.r.to_clean])

LEMMA EndPassPassed ==
  ASSUME NEW s, NEW j, Good(j), Follows(s, j),
         NEW clean, clean = 0 \/ (clean \in Blocks /\ "DATA" \in j.r.flags[clean])
  PROVE  Passed(s, EndPass(j, clean))
<1> DEFINE t == EndPass(j, clean)
<1>1. /\ Shape(t) /\ t.f = j.f /\ t.w = j.w /\ t.r.flags = j.r.flags
      /\ t.r.inodes = j.r.inodes /\ t.r.age_max = j.r.age_max /\ t.r.to_clean = clean
  BY DEF EndPass, Good, Shape, RamShape
<1> HIDE DEF t
<1>2. Good(t)
  BY <1>1 DEF Good, Match
<1>3. Follows(s, t)
  BY <1>1 DEF Follows, Traced
<1>4. Passed(s, t)
  BY <1>1, <1>2, <1>3 DEF Passed
<1> QED
  BY <1>4 DEF t

LEMMA PassPassed ==
  ASSUME NEW s, Shape(s), Safe(s.f, s.r.inodes)
  PROVE  Passed(s, Pass(s))
<1> DEFINE b == blocks_fsck(s)
           i == inodes_fsck(b)
           j == IF i.r.root = 0 THEN Ret(i, -1) ELSE journal_init(i)
<1>1. /\ Good(b) /\ Follows(s, b) /\ b.v # -1
      /\ b.v = 0 \/ (b.v \in Blocks /\ "DATA" \in b.r.flags[b.v])
  BY BlocksFsckChecked DEF Checked
<1>2. Pass(s) = EndPass(j, b.v)
  BY <1>1 DEF Pass, PassInodes, PassJournal
<1> HIDE DEF b
<1>3. Good(i) /\ Follows(b, i) /\ i.r.flags = b.r.flags
  BY <1>1, InodesFsckMoves DEF Moves, Follows
<1> HIDE DEF i
<1>4. Leads(i, j)
  BY <1>3, RetLeads, JournalInitLeads
<1> HIDE DEF j
<1>5. Good(j) /\ Follows(i, j) /\ (b.v # 0 => "DATA" \in j.r.flags[b.v])
  BY <1>1, <1>3, <1>4 DEF Leads, Moves, Keeps, Follows
<1>6. Follows(s, j)
  BY <1>1, <1>3, <1>5, FollowsTrans
<1> QED
  BY <1>1, <1>2, <1>5, <1>6, EndPassPassed

LEMMA PassAgainPassed ==
  ASSUME NEW s, NEW p, Passed(s, p)
  PROVE  Passed(s, PassAgain(p))
<1>1. Good(p) /\ Follows(s, p)
  BY DEF Passed
<1>2. Passed(p, Pass(p))
  BY <1>1, PassPassed DEF Good
<1>3. Passed(s, Pass(p))
  BY <1>1, <1>2, FollowsTrans DEF Passed
<1> QED
  BY <1>3 DEF PassAgain

LEMMA CleanMoves ==
  ASSUME NEW s, Good(s), NEW b, b = s.r.to_clean,
         b = 0 \/ (b \in Blocks /\ "DATA" \in s.r.flags[b])
  PROVE  Moves(s, Clean(s))
<1> DEFINE w == [op |-> "clean", b |-> s.r.inodes, v |-> b]
           c == Put(s, w)
           e == block_free(c, b)
           t == [e EXCEPT !.r.to_clean = 0]
<1>1. CASE b = 0
  BY <1>1 DEF Clean, Moves
<1>2. CASE b # 0
  <2>1. w.op \in QuietOps \ {"table"} /\ w.b = s.r.inodes
    BY DEF QuietOps
  <2> HIDE DEF w
  <2>2. Leads(s, c) /\ Good(c) /\ Moves(s, c)
    BY <2>1, QuietLeads, LeadsGood
  <2> HIDE DEF c
  <2>3. b \in Blocks /\ "DATA" \in c.r.flags[b]
    BY <1>2, <2>2 DEF Leads, Keeps
  <2>4. b # c.r.inodes /\ c.f[b].magic # "blank"
    <3>1. "DATA" \in c.f[b].flags /\ c.f[c.r.inodes].flags = IsInodes
      BY <2>2, <2>3, GoodFacts
    <3>2. c.f[b].magic = "blank" => c.f[b].flags = {}
      BY <2>2, <2>3, GoodFacts
    <3> QED
      BY <3>1, <3>2, States
  <2>5. Moves(c, e) /\ Good(e)
    BY <2>2, <2>3, <2>4, BlockFreed DEF MovesBut, Moves
  <2> HIDE DEF e
  <2>6. /\ Shape(t) /\ t.f = e.f /\ t.w = e.w /\ t.r.flags = e.r.flags
        /\ t.r.inodes = e.r.inodes /\ t.r.age_max = e.r.age_max
    BY <2>5 DEF Good, Shape, RamShape
  <2> HIDE DEF t
  <2>7. Good(t)
    BY <2>5, <2>6 DEF Good, Match
  <2>8. Moves(e, t)
    BY <2>6, <2>7 DEF Moves, Traced
  <2>9. Moves(s, t)
    BY <2>2, <2>5, <2>8, MovesTrans
  <2>10. Clean(s) = t
    BY <1>2 DEF Clean, t, e, c, w
  <2> QED
    BY <2>9, <2>10
<1> QED
  BY <1>1, <1>2

LEMMA EraseOneMoves ==
  ASSUME NEW s, Good(s), NEW b \in Blocks
  PROVE  Moves(s, EraseOne(s, b))
<1>1. Moves(s, s)
  BY DEF Moves
<1>2. "LOST" \in s.r.flags[b] => Moves(s, block_reclaim(s, b))
  BY BlockReclaimed DEF MovesBut
<1> QED
  BY <1>1, <1>2 DEF EraseOne

LEMMA EraseLostIs ==
  ASSUME NEW s
  PROVE  \E d : /\ d[0] = s
                /\ \A i \in 1 .. NumBlocks : d[i] = EraseOne(d[i - 1], i)
                /\ EraseLost(s) = d[NumBlocks]
<1> DEFINE N == NumBlocks
           First == s
           Next1(t, i) == EraseOne(t, i)
           Is(d, n) == d = [i \in 0 .. n |-> IF i = 0 THEN First ELSE Next1(d[i - 1], i)]
           done == CHOOSE d : Is(d, N)
<1>1. EraseLost(s) = done[N]
  BY DEF EraseLost
<1>2. N \in Nat
  BY FfsAssumption
<1> HIDE DEF N, First, Next1
<1> DEFINE S == {n \in 0 .. N : \E d : Is(d, n)}
<1>3. 0 \in S
  <2>1. Is([i \in 0 .. 0 |-> First], 0)
    OBVIOUS
  <2> HIDE DEF Is
  <2> QED
    BY <1>2, <2>1
<1>4. ASSUME NEW n \in 1 .. N, n - 1 \in S
      PROVE  n \in S
  <2>1. PICK g : Is(g, n - 1)
    BY <1>4
  <2> DEFINE h == [i \in 0 .. n |-> IF i = n THEN Next1(g[n - 1], n) ELSE g[i]]
  <2>2. Is(h, n)
    <3>1. ASSUME NEW i \in 0 .. n
          PROVE  h[i] = IF i = 0 THEN First ELSE Next1(h[i - 1], i)
      <4>1. CASE i = n
        <5>1. n # 0 /\ n - 1 \in 0 .. n /\ n - 1 # n
          BY <1>2
        <5> QED
          BY <4>1, <5>1
      <4>2. CASE i # n
        <5>1. i \in 0 .. n - 1 /\ (i # 0 => i - 1 \in 0 .. n /\ i - 1 # n)
          BY <1>2, <4>2
        <5>2. g[i] = IF i = 0 THEN First ELSE Next1(g[i - 1], i)
          BY <2>1, <5>1
        <5> QED
          BY <4>2, <5>1, <5>2
      <4> QED
        BY <4>1, <4>2
    <3> QED
      BY <3>1
  <2> HIDE DEF Is, h
  <2> QED
    BY <1>2, <2>2
<1>5. N \in S
  <2> HIDE DEF S
  <2>1. 0 .. N \subseteq S
    BY <1>2, <1>3, <1>4, Counting
  <2> QED
    BY <1>2, <2>1
<1>6. Is(done, N)
  BY <1>5
<1> HIDE DEF done
<1>7. done[0] = First /\ \A i \in 1 .. N : done[i] = Next1(done[i - 1], i)
  BY <1>2, <1>6
<1> QED
  BY <1>1, <1>7 DEF N, First, Next1

LEMMA EraseLostMoves ==
  ASSUME NEW s, Good(s)
  PROVE  Moves(s, EraseLost(s))
<1>1. PICK d : /\ d[0] = s
               /\ \A i \in 1 .. NumBlocks : d[i] = EraseOne(d[i - 1], i)
               /\ EraseLost(s) = d[NumBlocks]
  BY EraseLostIs
<1>2. NumBlocks \in Nat /\ Blocks = 1 .. NumBlocks
  BY FfsAssumption DEF Blocks
<1> DEFINE S == {n \in 0 .. NumBlocks : Moves(s, d[n])}
<1>3. 0 \in S
  BY <1>1, <1>2 DEF Moves
<1>4. ASSUME NEW n \in 1 .. NumBlocks, n - 1 \in S
      PROVE  n \in S
  <2>1. Moves(s, d[n - 1]) /\ Good(d[n - 1])
    BY <1>4 DEF Moves
  <2>2. Moves(s, d[n])
    BY <1>1, <1>2, <2>1, EraseOneMoves, MovesTrans
  <2> QED
    BY <1>2, <2>2
<1>5. NumBlocks \in S
  <2> HIDE DEF S
  <2>1. 0 .. NumBlocks \subseteq S
    BY <1>2, <1>3, <1>4, Counting
  <2> QED
    BY <1>2, <2>1
<1> QED
  BY <1>1, <1>5

LEMMA ResumeReclaimMoves ==
  ASSUME NEW s, Good(s)
  PROVE  Moves(s, ResumeReclaim(s))
<1>1. Moves(s, s)
  BY DEF Moves
<1>2. Moves(s, Undefined(s))
  <2>1. SameCore(s, [s EXCEPT !.r.undefined = TRUE])
    BY DEF SameCore, Good, Shape, RamShape
  <2> QED
    BY <2>1, SameLeads, RetLeads, LeadsGood, MovesTrans DEF Undefined
<1>3. Interrupted(s) # {} => Moves(s, data_block_reclaim(s, Min(Interrupted(s))))
  <2>1. Interrupted(s) \subseteq DataFlagged(s)
    BY DEF Interrupted
  <2>2. Interrupted(s) \in SUBSET Nat
    BY <2>1, FfsAssumption DEF DataFlagged, Blocks
  <2>3. Interrupted(s) # {} => Min(Interrupted(s)) \in DataFlagged(s)
    BY <2>1, <2>2, LeastIsMin
  <2> QED
    BY <2>3, DataBlockReclaimMoves DEF DataFlagged
<1> QED
  BY <1>1, <1>2, <1>3 DEF ResumeReclaim

\* A power-up makes two passes when the first one has committed an entry of the journal.
LEMMA FsckIs ==
  ASSUME NEW f
  PROVE  Fsck(f) = PassAgain(PassAgain([f |-> f, r |-> NoRam, w |-> <<>>, v |-> 1]))
<1> DEFINE First == [f |-> f, r |-> NoRam, w |-> <<>>, v |-> 1]
           p == PassAgain(First)
           q == PassAgain(p)
           Is(d) == d = [i \in 0..2 |-> IF i = 0 THEN First ELSE PassAgain(d[i - 1])]
           after == CHOOSE d : Is(d)
<1>1. Fsck(f) = after[2]
  BY DEF Fsck
<1> HIDE DEF First
<1> DEFINE h == [i \in 0..2 |-> IF i = 0 THEN First ELSE IF i = 1 THEN p ELSE q]
<1>2. h[0] = First /\ h[1] = p /\ h[2] = q
  OBVIOUS
<1> HIDE DEF p, q
<1>3. \A i \in 0..2 : i # 0 => h[i] = PassAgain(h[i - 1])
  <2>1. \A i \in 0..2 : i # 0 => i = 1 \/ i = 2
    OBVIOUS
  <2> HIDE DEF h
  <2> QED
    BY <1>2, <2>1 DEF p, q
<1>4. Is(h)
  BY <1>2, <1>3
<1> HIDE DEF h
<1>5. Is(after)
  BY <1>4
<1> HIDE DEF after
<1>6. after[0] = First /\ after[1] = PassAgain(after[0]) /\ after[2] = PassAgain(after[1])
  BY <1>5
<1> QED
  BY <1>1, <1>6 DEF First

\* The power-up writes its way from what is found in flash to a file system with a table.
LEMMA BootGood ==
  ASSUME NEW f, Safe(f, 0)
  PROVE  Good(Boot(f)) /\ Traced(f, 0, Boot(f))
<1> DEFINE s == [f |-> f, r |-> NoRam, w |-> <<>>, v |-> 1]
           p == Fsck(f)
           i == ffs_initialize(f)
<1>1. /\ Shape(s) /\ s.f = f /\ s.w = <<>> /\ s.r.inodes = 0
  BY DEF Shape, RamShape, NoRam
<1>2. Traced(f, 0, s)
  <2> DEFINE fs == [k \in {0} |-> f]
             ns == [k \in {0} |-> 0]
  <2>1. <<>> \in Seq({}) /\ Len(<<>>) = 0
    OBVIOUS
  <2>2. Path(f, 0, <<>>, fs, ns)
    BY <2>1 DEF Path
  <2>3. fs[0] = f /\ ns[0] = 0
    OBVIOUS
  <2> HIDE DEF fs, ns
  <2>4. PathTo(f, 0, <<>>, f, 0)
    BY <2>1, <2>2, <2>3 DEF PathTo
  <2>5. IsSeq(<<>>)
    BY <2>1 DEF IsSeq
  <2> HIDE DEF s
  <2> QED
    BY <1>1, <2>4, <2>5 DEF Traced
<1>3. p = PassAgain(Pass(s))
  <2>1. PassAgain(s) = Pass(s)
    BY DEF PassAgain
  <2> QED
    BY <2>1, FsckIs
<1> HIDE DEF s, p
<1>4. Passed(s, p)
  BY <1>1, <1>3, PassPassed, PassAgainPassed
<1>5. Good(p) /\ Traced(f, 0, p)
  BY <1>2, <1>4 DEF Passed, Follows
<1>6. Moves(p, Clean(p)) /\ Good(Clean(p))
  BY <1>4, <1>5, CleanMoves DEF Passed, Moves
<1>7. Moves(p, i)
  <2>1. Moves(p, p)
    BY <1>5 DEF Moves
  <2>2. Moves(p, Ret(Clean(p), p.v))
    BY <1>6, RetLeads, LeadsGood, MovesTrans
  <2> QED
    BY <2>1, <2>2 DEF ffs_initialize, Cleaned, p
<1>8. Good(i)
  BY <1>7 DEF Moves
<1>9. Boot(f) = IF i.v # 0 THEN i ELSE Ret(ResumeReclaim(EraseLost(i)), 0)
  BY DEF Boot, Reclaimed, blocks_reclaim
<1> HIDE DEF i
<1> DEFINE e == EraseLost(i)
<1>10. Moves(p, e) /\ Good(e)
  BY <1>7, <1>8, EraseLostMoves, MovesTrans DEF Moves
<1> HIDE DEF e
<1>11. Moves(p, ResumeReclaim(e)) /\ Good(ResumeReclaim(e))
  BY <1>10, ResumeReclaimMoves, MovesTrans DEF Moves
<1>12. Moves(p, Ret(ResumeReclaim(e), 0))
  BY <1>11, RetLeads, LeadsGood, MovesTrans
<1>13. Moves(p, Boot(f))
  BY <1>7, <1>9, <1>12 DEF e
<1> QED
  BY <1>5, <1>13 DEF Moves

----------------------------------------------------------------------------
(* Behaviours                                                              *)

\* The programmings that are left lead, safely, to the flash that RAM describes.  The
\* path is part of the invariant because RAM is ahead of the flash while a request is
\* carried out: it says nothing of the flash at which the power fails.
FfsInv ==
  /\ phase \in {"off", "boot", "idle", "busy"}
  /\ Safe(flash, inodes)
  /\ phase = "off" => inodes = 0 /\ pending = <<>>
  /\ phase # "off" =>
       /\ IsSeq(pending) /\ RamShape(ram)
       /\ \E g : PathTo(flash, inodes, pending, g, ram.inodes) /\ Match(g, ram)
  /\ phase = "idle" => pending = <<>>

LEMMA PathIsSafe ==
  ASSUME NEW f, NEW n, NEW w, IsSeq(w), NEW h, NEW o, PathTo(f, n, w, h, o)
  PROVE  Safe(f, n)
<1>1. Len(w) \in Nat
  BY AppendSeq
<1> QED
  BY <1>1 DEF PathTo, Path

LEMMA NoPath ==
  /\ IsSeq(<<>>)
  /\ \A f, n, h, o : PathTo(f, n, <<>>, h, o) <=> Safe(f, n) /\ h = f /\ o = n
<1>1. <<>> \in Seq({}) /\ Len(<<>>) = 0
  OBVIOUS
<1>2. ASSUME NEW f, NEW n, Safe(f, n)
      PROVE  PathTo(f, n, <<>>, f, n)
  <2> DEFINE fs == [k \in {0} |-> f]
             ns == [k \in {0} |-> n]
  <2>1. fs[0] = f /\ ns[0] = n
    OBVIOUS
  <2> HIDE DEF fs, ns
  <2>2. Path(f, n, <<>>, fs, ns)
    BY <1>1, <1>2, <2>1 DEF Path
  <2> QED
    BY <1>1, <2>1, <2>2 DEF PathTo
<1>3. ASSUME NEW f, NEW n, NEW h, NEW o, PathTo(f, n, <<>>, h, o)
      PROVE  Safe(f, n) /\ h = f /\ o = n
  BY <1>1, <1>3 DEF PathTo, Path
<1>4. IsSeq(<<>>)
  BY <1>1 DEF IsSeq
<1> QED
  BY <1>2, <1>3, <1>4

\* The power-up from a flash that can be read.
LEMMA PowerUpInv ==
  ASSUME Safe(flash, 0),
         ram' = Boot(flash).r, pending' = Boot(flash).w,
         flash' = flash, inodes' = 0, phase' = "boot"
  PROVE  FfsInv'
<1> DEFINE s == Boot(flash)
<1>1. Good(s) /\ IsSeq(s.w) /\ PathTo(flash, 0, s.w, s.f, s.r.inodes)
  BY BootGood DEF Traced
<1> HIDE DEF s
<1>2. RamShape(s.r) /\ Match(s.f, s.r)
  BY <1>1 DEF Good, Shape
<1>3. ram' = s.r /\ pending' = s.w
  BY DEF s
<1> QED
  BY <1>1, <1>2, <1>3 DEF FfsInv

LEMMA InitInv ==
  ASSUME FfsInit
  PROVE  FfsInv
<1> DEFINE s == Boot(flash)
<1>1. Safe(flash, 0)
  BY StartAssumption DEF FfsInit, Safe
<1>2. Good(s) /\ IsSeq(s.w) /\ PathTo(flash, 0, s.w, s.f, s.r.inodes)
  BY <1>1, BootGood DEF Traced
<1>3. ram = s.r /\ pending = s.w /\ inodes = 0 /\ phase = "boot"
  BY DEF FfsInit
<1> HIDE DEF s
<1>4. RamShape(s.r) /\ Match(s.f, s.r)
  BY <1>2 DEF Good, Shape
<1> QED
  BY <1>1, <1>2, <1>3, <1>4 DEF FfsInv

LEMMA BeginInv ==
  ASSUME FfsInv, NEW q \in Requests, NEW wear \in BOOLEAN, Begin(q, wear)
  PROVE  FfsInv'
<1> DEFINE r == [ram EXCEPT !.wear = wear]
           s == [f |-> flash, r |-> r, w |-> <<>>, v |-> 0]
           t == Do(s, q)
           u == [t.r EXCEPT !.wear = FALSE]
<1>1. /\ phase = "idle" /\ pending = <<>> /\ Safe(flash, inodes) /\ RamShape(ram)
      /\ inodes = ram.inodes /\ Match(flash, ram)
  BY NoPath DEF FfsInv, Begin
<1>2. ram' = u /\ pending' = t.w /\ phase' = "busy" /\ flash' = flash /\ inodes' = inodes
  BY DEF Begin
<1>3. RamShape(r) /\ r.inodes = inodes /\ Match(flash, r)
  BY <1>1 DEF RamShape, Match
<1> HIDE DEF r
<1>4. /\ Good(s) /\ s.f = flash /\ s.w = <<>> /\ s.r.inodes = inodes
  BY <1>1, <1>3 DEF Good, Shape
<1> HIDE DEF s
<1>5. Traced(flash, inodes, s)
  BY <1>1, <1>4, NoPath DEF Traced
<1>6. Good(t) /\ IsSeq(t.w) /\ PathTo(flash, inodes, t.w, t.f, t.r.inodes)
  BY <1>4, <1>5, DoMoves DEF Moves, Traced
<1> HIDE DEF t
<1>7. RamShape(u) /\ u.inodes = t.r.inodes /\ Match(t.f, u)
  BY <1>6 DEF Good, Shape, RamShape, Match
<1> HIDE DEF u
<1> QED
  BY <1>1, <1>2, <1>6, <1>7 DEF FfsInv

LEMMA StepInv ==
  ASSUME FfsInv, Step
  PROVE  FfsInv'
<1> DEFINE w == Head(pending)
<1>1. /\ pending # <<>> /\ flash' = Program(flash, w) /\ inodes' = TableAfter(inodes, w)
      /\ pending' = Tail(pending) /\ ram' = ram /\ phase' = phase
  BY DEF Step, TableAfter
<1> HIDE DEF w
<1>2. /\ phase \in {"boot", "busy"} /\ IsSeq(pending) /\ RamShape(ram)
  BY <1>1 DEF FfsInv
<1>3. PICK g : PathTo(flash, inodes, pending, g, ram.inodes) /\ Match(g, ram)
  BY <1>2 DEF FfsInv
<1>4. PathTo(flash', inodes', pending', g, ram.inodes) /\ IsSeq(pending')
  BY <1>1, <1>2, <1>3, PathTail, TailSeq DEF w
<1>5. Safe(flash', inodes')
  BY <1>4, PathIsSafe
<1> QED
  BY <1>1, <1>2, <1>3, <1>4, <1>5 DEF FfsInv

LEMMA NextInv ==
  ASSUME FfsInv, [FfsNext]_vars
  PROVE  FfsInv'
<1>1. CASE \E q \in Requests, wear \in BOOLEAN : Begin(q, wear)
  BY <1>1, BeginInv
<1>2. CASE Step
  BY <1>2, StepInv
<1>3. CASE Finish
  <2>1. /\ phase \in {"boot", "busy"} /\ pending = <<>> /\ pending' = pending
        /\ inodes' = ram.inodes /\ flash' = flash /\ ram' = ram /\ phase' = "idle"
    BY <1>3 DEF Finish
  <2>2. /\ RamShape(ram) /\ IsSeq(pending)
        /\ \E g : PathTo(flash, inodes, pending, g, ram.inodes) /\ Match(g, ram)
    BY <2>1 DEF FfsInv
  <2>3. inodes = ram.inodes
    BY <2>1, <2>2, NoPath
  <2> QED
    BY <2>1, <2>2, <2>3 DEF FfsInv
<1>4. CASE PowerFail
  BY <1>4 DEF PowerFail, FfsInv, Safe
<1>5. CASE PowerUp
  <2>1. Safe(flash, 0) /\ inodes = 0
    BY <1>5 DEF FfsInv, PowerUp
  <2> QED
    BY <1>5, <2>1, PowerUpInv DEF PowerUp
<1>6. CASE UNCHANGED vars
  BY <1>6 DEF vars, FfsInv
<1> QED
  BY <1>1, <1>2, <1>3, <1>4, <1>5, <1>6 DEF FfsNext

\* What is still to be programmed never endangers the table.
THEOREM FfsInvariance ==
  FfsSpec => []FfsInv
BY InitInv, NextInv, PTL DEF FfsSpec

\* block_commit() and everything around it, whenever the power fails, and however often:
\* there is always a table that the power-up finds, and a reader is never without one.
THEOREM TableIsKept ==
  FfsSpec => []TableKept
<1>1. FfsInv => TableKept
  <2> SUFFICES ASSUME FfsInv
               PROVE  TableKept
    OBVIOUS
  <2> DEFINE s == [f |-> flash, r |-> NoRam, w |-> <<>>, v |-> 0]
             c == blocks_fsck(s)
  <2>1. Safe(flash, inodes) /\ Safe(flash, 0)
    BY DEF FfsInv, Safe
  <2>2. Shape(s) /\ s.f = flash /\ s.r.inodes = 0
    BY DEF Shape, RamShape, NoRam
  <2>3. BlocksChecked(flash) = c
    BY DEF BlocksChecked
  <2> HIDE DEF s
  <2>4. c.v # -1 /\ \A b \in InFlash(flash, IsInodes) : c.r.inodes = b
    BY <2>1, <2>2, BlocksFsckChecked DEF Checked
  <2> HIDE DEF c
  <2>5. inodes # 0 => /\ inodes \in Blocks /\ flash[inodes].magic = "ok"
                      /\ flash[inodes].flags \in {IsInodes, IsInodesLost}
    BY <2>1 DEF Safe
  <2>6. inodes # 0 => c.r.inodes = inodes \/ flash[inodes].flags = IsInodesLost
    BY <2>4, <2>5 DEF InFlash
  <2>7. ASSUME NEW b \in Blocks, pending # <<>>, Head(pending) = [op |-> "spoil", b |-> b]
        PROVE  "LOST" \in flash[b].flags /\ b # inodes
    <3> DEFINE w == Head(pending)
    <3>1. IsSeq(pending) /\ \E g : PathTo(flash, inodes, pending, g, ram.inodes)
      BY <2>7 DEF FfsInv
    <3>2. Legal(flash, inodes, Head(pending))
      BY <2>7, <3>1, PathTail
    <3> QED
      BY <2>7, <3>2 DEF Legal
  <2>8. ASSUME pending # <<>>, Head(pending).op = "table"
        PROVE  flash[Head(pending).b].inode = NoInodes
    <3>1. IsSeq(pending) /\ \E g : PathTo(flash, inodes, pending, g, ram.inodes)
      BY <2>8 DEF FfsInv
    <3>2. Legal(flash, inodes, Head(pending))
      BY <2>8, <3>1, PathTail
    <3> QED
      BY <2>8, <3>2 DEF Legal
  <2> QED
    BY <2>3, <2>4, <2>5, <2>6, <2>7, <2>8 DEF TableKept
<1> QED
  BY <1>1, FfsInvariance, PTL

\* What is answered, and to whom.
Answers ==
  /\ answer \in {"ok", "failed"} /\ result \in {"ok", "failed"}
  /\ request = NoRequest \/ (request \in Requests /\ phase = "busy")

LEMMA AnswersInvariance ==
  FfsSpec => []Answers
<1>1. FfsInit => Answers
  BY DEF FfsInit, Answers
<1>2. ASSUME Answers, [FfsNext]_vars
      PROVE  Answers'
  <2>1. ASSUME NEW q \in Requests, NEW wear \in BOOLEAN, Begin(q, wear)
        PROVE  Answers'
    <3>1. result' \in {"ok", "failed"} /\ phase' = "busy" /\ request' = q /\ answer' = answer
      BY <2>1, Zenon DEF Begin
    <3> QED
      BY <1>2, <3>1 DEF Answers
  <2>2. CASE Step
    BY <1>2, <2>2 DEF Step, Answers
  <2>3. CASE Finish
    BY <1>2, <2>3 DEF Finish, Answers
  <2>4. CASE PowerFail
    BY <1>2, <2>4 DEF PowerFail, Answers
  <2>5. CASE PowerUp
    <3>1. result' \in {"ok", "failed"} /\ request' = request /\ answer' = answer
      BY <2>5, Zenon DEF PowerUp
    <3>2. request = NoRequest
      BY <1>2, <2>5 DEF Answers, PowerUp
    <3> QED
      BY <1>2, <3>1, <3>2 DEF Answers
  <2>6. CASE UNCHANGED vars
    BY <1>2, <2>6 DEF vars, Answers
  <2> QED
    BY <1>2, <2>1, <2>2, <2>3, <2>4, <2>5, <2>6 DEF FfsNext
<1> QED
  BY <1>1, <1>2, PTL DEF FfsSpec

\* Nothing is programmed but for a request or a power-up, and when that is finished RAM has
\* the flags of every block and the number of the one with the inodes, as block_preformat(),
\* block_flags_write() and inodes_set() keep them.
THEOREM FfsTypeCorrect ==
  FfsSpec => []TypeOK
<1>1. FfsInv /\ Answers => TypeOK
  <2> SUFFICES ASSUME FfsInv, Answers
               PROVE  TypeOK
    OBVIOUS
  <2>1. phase \in {"off", "boot", "idle", "busy"} /\ Safe(flash, inodes)
    BY DEF FfsInv
  <2>2. inodes \in Blocks \cup {0} /\ \A b \in Blocks : flash[b].magic \in Magics
    BY <2>1 DEF Safe, HeadersRead
  <2>3. pending # <<>> => phase \in {"boot", "busy"}
    BY DEF FfsInv
  <2>4. ASSUME phase = "idle"
        PROVE  inodes = ram.inodes /\ \A b \in Blocks : ram.flags[b] = flash[b].flags
    <3>1. /\ pending = <<>>
          /\ \E g : PathTo(flash, inodes, pending, g, ram.inodes) /\ Match(g, ram)
      BY <2>4 DEF FfsInv
    <3>2. inodes = ram.inodes /\ Match(flash, ram)
      BY <3>1, NoPath
    <3> QED
      BY <3>2 DEF Match
  <2> QED
    BY <2>1, <2>2, <2>3, <2>4 DEF TypeOK, Answers
<1> QED
  BY <1>1, FfsInvariance, AnswersInvariance, PTL

=============================================================================
