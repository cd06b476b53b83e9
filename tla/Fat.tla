-------------------------------- MODULE Fat --------------------------------
(***************************************************************************)
(* The FAT volume under /disk (src/kernel/fs/fat.c) as the build makes it  *)
(* (src/scripts/mkfat.py): FAT16, a root directory of fixed size, and      *)
(* directories and files that are chains of clusters.                      *)
(*                                                                         *)
(* A call runs to its end before another starts, but the power may fail    *)
(* between two sectors that it writes.  So what a call does to the disk is *)
(* the sequence of its writes.                                             *)
(*                                                                         *)
(* A cluster is one sector of PerClus cells; a cell is a byte of a file or *)
(* a directory entry.  Only the first copy of the table is kept: the code  *)
(* writes the others and never reads them.                                 *)
(***************************************************************************)
EXTENDS Integers, Sequences, SequencesExt, FiniteSetsExt

CONSTANTS
    Paths,      \* the paths that programs use, below /disk
    Modes,      \* the flags that programs open files with
    Stamps,     \* bytes
    Hello,      \* HELLO.TXT, on the volume from the start
    RootSlots,  \* root_ents
    PerClus,    \* cells of a cluster
    LastClus,   \* the last data cluster
    MaxFd,      \* FAT_MAX_FD
    MaxWrite,   \* the longest write
    MaxCuts     \* bound of the model: power cuts

ASSUME FatAssumption ==
    /\ {RootSlots, PerClus, LastClus, MaxFd, MaxWrite, MaxCuts} \subseteq Nat
    /\ PerClus >= 2 /\ LastClus >= 2 /\ RootSlots >= 1
    /\ \A p \in Paths : Len(p) \in {1, 2}

VARIABLES
    fat,            \* the table
    cells,          \* cluster -> its cells; 0 is the root directory
    next_free_clus, \* where alloc_cluster starts to look
    fdt,            \* the descriptors, of all programs
    cuts,           \* power cuts so far
    leaked,         \* history: clusters that a failing mkdir left allocated
    shared,         \* history: a file was cut or removed under another descriptor, got
                    \* two writers, or was opened while its writer knew better
    torn            \* history: the power failed where the order of writes is no help

history == <<leaked, shared, torn>>
vars == <<fat, cells, next_free_clus, fdt, cuts, history>>

Clusters == 2 .. LastClus
Dirs == {0} \cup Clusters       \* a directory is its first cluster, the root 0
Names == UNION {ToSet(p) : p \in Paths}
Free == 0
Eoc == LastClus + 1

Zero == [is |-> "zero"]         \* no entry here nor behind
Erased == [is |-> "erased"]     \* 0xE5
Byte(v) == [is |-> "byte", v |-> v]
Entry(name, dir, clus, size) ==
    [is |-> "entry", name |-> name, dir |-> dir, clus |-> clus, size |-> size]
Dot == "."
DotDot == ".."

Fds == 1 .. MaxFd
Closed == [used |-> FALSE]
None == <<>>                    \* no slot

Least(a, b) == IF a < b THEN a ELSE b
-----------------------------------------------------------------------------
(* Writes.  One is not safe while a later one of the call has to repair it. *)

FatSet(c, v, safe) == [to |-> "fat", at |-> c, new |-> v, safe |-> safe]
PutCells(c, new) == [to |-> "cells", at |-> c, new |-> new, safe |-> TRUE]

PutCell(slot, x) == PutCells(slot[1], [i \in {slot[2]} |-> x])
ZeroCluster(c) == PutCells(c, [i \in 1 .. PerClus |-> Zero])

\* The first k writes of ws are on the disk.
After(k, ws) ==
    /\ fat' = [c \in Clusters |->
                  LET j == SelectLastInSubSeq(ws, 1, k,
                               LAMBDA w : w.to = "fat" /\ w.at = c)
                  IN IF j = 0 THEN fat[c] ELSE ws[j].new]
    /\ cells' = [c \in DOMAIN cells |-> [i \in DOMAIN cells[c] |->
                  LET j == SelectLastInSubSeq(ws, 1, k,
                               LAMBDA w : w.to = "cells" /\ w.at = c /\ i \in DOMAIN w.new)
                  IN IF j = 0 THEN cells[c][i] ELSE ws[j].new[i]]]

StartAt == IF next_free_clus \in Clusters THEN next_free_clus ELSE 2
InOrder == [i \in 1 .. LastClus - 1 |-> ((StartAt + i - 3) % (LastClus - 1)) + 2]

LinkedToo == SelectSeq(InOrder, LAMBDA c : fat[c] # Eoc)   \* mutant: what is no last one is free

\* The clusters that alloc_cluster would return, one call after the other.
FreeClusters == SelectSeq(InOrder, LAMBDA c : fat[c] = Free)

\* alloc_cluster, after which the cluster is linked behind the last one of a
\* chain and then cleared.
Alloc(c) == FatSet(c, Eoc, TRUE)
Grow(last, c, safe) == <<Alloc(c), FatSet(last, c, safe), ZeroCluster(c)>>

\* The clusters of the chain that begins at c; cut off when it runs in a ring.
ChainUpTo[n \in 0 .. LastClus, c \in 0 .. Eoc] ==
    IF c \notin Clusters \/ n = 0 THEN <<>> ELSE <<c>> \o ChainUpTo[n - 1, fat[c]]
Chain(c) == ChainUpTo[LastClus, c]

FreeHead(c, safe) ==                 \* mutant: only the first cluster is freed
    IF c \in Clusters THEN <<FatSet(c, Free, safe)>> ELSE <<>>
FreeChain(c, safe) == [i \in DOMAIN Chain(c) |-> FatSet(Chain(c)[i], Free, safe)]
-----------------------------------------------------------------------------
(* Directories *)

CellAt(slot) == cells[slot[1]][slot[2]]

\* The slots of a directory in the order they are read, and how many there are.
Width(dir) == IF dir = 0 THEN RootSlots ELSE PerClus
Slot(dir, i) ==
    <<IF dir = 0 THEN 0 ELSE Chain(dir)[((i - 1) \div PerClus) + 1], ((i - 1) % Width(dir)) + 1>>
Count(dir) == IF dir = 0 THEN RootSlots ELSE PerClus * Len(Chain(dir))

\* Reading stops at the first slot that was never used.
Live(dir) == {i \in 1 .. Count(dir) : \A j \in 1 .. i : CellAt(Slot(dir, j)) # Zero}

FirstOf[S \in SUBSET Nat] == IF S = {} THEN 0 ELSE CHOOSE i \in S : \A j \in S : i <= j
SlotOrNone[dir \in Dirs, i \in Nat] == IF i = 0 THEN None ELSE Slot(dir, i)

\* The slot of the first entry of a name.
FindInDir[dir \in Dirs, name \in Names] ==
    SlotOrNone[dir, FirstOf[{i \in Live(dir) : LET x == CellAt(Slot(dir, i))
                                               IN x.is = "entry" /\ x.name = name}]]

\* No name of a program's becomes "." or "..": name83 makes other names of them.
DirIsEmpty(dir) ==
    \A i \in Live(dir) :
        LET x == CellAt(Slot(dir, i))
        IN x # Erased => x.is = "entry" /\ x.name \in {Dot, DotDot}

\* A directory whose slots are taken grows by a cluster, which is part of it
\* before it is cleared; the root cannot grow.
FindFreeSlot(dir, free) ==
    LET open == {i \in 1 .. Count(dir) : CellAt(Slot(dir, i)) \in {Zero, Erased}}
        none == [slot |-> None, writes |-> <<>>, took |-> <<>>]
    IN IF open # {} THEN [none EXCEPT !.slot = Slot(dir, Min(open))]
       ELSE IF dir = 0 \/ free = <<>> THEN none
       ELSE [slot |-> <<Head(free), 1>>, took |-> <<Head(free)>>,
             writes |-> Grow(Last(Chain(dir)), Head(free), FALSE)]

CreateEntry(dir, name, isDir, clus, free) ==
    LET f == FindFreeSlot(dir, free)
    IN IF f.slot = None THEN f
       ELSE [f EXCEPT !.writes = Append(@, PutCell(f.slot, Entry(name, isDir, clus, 0)))]

\* The directory at a slot, or -1.
DirAt[slot \in (Dirs \X Nat) \cup {None}] ==
    IF slot = None THEN -1 ELSE IF CellAt(slot).dir THEN CellAt(slot).clus ELSE -1

\* The directory that a path is in, or -1.  The paths have one or two names.
ParentOf(path) == IF Len(path) = 1 THEN 0 ELSE DirAt[FindInDir[0, path[1]]]

Resolve(path) == IF ParentOf(path) = -1 THEN None ELSE FindInDir[ParentOf(path), Last(path)]
-----------------------------------------------------------------------------
(* What a call leaves behind *)

Writable(f) == f.used /\ "write" \in f.flags
On(slot) == {i \in Fds : fdt[i].used /\ fdt[i].slot = slot}

Hint(took) == IF took = <<>> THEN next_free_clus ELSE Last(took) + 1

Complete(ws, took, table) ==
    /\ After(Len(ws), ws)
    /\ next_free_clus' = Hint(took)
    /\ fdt' = table
    /\ UNCHANGED <<cuts, torn>>

\* A file that is open for writing still has the chain on the disk that was
\* freed when it was opened.
Exposed == \E i \in Fds :
    /\ Writable(fdt[i])
    /\ CellAt(fdt[i].slot).is = "entry"
    /\ CellAt(fdt[i].slot).clus \notin {0, fdt[i].start}

\* The power fails after k of the writes, and the machine boots again.
PowerCut(ws) ==
    /\ cuts < MaxCuts
    /\ \E k \in 0 .. Len(ws) :
        /\ After(k, ws)
        /\ torn' = (torn \/ Exposed \/ (k # 0 /\ ~ws[k].safe))
    /\ next_free_clus' = 2
    /\ fdt' = [i \in Fds |-> Closed]
    /\ cuts' = cuts + 1

Finish(ws, took, table) ==
    \E writes \in {ws} : Complete(writes, took, table) \/ PowerCut(writes)
-----------------------------------------------------------------------------
(* Files *)

\* The k-th byte behind the position, in the chain ch.
ByteAt(ch, pos, k) == cells[ch[((pos + k - 1) \div PerClus) + 1]][((pos + k - 1) % PerClus) + 1]

\* The bytes that a read of n returns: fewer when the chain ch is short.
Got(ch, size, pos, n) ==
    [k \in 1 .. Least(PerClus * Len(ch) - pos, Least(n, size - pos)) |-> ByteAt(ch, pos, k)]

BytesOf(start, size) == Got(Chain(start), size, 0, size)

\* A writer whose entry does not say yet what its descriptor says.
Ahead(f, x) == x.clus # f.start \/ x.size # f.size

FreeFds == {i \in Fds : ~fdt[i].used}
FirstFd == CHOOSE i \in FreeFds : \A j \in FreeFds : i <= j

OpenedAtStart(path, flags, slot, start, size, had) ==  \* mutant: appends overwrite
    [used |-> TRUE, flags |-> flags, path |-> path, slot |-> slot, start |-> start,
     size |-> size, pos |-> 0, had |-> IF "write" \in flags THEN <<>> ELSE had]

\* had is a history: the bytes of the file as a reader opened it.
Opened(path, flags, slot, start, size, had) ==
    [used |-> TRUE, flags |-> flags, path |-> path, slot |-> slot, start |-> start,
     size |-> size, pos |-> IF "append" \in flags THEN size ELSE 0,
     had |-> IF "write" \in flags THEN <<>> ELSE had]

StartKept(x, cut) == x.clus                    \* mutant: the freed chain is kept
StartOf(x, cut) == IF cut THEN 0 ELSE x.clus

\* The chain of a truncated file is freed; its entry says so only at the next
\* write or at the close.
OpenExisting(path, flags) ==
    LET slot == Resolve(path)
        x == CellAt(slot)
        cut == {"trunc", "write"} \subseteq flags
        fd == Opened(path, flags, slot, StartOf(x, cut), IF cut THEN 0 ELSE x.size,
                     BytesOf(x.clus, x.size))
    IN /\ slot # None
       /\ ~x.dir
       /\ FreeFds # {}
       /\ Finish(IF cut THEN FreeChain(x.clus, FALSE) ELSE <<>>, <<>>,
                 [fdt EXCEPT ![FirstFd] = fd])
       /\ shared' = (shared \/ \E i \in On(slot) :
                        \/ cut
                        \/ Writable(fdt[i]) /\ ("write" \in flags \/ Ahead(fdt[i], x)))
       /\ UNCHANGED leaked

\* The file is made before a descriptor is looked for, and stays without one.
OpenNew(path, flags) ==
    LET table(slot) == [fdt EXCEPT ![FirstFd] = Opened(path, flags, slot, 0, 0, <<>>)]
    IN /\ "create" \in flags
       /\ ParentOf(path) # -1
       /\ Resolve(path) = None
       /\ \E made \in {CreateEntry(ParentOf(path), Last(path), FALSE, 0, FreeClusters)} :
             /\ made.slot # None
             /\ Finish(made.writes, made.took, IF FreeFds = {} THEN fdt ELSE table(made.slot))
       /\ UNCHANGED <<leaked, shared>>

\* An erased entry takes the numbers too, and stays erased.
UpdateDirent(f) ==
    LET x == CellAt(f.slot)
    IN IF x.is # "entry" THEN <<>>
       ELSE <<PutCell(f.slot, [x EXCEPT !.clus = f.start, !.size = f.size])>>

CloseFile(i) ==
    /\ fdt[i].used
    /\ Finish(IF Writable(fdt[i]) THEN UpdateDirent(fdt[i]) ELSE <<>>, <<>>,
              [fdt EXCEPT ![i] = Closed])
    /\ UNCHANGED <<leaked, shared>>

GotBy(f, n) == Got(Chain(f.start), f.size, f.pos, n)

ReadFile(i, n) ==
    /\ fdt[i].used
    /\ GotBy(fdt[i], n) # <<>>
    /\ fdt' = [fdt EXCEPT ![i].pos = @ + Len(GotBy(fdt[i], n))]
    /\ UNCHANGED <<fat, cells, next_free_clus, cuts, history>>

\* The number of the cluster that a write begins in, of the chain ch and what is
\* put behind it.  Past the end one cluster is added, however many are missing.
Skipped(f, ch) == Least(f.pos \div PerClus, IF ch = <<>> THEN 1 ELSE Len(ch)) + 1

\* n bytes v over cluster number j, when the write begins in number first at off.
Piece(c, j, first, off, n, v) ==
    LET base == (j - first) * PerClus - off
    IN PutCells(c, [i \in {i \in 1 .. PerClus : base + i \in 1 .. n} |-> Byte(v)])

\* What happens at cluster number j of way, the chain and the free clusters.
Visit(way, have, j, first, off, n, v) ==
    (IF j <= have THEN <<>>
     ELSE IF j = 1 THEN <<Alloc(way[1]), ZeroCluster(way[1])>>
     ELSE Grow(way[j - 1], way[j], TRUE))
    \o (IF j < first THEN <<>> ELSE <<Piece(way[j], j, first, off, n, v)>>)

\* n bytes v from the position on, a cluster at a time, until the disk is full.
WriteAlong(i, n, v, ch, way) ==
    LET f == fdt[i]
        off == f.pos % PerClus
        first == Skipped(f, ch)
        last == Least(first + ((off + n - 1) \div PerClus), Len(way))
        ws == FlattenSeq([j \in 1 .. last |-> Visit(way, Len(ch), j, first, off, n, v)])
        took == SubSeq(way, Len(ch) + 1, last)
        pos == f.pos + Least(n, (last - first + 1) * PerClus - off)
        g == [f EXCEPT !.start = way[1], !.pos = pos, !.size = IF pos > @ THEN pos ELSE @]
    IN \/ first <= last /\ Finish(ws \o UpdateDirent(g), took, [fdt EXCEPT ![i] = g])
       \/ first > last /\ Finish(ws, took, [fdt EXCEPT ![i].start = way[1]])

WriteFile(i, n, v) ==
    /\ Writable(fdt[i])
    /\ \E ch \in {Chain(fdt[i].start)} : \E way \in {ch \o FreeClusters} :
          way # <<>> /\ WriteAlong(i, n, v, ch, way)
    /\ UNCHANGED <<leaked, shared>>

\* The entry goes first: a power cut leaves clusters that nobody has.
Removal(slot, x) == <<PutCell(slot, Erased)>> \o FreeChain(x.clus, TRUE)

Unlink(path) ==
    LET slot == Resolve(path)
        x == CellAt(slot)
    IN /\ slot # None
       /\ x.dir => DirIsEmpty(x.clus)
       /\ Finish(Removal(slot, x), <<>>, fdt)
       /\ shared' = (shared \/ On(slot) # {})
       /\ UNCHANGED leaked

\* The cluster is taken before the entry, and not given back when there is no
\* room for that.
MkDir(path) ==
    LET parent == ParentOf(path)
        c == Head(FreeClusters)
        dots == PutCells(c, <<Entry(Dot, TRUE, c, 0), Entry(DotDot, TRUE, parent, 0)>>)
        made == CreateEntry(parent, Last(path), TRUE, c, Tail(FreeClusters))
    IN /\ parent # -1
       /\ Resolve(path) = None
       /\ FreeClusters # <<>>
       /\ Finish(<<Alloc(c), ZeroCluster(c), dots>> \o made.writes, <<c>> \o made.took, fdt)
       /\ leaked' = IF made.slot = None THEN leaked \cup {c} ELSE leaked
       /\ UNCHANGED shared
-----------------------------------------------------------------------------
Init ==
    /\ fat = [c \in Clusters |-> IF c = 2 THEN Eoc ELSE Free]
    /\ cells = [c \in {0} \cup Clusters |->
                   [i \in 1 .. IF c = 0 THEN RootSlots ELSE PerClus |->
                       IF c = 0 /\ i = 1 THEN Entry(Hello, FALSE, 2, 1)
                       ELSE IF c = 2 /\ i = 1 THEN Byte(Hello) ELSE Zero]]
    /\ next_free_clus = 2
    /\ fdt = [i \in Fds |-> Closed]
    /\ cuts = 0
    /\ leaked = {} /\ shared = FALSE /\ torn = FALSE

Next ==
    \/ \E path \in Paths, flags \in Modes : OpenExisting(path, flags) \/ OpenNew(path, flags)
    \/ \E i \in Fds : CloseFile(i)
    \/ \E i \in Fds, n \in 1 .. MaxWrite : ReadFile(i, n)
    \/ \E i \in Fds, n \in 1 .. MaxWrite, v \in Stamps : WriteFile(i, n, v)
    \/ \E path \in Paths : Unlink(path) \/ MkDir(path)

Spec == Init /\ [][Next]_vars
-----------------------------------------------------------------------------
(* Properties *)

\* What a file begins with and how long it is: an open writer knows better than
\* the entry does.
View(slot) ==
    IF \E i \in On(slot) : Writable(fdt[i])
    THEN fdt[CHOOSE i \in On(slot) : Writable(fdt[i])]
    ELSE LET x == CellAt(slot) IN [start |-> x.clus, size |-> x.size]

Named(dir) == {slot \in {Slot(dir, i) : i \in Live(dir)} :
                  /\ CellAt(slot).is = "entry"
                  /\ CellAt(slot).name \notin {Dot, DotDot}}

Everything ==
    Named(0) \cup UNION {Named(CellAt(slot).clus) : slot \in {s \in Named(0) : CellAt(s).dir}}

ChainOf(slot) == Chain(View(slot).start)

EndsWell(ch) ==
    /\ IsInjective(ch)
    /\ ch # <<>> => fat[Last(ch)] = Eoc

\* fat.c: whatever calls programs make, and after a power cut, every file and
\* directory has a chain of clusters that is allocated, ends, belongs to nobody
\* else and is long enough for the file's size, and no two have the same path.
\* The calls keep this only while no file has two writers or is cut or removed
\* under another descriptor, and the order of writes only outside the spans that torn marks.
Sound ==
    ~shared /\ ~torn =>
        LET chain == [slot \in Everything |-> ChainOf(slot)]
        IN  /\ \A slot \in Everything :
                   /\ EndsWell(chain[slot])
                   /\ View(slot).size <= PerClus * Len(chain[slot])
                   /\ CellAt(slot).dir => chain[slot] # <<>>
            /\ \A slot, other \in DOMAIN chain :
                   slot # other => ToSet(chain[slot]) \cap ToSet(chain[other]) = {}

\* alloc_cluster, free_chain: without a power cut every cluster that is taken
\* has an owner, but for the ones of directories that found no room in their
\* parent.
NothingLost ==
    cuts = 0 /\ ~shared =>
        \A c \in Clusters :
            fat[c] # Free => \/ c \in leaked
                                  \/ \E slot \in Everything : c \in ToSet(ChainOf(slot))

\* The volume as programs see it.
Tree ==
    LET placed == {e \in {<<p, Resolve(p)>> : p \in Paths} : e[2] # None}
        things == {[path |-> e[1], dir |-> CellAt(e[2]).dir, view |-> View(e[2])] : e \in placed}
        bytes(ch, size) == Got(ch, size, 0, size)
    IN {[path |-> x[1].path, dir |-> x[1].dir,
         bytes |-> IF x[1].dir THEN <<>> ELSE bytes(x[2], x[1].view.size)] :
            x \in {<<x, Chain(x.view.start)>> : x \in things}}

\* fat_read: a reader goes by the first cluster, the size and the position in its
\* own descriptor, which nobody brings up to date.  While nobody cuts or removes
\* its file they lead to the bytes that it opened, though a writer makes the file
\* longer meanwhile, or other files take, leave and take again every other cluster.
ReadsTheFile ==
    ~shared /\ ~torn =>
        \A i \in Fds : fdt[i].used /\ ~Writable(fdt[i]) =>
            LET f == fdt[i]
            IN GotBy(f, MaxWrite) =
                   SubSeq(f.had, f.pos + 1, Least(f.pos + MaxWrite, Len(f.had)))

F == INSTANCE Files WITH files <- Tree

\* A call, and one that the power cut short, changes one path, as Files says.
ImplementsFiles == F!Init /\ [][shared' \/ torn' \/ F!Next]_Tree

\* What a free cluster holds is read by nobody: it is cleared before it is used.
Seen == <<fat, [c \in DOMAIN cells |-> IF c # 0 /\ fat[c] = Free THEN <<>> ELSE cells[c]],
          next_free_clus, fdt, cuts, history>>

\* Runs do not go on after a file was shared or a span of writes was torn.
Intact == ~shared /\ ~torn
=============================================================================
