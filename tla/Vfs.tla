-------------------------------- MODULE Vfs --------------------------------
(***************************************************************************)
(* The file system in memory (src/kernel/fs/vfs.c): a table of nodes, the  *)
(* pages of the heap that hold their bytes, and the descriptors, which all *)
(* programs share.  At boot initrd_unpack (src/kernel/fs/initrd.c) fills   *)
(* it.  The paths are those that do not go to the FAT volume.              *)
(***************************************************************************)
EXTENDS Bitmap, Sequences, SequencesExt, FiniteSetsExt

CONSTANTS
    Paths,      \* the paths that programs use, normalized: one or two names, and
                \* with a path that of its directory
    Mounts,     \* "sys" and "disk"
    Modes,      \* the flags that programs open files with
    Stamps,     \* bytes
    MaxNode,    \* VFS_MAX_NODES - 1
    MaxKids,    \* VFS_MAX_CHILDREN
    MaxFd,      \* VFS_MAX_FD, less the three that are never given out
    FileMax,    \* VFS_FILE_MAX
    PageBytes,  \* PAGE_SIZE
    MaxWrite    \* the longest write

ASSUME VfsAssumption ==
    /\ {MaxNode, MaxKids, MaxFd, FileMax, PageBytes, MaxWrite} \subseteq Nat
    /\ PageBytes > 0
    /\ IsFiniteSet(Mounts) /\ MaxNode >= Cardinality(Mounts)
    /\ \A p \in Paths : (p = <<p[1]>> \/ p = <<p[1], p[2]>>) /\ <<p[1]>> \in Paths

VARIABLES
    nodes,      \* nodes[]; 0 is the root
    bitmap,     \* page_bitmap
    mem,        \* the bytes of the heap
    fds,        \* fds[]
    booting,    \* initrd_unpack runs: no program does
    stray       \* history: a descriptor was used after its file was removed, or
                \* after its file was cut shorter than the offset

vars == <<nodes, bitmap, mem, fds, booting, stray>>

Nodes == 0 .. MaxNode
Root == 0
NoNode == -1
NoData == -1
Poison == [is |-> "poison"]
Byte(v) == [is |-> "byte", v |-> v]

Fds == 1 .. MaxFd
Closed == [used |-> FALSE]

Unused == [used |-> FALSE, name |-> "", dir |-> FALSE, up |-> NoNode, kids |-> <<>>,
           data |-> NoData, cap |-> 0, size |-> 0]

Least(a, b) == IF a < b THEN a ELSE b
PagesFor(n) == (n + PageBytes - 1) \div PageBytes
Base(page) == page * PageBytes              \* the first byte of a page
-----------------------------------------------------------------------------
(* The tree *)

FirstOf[S \in SUBSET Nat] == IF S = {} THEN 0 ELSE CHOOSE i \in S : \A j \in S : i <= j
KidOrNone(n, i) == IF i = 0 THEN NoNode ELSE nodes[n].kids[i]

Child(n, name) ==
    IF n # NoNode /\ nodes[n].dir
    THEN KidOrNone(n, FirstOf[{i \in DOMAIN nodes[n].kids : nodes[nodes[n].kids[i]].name = name}])
    ELSE NoNode

ParentOf(path) == IF Len(path) = 1 THEN Root ELSE Child(Root, path[1])
Lookup(path) == Child(ParentOf(path), Last(path))

FreeNodes == {n \in Nodes : ~nodes[n].used}

\* ensure_parent, room for one more child, and a free node.
MayAdd(path) ==
    LET up == ParentOf(path)
    IN /\ Lookup(path) = NoNode
       /\ up # NoNode /\ nodes[up].dir
       /\ Len(nodes[up].kids) < MaxKids
       /\ FreeNodes # {}

WithNode(path, isDir) ==
    LET n == Min(FreeNodes)
        up == ParentOf(path)
    IN [nodes EXCEPT ![n] = [Unused EXCEPT !.used = TRUE, !.name = Last(path),
                                           !.dir = isDir, !.up = up],
                     ![up].kids = Append(@, n)]

MkDir(path) ==
    /\ booting => path[1] = "sys"
    /\ MayAdd(path)
    /\ nodes' = WithNode(path, TRUE)
    /\ UNCHANGED <<bitmap, mem, fds, booting, stray>>

IsMount(n) == nodes[n].up = Root /\ nodes[n].name \in Mounts

FreedBySize(x) ==                   \* mutant: the size counts, not the capacity
    IF x.data = NoData THEN {} ELSE Run(x.data, PagesFor(x.size))

\* The pages of a node, which go back to the heap and are poisoned.
FreedPages(x) == IF x.data = NoData THEN {} ELSE Run(x.data, PagesFor(x.cap))

Poisoned(pages) == {b \in DOMAIN mem : b \div PageBytes \in pages}

KeepsKid(n) == nodes[nodes[n].up].kids                  \* mutant: stays in its directory
OtherKids(n) ==
    LET kids == nodes[nodes[n].up].kids
    IN RemoveAt(kids, FirstOf[{i \in DOMAIN kids : kids[i] = n}])

\* The node keeps the address of its bytes, and descriptors that of the node.
Unlink(path) ==
    LET n == Lookup(path)
    IN /\ n # NoNode
       /\ ~IsMount(n)
       /\ nodes[n].dir => nodes[n].kids = <<>>
       /\ nodes' = [nodes EXCEPT ![n].used = FALSE, ![nodes[n].up].kids = OtherKids(n)]
       /\ bitmap' = bitmap \ FreedPages(nodes[n])
       /\ mem' = [b \in DOMAIN mem |-> IF b \in Poisoned(FreedPages(nodes[n])) THEN Poison ELSE mem[b]]
       /\ fds' = [i \in Fds |-> IF fds[i].used /\ fds[i].node = n
                                THEN [fds[i] EXCEPT !.gone = TRUE] ELSE fds[i]]
       /\ UNCHANGED <<booting, stray>>
-----------------------------------------------------------------------------
(* Bytes *)

Fits(need) == need <= FileMax

\* n bytes v at off of node k of the table tab.  keep is what is copied when the
\* bytes have to move to a longer run of pages: the old one is freed after the
\* new one was taken.
Store(tab, k, off, n, v, keep) ==
    LET x == tab[k]
        ncap == PagesFor(off + n) * PageBytes
        put(b, at) == b \in Base(at) + off .. Base(at) + off + n - 1
    IN \/ /\ off + n <= x.cap
          /\ mem' = [b \in DOMAIN mem |-> IF n > 0 /\ put(b, x.data) THEN Byte(v) ELSE mem[b]]
          /\ nodes' = tab
          /\ UNCHANGED bitmap
       \/ /\ off + n > x.cap
          /\ \E at \in FirstFit(bitmap, PagesFor(off + n)) :
                LET gone == FreedPages(x)
                IN /\ bitmap' = (bitmap \cup Run(at, PagesFor(off + n))) \ gone
                   /\ mem' = [b \in DOMAIN mem |->
                                 IF put(b, at) THEN Byte(v)
                                 ELSE IF b \in Base(at) .. Base(at) + keep - 1
                                      THEN mem[b - Base(at) + Base(x.data)]
                                 ELSE IF b \in Poisoned(gone) THEN Poison ELSE mem[b]]
                   /\ nodes' = [tab EXCEPT ![k].data = at, ![k].cap = ncap]

\* vfs_write_file, of initrd_unpack: a file under /sys and all its bytes, or none
\* of them when they find no room.  Its directory is there: MkDir made it.
Unpack(path, n, v) ==
    /\ booting /\ path[1] = "sys"
    /\ MayAdd(path)
    /\ \/ /\ Fits(n)
          /\ LET k == Min(FreeNodes)
             IN Store([WithNode(path, FALSE) EXCEPT ![k].size = n], k, 0, n, v, 0)
       \/ /\ ~Fits(n) \/ FirstFit(bitmap, PagesFor(n)) = {}
          /\ nodes' = WithNode(path, FALSE)
          /\ UNCHANGED <<bitmap, mem>>
    /\ UNCHANGED <<fds, booting, stray>>

EndBoot == booting /\ booting' = FALSE /\ UNCHANGED <<nodes, bitmap, mem, fds, stray>>
-----------------------------------------------------------------------------
(* Descriptors *)

FreeFds == {i \in Fds : ~fds[i].used}

WithFd(flags, n, size) ==
    IF FreeFds = {} THEN fds
    ELSE [fds EXCEPT ![Min(FreeFds)] =
             [used |-> TRUE, node |-> n, flags |-> flags, gone |-> FALSE,
              offset |-> IF "append" \in flags THEN size ELSE 0]]

\* The file is cut before a descriptor is looked for, and stays so without one.
OpenExisting(path, flags) ==
    LET n == Lookup(path)
        cut == {"trunc", "write"} \subseteq flags
        size == IF cut THEN 0 ELSE nodes[n].size
    IN /\ n # NoNode /\ ~nodes[n].dir
       /\ nodes' = [nodes EXCEPT ![n].size = size]
       /\ fds' = WithFd(flags, n, size)
       /\ UNCHANGED <<bitmap, mem, booting, stray>>

OpenNew(path, flags) ==
    /\ "create" \in flags
    /\ MayAdd(path)
    /\ nodes' = WithNode(path, FALSE)
    /\ fds' = WithFd(flags, Min(FreeNodes), 0)
    /\ UNCHANGED <<bitmap, mem, booting, stray>>

CloseFile(i) ==
    /\ fds[i].used
    /\ fds' = [fds EXCEPT ![i] = Closed]
    /\ UNCHANGED <<nodes, bitmap, mem, booting, stray>>

\* The bytes that a read of n at the offset returns.
Got(k, off, n) ==
    [j \in 1 .. Least(n, nodes[k].size - off) |-> mem[Base(nodes[k].data) + off + j - 1]]

ReadFile(i, n) ==
    LET f == fds[i]
    IN /\ f.used /\ "read" \in f.flags
       /\ ~nodes[f.node].dir
       /\ f.offset < nodes[f.node].size
       /\ fds' = [fds EXCEPT ![i].offset = @ + Len(Got(f.node, f.offset, n))]
       /\ stray' = (stray \/ f.gone)
       /\ UNCHANGED <<nodes, bitmap, mem, booting>>

SizeAfter(k, end) == IF end > nodes[k].size THEN end ELSE nodes[k].size

CopiedLess(k) == IF nodes[k].size = 0 THEN 0 ELSE nodes[k].size - 1     \* mutant
Copied(k) == nodes[k].size          \* what moves along

WriteFile(i, n, v) ==
    LET f == fds[i]
        k == f.node
    IN /\ f.used /\ "write" \in f.flags
       /\ ~nodes[k].dir
       /\ Fits(f.offset + n)
       /\ Store([nodes EXCEPT ![k].size = SizeAfter(k, f.offset + n)], k, f.offset, n, v, Copied(k))
       /\ fds' = [fds EXCEPT ![i].offset = @ + n]
       /\ stray' = (stray \/ f.gone \/ f.offset > nodes[k].size)
       /\ UNCHANGED booting
-----------------------------------------------------------------------------
MountSeq == SetToSeq(Mounts)

Init ==
    /\ nodes = [n \in Nodes |->
                   IF n = Root THEN [Unused EXCEPT !.used = TRUE, !.name = "/", !.dir = TRUE,
                                                   !.kids = [i \in DOMAIN MountSeq |-> i]]
                   ELSE IF n \in DOMAIN MountSeq
                   THEN [Unused EXCEPT !.used = TRUE, !.name = MountSeq[n], !.dir = TRUE, !.up = Root]
                   ELSE Unused]
    /\ bitmap = {}
    /\ mem = [b \in 0 .. PageCount * PageBytes - 1 |-> Poison]
    /\ fds = [i \in Fds |-> Closed]
    /\ booting = TRUE
    /\ stray = FALSE

Programs ==
    \/ \E path \in Paths : Unlink(path)
    \/ \E path \in Paths, flags \in Modes : OpenExisting(path, flags) \/ OpenNew(path, flags)
    \/ \E i \in Fds : CloseFile(i)
    \/ \E i \in Fds, n \in 1 .. MaxWrite : ReadFile(i, n)
    \/ \E i \in Fds, n \in 1 .. MaxWrite, v \in Stamps : WriteFile(i, n, v)

Next ==
    \/ ~booting /\ Programs
    \/ \E path \in Paths : MkDir(path)
    \/ \E path \in Paths, n \in 0 .. MaxWrite, v \in Stamps : Unpack(path, n, v)
    \/ EndBoot

Spec == Init /\ [][Next]_vars
-----------------------------------------------------------------------------
(* Properties *)

Kids(n) == ToSet(nodes[n].kids)

\* vfs_mkdir, vfs_unlink, alloc_node: every node in use hangs once in the one
\* directory that it names as its parent, no free one hangs anywhere, and no two
\* children of a directory have the same name, whatever descriptors are open.
IsTree ==
    /\ \A n \in Nodes : nodes[n].used /\ n # Root <=> \E m \in Nodes : nodes[m].used /\ n \in Kids(m)
    /\ \A n \in Nodes : nodes[n].used =>
           /\ IsInjective(nodes[n].kids)
           /\ Kids(n) # {} => nodes[n].dir
           /\ \A k, l \in Kids(n) : nodes[k].up = n /\ (nodes[k].name = nodes[l].name => k = l)

Holders == {n \in Nodes : nodes[n].used /\ nodes[n].data # NoData}

\* vfs_write, vfs_write_file, vfs_unlink: while no descriptor strays, the pages in
\* use are those of the files, each in one file, and a file fits in its pages.
PagesOwned ==
    ~stray =>
        /\ bitmap = UNION {FreedPages(nodes[n]) : n \in Holders}
        /\ \A n, m \in Holders : FreedPages(nodes[n]) \cap FreedPages(nodes[m]) # {} => n = m
        /\ \A n \in Nodes : nodes[n].used => nodes[n].size <= nodes[n].cap

\* What is there, as programs see it.
Tree ==
    LET placed == {e \in {<<p, Lookup(p)>> : p \in Paths} : e[2] # NoNode}
    IN {[path |-> e[1], dir |-> nodes[e[2]].dir, bytes |-> Got(e[2], 0, FileMax)] : e \in placed}

F == INSTANCE Files WITH files <- Tree

\* While no descriptor strays, a call changes one path, as Files says: the bytes
\* of the others stay, wherever they move.
ImplementsFiles == F!Init /\ [][booting \/ stray' \/ F!Next]_Tree

InFiles == UNION {Base(nodes[n].data) .. Base(nodes[n].data) + nodes[n].size - 1 :
                     n \in {n \in Nodes : nodes[n].used}}

\* While no descriptor strays, nobody reads what a free node or a descriptor of a
\* removed file holds, and a byte behind the end of its file is written before it
\* is read.
Seen ==
    LET held == InFiles
    IN <<[n \in Nodes |-> IF nodes[n].used THEN nodes[n] ELSE Unused],
         [b \in DOMAIN mem |-> IF b \in held THEN mem[b] ELSE Poison],
         [i \in Fds |-> IF fds[i].used /\ fds[i].gone THEN {} ELSE fds[i]],
         bitmap, booting, stray>>

\* Runs do not go on after a descriptor has strayed.
NotStray == ~stray
=============================================================================
