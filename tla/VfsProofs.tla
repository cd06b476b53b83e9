----------------------------- MODULE VfsProofs ------------------------------
(***************************************************************************)
(* The file system in memory is a tree, its files own the pages in use,    *)
(* and a call of a program changes one path, as Files says: for any number *)
(* of nodes, descriptors and pages, any page size and any paths.           *)
(***************************************************************************)
EXTENDS Vfs, FiniteSetTheorems, SequenceTheorems, TLAPS

\* The names that nodes get.
Names == {"", "/"} \cup Mounts \cup {Last(path) : path \in Paths}

Node == [used : BOOLEAN, name : Names, dir : BOOLEAN, up : Nodes \cup {NoNode},
         kids : Seq(Nodes), data : HeapPages \cup {NoData}, cap : Nat, size : Nat]
Fd == [used : {TRUE}, node : Nodes, flags : Modes, gone : BOOLEAN, offset : Nat]

TypeOK ==
    /\ nodes \in [Nodes -> Node]
    /\ bitmap \subseteq HeapPages
    /\ fds \in [Fds -> Fd \cup {Closed}]
    /\ booting \in BOOLEAN /\ stray \in BOOLEAN

\* The directory that nothing removes.
RootStays == nodes[Root].used /\ nodes[Root].dir

\* A descriptor that is not of a removed file is of one that is there.
FdsLive == \A i \in Fds : fds[i].used => fds[i].gone \/ nodes[fds[i].node].used

IInv == TypeOK /\ RootStays /\ IsTree /\ FdsLive /\ PagesOwned

-----------------------------------------------------------------------------
(* The operators.                                                          *)

LEMMA LeastOf ==
    ASSUME NEW T \in SUBSET Nat, T # {}
    PROVE  \E n \in T : \A k \in T : n <= k
<1> DEFINE R == OpToRel(<, Nat)
<1>1. IsWellFoundedOn(R, Nat)
  BY NatLessThanWellFounded
<1>2. \E x \in T : \A y \in T : ~(<<y, x>> \in R)
  <2> HIDE DEF R
  <2> QED BY <1>1, WFMin
<1>3. \A x, y \in Nat : x < y => <<x, y>> \in R
  BY DEF OpToRel
<1>4. \A x, y \in Nat : x <= y \/ y < x
  OBVIOUS
<1> HIDE DEF R
<1> QED BY <1>2, <1>3, <1>4

LEMMA MinIs ==
    ASSUME NEW T \in SUBSET Nat, T # {}
    PROVE  Min(T) \in T
  BY LeastOf DEF Min

LEMMA FirstOfIs ==
    ASSUME NEW T \in SUBSET Nat, 0 \notin T
    PROVE  (T = {} /\ FirstOf[T] = 0) \/ (FirstOf[T] \in T /\ FirstOf[T] \in Nat /\ FirstOf[T] # 0)
<1>1. FirstOf[T] = IF T = {} THEN 0 ELSE CHOOSE i \in T : \A j \in T : i <= j
  BY DEF FirstOf
<1>2. CASE T = {}
  BY <1>1, <1>2
<1>3. CASE T # {}
  <2>1. FirstOf[T] \in T
    BY <1>1, <1>3, LeastOf
  <2> QED BY <2>1
<1> QED BY <1>2, <1>3

\* vfs_unlink moves the children behind the one that goes.
LEMMA RemoveAtIs ==
    ASSUME NEW S, NEW s \in Seq(S), NEW i \in 1 .. Len(s)
    PROVE  /\ RemoveAt(s, i) \in Seq(S)
           /\ Len(RemoveAt(s, i)) = Len(s) - 1
           /\ \A j \in 1 .. Len(s) - 1 : RemoveAt(s, i)[j] = IF j < i THEN s[j] ELSE s[j + 1]
<1> DEFINE a == SubSeq(s, 1, i - 1)
           b == SubSeq(s, i + 1, Len(s))
<1>1. Len(s) \in Nat /\ i \in Nat /\ 1 <= i /\ i <= Len(s)
  OBVIOUS
<1>2. a \in Seq(S) /\ Len(a) = i - 1 /\ \A j \in 1 .. i - 1 : a[j] = s[j]
  BY <1>1, SubSeqProperties
<1>3. b \in Seq(S) /\ Len(b) = Len(s) - i /\ \A j \in 1 .. Len(s) - i : b[j] = s[i + j]
  BY <1>1, SubSeqProperties
<1>4. RemoveAt(s, i) = a \o b
  BY DEF RemoveAt
<1> HIDE DEF a, b
<1>5. a \o b \in Seq(S) /\ Len(a \o b) = Len(s) - 1
  <2>1. a \o b \in Seq(S) /\ Len(a \o b) = Len(a) + Len(b)
    BY <1>2, <1>3, ConcatProperties
  <2> QED BY <1>1, <1>2, <1>3, <2>1
<1>6. ASSUME NEW j \in 1 .. Len(s) - 1
      PROVE  (a \o b)[j] = IF j < i THEN s[j] ELSE s[j + 1]
  <2>1. CASE j < i
    BY <2>1, <1>1, <1>2, <1>3, ConcatProperties
  <2>2. CASE ~(j < i)
    <3>1. j - (i - 1) \in 1 .. Len(s) - i
      BY <2>2, <1>1
    <3>2. (a \o b)[j] = b[j - (i - 1)]
      BY <2>2, <1>1, <1>2, <1>3, ConcatProperties
    <3>3. i + (j - (i - 1)) = j + 1
      BY <1>1
    <3> QED BY <2>2, <3>1, <3>2, <3>3, <1>3
  <2> QED BY <2>1, <2>2
<1> QED BY <1>4, <1>5, <1>6

LEMMA PagesForIs ==
    ASSUME NEW n \in Nat
    PROVE  /\ PagesFor(n) \in Nat
           /\ PagesFor(n) * PageBytes >= n
           /\ PagesFor(PagesFor(n) * PageBytes) = PagesFor(n)
<1>1. PageBytes \in Nat /\ PageBytes > 0
  BY VfsAssumption
<1> DEFINE q == (n + PageBytes - 1) \div PageBytes
<1>2. q \in Nat
  BY <1>1
<1>3. q * PageBytes <= n + PageBytes - 1 /\ n + PageBytes - 1 < q * PageBytes + PageBytes
  BY <1>1, SMTT(30)
<1>4. PagesFor(n) = q
  BY DEF PagesFor
<1> HIDE DEF q
<1>5. q * PageBytes \in Nat
  BY <1>1, <1>2
<1>6. (q * PageBytes + PageBytes - 1) \div PageBytes = q
  BY <1>1, <1>2, <1>5, SMTT(30)
<1>7. q * PageBytes >= n
  BY <1>1, <1>3, <1>5
<1> QED BY <1>2, <1>4, <1>6, <1>7 DEF PagesFor

-----------------------------------------------------------------------------
(* The tree.                                                               *)

LEMMA RowIs ==
    ASSUME NEW tab \in [Nodes -> Node], NEW n \in Nodes
    PROVE  /\ tab[n] \in Node
           /\ tab[n].used \in BOOLEAN /\ tab[n].dir \in BOOLEAN /\ tab[n].name \in Names
           /\ tab[n].kids \in Seq(Nodes) /\ Len(tab[n].kids) \in Nat
           /\ DOMAIN tab[n].kids = 1 .. Len(tab[n].kids)
           /\ tab[n].data \in HeapPages \cup {NoData}
           /\ tab[n].cap \in Nat /\ tab[n].size \in Nat
           /\ ToSet(tab[n].kids) \subseteq Nodes
           /\ \A k : k \in ToSet(tab[n].kids) <=> \E i \in 1 .. Len(tab[n].kids) : tab[n].kids[i] = k
<1>1. tab[n] \in Node
  OBVIOUS
<1>2. tab[n].kids \in Seq(Nodes)
  BY <1>1 DEF Node
<1>3. DOMAIN tab[n].kids = 1 .. Len(tab[n].kids) /\ Len(tab[n].kids) \in Nat
      /\ \A i \in 1 .. Len(tab[n].kids) : tab[n].kids[i] \in Nodes
  BY <1>2
<1>4. \A k : k \in ToSet(tab[n].kids) <=> \E i \in 1 .. Len(tab[n].kids) : tab[n].kids[i] = k
  BY <1>3 DEF ToSet
<1>5. ToSet(tab[n].kids) \subseteq Nodes
  BY <1>3, <1>4
<1> QED BY <1>1, <1>2, <1>3, <1>4, <1>5 DEF Node

LEMMA NodeIs ==
    ASSUME TypeOK, NEW n \in Nodes
    PROVE  /\ nodes[n] \in Node
           /\ nodes[n].used \in BOOLEAN /\ nodes[n].dir \in BOOLEAN /\ nodes[n].name \in Names
           /\ nodes[n].kids \in Seq(Nodes) /\ Len(nodes[n].kids) \in Nat
           /\ DOMAIN nodes[n].kids = 1 .. Len(nodes[n].kids)
           /\ nodes[n].data \in HeapPages \cup {NoData}
           /\ nodes[n].cap \in Nat /\ nodes[n].size \in Nat
           /\ Kids(n) \subseteq Nodes
           /\ \A k : k \in Kids(n) <=> \E i \in 1 .. Len(nodes[n].kids) : nodes[n].kids[i] = k
<1>1. nodes \in [Nodes -> Node]
  BY DEF TypeOK
<1> QED BY <1>1, RowIs DEF Kids

\* find_child returns the child of that name, if the directory has one.
LEMMA ChildIs ==
    ASSUME TypeOK, NEW n \in Nodes \cup {NoNode}, NEW name
    PROVE  \/ /\ n \in Nodes /\ nodes[n].dir
              /\ Child(n, name) \in Kids(n) /\ nodes[Child(n, name)].name = name
           \/ /\ Child(n, name) = NoNode
              /\ n \in Nodes /\ nodes[n].dir => \A k \in Kids(n) : nodes[k].name # name
<1>1. CASE n = NoNode
  <2>1. n \notin Nodes
    BY <1>1 DEF NoNode, Nodes
  <2>2. Child(n, name) = NoNode
    BY <1>1 DEF Child
  <2> QED BY <2>1, <2>2
<1>2. CASE n \in Nodes /\ ~nodes[n].dir
  <2>1. n # NoNode
    BY <1>2 DEF NoNode, Nodes
  <2>2. Child(n, name) = NoNode
    BY <1>2, <2>1 DEF Child
  <2> QED BY <1>2, <2>2
<1>3. CASE n \in Nodes /\ nodes[n].dir
  <2>1. n # NoNode
    BY <1>3 DEF NoNode, Nodes
  <2> DEFINE I == {i \in DOMAIN nodes[n].kids : nodes[nodes[n].kids[i]].name = name}
  <2>2. Child(n, name) = KidOrNone(n, FirstOf[I])
    BY <1>3, <2>1 DEF Child
  <2>3. I \in SUBSET Nat /\ 0 \notin I
    BY <1>3, NodeIs
  <2>4. (I = {} /\ FirstOf[I] = 0) \/ (FirstOf[I] \in I /\ FirstOf[I] \in Nat /\ FirstOf[I] # 0)
    <3> HIDE DEF I
    <3> QED BY <2>3, FirstOfIs
  <2>5. KidOrNone(n, FirstOf[I]) = IF FirstOf[I] = 0 THEN NoNode ELSE nodes[n].kids[FirstOf[I]]
    BY DEF KidOrNone
  <2>6. CASE I = {} /\ FirstOf[I] = 0
    <3>1. \A k \in Kids(n) : nodes[k].name # name
      BY <1>3, <2>6, NodeIs
    <3> QED BY <2>2, <2>5, <2>6, <3>1
  <2>7. CASE FirstOf[I] \in I /\ FirstOf[I] # 0
    <3>1. nodes[n].kids[FirstOf[I]] \in Kids(n)
      BY <1>3, <2>7, NodeIs
    <3> QED BY <1>3, <2>2, <2>5, <2>7, <3>1
  <2> QED BY <2>4, <2>6, <2>7
<1> QED BY <1>1, <1>2, <1>3

\* A path leads to a node that hangs in the directory it names, or to none.
LEMMA LookupIs ==
    ASSUME TypeOK, RootStays, IsTree, NEW path \in Paths
    PROVE  /\ ParentOf(path) \in Nodes \cup {NoNode}
           /\ ParentOf(path) \in Nodes => nodes[ParentOf(path)].used
           /\ \/ /\ ParentOf(path) \in Nodes /\ nodes[ParentOf(path)].dir
                 /\ Lookup(path) \in Nodes /\ Lookup(path) \in Kids(ParentOf(path))
                 /\ nodes[Lookup(path)].used /\ Lookup(path) # Root
                 /\ nodes[Lookup(path)].up = ParentOf(path)
                 /\ ParentOf(path) # Lookup(path)
              \/ /\ Lookup(path) = NoNode
                 /\ ParentOf(path) \in Nodes /\ nodes[ParentOf(path)].dir
                        => \A k \in Kids(ParentOf(path)) : nodes[k].name # Last(path)
<1>4. Root \in Nodes
  BY VfsAssumption DEF Root, Nodes
<1>5. ASSUME NEW m \in Nodes, nodes[m].used, NEW k \in Kids(m)
      PROVE  k \in Nodes /\ nodes[k].used /\ k # Root /\ nodes[k].up = m
  <2>1. k \in Nodes
    BY <1>5, NodeIs
  <2>2. nodes[k].used /\ k # Root
    BY <1>5, <2>1 DEF IsTree
  <2>3. nodes[k].up = m
    BY <1>5 DEF IsTree
  <2> QED BY <2>1, <2>2, <2>3
<1>6. \/ Child(Root, path[1]) = NoNode
      \/ Child(Root, path[1]) \in Kids(Root)
  BY <1>4, ChildIs
<1>7. /\ ParentOf(path) \in Nodes \cup {NoNode}
      /\ ParentOf(path) \in Nodes => nodes[ParentOf(path)].used
      /\ ParentOf(path) \in Nodes => ParentOf(path) = Root \/ nodes[ParentOf(path)].up = Root
  <2>1. NoNode \notin Nodes
    BY DEF Nodes, NoNode
  <2>2. ASSUME Child(Root, path[1]) \in Kids(Root)
        PROVE  Child(Root, path[1]) \in Nodes /\ nodes[Child(Root, path[1])].used
               /\ nodes[Child(Root, path[1])].up = Root
    BY <1>4, <1>5, <2>2 DEF RootStays
  <2>3. ParentOf(path) = Root \/ ParentOf(path) = Child(Root, path[1])
    BY DEF ParentOf
  <2> QED BY <1>4, <1>6, <2>1, <2>2, <2>3 DEF RootStays
<1> DEFINE up == ParentOf(path)
<1>8. Lookup(path) = Child(up, Last(path))
  BY DEF Lookup
<1> HIDE DEF up
<1>9. up = ParentOf(path)
  BY DEF up
<1>10. \/ up \in Nodes /\ nodes[up].dir /\ Lookup(path) \in Kids(up)
       \/ Lookup(path) = NoNode /\ (up \in Nodes /\ nodes[up].dir => \A k \in Kids(up) : nodes[k].name # Last(path))
  BY <1>7, <1>8, <1>9, ChildIs
<1>11. ASSUME up \in Nodes, Lookup(path) \in Kids(up)
       PROVE  /\ Lookup(path) \in Nodes /\ nodes[Lookup(path)].used /\ Lookup(path) # Root
              /\ nodes[Lookup(path)].up = up /\ up # Lookup(path)
  <2>1. nodes[up].used /\ (up = Root \/ nodes[up].up = Root)
    BY <1>7, <1>9, <1>11
  <2>2. /\ Lookup(path) \in Nodes /\ nodes[Lookup(path)].used /\ Lookup(path) # Root
        /\ nodes[Lookup(path)].up = up
    BY <2>1, <1>5, <1>11
  <2> QED BY <2>1, <2>2
<1> QED BY <1>7, <1>9, <1>10, <1>11

\* Every used node but the root hangs in its parent.
LEMMA ParentIs ==
    ASSUME TypeOK, IsTree, NEW k \in Nodes, nodes[k].used, k # Root
    PROVE  /\ nodes[k].up \in Nodes /\ nodes[nodes[k].up].used /\ nodes[nodes[k].up].dir
           /\ k \in Kids(nodes[k].up)
<1>1. PICK m \in Nodes : nodes[m].used /\ k \in Kids(m)
  BY DEF IsTree
<1>2. nodes[k].up = m /\ nodes[m].dir
  BY <1>1 DEF IsTree
<1> QED BY <1>1, <1>2

\* A call that leaves names, directories and children alone leaves the tree alone.
LEMMA TreeKept ==
    ASSUME TypeOK, RootStays, IsTree,
           \A m \in Nodes : /\ nodes'[m].used = nodes[m].used /\ nodes'[m].name = nodes[m].name
                            /\ nodes'[m].dir = nodes[m].dir /\ nodes'[m].up = nodes[m].up
                            /\ nodes'[m].kids = nodes[m].kids
    PROVE  RootStays' /\ IsTree'
<1>1. Root \in Nodes
  BY VfsAssumption DEF Root, Nodes
<1>2. RootStays'
  BY <1>1 DEF RootStays
<1>3. \A m \in Nodes : Kids(m)' = Kids(m)
  BY DEF Kids
<1>4. \A n \in Nodes : nodes'[n].used /\ n # Root <=> \E m \in Nodes : nodes'[m].used /\ n \in Kids(m)'
  BY <1>3 DEF IsTree
<1>5. ASSUME NEW n \in Nodes, nodes'[n].used
      PROVE  /\ IsInjective(nodes'[n].kids)
             /\ Kids(n)' # {} => nodes'[n].dir
             /\ \A k, l \in Kids(n)' : nodes'[k].up = n /\ (nodes'[k].name = nodes'[l].name => k = l)
  <2>1. nodes[n].used /\ Kids(n)' = Kids(n) /\ Kids(n) \subseteq Nodes
    BY <1>3, <1>5, NodeIs
  <2>2. IsInjective(nodes[n].kids) /\ (Kids(n) # {} => nodes[n].dir)
    BY <2>1 DEF IsTree
  <2>3. \A k, l \in Kids(n) : nodes[k].up = n /\ (nodes[k].name = nodes[l].name => k = l)
    BY <2>1 DEF IsTree
  <2> QED BY <2>1, <2>2, <2>3
<1> QED BY <1>2, <1>4, <1>5 DEF IsTree

\* alloc_node and add_child: a node that was free hangs last in a directory that
\* had none of its name.
LEMMA TreeGrows ==
    ASSUME TypeOK, RootStays, IsTree, nodes' \in [Nodes -> Node],
           NEW n \in Nodes, ~nodes[n].used, n # Root,
           NEW up \in Nodes, nodes[up].used, nodes[up].dir, up # n,
           NEW name, \A k \in Kids(up) : nodes[k].name # name,
           /\ nodes'[n].used /\ nodes'[n].name = name /\ nodes'[n].up = up
           /\ nodes'[n].kids = <<>>,
           \A m \in Nodes : m # n => /\ nodes'[m].used = nodes[m].used /\ nodes'[m].name = nodes[m].name
                                     /\ nodes'[m].dir = nodes[m].dir /\ nodes'[m].up = nodes[m].up,
           \A m \in Nodes : m # n /\ m # up => nodes'[m].kids = nodes[m].kids,
           nodes'[up].kids = Append(nodes[up].kids, n)
    PROVE  RootStays' /\ IsTree'
<1>1. Root \in Nodes
  BY VfsAssumption DEF Root, Nodes
<1>2. RootStays'
  BY <1>1 DEF RootStays
<1>3. Kids(n)' = {}
  BY DEF Kids, ToSet
<1>4. \A m \in Nodes : m # n /\ m # up => Kids(m)' = Kids(m)
  BY DEF Kids
<1>5. \A m \in Nodes : nodes[m].used => n \notin Kids(m)
  BY DEF IsTree
<1> DEFINE s == nodes[up].kids
<1>6. s \in Seq(Nodes) /\ Len(s) \in Nat /\ DOMAIN s = 1 .. Len(s)
      /\ \A k : k \in Kids(up) <=> \E i \in 1 .. Len(s) : s[i] = k
  BY NodeIs
<1> HIDE DEF s
<1>7. /\ Append(s, n) \in Seq(Nodes) /\ Len(Append(s, n)) = Len(s) + 1
      /\ \A i \in 1 .. Len(s) : Append(s, n)[i] = s[i]
      /\ Append(s, n)[Len(s) + 1] = n
      /\ DOMAIN Append(s, n) = 1 .. Len(s) + 1
  BY <1>6, AppendProperties
<1>8. nodes'[up].kids = Append(s, n)
  BY DEF s
<1>9. Kids(up)' = Kids(up) \cup {n}
  <2>1. \A k : k \in Kids(up)' <=> \E i \in 1 .. Len(s) + 1 : Append(s, n)[i] = k
    BY <1>7, <1>8 DEF Kids, ToSet
  <2>2. ASSUME NEW k PROVE k \in Kids(up)' <=> k \in Kids(up) \/ k = n
    <3>1. 1 .. Len(s) + 1 = 1 .. Len(s) \cup {Len(s) + 1}
      BY <1>6
    <3> QED BY <2>1, <3>1, <1>6, <1>7
  <2> QED BY <2>2
<1>10. IsInjective(Append(s, n))
  <2>1. IsInjective(s)
    BY DEF IsTree, s
  <2>2. \A i \in 1 .. Len(s) : s[i] # n
    BY <1>5, <1>6
  <2>3. \A i, j \in 1 .. Len(s) : s[i] = s[j] => i = j
    BY <2>1, <1>6 DEF IsInjective
  <2>4. \A i, j \in 1 .. Len(s) + 1 : Append(s, n)[i] = Append(s, n)[j] => i = j
    <3>1. 1 .. Len(s) + 1 = 1 .. Len(s) \cup {Len(s) + 1}
      BY <1>6
    <3> QED BY <3>1, <2>2, <2>3, <1>7
  <2> QED BY <2>4, <1>7 DEF IsInjective
<1>11. ASSUME NEW k \in Nodes
       PROVE  nodes'[k].used /\ k # Root <=> \E m \in Nodes : nodes'[m].used /\ k \in Kids(m)'
  <2>1. CASE k = n
    <3>1. nodes'[up].used /\ k \in Kids(up)'
      BY <2>1, <1>9
    <3> QED BY <2>1, <3>1
  <2>2. CASE k # n
    <3>1. \A m \in Nodes : nodes'[m].used /\ k \in Kids(m)' <=> nodes[m].used /\ k \in Kids(m)
      BY <2>2, <1>3, <1>4, <1>9
    <3>2. nodes'[k].used = nodes[k].used
      BY <2>2
    <3>3. nodes[k].used /\ k # Root <=> \E m \in Nodes : nodes[m].used /\ k \in Kids(m)
      BY DEF IsTree
    <3> QED BY <3>1, <3>2, <3>3
  <2> QED BY <2>1, <2>2
<1>12. ASSUME NEW m \in Nodes, nodes'[m].used
       PROVE  /\ IsInjective(nodes'[m].kids)
              /\ Kids(m)' # {} => nodes'[m].dir
              /\ \A k, l \in Kids(m)' : nodes'[k].up = m /\ (nodes'[k].name = nodes'[l].name => k = l)
  <2>1. CASE m = n
    BY <2>1, <1>3 DEF IsInjective
  <2>2. ASSUME m # n
        PROVE  /\ nodes[m].used
               /\ IsInjective(nodes[m].kids)
               /\ Kids(m) # {} => nodes[m].dir
               /\ Kids(m) \subseteq Nodes /\ n \notin Kids(m)
               /\ \A k, l \in Kids(m) : nodes'[k].up = m /\ (nodes'[k].name = nodes'[l].name => k = l)
    <3>1. nodes[m].used /\ Kids(m) \subseteq Nodes
      BY <1>12, <2>2, NodeIs
    <3>2. IsInjective(nodes[m].kids) /\ (Kids(m) # {} => nodes[m].dir)
      BY <3>1 DEF IsTree
    <3>3. \A k, l \in Kids(m) : nodes[k].up = m /\ (nodes[k].name = nodes[l].name => k = l)
      BY <3>1 DEF IsTree
    <3>4. n \notin Kids(m)
      BY <3>1, <1>5
    <3> QED BY <3>1, <3>2, <3>3, <3>4
  <2>3. CASE m # n /\ m # up
    BY <2>2, <2>3, <1>4
  <2>4. CASE m = up
    <3>1. IsInjective(nodes'[m].kids) /\ nodes'[m].dir
      BY <2>4, <1>8, <1>10
    <3>2. \A k \in Kids(m) : nodes'[k].name # name
      BY <2>2, <2>4
    <3>3. \A k, l \in Kids(m)' : nodes'[k].up = m /\ (nodes'[k].name = nodes'[l].name => k = l)
      BY <2>2, <2>4, <3>2, <1>9
    <3> QED BY <3>1, <3>3
  <2> QED BY <2>1, <2>3, <2>4
<1> QED BY <1>2, <1>11, <1>12 DEF IsTree

\* vfs_unlink: a node that is not a directory with children leaves its parent.
LEMMA TreeShrinks ==
    ASSUME TypeOK, RootStays, IsTree, nodes' \in [Nodes -> Node],
           NEW n \in Nodes, nodes[n].used, n # Root, Kids(n) = {},
           NEW up \in Nodes, nodes[up].used, up # n, n \in Kids(up),
           NEW i \in 1 .. Len(nodes[up].kids), nodes[up].kids[i] = n,
           \A m \in Nodes : m # n => nodes'[m].used = nodes[m].used,
           ~nodes'[n].used,
           \A m \in Nodes : /\ nodes'[m].name = nodes[m].name
                            /\ nodes'[m].dir = nodes[m].dir /\ nodes'[m].up = nodes[m].up,
           \A m \in Nodes : m # up => nodes'[m].kids = nodes[m].kids,
           nodes'[up].kids = RemoveAt(nodes[up].kids, i)
    PROVE  RootStays' /\ IsTree'
<1>1. RootStays'
  <2>1. Root \in Nodes
    BY VfsAssumption DEF Root, Nodes
  <2> QED BY <2>1 DEF RootStays
<1>2. \A m \in Nodes : m # up => Kids(m)' = Kids(m)
  BY DEF Kids
<1>3. \A m \in Nodes : nodes[m].used /\ n \in Kids(m) => m = up
  BY DEF IsTree
<1> DEFINE s == nodes[up].kids
           r == RemoveAt(s, i)
<1>4. s \in Seq(Nodes) /\ Len(s) \in Nat /\ DOMAIN s = 1 .. Len(s) /\ i \in 1 .. Len(s) /\ s[i] = n
      /\ \A k : k \in Kids(up) <=> \E j \in 1 .. Len(s) : s[j] = k
  BY NodeIs
<1>5. nodes'[up].kids = r
  OBVIOUS
<1>6. IsInjective(s)
  BY DEF IsTree
<1> HIDE DEF s
<1>7. /\ r \in Seq(Nodes) /\ Len(r) = Len(s) - 1
      /\ \A j \in 1 .. Len(s) - 1 : r[j] = IF j < i THEN s[j] ELSE s[j + 1]
  <2>1. s \in Seq(Nodes) /\ i \in 1 .. Len(s)
    BY <1>4
  <2> QED BY ONLY <2>1, RemoveAtIs
<1>8. DOMAIN r = 1 .. Len(s) - 1
  <2>1. DOMAIN r = 1 .. Len(r)
    BY <1>7
  <2> QED BY <2>1, <1>7
<1> HIDE DEF r
<1>9. PICK l \in Nat : l = Len(s)
  BY <1>4
<1>10. i \in 1 .. l /\ DOMAIN s = 1 .. l /\ DOMAIN r = 1 .. l - 1
       /\ \A j \in 1 .. l - 1 : r[j] = IF j < i THEN s[j] ELSE s[j + 1]
  BY <1>4, <1>7, <1>8, <1>9
<1>11. \A j, k \in 1 .. l : s[j] = s[k] => j = k
  BY <1>6, <1>10 DEF IsInjective
<1>12. \A j \in 1 .. l - 1 : r[j] # n
  BY <1>4, <1>10, <1>11
<1>13. \A j, k \in 1 .. l - 1 : r[j] = r[k] => j = k
  BY <1>10, <1>11
<1>14. Kids(up)' = Kids(up) \ {n}
  <2>1. \A k : k \in Kids(up)' <=> \E j \in 1 .. l - 1 : r[j] = k
    BY <1>5, <1>10 DEF Kids, ToSet
  <2>2. \A k : k \in Kids(up) <=> \E j \in 1 .. l : s[j] = k
    BY <1>4, <1>9
  <2>3. ASSUME NEW k \in Kids(up), k # n PROVE k \in Kids(up)'
    <3>1. PICK j \in 1 .. l : s[j] = k
      BY <2>2, <2>3
    <3>2. j # i
      BY <2>3, <3>1, <1>4
    <3>3. CASE j < i
      <4>1. j \in 1 .. l - 1 /\ r[j] = k
        BY <3>1, <3>3, <1>10
      <4> QED BY <4>1, <2>1
    <3>4. CASE j > i
      <4>1. j - 1 \in 1 .. l - 1 /\ r[j - 1] = s[(j - 1) + 1] /\ (j - 1) + 1 = j
        BY <3>4, <1>10
      <4>2. r[j - 1] = k
        BY <3>1, <4>1
      <4> QED BY <4>1, <4>2, <2>1
    <3> QED BY <3>2, <3>3, <3>4, <1>10
  <2>4. ASSUME NEW k \in Kids(up)' PROVE k \in Kids(up) /\ k # n
    <3>1. PICK j \in 1 .. l - 1 : r[j] = k
      BY <2>1, <2>4
    <3>2. k # n
      BY <3>1, <1>12
    <3>3. j \in 1 .. l /\ j + 1 \in 1 .. l /\ (r[j] = s[j] \/ r[j] = s[j + 1])
      BY <1>10
    <3> QED BY <2>2, <3>1, <3>2, <3>3
  <2> QED BY <2>3, <2>4
<1>15. ASSUME NEW k \in Nodes
       PROVE  nodes'[k].used /\ k # Root <=> \E m \in Nodes : nodes'[m].used /\ k \in Kids(m)'
  <2>1. nodes[k].used /\ k # Root <=> \E m \in Nodes : nodes[m].used /\ k \in Kids(m)
    BY DEF IsTree
  <2>2. CASE k = n
    <3>1. ~ \E m \in Nodes : nodes'[m].used /\ k \in Kids(m)'
      BY <2>2, <1>2, <1>3, <1>14
    <3> QED BY <2>2, <3>1
  <2>3. CASE k # n
    <3>1. \A m \in Nodes : nodes'[m].used /\ k \in Kids(m)' <=> nodes[m].used /\ k \in Kids(m)
      BY <2>3, <1>2, <1>14
    <3> QED BY <2>1, <2>3, <3>1
  <2> QED BY <2>2, <2>3
<1>16. ASSUME NEW m \in Nodes, nodes'[m].used
       PROVE  /\ IsInjective(nodes'[m].kids)
              /\ Kids(m)' # {} => nodes'[m].dir
              /\ \A k, k2 \in Kids(m)' : nodes'[k].up = m /\ (nodes'[k].name = nodes'[k2].name => k = k2)
  <2>1. nodes[m].used /\ Kids(m) \subseteq Nodes
    BY <1>16, NodeIs
  <2>2. IsInjective(nodes[m].kids) /\ (Kids(m) # {} => nodes[m].dir)
    BY <2>1 DEF IsTree
  <2>3. \A k, k2 \in Kids(m) : nodes[k].up = m /\ (nodes[k].name = nodes[k2].name => k = k2)
    BY <2>1 DEF IsTree
  <2>4. IsInjective(nodes'[m].kids)
    <3>1. CASE m = up
      BY <3>1, <1>5, <1>10, <1>13 DEF IsInjective
    <3>2. CASE m # up
      BY <3>2, <2>2
    <3> QED BY <3>1, <3>2
  <2>5. Kids(m)' \subseteq Kids(m)
    BY <1>2, <1>14
  <2> QED BY <2>1, <2>2, <2>3, <2>4, <2>5
<1> QED BY <1>1, <1>15, <1>16 DEF IsTree

-----------------------------------------------------------------------------
(* The pages.                                                              *)

\* The pages in use, page by page.
LEMMA OwnerIs ==
    ASSUME PagesOwned, ~stray
    PROVE  /\ \A p : p \in bitmap <=> \E m \in Holders : p \in FreedPages(nodes[m])
           /\ \A p : \A m, n \in Holders : p \in FreedPages(nodes[m]) /\ p \in FreedPages(nodes[n]) => m = n
           /\ \A n \in Nodes : nodes[n].used => nodes[n].size <= nodes[n].cap
<1>1. /\ bitmap = UNION {FreedPages(nodes[n]) : n \in Holders}
      /\ \A n, m \in Holders : FreedPages(nodes[n]) \cap FreedPages(nodes[m]) # {} => n = m
      /\ \A n \in Nodes : nodes[n].used => nodes[n].size <= nodes[n].cap
  BY DEF PagesOwned
<1>2. \A p : p \in bitmap <=> \E m \in Holders : p \in FreedPages(nodes[m])
  BY <1>1
<1>3. \A p : \A m, n \in Holders : p \in FreedPages(nodes[m]) /\ p \in FreedPages(nodes[n]) => m = n
  BY <1>1
<1> QED BY <1>1, <1>2, <1>3

LEMMA OwnersAre ==
    ASSUME \A p : p \in bitmap' <=> \E m \in Holders' : p \in FreedPages(nodes'[m]),
           \A p : \A m, n \in Holders' : p \in FreedPages(nodes'[m]) /\ p \in FreedPages(nodes'[n]) => m = n,
           \A n \in Nodes : nodes'[n].used => nodes'[n].size <= nodes'[n].cap
    PROVE  PagesOwned'
<1>1. bitmap' = UNION {FreedPages(nodes'[n]) : n \in Holders'}
  OBVIOUS
<1>2. \A n, m \in Holders' : FreedPages(nodes'[n]) \cap FreedPages(nodes'[m]) # {} => n = m
  OBVIOUS
<1> QED BY <1>1, <1>2 DEF PagesOwned, FreedPages

\* A call that takes no page and gives none back.
LEMMA PagesKept ==
    ASSUME PagesOwned, ~stray, bitmap' = bitmap, Holders' = Holders,
           \A m \in Holders : nodes'[m].data = nodes[m].data /\ nodes'[m].cap = nodes[m].cap,
           \A m \in Nodes : nodes'[m].used => nodes'[m].size <= nodes'[m].cap
    PROVE  PagesOwned'
<1>1. \A m \in Holders : FreedPages(nodes'[m]) = FreedPages(nodes[m])
  BY DEF FreedPages
<1>2. \A p : p \in bitmap' <=> \E m \in Holders' : p \in FreedPages(nodes'[m])
  BY <1>1, OwnerIs
<1>3. \A p : \A m, n \in Holders' : p \in FreedPages(nodes'[m]) /\ p \in FreedPages(nodes'[n]) => m = n
  BY <1>1, OwnerIs
<1> QED BY <1>2, <1>3, OwnersAre

\* A file that is removed gives back its pages.
LEMMA PagesFreed ==
    ASSUME PagesOwned, ~stray, NEW n \in Nodes, nodes[n].used,
           bitmap' = bitmap \ FreedPages(nodes[n]), Holders' = Holders \ {n},
           \A m \in Nodes : nodes'[m].data = nodes[m].data /\ nodes'[m].cap = nodes[m].cap
                            /\ nodes'[m].size = nodes[m].size,
           \A m \in Nodes : nodes'[m].used => nodes[m].used
    PROVE  PagesOwned'
<1>1. \A m \in Nodes : FreedPages(nodes'[m]) = FreedPages(nodes[m])
  BY DEF FreedPages
<1>2. Holders \subseteq Nodes
  BY DEF Holders
<1>3. n \notin Holders => FreedPages(nodes[n]) = {}
  BY DEF Holders, FreedPages
<1>4. \A p : p \in bitmap' <=> \E m \in Holders' : p \in FreedPages(nodes'[m])
  <2>1. SUFFICES ASSUME NEW p
                 PROVE  p \in bitmap' <=> \E m \in Holders' : p \in FreedPages(nodes'[m])
    OBVIOUS
  <2>2. p \in bitmap' <=> (\E m \in Holders : p \in FreedPages(nodes[m])) /\ p \notin FreedPages(nodes[n])
    BY OwnerIs
  <2>3. (\E m \in Holders' : p \in FreedPages(nodes'[m]))
        <=> \E m \in Holders : m # n /\ p \in FreedPages(nodes[m])
    BY <1>1, <1>2
  <2>4. CASE n \in Holders
    BY <2>2, <2>3, <2>4, OwnerIs
  <2>5. CASE n \notin Holders
    BY <2>2, <2>3, <2>5, <1>3
  <2> QED BY <2>4, <2>5
<1>5. \A p : \A m, l \in Holders' : p \in FreedPages(nodes'[m]) /\ p \in FreedPages(nodes'[l]) => m = l
  BY <1>1, <1>2, OwnerIs
<1>6. \A m \in Nodes : nodes'[m].used => nodes'[m].size <= nodes'[m].cap
  BY OwnerIs
<1> QED BY <1>4, <1>5, <1>6, OwnersAre

\* A file that grows takes a new run of pages before it gives back the old one.
LEMMA PagesMove ==
    ASSUME PagesOwned, ~stray, NEW k \in Nodes, NEW run, NEW old,
           run \cap bitmap = {},
           old = IF k \in Holders THEN FreedPages(nodes[k]) ELSE {},
           bitmap' = (bitmap \cup run) \ old, Holders' = Holders \cup {k},
           FreedPages(nodes'[k]) = run,
           \A m \in Holders : m # k => nodes'[m].data = nodes[m].data /\ nodes'[m].cap = nodes[m].cap,
           \A m \in Nodes : nodes'[m].used => nodes'[m].size <= nodes'[m].cap
    PROVE  PagesOwned'
<1>1. \A m \in Holders : m # k => FreedPages(nodes'[m]) = FreedPages(nodes[m])
  BY DEF FreedPages
<1>2. old \subseteq bitmap
  BY OwnerIs
<1>3. \A p : p \in bitmap' <=> p \in run \/ (p \in bitmap /\ p \notin old)
  BY <1>2
<1>4. \A p : p \in bitmap /\ p \notin old <=> \E m \in Holders : m # k /\ p \in FreedPages(nodes[m])
  <2>1. SUFFICES ASSUME NEW p
                 PROVE  p \in bitmap /\ p \notin old <=> \E m \in Holders : m # k /\ p \in FreedPages(nodes[m])
    OBVIOUS
  <2>2. p \in bitmap <=> \E m \in Holders : p \in FreedPages(nodes[m])
    BY OwnerIs
  <2>3. CASE k \in Holders
    <3>1. p \in old <=> p \in FreedPages(nodes[k])
      BY <2>3
    <3> QED BY <2>2, <2>3, <3>1, OwnerIs
  <2>4. CASE k \notin Holders
    BY <2>2, <2>4
  <2> QED BY <2>3, <2>4
<1>5. \A p : p \in bitmap' <=> \E m \in Holders' : p \in FreedPages(nodes'[m])
  BY <1>1, <1>3, <1>4
<1>6. \A p : \A m, l \in Holders' : p \in FreedPages(nodes'[m]) /\ p \in FreedPages(nodes'[l]) => m = l
  <2>1. SUFFICES ASSUME NEW p, NEW m \in Holders', NEW l \in Holders',
                        p \in FreedPages(nodes'[m]), p \in FreedPages(nodes'[l])
                 PROVE  m = l
    OBVIOUS
  <2>2. CASE m = k \/ l = k
    <3>1. p \in run
      BY <2>1, <2>2
    <3>2. p \notin bitmap
      BY <3>1
    <3>3. \A j \in Holders : j # k => p \notin FreedPages(nodes'[j])
      BY <3>2, <1>1, OwnerIs
    <3> QED BY <2>1, <2>2, <3>3
  <2>3. CASE m # k /\ l # k
    BY <2>1, <2>3, <1>1, OwnerIs
  <2> QED BY <2>2, <2>3
<1> QED BY <1>5, <1>6, OwnersAre

-----------------------------------------------------------------------------
(* What the calls share: a new node, and bytes that are stored.            *)

LEMMA UnusedIs == Unused \in Node
<1> DEFINE empty == <<>>
           blank == ""
<1>1. empty \in Seq(Nodes) /\ blank \in Names
  BY DEF Names
<1>2. Unused = [used |-> FALSE, name |-> blank, dir |-> FALSE, up |-> NoNode, kids |-> empty,
                data |-> NoData, cap |-> 0, size |-> 0]
  BY DEF Unused
<1> HIDE DEF empty, blank
<1> QED BY <1>1, <1>2 DEF Node

LEMMA UnusedHolds ==
    ~Unused.used /\ Unused.kids = <<>> /\ Unused.data = NoData /\ Unused.cap = 0 /\ Unused.size = 0
<1> DEFINE empty == <<>>
           blank == ""
<1>1. Unused = [used |-> FALSE, name |-> blank, dir |-> FALSE, up |-> NoNode, kids |-> empty,
                data |-> NoData, cap |-> 0, size |-> 0]
  BY DEF Unused
<1> HIDE DEF empty, blank
<1>2. ~Unused.used /\ Unused.kids = empty /\ Unused.data = NoData /\ Unused.cap = 0 /\ Unused.size = 0
  BY <1>1
<1> QED BY <1>2 DEF empty

\* alloc_node and add_child take a free node and hang it in the parent.
LEMMA AddIs ==
    ASSUME TypeOK, RootStays, IsTree, NEW path \in Paths, NEW isDir \in BOOLEAN, MayAdd(path)
    PROVE  /\ Min(FreeNodes) \in Nodes /\ ~nodes[Min(FreeNodes)].used /\ Min(FreeNodes) # Root
           /\ ParentOf(path) \in Nodes /\ nodes[ParentOf(path)].used /\ nodes[ParentOf(path)].dir
           /\ ParentOf(path) # Min(FreeNodes)
           /\ \A k \in Kids(ParentOf(path)) : nodes[k].name # Last(path)
           /\ WithNode(path, isDir) \in [Nodes -> Node]
           /\ WithNode(path, isDir)[Min(FreeNodes)] =
                  [Unused EXCEPT !.used = TRUE, !.name = Last(path), !.dir = isDir, !.up = ParentOf(path)]
           /\ WithNode(path, isDir)[ParentOf(path)] =
                  [nodes[ParentOf(path)] EXCEPT !.kids = Append(@, Min(FreeNodes))]
           /\ \A m \in Nodes : m # Min(FreeNodes) /\ m # ParentOf(path) => WithNode(path, isDir)[m] = nodes[m]
<1> DEFINE n == Min(FreeNodes)
           up == ParentOf(path)
           T == WithNode(path, isDir)
           new == [Unused EXCEPT !.used = TRUE, !.name = Last(path), !.dir = isDir, !.up = up]
           dad == [nodes[up] EXCEPT !.kids = Append(@, n)]
<1>1. FreeNodes # {} /\ Lookup(path) = NoNode /\ up # NoNode /\ nodes[up].dir
  BY DEF MayAdd
<1>2. n \in Nodes /\ ~nodes[n].used
  <2>1. FreeNodes \in SUBSET Nat /\ FreeNodes \subseteq Nodes
    BY VfsAssumption DEF FreeNodes, Nodes
  <2>2. n \in FreeNodes
    BY <1>1, <2>1, MinIs
  <2> QED BY <2>1, <2>2 DEF FreeNodes
<1>3. n # Root
  BY <1>2 DEF RootStays
<1>4. /\ up \in Nodes /\ nodes[up].used
      /\ \A k \in Kids(up) : nodes[k].name # Last(path)
  <2>1. Lookup(path) \notin Nodes
    BY <1>1 DEF Nodes, NoNode
  <2> QED BY <1>1, <2>1, LookupIs
<1>5. up # n
  BY <1>2, <1>4
<1>6. T = [nodes EXCEPT ![n] = new, ![up].kids = Append(@, n)]
  BY DEF WithNode
<1>7. nodes \in [Nodes -> Node] /\ nodes[up] \in Node /\ nodes[up].kids \in Seq(Nodes)
  BY <1>4, NodeIs DEF TypeOK
<1>8. Append(nodes[up].kids, n) \in Seq(Nodes)
  BY <1>2, <1>7, AppendProperties
<1>9. new \in Node
  <2> DEFINE name == Last(path)
  <2> HIDE DEF up
  <2>1. up \in Nodes /\ name \in Names
    BY <1>4 DEF Names
  <2> HIDE DEF name
  <2>2. [Unused EXCEPT !.used = TRUE, !.name = name, !.dir = isDir, !.up = up] \in Node
    BY <2>1, UnusedIs DEF Node
  <2> QED BY <2>2 DEF name
<1>10. dad \in Node
  BY <1>7, <1>8 DEF Node
<1> HIDE DEF n, up, new
<1>11. T[n] = new
  BY <1>2, <1>5, <1>6, <1>7
<1>12. T[up] = dad
  BY <1>4, <1>5, <1>6, <1>7
<1>13. \A m \in Nodes : m # n /\ m # up => T[m] = nodes[m]
  BY <1>6, <1>7
<1>14. T \in [Nodes -> Node]
  <2>1. DOMAIN T = Nodes /\ T = [m \in Nodes |-> T[m]]
    BY <1>6, <1>7
  <2>2. \A m \in Nodes : T[m] \in Node
    <3> HIDE DEF T, dad
    <3> QED BY <1>7, <1>9, <1>10, <1>11, <1>12, <1>13
  <2> HIDE DEF T
  <2> QED BY <2>1, <2>2
<1> QED BY <1>1, <1>2, <1>3, <1>4, <1>5, <1>11, <1>12, <1>13, <1>14 DEF n, up, new

\* ... and so the tree stays one, whatever bytes the node gets.
LEMMA GrowStep ==
    ASSUME TypeOK, RootStays, IsTree, NEW path \in Paths, NEW isDir \in BOOLEAN, MayAdd(path),
           nodes' \in [Nodes -> Node],
           \A m \in Nodes : /\ nodes'[m].used = WithNode(path, isDir)[m].used
                            /\ nodes'[m].name = WithNode(path, isDir)[m].name
                            /\ nodes'[m].dir = WithNode(path, isDir)[m].dir
                            /\ nodes'[m].up = WithNode(path, isDir)[m].up
                            /\ nodes'[m].kids = WithNode(path, isDir)[m].kids
    PROVE  RootStays' /\ IsTree'
<1> DEFINE n == Min(FreeNodes)
           up == ParentOf(path)
           T == WithNode(path, isDir)
<1>1. /\ n \in Nodes /\ ~nodes[n].used /\ n # Root
      /\ up \in Nodes /\ nodes[up].used /\ nodes[up].dir /\ up # n
      /\ \A k \in Kids(up) : nodes[k].name # Last(path)
  BY AddIs
<1>2. /\ T[n] = [Unused EXCEPT !.used = TRUE, !.name = Last(path), !.dir = isDir, !.up = up]
      /\ T[up] = [nodes[up] EXCEPT !.kids = Append(@, n)]
      /\ \A m \in Nodes : m # n /\ m # up => T[m] = nodes[m]
  BY AddIs
<1>3. nodes[up] \in Node
  BY <1>1, NodeIs
<1>4. T[n].used /\ T[n].name = Last(path) /\ T[n].up = up /\ T[n].kids = <<>>
  BY <1>2 DEF Unused
<1>5. /\ T[up].used = nodes[up].used /\ T[up].name = nodes[up].name /\ T[up].dir = nodes[up].dir
      /\ T[up].up = nodes[up].up /\ T[up].kids = Append(nodes[up].kids, n)
  BY <1>2, <1>3 DEF Node
<1> HIDE DEF n, up, T
<1>6. \A m \in Nodes : /\ nodes'[m].used = T[m].used /\ nodes'[m].name = T[m].name
                       /\ nodes'[m].dir = T[m].dir /\ nodes'[m].up = T[m].up
                       /\ nodes'[m].kids = T[m].kids
  BY DEF T
<1>7. nodes'[n].used /\ nodes'[n].name = Last(path) /\ nodes'[n].up = up /\ nodes'[n].kids = <<>>
  BY <1>1, <1>4, <1>6
<1>8. \A m \in Nodes : m # n => /\ nodes'[m].used = nodes[m].used /\ nodes'[m].name = nodes[m].name
                                /\ nodes'[m].dir = nodes[m].dir /\ nodes'[m].up = nodes[m].up
  <2>1. SUFFICES ASSUME NEW m \in Nodes, m # n
                 PROVE  /\ nodes'[m].used = nodes[m].used /\ nodes'[m].name = nodes[m].name
                        /\ nodes'[m].dir = nodes[m].dir /\ nodes'[m].up = nodes[m].up
    OBVIOUS
  <2>2. CASE m = up
    BY <2>2, <1>5, <1>6
  <2>3. CASE m # up
    BY <2>1, <2>3, <1>2, <1>6
  <2> QED BY <2>2, <2>3
<1>9. \A m \in Nodes : m # n /\ m # up => nodes'[m].kids = nodes[m].kids
  BY <1>2, <1>6
<1>10. nodes'[up].kids = Append(nodes[up].kids, n)
  BY <1>1, <1>5, <1>6
<1> QED BY <1>1, <1>7, <1>8, <1>9, <1>10, TreeGrows

\* The bytes go where they fit, or the file moves to the first run that is long
\* enough.
LEMMA StoreIs ==
    ASSUME TypeOK, NEW tab \in [Nodes -> Node], NEW k \in Nodes, NEW off \in Nat, NEW n \in Nat,
           NEW v, NEW keep, Store(tab, k, off, n, v, keep)
    PROVE  /\ nodes' \in [Nodes -> Node] /\ bitmap' \subseteq HeapPages
           /\ \A m \in Nodes : /\ nodes'[m].used = tab[m].used /\ nodes'[m].name = tab[m].name
                               /\ nodes'[m].dir = tab[m].dir /\ nodes'[m].up = tab[m].up
                               /\ nodes'[m].kids = tab[m].kids /\ nodes'[m].size = tab[m].size
                               /\ m # k => nodes'[m].data = tab[m].data /\ nodes'[m].cap = tab[m].cap
           /\ \/ off + n <= tab[k].cap /\ nodes' = tab /\ bitmap' = bitmap
              \/ /\ off + n > tab[k].cap
                 /\ nodes'[k].data \in HeapPages /\ nodes'[k].cap >= off + n
                 /\ FreedPages(nodes'[k]) \cap bitmap = {}
                 /\ bitmap' = (bitmap \cup FreedPages(nodes'[k])) \ FreedPages(tab[k])
<1> DEFINE need == PagesFor(off + n)
<1>1. CASE off + n <= tab[k].cap /\ nodes' = tab /\ bitmap' = bitmap
  BY <1>1 DEF TypeOK
<1>2. ASSUME off + n > tab[k].cap, NEW at \in FirstFit(bitmap, need),
             bitmap' = (bitmap \cup Run(at, need)) \ FreedPages(tab[k]),
             nodes' = [tab EXCEPT ![k].data = at, ![k].cap = need * PageBytes]
      PROVE  /\ nodes' \in [Nodes -> Node] /\ bitmap' \subseteq HeapPages
             /\ \A m \in Nodes : /\ nodes'[m].used = tab[m].used /\ nodes'[m].name = tab[m].name
                                 /\ nodes'[m].dir = tab[m].dir /\ nodes'[m].up = tab[m].up
                                 /\ nodes'[m].kids = tab[m].kids /\ nodes'[m].size = tab[m].size
                                 /\ m # k => nodes'[m].data = tab[m].data /\ nodes'[m].cap = tab[m].cap
             /\ nodes'[k].data \in HeapPages /\ nodes'[k].cap >= off + n
             /\ FreedPages(nodes'[k]) \cap bitmap = {}
             /\ bitmap' = (bitmap \cup FreedPages(nodes'[k])) \ FreedPages(tab[k])
  <2>1. /\ need \in Nat /\ need * PageBytes >= off + n /\ need * PageBytes \in Nat
        /\ PagesFor(need * PageBytes) = need
    <3>1. off + n \in Nat
      OBVIOUS
    <3>2. need \in Nat /\ need * PageBytes >= off + n /\ PagesFor(need * PageBytes) = need
      BY <3>1, PagesForIs
    <3>3. PageBytes \in Nat
      BY VfsAssumption
    <3> HIDE DEF need
    <3>4. need * PageBytes \in Nat
      BY <3>2, <3>3
    <3> QED BY <3>2, <3>4
  <2> HIDE DEF need
  <2>2. at \in HeapPages /\ Run(at, need) \subseteq HeapPages /\ Run(at, need) \cap bitmap = {}
    BY <1>2 DEF FirstFit, FreeRun
  <2> DEFINE c == need * PageBytes
  <2>3. c \in Nat /\ c >= off + n /\ PagesFor(c) = need /\ nodes' = [tab EXCEPT ![k].data = at, ![k].cap = c]
    BY <1>2, <2>1
  <2> HIDE DEF c
  <2>4. tab[k] \in Node
    OBVIOUS
  <2>5. nodes'[k] = [tab[k] EXCEPT !.data = at, !.cap = c] /\ \A m \in Nodes : m # k => nodes'[m] = tab[m]
    BY <2>3
  <2>6. /\ nodes'[k] \in Node /\ nodes'[k].data = at /\ nodes'[k].cap = c
        /\ nodes'[k].used = tab[k].used /\ nodes'[k].name = tab[k].name /\ nodes'[k].dir = tab[k].dir
        /\ nodes'[k].up = tab[k].up /\ nodes'[k].kids = tab[k].kids /\ nodes'[k].size = tab[k].size
    BY <2>2, <2>3, <2>4, <2>5 DEF Node
  <2>7. nodes' \in [Nodes -> Node]
    <3>1. nodes' = [m \in Nodes |-> nodes'[m]]
      BY <2>3
    <3>2. \A m \in Nodes : nodes'[m] \in Node
      BY <2>5, <2>6
    <3> QED BY <3>1, <3>2
  <2>8. FreedPages(nodes'[k]) = Run(at, need)
    <3>1. at # NoData
      BY <2>2, PageCountAssumption DEF HeapPages, NoData
    <3> QED BY <2>3, <2>6, <3>1 DEF FreedPages
  <2>9. bitmap' \subseteq HeapPages
    BY <1>2, <2>2 DEF TypeOK
  <2> QED BY <1>2, <2>2, <2>3, <2>5, <2>6, <2>7, <2>8, <2>9
<1>3. \/ off + n <= tab[k].cap /\ nodes' = tab /\ bitmap' = bitmap
      \/ off + n > tab[k].cap /\ \E at \in FirstFit(bitmap, need) :
            /\ bitmap' = (bitmap \cup Run(at, need)) \ FreedPages(tab[k])
            /\ nodes' = [tab EXCEPT ![k].data = at, ![k].cap = need * PageBytes]
  BY DEF Store
<1> HIDE DEF need
<1> QED BY <1>1, <1>2, <1>3

\* The pages of the file that is written, when it moves and when it stays.
LEMMA StorePages ==
    ASSUME TypeOK, PagesOwned, ~stray,
           NEW tab \in [Nodes -> Node], NEW k \in Nodes, NEW off \in Nat, NEW n \in Nat,
           NEW v, NEW keep, Store(tab, k, off, n, v, keep),
           tab[k].used,
           \/ k \in Holders /\ tab[k].data = nodes[k].data /\ tab[k].cap = nodes[k].cap
           \/ k \notin Holders /\ tab[k].data = NoData,
           \/ tab[k].size <= off + n
           \/ nodes[k].used /\ tab[k].size = nodes[k].size /\ tab[k].cap = nodes[k].cap,
           \A m \in Nodes : m # k => /\ tab[m].used = nodes[m].used /\ tab[m].data = nodes[m].data
                                     /\ tab[m].cap = nodes[m].cap /\ tab[m].size = nodes[m].size
    PROVE  PagesOwned'
<1>1. \A m \in Nodes : nodes[m].used => nodes[m].size <= nodes[m].cap
  BY OwnerIs
<1>2. \A m \in Nodes : /\ nodes'[m].used = tab[m].used /\ nodes'[m].size = tab[m].size
                       /\ m # k => nodes'[m].data = nodes[m].data /\ nodes'[m].cap = nodes[m].cap
  <2>1. \A m \in Nodes : /\ nodes'[m].used = tab[m].used /\ nodes'[m].size = tab[m].size
                         /\ m # k => nodes'[m].data = tab[m].data /\ nodes'[m].cap = tab[m].cap
    BY StoreIs
  <2> QED BY <2>1
<1>3. Holders \subseteq Nodes
  BY DEF Holders
<1>4. ASSUME nodes'[k].size <= nodes'[k].cap
      PROVE  \A m \in Nodes : nodes'[m].used => nodes'[m].size <= nodes'[m].cap
  BY <1>1, <1>2, <1>4
<1>5. \A m \in Nodes : m # k => (m \in Holders' <=> m \in Holders)
  BY <1>2 DEF Holders
<1>6. tab[k].size \in Nat /\ tab[k].cap \in Nat /\ nodes[k].size \in Nat
  BY RowIs, NodeIs
<1>7. CASE off + n <= tab[k].cap /\ nodes' = tab /\ bitmap' = bitmap
  <2>1. k \in Holders' <=> k \in Holders
    BY <1>7 DEF Holders
  <2>2. Holders' \subseteq Nodes
    BY DEF Holders
  <2>3. Holders' = Holders
    <3>1. \A m : m \in Holders' <=> m \in Holders
      BY <1>3, <1>5, <2>1, <2>2
    <3> QED BY <3>1
  <2>4. \A m \in Holders : nodes'[m].data = nodes[m].data /\ nodes'[m].cap = nodes[m].cap
    BY <1>2, <1>3, <1>7
  <2>5. nodes'[k].size <= nodes'[k].cap
    BY <1>1, <1>6, <1>7
  <2> QED BY <1>4, <1>7, <2>3, <2>4, <2>5, PagesKept
<1>8. CASE /\ off + n > tab[k].cap
           /\ nodes'[k].data \in HeapPages /\ nodes'[k].cap >= off + n
           /\ FreedPages(nodes'[k]) \cap bitmap = {}
           /\ bitmap' = (bitmap \cup FreedPages(nodes'[k])) \ FreedPages(tab[k])
  <2>1. FreedPages(tab[k]) = IF k \in Holders THEN FreedPages(nodes[k]) ELSE {}
    BY DEF FreedPages
  <2>2. k \in Holders'
    <3>1. nodes'[k].data # NoData
      BY <1>8, PageCountAssumption DEF HeapPages, NoData
    <3> QED BY <1>2, <3>1 DEF Holders
  <2>3. Holders' \subseteq Nodes
    BY DEF Holders
  <2>4. Holders' = Holders \cup {k}
    BY <1>3, <1>5, <2>2, <2>3
  <2>5. \A m \in Holders : m # k => nodes'[m].data = nodes[m].data /\ nodes'[m].cap = nodes[m].cap
    BY <1>2, <1>3
  <2>6. nodes'[k].size <= nodes'[k].cap
    <3>1. nodes'[k].size = tab[k].size /\ nodes'[k].cap \in Nat
      BY <1>2, StoreIs, RowIs
    <3>2. tab[k].size <= off + n
      BY <1>1, <1>6, <1>8
    <3> QED BY <1>6, <1>8, <3>1, <3>2
  <2> QED BY <1>4, <1>8, <2>1, <2>4, <2>5, <2>6, PagesMove
<1> QED BY <1>7, <1>8, StoreIs

\* A row of the table with another size.
LEMMA SizedIs ==
    ASSUME NEW tab \in [Nodes -> Node], NEW k \in Nodes, NEW size \in Nat
    PROVE  /\ [tab EXCEPT ![k].size = size] \in [Nodes -> Node]
           /\ [tab EXCEPT ![k].size = size][k].size = size
           /\ \A m \in Nodes :
                 /\ [tab EXCEPT ![k].size = size][m].used = tab[m].used
                 /\ [tab EXCEPT ![k].size = size][m].name = tab[m].name
                 /\ [tab EXCEPT ![k].size = size][m].dir = tab[m].dir
                 /\ [tab EXCEPT ![k].size = size][m].up = tab[m].up
                 /\ [tab EXCEPT ![k].size = size][m].kids = tab[m].kids
                 /\ [tab EXCEPT ![k].size = size][m].data = tab[m].data
                 /\ [tab EXCEPT ![k].size = size][m].cap = tab[m].cap
                 /\ m # k => [tab EXCEPT ![k].size = size][m].size = tab[m].size
<1> DEFINE T == [tab EXCEPT ![k].size = size]
<1>1. \A m \in Nodes : T[m] = IF m = k THEN [tab[k] EXCEPT !.size = size] ELSE tab[m]
  OBVIOUS
<1>2. T = [m \in Nodes |-> T[m]]
  OBVIOUS
<1>3. tab[k] \in Node
  OBVIOUS
<1>4. [tab[k] EXCEPT !.size = size] \in Node
  BY <1>3 DEF Node
<1> HIDE DEF T
<1>5. T \in [Nodes -> Node]
  BY <1>1, <1>2, <1>4
<1>6. T[k].size = size
  BY <1>1, <1>3 DEF Node
<1>7. \A m \in Nodes :
         /\ T[m].used = tab[m].used /\ T[m].name = tab[m].name /\ T[m].dir = tab[m].dir
         /\ T[m].up = tab[m].up /\ T[m].kids = tab[m].kids /\ T[m].data = tab[m].data
         /\ T[m].cap = tab[m].cap /\ (m # k => T[m].size = tab[m].size)
  BY <1>1, <1>3 DEF Node
<1> QED BY <1>5, <1>6, <1>7 DEF T

\* A new node holds nothing.
LEMMA NewHoldsNothing ==
    ASSUME TypeOK, RootStays, IsTree, NEW path \in Paths, NEW isDir \in BOOLEAN, MayAdd(path)
    PROVE  /\ Min(FreeNodes) \notin Holders
           /\ WithNode(path, isDir)[Min(FreeNodes)].used
           /\ WithNode(path, isDir)[Min(FreeNodes)].data = NoData
           /\ WithNode(path, isDir)[Min(FreeNodes)].cap = 0
           /\ WithNode(path, isDir)[Min(FreeNodes)].size = 0
           /\ \A m \in Nodes : m # Min(FreeNodes) =>
                 /\ WithNode(path, isDir)[m].used = nodes[m].used
                 /\ WithNode(path, isDir)[m].data = nodes[m].data
                 /\ WithNode(path, isDir)[m].cap = nodes[m].cap
                 /\ WithNode(path, isDir)[m].size = nodes[m].size
<1> DEFINE n == Min(FreeNodes)
           up == ParentOf(path)
           T == WithNode(path, isDir)
<1>1. n \in Nodes /\ ~nodes[n].used /\ up \in Nodes
  BY AddIs
<1>2. n \notin Holders
  BY <1>1 DEF Holders
<1>3. /\ T[n] = [Unused EXCEPT !.used = TRUE, !.name = Last(path), !.dir = isDir, !.up = up]
      /\ T[up] = [nodes[up] EXCEPT !.kids = Append(@, n)]
      /\ \A m \in Nodes : m # n /\ m # up => T[m] = nodes[m]
  BY AddIs
<1>4. nodes[up] \in Node
  BY <1>1, NodeIs
<1>5. T[n].used /\ T[n].data = NoData /\ T[n].cap = 0 /\ T[n].size = 0
  BY <1>3 DEF Unused
<1>6. /\ T[up].used = nodes[up].used /\ T[up].data = nodes[up].data /\ T[up].cap = nodes[up].cap
      /\ T[up].size = nodes[up].size
  BY <1>3, <1>4 DEF Node
<1> HIDE DEF n, up, T
<1>7. ASSUME NEW m \in Nodes, m # n
      PROVE  /\ T[m].used = nodes[m].used /\ T[m].data = nodes[m].data
             /\ T[m].cap = nodes[m].cap /\ T[m].size = nodes[m].size
  <2>1. CASE m = up
    BY <2>1, <1>6
  <2>2. CASE m # up
    BY <2>2, <1>3, <1>7
  <2> QED BY <2>1, <2>2
<1> QED BY <1>2, <1>5, <1>7 DEF n, T

-----------------------------------------------------------------------------
(* The invariant.                                                          *)

LEMMA MountSeqIs ==
    /\ DOMAIN MountSeq = 1 .. Cardinality(Mounts) /\ Cardinality(Mounts) \in Nat
    /\ \A i \in DOMAIN MountSeq : MountSeq[i] \in Mounts
    /\ \A i, j \in DOMAIN MountSeq : MountSeq[i] = MountSeq[j] => i = j
<1>1. Cardinality(Mounts) \in Nat /\ ExistsBijection(1 .. Cardinality(Mounts), Mounts)
  BY VfsAssumption, FS_CardinalityType
<1>2. \E f \in [1 .. Cardinality(Mounts) -> Mounts] : IsInjective(f)
  BY <1>1 DEF ExistsBijection, Bijection, Injection, IsInjective
<1>3. MountSeq \in [1 .. Cardinality(Mounts) -> Mounts] /\ IsInjective(MountSeq)
  BY <1>2 DEF MountSeq, SetToSeq
<1> QED BY <1>1, <1>3 DEF IsInjective

LEMMA InitIInv == Init => IInv
<1> SUFFICES ASSUME Init PROVE IInv
  OBVIOUS
<1> DEFINE N == Cardinality(Mounts)
           kids == [i \in 1 .. N |-> i]
           root == [Unused EXCEPT !.used = TRUE, !.name = "/", !.dir = TRUE, !.kids = kids]
           mount(n) == [Unused EXCEPT !.used = TRUE, !.name = MountSeq[n], !.dir = TRUE, !.up = Root]
<1>1. N \in Nat /\ N <= MaxNode /\ MaxNode \in Nat /\ DOMAIN MountSeq = 1 .. N
      /\ (\A i \in 1 .. N : MountSeq[i] \in Mounts)
      /\ (\A i, j \in 1 .. N : MountSeq[i] = MountSeq[j] => i = j)
  BY MountSeqIs, VfsAssumption
<1> HIDE DEF N
<1>2. /\ nodes = [n \in Nodes |-> IF n = Root THEN root ELSE IF n \in 1 .. N THEN mount(n) ELSE Unused]
      /\ bitmap = {} /\ fds = [i \in Fds |-> Closed] /\ booting = TRUE /\ stray = FALSE
  BY <1>1 DEF Init
<1>3. Root \in Nodes /\ Root = 0 /\ (\A i \in 1 .. N : i \in Nodes /\ i # Root) /\ Nodes = 0 .. MaxNode
  BY <1>1 DEF Root, Nodes
<1>4. kids \in Seq(Nodes) /\ kids \in Seq(1 .. N) /\ Len(kids) = N /\ DOMAIN kids = 1 .. N
      /\ \A i \in 1 .. N : kids[i] = i
  BY <1>1, <1>3
<1>5. ToSet(kids) = 1 .. N /\ IsInjective(kids)
  BY <1>4 DEF ToSet, IsInjective
<1> HIDE DEF kids
<1>6. root \in Node /\ root.used /\ root.dir /\ root.kids = kids /\ root.data = NoData /\ root.cap = 0 /\ root.size = 0
  <2> DEFINE name == "/"
  <2>1. name \in Names
    BY DEF Names
  <2>2. root = [Unused EXCEPT !.used = TRUE, !.name = name, !.dir = TRUE, !.kids = kids]
    OBVIOUS
  <2> HIDE DEF name, root
  <2>3. root \in Node /\ root.used /\ root.dir /\ root.kids = kids
    BY <1>4, <2>1, <2>2, UnusedIs DEF Node
  <2>4. root.data = Unused.data /\ root.cap = Unused.cap /\ root.size = Unused.size
    BY <2>2, UnusedIs DEF Node
  <2> QED BY <2>3, <2>4, UnusedHolds
<1>7. ASSUME NEW n \in 1 .. N
      PROVE  /\ mount(n) \in Node /\ mount(n).used /\ mount(n).dir /\ mount(n).up = Root
             /\ mount(n).name = MountSeq[n] /\ mount(n).kids = <<>>
             /\ mount(n).data = NoData /\ mount(n).cap = 0 /\ mount(n).size = 0
  <2> DEFINE name == MountSeq[n]
             x == [Unused EXCEPT !.used = TRUE, !.name = name, !.dir = TRUE, !.up = Root]
  <2>1. name \in Names
    BY <1>1 DEF Names
  <2> HIDE DEF name
  <2>2. x \in Node /\ x.used /\ x.dir /\ x.up = Root /\ x.name = name
    BY <1>3, <2>1, UnusedIs DEF Node
  <2>3. x.kids = Unused.kids /\ x.data = Unused.data /\ x.cap = Unused.cap /\ x.size = Unused.size
    BY UnusedIs DEF Node
  <2>4. mount(n) = x
    BY DEF name
  <2> HIDE DEF x, mount
  <2> QED BY <2>2, <2>3, <2>4, UnusedHolds DEF name
<1> HIDE DEF root, mount
<1>8. /\ nodes[Root] = root
      /\ \A n \in 1 .. N : nodes[n] = mount(n)
      /\ \A n \in Nodes : n # Root /\ n \notin 1 .. N => nodes[n] = Unused
  BY <1>2, <1>3
<1>9. TypeOK
  <2>1. nodes \in [Nodes -> Node]
    BY <1>2, <1>6, <1>7, UnusedIs
  <2>2. fds \in [Fds -> Fd \cup {Closed}]
    BY <1>2
  <2> QED BY <1>2, <2>1, <2>2 DEF TypeOK
<1>10. RootStays
  BY <1>6, <1>8 DEF RootStays
<1>11. \A n \in Nodes : /\ nodes[n].used <=> n = Root \/ n \in 1 .. N
                        /\ nodes[n].data = NoData /\ nodes[n].cap = 0 /\ nodes[n].size = 0
                        /\ n # Root => nodes[n].kids = <<>>
  BY <1>6, <1>7, <1>8, UnusedHolds
<1>12. Kids(Root) = 1 .. N /\ \A n \in Nodes : n # Root => Kids(n) = {}
  <2>1. Kids(Root) = 1 .. N
    BY <1>5, <1>6, <1>8 DEF Kids
  <2>2. \A n \in Nodes : n # Root => Kids(n) = {}
    BY <1>11 DEF Kids, ToSet
  <2> QED BY <2>1, <2>2
<1>13. IsTree
  <2>1. \A n \in Nodes : nodes[n].used /\ n # Root <=> \E m \in Nodes : nodes[m].used /\ n \in Kids(m)
    BY <1>3, <1>11, <1>12
  <2>2. ASSUME NEW n \in Nodes, nodes[n].used
        PROVE  /\ IsInjective(nodes[n].kids)
               /\ Kids(n) # {} => nodes[n].dir
               /\ \A k, l \in Kids(n) : nodes[k].up = n /\ (nodes[k].name = nodes[l].name => k = l)
    <3>1. CASE n = Root
      <4>1. IsInjective(nodes[n].kids) /\ nodes[n].dir
        BY <3>1, <1>5, <1>6, <1>8
      <4>2. \A k, l \in 1 .. N : nodes[k].up = n /\ (nodes[k].name = nodes[l].name => k = l)
        BY <3>1, <1>1, <1>7, <1>8
      <4> QED BY <3>1, <4>1, <4>2, <1>12
    <3>2. CASE n # Root
      <4>1. nodes[n].kids = <<>>
        BY <3>2, <1>11
      <4>2. IsInjective(nodes[n].kids)
        BY <4>1 DEF IsInjective
      <4> QED BY <3>2, <4>2, <1>12
    <3> QED BY <3>1, <3>2
  <2> QED BY <2>1, <2>2 DEF IsTree
<1>14. FdsLive
  BY <1>2 DEF FdsLive, Closed
<1>15. PagesOwned
  <2>1. Holders = {}
    BY <1>11 DEF Holders
  <2>2. \A n \in Nodes : nodes[n].size <= nodes[n].cap
    BY <1>11
  <2> QED BY <1>2, <2>1, <2>2 DEF PagesOwned
<1> QED BY <1>9, <1>10, <1>13, <1>14, <1>15 DEF IInv

\* A call that adds a node and stores no bytes.
LEMMA AddStep ==
    ASSUME TypeOK, RootStays, IsTree, FdsLive, PagesOwned,
           NEW path \in Paths, NEW isDir \in BOOLEAN, MayAdd(path),
           nodes' = WithNode(path, isDir), bitmap' = bitmap, stray' = stray
    PROVE  nodes' \in [Nodes -> Node] /\ RootStays' /\ IsTree' /\ PagesOwned'
<1>1. nodes' \in [Nodes -> Node]
  BY AddIs
<1>2. RootStays' /\ IsTree'
  BY <1>1, GrowStep
<1>3. PagesOwned'
  <2>1. CASE stray
    BY <2>1 DEF PagesOwned
  <2>2. CASE ~stray
    <3> DEFINE n == Min(FreeNodes)
    <3>1. /\ n \in Nodes /\ n \notin Holders /\ nodes'[n].data = NoData
          /\ nodes'[n].cap = 0 /\ nodes'[n].size = 0
          /\ \A m \in Nodes : m # n =>
                /\ nodes'[m].used = nodes[m].used /\ nodes'[m].data = nodes[m].data
                /\ nodes'[m].cap = nodes[m].cap /\ nodes'[m].size = nodes[m].size
      <4>1. n \in Nodes
        BY AddIs
      <4> QED BY <4>1, NewHoldsNothing
    <3> HIDE DEF n
    <3>2. \A m : m \in Holders' <=> m \in Holders
      BY <3>1 DEF Holders
    <3>3. Holders' = Holders
      BY <3>2
    <3>4. \A m \in Holders : nodes'[m].data = nodes[m].data /\ nodes'[m].cap = nodes[m].cap
      BY <3>1 DEF Holders
    <3>5. \A m \in Nodes : nodes'[m].used => nodes'[m].size <= nodes'[m].cap
      BY <3>1, <2>2, OwnerIs
    <3> QED BY <2>2, <3>3, <3>4, <3>5, PagesKept
  <2> QED BY <2>1, <2>2
<1> QED BY <1>1, <1>2, <1>3

\* No descriptor of a node that was there loses it.
LEMMA FdsKept ==
    ASSUME TypeOK, FdsLive, \A m \in Nodes : nodes[m].used => nodes'[m].used,
           \A i \in Fds : fds'[i].used =>
              \/ fds[i].used /\ fds'[i].node = fds[i].node /\ fds'[i].gone = fds[i].gone
              \/ fds'[i].node \in Nodes /\ nodes'[fds'[i].node].used
    PROVE  FdsLive'
<1>1. ASSUME NEW i \in Fds, fds[i].used PROVE fds[i].node \in Nodes
  <2>1. fds[i] \in Fd \cup {Closed}
    BY DEF TypeOK
  <2>2. fds[i] \in Fd
    BY <1>1, <2>1 DEF Closed
  <2> QED BY <2>2 DEF Fd
<1>2. ASSUME NEW i \in Fds, fds'[i].used PROVE fds'[i].gone \/ nodes'[fds'[i].node].used
  <2>1. CASE fds'[i].node \in Nodes /\ nodes'[fds'[i].node].used
    BY <2>1
  <2>2. CASE fds[i].used /\ fds'[i].node = fds[i].node /\ fds'[i].gone = fds[i].gone
    BY <1>1, <2>2 DEF FdsLive
  <2> QED BY <1>2, <2>1, <2>2
<1> QED BY <1>2 DEF FdsLive

\* vfs_open gives a descriptor of the node, or none.
LEMMA WithFdIs ==
    ASSUME TypeOK, NEW flags \in Modes, NEW n \in Nodes, NEW size \in Nat, fds' = WithFd(flags, n, size)
    PROVE  /\ fds' \in [Fds -> Fd \cup {Closed}]
           /\ \A i \in Fds : fds'[i] = fds[i] \/ (fds'[i].used /\ fds'[i].node = n)
<1> DEFINE j == Min(FreeFds)
           f == [used |-> TRUE, node |-> n, flags |-> flags, gone |-> FALSE,
                 offset |-> IF "append" \in flags THEN size ELSE 0]
<1>1. f \in Fd /\ f.used /\ f.node = n
  BY DEF Fd
<1> HIDE DEF f
<1>2. CASE FreeFds = {}
  BY <1>2 DEF WithFd, TypeOK
<1>3. CASE FreeFds # {}
  <2>1. FreeFds \in SUBSET Nat
    BY VfsAssumption DEF FreeFds, Fds
  <2>2. j \in Fds
    BY <1>3, <2>1, MinIs DEF FreeFds
  <2>3. fds' = [fds EXCEPT ![j] = f]
    BY <1>3 DEF WithFd, f
  <2> HIDE DEF j
  <2> QED BY <1>1, <2>2, <2>3 DEF TypeOK
<1> QED BY <1>2, <1>3

LEMMA MkDirStep ==
    ASSUME IInv, NEW path \in Paths, MkDir(path)
    PROVE  IInv'
<1> USE DEF IInv
<1>1. MayAdd(path) /\ nodes' = WithNode(path, TRUE) /\ UNCHANGED <<bitmap, mem, fds, booting, stray>>
  BY DEF MkDir
<1>2. nodes' \in [Nodes -> Node] /\ RootStays' /\ IsTree' /\ PagesOwned'
  BY <1>1, AddStep
<1>3. TypeOK'
  BY <1>1, <1>2 DEF TypeOK
<1>4. FdsLive'
  <2>1. \A m \in Nodes : nodes[m].used => nodes'[m].used
    BY <1>1, NewHoldsNothing
  <2> QED BY <1>1, <2>1, FdsKept
<1> QED BY <1>2, <1>3, <1>4

LEMMA OpenNewStep ==
    ASSUME IInv, NEW path \in Paths, NEW flags \in Modes, OpenNew(path, flags)
    PROVE  IInv'
<1> USE DEF IInv
<1> DEFINE n == Min(FreeNodes)
<1>1. /\ MayAdd(path) /\ nodes' = WithNode(path, FALSE) /\ fds' = WithFd(flags, n, 0)
      /\ UNCHANGED <<bitmap, mem, booting, stray>>
  BY DEF OpenNew
<1>2. nodes' \in [Nodes -> Node] /\ RootStays' /\ IsTree' /\ PagesOwned'
  BY <1>1, AddStep
<1>3. n \in Nodes /\ nodes'[n].used /\ \A m \in Nodes : nodes[m].used => nodes'[m].used
  BY <1>1, AddIs, NewHoldsNothing
<1> HIDE DEF n
<1>4. /\ fds' \in [Fds -> Fd \cup {Closed}]
      /\ \A i \in Fds : fds'[i] = fds[i] \/ (fds'[i].used /\ fds'[i].node = n)
  BY <1>1, <1>3, WithFdIs
<1>5. TypeOK'
  BY <1>1, <1>2, <1>4 DEF TypeOK
<1>6. FdsLive'
  BY <1>3, <1>4, FdsKept
<1> QED BY <1>2, <1>5, <1>6

\* The file that is cut keeps its pages, and its size fits in them.
LEMMA OpenExistingStep ==
    ASSUME IInv, NEW path \in Paths, NEW flags \in Modes, OpenExisting(path, flags)
    PROVE  IInv'
<1> USE DEF IInv
<1> DEFINE n == Lookup(path)
           size == IF {"trunc", "write"} \subseteq flags THEN 0 ELSE nodes[n].size
<1>1. /\ n # NoNode /\ nodes' = [nodes EXCEPT ![n].size = size] /\ fds' = WithFd(flags, n, size)
      /\ UNCHANGED <<bitmap, mem, booting, stray>>
  BY DEF OpenExisting
<1>2. n \in Nodes /\ nodes[n].used
  BY <1>1, LookupIs
<1>3. nodes[n].size \in Nat /\ nodes[n].cap \in Nat
  BY <1>2, NodeIs
<1>4. size \in Nat /\ size <= nodes[n].size
  BY <1>3
<1> HIDE DEF n, size
<1>5. /\ nodes' \in [Nodes -> Node] /\ nodes'[n].size = size
      /\ \A m \in Nodes :
            /\ nodes'[m].used = nodes[m].used /\ nodes'[m].name = nodes[m].name
            /\ nodes'[m].dir = nodes[m].dir /\ nodes'[m].up = nodes[m].up
            /\ nodes'[m].kids = nodes[m].kids /\ nodes'[m].data = nodes[m].data
            /\ nodes'[m].cap = nodes[m].cap /\ (m # n => nodes'[m].size = nodes[m].size)
  <2>1. nodes \in [Nodes -> Node]
    BY DEF TypeOK
  <2> QED BY <1>1, <1>2, <1>4, <2>1, SizedIs
<1>6. /\ fds' \in [Fds -> Fd \cup {Closed}]
      /\ \A i \in Fds : fds'[i] = fds[i] \/ (fds'[i].used /\ fds'[i].node = n)
  BY <1>1, <1>2, <1>4, WithFdIs
<1>7. TypeOK'
  BY <1>1, <1>5, <1>6 DEF TypeOK
<1>8. RootStays' /\ IsTree'
  BY <1>5, TreeKept
<1>9. FdsLive'
  BY <1>2, <1>5, <1>6, FdsKept
<1>10. PagesOwned'
  <2>1. CASE stray
    BY <1>1, <2>1 DEF PagesOwned
  <2>2. CASE ~stray
    <3>1. Holders' = Holders
      BY <1>5 DEF Holders
    <3>2. \A m \in Holders : nodes'[m].data = nodes[m].data /\ nodes'[m].cap = nodes[m].cap
      BY <1>5 DEF Holders
    <3>3. \A m \in Nodes : nodes'[m].used => nodes'[m].size <= nodes'[m].cap
      <4>1. SUFFICES ASSUME NEW m \in Nodes, nodes'[m].used PROVE nodes'[m].size <= nodes'[m].cap
        OBVIOUS
      <4>2. nodes[m].size <= nodes[m].cap /\ nodes'[m].cap = nodes[m].cap
        BY <2>2, <4>1, <1>5, OwnerIs
      <4>3. CASE m = n
        BY <4>2, <4>3, <1>3, <1>4, <1>5
      <4>4. CASE m # n
        BY <4>2, <4>4, <1>5
      <4> QED BY <4>3, <4>4
    <3> QED BY <1>1, <2>2, <3>1, <3>2, <3>3, PagesKept
  <2> QED BY <2>1, <2>2
<1> QED BY <1>7, <1>8, <1>9, <1>10

\* Descriptors, the root, the tree and the pages are as before.
LEMMA SameTable ==
    ASSUME IInv, UNCHANGED <<nodes, bitmap>>, stray => stray'
    PROVE  RootStays' /\ IsTree' /\ PagesOwned'
<1> USE DEF IInv
<1>1. RootStays' /\ IsTree'
  BY TreeKept
<1>2. PagesOwned'
  BY DEF PagesOwned, Holders, FreedPages
<1> QED BY <1>1, <1>2

LEMMA CloseFileStep ==
    ASSUME IInv, NEW i \in Fds, CloseFile(i)
    PROVE  IInv'
<1> USE DEF IInv
<1>1. fds' = [fds EXCEPT ![i] = Closed] /\ UNCHANGED <<nodes, bitmap, mem, booting, stray>>
  BY DEF CloseFile
<1>2. RootStays' /\ IsTree' /\ PagesOwned'
  BY <1>1, SameTable
<1>3. TypeOK'
  BY <1>1 DEF TypeOK
<1>4. FdsLive'
  BY <1>1 DEF FdsLive, TypeOK, Closed
<1> QED BY <1>2, <1>3, <1>4

LEMMA FdIs ==
    ASSUME TypeOK, NEW i \in Fds, fds[i].used
    PROVE  /\ fds[i] \in Fd /\ fds[i].node \in Nodes /\ fds[i].offset \in Nat
           /\ fds[i].gone \in BOOLEAN
<1>1. fds[i] \in Fd \cup {Closed}
  BY DEF TypeOK
<1>2. fds[i] \in Fd
  BY <1>1 DEF Closed
<1> QED BY <1>2 DEF Fd

\* A descriptor whose offset moves.
LEMMA FdMoves ==
    ASSUME TypeOK, NEW i \in Fds, fds[i].used, NEW off \in Nat, fds' = [fds EXCEPT ![i].offset = off]
    PROVE  /\ fds' \in [Fds -> Fd \cup {Closed}]
           /\ fds'[i].node = fds[i].node /\ fds'[i].gone = fds[i].gone /\ fds'[i].used
           /\ \A j \in Fds : j # i => fds'[j] = fds[j]
<1>1. fds \in [Fds -> Fd \cup {Closed}] /\ fds[i] \in Fd
  BY FdIs DEF TypeOK
<1> DEFINE f == [fds[i] EXCEPT !.offset = off]
<1>2. f \in Fd /\ f.node = fds[i].node /\ f.gone = fds[i].gone /\ f.used
  BY <1>1 DEF Fd
<1>3. fds' = [fds EXCEPT ![i] = f]
  OBVIOUS
<1> HIDE DEF f
<1> QED BY <1>1, <1>2, <1>3

LEMMA ReadFileStep ==
    ASSUME IInv, NEW i \in Fds, NEW n \in Nat, ReadFile(i, n)
    PROVE  IInv'
<1> USE DEF IInv
<1> DEFINE k == fds[i].node
           off == fds[i].offset
           got == Got(k, off, n)
<1>1. /\ fds[i].used /\ off < nodes[k].size /\ fds' = [fds EXCEPT ![i].offset = @ + Len(got)]
      /\ stray' = (stray \/ fds[i].gone) /\ UNCHANGED <<nodes, bitmap, mem, booting>>
  BY DEF ReadFile
<1>2. k \in Nodes /\ off \in Nat /\ fds[i].gone \in BOOLEAN
  BY <1>1, FdIs
<1>3. Len(got) \in Nat
  <2> DEFINE l == Least(n, nodes[k].size - off)
             T == {got[j] : j \in 1 .. l}
  <2>1. nodes[k].size \in Nat
    BY <1>2, NodeIs
  <2>2. l \in Nat
    BY <1>1, <1>2, <2>1 DEF Least
  <2>3. DOMAIN got = 1 .. l /\ got = [j \in 1 .. l |-> got[j]]
    BY DEF Got
  <2> HIDE DEF l, got
  <2>4. got \in Seq(T)
    BY <2>2, <2>3
  <2> QED BY <2>4
<1> HIDE DEF got
<1>4. off + Len(got) \in Nat /\ fds' = [fds EXCEPT ![i].offset = off + Len(got)]
  BY <1>1, <1>2, <1>3
<1>5. /\ fds' \in [Fds -> Fd \cup {Closed}] /\ fds'[i].node = fds[i].node /\ fds'[i].gone = fds[i].gone
      /\ \A j \in Fds : j # i => fds'[j] = fds[j]
  BY <1>1, <1>4, FdMoves
<1>6. RootStays' /\ IsTree' /\ PagesOwned'
  BY <1>1, SameTable
<1>7. TypeOK'
  BY <1>1, <1>2, <1>5 DEF TypeOK
<1>8. FdsLive'
  BY <1>1, <1>5, FdsKept
<1> QED BY <1>6, <1>7, <1>8

\* A write through a descriptor of a removed file strays; any other finds its
\* node in use, by FdsLive.
LEMMA WriteFileStep ==
    ASSUME IInv, NEW i \in Fds, NEW n \in Nat, NEW v, WriteFile(i, n, v)
    PROVE  IInv'
<1> USE DEF IInv
<1> DEFINE k == fds[i].node
           off == fds[i].offset
           size == SizeAfter(k, off + n)
           tab == [nodes EXCEPT ![k].size = size]
<1>1. /\ fds[i].used /\ Store(tab, k, off, n, v, Copied(k))
      /\ fds' = [fds EXCEPT ![i].offset = @ + n]
      /\ stray' = (stray \/ fds[i].gone \/ off > nodes[k].size) /\ UNCHANGED booting
  BY DEF WriteFile
<1>2. k \in Nodes /\ off \in Nat /\ fds[i].gone \in BOOLEAN /\ off + n \in Nat
  BY <1>1, FdIs
<1>3. nodes[k].size \in Nat /\ nodes \in [Nodes -> Node]
  BY <1>2, NodeIs DEF TypeOK
<1>4. size \in Nat /\ (size = off + n \/ size = nodes[k].size)
  BY <1>2, <1>3 DEF SizeAfter
<1> HIDE DEF size, k, off
<1>5. /\ tab \in [Nodes -> Node] /\ tab[k].size = size
      /\ \A m \in Nodes :
            /\ tab[m].used = nodes[m].used /\ tab[m].name = nodes[m].name
            /\ tab[m].dir = nodes[m].dir /\ tab[m].up = nodes[m].up
            /\ tab[m].kids = nodes[m].kids /\ tab[m].data = nodes[m].data
            /\ tab[m].cap = nodes[m].cap /\ (m # k => tab[m].size = nodes[m].size)
  BY <1>2, <1>3, <1>4, SizedIs
<1> HIDE DEF tab
<1>6. /\ nodes' \in [Nodes -> Node] /\ bitmap' \subseteq HeapPages
      /\ \A m \in Nodes : /\ nodes'[m].used = tab[m].used /\ nodes'[m].name = tab[m].name
                          /\ nodes'[m].dir = tab[m].dir /\ nodes'[m].up = tab[m].up
                          /\ nodes'[m].kids = tab[m].kids
  BY <1>1, <1>2, <1>5, StoreIs
<1>7. RootStays' /\ IsTree'
  BY <1>5, <1>6, TreeKept
<1>8. fds' = [fds EXCEPT ![i].offset = off + n]
  BY <1>1 DEF off
<1>9. /\ fds' \in [Fds -> Fd \cup {Closed}] /\ fds'[i].node = fds[i].node /\ fds'[i].gone = fds[i].gone
      /\ \A j \in Fds : j # i => fds'[j] = fds[j]
  BY <1>1, <1>2, <1>8, FdMoves
<1>10. TypeOK'
  BY <1>1, <1>2, <1>6, <1>9 DEF TypeOK
<1>11. FdsLive'
  BY <1>1, <1>5, <1>6, <1>9, FdsKept
<1>12. PagesOwned'
  <2>1. CASE stray'
    BY <2>1 DEF PagesOwned
  <2>2. CASE ~stray'
    <3>1. ~stray /\ ~fds[i].gone
      BY <1>1, <2>2
    <3>2. nodes[k].used
      BY <1>1, <3>1 DEF FdsLive, k
    <3>3. tab[k].used /\ tab[k].data = nodes[k].data /\ tab[k].cap = nodes[k].cap
      BY <1>2, <1>5, <3>2
    <3>4. \/ k \in Holders /\ tab[k].data = nodes[k].data /\ tab[k].cap = nodes[k].cap
          \/ k \notin Holders /\ tab[k].data = NoData
      BY <1>2, <3>2, <3>3 DEF Holders
    <3>5. \/ tab[k].size <= off + n
          \/ nodes[k].used /\ tab[k].size = nodes[k].size /\ tab[k].cap = nodes[k].cap
      BY <1>2, <1>4, <1>5, <3>2, <3>3
    <3>6. \A m \in Nodes : m # k => /\ tab[m].used = nodes[m].used /\ tab[m].data = nodes[m].data
                                    /\ tab[m].cap = nodes[m].cap /\ tab[m].size = nodes[m].size
      BY <1>5
    <3> QED BY <1>1, <1>2, <1>5, <3>1, <3>3, <3>4, <3>5, <3>6, StorePages
  <2> QED BY <2>1, <2>2
<1> QED BY <1>7, <1>10, <1>11, <1>12

LEMMA UnpackStep ==
    ASSUME IInv, NEW path \in Paths, NEW n \in Nat, NEW v, Unpack(path, n, v)
    PROVE  IInv'
<1> USE DEF IInv
<1> DEFINE k == Min(FreeNodes)
           new == WithNode(path, FALSE)
           tab == [new EXCEPT ![k].size = n]
<1>1. /\ MayAdd(path) /\ UNCHANGED <<fds, booting, stray>>
      /\ \/ Store(tab, k, 0, n, v, 0)
         \/ nodes' = new /\ UNCHANGED <<bitmap, mem>>
  BY DEF Unpack
<1>2. /\ k \in Nodes /\ k \notin Holders /\ new \in [Nodes -> Node]
      /\ new[k].used /\ new[k].data = NoData
      /\ \A m \in Nodes : m # k =>
            /\ new[m].used = nodes[m].used /\ new[m].data = nodes[m].data
            /\ new[m].cap = nodes[m].cap /\ new[m].size = nodes[m].size
  <2>1. k \in Nodes /\ new \in [Nodes -> Node]
    BY <1>1, AddIs
  <2> QED BY <1>1, <2>1, NewHoldsNothing
<1>3. ASSUME nodes' \in [Nodes -> Node], bitmap' \subseteq HeapPages, RootStays', IsTree', PagesOwned',
             \A m \in Nodes : nodes[m].used => nodes'[m].used
      PROVE  IInv'
  <2>1. TypeOK'
    BY <1>1, <1>3 DEF TypeOK
  <2>2. FdsLive'
    BY <1>1, <1>3, FdsKept
  <2> QED BY <1>3, <2>1, <2>2
<1>4. CASE nodes' = new /\ UNCHANGED <<bitmap, mem>>
  <2>1. nodes' \in [Nodes -> Node] /\ RootStays' /\ IsTree' /\ PagesOwned'
    BY <1>1, <1>4, AddStep
  <2>2. bitmap' \subseteq HeapPages
    BY <1>4 DEF TypeOK
  <2>3. \A m \in Nodes : nodes[m].used => nodes'[m].used
    BY <1>2, <1>4
  <2> HIDE DEF IInv
  <2> QED BY <1>3, <2>1, <2>2, <2>3
<1>5. CASE Store(tab, k, 0, n, v, 0)
  <2> HIDE DEF k, new
  <2>1. /\ tab \in [Nodes -> Node] /\ tab[k].size = n
        /\ \A m \in Nodes :
              /\ tab[m].used = new[m].used /\ tab[m].name = new[m].name
              /\ tab[m].dir = new[m].dir /\ tab[m].up = new[m].up
              /\ tab[m].kids = new[m].kids /\ tab[m].data = new[m].data
              /\ tab[m].cap = new[m].cap /\ (m # k => tab[m].size = new[m].size)
    BY <1>2, SizedIs
  <2> HIDE DEF tab
  <2>2. /\ nodes' \in [Nodes -> Node] /\ bitmap' \subseteq HeapPages
        /\ \A m \in Nodes : /\ nodes'[m].used = tab[m].used /\ nodes'[m].name = tab[m].name
                            /\ nodes'[m].dir = tab[m].dir /\ nodes'[m].up = tab[m].up
                            /\ nodes'[m].kids = tab[m].kids
    BY <1>2, <1>5, <2>1, StoreIs
  <2>3. RootStays' /\ IsTree'
    <3>1. \A m \in Nodes : /\ nodes'[m].used = new[m].used /\ nodes'[m].name = new[m].name
                           /\ nodes'[m].dir = new[m].dir /\ nodes'[m].up = new[m].up
                           /\ nodes'[m].kids = new[m].kids
      BY <2>1, <2>2
    <3> QED BY <1>1, <2>2, <3>1, GrowStep DEF new
  <2>4. PagesOwned'
    <3>1. CASE stray
      BY <1>1, <3>1 DEF PagesOwned
    <3>2. CASE ~stray
      <4>1. tab[k].used /\ tab[k].data = NoData
        BY <1>2, <2>1
      <4>2. tab[k].size <= 0 + n
        BY <2>1
      <4>3. \A m \in Nodes : m # k => /\ tab[m].used = nodes[m].used /\ tab[m].data = nodes[m].data
                                      /\ tab[m].cap = nodes[m].cap /\ tab[m].size = nodes[m].size
        BY <1>2, <2>1
      <4> QED BY <1>2, <1>5, <2>1, <3>2, <4>1, <4>2, <4>3, StorePages
    <3> QED BY <3>1, <3>2
  <2>5. \A m \in Nodes : nodes[m].used => nodes'[m].used
    BY <1>2, <2>1, <2>2
  <2> HIDE DEF IInv
  <2> QED BY <1>3, <2>2, <2>3, <2>4, <2>5
<1> QED BY <1>1, <1>4, <1>5

LEMMA UnlinkStep ==
    ASSUME IInv, NEW path \in Paths, Unlink(path)
    PROVE  IInv'
<1> USE DEF IInv
<1> DEFINE n == Lookup(path)
           up == nodes[n].up
           kids == nodes[up].kids
           I == {j \in DOMAIN kids : kids[j] = n}
           i == FirstOf[I]
<1>1. /\ n # NoNode /\ (nodes[n].dir => nodes[n].kids = <<>>)
      /\ nodes' = [nodes EXCEPT ![n].used = FALSE, ![up].kids = RemoveAt(kids, i)]
      /\ bitmap' = bitmap \ FreedPages(nodes[n])
      /\ fds' = [j \in Fds |-> IF fds[j].used /\ fds[j].node = n
                               THEN [fds[j] EXCEPT !.gone = TRUE] ELSE fds[j]]
      /\ UNCHANGED <<booting, stray>>
  BY DEF Unlink, OtherKids
<1>2. /\ n \in Nodes /\ nodes[n].used /\ n # Root
      /\ up \in Nodes /\ nodes[up].used /\ up # n /\ n \in Kids(up)
  <2>1. n \in Nodes /\ nodes[n].used /\ n # Root /\ up = ParentOf(path) /\ ParentOf(path) # n
    BY <1>1, LookupIs
  <2> QED BY <2>1, ParentIs
<1> HIDE DEF n, up
<1>3. Kids(n) = {}
  <2>1. CASE nodes[n].dir
    BY <1>1, <2>1 DEF Kids, ToSet
  <2>2. CASE ~nodes[n].dir
    BY <1>2, <2>2 DEF IsTree
  <2> QED BY <2>1, <2>2
<1>4. /\ kids \in Seq(Nodes) /\ DOMAIN kids = 1 .. Len(kids) /\ Len(kids) \in Nat
      /\ \E j \in 1 .. Len(kids) : kids[j] = n
  BY <1>2, NodeIs
<1>5. i \in 1 .. Len(kids) /\ kids[i] = n
  <2>1. I \in SUBSET Nat /\ 0 \notin I /\ I # {}
    BY <1>4
  <2>2. i \in I
    <3> HIDE DEF I
    <3> QED BY <2>1, FirstOfIs
  <2> HIDE DEF i
  <2> QED BY <2>2, <1>4
<1> HIDE DEF i
<1>6. RemoveAt(kids, i) \in Seq(Nodes)
  BY <1>4, <1>5, RemoveAtIs
<1>7. nodes \in [Nodes -> Node] /\ nodes[n] \in Node /\ nodes[up] \in Node
  BY <1>2, NodeIs DEF TypeOK
<1> DEFINE rest == RemoveAt(kids, i)
           out == [nodes[n] EXCEPT !.used = FALSE]
           dad == [nodes[up] EXCEPT !.kids = rest]
<1>8. /\ out \in Node /\ ~out.used /\ out.name = nodes[n].name /\ out.dir = nodes[n].dir
      /\ out.up = nodes[n].up /\ out.kids = nodes[n].kids /\ out.data = nodes[n].data
      /\ out.cap = nodes[n].cap /\ out.size = nodes[n].size
  BY <1>7 DEF Node
<1>9. rest \in Seq(Nodes)
  BY <1>6
<1> HIDE DEF rest
<1>10. /\ dad \in Node /\ dad.used = nodes[up].used /\ dad.name = nodes[up].name
       /\ dad.dir = nodes[up].dir /\ dad.up = nodes[up].up /\ dad.kids = rest
       /\ dad.data = nodes[up].data /\ dad.cap = nodes[up].cap /\ dad.size = nodes[up].size
  BY <1>7, <1>9 DEF Node
<1>11. /\ nodes'[n] = out /\ nodes'[up] = dad
       /\ \A m \in Nodes : m # n /\ m # up => nodes'[m] = nodes[m]
       /\ nodes' = [m \in Nodes |-> nodes'[m]]
  BY <1>1, <1>2, <1>7 DEF rest
<1> HIDE DEF out, dad
<1>12. nodes' \in [Nodes -> Node]
  <2>1. \A m \in Nodes : nodes'[m] \in Node
    BY <1>7, <1>8, <1>10, <1>11
  <2> QED BY <2>1, <1>11
<1>13. \A m \in Nodes : /\ nodes'[m].name = nodes[m].name /\ nodes'[m].dir = nodes[m].dir
                        /\ nodes'[m].up = nodes[m].up
                        /\ nodes'[m].data = nodes[m].data /\ nodes'[m].cap = nodes[m].cap
                        /\ nodes'[m].size = nodes[m].size
                        /\ m # n => nodes'[m].used = nodes[m].used
                        /\ m # up => nodes'[m].kids = nodes[m].kids
  <2>1. SUFFICES ASSUME NEW m \in Nodes
                 PROVE  /\ nodes'[m].name = nodes[m].name /\ nodes'[m].dir = nodes[m].dir
                        /\ nodes'[m].up = nodes[m].up
                        /\ nodes'[m].data = nodes[m].data /\ nodes'[m].cap = nodes[m].cap
                        /\ nodes'[m].size = nodes[m].size
                        /\ m # n => nodes'[m].used = nodes[m].used
                        /\ m # up => nodes'[m].kids = nodes[m].kids
    OBVIOUS
  <2>2. CASE m = n
    BY <2>2, <1>8, <1>11
  <2>3. CASE m = up
    BY <2>3, <1>2, <1>10, <1>11
  <2>4. CASE m # n /\ m # up
    BY <2>4, <1>11
  <2> QED BY <2>2, <2>3, <2>4
<1>14. ~nodes'[n].used /\ nodes'[up].kids = RemoveAt(nodes[up].kids, i)
  BY <1>8, <1>10, <1>11 DEF rest
<1>15. RootStays' /\ IsTree'
  BY <1>2, <1>3, <1>5, <1>12, <1>13, <1>14, TreeShrinks
<1>16. ASSUME NEW j \in Fds
       PROVE  fds'[j] \in Fd \cup {Closed} /\ (fds'[j].used => fds'[j].gone \/ nodes'[fds'[j].node].used)
  <2>1. fds[j] \in Fd \cup {Closed}
    BY DEF TypeOK
  <2>2. CASE fds[j].used /\ fds[j].node = n
    <3>1. fds[j] \in Fd
      BY <2>2, FdIs
    <3>2. [fds[j] EXCEPT !.gone = TRUE] \in Fd /\ [fds[j] EXCEPT !.gone = TRUE].gone
      BY <3>1 DEF Fd
    <3>3. fds'[j] = [fds[j] EXCEPT !.gone = TRUE]
      BY <1>1, <2>2
    <3> QED BY <3>2, <3>3
  <2>3. CASE ~(fds[j].used /\ fds[j].node = n)
    <3>1. fds'[j] = fds[j]
      BY <1>1, <2>3
    <3>2. fds[j].used => fds[j].node \in Nodes /\ (fds[j].gone \/ nodes[fds[j].node].used)
      BY FdIs DEF FdsLive
    <3> QED BY <2>1, <2>3, <3>1, <3>2, <1>13
  <2> QED BY <2>2, <2>3
<1>17. TypeOK'
  <2>1. fds' \in [Fds -> Fd \cup {Closed}]
    BY <1>1, <1>16
  <2>2. bitmap' \subseteq HeapPages
    BY <1>1 DEF TypeOK
  <2> QED BY <1>1, <1>12, <2>1, <2>2 DEF TypeOK
<1>18. FdsLive'
  BY <1>16 DEF FdsLive
<1>19. PagesOwned'
  <2>1. CASE stray
    BY <1>1, <2>1 DEF PagesOwned
  <2>2. CASE ~stray
    <3>1. \A m : m \in Holders' <=> m \in Holders /\ m # n
      BY <1>13, <1>14 DEF Holders
    <3>2. Holders' = Holders \ {n}
      BY <3>1
    <3>3. \A m \in Nodes : nodes'[m].data = nodes[m].data /\ nodes'[m].cap = nodes[m].cap
                           /\ nodes'[m].size = nodes[m].size
      BY <1>13
    <3>4. \A m \in Nodes : nodes'[m].used => nodes[m].used
      BY <1>2, <1>13
    <3> QED BY <1>1, <1>2, <2>2, <3>2, <3>3, <3>4, PagesFreed
  <2> QED BY <2>1, <2>2
<1> QED BY <1>15, <1>17, <1>18, <1>19

LEMMA EndBootStep ==
    ASSUME IInv, EndBoot
    PROVE  IInv'
<1> USE DEF IInv
<1>1. booting' = FALSE /\ UNCHANGED <<nodes, bitmap, mem, fds, stray>>
  BY DEF EndBoot
<1>2. RootStays' /\ IsTree' /\ PagesOwned'
  BY <1>1, SameTable
<1>3. TypeOK' /\ FdsLive'
  BY <1>1 DEF TypeOK, FdsLive
<1> QED BY <1>2, <1>3

LEMMA IInvStep == IInv /\ [Next]_vars => IInv'
<1> SUFFICES ASSUME IInv, [Next]_vars PROVE IInv'
  OBVIOUS
<1>1. CASE UNCHANGED vars
  <2>1. RootStays' /\ IsTree' /\ PagesOwned'
    BY <1>1, SameTable DEF vars
  <2>2. TypeOK' /\ FdsLive'
    BY <1>1 DEF vars, IInv, TypeOK, FdsLive
  <2> QED BY <2>1, <2>2 DEF IInv
<1>2. CASE Programs
  <2>1. ASSUME NEW path \in Paths, Unlink(path) PROVE IInv'
    BY <2>1, UnlinkStep
  <2>2. ASSUME NEW path \in Paths, NEW flags \in Modes, OpenExisting(path, flags) PROVE IInv'
    BY <2>2, OpenExistingStep
  <2>3. ASSUME NEW path \in Paths, NEW flags \in Modes, OpenNew(path, flags) PROVE IInv'
    BY <2>3, OpenNewStep
  <2>4. ASSUME NEW i \in Fds, CloseFile(i) PROVE IInv'
    BY <2>4, CloseFileStep
  <2>5. ASSUME NEW i \in Fds, NEW n \in 1 .. MaxWrite, ReadFile(i, n) PROVE IInv'
    <3>1. n \in Nat
      BY VfsAssumption
    <3> QED BY <2>5, <3>1, ReadFileStep
  <2>6. ASSUME NEW i \in Fds, NEW n \in 1 .. MaxWrite, NEW v \in Stamps, WriteFile(i, n, v) PROVE IInv'
    <3>1. n \in Nat
      BY VfsAssumption
    <3> QED BY <2>6, <3>1, WriteFileStep
  <2> QED BY <1>2, <2>1, <2>2, <2>3, <2>4, <2>5, <2>6 DEF Programs
<1>3. ASSUME NEW path \in Paths, MkDir(path) PROVE IInv'
  BY <1>3, MkDirStep
<1>4. ASSUME NEW path \in Paths, NEW n \in 0 .. MaxWrite, NEW v \in Stamps, Unpack(path, n, v) PROVE IInv'
  <2>1. n \in Nat
    BY VfsAssumption
  <2> QED BY <1>4, <2>1, UnpackStep
<1>5. CASE EndBoot
  BY <1>5, EndBootStep
<1> QED BY <1>1, <1>2, <1>3, <1>4, <1>5 DEF Next

LEMMA IInvHolds == Spec => []IInv
  BY InitIInv, IInvStep, PTL DEF Spec

-----------------------------------------------------------------------------
(* What programs see.                                                      *)

\* A path leads to a node: by its name, and by that of its directory.
Leads(p, k) ==
    /\ k \in Nodes /\ k # Root /\ nodes[k].used /\ nodes[k].name = Last(p)
    /\ \/ Len(p) = 1 /\ nodes[k].up = Root
       \/ /\ Len(p) = 2 /\ nodes[k].up # Root
          /\ nodes[nodes[k].up].name = p[1] /\ nodes[nodes[k].up].up = Root

Item(p, k) == [path |-> p, dir |-> nodes[k].dir, bytes |-> Got(k, 0, FileMax)]

\* A node has no pages or knows them, and the heap is all there.
Backed ==
    /\ \A n \in Nodes : nodes[n].data = NoData => nodes[n].cap = 0
    /\ DOMAIN mem = 0 .. PageCount * PageBytes - 1

LEMMA TupleIs ==
    ASSUME NEW a, NEW b
    PROVE  /\ Len(<<a>>) = 1 /\ Last(<<a>>) = a /\ Front(<<a>>) = <<>>
           /\ Len(<<a, b>>) = 2 /\ Last(<<a, b>>) = b /\ Front(<<a, b>>) = <<a>>
<1>1. <<a>> \in Seq({a, b}) /\ <<a, b>> \in Seq({a, b}) /\ Len(<<a>>) = 1 /\ Len(<<a, b>>) = 2
  OBVIOUS
<1>2. Last(<<a>>) = a /\ Last(<<a, b>>) = b
  BY DEF Last
<1>3. Front(<<a>>) = SubSeq(<<a>>, 1, 0) /\ Front(<<a, b>>) = SubSeq(<<a, b>>, 1, 1)
  BY <1>1 DEF Front
<1>4. SubSeq(<<a>>, 1, 0) = <<>>
  BY <1>1
<1>5. SubSeq(<<a, b>>, 1, 1) = <<a>>
  <2> DEFINE s == SubSeq(<<a, b>>, 1, 1)
  <2>1. s \in Seq({a, b}) /\ Len(s) = 1 /\ s[1] = <<a, b>>[1]
    BY <1>1, SubSeqProperties
  <2> HIDE DEF s
  <2>2. s = <<a>>
    BY <1>1, <2>1, SeqEqual
  <2> QED BY <2>2 DEF s
<1> QED BY <1>1, <1>2, <1>3, <1>4, <1>5

LEMMA PathIs ==
    ASSUME NEW p \in Paths
    PROVE  /\ <<p[1]>> \in Paths
           /\ \/ Len(p) = 1 /\ p = <<p[1]>> /\ Last(p) = p[1] /\ Front(p) = <<>>
              \/ Len(p) = 2 /\ p = <<p[1], p[2]>> /\ Last(p) = p[2] /\ Front(p) = <<p[1]>>
<1>1. (p = <<p[1]>> \/ p = <<p[1], p[2]>>) /\ <<p[1]>> \in Paths
  BY VfsAssumption
<1> DEFINE a == p[1]
           b == p[2]
<1>2. p = <<a>> \/ p = <<a, b>>
  BY <1>1
<1> HIDE DEF a, b
<1>3. \/ Len(p) = 1 /\ p = <<a>> /\ Last(p) = a /\ Front(p) = <<>>
      \/ Len(p) = 2 /\ p = <<a, b>> /\ Last(p) = b /\ Front(p) = <<a>>
  <2>1. /\ Len(<<a>>) = 1 /\ Last(<<a>>) = a /\ Front(<<a>>) = <<>>
        /\ Len(<<a, b>>) = 2 /\ Last(<<a, b>>) = b /\ Front(<<a, b>>) = <<a>>
    BY ONLY TupleIs
  <2>2. CASE p = <<a>>
    BY ONLY <2>1, <2>2, Zenon
  <2>3. CASE p = <<a, b>>
    BY ONLY <2>1, <2>3, Zenon
  <2> QED BY ONLY <1>2, <2>2, <2>3, Zenon
<1> QED BY <1>1, <1>3 DEF a, b

\* vfs_lookup finds the node that the path leads to.
LEMMA LookupLeads ==
    ASSUME TypeOK, RootStays, IsTree, NEW p \in Paths, NEW k \in Nodes
    PROVE  Lookup(p) = k <=> Leads(p, k)
<1>1. Root \in Nodes /\ NoNode \notin Nodes
  BY VfsAssumption DEF Root, Nodes, NoNode
<1>2. ASSUME NEW m \in Nodes, nodes[m].used, NEW c \in Kids(m)
      PROVE  c \in Nodes /\ nodes[c].used /\ c # Root /\ nodes[c].up = m
  <2>1. c \in Nodes
    BY <1>2, NodeIs
  <2>2. nodes[c].used /\ c # Root
    BY <1>2, <2>1 DEF IsTree
  <2>3. nodes[c].up = m
    BY <1>2 DEF IsTree
  <2> QED BY <2>1, <2>2, <2>3
<1>3. ASSUME NEW m \in Nodes, nodes[m].used, nodes[m].dir, NEW c \in Kids(m), NEW name, nodes[c].name = name
      PROVE  Child(m, name) = c
  <2>1. Child(m, name) \in Kids(m) /\ nodes[Child(m, name)].name = name
    BY <1>3, ChildIs
  <2> QED BY <1>3, <2>1 DEF IsTree
<1>4. ASSUME Lookup(p) = k PROVE Leads(p, k)
  <2>1. /\ ParentOf(p) \in Nodes /\ nodes[ParentOf(p)].dir /\ nodes[ParentOf(p)].used
        /\ nodes[k].used /\ k # Root /\ nodes[k].up = ParentOf(p)
    BY <1>1, <1>4, LookupIs
  <2>2. nodes[k].name = Last(p)
    <3>1. k = Child(ParentOf(p), Last(p))
      BY <1>4 DEF Lookup
    <3> QED BY <1>1, <2>1, <3>1, ChildIs
  <2>3. CASE Len(p) = 1
    <3>1. ParentOf(p) = Root
      BY <2>3 DEF ParentOf
    <3> QED BY <2>1, <2>2, <2>3, <3>1 DEF Leads
  <2>4. CASE Len(p) = 2
    <3>1. ParentOf(p) = Child(Root, p[1])
      BY <2>4 DEF ParentOf
    <3>2. ParentOf(p) \in Kids(Root) /\ nodes[ParentOf(p)].name = p[1]
      BY <1>1, <2>1, <3>1, ChildIs
    <3>3. ParentOf(p) # Root /\ nodes[ParentOf(p)].up = Root
      BY <1>1, <1>2, <3>2 DEF RootStays
    <3> QED BY <2>1, <2>2, <2>4, <3>2, <3>3 DEF Leads
  <2> QED BY <2>3, <2>4, PathIs
<1>5. ASSUME Leads(p, k) PROVE Lookup(p) = k
  <2>1. /\ k # Root /\ nodes[k].used /\ nodes[k].name = Last(p)
        /\ \/ Len(p) = 1 /\ nodes[k].up = Root
           \/ /\ Len(p) = 2 /\ nodes[k].up # Root
              /\ nodes[nodes[k].up].name = p[1] /\ nodes[nodes[k].up].up = Root
    BY <1>5 DEF Leads
  <2> DEFINE u == nodes[k].up
  <2>2. u \in Nodes /\ nodes[u].used /\ nodes[u].dir /\ k \in Kids(u)
    BY <2>1, ParentIs
  <2>3. ParentOf(p) = u
    <3>1. CASE Len(p) = 1
      BY <2>1, <3>1 DEF ParentOf
    <3>2. CASE Len(p) = 2
      <4>1. u \in Kids(Root)
        BY <2>1, <2>2, <3>2, ParentIs
      <4>2. Child(Root, p[1]) = u
        BY <1>1, <1>3, <2>1, <3>2, <4>1 DEF RootStays
      <4> QED BY <3>2, <4>2 DEF ParentOf
    <3> QED BY <3>1, <3>2, PathIs
  <2>4. Child(u, Last(p)) = k
    BY <1>3, <2>1, <2>2
  <2> QED BY <2>3, <2>4 DEF Lookup
<1> QED BY <1>4, <1>5

LEMMA LeadsOnce ==
    ASSUME NEW p \in Paths, NEW q \in Paths, NEW k, Leads(p, k), Leads(q, k)
    PROVE  p = q
<1>1. /\ nodes[k].name = Last(p) /\ nodes[k].name = Last(q)
      /\ \/ Len(p) = 1 /\ Len(q) = 1
         \/ Len(p) = 2 /\ Len(q) = 2 /\ p[1] = q[1]
  BY DEF Leads
<1>2. /\ \/ Len(p) = 1 /\ p = <<p[1]>> /\ Last(p) = p[1]
         \/ Len(p) = 2 /\ p = <<p[1], p[2]>> /\ Last(p) = p[2]
      /\ \/ Len(q) = 1 /\ q = <<q[1]>> /\ Last(q) = q[1]
         \/ Len(q) = 2 /\ q = <<q[1], q[2]>> /\ Last(q) = q[2]
  BY PathIs
<1>3. CASE Len(p) = 1
  <2>1. p = <<p[1]>> /\ q = <<q[1]>> /\ p[1] = q[1]
    BY <1>1, <1>2, <1>3
  <2> QED BY ONLY <2>1, Zenon
<1>4. CASE Len(p) = 2
  <2>1. p = <<p[1], p[2]>> /\ q = <<q[1], q[2]>> /\ p[1] = q[1] /\ p[2] = q[2]
    BY <1>1, <1>2, <1>4
  <2> QED BY ONLY <2>1, Zenon
<1> QED BY <1>2, <1>3, <1>4

\* What is there, node by node.
LEMMA TreeIs ==
    ASSUME TypeOK, RootStays, IsTree
    PROVE  \A x : x \in Tree <=> \E p \in Paths : \E k \in Nodes : Leads(p, k) /\ x = Item(p, k)
<1>1. \A x : x \in Tree <=> \E p \in Paths : Lookup(p) # NoNode /\ x = Item(p, Lookup(p))
  <2> DEFINE placed == {e \in {<<p, Lookup(p)>> : p \in Paths} : e[2] # NoNode}
  <2>1. \A e : e \in placed <=> \E p \in Paths : e = <<p, Lookup(p)>> /\ Lookup(p) # NoNode
    OBVIOUS
  <2>2. Tree = {Item(e[1], e[2]) : e \in placed}
    BY DEF Tree, Item
  <2> HIDE DEF placed
  <2>3. \A x : x \in Tree <=> \E e \in placed : x = Item(e[1], e[2])
    BY <2>2
  <2>4. ASSUME NEW x PROVE (\E e \in placed : x = Item(e[1], e[2])) <=> \E p \in Paths : Lookup(p) # NoNode /\ x = Item(p, Lookup(p))
    <3>1. ASSUME NEW p \in Paths PROVE <<p, Lookup(p)>>[1] = p /\ <<p, Lookup(p)>>[2] = Lookup(p)
      OBVIOUS
    <3>2. ASSUME NEW e \in placed, x = Item(e[1], e[2])
          PROVE  \E p \in Paths : Lookup(p) # NoNode /\ x = Item(p, Lookup(p))
      <4>1. PICK p \in Paths : e = <<p, Lookup(p)>> /\ Lookup(p) # NoNode
        BY <2>1
      <4>2. x = Item(p, Lookup(p))
        BY <3>1, <3>2, <4>1
      <4> QED BY <4>1, <4>2
    <3>3. ASSUME NEW p \in Paths, Lookup(p) # NoNode, x = Item(p, Lookup(p))
          PROVE  \E e \in placed : x = Item(e[1], e[2])
      <4> DEFINE d == <<p, Lookup(p)>>
      <4>1. d \in placed
        BY <2>1, <3>3
      <4>2. d[1] = p /\ d[2] = Lookup(p)
        BY <3>1
      <4> HIDE DEF d
      <4>3. x = Item(d[1], d[2])
        BY <3>3, <4>2
      <4> QED BY <4>1, <4>3
    <3> QED BY <3>2, <3>3
  <2> QED BY <2>3, <2>4
<1>2. \A p \in Paths : Lookup(p) # NoNode => Lookup(p) \in Nodes
  BY LookupIs
<1>3. NoNode \notin Nodes
  BY DEF NoNode, Nodes
<1>4. \A p \in Paths : \A k \in Nodes : Lookup(p) = k <=> Leads(p, k)
  BY LookupLeads
<1> QED BY <1>1, <1>2, <1>3, <1>4

\* All this, of the state after a step too.
PathsLead ==
    /\ \A p \in Paths : \A k \in Nodes : Lookup(p) = k <=> Leads(p, k)
    /\ \A p, q \in Paths : \A k \in Nodes : Leads(p, k) /\ Leads(q, k) => p = q
    /\ \A x : x \in Tree <=> \E p \in Paths : \E k \in Nodes : Leads(p, k) /\ x = Item(p, k)

LEMMA PathsLeadIs == (IInv => PathsLead) /\ (IInv' => PathsLead')
<1>1. IInv => PathsLead
  <2>1. \A p, q \in Paths : \A k \in Nodes : Leads(p, k) /\ Leads(q, k) => p = q
    BY LeadsOnce
  <2> QED BY <2>1, LookupLeads, TreeIs DEF IInv, PathsLead
<1>2. IInv' => PathsLead'
  BY <1>1, PTL
<1> QED BY <1>1, <1>2

LEMMA BaseIs ==
    ASSUME TypeOK, TypeOK', NEW k \in Nodes
    PROVE  Base(nodes[k].data) \in Int /\ Base(nodes'[k].data) \in Int
<1>1. nodes[k] \in Node /\ nodes'[k] \in Node
  BY DEF TypeOK
<1>2. nodes[k].data \in Int /\ nodes'[k].data \in Int
  BY <1>1, PageCountAssumption DEF Node, HeapPages, NoData
<1>3. PageBytes \in Int
  BY VfsAssumption
<1> QED BY <1>2, <1>3 DEF Base

\* A path that leads to the same node, with the same bytes, is the same thing.
LEMMA SameItem ==
    ASSUME NEW p, NEW k \in Nodes, nodes'[k].dir = nodes[k].dir, nodes'[k].size = nodes[k].size,
           \A j \in Nat : j < nodes[k].size =>
               mem'[Base(nodes'[k].data) + j] = mem[Base(nodes[k].data) + j],
           TypeOK, TypeOK'
    PROVE  Item(p, k)' = Item(p, k)
<1>1. FileMax \in Nat /\ nodes[k].size \in Nat
  BY VfsAssumption, NodeIs
<1>2. Base(nodes[k].data) \in Int /\ Base(nodes'[k].data) \in Int
  BY BaseIs
<1> DEFINE len == Least(FileMax, nodes[k].size - 0)
<1>3. len \in Int /\ len <= nodes[k].size
  BY <1>1 DEF Least
<1>4. /\ Got(k, 0, FileMax) = [j \in 1 .. len |-> mem[Base(nodes[k].data) + 0 + j - 1]]
      /\ Got(k, 0, FileMax)' = [j \in 1 .. len |-> mem'[Base(nodes'[k].data) + 0 + j - 1]]
  BY DEF Got
<1> HIDE DEF len
<1>5. ASSUME NEW j \in 1 .. len
      PROVE  mem'[Base(nodes'[k].data) + 0 + j - 1] = mem[Base(nodes[k].data) + 0 + j - 1]
  <2>1. j - 1 \in Nat /\ j - 1 < nodes[k].size
    BY <1>1, <1>3
  <2>2. mem'[Base(nodes'[k].data) + (j - 1)] = mem[Base(nodes[k].data) + (j - 1)]
    BY <2>1
  <2>3. /\ Base(nodes'[k].data) + 0 + j - 1 = Base(nodes'[k].data) + (j - 1)
        /\ Base(nodes[k].data) + 0 + j - 1 = Base(nodes[k].data) + (j - 1)
    BY <1>3, <1>2
  <2> QED BY <2>2, <2>3
<1>6. Got(k, 0, FileMax)' = Got(k, 0, FileMax)
  BY <1>4, <1>5
<1> QED BY <1>6 DEF Item

\* Nothing that programs see depends on the rest.
LEMMA SameTree ==
    ASSUME UNCHANGED <<nodes, mem>>
    PROVE  Tree' = Tree
  BY DEF Tree, Lookup, ParentOf, Child, KidOrNone, Got

\* A step that leaves names and parents alone leads every path where it did.
LEMMA SameLeads ==
    ASSUME TypeOK, IsTree,
           \A m \in Nodes : nodes'[m].used = nodes[m].used /\ nodes'[m].name = nodes[m].name
                            /\ nodes'[m].up = nodes[m].up
    PROVE  \A q \in Paths : \A k \in Nodes : Leads(q, k)' <=> Leads(q, k)
<1> SUFFICES ASSUME NEW q \in Paths, NEW k \in Nodes PROVE Leads(q, k)' <=> Leads(q, k)
  OBVIOUS
<1>1. ASSUME nodes[k].used, k # Root
      PROVE  /\ nodes'[nodes[k].up].name = nodes[nodes[k].up].name
             /\ nodes'[nodes[k].up].up = nodes[nodes[k].up].up
  BY <1>1, ParentIs
<1> QED BY <1>1 DEF Leads

\* A step that changes nothing that a path leads to.
LEMMA SameThings ==
    ASSUME PathsLead, PathsLead',
           \A q \in Paths : \A k \in Nodes : Leads(q, k)' <=> Leads(q, k),
           \A q \in Paths : \A k \in Nodes : Leads(q, k) => Item(q, k)' = Item(q, k)
    PROVE  Tree' = Tree
<1>1. \A x : x \in Tree <=> \E q \in Paths : \E k \in Nodes : Leads(q, k) /\ x = Item(q, k)
  BY DEF PathsLead
<1>2. \A x : x \in Tree' <=> \E q \in Paths : \E k \in Nodes : Leads(q, k)' /\ x = Item(q, k)'
  BY DEF PathsLead
<1>3. \A x : x \in Tree' <=> x \in Tree
  BY <1>1, <1>2
<1> QED BY <1>3 DEF Tree

\* A step that changes what one path leads to.
LEMMA OnlyAtIs ==
    ASSUME PathsLead, PathsLead', NEW p \in Paths,
           \A q \in Paths : \A k \in Nodes : q # p => (Leads(q, k)' <=> Leads(q, k)),
           \A q \in Paths : \A k \in Nodes : q # p /\ Leads(q, k) => Item(q, k)' = Item(q, k)
    PROVE  F!OnlyAt(p, Tree, Tree')
<1>1. \A x : x \in Tree <=> \E q \in Paths : \E k \in Nodes : Leads(q, k) /\ x = Item(q, k)
  BY DEF PathsLead
<1>2. \A x : x \in Tree' <=> \E q \in Paths : \E k \in Nodes : Leads(q, k)' /\ x = Item(q, k)'
  BY DEF PathsLead
<1>3. \A q : \A k : Item(q, k).path = q /\ Item(q, k)'.path = q
  BY DEF Item
<1>4. \A k, l \in Nodes : Leads(p, k)' /\ Leads(p, l)' => k = l
  BY DEF PathsLead
<1>5. \A x, y \in F!Things(p, Tree') : x = y
  BY <1>2, <1>3, <1>4 DEF F!Things
<1>6. ASSUME NEW x PROVE x \in Tree \ F!Things(p, Tree) <=> x \in Tree' \ F!Things(p, Tree')
  <2>1. x \in Tree \ F!Things(p, Tree) <=>
            \E q \in Paths : \E k \in Nodes : q # p /\ Leads(q, k) /\ x = Item(q, k)
    BY <1>1, <1>3 DEF F!Things
  <2>2. x \in Tree' \ F!Things(p, Tree') <=>
            \E q \in Paths : \E k \in Nodes : q # p /\ Leads(q, k)' /\ x = Item(q, k)'
    BY <1>2, <1>3 DEF F!Things
  <2>3. \A q \in Paths : \A k \in Nodes :
            q # p /\ Leads(q, k) /\ x = Item(q, k) <=> q # p /\ Leads(q, k)' /\ x = Item(q, k)'
    BY Zenon
  <2> QED BY <2>1, <2>2, <2>3
<1> QED BY <1>5, <1>6 DEF F!OnlyAt

\* Where the bytes of a file are: in the heap, on its pages.
LEMMA BytesAre ==
    ASSUME NEW at \in Nat, NEW m \in Nat, NEW j \in Nat, j < m * PageBytes
    PROVE  /\ Base(at) + j \in Nat
           /\ (Base(at) + j) \div PageBytes \in Run(at, m)
           /\ Run(at, m) \subseteq HeapPages => Base(at) + j \in 0 .. PageCount * PageBytes - 1
<1>1. PageBytes \in Nat /\ PageBytes > 0 /\ PageCount \in Nat
  BY VfsAssumption, PageCountAssumption
<1> DEFINE b == Base(at) + j
           q == b \div PageBytes
<1>2. Base(at) = at * PageBytes /\ at * PageBytes \in Nat /\ m * PageBytes \in Nat
  BY <1>1 DEF Base
<1>3. b \in Nat /\ b = at * PageBytes + j
  BY <1>2
<1>4. q \in Nat /\ q * PageBytes <= b /\ b < (q + 1) * PageBytes
  <2> HIDE DEF b
  <2> QED BY <1>1, <1>3, SMTT(30)
<1> HIDE DEF b, q
<1>5. (at + m) * PageBytes = at * PageBytes + m * PageBytes
  BY <1>1
<1>6. b < (at + m) * PageBytes
  BY <1>2, <1>3, <1>5
<1>7. \A x, y \in Nat : x * PageBytes < y * PageBytes => x < y
  <2>1. ASSUME NEW x \in Nat, NEW y \in Nat, y <= x PROVE y * PageBytes <= x * PageBytes
    BY <1>1, <2>1
  <2>2. \A x \in Nat : x * PageBytes \in Nat
    BY <1>1
  <2> QED BY <2>1, <2>2
<1>8. at < q + 1 /\ q < at + m
  <2>1. at * PageBytes < (q + 1) * PageBytes /\ q * PageBytes < (at + m) * PageBytes
    BY <1>1, <1>2, <1>3, <1>4, <1>6
  <2>2. q + 1 \in Nat /\ at + m \in Nat
    BY <1>4
  <2> QED BY <1>4, <1>7, <2>1, <2>2
<1>9. q \in Run(at, m)
  BY <1>4, <1>8 DEF Run
<1>10. ASSUME Run(at, m) \subseteq HeapPages PROVE b \in 0 .. PageCount * PageBytes - 1
  <2>1. q < PageCount /\ PageCount * PageBytes \in Nat
    BY <1>1, <1>9, <1>10 DEF HeapPages
  <2>2. (q + 1) * PageBytes <= PageCount * PageBytes
    <3>1. q + 1 \in Nat /\ q + 1 <= PageCount
      BY <1>1, <1>4, <2>1
    <3> HIDE DEF q
    <3> QED BY <1>1, <3>1
  <2>3. b \in Nat /\ b < (q + 1) * PageBytes /\ (q + 1) * PageBytes \in Nat
    BY <1>1, <1>3, <1>4
  <2>4. b < PageCount * PageBytes
    BY ONLY <2>1, <2>2, <2>3
  <2> QED BY ONLY <2>1, <2>3, <2>4
<1> QED BY <1>3, <1>9, <1>10 DEF b, q

\* The bytes of a file that is there are on the pages it owns.
LEMMA OwnBytes ==
    ASSUME IInv, Backed, ~stray, NEW k \in Nodes, nodes[k].used, NEW j \in Nat, j < nodes[k].size
    PROVE  /\ k \in Holders /\ nodes[k].data \in HeapPages /\ nodes[k].data \in Nat
           /\ Base(nodes[k].data) + j \in DOMAIN mem
           /\ (Base(nodes[k].data) + j) \div PageBytes \in FreedPages(nodes[k])
           /\ FreedPages(nodes[k]) \subseteq bitmap
<1>1. /\ nodes[k].data \in HeapPages \cup {NoData} /\ nodes[k].cap \in Nat /\ nodes[k].size \in Nat
  BY NodeIs DEF IInv
<1>2. nodes[k].size <= nodes[k].cap
  BY OwnerIs DEF IInv
<1>3. nodes[k].data # NoData
  BY <1>1, <1>2 DEF Backed
<1>4. k \in Holders
  BY <1>3 DEF Holders
<1>5. nodes[k].data \in HeapPages /\ nodes[k].data \in Nat
  BY <1>1, <1>3, PageCountAssumption DEF HeapPages
<1> DEFINE m == PagesFor(nodes[k].cap)
<1>6. m \in Nat /\ m * PageBytes >= nodes[k].cap
  BY <1>1, PagesForIs
<1>7. FreedPages(nodes[k]) = Run(nodes[k].data, m)
  BY <1>3 DEF FreedPages
<1> HIDE DEF m
<1>8. FreedPages(nodes[k]) \subseteq bitmap /\ bitmap \subseteq HeapPages
  BY <1>4, OwnerIs DEF IInv, TypeOK
<1>9. j < m * PageBytes
  <2>1. m * PageBytes \in Nat
    BY <1>6, VfsAssumption
  <2> QED BY <1>1, <1>2, <1>6, <2>1
<1>10. /\ (Base(nodes[k].data) + j) \div PageBytes \in Run(nodes[k].data, m)
       /\ Run(nodes[k].data, m) \subseteq HeapPages =>
              Base(nodes[k].data) + j \in 0 .. PageCount * PageBytes - 1
  BY <1>5, <1>6, <1>9, BytesAre
<1> QED BY <1>4, <1>5, <1>7, <1>8, <1>10 DEF Backed

\* A step that changes bytes on other pages only leaves the file alone.
LEMMA BytesStay ==
    ASSUME IInv, Backed, ~stray, TypeOK', NEW p, NEW k \in Nodes, nodes[k].used,
           nodes'[k].dir = nodes[k].dir, nodes'[k].size = nodes[k].size,
           nodes'[k].data = nodes[k].data,
           \A b \in DOMAIN mem : b \div PageBytes \in FreedPages(nodes[k]) => mem'[b] = mem[b]
    PROVE  Item(p, k)' = Item(p, k)
<1>1. ASSUME NEW j \in Nat, j < nodes[k].size
      PROVE  mem'[Base(nodes'[k].data) + j] = mem[Base(nodes[k].data) + j]
  BY <1>1, OwnBytes
<1>2. TypeOK
  BY DEF IInv
<1> QED BY <1>1, <1>2, SameItem

\* The rows of the table after alloc_node and add_child.
LEMMA AddedIs ==
    ASSUME IInv, NEW path \in Paths, NEW isDir \in BOOLEAN, MayAdd(path),
           NEW n, n = Min(FreeNodes), NEW T, T = WithNode(path, isDir)
    PROVE  /\ n \in Nodes /\ ~nodes[n].used /\ n # Root
           /\ ParentOf(path) \in Nodes /\ nodes[ParentOf(path)].used /\ nodes[ParentOf(path)].dir
           /\ T \in [Nodes -> Node] /\ T[n].used /\ T[n].name = Last(path) /\ T[n].dir = isDir
           /\ T[n].up = ParentOf(path) /\ T[n].data = NoData /\ T[n].cap = 0 /\ T[n].size = 0
           /\ \A m \in Nodes : m # n =>
                 /\ T[m].used = nodes[m].used /\ T[m].name = nodes[m].name
                 /\ T[m].dir = nodes[m].dir /\ T[m].up = nodes[m].up
                 /\ T[m].data = nodes[m].data /\ T[m].cap = nodes[m].cap /\ T[m].size = nodes[m].size
<1> DEFINE up == ParentOf(path)
<1>1. /\ n \in Nodes /\ ~nodes[n].used /\ n # Root
      /\ up \in Nodes /\ nodes[up].used /\ nodes[up].dir
      /\ T \in [Nodes -> Node]
      /\ T[n] = [Unused EXCEPT !.used = TRUE, !.name = Last(path), !.dir = isDir, !.up = up]
      /\ T[up] = [nodes[up] EXCEPT !.kids = Append(@, n)]
      /\ \A m \in Nodes : m # n /\ m # up => T[m] = nodes[m]
  <2> DEFINE free == Min(FreeNodes)
             tab == WithNode(path, isDir)
  <2>1. /\ free \in Nodes /\ ~nodes[free].used /\ free # Root
        /\ up \in Nodes /\ nodes[up].used /\ nodes[up].dir
        /\ tab \in [Nodes -> Node]
        /\ tab[free] = [Unused EXCEPT !.used = TRUE, !.name = Last(path), !.dir = isDir, !.up = up]
        /\ tab[up] = [nodes[up] EXCEPT !.kids = Append(@, free)]
        /\ \A m \in Nodes : m # free /\ m # up => tab[m] = nodes[m]
    BY AddIs DEF IInv
  <2>2. free = n /\ tab = T
    OBVIOUS
  <2> HIDE DEF free, tab, up
  <2> QED BY ONLY <2>1, <2>2
<1> HIDE DEF up
<1>2. nodes[up] \in Node
  BY <1>1, NodeIs DEF IInv
<1>3. T[n].used /\ T[n].name = Last(path) /\ T[n].dir = isDir /\ T[n].up = up
      /\ T[n].data = NoData /\ T[n].cap = 0 /\ T[n].size = 0
  BY <1>1 DEF Unused
<1>4. /\ T[up].used = nodes[up].used /\ T[up].name = nodes[up].name /\ T[up].dir = nodes[up].dir
      /\ T[up].up = nodes[up].up /\ T[up].data = nodes[up].data /\ T[up].cap = nodes[up].cap
      /\ T[up].size = nodes[up].size
  BY <1>1, <1>2 DEF Node
<1>5. ASSUME NEW m \in Nodes, m # n
      PROVE  /\ T[m].used = nodes[m].used /\ T[m].name = nodes[m].name
             /\ T[m].dir = nodes[m].dir /\ T[m].up = nodes[m].up
             /\ T[m].data = nodes[m].data /\ T[m].cap = nodes[m].cap /\ T[m].size = nodes[m].size
  <2>1. CASE m = up
    BY <2>1, <1>4
  <2>2. CASE m # up
    BY <2>2, <1>1, <1>5
  <2> QED BY <2>1, <2>2
<1> QED BY <1>1, <1>3, <1>5 DEF up

\* The rows of the table after vfs_unlink.
LEMMA UnlinkIs ==
    ASSUME IInv, NEW path \in Paths, Unlink(path), NEW n, n = Lookup(path)
    PROVE  /\ n \in Nodes /\ nodes[n].used /\ n # Root /\ Kids(n) = {} /\ ~nodes'[n].used
           /\ \A m \in Nodes :
                 /\ nodes'[m].name = nodes[m].name /\ nodes'[m].dir = nodes[m].dir
                 /\ nodes'[m].up = nodes[m].up /\ nodes'[m].data = nodes[m].data
                 /\ nodes'[m].cap = nodes[m].cap /\ nodes'[m].size = nodes[m].size
                 /\ m # n => nodes'[m].used = nodes[m].used
<1>1. n # NoNode /\ (nodes[n].dir => nodes[n].kids = <<>>)
      /\ nodes' = [nodes EXCEPT ![n].used = FALSE, ![nodes[n].up].kids = OtherKids(n)]
  BY DEF Unlink
<1> DEFINE up == nodes[n].up
           rest == OtherKids(n)
<1>2. n \in Nodes /\ nodes[n].used /\ n # Root /\ up \in Nodes /\ up # n
  <2>1. n \in Nodes /\ nodes[n].used /\ n # Root /\ up = ParentOf(path) /\ ParentOf(path) # n
    BY <1>1, LookupIs DEF IInv
  <2> QED BY <2>1, ParentIs DEF IInv
<1>3. Kids(n) = {}
  <2>1. CASE nodes[n].dir
    BY <1>1, <2>1 DEF Kids, ToSet
  <2>2. CASE ~nodes[n].dir
    BY <1>2, <2>2 DEF IInv, IsTree
  <2> QED BY <2>1, <2>2
<1> HIDE DEF rest
<1>4. nodes \in [Nodes -> Node] /\ nodes[n] \in Node /\ nodes[up] \in Node
  BY <1>2 DEF IInv, TypeOK
<1>5. /\ nodes'[n] = [nodes[n] EXCEPT !.used = FALSE] /\ nodes'[up] = [nodes[up] EXCEPT !.kids = rest]
      /\ \A m \in Nodes : m # n /\ m # up => nodes'[m] = nodes[m]
  BY <1>1, <1>2, <1>4 DEF rest
<1> HIDE DEF up
<1>6. /\ ~nodes'[n].used /\ nodes'[n].name = nodes[n].name /\ nodes'[n].dir = nodes[n].dir
      /\ nodes'[n].up = nodes[n].up /\ nodes'[n].data = nodes[n].data
      /\ nodes'[n].cap = nodes[n].cap /\ nodes'[n].size = nodes[n].size
  BY <1>4, <1>5 DEF Node
<1>7. /\ nodes'[up].used = nodes[up].used
      /\ nodes'[up].name = nodes[up].name /\ nodes'[up].dir = nodes[up].dir
      /\ nodes'[up].up = nodes[up].up /\ nodes'[up].data = nodes[up].data
      /\ nodes'[up].cap = nodes[up].cap /\ nodes'[up].size = nodes[up].size
  BY <1>4, <1>5 DEF Node
<1>8. ASSUME NEW m \in Nodes
      PROVE  /\ nodes'[m].name = nodes[m].name /\ nodes'[m].dir = nodes[m].dir
             /\ nodes'[m].up = nodes[m].up /\ nodes'[m].data = nodes[m].data
             /\ nodes'[m].cap = nodes[m].cap /\ nodes'[m].size = nodes[m].size
             /\ m # n => nodes'[m].used = nodes[m].used
  <2>1. CASE m = n
    BY <2>1, <1>6
  <2>2. CASE m = up
    BY <2>2, <1>7
  <2>3. CASE m # n /\ m # up
    BY <2>3, <1>5
  <2> QED BY <2>1, <2>2, <2>3
<1> QED BY <1>2, <1>3, <1>6, <1>8

\* What vfs_open does to the table when the file is there.
LEMMA CutIs ==
    ASSUME IInv, NEW path \in Paths, NEW flags, OpenExisting(path, flags), NEW n, n = Lookup(path)
    PROVE  /\ n \in Nodes /\ nodes[n].used /\ ~nodes[n].dir /\ mem' = mem
           /\ nodes'[n].size = IF {"trunc", "write"} \subseteq flags THEN 0 ELSE nodes[n].size
           /\ \A m \in Nodes :
                 /\ nodes'[m].used = nodes[m].used /\ nodes'[m].name = nodes[m].name
                 /\ nodes'[m].dir = nodes[m].dir /\ nodes'[m].up = nodes[m].up
                 /\ nodes'[m].data = nodes[m].data /\ nodes'[m].cap = nodes[m].cap
                 /\ m # n => nodes'[m].size = nodes[m].size
<1> DEFINE size == IF {"trunc", "write"} \subseteq flags THEN 0 ELSE nodes[n].size
<1>1. n # NoNode /\ ~nodes[n].dir /\ nodes' = [nodes EXCEPT ![n].size = size] /\ mem' = mem
  BY DEF OpenExisting
<1>2. n \in Nodes /\ nodes[n].used /\ nodes \in [Nodes -> Node]
  BY <1>1, LookupIs DEF IInv, TypeOK
<1>3. size \in Nat
  <2>1. nodes[n].size \in Nat
    BY <1>2, RowIs
  <2> QED BY <2>1
<1>4. size = IF {"trunc", "write"} \subseteq flags THEN 0 ELSE nodes[n].size
  OBVIOUS
<1> HIDE DEF size
<1> QED BY <1>1, <1>2, <1>3, <1>4, SizedIs

\* What vfs_write stores, and in which table.
LEMMA WriteIs ==
    ASSUME IInv, NEW i \in Fds, NEW n \in Nat, NEW v, WriteFile(i, n, v),
           NEW k, k = fds[i].node, NEW off, off = fds[i].offset
    PROVE  /\ k \in Nodes /\ off \in Nat /\ off + n <= FileMax /\ ~nodes[k].dir
           /\ ~stray' => nodes[k].used /\ off <= nodes[k].size
           /\ \E tab \in [Nodes -> Node] :
                 /\ Store(tab, k, off, n, v, nodes[k].size)
                 /\ tab[k].size = IF off + n > nodes[k].size THEN off + n ELSE nodes[k].size
                 /\ \A m \in Nodes :
                       /\ tab[m].used = nodes[m].used /\ tab[m].name = nodes[m].name
                       /\ tab[m].dir = nodes[m].dir /\ tab[m].up = nodes[m].up
                       /\ tab[m].data = nodes[m].data /\ tab[m].cap = nodes[m].cap
                       /\ m # k => tab[m].size = nodes[m].size
<1> USE DEF IInv
<1> DEFINE size == SizeAfter(k, off + n)
           tab == [nodes EXCEPT ![k].size = size]
<1>1. /\ fds[i].used /\ ~nodes[k].dir /\ Fits(off + n) /\ Store(tab, k, off, n, v, nodes[k].size)
      /\ stray' = (stray \/ fds[i].gone \/ off > nodes[k].size)
  BY DEF WriteFile, Copied
<1>2. k \in Nodes /\ off \in Nat /\ fds[i].gone \in BOOLEAN /\ off + n \in Nat
  BY <1>1, FdIs
<1>3. nodes[k].size \in Nat /\ nodes \in [Nodes -> Node]
  BY <1>2, NodeIs DEF TypeOK
<1>4. size \in Nat /\ size = IF off + n > nodes[k].size THEN off + n ELSE nodes[k].size
  BY <1>2, <1>3 DEF SizeAfter
<1>5. off + n <= FileMax
  BY <1>1 DEF Fits
<1>6. ~stray' => nodes[k].used /\ off <= nodes[k].size
  <2>1. ASSUME ~stray' PROVE ~fds[i].gone /\ ~(off > nodes[k].size)
    BY <1>1, <2>1, Zenon
  <2>2. ~fds[i].gone => nodes[k].used
    BY <1>1 DEF FdsLive
  <2>3. ~(off > nodes[k].size) => off <= nodes[k].size
    BY <1>2, <1>3
  <2> QED BY <2>1, <2>2, <2>3
<1> HIDE DEF size
<1>7. /\ tab \in [Nodes -> Node] /\ tab[k].size = size
      /\ \A m \in Nodes :
            /\ tab[m].used = nodes[m].used /\ tab[m].name = nodes[m].name
            /\ tab[m].dir = nodes[m].dir /\ tab[m].up = nodes[m].up
            /\ tab[m].data = nodes[m].data
            /\ tab[m].cap = nodes[m].cap /\ (m # k => tab[m].size = nodes[m].size)
  BY <1>2, <1>3, <1>4, SizedIs
<1> HIDE DEF tab, IInv
<1> QED BY <1>1, <1>2, <1>4, <1>5, <1>6, <1>7

LEMMA StoreBacked ==
    ASSUME TypeOK, Backed, NEW tab \in [Nodes -> Node], NEW k \in Nodes, NEW off \in Nat, NEW n \in Nat,
           NEW v, NEW keep, Store(tab, k, off, n, v, keep),
           \A m \in Nodes : tab[m].data = NoData => tab[m].cap = 0
    PROVE  Backed'
<1>1. DOMAIN mem' = DOMAIN mem
  BY DEF Store
<1>2. /\ \A m \in Nodes : m # k => nodes'[m].data = tab[m].data /\ nodes'[m].cap = tab[m].cap
      /\ nodes' = tab \/ nodes'[k].data \in HeapPages
  BY StoreIs
<1>3. NoData \notin HeapPages
  BY PageCountAssumption DEF NoData, HeapPages
<1> QED BY <1>1, <1>2, <1>3 DEF Backed

LEMMA BackedStep == IInv /\ Backed /\ [Next]_vars => Backed'
<1> SUFFICES ASSUME IInv, Backed, [Next]_vars PROVE Backed'
  OBVIOUS
<1>1. ASSUME \A m \in Nodes : nodes'[m].data = nodes[m].data /\ nodes'[m].cap = nodes[m].cap,
             DOMAIN mem' = DOMAIN mem
      PROVE  Backed'
  BY <1>1 DEF Backed
<1>2. CASE UNCHANGED <<nodes, mem>>
  BY <1>1, <1>2
<1>3. ASSUME NEW path \in Paths, NEW isDir \in BOOLEAN, MayAdd(path), NEW T, T = WithNode(path, isDir)
      PROVE  \A m \in Nodes : T[m].data = NoData => T[m].cap = 0
  <2>1. /\ T[Min(FreeNodes)].cap = 0
        /\ \A m \in Nodes : m # Min(FreeNodes) => T[m].data = nodes[m].data /\ T[m].cap = nodes[m].cap
    BY <1>3, AddedIs
  <2> QED BY <2>1 DEF Backed
<1>4. ASSUME NEW path \in Paths, NEW isDir \in BOOLEAN, MayAdd(path), nodes' = WithNode(path, isDir),
             mem' = mem
      PROVE  Backed'
  BY <1>3, <1>4 DEF Backed
<1>5. ASSUME NEW path \in Paths, Unlink(path) PROVE Backed'
  <2>1. DOMAIN mem' = DOMAIN mem
    BY <1>5 DEF Unlink
  <2> QED BY <1>1, <1>5, <2>1, UnlinkIs
<1>6. ASSUME NEW path \in Paths, NEW flags \in Modes, OpenExisting(path, flags) PROVE Backed'
  BY <1>1, <1>6, CutIs
<1>7. ASSUME NEW path \in Paths, NEW flags \in Modes, OpenNew(path, flags) PROVE Backed'
  BY <1>4, <1>7 DEF OpenNew
<1>8. ASSUME NEW i \in Fds, NEW n \in 1 .. MaxWrite, NEW v \in Stamps, WriteFile(i, n, v) PROVE Backed'
  <2> DEFINE k == fds[i].node
             off == fds[i].offset
  <2>1. n \in Nat
    BY VfsAssumption
  <2>2. k \in Nodes /\ off \in Nat /\ \E tab \in [Nodes -> Node] :
            /\ Store(tab, k, off, n, v, nodes[k].size)
            /\ \A m \in Nodes : tab[m].data = nodes[m].data /\ tab[m].cap = nodes[m].cap
    BY <1>8, <2>1, WriteIs
  <2> HIDE DEF k, off
  <2>3. PICK tab \in [Nodes -> Node] :
            /\ Store(tab, k, off, n, v, nodes[k].size)
            /\ \A m \in Nodes : tab[m].data = nodes[m].data /\ tab[m].cap = nodes[m].cap
    BY <2>2
  <2>4. \A m \in Nodes : tab[m].data = NoData => tab[m].cap = 0
    BY <2>3 DEF Backed
  <2> QED BY <2>1, <2>2, <2>3, <2>4, StoreBacked DEF IInv
<1>9. ASSUME NEW path \in Paths, NEW n \in 0 .. MaxWrite, NEW v \in Stamps, Unpack(path, n, v) PROVE Backed'
  <2> DEFINE k == Min(FreeNodes)
             new == WithNode(path, FALSE)
             tab == [new EXCEPT ![k].size = n]
  <2>1. n \in Nat
    BY VfsAssumption
  <2>2. /\ MayAdd(path)
        /\ Store(tab, k, 0, n, v, 0) \/ (nodes' = new /\ mem' = mem)
    BY <1>9 DEF Unpack
  <2>3. k \in Nodes /\ new \in [Nodes -> Node]
    BY <2>2, AddedIs
  <2>4. \A m \in Nodes : new[m].data = NoData => new[m].cap = 0
    BY <1>3, <2>2
  <2>5. CASE nodes' = new /\ mem' = mem
    BY <1>4, <2>2, <2>5
  <2>6. CASE Store(tab, k, 0, n, v, 0)
    <3> HIDE DEF k, new
    <3>1. tab \in [Nodes -> Node]
          /\ \A m \in Nodes : tab[m].data = new[m].data /\ tab[m].cap = new[m].cap
      BY <2>1, <2>3, SizedIs
    <3>2. \A m \in Nodes : tab[m].data = NoData => tab[m].cap = 0
      BY <2>4, <3>1
    <3> HIDE DEF tab
    <3> QED BY <2>1, <2>3, <2>6, <3>1, <3>2, StoreBacked DEF IInv
  <2> QED BY <2>2, <2>5, <2>6
<1>10. ASSUME NEW path \in Paths, MkDir(path) PROVE Backed'
  BY <1>4, <1>10 DEF MkDir
<1>11. CASE UNCHANGED vars
  BY <1>2, <1>11 DEF vars
<1>12. ASSUME NEW i \in Fds, CloseFile(i) PROVE Backed'
  BY <1>2, <1>12 DEF CloseFile
<1>13. ASSUME NEW i \in Fds, NEW n \in 1 .. MaxWrite, ReadFile(i, n) PROVE Backed'
  BY <1>2, <1>13 DEF ReadFile
<1>14. CASE EndBoot
  BY <1>2, <1>14 DEF EndBoot
<1> QED BY <1>5, <1>6, <1>7, <1>8, <1>9, <1>10, <1>11, <1>12, <1>13, <1>14 DEF Next, Programs

LEMMA InitBacked == Init => Backed
<1> SUFFICES ASSUME Init PROVE Backed
  OBVIOUS
<1>1. ASSUME NEW n \in Nodes PROVE nodes[n].cap = 0
  BY DEF Init, Unused
<1> QED BY <1>1 DEF Init, Backed

\* vfs_mkdir and vfs_open make an empty thing in a directory that is there.
LEMMA MakeStep ==
    ASSUME IInv, IInv', Backed, ~stray, NEW p \in Paths, NEW isDir \in BOOLEAN, MayAdd(p),
           nodes' = WithNode(p, isDir), mem' = mem
    PROVE  F!Step(Tree, Tree')
<1>0. PICK n : n = Min(FreeNodes)
  OBVIOUS
<1>1. /\ n \in Nodes /\ ~nodes[n].used /\ n # Root
      /\ nodes'[n].used /\ nodes'[n].name = Last(p) /\ nodes'[n].up = ParentOf(p) /\ nodes'[n].size = 0
      /\ \A m \in Nodes : m # n =>
            /\ nodes'[m].used = nodes[m].used /\ nodes'[m].name = nodes[m].name
            /\ nodes'[m].dir = nodes[m].dir /\ nodes'[m].up = nodes[m].up
            /\ nodes'[m].data = nodes[m].data /\ nodes'[m].size = nodes[m].size
      /\ ParentOf(p) \in Nodes /\ nodes[ParentOf(p)].used /\ nodes[ParentOf(p)].dir
  BY <1>0, AddedIs
<1>2. PathsLead /\ PathsLead'
  BY PathsLeadIs
<1>3. TypeOK /\ RootStays /\ IsTree /\ TypeOK'
  BY DEF IInv
<1>4. Root \in Nodes /\ NoNode \notin Nodes
  BY VfsAssumption DEF Root, Nodes, NoNode
<1>5. \A k \in Nodes : ~Leads(p, k)
  <2>1. Lookup(p) \notin Nodes
    BY <1>4 DEF MayAdd
  <2> QED BY <1>2, <2>1 DEF PathsLead
<1>6. \/ Len(p) = 1 /\ ParentOf(p) = Root /\ Front(p) = <<>>
      \/ /\ Len(p) = 2 /\ ParentOf(p) # Root /\ Front(p) = <<p[1]>> /\ <<p[1]>> \in Paths
         /\ nodes[ParentOf(p)].name = p[1] /\ nodes[ParentOf(p)].up = Root
  <2>3. /\ <<p[1]>> \in Paths
        /\ \/ Len(p) = 1 /\ Front(p) = <<>>
           \/ Len(p) = 2 /\ Front(p) = <<p[1]>>
    BY PathIs
  <2>1. CASE Len(p) = 1
    BY <2>1, <2>3 DEF ParentOf
  <2>2. CASE Len(p) = 2
    <3>1. ParentOf(p) = Child(Root, p[1])
      BY <2>2 DEF ParentOf
    <3>2. ParentOf(p) \in Kids(Root) /\ nodes[ParentOf(p)].name = p[1]
      BY <1>1, <1>3, <1>4, <3>1, ChildIs
    <3>3. ParentOf(p) # Root /\ nodes[ParentOf(p)].up = Root
      BY <1>1, <1>3, <1>4, <3>2 DEF IsTree, RootStays
    <3> QED BY <2>2, <2>3, <3>2, <3>3
  <2> QED BY <2>1, <2>2, <2>3
<1>7. Leads(p, n)'
  <2>1. ParentOf(p) # n
    BY <1>1
  <2>2. nodes'[ParentOf(p)].name = nodes[ParentOf(p)].name /\ nodes'[ParentOf(p)].up = nodes[ParentOf(p)].up
    BY <1>1, <2>1
  <2> QED BY <1>1, <1>6, <2>2 DEF Leads
<1>8. ASSUME NEW q \in Paths, NEW k \in Nodes, q # p PROVE Leads(q, k)' <=> Leads(q, k)
  <2>1. CASE k = n
    <3>1. ~Leads(q, k)
      BY <1>1, <2>1 DEF Leads
    <3>2. Leads(q, k)' => q = p
      BY <1>2, <1>7, <2>1 DEF PathsLead
    <3> QED BY <1>8, <3>1, <3>2
  <2>2. CASE k # n
    <3>1. /\ nodes'[k].used = nodes[k].used /\ nodes'[k].name = nodes[k].name
          /\ nodes'[k].up = nodes[k].up
      BY <1>1, <2>2
    <3>2. ASSUME nodes[k].used, k # Root
          PROVE  /\ nodes'[nodes[k].up].name = nodes[nodes[k].up].name
                 /\ nodes'[nodes[k].up].up = nodes[nodes[k].up].up
      <4>1. nodes[k].up \in Nodes /\ nodes[nodes[k].up].used
        BY <1>3, <3>2, ParentIs
      <4> QED BY <1>1, <4>1
    <3> QED BY <3>1, <3>2 DEF Leads
  <2> QED BY <2>1, <2>2
<1>9. ASSUME NEW q \in Paths, NEW k \in Nodes, Leads(q, k) PROVE Item(q, k)' = Item(q, k)
  <2>1. k # n /\ nodes[k].used
    BY <1>1, <1>9 DEF Leads
  <2>2. nodes'[k].dir = nodes[k].dir /\ nodes'[k].data = nodes[k].data /\ nodes'[k].size = nodes[k].size
    BY <1>1, <2>1
  <2> QED BY <1>3, <2>1, <2>2, BytesStay
<1>10. F!OnlyAt(p, Tree, Tree')
  BY <1>2, <1>8, <1>9, OnlyAtIs
<1>11. F!Things(p, Tree) = {}
  <2>1. ASSUME NEW x \in Tree, x.path = p PROVE FALSE
    <3>1. PICK q \in Paths : \E k \in Nodes : Leads(q, k) /\ x = Item(q, k)
      BY <1>2 DEF PathsLead
    <3>2. q = p
      BY <2>1, <3>1 DEF Item
    <3> QED BY <1>5, <3>1, <3>2
  <2> QED BY <2>1 DEF F!Things
<1>12. F!IsFolder(Front(p), Tree)
  <2>1. CASE Len(p) = 1
    BY <1>6, <2>1 DEF F!IsFolder
  <2>2. CASE Len(p) = 2
    <3> DEFINE x == Item(<<p[1]>>, ParentOf(p))
    <3>1. Leads(<<p[1]>>, ParentOf(p))
      <4>1. Len(<<p[1]>>) = 1 /\ Last(<<p[1]>>) = p[1]
        BY TupleIs
      <4> QED BY <1>1, <1>6, <2>2, <4>1 DEF Leads
    <3>2. x \in Tree
      BY <1>1, <1>2, <1>6, <2>2, <3>1 DEF PathsLead
    <3>3. x.path = <<p[1]>> /\ x.dir
      BY <1>1 DEF Item
    <3> HIDE DEF x
    <3> QED BY <1>6, <2>2, <3>2, <3>3 DEF F!IsFolder, F!Things
  <2> QED BY <1>6, <2>1, <2>2
<1>13. \E x \in F!Things(p, Tree') : x.bytes = <<>>
  <2>1. Item(p, n)' \in Tree'
    BY <1>1, <1>2, <1>7 DEF PathsLead
  <2>2. Item(p, n)'.path = p /\ Item(p, n)'.bytes = Got(n, 0, FileMax)'
    BY DEF Item
  <2>3. Got(n, 0, FileMax)' = <<>>
    <3>1. Least(FileMax, nodes'[n].size - 0) = 0
      BY <1>1, VfsAssumption DEF Least
    <3>2. Got(n, 0, FileMax)' = [j \in 1 .. 0 |-> mem'[Base(nodes'[n].data) + 0 + j - 1]]
      BY <3>1 DEF Got
    <3> QED BY <3>2
  <2> QED BY <2>1, <2>2, <2>3 DEF F!Things
<1>14. F!Make(p, Tree, Tree')
  <2>1. F!Front(p) = Front(p)
    BY DEF F!Front, Front
  <2> QED BY <1>11, <1>12, <1>13, <2>1 DEF F!Make
<1> QED BY <1>10, <1>14 DEF F!Step

\* A path that goes on behind another is in the directory that this one names.
LEMMA PrefixIs ==
    ASSUME NEW p \in Paths, NEW q \in Paths, F!IsStrictPrefix(p, q)
    PROVE  Len(p) = 1 /\ Len(q) = 2 /\ p[1] = q[1]
<1>1. Len(p) <= Len(q) /\ SubSeq(p, 1, Len(p)) = SubSeq(q, 1, Len(p)) /\ p # q
  BY DEF F!IsStrictPrefix, F!IsPrefix
<1>2. ASSUME NEW r \in Paths
      PROVE  /\ r \in Seq({r[1], r[2]}) /\ Len(r) \in {1, 2}
             /\ Len(r) = 1 => r = <<r[1]>>
             /\ Len(r) = 2 => r = <<r[1], r[2]>>
  <2> DEFINE a == r[1]
             b == r[2]
  <2>1. \/ Len(r) = 1 /\ r = <<a>>
        \/ Len(r) = 2 /\ r = <<a, b>>
    BY PathIs
  <2> HIDE DEF a, b
  <2>2. <<a>> \in Seq({a, b}) /\ <<a, b>> \in Seq({a, b})
    OBVIOUS
  <2>3. r \in Seq({a, b})
    BY ONLY <2>1, <2>2, Zenon
  <2>4. Len(r) = 1 \/ Len(r) = 2
    BY ONLY <2>1, Zenon
  <2>5. (Len(r) = 1 => r = <<a>>) /\ (Len(r) = 2 => r = <<a, b>>)
    <3>1. Len(<<a>>) = 1 /\ Len(<<a, b>>) = 2 /\ 1 # 2
      OBVIOUS
    <3> QED BY ONLY <2>1, <3>1, Zenon
  <2>6. Len(r) \in {1, 2}
    BY ONLY <2>4, Zenon
  <2> QED BY ONLY <2>3, <2>5, <2>6, Zenon DEF a, b
<1>3. Len(p) \in {1, 2} /\ Len(q) \in {1, 2}
  BY ONLY <1>2, p \in Paths, q \in Paths, Zenon
<1>4. ASSUME NEW r \in Paths, NEW m \in 1 .. Len(r)
      PROVE  \A j \in 1 .. m : SubSeq(r, 1, m)[j] = r[j]
  <2>1. r \in Seq({r[1], r[2]})
    BY ONLY <1>2, <1>4, Zenon
  <2> DEFINE S == {r[1], r[2]}
  <2> HIDE DEF S
  <2>2. r \in Seq(S)
    BY ONLY <2>1 DEF S
  <2> QED BY ONLY <1>4, <2>2, SubSeqProperties
<1>5. \A j \in 1 .. Len(p) : p[j] = q[j]
  <2>1. Len(p) \in 1 .. Len(p) /\ Len(p) \in 1 .. Len(q)
    BY ONLY <1>1, <1>3
  <2>2. ASSUME NEW j \in 1 .. Len(p) PROVE p[j] = q[j]
    <3>1. SubSeq(p, 1, Len(p))[j] = p[j]
      BY ONLY <1>4, <2>1, <2>2, p \in Paths
    <3>2. SubSeq(q, 1, Len(p))[j] = q[j]
      BY ONLY <1>4, <2>1, <2>2, q \in Paths
    <3> QED BY ONLY <1>1, <3>1, <3>2, Zenon
  <2> QED BY ONLY <2>2
<1>6. p[1] = q[1] /\ (Len(p) = 2 => p[2] = q[2])
  BY ONLY <1>3, <1>5
<1>7. ~(Len(p) = 1 /\ Len(q) = 1)
  BY ONLY <1>1, <1>2, <1>6, p \in Paths, q \in Paths, Zenon
<1>8. ~(Len(p) = 2 /\ Len(q) = 2)
  BY ONLY <1>1, <1>2, <1>6, p \in Paths, q \in Paths, Zenon
<1> QED BY ONLY <1>1, <1>3, <1>6, <1>7, <1>8

\* vfs_unlink removes what has nothing below it, and frees no byte of another file.
LEMMA DeleteStep ==
    ASSUME IInv, IInv', Backed, ~stray, NEW p \in Paths, Unlink(p)
    PROVE  F!Step(Tree, Tree')
<1>0. PICK n : n = Lookup(p)
  OBVIOUS
<1>1. /\ n \in Nodes /\ nodes[n].used /\ n # Root /\ Kids(n) = {} /\ ~nodes'[n].used
      /\ \A m \in Nodes :
            /\ nodes'[m].name = nodes[m].name /\ nodes'[m].dir = nodes[m].dir
            /\ nodes'[m].up = nodes[m].up /\ nodes'[m].data = nodes[m].data
            /\ nodes'[m].cap = nodes[m].cap /\ nodes'[m].size = nodes[m].size
            /\ m # n => nodes'[m].used = nodes[m].used
  BY <1>0, UnlinkIs
<1>2. PathsLead /\ PathsLead'
  BY PathsLeadIs
<1>3. TypeOK /\ RootStays /\ IsTree /\ TypeOK'
  BY DEF IInv
<1>4. Leads(p, n)
  BY <1>0, <1>1, <1>2 DEF PathsLead
<1>5. ASSUME NEW q \in Paths, NEW k \in Nodes PROVE Leads(q, k)' <=> k # n /\ Leads(q, k)
  <2>1. CASE k = n
    BY <1>1, <2>1 DEF Leads
  <2>2. CASE k # n
    <3>1. /\ nodes'[k].used = nodes[k].used /\ nodes'[k].name = nodes[k].name
          /\ nodes'[k].up = nodes[k].up
      BY <1>1, <2>2
    <3>2. ASSUME nodes[k].used, k # Root
          PROVE  /\ nodes'[nodes[k].up].name = nodes[nodes[k].up].name
                 /\ nodes'[nodes[k].up].up = nodes[nodes[k].up].up
      <4>1. nodes[k].up \in Nodes
        BY <1>3, <3>2, ParentIs
      <4> QED BY <1>1, <4>1
    <3> QED BY <2>2, <3>1, <3>2 DEF Leads
  <2> QED BY <2>1, <2>2
<1>6. ASSUME NEW q \in Paths, NEW k \in Nodes, q # p PROVE Leads(q, k)' <=> Leads(q, k)
  <2>1. Leads(q, k) => k # n
    BY <1>2, <1>4, <1>6 DEF PathsLead
  <2> QED BY <1>5, <2>1
<1>7. ASSUME NEW q \in Paths, NEW k \in Nodes, q # p, Leads(q, k) PROVE Item(q, k)' = Item(q, k)
  <2>1. k # n /\ nodes[k].used
    BY <1>1, <1>2, <1>4, <1>7 DEF Leads, PathsLead
  <2>2. ASSUME NEW b \in DOMAIN mem, b \div PageBytes \in FreedPages(nodes[k]) PROVE mem'[b] = mem[b]
    <3>1. mem' = [c \in DOMAIN mem |-> IF c \in Poisoned(FreedPages(nodes[n])) THEN Poison ELSE mem[c]]
      BY <1>0 DEF Unlink
    <3>2. b \div PageBytes \notin FreedPages(nodes[n])
      <4>1. ASSUME NEW m \in Nodes, nodes[m].used, FreedPages(nodes[m]) # {} PROVE m \in Holders
        BY <4>1 DEF FreedPages, Holders
      <4> QED BY <1>1, <2>1, <2>2, <4>1, OwnerIs DEF IInv
    <3>3. b \notin Poisoned(FreedPages(nodes[n]))
      BY <3>2 DEF Poisoned
    <3> QED BY <3>1, <3>3
  <2>3. nodes'[k].dir = nodes[k].dir /\ nodes'[k].data = nodes[k].data /\ nodes'[k].size = nodes[k].size
    BY <1>1
  <2> QED BY <1>3, <2>1, <2>2, <2>3, BytesStay
<1>8. F!OnlyAt(p, Tree, Tree')
  BY <1>2, <1>6, <1>7, OnlyAtIs
<1>9. F!Things(p, Tree) # {}
  <2>1. Item(p, n) \in Tree
    BY <1>1, <1>2, <1>4 DEF PathsLead
  <2>2. Item(p, n).path = p
    BY DEF Item
  <2> QED BY <2>1, <2>2 DEF F!Things
<1>10. F!Things(p, Tree') = {}
  <2>1. ASSUME NEW x \in Tree', x.path = p PROVE FALSE
    <3>1. PICK q \in Paths : \E k \in Nodes : Leads(q, k)' /\ x = Item(q, k)'
      BY <1>2 DEF PathsLead
    <3>2. q = p
      BY <2>1, <3>1 DEF Item
    <3>3. PICK k \in Nodes : Leads(p, k)'
      BY <3>1, <3>2
    <3>4. k # n /\ Leads(p, k)
      BY <1>5, <3>3
    <3> QED BY <1>0, <1>2, <3>4 DEF PathsLead
  <2> QED BY <2>1 DEF F!Things
<1>11. ASSUME NEW x \in Tree, F!IsStrictPrefix(p, x.path) PROVE FALSE
  <2>1. PICK q \in Paths : \E k \in Nodes : Leads(q, k) /\ x = Item(q, k)
    BY <1>2 DEF PathsLead
  <2>2. PICK k \in Nodes : Leads(q, k) /\ x = Item(q, k)
    BY <2>1
  <2>3. x.path = q
    BY <2>2 DEF Item
  <2>4. Len(p) = 1 /\ Len(q) = 2 /\ p[1] = q[1]
    BY <1>11, <2>3, PrefixIs
  <2>5. /\ nodes[k].used /\ k # Root /\ nodes[k].up # Root
        /\ nodes[nodes[k].up].name = q[1] /\ nodes[nodes[k].up].up = Root
    BY <2>2, <2>4 DEF Leads
  <2>6. nodes[k].up \in Nodes /\ nodes[nodes[k].up].used /\ k \in Kids(nodes[k].up)
    BY <1>3, <2>5, ParentIs
  <2>7. Last(p) = p[1]
    BY <2>4, PathIs
  <2>8. Leads(p, nodes[k].up)
    BY <2>4, <2>5, <2>6, <2>7 DEF Leads
  <2>9. nodes[k].up = n
    BY <1>0, <1>2, <2>6, <2>8 DEF PathsLead
  <2> QED BY <1>1, <2>6, <2>9
<1>12. F!Delete(p, Tree, Tree')
  BY <1>9, <1>10, <1>11 DEF F!Delete
<1> QED BY <1>8, <1>12 DEF F!Step

LEMMA PageOf ==
    ASSUME NEW at \in Nat, NEW m \in Nat, NEW b \in Int, Base(at) <= b, b < Base(at) + m * PageBytes
    PROVE  b \div PageBytes \in Run(at, m)
<1>1. Base(at) \in Nat /\ m * PageBytes \in Nat
  BY VfsAssumption DEF Base
<1> DEFINE j == b - Base(at)
<1>2. j \in Nat /\ j < m * PageBytes /\ Base(at) + j = b
  BY <1>1
<1> HIDE DEF j
<1>3. (Base(at) + j) \div PageBytes \in Run(at, m)
  BY <1>2, BytesAre
<1> QED BY <1>2, <1>3

\* No byte of another file changes, and of the file itself only those that are written.
LEMMA StoreBytes ==
    ASSUME IInv, Backed, ~stray, NEW tab \in [Nodes -> Node], NEW k \in Nodes, nodes[k].used,
           tab[k].data = nodes[k].data, tab[k].cap = nodes[k].cap,
           NEW off \in Nat, NEW n \in Nat, n > 0, NEW v,
           Store(tab, k, off, n, v, nodes[k].size)
    PROVE  /\ \A m \in Nodes : m # k /\ nodes[m].used =>
                  \A b \in DOMAIN mem : b \div PageBytes \in FreedPages(nodes[m]) => mem'[b] = mem[b]
           /\ \A j \in Nat : j < nodes[k].size /\ (j < off \/ j >= off + n) =>
                  mem'[Base(nodes'[k].data) + j] = mem[Base(nodes[k].data) + j]
<1> DEFINE d == nodes[k].data
           size == nodes[k].size
           cap == nodes[k].cap
           need == PagesFor(off + n)
           put(b, at) == b \in Base(at) + off .. Base(at) + off + n - 1
           copy(b, at) == b \in Base(at) .. Base(at) + size - 1
           gone == FreedPages(tab[k])
<1>1. d \in HeapPages \cup {NoData} /\ cap \in Nat /\ size \in Nat /\ size <= cap
  BY NodeIs, OwnerIs DEF IInv
<1>2. PageBytes \in Nat /\ PageBytes > 0 /\ PageCount \in Nat /\ \A x \in Nat : Base(x) \in Nat
  BY VfsAssumption, PageCountAssumption DEF Base
<1>3. gone = FreedPages(nodes[k])
  BY DEF FreedPages
<1>4. ASSUME NEW m \in Nodes, nodes[m].used, NEW p \in FreedPages(nodes[m])
      PROVE  m \in Holders /\ p \in bitmap /\ p \in HeapPages
  <2>1. m \in Holders
    BY <1>4 DEF FreedPages, Holders
  <2> QED BY <1>4, <2>1, OwnerIs DEF IInv, TypeOK
<1>5. ASSUME NEW m \in Nodes, m # k, nodes[m].used, NEW p \in FreedPages(nodes[m])
      PROVE  p \notin FreedPages(nodes[k])
  BY <1>4, <1>5, OwnerIs DEF IInv
<1>6. DOMAIN mem = 0 .. PageCount * PageBytes - 1 /\ (d = NoData => cap = 0)
  BY DEF Backed
<1>7. \A b \in DOMAIN mem : b \in Int
  BY <1>6
<1> HIDE DEF d, size, cap, need, gone
<1>8. ASSUME off + n <= cap, nodes' = tab,
             mem' = [b \in DOMAIN mem |-> IF n > 0 /\ put(b, d) THEN Byte(v) ELSE mem[b]]
      PROVE  /\ \A m \in Nodes : m # k /\ nodes[m].used =>
                    \A b \in DOMAIN mem : b \div PageBytes \in FreedPages(nodes[m]) => mem'[b] = mem[b]
             /\ \A j \in Nat : j < size /\ (j < off \/ j >= off + n) =>
                    mem'[Base(nodes'[k].data) + j] = mem[Base(d) + j]
  <2>1. d \in HeapPages /\ d \in Nat /\ d # NoData
    <3>1. d # NoData
      BY <1>1, <1>6, <1>8
    <3> QED BY <1>1, <1>2, <3>1 DEF HeapPages
  <2>2. FreedPages(nodes[k]) = Run(d, PagesFor(cap)) /\ PagesFor(cap) \in Nat /\ PagesFor(cap) * PageBytes >= cap
    BY <1>1, <2>1, PagesForIs DEF FreedPages, d, cap
  <2>3. ASSUME NEW b \in DOMAIN mem, put(b, d) PROVE b \div PageBytes \in FreedPages(nodes[k])
    <3>1. PagesFor(cap) * PageBytes \in Nat
      BY <1>2, <2>2
    <3>2. Base(d) <= b /\ b < Base(d) + PagesFor(cap) * PageBytes
      BY <1>1, <1>2, <1>7, <1>8, <2>1, <2>2, <2>3, <3>1
    <3> QED BY <1>7, <2>1, <2>2, <3>2, PageOf
  <2>4. ASSUME NEW m \in Nodes, m # k, nodes[m].used,
               NEW b \in DOMAIN mem, b \div PageBytes \in FreedPages(nodes[m])
        PROVE  mem'[b] = mem[b]
    <3>1. ~put(b, d)
      BY <1>5, <2>3, <2>4
    <3> QED BY <1>8, <3>1
  <2>5. ASSUME NEW j \in Nat, j < size, j < off \/ j >= off + n
        PROVE  mem'[Base(nodes'[k].data) + j] = mem[Base(d) + j]
    <3>1. Base(d) + j \in DOMAIN mem
      BY <2>5, OwnBytes DEF d, size
    <3>2. ~put(Base(d) + j, d)
      BY <1>2, <2>1, <2>5
    <3>3. nodes'[k].data = d
      BY <1>8 DEF d
    <3> QED BY <1>8, <3>1, <3>2, <3>3
  <2> QED BY <2>4, <2>5
<1>9. ASSUME off + n > cap, NEW at \in FirstFit(bitmap, need), nodes'[k].data = at,
             \A b \in DOMAIN mem : mem'[b] = IF put(b, at) THEN Byte(v)
                                              ELSE IF copy(b, at) THEN mem[b - Base(at) + Base(d)]
                                              ELSE IF b \in Poisoned(gone) THEN Poison ELSE mem[b]
      PROVE  /\ \A m \in Nodes : m # k /\ nodes[m].used =>
                    \A b \in DOMAIN mem : b \div PageBytes \in FreedPages(nodes[m]) => mem'[b] = mem[b]
             /\ \A j \in Nat : j < size /\ (j < off \/ j >= off + n) =>
                    mem'[Base(nodes'[k].data) + j] = mem[Base(d) + j]
  <2>1. at \in Nat /\ Run(at, need) \subseteq HeapPages /\ Run(at, need) \cap bitmap = {}
    BY <1>2, <1>9 DEF FirstFit, FreeRun, HeapPages
  <2>2. need \in Nat /\ need * PageBytes >= off + n /\ need * PageBytes \in Nat
    <3>1. need \in Nat /\ need * PageBytes >= off + n
      BY PagesForIs DEF need
    <3> QED BY <1>2, <3>1
  <2>3. size < need * PageBytes
    BY <1>1, <1>9, <2>2
  <2>4. ASSUME NEW b \in DOMAIN mem, put(b, at) \/ copy(b, at) PROVE b \div PageBytes \in Run(at, need)
    <3>1. Base(at) <= b /\ b < Base(at) + need * PageBytes
      BY <1>1, <1>2, <1>7, <2>1, <2>2, <2>3, <2>4
    <3> QED BY <1>7, <2>1, <2>2, <3>1, PageOf
  <2>5. ASSUME NEW m \in Nodes, m # k, nodes[m].used,
               NEW b \in DOMAIN mem, b \div PageBytes \in FreedPages(nodes[m])
        PROVE  mem'[b] = mem[b]
    <3>1. ~put(b, at) /\ ~copy(b, at)
      BY <1>4, <2>1, <2>4, <2>5
    <3>2. b \notin Poisoned(gone)
      BY <1>3, <1>5, <2>5 DEF Poisoned
    <3> QED BY <1>9, <3>1, <3>2
  <2>6. ASSUME NEW j \in Nat, j < size, j < off \/ j >= off + n
        PROVE  mem'[Base(nodes'[k].data) + j] = mem[Base(d) + j]
    <3>1. Base(at) + j \in DOMAIN mem
      <4>1. j < need * PageBytes
        BY <1>1, <2>2, <2>3, <2>6
      <4> QED BY <1>6, <2>1, <2>2, <4>1, BytesAre
    <3>2. ~put(Base(at) + j, at) /\ copy(Base(at) + j, at)
      BY <1>1, <1>2, <2>1, <2>6
    <3>3. mem'[Base(at) + j] = mem[(Base(at) + j) - Base(at) + Base(d)]
      BY <1>9, <3>1, <3>2
    <3>4. (Base(at) + j) - Base(at) + Base(d) = Base(d) + j
      <4>1. Base(d) \in Int
        BY <1>1, <1>2 DEF Base, HeapPages, NoData
      <4> QED BY <1>2, <2>1, <4>1
    <3> QED BY <1>9, <3>3, <3>4
  <2> QED BY <2>5, <2>6
<1>10. \/ /\ off + n <= cap /\ nodes' = tab
          /\ mem' = [b \in DOMAIN mem |-> IF n > 0 /\ put(b, d) THEN Byte(v) ELSE mem[b]]
       \/ /\ off + n > cap
          /\ \E at \in FirstFit(bitmap, need) :
                /\ nodes'[k].data = at
                /\ \A b \in DOMAIN mem : mem'[b] = IF put(b, at) THEN Byte(v)
                                                 ELSE IF copy(b, at) THEN mem[b - Base(at) + Base(d)]
                                                 ELSE IF b \in Poisoned(gone) THEN Poison ELSE mem[b]
  <2>1. CASE off + n <= cap
    BY <2>1, <1>1 DEF Store, d, cap
  <2>2. CASE off + n > cap
    <3>1. PICK at \in FirstFit(bitmap, PagesFor(off + n)) :
              /\ nodes' = [tab EXCEPT ![k].data = at, ![k].cap = PagesFor(off + n) * PageBytes]
              /\ mem' = [b \in DOMAIN mem |->
                            IF put(b, at) THEN Byte(v)
                            ELSE IF b \in Base(at) .. Base(at) + nodes[k].size - 1
                                 THEN mem[b - Base(at) + Base(tab[k].data)]
                            ELSE IF b \in Poisoned(FreedPages(tab[k])) THEN Poison ELSE mem[b]]
      <4>1. ~(off + n <= tab[k].cap)
        BY <1>1, <2>2 DEF cap
      <4> QED BY ONLY <4>1, Store(tab, k, off, n, v, nodes[k].size), Zenon DEF Store
    <3>2. nodes'[k].data = at
      <4>1. tab[k] \in Node
        OBVIOUS
      <4>2. nodes'[k] = [tab[k] EXCEPT !.data = at, !.cap = PagesFor(off + n) * PageBytes]
        BY <3>1
      <4> QED BY <4>1, <4>2 DEF Node
    <3>3. \A b \in DOMAIN mem : mem'[b] = IF put(b, at) THEN Byte(v)
                                        ELSE IF copy(b, at) THEN mem[b - Base(at) + Base(d)]
                                        ELSE IF b \in Poisoned(gone) THEN Poison ELSE mem[b]
      BY <3>1 DEF d, size, gone
    <3>4. at \in FirstFit(bitmap, need)
      BY <3>1 DEF need
    <3> QED BY <2>2, <3>2, <3>3, <3>4
  <2> QED BY <1>1, <2>1, <2>2
<1>11. CASE off + n <= cap
  BY <1>1, <1>8, <1>10, <1>11 DEF d, size
<1>12. CASE off + n > cap
  BY <1>1, <1>9, <1>10, <1>12 DEF d, size
<1> QED BY <1>1, <1>11, <1>12

LEMMA LengthIs ==
    ASSUME NEW l \in Nat, NEW s, s = [j \in 1 .. l |-> s[j]]
    PROVE  Len(s) = l
<1> DEFINE T == {s[j] : j \in 1 .. l}
<1>1. s \in Seq(T)
  OBVIOUS
<1>2. DOMAIN s = 1 .. l
  OBVIOUS
<1> HIDE DEF T
<1> QED BY <1>1, <1>2

\* vfs_open cuts a file, and no byte of another one changes.
LEMMA TruncateStep ==
    ASSUME IInv, IInv', Backed, ~stray, NEW p \in Paths, NEW flags \in Modes, OpenExisting(p, flags)
    PROVE  F!Step(Tree, Tree') \/ Tree' = Tree
<1>0. PICK n : n = Lookup(p)
  OBVIOUS
<1>1. /\ n \in Nodes /\ nodes[n].used /\ ~nodes[n].dir /\ mem' = mem
      /\ nodes'[n].size = IF {"trunc", "write"} \subseteq flags THEN 0 ELSE nodes[n].size
      /\ \A m \in Nodes :
            /\ nodes'[m].used = nodes[m].used /\ nodes'[m].name = nodes[m].name
            /\ nodes'[m].dir = nodes[m].dir /\ nodes'[m].up = nodes[m].up
            /\ nodes'[m].data = nodes[m].data /\ nodes'[m].cap = nodes[m].cap
            /\ m # n => nodes'[m].size = nodes[m].size
  BY <1>0, CutIs
<1>2. PathsLead /\ PathsLead'
  BY PathsLeadIs
<1>3. TypeOK /\ RootStays /\ IsTree /\ TypeOK'
  BY DEF IInv
<1>4. Leads(p, n)
  BY <1>0, <1>1, <1>2 DEF PathsLead
<1>5. \A q \in Paths : \A k \in Nodes : Leads(q, k)' <=> Leads(q, k)
  BY <1>1, <1>3, SameLeads
<1>6. ASSUME NEW q \in Paths, NEW k \in Nodes, Leads(q, k), nodes'[k].size = nodes[k].size
      PROVE  Item(q, k)' = Item(q, k)
  <2>1. nodes[k].used
    BY <1>6 DEF Leads
  <2> QED BY <1>1, <1>3, <1>6, <2>1, BytesStay
<1>7. CASE {"trunc", "write"} \subseteq flags
  <2>1. \A q \in Paths : \A k \in Nodes : q # p /\ Leads(q, k) => Item(q, k)' = Item(q, k)
    <3>1. \A q \in Paths : \A k \in Nodes : q # p /\ Leads(q, k) => k # n
      BY <1>2, <1>4 DEF PathsLead
    <3> QED BY <1>1, <1>6, <3>1
  <2>2. F!OnlyAt(p, Tree, Tree')
    BY <1>2, <1>5, <2>1, OnlyAtIs
  <2>3. Item(p, n) \in Tree /\ Item(p, n)' \in Tree'
    BY <1>1, <1>2, <1>4, <1>5 DEF PathsLead
  <2>4. Item(p, n)' = [Item(p, n) EXCEPT !.bytes = <<>>]
    <3>1. Got(n, 0, FileMax)' = <<>>
      <4>1. Least(FileMax, nodes'[n].size - 0) = 0
        BY <1>1, <1>7, VfsAssumption DEF Least
      <4>2. Got(n, 0, FileMax)' = [j \in 1 .. 0 |-> mem'[Base(nodes'[n].data) + 0 + j - 1]]
        BY <4>1 DEF Got
      <4> QED BY <4>2
    <3> QED BY <1>1, <3>1 DEF Item
  <2>5. Item(p, n).path = p /\ ~Item(p, n).dir
    BY <1>1 DEF Item
  <2>6. F!Truncate(p, Tree, Tree')
    BY <2>3, <2>4, <2>5 DEF F!Truncate, F!Things
  <2> QED BY <2>2, <2>6 DEF F!Step
<1>8. CASE ~({"trunc", "write"} \subseteq flags)
  <2>1. \A k \in Nodes : nodes'[k].size = nodes[k].size
    BY <1>1, <1>8
  <2> QED BY <1>2, <1>5, <1>6, <2>1, SameThings
<1> QED BY <1>7, <1>8

\* vfs_write writes over the file or past its end, in place or where its bytes move.
LEMMA OverwriteStep ==
    ASSUME IInv, IInv', Backed, ~stray, ~stray',
           NEW i \in Fds, NEW n \in 1 .. MaxWrite, NEW v, WriteFile(i, n, v)
    PROVE  F!Step(Tree, Tree') \/ Tree' = Tree
<1>1. PICK k, off : k = fds[i].node /\ off = fds[i].offset
  OBVIOUS
<1>2. n \in Nat /\ n > 0 /\ n <= MaxWrite /\ MaxWrite \in Nat /\ FileMax \in Nat
  BY VfsAssumption
<1>3. /\ k \in Nodes /\ off \in Nat /\ off + n <= FileMax /\ ~nodes[k].dir
      /\ nodes[k].used /\ off <= nodes[k].size
      /\ \E tab \in [Nodes -> Node] :
            /\ Store(tab, k, off, n, v, nodes[k].size)
            /\ tab[k].size = IF off + n > nodes[k].size THEN off + n ELSE nodes[k].size
            /\ \A m \in Nodes :
                  /\ tab[m].used = nodes[m].used /\ tab[m].name = nodes[m].name
                  /\ tab[m].dir = nodes[m].dir /\ tab[m].up = nodes[m].up
                  /\ tab[m].data = nodes[m].data /\ tab[m].cap = nodes[m].cap
                  /\ m # k => tab[m].size = nodes[m].size
  BY <1>1, <1>2, WriteIs
<1>4. PICK tab \in [Nodes -> Node] :
         /\ Store(tab, k, off, n, v, nodes[k].size)
         /\ tab[k].size = IF off + n > nodes[k].size THEN off + n ELSE nodes[k].size
         /\ \A m \in Nodes :
               /\ tab[m].used = nodes[m].used /\ tab[m].name = nodes[m].name
               /\ tab[m].dir = nodes[m].dir /\ tab[m].up = nodes[m].up
               /\ tab[m].data = nodes[m].data /\ tab[m].cap = nodes[m].cap
               /\ m # k => tab[m].size = nodes[m].size
  BY <1>3
<1>5. TypeOK /\ RootStays /\ IsTree /\ TypeOK'
  BY DEF IInv
<1>6. \A m \in Nodes : /\ nodes'[m].used = nodes[m].used /\ nodes'[m].name = nodes[m].name
                       /\ nodes'[m].dir = nodes[m].dir /\ nodes'[m].up = nodes[m].up
                       /\ nodes'[m].size = tab[m].size
                       /\ m # k => nodes'[m].data = nodes[m].data /\ nodes'[m].size = nodes[m].size
  <2>1. \A m \in Nodes : /\ nodes'[m].used = tab[m].used /\ nodes'[m].name = tab[m].name
                         /\ nodes'[m].dir = tab[m].dir /\ nodes'[m].up = tab[m].up
                         /\ nodes'[m].size = tab[m].size
                         /\ m # k => nodes'[m].data = tab[m].data
    BY <1>2, <1>3, <1>4, <1>5, StoreIs
  <2> QED BY <1>4, <2>1
<1>7. /\ \A m \in Nodes : m # k /\ nodes[m].used =>
             \A b \in DOMAIN mem : b \div PageBytes \in FreedPages(nodes[m]) => mem'[b] = mem[b]
      /\ \A j \in Nat : j < nodes[k].size /\ (j < off \/ j >= off + n) =>
             mem'[Base(nodes'[k].data) + j] = mem[Base(nodes[k].data) + j]
  <2>1. tab[k].data = nodes[k].data /\ tab[k].cap = nodes[k].cap /\ Store(tab, k, off, n, v, nodes[k].size)
    BY <1>3, <1>4
  <2>2. tab \in [Nodes -> Node] /\ k \in Nodes /\ nodes[k].used /\ off \in Nat /\ n \in Nat /\ n > 0
    BY <1>2, <1>3
  <2> QED BY ONLY <2>1, <2>2, IInv, Backed, ~stray, StoreBytes
<1>8. PathsLead /\ PathsLead'
  BY PathsLeadIs
<1>9. \A q \in Paths : \A m \in Nodes : Leads(q, m)' <=> Leads(q, m)
  BY <1>5, <1>6, SameLeads
<1>10. ASSUME NEW q \in Paths, NEW m \in Nodes, Leads(q, m), m # k
       PROVE  Item(q, m)' = Item(q, m)
  <2>1. nodes[m].used
    BY <1>10 DEF Leads
  <2> QED BY <1>5, <1>6, <1>7, <1>10, <2>1, BytesStay
<1>11. CASE \A p \in Paths : ~Leads(p, k)
  BY <1>8, <1>9, <1>10, <1>11, SameThings
<1>12. ASSUME NEW p \in Paths, Leads(p, k) PROVE F!Step(Tree, Tree')
  <2>1. \A q \in Paths : \A m \in Nodes : q # p /\ Leads(q, m) => Item(q, m)' = Item(q, m)
    <3>1. \A q \in Paths : \A m \in Nodes : q # p /\ Leads(q, m) => m # k
      BY <1>8, <1>12 DEF PathsLead
    <3> QED BY <1>10, <3>1
  <2>2. F!OnlyAt(p, Tree, Tree')
    BY <1>8, <1>9, <2>1, OnlyAtIs
  <2>3. /\ Item(p, k) \in F!Things(p, Tree) /\ ~Item(p, k).dir /\ Item(p, k).bytes = Got(k, 0, FileMax)
        /\ Item(p, k)' \in F!Things(p, Tree') /\ ~Item(p, k)'.dir /\ Item(p, k)'.bytes = Got(k, 0, FileMax)'
    <3>1. Item(p, k) \in Tree /\ Item(p, k)' \in Tree'
      BY <1>3, <1>8, <1>9, <1>12 DEF PathsLead
    <3>2. /\ Item(p, k).path = p /\ ~Item(p, k).dir /\ Item(p, k).bytes = Got(k, 0, FileMax)
          /\ Item(p, k)'.path = p /\ ~Item(p, k)'.dir /\ Item(p, k)'.bytes = Got(k, 0, FileMax)'
      BY <1>3, <1>6 DEF Item
    <3> QED BY <3>1, <3>2 DEF F!Things
  <2> DEFINE size == nodes[k].size
             a == Got(k, 0, FileMax)
  <2>4. PICK b, l, m : b = Got(k, 0, FileMax)' /\ l = Least(FileMax, size - 0)
                       /\ m = Least(FileMax, nodes'[k].size - 0)
    OBVIOUS
  <2>5. nodes[k].size \in Nat /\ nodes'[k].size = IF off + n > nodes[k].size THEN off + n ELSE nodes[k].size
    BY <1>3, <1>4, <1>5, <1>6, NodeIs
  <2>6. /\ l \in Nat /\ m \in Nat /\ l <= size /\ off <= l
        /\ m \in l .. (IF off + MaxWrite > l THEN off + MaxWrite ELSE l)
    BY <1>2, <1>3, <2>4, <2>5 DEF Least
  <2>7. /\ a = [j \in 1 .. l |-> mem[Base(nodes[k].data) + 0 + j - 1]]
        /\ b = [j \in 1 .. m |-> mem'[Base(nodes'[k].data) + 0 + j - 1]]
    BY <2>4 DEF Got
  <2> HIDE DEF size, a
  <2>8. Len(a) = l /\ Len(b) = m
    <3>1. a = [j \in 1 .. l |-> a[j]] /\ b = [j \in 1 .. m |-> b[j]]
      BY <2>7
    <3> QED BY <2>6, <3>1, LengthIs
  <2>9. ASSUME NEW j \in 1 .. l, j \notin off + 1 .. off + MaxWrite PROVE b[j] = a[j]
    <3>1. j - 1 \in Nat /\ j - 1 < nodes[k].size /\ (j - 1 < off \/ j - 1 >= off + n) /\ j \in 1 .. m
      BY <1>2, <1>3, <2>5, <2>6, <2>9 DEF size
    <3>2. mem'[Base(nodes'[k].data) + (j - 1)] = mem[Base(nodes[k].data) + (j - 1)]
      BY <1>7, <3>1
    <3>3. /\ Base(nodes'[k].data) + 0 + j - 1 = Base(nodes'[k].data) + (j - 1)
          /\ Base(nodes[k].data) + 0 + j - 1 = Base(nodes[k].data) + (j - 1)
      <4>1. Base(nodes[k].data) \in Int /\ Base(nodes'[k].data) \in Int
        BY <1>3, <1>5, BaseIs
      <4> QED BY <2>6, <4>1
    <3> QED BY <2>7, <3>1, <3>2, <3>3
  <2>10. F!Splice(a, b, off, MaxWrite)
    BY <2>6, <2>8, <2>9 DEF F!Splice
  <2>11. off \in 0 .. Len(a)
    BY <1>3, <2>6, <2>8
  <2>12. F!Overwrite(p, Tree, Tree')
    <3>1. Item(p, k).bytes = a /\ Item(p, k)'.bytes = b
      BY <2>3, <2>4 DEF a
    <3> QED BY <2>3, <2>10, <2>11, <3>1 DEF F!Overwrite
  <2> QED BY <2>2, <2>12 DEF F!Step
<1> QED BY <1>11, <1>12

\* One call of a program, as Files says it.
LEMMA FilesStep == IInv /\ IInv' /\ Backed /\ [Next]_vars => [booting \/ stray' \/ F!Next]_Tree
<1> SUFFICES ASSUME IInv, IInv', Backed, [Next]_vars, ~booting, ~stray'
             PROVE  F!Step(Tree, Tree') \/ Tree' = Tree
  BY DEF F!Next
<1>1. CASE UNCHANGED <<nodes, mem>>
  BY <1>1, SameTree
<1>2. ASSUME NEW p \in Paths, Unlink(p) PROVE F!Step(Tree, Tree')
  <2>1. ~stray
    BY <1>2 DEF Unlink
  <2> QED BY <1>2, <2>1, DeleteStep
<1>3. ASSUME NEW p \in Paths, NEW flags \in Modes, OpenExisting(p, flags)
      PROVE  F!Step(Tree, Tree') \/ Tree' = Tree
  <2>1. ~stray
    BY <1>3 DEF OpenExisting
  <2> QED BY <1>3, <2>1, TruncateStep
<1>4. ASSUME NEW p \in Paths, NEW flags \in Modes, OpenNew(p, flags) PROVE F!Step(Tree, Tree')
  <2>1. ~stray /\ MayAdd(p) /\ nodes' = WithNode(p, FALSE) /\ mem' = mem
    BY <1>4 DEF OpenNew
  <2> QED BY <2>1, MakeStep
<1>5. ASSUME NEW p \in Paths, MkDir(p) PROVE F!Step(Tree, Tree')
  <2>1. ~stray /\ MayAdd(p) /\ nodes' = WithNode(p, TRUE) /\ mem' = mem
    BY <1>5 DEF MkDir
  <2> QED BY <2>1, MakeStep
<1>6. ASSUME NEW i \in Fds, NEW n \in 1 .. MaxWrite, NEW v \in Stamps, WriteFile(i, n, v)
      PROVE  F!Step(Tree, Tree') \/ Tree' = Tree
  <2>1. ~stray
    BY <1>6 DEF WriteFile
  <2> QED BY <1>6, <2>1, OverwriteStep
<1>7. ASSUME NEW i \in Fds, NEW n \in 1 .. MaxWrite, ReadFile(i, n) PROVE Tree' = Tree
  <2>1. UNCHANGED <<nodes, mem>>
    BY <1>7 DEF ReadFile
  <2> QED BY <2>1, SameTree
<1>8. ASSUME NEW i \in Fds, CloseFile(i) PROVE Tree' = Tree
  <2>1. UNCHANGED <<nodes, mem>>
    BY <1>8 DEF CloseFile
  <2> QED BY <2>1, SameTree
<1>9. CASE UNCHANGED vars
  BY <1>1, <1>9 DEF vars
<1>10. ASSUME NEW p \in Paths, NEW n \in 0 .. MaxWrite, NEW v \in Stamps, Unpack(p, n, v) PROVE FALSE
  BY <1>10 DEF Unpack
<1>11. ~EndBoot
  BY DEF EndBoot
<1> QED BY <1>2, <1>3, <1>4, <1>5, <1>6, <1>7, <1>8, <1>9, <1>10, <1>11 DEF Next, Programs

\* vfs_init makes the mount points, which are all in the root.
LEMMA FilesInit == Init => F!Init
<1> SUFFICES ASSUME Init, NEW x \in Tree PROVE F!IsFolder(F!Front(x.path), Tree)
  BY DEF F!Init
<1>1. IInv /\ PathsLead
  BY InitIInv, PathsLeadIs
<1>2. PICK p \in Paths : \E k \in Nodes : Leads(p, k) /\ x = Item(p, k)
  BY <1>1 DEF PathsLead
<1>3. PICK k \in Nodes : Leads(p, k) /\ x = Item(p, k)
  BY <1>2
<1>4. nodes[k].used /\ k # Root
  BY <1>3 DEF Leads
<1>5. nodes[k].up = Root
  BY <1>4 DEF Init, Unused
<1>6. Len(p) = 1
  BY <1>3, <1>5 DEF Leads
<1>7. F!Front(x.path) = <<>>
  <2>1. x.path = p
    BY <1>3 DEF Item
  <2>3. Front(p) = <<>>
    <3>1. (Len(p) = 1 /\ Front(p) = <<>>) \/ Len(p) = 2
      BY PathIs
    <3> QED BY <1>6, <3>1
  <2>2. F!Front(p) = Front(p)
    BY DEF F!Front, Front
  <2> QED BY <2>1, <2>2, <2>3
<1> QED BY <1>7 DEF F!IsFolder

-----------------------------------------------------------------------------
(* The theorems.                                                           *)

\* vfs_mkdir, vfs_open, vfs_write_file, vfs_unlink, find_child: whatever calls
\* the programs make, every node in use hangs once in the one directory that it
\* names as its parent, no free node hangs anywhere, and no directory has two
\* children of one name.
THEOREM TreeIsSafe == Spec => []IsTree
<1>1. IInv => IsTree
  BY DEF IInv
<1> QED BY <1>1, IInvHolds, PTL

\* vfs_write, vfs_write_file, vfs_unlink: as long as nobody uses a descriptor of
\* a removed file or writes behind the end of a file that was cut, the pages that
\* the bitmap has in use are those of the files, no two files share one, and the
\* bytes of each fit in its own.
THEOREM PagesAreOwned == Spec => []PagesOwned
<1>1. IInv => PagesOwned
  BY DEF IInv
<1> QED BY <1>1, IInvHolds, PTL

\* vfs_mkdir, vfs_open, vfs_write, vfs_unlink: as long as no descriptor strays,
\* a call makes, removes, cuts or writes what one path leads to, and the bytes of
\* all other files stay, whatever nodes and pages are used again and wherever
\* bytes move.
THEOREM FilesAreKept == Spec => ImplementsFiles
<1>1. Init => IInv /\ Backed /\ F!Init
  BY InitIInv, InitBacked, FilesInit
<1>2. IInv /\ Backed /\ [Next]_vars => (IInv /\ Backed)'
  BY IInvStep, BackedStep
<1>3. IInv /\ Backed /\ (IInv /\ Backed)' /\ [Next]_vars => [booting \/ stray' \/ F!Next]_Tree
  BY FilesStep
<1> QED BY <1>1, <1>2, <1>3, PTL DEF Spec, ImplementsFiles
=============================================================================
