------------------------------- MODULE Files -------------------------------
(***************************************************************************)
(* What a file system promises to the programs that use it: a tree of      *)
(* directories and files, of which one call changes one path.  Fat and Vfs *)
(* are shown to implement it.                                              *)
(***************************************************************************)
EXTENDS Integers, Sequences, SequencesExt

CONSTANTS
    Paths,      \* every path, a nonempty sequence of names
    MaxWrite    \* the longest write

VARIABLE files  \* the things that exist: [path, dir, bytes]

Things(p, tree) == {x \in tree : x.path = p}
IsFolder(p, tree) == p = <<>> \/ \E x \in Things(p, tree) : x.dir

\* Every path but p is what it was, and p is at most one thing.
OnlyAt(p, old, new) ==
    /\ old \ Things(p, old) = new \ Things(p, new)
    /\ \A x, y \in Things(p, new) : x = y

Make(p, old, new) ==
    /\ Things(p, old) = {}
    /\ IsFolder(Front(p), old)
    /\ \E x \in Things(p, new) : x.bytes = <<>>

Delete(p, old, new) ==
    /\ Things(p, old) # {} /\ Things(p, new) = {}
    /\ \A x \in old : ~IsStrictPrefix(p, x.path)

\* b is a with at most n bytes written over it from off on, or past its end.
Splice(a, b, off, n) ==
    /\ Len(b) \in Len(a) .. (IF off + n > Len(a) THEN off + n ELSE Len(a))
    /\ \A i \in 1 .. Len(a) : i \notin off + 1 .. off + n => b[i] = a[i]

Truncate(p, old, new) ==
    \E x \in Things(p, old) : ~x.dir /\ [x EXCEPT !.bytes = <<>>] \in new

Overwrite(p, old, new) ==
    \E x \in Things(p, old), y \in Things(p, new) :
        /\ ~x.dir /\ ~y.dir
        /\ \E off \in 0 .. Len(x.bytes) : Splice(x.bytes, y.bytes, off, MaxWrite)

Step(old, new) == \E p \in Paths :
    /\ OnlyAt(p, old, new)
    /\ \/ Make(p, old, new)
       \/ Delete(p, old, new)
       \/ Truncate(p, old, new)
       \/ Overwrite(p, old, new)

Init == \A x \in files : IsFolder(Front(x.path), files)

Next == \E old \in {files}, new \in {files'} : Step(old, new)

Spec == Init /\ [][Next]_files
=============================================================================
