--------------------------------- MODULE Mm ---------------------------------
(***************************************************************************)
(* The page allocator of src/kernel/core/mm.c with the callers it has:     *)
(* each frees what it was given, once and whole.                           *)
(***************************************************************************)
EXTENDS Bitmap

CONSTANT MaxRun         \* bound of the model: the longest run asked for

ASSUME MaxRunAssumption == MaxRun \in Nat

VARIABLES
    bitmap,     \* page_bitmap
    bytes,      \* page -> the run whose caller wrote its bytes, or Fill
    held        \* history: the runs handed out and not freed, <<first page, length>>

vars == <<bitmap, bytes, held>>

Runs == HeapPages \X (1 .. MaxRun)
PagesOf(b) == Run(b[1], b[2])

Fill == <<0, 0>>        \* bytes of nobody: 0xA5, or never written

\* The bytes after the pages of a run were overwritten.
Written(run, what) == [p \in HeapPages |-> IF p \in run THEN what ELSE bytes[p]]

Init == bitmap = {} /\ bytes = [p \in HeapPages |-> Fill] /\ held = {}

\* mm_alloc_pages, then its caller writes to the pages.
Alloc(n) ==
    \E i \in FirstFit(bitmap, n) :
        /\ bitmap' = bitmap \cup Run(i, n)
        /\ held' = held \cup {<<i, n>>}
        /\ bytes' = Written(Run(i, n), <<i, n>>)

FreeFillsFirst(b) ==                \* mutant: fills PAGE_SIZE bytes, not n * PAGE_SIZE
    /\ bitmap' = bitmap \ PagesOf(b)
    /\ held' = held \ {b}
    /\ bytes' = Written({b[1]}, Fill)

\* mm_free_pages: the pages are filled with 0xA5, then their bits are cleared.
Free(b) ==
    /\ bitmap' = bitmap \ PagesOf(b)
    /\ held' = held \ {b}
    /\ bytes' = Written(PagesOf(b), Fill)

Next == (\E n \in 0 .. MaxRun : Alloc(n)) \/ (\E b \in held : Free(b))
Spec == Init /\ [][Next]_vars

-----------------------------------------------------------------------------
TypeOK ==
    /\ bitmap \subseteq HeapPages
    /\ bytes \in [HeapPages -> Runs \cup {Fill}]
    /\ held \subseteq Runs

\* No page is handed out twice or past the end of the heap, and none is lost: the
\* set bits are those of the runs in use, whatever is allocated and freed in
\* whatever order.
NoPageShared ==
    /\ bitmap \subseteq HeapPages
    /\ \A b, c \in held : PagesOf(b) \cap PagesOf(c) # {} => b = c
    /\ bitmap = UNION {PagesOf(b) : b \in held}

\* "Poison freed pages so use-after-free is visible": what a caller wrote stays on
\* every page of its run for as long as it holds it, whatever is handed out and
\* filled next to it, and is on no page that it gave back: who still reads there
\* finds 0xA5 or another's bytes, and never what it left.
BytesAreHeld ==
    \A b \in Runs : \A p \in HeapPages :
        bytes[p] = b <=> b \in held /\ p \in PagesOf(b)
=============================================================================
