------------------------------- MODULE Bitmap -------------------------------
(***************************************************************************)
(* The page bitmap of src/kernel/core/mm.c, as the set of the pages whose  *)
(* bit is set, and the run of pages that mm_alloc_pages picks in it.       *)
(***************************************************************************)
EXTENDS Integers

CONSTANT PageCount      \* PAGE_COUNT: pages between KERNEL_HEAP_START and HEAP_END

ASSUME PageCountAssumption == PageCount \in Nat

HeapPages == 0 .. PageCount - 1

Run(i, n) == i .. i + n - 1

FreeRunShort(bits, i, n) ==         \* mutant: the last page is not looked at
    Run(i, n) \subseteq HeapPages /\ Run(i, n - 1) \cap bits = {}

FreeRunPastEnd(bits, i, n) == Run(i, n) \cap bits = {}     \* mutant: no end of the heap
FreeRun(bits, i, n) == Run(i, n) \subseteq HeapPages /\ Run(i, n) \cap bits = {}

\* The first run of n free pages, by its first page: none when n is 0 or when
\* no run is long enough.
FirstFit(bits, n) ==
    {i \in HeapPages : /\ n > 0 /\ FreeRun(bits, i, n)
                       /\ \A j \in HeapPages : FreeRun(bits, j, n) => i <= j}
=============================================================================
