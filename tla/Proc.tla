-------------------------------- MODULE Proc --------------------------------
(***************************************************************************)
(* The process table of src/kernel/proc/proc.c: spawn, wait, exit, kill    *)
(* and yield, and the swapping of program images that share a link         *)
(* address.  There is no paging: an ELF image is loaded at the fixed       *)
(* addresses it was linked for, and whoever lives there is copied to a     *)
(* heap "shadow" first and copied back before it runs again.               *)
(*                                                                         *)
(* The kernel is entered by a system call with interrupts off and leaves   *)
(* it again by returning to one process, so each action is one system call *)
(* of the running process, from the trap to the return to user mode.       *)
(***************************************************************************)
EXTENDS Integers, SequencesExt

CONSTANTS
    ProcMax,    \* PROC_MAX: slots of the process table
    BlockMax,   \* BLOCK_STACK_MAX: depth of nested waits
    MaxPid,     \* bound of the model: no process is created after this pid
    Pages,      \* pages of the address range programs are linked into
    Links       \* the sets of pages that programs occupy (their link addresses)

ASSUME SizesAssumption ==
    ProcMax \in Nat \ {0} /\ BlockMax \in Nat /\ MaxPid \in Nat \ {0}

ASSUME LinksAssumption == Links \subseteq (SUBSET Pages) \ {{}}

Slots == 0 .. (ProcMax - 1)
Pids == 0 .. MaxPid

VARIABLES
    procs,      \* procs[]: slot -> the fields of Proc that control depends on
    mem,        \* page -> the pid whose bytes it holds (0: nobody's)
    current,    \* current, as a slot
    stack,      \* block_stack[].prev up to block_sp, as slots
    nextPid,    \* next_pid
    esp0,       \* slot whose kernel stack the next trap uses (0: the boot stack)
    halted,     \* the kernel stack in use was freed or overwritten: cli; hlt
    failed      \* history: an allocation failed, or a spawn for another reason

vars == <<procs, mem, current, stack, nextPid, esp0, halted, failed>>

\* What is relevant of struct Proc.  shadow is the content of image_shadow:
\* "good" if it was copied while the image was intact, "junk" otherwise.
\* saved is the trap frame that saved_kframe points to: "kept", or "lost" when
\* the frame of another process was pushed over it.
ProcRecord ==
    [used : BOOLEAN, pid : Pids, ppid : Pids,
     state : {"free", "ready", "running", "zombie"},
     image : {{}} \cup Links, evicted : BOOLEAN,
     shadow : {"none", "good", "junk"},
     saved : {"none", "kept", "lost"}]

\* A slot with used = 0; nothing reads the other fields of such a slot.
Blank == [used |-> FALSE, pid |-> 0, ppid |-> 0, state |-> "free",
          image |-> {}, evicted |-> FALSE, shadow |-> "none", saved |-> "none"]

-----------------------------------------------------------------------------
(* Images and shadows *)

\* Live, resident processes whose image overlaps R.
SquattersRunningOnly(pt, R) ==      \* mutant: forgets the waiting processes
    {s \in Slots : /\ pt[s].used /\ pt[s].state = "running"
                   /\ ~pt[s].evicted
                   /\ pt[s].image \cap R # {}}

Squatters(pt, R) ==
    {s \in Slots : /\ pt[s].used /\ pt[s].state # "zombie"
                   /\ ~pt[s].evicted
                   /\ pt[s].image \cap R # {}}

Intact(pt, m, s) == \A g \in pt[s].image : m[g] = pt[s].pid

\* The processes of E are copied to shadows, whatever their pages hold now.
SwapOut(pt, m, E) ==
    [s \in Slots |->
        IF s \in E
        THEN [pt[s] EXCEPT !.evicted = TRUE,
                           !.shadow = IF Intact(pt, m, s) THEN "good" ELSE "junk"]
        ELSE pt[s]]

\* Slots are visited in order, so when the allocation for f fails the ones
\* before f are out and the others are not.
Before(E, f) == {s \in E : s < f}

Fill(m, R, who) == [g \in Pages |-> IF g \in R THEN who ELSE m[g]]

\* proc_ensure_resident(p): the outcomes, one in which the heap has the pages
\* and one for each shadow allocation that can fail.
EnsureResident(pt, m, p) ==
    IF ~pt[p].evicted \/ pt[p].shadow = "none"
    THEN {[procs |-> pt, mem |-> m, short |-> FALSE]}
    ELSE LET E == {s \in Squatters(pt, pt[p].image) \ {p} : pt[s].shadow = "none"}
             back == IF pt[p].shadow = "good" THEN pt[p].pid ELSE 0
         IN  {[procs |-> [SwapOut(pt, m, E) EXCEPT ![p].shadow = "none",
                                                   ![p].evicted = FALSE],
               mem |-> Fill(m, pt[p].image, back), short |-> FALSE]}
             \cup {[procs |-> SwapOut(pt, m, Before(E, f)), mem |-> m, short |-> TRUE] : f \in E}

-----------------------------------------------------------------------------
Init ==
    /\ procs = [s \in Slots |->
                  IF s = 0 THEN [Blank EXCEPT !.used = TRUE, !.pid = 1,
                                              !.state = "running"]
                           ELSE Blank]
    /\ mem = [g \in Pages |-> 0]
    /\ current = 0
    /\ stack = <<>>
    /\ nextPid = 2
    /\ esp0 = 0
    /\ halted = FALSE
    /\ failed = FALSE

\* The process that runs has its image where it was linked, and its next trap
\* lands on its own kernel stack.  Slot 0 is the kernel itself and needs neither.
Resident == current = 0 \/ ~procs[current].evicted
OwnStack == current = 0 \/ esp0 = current

\* Every call begins with a trap.  On the stack of another process its frame is
\* pushed over the one that process left there.  The clock traps as well.
StrayTrap ==
    /\ ~halted /\ Resident /\ ~OwnStack
    /\ procs[esp0].saved = "kept"
    /\ procs' = [procs EXCEPT ![esp0].saved = "lost"]
    /\ UNCHANGED <<mem, current, stack, nextPid, esp0, halted, failed>>

\* The call that the running process makes is dispatched.  What a program does
\* on another's image is undefined, and the model says no more.
CanRun == ~halted /\ Resident /\ (OwnStack \/ procs[esp0].saved # "kept")

-----------------------------------------------------------------------------
(* proc_spawn_elf *)

FreeSlots == {s \in Slots \ {0} : ~procs[s].used}
IsFirstFree(f) == f \in FreeSlots /\ \A s \in FreeSlots : f <= s

ChildSamePid(R) ==                  \* mutant: the pid counter is read after ++
    [Blank EXCEPT !.used = TRUE, !.pid = nextPid - 1, !.ppid = procs[current].pid,
                  !.state = "ready", !.image = R]

Child(R) == [Blank EXCEPT !.used = TRUE, !.pid = nextPid,
                          !.ppid = procs[current].pid, !.state = "ready",
                          !.image = R]

SpawnNoRestore(R) ==                \* mutant: the caller stays evicted
    /\ CanRun /\ nextPid <= MaxPid
    /\ \E f \in Slots :
         /\ IsFirstFree(f)
         /\ procs' = [SwapOut(procs, mem, Squatters(procs, R)) EXCEPT ![f] = Child(R)]
    /\ mem' = Fill(mem, R, nextPid)
    /\ nextPid' = nextPid + 1
    /\ UNCHANGED <<current, stack, esp0, halted, failed>>

\* The program is loaded; then the caller's image, if the load evicted it, is
\* brought back (which evicts the child).
Spawn(R) ==
    /\ CanRun /\ nextPid <= MaxPid
    /\ \E f \in Slots :
         /\ IsFirstFree(f)
         /\ LET pt == [SwapOut(procs, mem, Squatters(procs, R)) EXCEPT ![f] = Child(R)]
            IN  \E out \in EnsureResident(pt, Fill(mem, R, nextPid), current) :
                  /\ procs' = out.procs
                  /\ mem' = out.mem
                  /\ failed' = (failed \/ out.short)
    /\ nextPid' = nextPid + 1
    /\ UNCHANGED <<current, stack, esp0, halted>>

\* elf_load returns -2: a shadow allocation failed, the slots before it are out.
SpawnNoSwap(R) ==
    /\ CanRun
    /\ \E f \in Squatters(procs, R) :
         procs' = SwapOut(procs, mem, Before(Squatters(procs, R), f))
    /\ failed' = TRUE
    /\ UNCHANGED <<mem, current, stack, nextPid, esp0, halted>>

\* The range is evicted and overwritten, then a segment lies past the end of
\* the file or the process table is full.
SpawnRejected(R) ==
    /\ CanRun
    /\ procs' = SwapOut(procs, mem, Squatters(procs, R))
    /\ mem' = Fill(mem, R, 0)
    /\ failed' = TRUE
    /\ UNCHANGED <<current, stack, nextPid, esp0, halted>>

\* As above, but the slot was taken and a stack allocation fails: the slot
\* stays used, with pid 0 and state PROC_FREE.
SpawnLeaks(R) ==
    /\ CanRun
    /\ \E f \in Slots :
         /\ IsFirstFree(f)
         /\ procs' = [SwapOut(procs, mem, Squatters(procs, R)) EXCEPT
                        ![f] = [Blank EXCEPT !.used = TRUE]]
    /\ mem' = Fill(mem, R, 0)
    /\ failed' = TRUE
    /\ UNCHANGED <<current, stack, nextPid, esp0, halted>>

-----------------------------------------------------------------------------
(* proc_wait, proc_run_blocking, proc_return_to_kernel *)

\* Every caller of wait() names a process it spawned, or -1 for any of them.
Children == {s \in Slots : procs[s].used /\ procs[s].ppid = procs[current].pid}

\* Alive: proc_wait runs it.
RunnableAny(q) == q \in Children    \* mutant: runs zombies too
Runnable(q) == q \in Children /\ procs[q].state # "zombie"

HandoverEarly(q) ==                 \* mutant: the frame is taken before the swap-in
    [procs EXCEPT ![current].state = "ready", ![q].state = "running", ![q].saved = "none"]

Handover(q) == [procs EXCEPT ![current].state = "ready", ![q].state = "running"]

\* The kernel works on the stack of q.
OnStackOf(q) == current # 0 /\ esp0 = q

\* The caller blocks and its child runs, from its entry or its saved frame; one
\* whose frame was lost goes on with another's registers, and may make any call.
WaitRun(q) ==
    /\ CanRun /\ ~OnStackOf(q)
    /\ Runnable(q)
    /\ Len(stack) < BlockMax
    /\ \E out \in EnsureResident(Handover(q), mem, q) :
         /\ ~out.procs[q].evicted
         /\ procs' = [out.procs EXCEPT ![q].saved = "none"]
         /\ mem' = out.mem
    /\ current' = q
    /\ stack' = Append(stack, current)
    /\ esp0' = q
    /\ UNCHANGED <<nextPid, halted, failed>>

\* The swap-in failed: the caller goes on, but the TSS has q's stack.
WaitNoSwap(q) ==
    /\ CanRun
    /\ Runnable(q)
    /\ Len(stack) < BlockMax
    /\ \E out \in EnsureResident(Handover(q), mem, q) :
         /\ out.procs[q].evicted
         /\ procs' = [out.procs EXCEPT ![current].state = "running",
                                       ![q].state = "ready"]
         /\ mem' = out.mem
         /\ failed' = (failed \/ out.short)
    /\ esp0' = q
    /\ UNCHANGED <<current, stack, nextPid, halted>>

\* A child that was killed is reaped without running.
WaitReap(q) ==
    /\ CanRun /\ ~OnStackOf(q)
    /\ q \in Children /\ procs[q].state = "zombie"
    /\ procs' = [procs EXCEPT ![q] = Blank]
    /\ UNCHANGED <<mem, current, stack, nextPid, esp0, halted, failed>>

\* The caller still works on q's stack, since an earlier wait for q failed: it is
\* freed, or q's traps are pushed over the call that waits for it.
WaitOnItsStack(q) ==
    /\ CanRun /\ OnStackOf(q)
    /\ q \in Children
    /\ procs[q].state = "zombie" \/ (Len(stack) < BlockMax
           /\ \E out \in EnsureResident(Handover(q), mem, q) : ~out.procs[q].evicted)
    /\ halted' = TRUE
    /\ UNCHANGED <<procs, mem, current, stack, nextPid, esp0, failed>>

\* proc_return_to_kernel with the table pt, then the rest of the proc_wait
\* that had run the current process: it reaps a zombie and leaves a process
\* that yielded.  Whether the parent could be swapped in is not looked at.
ReturnToKernel(pt) ==
    LET parent == Last(stack)
    IN  /\ \E out \in EnsureResident([pt EXCEPT ![parent].state = "running"], mem, parent) :
             /\ procs' = IF pt[current].state = "zombie"
                         THEN [out.procs EXCEPT ![current] = Blank]
                         ELSE out.procs
             /\ mem' = out.mem
             /\ failed' = (failed \/ out.short)
        /\ current' = parent
        /\ stack' = Front(stack)
        /\ esp0' = parent
        /\ UNCHANGED <<nextPid, halted>>

\* proc_exit: refused for pid 1, which is the only one with an empty stack.
Exit ==
    /\ CanRun /\ procs[current].pid # 1 /\ stack # <<>>
    /\ ReturnToKernel([procs EXCEPT ![current].state = "zombie",
                                    ![current].saved = "none"])

YieldBlocked ==                     \* mutant: leaves PROC_BLOCKED behind
    /\ CanRun /\ current # 0 /\ stack # <<>>
    /\ ReturnToKernel([procs EXCEPT ![current].state = "blocked",
                                    ![current].saved = "kept"])

\* proc_yield_to_parent
Yield ==
    /\ CanRun /\ current # 0 /\ stack # <<>>
    /\ ReturnToKernel([procs EXCEPT ![current].state = "ready",
                                    ![current].saved = "kept"])

-----------------------------------------------------------------------------
(* proc_kill *)

ClosedAlone(C) == TRUE              \* mutant: no descent into the children

\* proc_kill_one recurses into the children of every process it finds alive.
Closed(C) ==
    \A s \in C : procs[s].state # "zombie" =>
        \A t \in Slots : procs[t].used /\ procs[t].ppid = procs[s].pid => t \in C

Reached(q) ==
    {t \in Slots : \A C \in SUBSET Slots : q \in C /\ Closed(C) => t \in C}

\* Everything below q is killed and reaped, q is left for its parent.  When
\* the caller is below q its kernel stack is freed, and filled with 0xA5,
\* while it is in use.
Kill(q) ==
    /\ CanRun /\ current # 0
    /\ q \in Slots \ {current}
    /\ procs[q].used /\ procs[q].pid > 1 /\ procs[q].state # "zombie"
    /\ IF current \in Reached(q)
       THEN halted' = TRUE /\ UNCHANGED procs
       ELSE /\ procs' = [s \in Slots |->
                           IF s = q THEN [procs[q] EXCEPT !.state = "zombie", !.saved = "none"]
                           ELSE IF s \in Reached(q) THEN Blank
                           ELSE procs[s]]
            /\ UNCHANGED halted
    /\ UNCHANGED <<mem, current, stack, nextPid, esp0, failed>>

-----------------------------------------------------------------------------
Next ==
    \/ \E R \in Links : Spawn(R) \/ SpawnNoSwap(R) \/ SpawnRejected(R) \/ SpawnLeaks(R)
    \/ \E q \in Slots : WaitRun(q) \/ WaitNoSwap(q) \/ WaitReap(q) \/ WaitOnItsStack(q) \/ Kill(q)
    \/ StrayTrap
    \/ Exit
    \/ Yield

Spec == Init /\ [][Next]_vars

-----------------------------------------------------------------------------
(* Properties *)

TypeOK ==
    /\ procs \in [Slots -> ProcRecord]
    /\ mem \in [Pages -> Pids]
    /\ current \in Slots
    /\ stack \in Seq(Slots)
    /\ nextPid \in 1 .. MaxPid + 1
    /\ esp0 \in Slots
    /\ halted \in BOOLEAN
    /\ failed \in BOOLEAN

\* proc_get(), proc_wait() and the descent of proc_kill_one() go by pid and
\* ppid: no two processes share a pid, parents are older than children, so that
\* the descent ends, and a slot that a failed spawn leaked is no one's child.
PidsUnique ==
    /\ procs[0].used /\ procs[0].pid = 1 /\ procs[0].ppid = 0 /\ procs[0].image = {}
    /\ \A s \in Slots : procs[s].used /\ procs[s].state # "free" =>
          /\ procs[s].ppid < procs[s].pid /\ procs[s].pid < nextPid
          /\ \A t \in Slots : procs[t].used /\ procs[t].pid = procs[s].pid => t = s
    /\ \A s \in Slots : procs[s].used /\ procs[s].state = "free" =>
          procs[s].pid = 0 /\ procs[s].ppid = 0
    /\ \A s \in Slots : ~procs[s].used => procs[s].state = "free"

\* The i-th process of the chain of waits, the running one being the last.
Frame(i) == IF i <= Len(stack) THEN stack[i] ELSE current
Frames == 1 .. Len(stack) + 1

\* Control comes back the way it went: the processes blocked in wait() and the
\* running one are a line of descent from slot 0, each younger than the one
\* that waits for it, all alive, with no trap frame left over, and nothing else
\* is running.  Without it proc_return_to_kernel would resume a freed or a
\* foreign kernel stack.
WaitChain ==
    /\ Frame(1) = 0
    /\ \A i \in 1 .. Len(stack) :
          /\ procs[Frame(i)].state = "ready"
          /\ procs[Frame(i + 1)].ppid = procs[Frame(i)].pid
    /\ \A i \in Frames : procs[Frame(i)].used /\ procs[Frame(i)].saved = "none"
    /\ \A i, j \in Frames : i < j => procs[Frame(i)].pid < procs[Frame(j)].pid
    /\ \A s \in Slots : procs[s].state = "running" <=> s = current

\* No live program loses its memory to another one that was linked at the same
\* address, through any nesting of spawn, wait, yield, exit and kill and with
\* any allocation failing: it is in place, or its shadow holds it.
NoLostImage ==
    \A s \in Slots : procs[s].used /\ procs[s].state # "zombie" =>
        IF procs[s].evicted THEN procs[s].shadow = "good"
                            ELSE procs[s].shadow = "none" /\ Intact(procs, mem, s)

\* As long as the heap has had the pages that were asked for and no spawn was
\* refused, whoever is returned to is in place, through any nesting of spawn,
\* wait, yield, exit and kill: whatever was evicted on the way had a shadow to
\* come back from, and the TSS has its own kernel stack.
ReturnIsSafe == ~failed => Resident /\ OwnStack

\* proc_exit and proc_kill are final: a zombie never runs or yields again, the
\* only thing that can happen to it is to be reaped.
ZombiesStayDead ==
    [][\A s \in Slots : procs[s].state = "zombie" => procs'[s] \in {procs[s], Blank}]_vars

\* A trap frame is kept until its process is resumed from it or killed, through
\* every call of the others, failing or not, but for one: when a wait for the
\* process could not swap it in, the next trap of the caller is pushed over it.
FramesKept ==
    [][\A s \in Slots : procs[s].saved = "kept" =>
          \/ procs'[s].saved = "kept" \/ current' = s
          \/ procs'[s].state = "zombie" \/ ~procs'[s].used
          \/ OnStackOf(s) /\ current # s]_vars

(* What comments of proc.c say and the code does not do *)

\* "Refuse to kill yourself via this path (use exit)": the caller of kill()
\* survives it.
KillSparesCaller == [][\A q \in Slots : Kill(q) => ~halted']_vars

\* "Swap-in failed - do not run with another proc's image": nobody does.
RunsItsOwnImage == ~halted => Resident
=============================================================================
