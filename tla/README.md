# A verification of zerOS

zerOS is a small 32-bit operating system for the PC: a cooperative kernel in C
(`src/kernel`), programs that run in ring 3 without virtual memory (`src/user`),
a window manager among them, and a Python interpreter (`src/py`). This directory
holds TLA+ models of its parts, the TLC configurations that check them, and
proofs for TLAPS of what matters most in them.

## The system

Nothing is preempted: a program runs until it waits for a child, yields, blocks
on its console, or exits. What makes the system hard is not parallel execution
but the order in which programs hand the processor to each other, in the middle
of system calls, with state on both sides of the call: *waits nest*, one
program's memory is swapped out under another's, and server and clients of the
display keep each other's addresses and ids across slices.

| Component | State | Operations | Talks to | What is hard, what must hold |
|---|---|---|---|---|
| Processes (`kernel/proc/proc.c`) | `procs[]`, `current`, `next_pid`, `block_stack`, the TSS stack, the images in memory | spawn, wait (runs the child), yield to the parent, exit, kill with descendants | loader, allocator, display (kill destroys windows), every system call | programs linked at one address share memory and are swapped through shadows that may not be allocatable; returns must find the right parent, image and kernel stack |
| Loader (`elf.c`) | none | load an image, which covers others | processes, VFS, allocator | bytes of live programs must be saved first |
| Page allocator (`core/mm.c`) | `page_bitmap` | allocate a run, free a run | processes, display, VFS, network | no page twice, none lost, no fill on another's bytes |
| Display server (`gui/display.c`) | `gwins[]` with pixels and an event ring each, `next_id`, `server_pid`, `launch_q` | create, resize, damage, map, acknowledge, post, poll, destroy | wm (server) and clients, allocator | a full ring; pixels that move under a suspended client; ids that outlive windows |
| Window manager (`user/gui/wm.c`) | `wins[]`, `launches[]`, focus and z-order | one loop: launch, input, pump, adopt, reap, paint | display, clients, terminal sessions | every step keeps addresses from an earlier one; all of it stops if one loop does |
| Terminal sessions (`user/gui/termrun.c`) | pid and liveness of a child | start, pump, stop | processes, wm, gterm | stop waits for *any* child |
| GUI library and clients (`libgui.c`, `user/gui`) | `GuiScreen` | create, poll, follow a resize, present, shut down | display | the address of the pixels is cached |
| System calls (`syscall.c`) | pipes, working directory, redirection | dispatch; pipe read, write, close | everything | descriptors are plain numbers without owner or count, and those of files and sockets overlap |
| VFS (`fs/vfs.c`, `fs/initrd.c`) | `nodes[]`, `fds[]`, the pages of files | open, close, read, write, unlink, mkdir; the archive at boot | allocator, FAT, system calls | descriptors and nodes have no owner and no count: unlink and truncate under open descriptors; a file that moves as it grows |
| FAT (`fs/fat.c`) | the table, directories and data on disk, `fdt[]`, `next_free_clus` | the same calls below `/disk` | VFS, ATA | one call is many sector writes, and the power may fail between two; descriptors cache the start and the size |
| Network (`net/net.c`) | `socks[]`, one ARP entry, the configuration | listen, accept, connect, send, receive, close, look up, poll | system calls, virtio | TCP without sequence check: full buffers, lost, repeated and late segments; what is acknowledged must be kept |
| Services (`zerosd.c`) | units and their state | parse, start in order | processes | units that name each other; the console unit keeps the processor |
| Keyboard, mouse | rings filled by interrupts | interrupt, read | system calls | handlers against readers |
| Terminal (`user/gui/gterm.c`, `termrun.c`) | lines, the live line, the caret | key, pump, drain, rebuild, draw | the shell and its programs through console rings | shell and terminal share nothing but bytes: each keeps its own idea of the line |
| Shell (`user/shell/msh.c`) | line, cursor, history, yank, working directory | one key, expand, complete, search, run | console or text screen, processes | the line on the screen is erased and rewritten by counting |
| Widgets (`user/guic`), Notepad (`user/gui/notepad.c`) | text, caret, view, buttons, scroll bar, dialogs | one turn of the loop | display | a turn must redraw whatever it changed; drawing, caret and clicks compute rows apart |
| Python (`src/py`) | names, objects, files, the waiting text of the prompt | lex, parse, evaluate, prompt | host I/O | one table of names for all calls; a session must mean what a file means |
| Other editors, utilities, network programs | their own | sequential | system calls | little that depends on order |

`PROJECT.json` lists every component with its sources and status, and every
hazard with its line.

## The modules

| Module | Models | Extends, uses |
|---|---|---|
| `Proc` | `proc.c`, the effects of `elf.c`, the trap frames of `entry.asm` | |
| `MCProc` | the instance of `Proc` for TLC: the programs and their link addresses | `Proc` |
| `ProcProofs` | the invariants and the action properties of `Proc`, as theorems | `Proc`, `TLAPS` |
| `Bitmap` | the bitmap and first fit of `mm.c`, as operators | |
| `Mm` | the allocator with callers that free what they were given | `Bitmap` |
| `MmProofs` | theorems about `Mm` | `Mm`, `TLAPS` |
| `GuiRing` | one window's event ring in `display.c`, as operators | |
| `GuiQueue` | the abstract specification: a bounded queue with merging | |
| `GuiEvents` | one poster and one client on one ring; implements `GuiQueue` | `GuiRing`, `GuiQueue` by `INSTANCE` |
| `RingProofs` | what the ring's operators do to its indices and its events, and the theorem that `GuiEvents` implements `GuiQueue` | `GuiEvents`, `TLAPS` |
| `Files` | the abstract specification of a file system: one call changes one path | |
| `Vfs` | `vfs.c`, what `initrd.c` unpacks; implements `Files` | `Bitmap`, `Files` by `INSTANCE` |
| `MCVfs` | the instance of `Vfs`: paths and open flags | `Vfs` |
| `VfsProofs` | the tree and the pages of `Vfs`, and that it implements `Files`, as theorems | `Vfs`, `TLAPS` |
| `Fat` | `fat.c` on a volume as `mkfat.py` makes it; implements `Files` | `Files` by `INSTANCE` |
| `MCFat` | the instance of `Fat` | `Fat` |
| `Display` | the windows of `display.c`, the loop of `wm.c`, sessions of `termrun.c` and clients over `libgui.c` | `GuiRing`, `Bitmap` |
| `DisplayProofs` | the safety invariants of `Display`, as theorems | `Display`, `RingProofs` |
| `Net` | `net.c`, and a network with a server, a client and a neighbour | |
| `MCNet` | the instance of `Net`: the configuration file | `Net` |
| `NetProofs` | what is acknowledged, the order of the stream and what connects a socket, as theorems | `Net`, `TLAPS` |
| `Readline` | the line editor, history and completion of `msh.c`, as operators | |
| `Term` | `gterm.c`, `termrun.c`, the console rings of `proc.c`, the text screen of `vga.c`, and the shell with its programs in them | `Readline` |
| `MCTerm` | the instance of `Term`: keys, words, directories | `Term` |
| `TermProofs` | what the terminal drew, the numbers of the history and what Ctrl+Y restores, as theorems | `Term`, `TLAPS` |
| `PyLang` | `lex.c` and `parse.c`, as operators | |
| `PyEval` | `eval.c`, `object.c`, `fs.c` and `runtime.c`, as operators | `PyLang` |
| `Py` | the prompt, `repl.c` | `PyEval` |
| `MCPy` | the instance of `Py`: the lines that are typed | `Py` |
| `Entry` | the text entry `wentry.c`, as operators | |
| `Notepad` | `notepad.c` with its scroll bar, buttons, list and dialogs | `Entry` |
| `MCNotepad` | the instance of `Notepad` | `Notepad` |
| `NotepadProofs` | the properties of `Notepad`, as theorems | `Notepad`, `TLAPS` |

Operators whose comment says *mutant* are plausible mistakes in the operator that
follows. They are used by no specification; put in that operator's place, each
makes a property fail, which shows that the property depends on the code.

### Proc

State: `procs` is the table with a record per slot (pid, parent, state, the trap
frame it is to be resumed from, the image's shadow, whether it is evicted);
`current`; `nextPid`; `stack` is `block_stack`; `esp0` the slot whose kernel
stack the TSS names; `mem` says which process's bytes lie at each place of the
program area; `failed` records that a shadow could not be allocated or a spawn
was refused, `halted` that the kernel stack in use was freed or overwritten.
Actions are system calls of the running process: `Spawn` and its failures
(`SpawnRejected`, `SpawnNoSwap`, `SpawnLeaks`), `WaitRun` (the child runs:
`proc_run_blocking`), `WaitReap`, `WaitNoSwap` (the image cannot be swapped in),
`Exit`, `Yield`, `Kill`. Each action contains the whole call: the return to a
parent restores its image, and the restoring may evict others, allocate shadows,
or fail to.

After `WaitNoSwap` the TSS has the kernel stack of the child, and the caller goes
on. Its next trap (`StrayTrap`) is pushed over the trap frame that the child left
there; then it makes its call, and any other. It is back on a stack of its own when
it has run another child, or was itself resumed. If it waits for that same child, the
child is reaped with the stack in use, or runs over it: `WaitOnItsStack`. Only a
process that is evicted while it runs is left at that: what a program does on
another's bytes is undefined. (`proc_run_blocking` and `proc_spawn_elf` leave such
a process; `RunsItsOwnImage` says that it is reached.)

Abstracted: what programs compute; registers; the page tables the system does
not have. A link range is a set of places; two programs are disjoint, overlap or
coincide. Assumed of the environment: a program waits only for its own children
or for any, as all programs in `src/user` do; it may kill any pid.

### Mm

`bitmap` is the set of the pages whose bit is set, `held` the runs that callers
have, `bytes` which caller's bytes a page has, if not the fill of `mm_free_pages`.
A caller writes to every page that it was given and frees its run once and whole,
as every caller in `src/kernel` does. Who goes on using pages that it gave back is
the matter of `Vfs` (`stray`), `Display` (`deaf` clients) and `Proc` (`halted`).

### GuiRing, GuiEvents, GuiQueue

`ring` has the array, `ev_r` and `ev_w` of one window. `Post` is
`display_post_event`: a resize is merged into a queued resize wherever it is; a
mouse event into the newest event if that is one, or on a full ring into the
oldest mouse event; anything else is queued or dropped. The abstract `GuiQueue`
says what a client may rely on, and `IsAQueue` is the refinement: the queue is
the ring read from `ev_r` to `ev_w`. In `GuiEvents` the server posts any event
(`ServerPosts`) and the client takes the next one (`ClientPolls`).

### Display

Each action is one system call or what a program does between two points where
it gives up the processor. wm goes through `phase`: *input* (requests to launch,
keys, pointer, resizes, closed windows), *pump* (each session's client gets one
slice), *adopt* (`sys_gui_next`), *reap* (dead clients), *paint*. A client, when
it has `turn`, creates its window, polls and draws and presents, polls and
yields, or leaves. `view` is the client's `GuiScreen`, `known` wm's `wins[]`:
both hold the address of pixels that the server may move. `sweeping` is the end
of `term_session_stop`, where wm waits for any child.

A window has as many pages as its size: the two are one number. Keys stand for
every event that is only queued, `INP_CLOSE` included. Programs in `Hosted` run
in a terminal: wm pumps them through it and is not their parent.

### Files, Vfs, Fat

`Files` has one variable, the set of the things that exist with their paths and
bytes. A step makes an empty thing in a folder that is there, removes one that
has nothing below it, empties a file, or puts some bytes over or behind those of
a file, and leaves every other path as it is. `Vfs` and `Fat` both map to it by
`Tree`, what a program would find that looked at every path; a call that fails,
or that is cut short by the power, is a step of `Files` or changes nothing. What
`Tree` hides is what the invariants are about: chains, pages, nodes.

`Vfs`: `nodes` is the table, with the names, parents and children that
`vfs_lookup` walks; `bitmap` and `mem` are the heap and its bytes, poison
included; `fds` the descriptors of all programs. While `booting`, `MkDir` and
`Unpack` fill the tree below `/sys` as `initrd_unpack` does. `Store` is the part
that `vfs_write` and `vfs_write_file` share: it writes in place or moves the
file to a longer run of pages. `gone` marks a descriptor whose file was removed;
nothing in the model reads it but `stray`, which records that such a descriptor
was used, or one that stands behind the end of a file that was cut. Then
everything may happen, as in the code, and runs end there (`NotStray`).

`Fat`: `fat` is the table, `cells` the clusters, a cell being a directory entry
or a byte. An action computes the sequence of sector writes that the call makes,
in the code's order (`Grow`, `Visit`, `Removal`, ...), and `Finish` either
applies all of them or, up to `MaxCuts` times, a prefix of them, after which the
machine has booted again: `next_free_clus` is 2 and no descriptor is open. Three
history variables record where the code promises nothing: `shared`, a file that
is cut or removed under another descriptor, has two writers, or is opened while its
writer's entry on the disk is behind; `torn`, a power cut inside a span
that later writes of the call, or of the close, must repair; `leaked`, the
clusters of a mkdir that failed at the last step. Runs end where the first two
become true (`Intact`).

Abstracted: a cluster is one sector (four in the code, written in order); the
second copy of the table is written and never read; disk errors; FAT32; names
and paths are given normalized, with one or two components (with a path,
`VfsAssumption` also has that of its directory, which programs can name as well);
listing, which changes nothing; writes of no bytes.

### Net

`socks` is the socket table, `arp` the one-entry cache, `rx` and `tx` the frames
that the card has received and that it was given. `Polled` is `net_poll`: every
frame goes through the handlers, whose effects (a buffer filled, an
acknowledgement sent) are operators on a record of the kernel's state. A call
that waits is `call`: it polls (`Spin`) until its condition holds or it gives up
(`CallReturns`), and connecting sends its SYN again (`ConnectSyn`). The other
side is modelled from how frames are used: a server that takes or refuses, a
client that calls, both with one segment under way, sent again when nothing is;
a neighbour that asks for the address and pings. Up to `MaxFaults` frames are
lost or repeated, or sent although the first is still under way.

`hist` records what the properties are about: `stored`, every byte that was put in
a buffer; `log`, what each socket was given of the connection it has; `answered`, the
connections a remote host has sent a segment on; `muted`, those of which a frame was
lost, repeated or sent needlessly, or taken by two sockets; `finned`, those on which
a FIN came with data: it is acknowledged with the place after the first byte,
whatever was kept, so its sender may skip a byte, or send one again.

Abstracted: checksums, lengths, and addresses; a byte is its place in the
stream; ports beyond the first few; the text of DHCP and DNS.

### Readline, Term

One actor has the processor (`turn`): the terminal, its child (`main`, the shell
or a program) or the shell's child (`sub`). `keys` and `out` are the console
rings; a full ring cuts what is written, and a program that writes a newline, or
nearly fills the ring, gives the processor to its parent. `TtyKey` and
`HostedKey` in `Readline` say what one key does to the line. What the shell then
writes is queued in `msh.todo` and leaves it a system call at a time, so the
terminal may read in between. `sess` and `gt` are what `flush_cons`,
`drain_child` and `rebuild_entry` make of the bytes; `scr` is the text screen,
when no terminal hosts the shell. `want` is a history: what a perfect terminal
would show. Where the code is known to lose track (a line too long for the
buffer that holds it, a caret byte parted from the byte 6 before it), `want.blur`
is set, and the properties about the screen say no more.

Abstracted: `history` and a directory's listing are each written in one piece, where
the code makes several small writes; programs write the texts of `Chunks`, read keys, yield and end as
they like; `Alt+F4` is `GtQuit`; the argument file is not written; titles,
layout and colours; keys arrive when somebody looks for them. Not modelled:
`spawn_pipeline`, which nothing in `msh.c` calls (README.md:65 says that `msh`
supports pipes); Python's own line editor.

### PyLang, PyEval, Py

A source is a sequence of lines of words. `PyLang` turns it into tokens and
nodes, with the errors of `lex.c` and `parse.c`. `PyEval` evaluates a node in a
context: the one table of names, the objects (shared by reference), the output,
the files of `mpfs`. Integers have the width of the model. `Py` has one action,
a line typed at the prompt: `mp_buffer_complete` decides whether the text waits.
For `CallsAgree`, the evaluator has a second way to call a function, with a
fresh table of names: the meaning a call should have.

Abstracted: characters within words, number and string formats, the heap and its
limit. These modules are recursive, as the interpreter is, and are only checked.

### Entry, Notepad

`np` is the program, `screen` what its window shows. A step is a turn of the
loop in `main`: an event is handled, every widget gets the pointer, and the
window is drawn if something set `dirty`. A turn takes one event; where the code
takes several, it acts on the pointer's last state only. `Entry` has the text,
the caret and the view of an entry, and apart from each other, as in the code,
the rows that are drawn, the caret that is drawn, and the place a press finds.
`Look` is what is drawn, with the pressed arrows and thumb of the bar, but for the
Open button, which the code leaves as it was when the pointer goes away
(`notepad.c:360`). A resize lays the text out with the width of the old height, until the
next layout (`Resized`).
The text in a dialog's path field is not modelled, nor is `do_save`, which no
path reaches: the handlers of the dialog's buttons are never called. `..`, which
`vfs_listdir` never lists, is left out.

## The runs

| Run | Shows | Bounds |
|---|---|---|
| `proc` | type, unique pids, the chain of waits, no image lost, whoever is returned to is in place, zombies stay dead, frames kept | four slots, five processes in the life of the system, three programs of which two overlap and two coincide, waits nested three deep: enough for a grandchild that evicts its grandparent, for a slot used twice and for a kill of an ancestor |
| `mm` | no page shared, lost or past the end of the heap; a caller's bytes are where it holds them and nowhere else | seven pages, runs up to four: every fragmentation in which a run fits, fits at the end only, or does not fit |
| `gui_events` | the ring implements `GuiQueue`: merging, order, what is dropped; a resize arrives | a ring of five slots, so four events: the smallest in which a pointer event, a key, another pointer event and one more are queued and a fifth finds it full; the code has 16 |
| `vfs` | the tree, pages owned, each call changes one path | one mount and a file below it, two names in the root, which has room for one of them, and a name below one of these; three nodes besides the root's, four pages of two bytes, files up to three bytes, writes up to two, two descriptors: pages, nodes and directories run out, files move, names are used again |
| `fat` | chains sound, none lost, a reader gets the bytes it opened while its file grows, each call changes one path, all of it after a power cut, too | three clusters of two cells, two slots in the root, two descriptors, one cut at any sector: a file of more than one cluster, a directory that grows, a full disk and a full directory. `Sparing` keeps apart what does not interact: two descriptors at once, both writing or a reader beside a writer of HELLO.TXT, only before a cut and where there is no directory; after a cut programs make, remove and open, but what they opened is not used further. A second cut starts from a state that the first one left or that a run without cuts reaches |
| `display` | pixels owned, wm paints live pixels, clients draw in their windows, what is drawn is seen | three clients (one launched, one launched that ignores resizes, one hosted), two window slots in server and wm, three pages, sizes one and two, a ring with room for one event: slots and pages run out, are used again, and the ring overflows |
| `net` | what is acknowledged is kept, data arrives in order, a connected socket was answered | two sockets (one is taken by `net_init`), a buffer of one byte and segments of up to two, so that segments are cut off; a stream of three bytes (with two, nothing can follow a FIN whose data was cut off), two frames under way each way, two SYNs, two faults, three ports |
| `python` | a session means what a file means; calls agree with calls that have their own names | five lines from one of four menus (blocks and loops, functions, lists, files on a disk that may be formatted), integers of four bits, tables of three names, three elements and two files, which run out |
| `terminal` | the terminal shows what was printed and its caret is the shell's; the same on the text screen; a frame that was drawn is current; history numbers; yank restores; the terminal comes back to its keys | four keys in the terminal and five on the text screen, a line of four bytes, a history of one command, rings and lines just long enough for a prompt, one fault (a write that is preempted, a program that cannot be started), one write without a newline, a terminal of two rows, a screen of nine by two |
| `notepad` | text, caret, bar and choice stay in bounds; the window is current; the caret is where typing goes; a press finds the byte that is drawn there; the star is honest; nothing happens behind a dialog | a buffer of two bytes, windows of one and two rows, two columns of which the scroll bar takes one, a file longer than the buffer, a clipboard of three newlines: everything scrolls, is cut, and the bar comes and goes; the user does not quit |

Liveness and fairness. `ResizeArrives` assumes weak fairness of polling: every
client polls until its ring is empty in each turn of its loop. `DrawnIsSeen`
assumes that wm goes through its loop (at most 32 inputs a turn, `wm.c:2080`),
and that a client that has its slice presents, yields or leaves, which a
cooperative system takes for granted. `KeysAreTaken` assumes that whoever has the
processor goes on, and that a program that runs for ever writes lines, reads or
yields. Nothing
is assumed of the user. Deadlock is not checked where everything may stop: a
session whose user types no more, a machine that has halted, a network at rest.

Runs that are expected to find a violation, each of something that a comment or a
header says:

| Run | What the code does |
|---|---|
| `proc_kill` | `kill` of an ancestor that waits for the caller takes the caller away while it runs, and the machine stops |
| `proc_image` | a process whose image cannot be brought back after a spawn, or after its child returned, goes on in the bytes of another ("do not run with another proc's image", `proc.c:508`) |

The runs of `Vfs` and `Fat` check with a `VIEW`: `Seen` leaves out what no step
can read before it is written, the contents of free clusters, of free nodes and of
bytes behind the ends of files, and what a descriptor of a removed file holds,
any use of which ends the run.

More disagreements are in the models without a run of their own. A wait that cannot
swap its child in leaves the TSS on the child's stack, and the caller's next trap is
pushed over the frame that the child yielded with (`StrayTrap`; "keep the full trap
frame", `proc.c:628`). A click on Open, Save or Cancel of a file dialog is recorded and
never handled, although `wfiledlg.c:151` registers a handler for it: Notepad cannot
save. A full ring puts the
newest pointer event before an older one (`display.c:378`), and drops a resize,
after which the client draws into pages that were given back. A descriptor of a
removed file reads the bytes of the file that got its pages (`vfs.c:372`). The
network's waits have limits in ticks of a clock that stands still in system calls
(`net.c:649`, `pcspeaker.c:35`); any segment with ACK, a reset too, connects a
socket, and a FIN is acknowledged with data that was cut off. An argument of a
Python call may read a parameter that was bound before it. A click on Notepad's
dialog moves the caret behind it. A new window
while `wins[]` is full makes wm's adopting loop run forever (`AdoptSpins`; "must
not starve input: breathe once per frame", `wm.c:2271`). Closing a window runs
some other client for a slice (`Sweep`; "Sweep any other zombie children of this
host", `termrun.c:258`), and a client that leaves in such a slice is painted from
pages that were given back (`swept`); `sys_wait` then gives an error for its pid, which
`term_session_pump` takes for a client that runs (`termrun.c:200`), so that its place in
`launches[]` is never free again.

The properties of passing runs are stated around these: `DrawsInWindow` speaks
of clients whose ring never overflowed, `WmPaintsLivePixels` of
clients that did not leave in a sweep, `Sound` and `ReadsTheFile` of files that are
not `shared`, `DrawnIsSeen` of a wm that does not hang,
`ReturnIsSafe` of a machine that has had the memory it asked for, `FramesKept` of
frames on whose stack no other process runs.

## The proofs

`ProcProofs` proves, for every number of slots, pids and nested waits, every set
of programs and every layout of their link ranges, that every reachable state
satisfies `TypeOK`, `PidsUnique`, `WaitChain`, `NoLostImage` and `ReturnIsSafe`.
The assumptions are those that `Proc` names on its constants. None of the
invariants is inductive alone: that a return finds its parent needs the chain of
waits, which needs unique pids and that parents are older than children; that no
image is lost needs to know who may lie over whom. `IInv` is their conjunction
with the type invariant. The proof has a lemma per action; the lemmas about
swapping (what `SwapOut`, `Fill` and `EnsureResident` keep) come first, and
those about the return to a parent are shared by exit and yield.

That whoever is returned to is in place (`ReturnIsSafe`, while the heap has what it
is asked for) is a consequence of `NoLostImage`: an evicted process that is to go on
has a shadow of its own bytes, and `EnsureResidentBrings` shows that it then comes
back, unless there was no room for the shadow of one that lies over it.

It also proves `ZombiesStayDead` and `FramesKept`. A zombie is
never evicted, so that swapping passes it by; and it is neither the running process
nor one of the chain of waits, the only ones a return touches. For the frames one
more invariant is needed, `FramesReady`: a slot that keeps a frame is in use and
waits for its turn, so that no spawn can take it and a stray trap meets no zombie.
`FramesKept` has one exception, `StrayTrap`.

`MmProofs` proves `TypeOK`, `NoPageShared` and `BytesAreHeld` for every size of the
heap, from their conjunction: the first two say that the pages of an allocation are
nobody's, and so that the bytes written over are none that a caller holds.

`RingProofs` proves `IsAQueue` for every size of the ring and every set of events:
`GuiEvents` implements `GuiQueue` by the mapping of a ring to the sequence of its
queued events. The only invariant needed is the type of the ring. The lemmas, which
`DisplayProofs` uses too (`GuiEvents` has names of its own for that), say where
the k-th event is when the indices wrap around, that two events never share a slot,
that the ring is full with one slot empty, and what queueing, merging and polling do
to the sequence; each step of the server and of the client is then one step of the
queue.

`DisplayProofs` proves `PixelsOwned`, `WmPaintsLivePixels` and `DrawsInWindow` for any number of clients and windows, any heap, any ring and any
bound on the clients that open, given that wm itself is no client. wm
and the clients share windows, sessions and pixels and are kept apart by nothing but
the order in which wm's loop gives them the processor, so the invariant is about that
order. `IInv` is the properties with `TypeOK` and five more: `Turns`, who may
run at which point of the loop; `Owners`, that a live window is that of a client
that is alive or waits to be reaped; `Handles` and `Looked`, what wm's copies of
window handles still stand for when it paints, from which `WmPaintsLivePixels` follows; and `Views`, that a client which has
an outdated view of its window has the resize that tells it so in its ring, last of
the resizes there. This one needs the ring's lemmas: whatever is posted behind that
event, drops, merges and polls leave it there (`ResizeStays`) until the client takes
it.

`VfsProofs` proves `IsTree` and `PagesOwned` for any paths, table, limits, heap and
page size. `IInv` adds to the two the type of the table, that the root is there and
that a descriptor which was not marked at an unlink is of a node in use
(`FdsLive`). Each needs the others: a call that adds a node finds its parent along a
path, and that this node is used, and not the one that is taken, follows from
the tree; that a write stores into a file that exists follows from `FdsLive`; that
first fit takes pages of nobody follows from the bitmap being those of all files.
The lemmas come in that order: what the helpers on sequences and sets return
(`RemoveAtIs`, `MinIs`, `PagesForIs`), where a path leads (`ChildIs`, `LookupIs`), how
the tree stays, grows and shrinks, how pages stay, are freed and move, and then a
lemma per call.

From `IInv` it proves `ImplementsFiles`, that `Vfs` implements `Files` as long as no
descriptor strays. The mapping is `Tree`, read off the table by looking every path
up; the proof reads it the other way, from the nodes: `Leads` says which path a node
has by its name, its parent and its parent's name, `LookupLeads` that a look-up finds
just that node, and `PathsLead` puts the two together for the state before a step and
after it. A step that leaves names and parents alone leads every path where it did
(`SameLeads`), and one that changes no byte on the pages of a file leaves its bytes
(`BytesStay`, by the arithmetic of `BytesAre` and `OwnBytes`). `StoreBytes` is the core:
a write that moves a file takes pages of nobody, copies all that the file had, and
poisons only pages that were its own, so that the other files stay by `PagesOwned`. One
more invariant is needed, `Backed`: a node without pages has no capacity. Each call
of a program is then one step of `Files` (`MakeStep`, `DeleteStep`, `TruncateStep`,
`OverwriteStep`) or none.

`NotepadProofs` proves all that the run `notepad` checks, for any window, files,
directories, clipboards, keys and size of the buffer: `TypeOK`, `ScreenIsCurrent`,
`StarIsHonest`, `CaretIsWhereTypingGoes`, `PressIsWhereItIsSeen` and
`NothingBehindDialog`. `IInv` is the first three with `~np.ed.changed`: a turn ends
with the flag of the entry read. The star needs that, since the flag of one turn
would otherwise set the star of another. That the window is current is an argument
over one turn: each widget either leaves alone what `Look` depends on or leaves
something behind that makes the loop set `dirty` (`Quiet`; for the bar, a changed
value, `changed`, or that it is or was held), and this is kept from one widget to
the next (`Sound`, `QuietKeeps`). The caret and the press follow from `TypeOK` and
facts about lines and rows: `wentry_draw` walks the rows and counts the breaks before
the caret, `wentry_input` counts rows from the view, and `line_start` looks for the
n-th break. That the three agree where no line is wider than the entry
(`RowsAreLines`, `CountInLine`) is an induction over rows and over breaks, which is
done by hand: the least row, or position, at which it failed would have one before it
at which it held (`LeastNat`).

`NetProofs` proves `AckHonest`, `InOrder` and `ConnectedIsAnswered` for any number of
sockets, any size of buffers, segments and streams, any bounds, configuration and number
of faults. `NetInv` is the type of the state with three parts. `Talk` says the same of the
sockets, of the frames on either side of the card and of the remote hosts: whoever
acknowledges a byte, or relies on an acknowledgement, speaks of bytes that are stored
(`Told`), on a port that was given out, and a connection that sends was answered.
`InTurn` says that the SYNs under way go up in their ports, without which a server
that takes a late SYN would go back to a connection that was over. `Tidy` says that
each connection whose frames were not disturbed is `Good`, which is why the stream is in
order although `handle_tcp` looks at no sequence number: of the connection's data at most
one segment is under way, and it begins behind the bytes that were taken (`OnTrack`); what
the peer does not know to have arrived is acknowledged by a frame that is still on its way
to it, and no other frame takes it further (`Fits`); a repeated SYN, which would start the
record of the stream again, comes only before any data (`Called`); and when a peer comes to
a port, nothing on the wire is left from it (`New`, which needs `InTurn`).

A poll folds a handler over frames, and a handler folds over sockets, so the proof starts
with what the library's folds compute (`FoldIs`, `TakesRun`, `PolledRuns`, by `Climb`).
What one segment may do to the kernel is `Turn`, which is kept from socket to socket and
from frame to frame, and every call is then a step that `Poll` allows. What leaves a
connection `Good` because it says, loses and queues nothing of weight is `Calm`; most
steps are calm for all connections, a segment and a remote host's step for all but their
own, for which there is a lemma each (`SynGood`, `FlagsCalm`, `DataGood`, `BeginGood`,
`LearnsGood`, `SendsGood`).

`TermProofs` proves `DrawnIsCurrent`, `HistoryNumbers` and `YankRestores`, in a window and
on a text console, for any size of lines, history, rings and reads, any keys, and
programs that write anything, given what `ReadlineAssumption` and `TermAssumption` say of
the constants: a line and a history have room for one element, names and messages are
bytes, the directories are closed under `cd`. `TermInv` has two parts that hold each for
itself. `GtOk` is the terminal's: what is not marked for drawing is drawn (`Clean`), and
between rounds the text is what `rebuild_entry` would make of the lines now (`Shows`).
That fails inside a round: `drain_child` moves the live line while the text stays, and
when nothing came it takes the mark back that it had set for a repaint. `Faithful`
therefore says what holds there: in a round that brought nothing so far, the text is what
it would be with the live line the round began with, so that taking the mark back is right
(`DrainIs`, `PumpedStep`). `Sane` is the shell's: the cursor is in the line and the place in
the history in the history (`Edits`), and the history is the end of the list of all
commands run, moved by `hist_base` (`Recalls`). `HistoryNumbers` follows from `Recalls` and
from reading a number back as it was printed (`PutIntIs`); `YankRestores` from `Edits`,
without which a cut would not be a piece of the line (`CutIs`, `PutBack`).

The line editor, the completion and the flush of the output walk over bytes. Each walk is
a recursive function or a fold; for each, one lemma says that its function exists
and unfolds by a step (`FlatRuns`, `KeptRuns`, `WorthRuns`, `DigitsRuns`, `FlushRuns`), and
the facts about it are then shown up to a bound by `Climb`. The rest is a lemma for each
helper and each key: what it returns has the type, and keeps the cursor in the line.

Only model-checked: the invariants of `Fat` and its `ImplementsFiles`, where the
chains of clusters are a recursive function of the table; `ScreenIsTrue` and `TtyIsTrue` of
`Term`, which relate what the shell means to a screen that interprets the bytes of many
writes, cut in pieces wherever a ring is full; everything about Python, whose operators are recursive; and liveness (`DrawnIsSeen`,
`ResizeArrives`, `KeysAreTaken`), which is beyond the prover.

## The plan

Modelled first is what everything else stands on. In order:

1. `Proc`, `Mm`, the event ring, `Display`, `Files` with `Vfs` and `Fat`: done.
2. `Net`, the terminal with the shell (`Readline`, `Term`), the interpreter
   (`PyLang`, `PyEval`, `Py`), Notepad with its widgets (`Entry`, `Notepad`): done.
3. Left: the rings between keyboard and mouse interrupts and their readers; the
   order in which `zerosd.c` starts units; the numbers of files and sockets in one
   `SYS_CLOSE`; the argument file between a launcher and its programs.
4. `Coop`, an abstract specification of processes as a stack of calls, that
   `Proc` implements.
5. Proofs: that the chains of `Fat` are sound, and that the screen of `Term` is true
   from one repaint to the next.

## Not modelled

Pipes and redirection: the only program that makes a pipe is `spawn_pipeline` in
`msh.c`, and nothing calls it. Drivers that only move pixels or write ports, the
other editors and applications, utilities and network programs: sequential code
over the calls that are modelled. FAT32, disk errors, the making of 8.3 names.
The death of wm. Host tools and tests run on the build machine.
