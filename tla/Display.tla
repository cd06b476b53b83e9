------------------------------ MODULE Display ------------------------------
(***************************************************************************)
(* The display server: the windows that the kernel keeps for it            *)
(* (src/kernel/gui/display.c), the window manager's main loop              *)
(* (src/user/gui/wm.c) and the clients it launches.                        *)
(*                                                                         *)
(* Scheduling is cooperative: wm runs until it waits for a client, and the *)
(* client until it presents, yields or exits.  Each action is what one of  *)
(* them does between two such points, or one system call.                  *)
(*                                                                         *)
(* wm also runs a client where nobody would look for it: when it closes a  *)
(* client's window it waits for any child that is left (Sweep below).      *)
(***************************************************************************)
EXTENDS GuiRing, Bitmap, FiniteSets, TLC

CONSTANTS
    Clients,    \* the programs that wm launches, each once
    Hosted,     \* those that run in a terminal: wm is not their parent
    Deaf,       \* those that ask for GUI_FLAG_RESIZABLE and ignore INP_RESIZE
    WinMax,     \* GUI_WIN_MAX: windows in the kernel
    WmMax,      \* MAX_WIN: windows, and launched programs, in wm
    MaxId       \* bound of the model: no window gets an id after this one

WM == "wm"

ASSUME DisplayAssumption ==
    /\ WM \notin Clients
    /\ Hosted \subseteq Clients /\ Deaf \subseteq Clients
    /\ WinMax \in Nat /\ WmMax \in Nat /\ MaxId \in Nat
    /\ Sizes \subseteq Nat \ {0}

VARIABLES
    wins,       \* gwins[]
    bitmap,     \* page_bitmap: the heap holds the pixels
    nextId,     \* next_id
    state,      \* client -> "new", "live" or "dead"
    view,       \* client -> its GuiScreen: window id, pixels and their size
    turn,       \* who runs
    phase,      \* where wm is in its loop
    todo,       \* clients that launches_pump has still to run
    known,      \* wins[] of wm
    slots,      \* launches[] of wm: the sessions it takes for alive
    unchecked,  \* the windows that the loop over dead clients has still to see
    sweeping,   \* term_session_stop waits for any other child
    swept,      \* history: clients that left while it did
    stray,      \* history: clients that wrote pixels outside their window
    squeezed    \* history: clients that lost a resize event to a full ring

history == <<stray, squeezed>>
vars == <<wins, bitmap, nextId, state, view, turn, phase, todo, known, slots, unchecked,
          sweeping, swept, history>>

\* What only wm changes, or a client that leaves.
wmVars == <<todo, known, slots, unchecked, sweeping, swept>>

Slots == 0 .. WinMax - 1
Ids == 1 .. MaxId

\* A window has an id, a pid and n pages of pixels from page at (w, h and the
\* page count are one), damage, mapped, its ring, and unseen, a history: the
\* pixels are not the ones on the screen.  A program remembers its handle.
NoWindow == [used |-> FALSE]
NoHandle == [id |-> 0]
HandleOf(win) == [id |-> win.id, pid |-> win.pid, at |-> win.at, n |-> win.n]

Used == {i \in Slots : wins[i].used}
FreeSlots == Slots \ Used
ById(id) == {i \in Used : wins[i].id = id}      \* win_by_id
Mine(c) == ById(view[c].id)
PagesOf(win) == Run(win.at, win.n)

Init ==
    /\ wins = [i \in Slots |-> NoWindow]
    /\ bitmap = {}
    /\ nextId = 1
    /\ state = [c \in Clients |-> "new"]
    /\ view = [c \in Clients |-> NoHandle]
    /\ turn = WM /\ phase = "input" /\ todo = {}
    /\ known = {} /\ slots = {} /\ unchecked = {} /\ sweeping = FALSE
    /\ swept = {} /\ stray = {} /\ squeezed = {}

-----------------------------------------------------------------------------
(* The clients *)

NewId(i) == nextId                  \* of a window in slot i

\* gui_init_titled: display_create and display_fb.
Create(c, n) ==
    /\ turn = c /\ view[c] = NoHandle /\ nextId <= MaxId
    /\ \E i \in FreeSlots, at \in FirstFit(bitmap, n) :
         /\ \A j \in FreeSlots : i <= j
         /\ wins' = [wins EXCEPT ![i] =
                [used |-> TRUE, id |-> NewId(i), pid |-> c, at |-> at, n |-> n,
                 damage |-> TRUE, mapped |-> FALSE, unseen |-> TRUE, ring |-> EmptyRing]]
         /\ bitmap' = bitmap \cup Run(at, n)
         /\ view' = [view EXCEPT ![c] = HandleOf(wins'[i])]
    /\ nextId' = nextId + 1
    /\ UNCHANGED <<state, turn, phase, wmVars, history>>

EndSession(c) == slots \ {c}

\* The client leaves and wm reaps it.  launches_pump gives up its session;
\* when it is term_session_stop that waited, nobody does.
Leave(c) ==
    /\ state' = [state EXCEPT ![c] = "dead"]
    /\ view' = [view EXCEPT ![c] = NoHandle]
    /\ turn' = WM
    /\ slots' = IF sweeping THEN slots ELSE EndSession(c)
    /\ swept' = IF sweeping THEN swept \cup {c} ELSE swept
    /\ UNCHANGED <<nextId, phase, todo, known, unchecked, sweeping, history>>

\* The client has yielded: sys_wait gives -2, which ends a sweep.
Yielded == turn' = WM /\ sweeping' = FALSE
           /\ UNCHANGED <<phase, todo, known, slots, unchecked, swept>>

\* No slot or no pages; the framebuffer is locked too, so the client exits.
CreateFails(c, n) ==
    /\ turn = c /\ view[c] = NoHandle
    /\ FreeSlots = {} \/ FirstFit(bitmap, n) = {}
    /\ Leave(c)
    /\ UNCHANGED <<wins, bitmap>>

Destroyed(I) == [i \in Slots |-> IF i \in I THEN NoWindow ELSE wins[i]]
FreedOnly(I) == bitmap              \* mutant: the pixels are not given back
Freed(I) == bitmap \ UNION {PagesOf(wins[i]) : i \in I}

\* gui_shutdown, exit
Quit(c) ==
    /\ turn = c /\ view[c] # NoHandle
    /\ wins' = Destroyed(Mine(c))
    /\ bitmap' = Freed(Mine(c))
    /\ Leave(c)

\* The events of the window are polled until there is none; a resize among
\* them makes the client ask for its window's size and pixels again.
Drained(g) == [g EXCEPT !.r = g.w, !.ev = EmptyRing.ev]
HasResize(g) == \E k \in 1 .. Queued(g) : Queue(g)[k].type = "resize"
ViewKept(c, win) == view[c]         \* mutant: the client asks for the size only
ViewAfter(c, win) ==
    IF HasResize(win.ring) /\ c \notin Deaf THEN HandleOf(win) ELSE view[c]

NoDamage(win) == win.damage         \* mutant: the server is not told
Damage(win) == TRUE                 \* display_damage

\* One turn of the client's loop that draws: poll, paint the whole window,
\* gui_present, which yields to wm.
Present(c) ==
    /\ turn = c
    /\ \E i \in Mine(c) :
         /\ view' = [view EXCEPT ![c] = ViewAfter(c, wins[i])]
         /\ wins' = [wins EXCEPT ![i].ring = Drained(@), ![i].unseen = TRUE,
                                 ![i].damage = Damage(wins[i])]
         /\ stray' = IF PagesOf(view'[c]) \subseteq PagesOf(wins[i]) THEN stray
                     ELSE stray \cup {c}
    /\ Yielded
    /\ UNCHANGED <<bitmap, nextId, state, squeezed>>

\* One turn that does not draw: poll and sys_yield.
Idle(c) ==
    /\ turn = c
    /\ \E i \in Mine(c) :
         /\ view' = [view EXCEPT ![c] = ViewAfter(c, wins[i])]
         /\ wins' = [wins EXCEPT ![i].ring = Drained(@)]
    /\ Yielded
    /\ UNCHANGED <<bitmap, nextId, state, history>>

-----------------------------------------------------------------------------
(* The window manager's loop *)

At(p) == turn = WM /\ ~sweeping /\ phase = p
Goto(p) == phase' = p /\ UNCHANGED <<turn, sweeping>>

\* launch_app_argv, for a request of a panel or of SYS_GUI_TAKE_LAUNCH; or a
\* terminal runs the client.
Launch(c) ==
    /\ At("input") /\ state[c] = "new"
    /\ c \in Hosted \/ Cardinality(slots) < WmMax
    /\ state' = [state EXCEPT ![c] = "live"]
    /\ slots' = IF c \in Hosted THEN slots ELSE slots \cup {c}
    /\ UNCHANGED <<wins, bitmap, nextId, view, turn, phase, todo, known, unchecked, sweeping,
                   swept, history>>

\* on_key and forward_client_pointer, for the window with the focus.
PostEvent(h, e) ==
    /\ At("input") /\ h \in known
    /\ \E i \in ById(h.id) : wins' = [wins EXCEPT ![i].ring = Post(@, e)]
    /\ UNCHANGED <<bitmap, nextId, state, view, turn, phase, wmVars, history>>

StaleFb(h, win) == (known \ {h}) \cup {[h EXCEPT !.n = win.n]}     \* mutant: old pixels
Refetched(h, win) == (known \ {h}) \cup {HandleOf(win)}

\* apply_resize_drag, apply_maximize: display_resize moves the pixels and posts
\* INP_RESIZE without looking at the result, then wm asks for the new pixels.
Resize(h, n) ==
    /\ At("input") /\ h \in known
    /\ \E i \in ById(h.id), at \in FirstFit(bitmap, n) :
         LET e == [type |-> "resize", v |-> n]
         IN  /\ wins[i].n # n
             /\ wins' = [wins EXCEPT ![i].at = at, ![i].n = n, ![i].damage = TRUE,
                                     ![i].unseen = TRUE, ![i].ring = Post(@, e)]
             /\ bitmap' = (bitmap \cup Run(at, n)) \ PagesOf(wins[i])
             /\ known' = Refetched(h, wins'[i])
             /\ squeezed' = IF OutOfRoom(wins[i].ring, e)
                            THEN squeezed \cup {wins[i].pid} ELSE squeezed
    /\ UNCHANGED <<nextId, state, view, turn, phase, todo, slots, unchecked, sweeping, swept,
                   stray>>

\* win_close: display_destroy and proc_kill, which destroys the other windows of
\* the client, then launch_stop_pid.
Close(h) ==
    LET c == h.pid
        I == {i \in Used : wins[i].pid = c}
    IN  /\ wins' = Destroyed(I)
        /\ bitmap' = Freed(I)
        /\ known' = known \ {h}
        /\ state' = [state EXCEPT ![c] = "dead"]
        /\ view' = [view EXCEPT ![c] = NoHandle]
        /\ slots' = EndSession(c)
        /\ sweeping' = (c \in slots)
        /\ UNCHANGED <<nextId, turn, phase, todo, swept, history>>

CloseWindow(h) ==
    /\ At("input") /\ h \in known
    /\ Close(h)
    /\ UNCHANGED unchecked

\* The end of term_session_stop: sys_wait(-1) until there is no child, or the
\* one that it ran has yielded.  It takes the first child in procs[].
Sweep ==
    /\ turn = WM /\ sweeping
    /\ LET children == {c \in Clients \ Hosted : state[c] = "live"}
       IN  \/ children # {} /\ turn' \in children /\ UNCHANGED sweeping
           \/ children = {} /\ UNCHANGED turn /\ sweeping' = FALSE
    /\ UNCHANGED <<wins, bitmap, nextId, state, view, phase, todo, known, slots, unchecked,
                   swept, history>>

\* launches_pump: each client gets one slice, in an order that depends on the
\* launches[] slots and on the terminals that host some of them.
StartPump ==
    /\ At("input")
    /\ todo' = {c \in Clients : state[c] = "live"}
    /\ Goto("pump")
    /\ UNCHANGED <<wins, bitmap, nextId, state, view, known, slots, unchecked, swept, history>>

Pump(c) ==
    /\ At("pump") /\ c \in todo
    /\ turn' = c /\ todo' = todo \ {c}
    /\ UNCHANGED <<wins, bitmap, nextId, state, view, phase, known, slots, unchecked, sweeping,
                   swept, history>>

EndPump ==
    /\ At("pump") /\ todo = {}
    /\ Goto("adopt")
    /\ UNCHANGED <<wins, bitmap, nextId, state, view, todo, known, slots, unchecked, swept,
                   history>>

\* while ((gid = sys_gui_next()) >= 0) win_open_ext(gid);  display_next_new
\* gives the first window that is not mapped.
NextNew == {i \in Used : /\ ~wins[i].mapped
                         /\ \A j \in Used : ~wins[j].mapped => i <= j}

Adopt ==
    /\ At("adopt") /\ Cardinality(known) < WmMax
    /\ \E i \in NextNew :
         /\ wins' = [wins EXCEPT ![i].mapped = TRUE]
         /\ known' = known \cup {HandleOf(wins[i])}
    /\ UNCHANGED <<bitmap, nextId, state, view, turn, phase, todo, slots, unchecked, sweeping,
                   swept, history>>

\* win_open_ext finds no free entry and returns before it maps the window, so
\* display_next_new gives the same one again.
AdoptSpins ==
    /\ At("adopt") /\ NextNew # {} /\ Cardinality(known) = WmMax
    /\ UNCHANGED vars

EndAdopt ==
    /\ At("adopt") /\ NextNew = {}
    /\ unchecked' = known
    /\ Goto("reap")
    /\ UNCHANGED <<wins, bitmap, nextId, state, view, todo, known, slots, swept, history>>

\* The windows that are gone are closed, and their clients killed.
Check(h) ==
    /\ At("reap") /\ h \in unchecked
    /\ unchecked' = unchecked \ {h}
    /\ \/ ById(h.id) = {} /\ Close(h)
       \/ /\ ById(h.id) # {}
          /\ UNCHANGED <<wins, bitmap, nextId, state, view, turn, phase, todo, known, slots,
                         sweeping, swept, history>>

EndReap ==
    /\ At("reap") /\ unchecked = {}
    /\ Goto("paint")
    /\ UNCHANGED <<wins, bitmap, nextId, state, view, todo, known, slots, unchecked, swept,
                   history>>

\* blit_ext and sys_gui_ack of every window with damage; no client runs between
\* the two.
Paint ==
    /\ At("paint")
    /\ wins' = [i \in Slots |->
                  IF wins[i].used /\ wins[i].damage /\ \E h \in known : h.id = wins[i].id
                  THEN [wins[i] EXCEPT !.unseen = FALSE, !.damage = FALSE]
                  ELSE wins[i]]
    /\ Goto("input")
    /\ UNCHANGED <<bitmap, nextId, state, view, todo, known, slots, unchecked, swept, history>>

-----------------------------------------------------------------------------
ClientStep ==
    \E c \in Clients :
        \/ \E n \in Sizes : Create(c, n) \/ CreateFails(c, n)
        \/ Quit(c) \/ Present(c) \/ Idle(c)

Input ==
    \/ \E c \in Clients : Launch(c)
    \/ \E h \in known : \/ \E e \in Event : e.type # "resize" /\ PostEvent(h, e)
                        \/ \E n \in Sizes : Resize(h, n)
                        \/ CloseWindow(h)

Frame == \/ Sweep
         \/ StartPump \/ (\E c \in todo : Pump(c)) \/ EndPump
         \/ Adopt \/ AdoptSpins \/ EndAdopt
         \/ (\E h \in unchecked : Check(h)) \/ EndReap
         \/ Paint

Next == ClientStep \/ Input \/ Frame

\* wm goes through its loop, with at most 32 inputs a turn; a client presents,
\* yields or exits.
Fairness == WF_vars(Frame) /\ WF_vars(ClientStep)

Spec == Init /\ [][Next]_vars /\ Fairness

-----------------------------------------------------------------------------
(* Properties *)

\* Every page of pixels belongs to one window, and the heap gets back the
\* pages of every window that is resized, destroyed, or killed with its client.
PixelsOwned ==
    /\ \A i, j \in Used : PagesOf(wins[i]) \cap PagesOf(wins[j]) # {} => i = j
    /\ bitmap = UNION {PagesOf(wins[i]) : i \in Used}

\* When wm paints, the pixels it remembers for each window are the ones the
\* window has, through every resize, exit and kill since it asked for them:
\* unless the client has left in a sweep.
WmPaintsLivePixels ==
    At("paint") => \A h \in known : h.pid \in swept \/ \E i \in ById(h.id) : HandleOf(wins[i]) = h

\* A client that follows INP_RESIZE and whose ring never overflowed writes only
\* to the pixels of its own window, though wm moves them while it is suspended.
DrawsInWindow == stray \subseteq Deaf \cup squeezed

\* The loop of wm that adopts new windows has no room for the one it is given.
Hung == At("adopt") /\ NextNew # {} /\ Cardinality(known) = WmMax

\* What a client has drawn comes to be seen, unless its window goes first.
DrawnIsSeen ==
    \A id \in Ids : (\E i \in ById(id) : wins[i].unseen) ~>
                    (Hung \/ \A i \in ById(id) : ~wins[i].unseen)

=============================================================================
