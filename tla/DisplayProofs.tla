--------------------------- MODULE DisplayProofs ----------------------------
(***************************************************************************)
(* The display server keeps its promises to wm and to the clients, for     *)
(* every number of clients, windows and pages.                             *)
(*                                                                         *)
(* Nothing of this is inductive without knowing who may run: that a window *)
(* goes only with its client, while wm closes it or while the client       *)
(* itself runs, and where in its loop wm lets a client run.                *)
(***************************************************************************)
EXTENDS Display, RingProofs

Handle == [id : Nat \ {0}, pid : Clients, at : HeapPages, n : Sizes]
Window == [used : {TRUE}, id : Nat \ {0}, pid : Clients, at : HeapPages, n : Sizes,
           damage : BOOLEAN, mapped : BOOLEAN, unseen : BOOLEAN, ring : Ring]

TypeOK ==
    /\ wins \in [Slots -> Window \cup {NoWindow}]
    /\ bitmap \subseteq HeapPages
    /\ nextId \in Nat \ {0}
    /\ state \in [Clients -> {"new", "live", "dead"}]
    /\ view \in [Clients -> Handle \cup {NoHandle}]
    /\ turn \in Clients \cup {WM}
    /\ phase \in {"input", "pump", "adopt", "reap", "paint"}
    /\ todo \subseteq Clients /\ slots \subseteq Clients
    /\ known \subseteq Handle /\ unchecked \subseteq Handle
    /\ sweeping \in BOOLEAN
    /\ swept \subseteq Clients /\ stray \subseteq Clients /\ squeezed \subseteq Clients

\* Who may run where wm is in its loop.
Turns ==
    /\ turn # WM => state[turn] = "live" /\ turn \notin todo
    /\ \A c \in todo : state[c] = "live"
    /\ phase # "pump" => todo = {}
    /\ phase = "pump" => ~sweeping
    /\ phase \in {"input", "reap"} /\ turn # WM => sweeping
    /\ phase \in {"adopt", "paint"} => turn = WM /\ ~sweeping
    /\ phase # "reap" => unchecked = {}
    /\ unchecked \subseteq known

\* A window has its own number, and one client, alive, that knows it by it.
Owners ==
    /\ \A i \in Used : wins[i].id < nextId
    /\ \A i, j \in Used : wins[i].id = wins[j].id => i = j
    /\ \A i \in Used : view[wins[i].pid].id = wins[i].id
    /\ \A c \in Clients : view[c] # NoHandle =>
           state[c] = "live" /\ \E i \in Used : wins[i].id = view[c].id /\ wins[i].pid = c

\* wm knows a window as it is, once, or its client has left.
Handles ==
    /\ \A h \in known : h.id < nextId
    /\ \A h \in known, i \in Used : wins[i].id = h.id => HandleOf(wins[i]) = h
    /\ \A h, k \in known : h.pid = k.pid => h = k
    /\ \A h \in known : state[h.pid] = "dead" \/ \E i \in Used : HandleOf(wins[i]) = h

\* Of the windows that wm has looked at, only those whose client left in a
\* sweep have gone again.
Looked ==
    phase \in {"reap", "paint"} =>
        \A h \in known : state[h.pid] = "dead" => h \in unchecked \/ h.pid \in swept

\* A client that has not seen its window change is about to be told.
Views ==
    \A i \in Used : LET c == wins[i].pid
                    IN  \/ c \in Deaf \cup squeezed
                        \/ view[c] = HandleOf(wins[i])
                        \/ HasResize(wins[i].ring)

IInv ==
    /\ TypeOK /\ Turns /\ Owners /\ PixelsOwned
    /\ Handles /\ Looked
    /\ Views /\ DrawsInWindow

-----------------------------------------------------------------------------
(* Windows and handles.                                                    *)

LEMMA WindowIs ==
    ASSUME TypeOK, NEW i \in Used
    PROVE  i \in Slots /\ wins[i] \in Window
<1>1. i \in Slots /\ wins[i] \in Window \cup {NoWindow} /\ wins[i].used
  BY DEF Used, TypeOK
<1> QED BY <1>1 DEF NoWindow

LEMMA ViewIs ==
    ASSUME TypeOK, NEW c \in Clients
    PROVE  \/ view[c] = NoHandle /\ view[c].id = 0
           \/ view[c] # NoHandle /\ view[c] \in Handle /\ view[c].id # 0
<1>1. view[c] \in Handle \cup {NoHandle}
  BY DEF TypeOK
<1>2. NoHandle.id = 0
  BY DEF NoHandle
<1>3. CASE view[c] \in Handle
  <2>1. view[c].id # 0
    BY <1>3 DEF Handle
  <2> QED BY <1>2, <1>3, <2>1
<1> QED BY <1>1, <1>2, <1>3

LEMMA HandleOfIs ==
    ASSUME NEW win \in Window
    PROVE  /\ HandleOf(win) \in Handle
           /\ HandleOf(win).id = win.id /\ HandleOf(win).pid = win.pid
           /\ HandleOf(win).at = win.at /\ HandleOf(win).n = win.n
           /\ PagesOf(HandleOf(win)) = PagesOf(win)
<1>1. /\ HandleOf(win).id = win.id /\ HandleOf(win).pid = win.pid
      /\ HandleOf(win).at = win.at /\ HandleOf(win).n = win.n
  BY DEF HandleOf
<1>2. HandleOf(win) \in Handle
  BY DEF HandleOf, Handle, Window
<1> QED BY <1>1, <1>2 DEF PagesOf

\* A client has the windows that it finds by its number.
LEMMA MineIs ==
    ASSUME TypeOK, Owners, NEW c \in Clients
    PROVE  Mine(c) = {i \in Used : wins[i].pid = c}
<1>1. ASSUME NEW i \in Used, wins[i].id = view[c].id
      PROVE  wins[i].pid = c
  <2>1. wins[i].id # 0
    BY WindowIs DEF Window
  <2>2. view[c] # NoHandle
    BY <1>1, <2>1, ViewIs
  <2>3. PICK j \in Used : wins[j].id = view[c].id /\ wins[j].pid = c
    BY <2>2 DEF Owners
  <2> QED BY <1>1, <2>3 DEF Owners
<1>2. ASSUME NEW i \in Used, wins[i].pid = c
      PROVE  wins[i].id = view[c].id
  BY <1>2 DEF Owners
<1> QED BY <1>1, <1>2 DEF Mine, ById

\* Each window of a client that changed is where it was.
Kept == /\ wins' \in [Slots -> Window \cup {NoWindow}]
        /\ Used' = Used
        /\ \A i \in Used : HandleOf(wins'[i]) = HandleOf(wins[i])

LEMMA KeptFields ==
    ASSUME TypeOK, Kept, NEW i \in Used
    PROVE  /\ i \in Slots /\ wins[i] \in Window /\ wins'[i] \in Window
           /\ wins'[i].id = wins[i].id /\ wins'[i].pid = wins[i].pid
           /\ PagesOf(wins'[i]) = PagesOf(wins[i])
<1>1. i \in Slots /\ wins[i] \in Window
  BY WindowIs
<1>2. i \in Used'
  BY DEF Kept
<1>3. wins'[i].used /\ wins'[i] \in Window \cup {NoWindow}
  BY <1>1, <1>2 DEF Kept, Used
<1>4. wins'[i] \in Window
  BY <1>3 DEF NoWindow
<1>5. HandleOf(wins'[i]) = HandleOf(wins[i])
  BY DEF Kept
<1> QED BY <1>1, <1>4, <1>5, HandleOfIs

LEMMA KeptPixels ==
    ASSUME TypeOK, PixelsOwned, Kept, bitmap' = bitmap
    PROVE  PixelsOwned'
<1>1. Used' = Used /\ \A i \in Used : PagesOf(wins'[i]) = PagesOf(wins[i])
  BY KeptFields DEF Kept
<1>2. UNION {PagesOf(wins'[i]) : i \in Used'} = UNION {PagesOf(wins[i]) : i \in Used}
  BY <1>1
<1> QED BY <1>1, <1>2 DEF PixelsOwned

LEMMA KeptOwners ==
    ASSUME TypeOK, Owners, Kept, nextId' = nextId,
           \A c \in Clients : view'[c].id = view[c].id,
           \A c \in Clients : view'[c] = NoHandle <=> view[c] = NoHandle,
           \A c \in Clients : state[c] = "live" => state'[c] = "live"
    PROVE  Owners'
<1>1. Used' = Used
      /\ \A i \in Used : wins'[i].id = wins[i].id /\ wins'[i].pid = wins[i].pid
                         /\ wins[i].pid \in Clients
  BY KeptFields DEF Kept, Window
<1> QED BY <1>1 DEF Owners

LEMMA KeptHandles ==
    ASSUME TypeOK, Handles, Kept, nextId' = nextId, known' = known,
           \A c \in Clients : state[c] = "dead" => state'[c] = "dead"
    PROVE  Handles'
<1>1. Used' = Used
      /\ \A i \in Used : wins'[i].id = wins[i].id /\ HandleOf(wins'[i]) = HandleOf(wins[i])
  BY KeptFields DEF Kept
<1>2. \A h \in known : h.pid \in Clients
  BY DEF TypeOK, Handle
<1> QED BY <1>1, <1>2 DEF Handles

\* The windows of a client go with it, and their pages with them.
Gone(c) ==
    LET I == {i \in Used : wins[i].pid = c}
    IN  /\ wins' = Destroyed(I) /\ bitmap' = Freed(I)
        /\ view' = [view EXCEPT ![c] = NoHandle]
        /\ state' = [state EXCEPT ![c] = "dead"]
        /\ nextId' = nextId

LEMMA GoneWindows ==
    ASSUME TypeOK, NEW c \in Clients, Gone(c)
    PROVE  /\ wins' \in [Slots -> Window \cup {NoWindow}]
           /\ Used' = {i \in Used : wins[i].pid # c}
           /\ \A i \in Used' : wins'[i] = wins[i]
<1> DEFINE I == {i \in Used : wins[i].pid = c}
<1>1. wins' = [i \in Slots |-> IF i \in I THEN NoWindow ELSE wins[i]]
  BY DEF Gone, Destroyed
<1>2. wins' \in [Slots -> Window \cup {NoWindow}]
  BY <1>1 DEF TypeOK
<1>3. ~NoWindow.used
  BY DEF NoWindow
<1>4. \A i \in Slots : wins'[i].used <=> wins[i].used /\ i \notin I
  BY <1>1, <1>3
<1>5. Used' = {i \in Slots : wins'[i].used}
  BY DEF Used, Slots
<1>6. Used' = {i \in Used : wins[i].pid # c}
  BY <1>4, <1>5 DEF Used
<1>7. \A i \in Used' : wins'[i] = wins[i]
  BY <1>1, <1>6 DEF Used
<1> QED BY <1>2, <1>6, <1>7

LEMMA GonePixels ==
    ASSUME TypeOK, PixelsOwned, NEW c \in Clients, Gone(c)
    PROVE  PixelsOwned' /\ bitmap' \subseteq HeapPages
<1> DEFINE I == {i \in Used : wins[i].pid = c}
<1>1. bitmap' = bitmap \ UNION {PagesOf(wins[i]) : i \in I}
  BY DEF Gone, Freed
<1>2. Used' = Used \ I /\ \A i \in Used' : wins'[i] = wins[i]
  BY GoneWindows
<1>3. \A i \in Used \ I, j \in I : PagesOf(wins[i]) \cap PagesOf(wins[j]) = {}
  BY DEF PixelsOwned
<1>4. bitmap' = UNION {PagesOf(wins[i]) : i \in Used \ I}
  BY <1>1, <1>3 DEF PixelsOwned
<1>5. {PagesOf(wins'[i]) : i \in Used'} = {PagesOf(wins[i]) : i \in Used \ I}
  BY <1>2
<1>6. bitmap' = UNION {PagesOf(wins'[i]) : i \in Used'}
  BY <1>4, <1>5
<1>7. \A i, j \in Used' : PagesOf(wins'[i]) \cap PagesOf(wins'[j]) # {} => i = j
  BY <1>2 DEF PixelsOwned
<1> QED BY <1>1, <1>6, <1>7 DEF PixelsOwned, TypeOK

LEMMA GoneOwners ==
    ASSUME TypeOK, Owners, NEW c \in Clients, Gone(c)
    PROVE  Owners'
<1>1. Used' = {i \in Used : wins[i].pid # c} /\ \A i \in Used' : wins'[i] = wins[i]
  BY GoneWindows
<1>2. /\ view'[c] = NoHandle
      /\ \A d \in Clients : d # c => view'[d] = view[d] /\ state'[d] = state[d]
      /\ nextId' = nextId
  BY DEF Gone, TypeOK
<1>3. \A i \in Used : wins[i].pid \in Clients
  BY WindowIs DEF Window
<1>4. \A i \in Used' : view'[wins'[i].pid].id = wins'[i].id
  BY <1>1, <1>2, <1>3 DEF Owners
<1>5. ASSUME NEW d \in Clients, view'[d] # NoHandle
      PROVE  /\ state'[d] = "live"
             /\ \E i \in Used' : wins'[i].id = view'[d].id /\ wins'[i].pid = d
  BY <1>1, <1>2, <1>5 DEF Owners
<1> QED BY <1>1, <1>2, <1>4, <1>5 DEF Owners

\* What wm knows of the windows that are left.
LEMMA GoneHandles ==
    ASSUME TypeOK, Handles, NEW c \in Clients, Gone(c), known' \subseteq known
    PROVE  Handles'
<1>1. Used' = {i \in Used : wins[i].pid # c} /\ \A i \in Used' : wins'[i] = wins[i]
  BY GoneWindows
<1>2. /\ state'[c] = "dead" /\ nextId' = nextId
      /\ \A d \in Clients : d # c => state'[d] = state[d]
  BY DEF Gone, TypeOK
<1>3. \A h \in known' : h.pid \in Clients
  BY DEF TypeOK, Handle
<1>4. ASSUME NEW h \in known', state'[h.pid] # "dead"
      PROVE  \E i \in Used' : HandleOf(wins'[i]) = h
  <2>1. h.pid # c /\ state[h.pid] # "dead"
    BY <1>2, <1>3, <1>4
  <2>2. PICK i \in Used : HandleOf(wins[i]) = h
    BY <2>1 DEF Handles
  <2>3. wins[i].pid = h.pid
    BY <2>2, WindowIs, HandleOfIs
  <2> QED BY <1>1, <2>1, <2>2, <2>3
<1> QED BY <1>1, <1>2, <1>4 DEF Handles

-----------------------------------------------------------------------------
(* The ring of a window.                                                   *)

LEMMA DrainedIs ==
    ASSUME NEW g \in Ring
    PROVE  Drained(g) \in Ring
<1>1. EmptyRing.ev \in [Index -> Event \cup {NoEvent}]
  BY EmptyQueue DEF Ring
<1> QED BY <1>1 DEF Drained, Ring

\* No event that is posted makes the client forget a resize.
LEMMA ResizeStays ==
    ASSUME NEW g \in Ring, NEW e \in Event, HasResize(g)
    PROVE  HasResize(Post(g, e))
<1> DEFINE p == Post(g, e)
<1>1. p \in Ring
  BY PostIs
<1>2. /\ Queue(g) \in Seq(Event \cup {NoEvent}) /\ Len(Queue(g)) = Queued(g)
      /\ Queue(p) \in Seq(Event \cup {NoEvent}) /\ Len(Queue(p)) = Queued(p)
  BY <1>1, QueueIsSeq
<1>3. PICK k \in 1 .. Queued(g) : Queue(g)[k].type = "resize"
  BY DEF HasResize
<1>4. CASE \E j \in Merges(g, e) : j \in 1 .. Queued(g) /\ Queue(p) = [Queue(g) EXCEPT ![j] = e]
  <2>1. PICK j \in Merges(g, e) : j \in 1 .. Queued(g) /\ Queue(p) = [Queue(g) EXCEPT ![j] = e]
    BY <1>4
  <2>2. Queue(g)[j].type = e.type
    BY MergesWell
  <2>3. Len(Queue(p)) = Len(Queue(g))
    BY <1>2, <2>1
  <2>4. Queue(p)[k].type = "resize"
    BY <1>2, <1>3, <2>1, <2>2
  <2>5. k \in 1 .. Queued(p)
    BY <1>2, <1>3, <2>3
  <2> QED BY <2>4, <2>5 DEF HasResize
<1>5. CASE p = g
  BY <1>5
<1>6. CASE Queue(p) = Append(Queue(g), e)
  <2>1. k \in 1 .. Queued(p) /\ Queue(p)[k] = Queue(g)[k]
    BY <1>2, <1>3, <1>6
  <2> QED BY <1>3, <2>1 DEF HasResize
<1> HIDE DEF p
<1>7. \/ \E j \in Merges(g, e) : j \in 1 .. Queued(g) /\ Queue(p) = [Queue(g) EXCEPT ![j] = e]
      \/ p = g \/ Queue(p) = Append(Queue(g), e)
  BY PostIs DEF p
<1> QED BY <1>4, <1>5, <1>6, <1>7 DEF p

\* A resize that is posted is queued, or it found no room.
LEMMA ResizeIsQueued ==
    ASSUME NEW g \in Ring, NEW e \in Event, e.type = "resize", ~OutOfRoom(g, e)
    PROVE  HasResize(Post(g, e))
<1> DEFINE p == Post(g, e)
<1>1. p \in Ring
  BY PostIs
<1>2. /\ Queue(g) \in Seq(Event \cup {NoEvent}) /\ Len(Queue(g)) = Queued(g)
      /\ Queue(p) \in Seq(Event \cup {NoEvent}) /\ Len(Queue(p)) = Queued(p)
  BY <1>1, QueueIsSeq
<1>3. ~(Full(g) /\ Merges(g, e) = {})
  BY DEF OutOfRoom
<1>4. CASE \E j \in Merges(g, e) : j \in 1 .. Queued(g) /\ Queue(p) = [Queue(g) EXCEPT ![j] = e]
  <2>1. PICK j \in Merges(g, e) : j \in 1 .. Queued(g) /\ Queue(p) = [Queue(g) EXCEPT ![j] = e]
    BY <1>4
  <2>2. j \in 1 .. Queued(p) /\ Queue(p)[j] = e
    BY <1>2, <2>1
  <2> QED BY <2>2 DEF HasResize
<1>5. CASE Queue(p) = Append(Queue(g), e)
  <2>1. Queued(p) = Queued(g) + 1 /\ Queued(p) \in 1 .. Queued(p) /\ Queue(p)[Queued(p)] = e
    BY <1>2, <1>5
  <2> QED BY <2>1 DEF HasResize
<1> HIDE DEF p
<1>6. \/ \E j \in Merges(g, e) : j \in 1 .. Queued(g) /\ Queue(p) = [Queue(g) EXCEPT ![j] = e]
      \/ Queue(p) = Append(Queue(g), e)
  BY <1>3, PostIs DEF p
<1> QED BY <1>4, <1>5, <1>6 DEF p

-----------------------------------------------------------------------------
(* The clients.                                                            *)

LEMMA InitIInv == Init => IInv
<1> SUFFICES ASSUME Init PROVE IInv
  OBVIOUS
<1> USE DEF Init
<1>1. Used = {}
  BY DEF Used, NoWindow
<1>2. wins \in [Slots -> Window \cup {NoWindow}]
  OBVIOUS
<1>3. view \in [Clients -> Handle \cup {NoHandle}] /\ state \in [Clients -> {"new", "live", "dead"}]
  OBVIOUS
<1>4. nextId \in Nat \ {0} /\ turn \in Clients \cup {WM} /\ bitmap = {} /\ phase = "input"
      /\ todo = {} /\ known = {} /\ slots = {} /\ unchecked = {} /\ sweeping = FALSE
      /\ swept = {} /\ stray = {} /\ squeezed = {}
  OBVIOUS
<1>5. TypeOK
  <2> USE <1>2, <1>3, <1>4
  <2> HIDE DEF Init
  <2> QED BY DEF TypeOK
<1> QED BY <1>1, <1>5 DEF IInv, Turns, Owners, PixelsOwned, Handles, Looked,
           Views, DrawsInWindow

LEMMA CreateStep ==
    ASSUME IInv, NEW c \in Clients, NEW n \in Sizes, Create(c, n)
    PROVE  IInv'
<1> USE DEF IInv
<1>1. PICK i \in FreeSlots, at \in FirstFit(bitmap, n) :
        /\ wins' = [wins EXCEPT ![i] =
               [used |-> TRUE, id |-> NewId(i), pid |-> c, at |-> at, n |-> n,
                damage |-> TRUE, mapped |-> FALSE, unseen |-> TRUE, ring |-> EmptyRing]]
        /\ bitmap' = bitmap \cup Run(at, n)
        /\ view' = [view EXCEPT ![c] = HandleOf(wins'[i])]
  BY DEF Create
<1>2. /\ turn = c /\ view[c] = NoHandle /\ nextId' = nextId + 1
      /\ UNCHANGED <<state, turn, phase, todo, known, slots, unchecked, sweeping, swept,
                     stray, squeezed>>
  BY DEF Create, wmVars, history
<1>3. at \in HeapPages /\ Run(at, n) \subseteq HeapPages /\ Run(at, n) \cap bitmap = {}
  BY <1>1 DEF FirstFit, FreeRun
<1>4. i \in Slots /\ i \notin Used
  BY <1>1 DEF FreeSlots
<1>5. /\ wins'[i] \in Window /\ wins'[i].id = nextId /\ wins'[i].pid = c
      /\ PagesOf(wins'[i]) = Run(at, n) /\ wins'[i].used
  <2> DEFINE new == [used |-> TRUE, id |-> nextId, pid |-> c, at |-> at, n |-> n,
                     damage |-> TRUE, mapped |-> FALSE, unseen |-> TRUE, ring |-> EmptyRing]
  <2>1. wins'[i] = new
    BY <1>1, <1>4 DEF TypeOK, NewId
  <2>2. new \in Window
    BY <1>3, EmptyQueue DEF Window, TypeOK
  <2>3. PagesOf(new) = Run(at, n)
    BY DEF PagesOf
  <2> QED BY <2>1, <2>2, <2>3
<1>6. \A j \in Slots : j # i => wins'[j] = wins[j]
  BY <1>1 DEF TypeOK
<1>7. wins' \in [Slots -> Window \cup {NoWindow}]
  <2>1. wins' = [wins EXCEPT ![i] = wins'[i]]
    BY <1>1, <1>4 DEF TypeOK
  <2> QED BY <1>5, <2>1 DEF TypeOK
<1>8. Used' = Used \cup {i}
  BY <1>4, <1>5, <1>6 DEF Used, Slots
<1>9. HandleOf(wins'[i]) \in Handle /\ HandleOf(wins'[i]).id = nextId
  BY <1>5, HandleOfIs
<1>10. view'[c] = HandleOf(wins'[i]) /\ \A d \in Clients : d # c => view'[d] = view[d]
  BY <1>1 DEF TypeOK
<1>11. state[c] = "live"
  BY <1>2, DisplayAssumption DEF Turns
<1>12. \A j \in Used : wins[j].pid # c /\ j # i /\ wins'[j] = wins[j]
                       /\ wins[j].pid \in Clients /\ wins[j].id \in Nat /\ wins[j].id < nextId
  <2> SUFFICES ASSUME NEW j \in Used
               PROVE  wins[j].pid # c /\ wins[j].pid \in Clients /\ wins[j].id \in Nat
    BY <1>4, <1>6 DEF Used, Owners
  <2>1. wins[j].id \in Nat \ {0} /\ wins[j].pid \in Clients
    BY WindowIs DEF Window
  <2>2. view[c].id = 0
    BY <1>2, ViewIs
  <2> QED BY <2>1, <2>2 DEF Owners
<1>13. TypeOK'
  <2>1. view' \in [Clients -> Handle \cup {NoHandle}]
    BY <1>1, <1>9 DEF TypeOK
  <2> QED BY <1>1, <1>2, <1>3, <1>7, <2>1 DEF TypeOK
<1>14. Turns'
  BY <1>2 DEF Turns
<1>15. Owners'
  <2>1. \A j \in Used' : wins'[j].id < nextId'
    BY <1>2, <1>5, <1>8, <1>12 DEF TypeOK
  <2>2. \A j, k \in Used' : wins'[j].id = wins'[k].id => j = k
    BY <1>5, <1>8, <1>12 DEF TypeOK, Owners
  <2>3. \A j \in Used' : view'[wins'[j].pid].id = wins'[j].id
    BY <1>5, <1>8, <1>9, <1>10, <1>12 DEF Owners
  <2>4. ASSUME NEW d \in Clients, view'[d] # NoHandle
        PROVE  state'[d] = "live" /\ \E j \in Used' : wins'[j].id = view'[d].id /\ wins'[j].pid = d
    <3>1. CASE d = c
      BY <3>1, <1>2, <1>5, <1>8, <1>9, <1>10, <1>11
    <3>2. CASE d # c
      BY <2>4, <3>2, <1>2, <1>8, <1>10, <1>12 DEF Owners
    <3> QED BY <3>1, <3>2
  <2> QED BY <2>1, <2>2, <2>3, <2>4 DEF Owners
<1>16. PixelsOwned'
  <2>1. \A j \in Used : PagesOf(wins[j]) \cap PagesOf(wins'[i]) = {}
    BY <1>3, <1>5 DEF PixelsOwned
  <2>2. \A j, k \in Used' : PagesOf(wins'[j]) \cap PagesOf(wins'[k]) # {} => j = k
    BY <1>8, <1>12, <2>1 DEF PixelsOwned
  <2>3. {PagesOf(wins'[j]) : j \in Used'} = {PagesOf(wins[j]) : j \in Used} \cup {Run(at, n)}
    BY <1>5, <1>8, <1>12
  <2>4. bitmap' = UNION {PagesOf(wins'[j]) : j \in Used'}
    BY <1>1, <2>3 DEF PixelsOwned
  <2> QED BY <2>2, <2>4 DEF PixelsOwned
<1>17. Handles'
  <2>1. \A h \in known : h.id < nextId /\ h.id \in Nat
    BY DEF Handles, TypeOK, Handle
  <2>2. \A h \in known' : h.id < nextId'
    BY <1>2, <2>1 DEF TypeOK
  <2>3. \A h \in known', j \in Used' : wins'[j].id = h.id => HandleOf(wins'[j]) = h
    BY <1>2, <1>5, <1>8, <1>12, <2>1 DEF Handles, TypeOK
  <2>4. \A h \in known' : state'[h.pid] = "dead" \/ \E j \in Used' : HandleOf(wins'[j]) = h
    BY <1>2, <1>8, <1>12 DEF Handles
  <2> QED BY <1>2, <2>2, <2>3, <2>4 DEF Handles
<1>18. Looked' /\ DrawsInWindow'
  BY <1>2 DEF Looked, DrawsInWindow
<1>19. Views'
  BY <1>2, <1>5, <1>8, <1>10, <1>12 DEF Views
<1> QED BY <1>13, <1>14, <1>15, <1>16, <1>17, <1>18, <1>19

LEMMA GoneTypes ==
    ASSUME TypeOK, PixelsOwned, NEW c \in Clients, Gone(c)
    PROVE  /\ wins' \in [Slots -> Window \cup {NoWindow}]
           /\ bitmap' \subseteq HeapPages
           /\ nextId' \in Nat \ {0}
           /\ state' \in [Clients -> {"new", "live", "dead"}]
           /\ view' \in [Clients -> Handle \cup {NoHandle}]
           /\ state'[c] = "dead" /\ \A d \in Clients : d # c => state'[d] = state[d]
  BY GoneWindows, GonePixels DEF Gone, TypeOK

\* What the clients that stay have seen of their windows.
LEMMA GoneViews ==
    ASSUME TypeOK, Views, NEW c \in Clients, Gone(c), squeezed' = squeezed
    PROVE  Views'
<1>1. Used' = {i \in Used : wins[i].pid # c} /\ \A i \in Used' : wins'[i] = wins[i]
  BY GoneWindows
<1>2. \A d \in Clients : d # c => view'[d] = view[d]
  BY DEF Gone, TypeOK
<1>3. \A i \in Used : wins[i].pid \in Clients
  BY WindowIs DEF Window
<1> QED BY <1>1, <1>2, <1>3 DEF Views

LEMMA LeaveStep ==
    ASSUME IInv, NEW c \in Clients, turn = c, Leave(c), Gone(c)
    PROVE  IInv'
<1> USE DEF IInv
<1>1. /\ turn' = WM
      /\ slots' = IF sweeping THEN slots ELSE slots \ {c}
      /\ swept' = IF sweeping THEN swept \cup {c} ELSE swept
      /\ UNCHANGED <<phase, todo, known, unchecked, sweeping, stray, squeezed>>
  BY DEF Leave, EndSession, history
<1>2. c # WM
  BY DisplayAssumption
<1>3. state'[c] = "dead" /\ \A d \in Clients : d # c => state'[d] = state[d]
  BY GoneTypes
<1>4. TypeOK'
  BY <1>1, GoneTypes DEF TypeOK
<1>5. Turns'
  <2>1. \A d \in todo : d \in Clients /\ d # c /\ state[d] = "live"
    BY <1>2 DEF Turns, TypeOK
  <2> QED BY <1>1, <1>3, <2>1 DEF Turns
<1>6. Owners' /\ PixelsOwned' /\ Handles' /\ Views'
  BY <1>1, GoneOwners, GonePixels, GoneHandles, GoneViews
<1>7. Looked'
  <2> SUFFICES ASSUME phase \in {"reap", "paint"}, NEW h \in known, state'[h.pid] = "dead"
               PROVE  h \in unchecked \/ h.pid \in swept'
    BY <1>1 DEF Looked
  <2>1. h.pid \in Clients
    BY DEF TypeOK, Handle
  <2>2. sweeping
    BY <1>2 DEF Turns
  <2>3. CASE h.pid = c
    BY <1>1, <2>2, <2>3
  <2>4. CASE h.pid # c
    BY <1>1, <1>3, <2>1, <2>4 DEF Looked
  <2> QED BY <2>3, <2>4
<1>8. DrawsInWindow'
  BY <1>1 DEF DrawsInWindow
<1> QED BY <1>4, <1>5, <1>6, <1>7, <1>8

LEMMA CreateFailsStep ==
    ASSUME IInv, NEW c \in Clients, NEW n \in Sizes, CreateFails(c, n)
    PROVE  IInv'
<1> USE DEF IInv
<1>1. turn = c /\ view[c] = NoHandle /\ Leave(c) /\ UNCHANGED <<wins, bitmap>>
  BY DEF CreateFails
<1> DEFINE I == {i \in Used : wins[i].pid = c}
<1>2. I = {}
  <2> SUFFICES ASSUME NEW i \in Used PROVE wins[i].pid # c
    OBVIOUS
  <2>1. wins[i].id # 0
    BY WindowIs DEF Window
  <2>2. view[c].id = 0
    BY <1>1, ViewIs
  <2> QED BY <2>1, <2>2 DEF Owners
<1>3. wins' = Destroyed(I)
  <2>1. Destroyed(I) = [i \in Slots |-> wins[i]]
    BY <1>2 DEF Destroyed
  <2> QED BY <1>1, <2>1 DEF TypeOK
<1>4. bitmap' = Freed(I)
  BY <1>1, <1>2 DEF Freed
<1>5. Gone(c)
  BY <1>1, <1>3, <1>4 DEF Gone, Leave
<1> QED BY <1>1, <1>5, LeaveStep

LEMMA QuitStep ==
    ASSUME IInv, NEW c \in Clients, Quit(c)
    PROVE  IInv'
<1>1. turn = c /\ Leave(c)
  BY DEF Quit
<1>2. Mine(c) = {i \in Used : wins[i].pid = c}
  BY MineIs DEF IInv
<1>3. Gone(c)
  BY <1>1, <1>2 DEF Quit, Gone, Leave
<1> QED BY <1>1, <1>3, LeaveStep

\* The client has polled: it knows its window, or it does not care.
LEMMA AfterPolling ==
    ASSUME IInv, NEW c \in Clients, NEW i \in Mine(c)
    PROVE  LET v == ViewAfter(c, wins[i])
           IN  /\ i \in Used /\ wins[i].pid = c
               /\ v \in Handle /\ v.id = view[c].id /\ v # NoHandle /\ view[c] # NoHandle
               /\ c \in Deaf \cup squeezed \/ v = HandleOf(wins[i])
<1> USE DEF IInv
<1>1. i \in Used /\ wins[i].pid = c /\ wins[i].id = view[c].id
  BY MineIs DEF Mine, ById
<1>2. wins[i] \in Window
  BY <1>1, WindowIs
<1>3. wins[i].id # 0
  BY <1>2 DEF Window
<1>4. view[c] # NoHandle /\ view[c] \in Handle /\ view[c].id # 0
  BY <1>1, <1>3, ViewIs
<1>5. HandleOf(wins[i]) \in Handle /\ HandleOf(wins[i]).id = view[c].id
  BY <1>1, <1>2, HandleOfIs
<1>6. HandleOf(wins[i]) # NoHandle
  BY <1>4, <1>5 DEF NoHandle
<1>7. c \in Deaf \cup squeezed \/ view[c] = HandleOf(wins[i]) \/ HasResize(wins[i].ring)
  BY <1>1 DEF Views
<1>8. CASE HasResize(wins[i].ring) /\ c \notin Deaf
  <2>1. ViewAfter(c, wins[i]) = HandleOf(wins[i])
    BY <1>8 DEF ViewAfter
  <2> QED BY <1>1, <1>4, <1>5, <1>6, <2>1
<1>9. CASE ~(HasResize(wins[i].ring) /\ c \notin Deaf)
  <2>1. ViewAfter(c, wins[i]) = view[c]
    BY <1>9 DEF ViewAfter
  <2> QED BY <1>1, <1>4, <1>7, <1>9, <2>1
<1> QED BY <1>8, <1>9

\* What Present and Idle have in common.
LEMMA PolledStep ==
    ASSUME IInv, NEW c \in Clients, NEW i \in Mine(c), turn = c,
           Kept, view' = [view EXCEPT ![c] = ViewAfter(c, wins[i])],
           \A j \in Slots : j # i => wins'[j] = wins[j],
           Yielded, UNCHANGED <<bitmap, nextId, state, squeezed>>,
           stray' \subseteq Deaf \cup squeezed \cup stray, stray' \subseteq Clients
    PROVE  IInv'
<1> USE DEF IInv
<1>1. /\ turn' = WM /\ sweeping' = FALSE
      /\ UNCHANGED <<phase, todo, known, slots, unchecked, swept>>
  BY DEF Yielded
<1>2. c # WM
  BY DisplayAssumption
<1> DEFINE v == ViewAfter(c, wins[i])
<1>3. /\ i \in Used /\ wins[i].pid = c
      /\ v \in Handle /\ v.id = view[c].id /\ v # NoHandle /\ view[c] # NoHandle
      /\ c \in Deaf \cup squeezed \/ v = HandleOf(wins[i])
  BY AfterPolling
<1>4. view'[c] = v /\ \A d \in Clients : d # c => view'[d] = view[d]
  BY DEF TypeOK
<1> HIDE DEF v
<1>5. TypeOK'
  <2>1. view' \in [Clients -> Handle \cup {NoHandle}]
    BY <1>3 DEF TypeOK, v
  <2> QED BY <1>1, <2>1 DEF TypeOK, Kept
<1>6. Turns'
  BY <1>1, <1>2 DEF Turns
<1>7. Owners'
  BY <1>3, <1>4, KeptOwners
<1>8. PixelsOwned' /\ Handles'
  BY <1>1, KeptPixels, KeptHandles
<1>9. Looked'
  BY <1>1 DEF Looked
<1>10. Views'
  <2> SUFFICES ASSUME NEW j \in Used
               PROVE  \/ wins'[j].pid \in Deaf \cup squeezed
                      \/ view'[wins'[j].pid] = HandleOf(wins'[j])
                      \/ HasResize(wins'[j].ring)
    BY DEF Views, Kept
  <2>1. CASE j = i
    BY <2>1, <1>3, <1>4, KeptFields DEF Kept
  <2>2. CASE j # i
    <3>1. wins[j].pid # c
      BY <2>2, <1>3, MineIs DEF Owners
    <3>2. wins'[j] = wins[j] /\ wins[j].pid \in Clients
      BY <2>2, WindowIs DEF Window
    <3> QED BY <1>4, <3>1, <3>2 DEF Views
  <2> QED BY <2>1, <2>2
<1>11. DrawsInWindow'
  BY DEF DrawsInWindow
<1> QED BY <1>5, <1>6, <1>7, <1>8, <1>9, <1>10, <1>11

\* A window may change in everything but its number, its client and its pixels.
LEMMA ChangedIsKept ==
    ASSUME TypeOK, NEW i \in Used, NEW win \in Window, HandleOf(win) = HandleOf(wins[i]),
           wins' = [wins EXCEPT ![i] = win]
    PROVE  Kept /\ wins'[i] = win /\ \A j \in Slots : j # i => wins'[j] = wins[j]
<1>1. i \in Slots /\ wins[i].used
  BY DEF Used
<1>2. wins'[i] = win /\ \A j \in Slots : j # i => wins'[j] = wins[j]
  BY <1>1 DEF TypeOK
<1>3. wins' \in [Slots -> Window \cup {NoWindow}]
  BY DEF TypeOK
<1>4. win.used
  BY DEF Window
<1>5. Used' = Used
  BY <1>1, <1>2, <1>4 DEF Used, Slots
<1>6. \A j \in Used : HandleOf(wins'[j]) = HandleOf(wins[j])
  BY <1>2 DEF Used
<1> QED BY <1>2, <1>3, <1>5, <1>6 DEF Kept

LEMMA PresentStep ==
    ASSUME IInv, NEW c \in Clients, Present(c)
    PROVE  IInv'
<1> USE DEF IInv
<1>1. PICK i \in Mine(c) :
        /\ view' = [view EXCEPT ![c] = ViewAfter(c, wins[i])]
        /\ wins' = [wins EXCEPT ![i].ring = Drained(@), ![i].unseen = TRUE,
                                ![i].damage = Damage(wins[i])]
        /\ stray' = IF PagesOf(view'[c]) \subseteq PagesOf(wins[i]) THEN stray
                    ELSE stray \cup {c}
  BY DEF Present
<1>2. turn = c /\ Yielded /\ UNCHANGED <<bitmap, nextId, state, squeezed>>
  BY DEF Present
<1>3. i \in Used /\ wins[i] \in Window
  BY AfterPolling, WindowIs
<1> DEFINE win == [wins[i] EXCEPT !.ring = Drained(@), !.unseen = TRUE, !.damage = TRUE]
<1>4. win \in Window /\ HandleOf(win) = HandleOf(wins[i])
  <2>1. Drained(wins[i].ring) \in Ring
    BY <1>3, DrainedIs DEF Window
  <2>2. win \in Window
    BY <1>3, <2>1 DEF Window
  <2>3. HandleOf(win) = HandleOf(wins[i])
    BY <1>3 DEF Window, HandleOf
  <2> QED BY <2>2, <2>3
<1>5. wins' = [wins EXCEPT ![i] = win]
  BY <1>1, <1>3 DEF Damage, TypeOK, Used
<1> HIDE DEF win
<1>6. Kept /\ \A j \in Slots : j # i => wins'[j] = wins[j]
  BY <1>3, <1>4, <1>5, ChangedIsKept
<1>7. view'[c] = ViewAfter(c, wins[i])
  BY <1>1 DEF TypeOK
<1>8. c \in Deaf \cup squeezed \/ PagesOf(view'[c]) = PagesOf(wins[i])
  BY <1>3, <1>7, AfterPolling, HandleOfIs
<1>9. stray' \subseteq Deaf \cup squeezed \cup stray /\ stray' \subseteq Clients
  BY <1>1, <1>8 DEF TypeOK
<1> QED BY <1>1, <1>2, <1>6, <1>9, PolledStep

LEMMA IdleStep ==
    ASSUME IInv, NEW c \in Clients, Idle(c)
    PROVE  IInv'
<1> USE DEF IInv
<1>1. PICK i \in Mine(c) :
        /\ view' = [view EXCEPT ![c] = ViewAfter(c, wins[i])]
        /\ wins' = [wins EXCEPT ![i].ring = Drained(@)]
  BY DEF Idle
<1>2. turn = c /\ Yielded /\ UNCHANGED <<bitmap, nextId, state, stray, squeezed>>
  BY DEF Idle, history
<1>3. i \in Used /\ wins[i] \in Window
  BY AfterPolling, WindowIs
<1> DEFINE win == [wins[i] EXCEPT !.ring = Drained(@)]
<1>4. win \in Window /\ HandleOf(win) = HandleOf(wins[i])
  <2>1. Drained(wins[i].ring) \in Ring
    BY <1>3, DrainedIs DEF Window
  <2>2. win \in Window
    BY <1>3, <2>1 DEF Window
  <2>3. HandleOf(win) = HandleOf(wins[i])
    BY <1>3 DEF Window, HandleOf
  <2> QED BY <2>2, <2>3
<1>5. wins' = [wins EXCEPT ![i] = win]
  BY <1>1, <1>3 DEF TypeOK, Used
<1> HIDE DEF win
<1>6. Kept /\ \A j \in Slots : j # i => wins'[j] = wins[j]
  BY <1>3, <1>4, <1>5, ChangedIsKept
<1>7. stray' \subseteq Deaf \cup squeezed \cup stray /\ stray' \subseteq Clients
  BY <1>2 DEF TypeOK
<1> QED BY <1>1, <1>2, <1>6, <1>7, PolledStep

-----------------------------------------------------------------------------
(* The window manager: input.                                              *)

\* wm has the turn, and nothing is left of its last round.
LEMMA AtInput ==
    ASSUME Turns, At("input")
    PROVE  turn = WM /\ ~sweeping /\ phase = "input" /\ todo = {} /\ unchecked = {}
  BY DEF Turns, At

\* Nothing happens to the windows.
LEMMA SameIsKept ==
    ASSUME TypeOK, UNCHANGED wins
    PROVE  Kept
  BY DEF TypeOK, Kept, Used, Slots

LEMMA LaunchStep ==
    ASSUME IInv, NEW c \in Clients, Launch(c)
    PROVE  IInv'
<1> USE DEF IInv
<1>1. /\ turn = WM /\ phase = "input" /\ todo = {} /\ state[c] = "new"
      /\ state' = [state EXCEPT ![c] = "live"]
      /\ slots' = IF c \in Hosted THEN slots ELSE slots \cup {c}
      /\ UNCHANGED <<wins, bitmap, nextId, view, turn, phase, todo, known, unchecked, sweeping,
                     swept, stray, squeezed>>
  BY AtInput DEF Launch, history
<1>2. state'[c] = "live" /\ \A d \in Clients : d # c => state'[d] = state[d]
  BY <1>1 DEF TypeOK
<1>3. Kept
  BY <1>1, SameIsKept
<1>4. TypeOK'
  BY <1>1 DEF TypeOK
<1>5. Turns'
  BY <1>1 DEF Turns
<1>6. Owners' /\ PixelsOwned' /\ Handles'
  BY <1>1, <1>2, <1>3, KeptOwners, KeptPixels, KeptHandles
<1>7. Looked'
  BY <1>1 DEF Looked
<1>8. Views' /\ DrawsInWindow'
  BY <1>1, <1>3 DEF Views, DrawsInWindow, Kept
<1> QED BY <1>4, <1>5, <1>6, <1>7, <1>8

LEMMA PostEventStep ==
    ASSUME IInv, NEW h \in known, NEW e \in Event, PostEvent(h, e)
    PROVE  IInv'
<1> USE DEF IInv
<1>1. PICK i \in ById(h.id) : wins' = [wins EXCEPT ![i].ring = Post(@, e)]
  BY DEF PostEvent
<1>2. UNCHANGED <<bitmap, nextId, state, view, turn, phase, todo, known, slots, unchecked,
                  sweeping, swept, stray, squeezed>>
  BY DEF PostEvent, wmVars, history
<1>3. i \in Used /\ wins[i] \in Window
  BY WindowIs DEF ById
<1> DEFINE win == [wins[i] EXCEPT !.ring = Post(@, e)]
<1>4. wins[i].ring \in Ring /\ win.ring = Post(wins[i].ring, e)
  BY <1>3 DEF Window
<1>5. win \in Window /\ HandleOf(win) = HandleOf(wins[i])
  <2>1. Post(wins[i].ring, e) \in Ring
    BY <1>4, PostIs
  <2>2. win \in Window
    BY <1>3, <2>1 DEF Window
  <2>3. HandleOf(win) = HandleOf(wins[i])
    BY <1>3 DEF Window, HandleOf
  <2> QED BY <2>2, <2>3
<1>6. HasResize(wins[i].ring) => HasResize(win.ring)
  BY <1>4, ResizeStays
<1>7. wins' = [wins EXCEPT ![i] = win]
  BY <1>1, <1>3 DEF TypeOK, Used
<1> HIDE DEF win
<1>8. Kept /\ wins'[i] = win /\ \A j \in Slots : j # i => wins'[j] = wins[j]
  BY <1>3, <1>5, <1>7, ChangedIsKept
<1>9. TypeOK' /\ Turns' /\ Looked' /\ DrawsInWindow'
  BY <1>2, <1>8 DEF TypeOK, Kept, Turns, Looked, DrawsInWindow
<1>10. Owners' /\ PixelsOwned' /\ Handles'
  BY <1>2, <1>8, KeptOwners, KeptPixels, KeptHandles
<1>11. Views'
  <2>1. \A j \in Used : HasResize(wins[j].ring) => HasResize(wins'[j].ring)
    BY <1>6, <1>8 DEF Used
  <2>2. \A j \in Used : wins'[j].pid = wins[j].pid /\ HandleOf(wins'[j]) = HandleOf(wins[j])
    BY <1>8, KeptFields DEF Kept
  <2> QED BY <1>2, <1>8, <2>1, <2>2 DEF Views, Kept
<1> QED BY <1>9, <1>10, <1>11

LEMMA ResizeStep ==
    ASSUME IInv, NEW h \in known, NEW n \in Sizes, Resize(h, n)
    PROVE  IInv'
<1> USE DEF IInv
<1> DEFINE e == [type |-> "resize", v |-> n]
<1>1. PICK i \in ById(h.id), at \in FirstFit(bitmap, n) :
        /\ wins' = [wins EXCEPT ![i].at = at, ![i].n = n, ![i].damage = TRUE,
                                ![i].unseen = TRUE, ![i].ring = Post(@, e)]
        /\ bitmap' = (bitmap \cup Run(at, n)) \ PagesOf(wins[i])
        /\ known' = Refetched(h, wins'[i])
        /\ squeezed' = IF OutOfRoom(wins[i].ring, e)
                       THEN squeezed \cup {wins[i].pid} ELSE squeezed
  BY DEF Resize
<1>2. /\ turn = WM /\ ~sweeping /\ phase = "input" /\ todo = {} /\ unchecked = {}
      /\ UNCHANGED <<nextId, state, view, turn, phase, todo, slots, unchecked, sweeping, swept,
                     stray>>
  BY AtInput DEF Resize
<1>3. at \in HeapPages /\ Run(at, n) \subseteq HeapPages /\ Run(at, n) \cap bitmap = {}
  BY <1>1 DEF FirstFit, FreeRun
<1>4. i \in Used /\ i \in Slots /\ wins[i] \in Window /\ wins[i].id = h.id /\ HandleOf(wins[i]) = h
  BY WindowIs DEF ById, Handles
<1>5. e \in Event /\ e.type = "resize"
  BY DEF Event
<1> HIDE DEF e
<1> DEFINE win == [wins[i] EXCEPT !.at = at, !.n = n, !.damage = TRUE, !.unseen = TRUE,
                                  !.ring = Post(@, e)]
<1>6. wins[i].ring \in Ring /\ Post(wins[i].ring, e) \in Ring
  BY <1>4, <1>5, PostIs DEF Window
<1>7. /\ win \in Window /\ win.used /\ win.id = wins[i].id /\ win.pid = wins[i].pid
      /\ win.at = at /\ win.n = n /\ win.ring = Post(wins[i].ring, e)
  BY <1>3, <1>4, <1>6 DEF Window
<1>8. wins' = [wins EXCEPT ![i] = win]
  BY <1>1, <1>4 DEF TypeOK
<1> HIDE DEF win
<1>9. wins'[i] = win /\ \A j \in Slots : j # i => wins'[j] = wins[j]
  BY <1>4, <1>8 DEF TypeOK
<1>10. wins' \in [Slots -> Window \cup {NoWindow}]
  BY <1>7, <1>8 DEF TypeOK
<1>11. Used' = Used
  BY <1>4, <1>7, <1>9 DEF Used, Slots
<1>12. /\ \A j \in Used : wins'[j].id = wins[j].id /\ wins'[j].pid = wins[j].pid
       /\ \A j \in Used : j # i => wins'[j] = wins[j]
       /\ PagesOf(win) = Run(at, n)
  BY <1>7, <1>9 DEF Used, PagesOf
<1>13. /\ HandleOf(win) \in Handle /\ HandleOf(win).id = h.id /\ HandleOf(win).pid = h.pid
       /\ known' = (known \ {h}) \cup {HandleOf(win)}
  <2>1. HandleOf(win) \in Handle /\ HandleOf(win).id = win.id /\ HandleOf(win).pid = win.pid
    BY <1>7, HandleOfIs
  <2>2. h.id = wins[i].id /\ h.pid = wins[i].pid
    BY <1>4, HandleOfIs
  <2> QED BY <1>1, <1>7, <1>9, <2>1, <2>2 DEF Refetched
<1>14. squeezed \subseteq squeezed' /\ squeezed' \subseteq Clients
  BY <1>1, <1>4 DEF TypeOK, Window
<1>15. TypeOK'
  BY <1>1, <1>2, <1>3, <1>10, <1>13, <1>14 DEF TypeOK
<1>16. Turns' /\ Looked' /\ DrawsInWindow'
  BY <1>2, <1>14 DEF Turns, Looked, DrawsInWindow
<1>17. Owners'
  BY <1>2, <1>11, <1>12 DEF Owners
<1>18. PixelsOwned'
  <2>1. \A j \in Used : PagesOf(wins[j]) \cap Run(at, n) = {}
    BY <1>3 DEF PixelsOwned
  <2>2. \A j \in Used : j # i => PagesOf(wins[j]) \cap PagesOf(wins[i]) = {}
    BY <1>4 DEF PixelsOwned
  <2>3. \A j, k \in Used' : PagesOf(wins'[j]) \cap PagesOf(wins'[k]) # {} => j = k
    BY <1>9, <1>11, <1>12, <2>1 DEF PixelsOwned
  <2>4. \A p : p \in bitmap <=> \E j \in Used : p \in PagesOf(wins[j])
    BY DEF PixelsOwned
  <2>5. \A p : p \in bitmap'
              <=> p \in Run(at, n) \/ (p \in bitmap /\ p \notin PagesOf(wins[i]))
    <3>1. PagesOf(wins[i]) \cap Run(at, n) = {}
      BY <1>4, <2>1
    <3>2. bitmap' = (bitmap \cup Run(at, n)) \ PagesOf(wins[i])
      BY <1>1
    <3> QED BY <3>1, <3>2
  <2>6. \A p : (\E j \in Used' : p \in PagesOf(wins'[j]))
              <=> p \in Run(at, n) \/ \E j \in Used : j # i /\ p \in PagesOf(wins[j])
    BY <1>4, <1>9, <1>11, <1>12
  <2>7. \A p : p \in bitmap' <=> \E j \in Used' : p \in PagesOf(wins'[j])
    <3> TAKE p
    <3>1. (\E j \in Used : j # i /\ p \in PagesOf(wins[j]))
            <=> p \in bitmap /\ p \notin PagesOf(wins[i])
      BY <1>4, <2>2, <2>4
    <3>2. p \in bitmap' <=> p \in Run(at, n) \/ (p \in bitmap /\ p \notin PagesOf(wins[i]))
      BY <2>5
    <3>3. (\E j \in Used' : p \in PagesOf(wins'[j]))
            <=> p \in Run(at, n) \/ \E j \in Used : j # i /\ p \in PagesOf(wins[j])
      BY <2>6
    <3> QED BY <3>1, <3>2, <3>3
  <2> QED BY <2>3, <2>7 DEF PixelsOwned
<1>19. Handles'
  <2>1. \A g \in known' : g.id < nextId'
    BY <1>2, <1>13 DEF Handles
  <2>2. ASSUME NEW g \in known', NEW j \in Used', wins'[j].id = g.id
        PROVE  HandleOf(wins'[j]) = g
    <3>1. j \in Used /\ wins[j].id = g.id
      BY <2>2, <1>11, <1>12
    <3>2. CASE g = HandleOf(win)
      BY <3>1, <3>2, <1>4, <1>9, <1>13 DEF Owners
    <3>3. CASE g \in known /\ g # h
      <4>1. HandleOf(wins[j]) = g
        BY <3>1, <3>3 DEF Handles
      <4> QED BY <4>1, <3>1, <3>3, <1>4, <1>12
    <3> QED BY <3>2, <3>3, <1>13
  <2>3. \A g, k \in known' : g.pid = k.pid => g = k
    BY <1>13 DEF Handles
  <2>4. ASSUME NEW g \in known'
        PROVE  state'[g.pid] = "dead" \/ \E j \in Used' : HandleOf(wins'[j]) = g
    <3>1. CASE g = HandleOf(win)
      BY <3>1, <1>4, <1>9, <1>11
    <3>2. CASE g \in known /\ g # h
      BY <3>2, <1>2, <1>4, <1>11, <1>12 DEF Handles
    <3> QED BY <3>1, <3>2, <1>13
  <2> QED BY <2>1, <2>2, <2>3, <2>4 DEF Handles
<1>20. Views'
  <2>1. wins'[i].pid \in squeezed' \/ HasResize(wins'[i].ring)
    <3>1. CASE OutOfRoom(wins[i].ring, e)
      BY <3>1, <1>1, <1>7, <1>9
    <3>2. CASE ~OutOfRoom(wins[i].ring, e)
      BY <3>2, <1>5, <1>6, <1>7, <1>9, ResizeIsQueued
    <3> QED BY <3>1, <3>2
  <2> QED BY <2>1, <1>2, <1>11, <1>12, <1>14 DEF Views
<1> QED BY <1>15, <1>16, <1>17, <1>18, <1>19, <1>20

\* wm closes a window whose user asked for it, or whose client has gone.
LEMMA CloseStep ==
    ASSUME IInv, NEW h \in known, At("input") \/ At("reap"), Close(h),
           unchecked' = unchecked \ {h}
    PROVE  IInv'
<1> USE DEF IInv
<1> DEFINE c == h.pid
<1>1. c \in Clients
  BY DEF TypeOK, Handle
<1>2. Gone(c)
  BY DEF Close, Gone
<1>3. /\ known' = known \ {h} /\ slots' = slots \ {c} /\ sweeping' = (c \in slots)
      /\ UNCHANGED <<turn, phase, todo, swept, stray, squeezed>>
  BY DEF Close, EndSession, history
<1>4. turn = WM /\ phase \in {"input", "reap"} /\ todo = {}
  BY DEF At, Turns
<1>5. state'[c] = "dead" /\ \A d \in Clients : d # c => state'[d] = state[d]
  BY <1>1, <1>2, GoneTypes
<1>6. TypeOK'
  BY <1>1, <1>2, <1>3, GoneTypes DEF TypeOK
<1>7. Turns'
  BY <1>3, <1>4 DEF Turns
<1>8. Owners' /\ PixelsOwned' /\ Handles' /\ Views'
  BY <1>1, <1>2, <1>3, GoneOwners, GonePixels, GoneHandles, GoneViews
<1>9. Looked'
  <2> SUFFICES ASSUME phase \in {"reap", "paint"}, NEW g \in known \ {h}, state'[g.pid] = "dead"
               PROVE  g \in unchecked' \/ g.pid \in swept
    BY <1>3 DEF Looked
  <2>1. g.pid \in Clients /\ g.pid # c
    BY DEF TypeOK, Handle, Handles
  <2> QED BY <1>5, <2>1 DEF Looked
<1>10. DrawsInWindow'
  BY <1>3, <1>5 DEF DrawsInWindow
<1> QED BY <1>6, <1>7, <1>8, <1>9, <1>10

LEMMA CloseWindowStep ==
    ASSUME IInv, NEW h \in known, CloseWindow(h)
    PROVE  IInv'
<1>1. At("input") /\ Close(h) /\ unchecked' = unchecked
  BY DEF CloseWindow
<1>2. unchecked = {}
  BY <1>1, AtInput DEF IInv
<1> QED BY <1>1, <1>2, CloseStep

-----------------------------------------------------------------------------
(* The window manager: its round.                                          *)

\* A step that neither touches a window nor a client.
LEMMA LoopStep ==
    ASSUME IInv, UNCHANGED <<wins, bitmap, nextId, state, view, known, slots, swept, stray, squeezed>>,
           turn' \in Clients \cup {WM}, sweeping' \in BOOLEAN, todo' \subseteq Clients,
           phase' \in {"input", "pump", "adopt", "reap", "paint"}, unchecked' \subseteq known,
           Turns', Looked'
    PROVE  IInv'
<1> USE DEF IInv
<1>1. Kept
  BY SameIsKept
<1>2. TypeOK'
  BY DEF TypeOK
<1>3. Owners' /\ PixelsOwned' /\ Handles'
  BY <1>1, KeptOwners, KeptPixels, KeptHandles
<1>4. Views' /\ DrawsInWindow'
  BY <1>1 DEF Views, DrawsInWindow, Kept
<1> QED BY <1>2, <1>3, <1>4

LEMMA SweepStep ==
    ASSUME IInv, Sweep
    PROVE  IInv'
<1> USE DEF IInv
<1> DEFINE children == {c \in Clients \ Hosted : state[c] = "live"}
<1>1. /\ turn = WM /\ sweeping
      /\ \/ turn' \in children /\ UNCHANGED sweeping
         \/ UNCHANGED turn /\ sweeping' = FALSE
      /\ UNCHANGED <<wins, bitmap, nextId, state, view, phase, todo, known, slots, unchecked,
                     swept, stray, squeezed>>
  BY DEF Sweep, history
<1>2. phase \in {"input", "reap"} /\ todo = {}
  BY <1>1 DEF Turns, TypeOK
<1>3. Turns'
  BY <1>1, <1>2 DEF Turns
<1>4. Looked'
  BY <1>1 DEF Looked
<1>5. turn' \in Clients \cup {WM} /\ sweeping' \in BOOLEAN
  BY <1>1
<1>6. todo' \subseteq Clients /\ phase' \in {"input", "pump", "adopt", "reap", "paint"}
      /\ unchecked' \subseteq known
  BY <1>1, <1>2 DEF Turns
<1> QED BY <1>1, <1>3, <1>4, <1>5, <1>6, LoopStep

LEMMA PumpStep ==
    ASSUME IInv, StartPump \/ (\E c \in todo : Pump(c)) \/ EndPump
    PROVE  IInv'
<1> USE DEF IInv
<1>1. CASE StartPump
  <2>1. /\ turn = WM /\ ~sweeping /\ unchecked = {}
        /\ todo' = {c \in Clients : state[c] = "live"} /\ phase' = "pump"
        /\ UNCHANGED <<wins, bitmap, nextId, state, view, turn, known, slots, unchecked, sweeping,
                       swept, stray, squeezed>>
    BY <1>1, AtInput DEF StartPump, Goto, history
  <2>2. Turns' /\ Looked'
    BY <2>1 DEF Turns, Looked
  <2> QED BY <2>1, <2>2, LoopStep DEF TypeOK
<1>2. ASSUME NEW c \in todo, Pump(c)
      PROVE  IInv'
  <2>1. /\ turn = WM /\ ~sweeping /\ phase = "pump" /\ turn' = c /\ todo' = todo \ {c}
        /\ UNCHANGED <<wins, bitmap, nextId, state, view, phase, known, slots, unchecked, sweeping,
                       swept, stray, squeezed>>
    BY <1>2 DEF Pump, At, history
  <2>2. Turns' /\ Looked'
    BY <2>1 DEF Turns, Looked
  <2> QED BY <2>1, <2>2, LoopStep DEF TypeOK, Turns
<1>3. CASE EndPump
  <2>1. /\ turn = WM /\ ~sweeping /\ phase = "pump" /\ phase' = "adopt" /\ todo = {}
        /\ UNCHANGED <<wins, bitmap, nextId, state, view, turn, todo, known, slots, unchecked,
                       sweeping, swept, stray, squeezed>>
    BY <1>3 DEF EndPump, Goto, At, history
  <2>2. Turns' /\ Looked'
    BY <2>1 DEF Turns, Looked
  <2> QED BY <2>1, <2>2, LoopStep DEF TypeOK, Turns
<1> QED BY <1>1, <1>2, <1>3

LEMMA AdoptStep ==
    ASSUME IInv, Adopt
    PROVE  IInv'
<1> USE DEF IInv
<1>1. PICK i \in NextNew :
        /\ wins' = [wins EXCEPT ![i].mapped = TRUE]
        /\ known' = known \cup {HandleOf(wins[i])}
  BY DEF Adopt
<1>2. /\ turn = WM /\ ~sweeping /\ phase = "adopt"
      /\ UNCHANGED <<bitmap, nextId, state, view, turn, phase, todo, slots, unchecked, sweeping,
                     swept, stray, squeezed>>
  BY DEF Adopt, At, history
<1>3. i \in Used /\ wins[i] \in Window
  BY WindowIs DEF NextNew
<1> DEFINE win == [wins[i] EXCEPT !.mapped = TRUE]
<1>4. win \in Window /\ HandleOf(win) = HandleOf(wins[i]) /\ win.ring = wins[i].ring
  BY <1>3 DEF Window, HandleOf
<1>5. wins' = [wins EXCEPT ![i] = win]
  BY <1>1, <1>3 DEF TypeOK, Used
<1> HIDE DEF win
<1>6. Kept /\ wins'[i] = win /\ \A j \in Slots : j # i => wins'[j] = wins[j]
  BY <1>3, <1>4, <1>5, ChangedIsKept
<1> DEFINE h == HandleOf(wins[i])
<1>7. h \in Handle /\ h.id = wins[i].id /\ h.pid = wins[i].pid
  BY <1>3, HandleOfIs
<1> HIDE DEF h
<1>8. known' = known \cup {h}
  BY <1>1 DEF h
<1>9. TypeOK'
  BY <1>2, <1>6, <1>7, <1>8 DEF TypeOK, Kept
<1>10. Turns' /\ Looked' /\ DrawsInWindow'
  BY <1>2, <1>8 DEF Turns, Looked, DrawsInWindow
<1>11. Owners' /\ PixelsOwned'
  BY <1>2, <1>6, KeptOwners, KeptPixels
<1>12. \A j \in Used : wins'[j].id = wins[j].id /\ wins'[j].pid = wins[j].pid
                       /\ HandleOf(wins'[j]) = HandleOf(wins[j])
  BY <1>6, KeptFields DEF Kept
<1>13. Handles'
  <2>1. \A g \in known' : g.id < nextId'
    BY <1>2, <1>3, <1>7, <1>8 DEF Handles, Owners
  <2>2. \A g \in known', j \in Used' : wins'[j].id = g.id => HandleOf(wins'[j]) = g
    BY <1>3, <1>6, <1>7, <1>8, <1>12 DEF Handles, Owners, Kept, h
  <2>3. ASSUME NEW g \in known, g.pid = h.pid
        PROVE  g = h
    <3>1. wins[i].id # 0 /\ wins[i].pid \in Clients
      BY <1>3 DEF Window
    <3>2. view[wins[i].pid] # NoHandle
      BY <1>3, <3>1, ViewIs DEF Owners
    <3>3. state[wins[i].pid] = "live"
      BY <3>1, <3>2 DEF Owners
    <3>4. PICK j \in Used : HandleOf(wins[j]) = g
      BY <2>3, <3>3, <1>7 DEF Handles
    <3>5. wins[j].pid = wins[i].pid
      BY <2>3, <3>4, <1>7, WindowIs, HandleOfIs
    <3>6. wins[j].id = wins[i].id
      BY <1>3, <3>5 DEF Owners
    <3> QED BY <1>3, <3>4, <3>6 DEF Owners, h
  <2>4. \A g, k \in known' : g.pid = k.pid => g = k
    BY <1>8, <2>3 DEF Handles
  <2>5. \A g \in known' : state'[g.pid] = "dead" \/ \E j \in Used' : HandleOf(wins'[j]) = g
    BY <1>2, <1>3, <1>6, <1>8, <1>12 DEF Handles, Kept, h
  <2> QED BY <2>1, <2>2, <2>4, <2>5 DEF Handles
<1>14. Views'
  <2>1. \A j \in Used : wins'[j].ring = wins[j].ring
    BY <1>4, <1>6 DEF Used
  <2> QED BY <1>2, <1>6, <1>12, <2>1 DEF Views, Kept
<1> QED BY <1>9, <1>10, <1>11, <1>13, <1>14

LEMMA EndAdoptStep ==
    ASSUME IInv, EndAdopt
    PROVE  IInv'
<1> USE DEF IInv
<1>1. /\ turn = WM /\ ~sweeping /\ phase = "adopt" /\ phase' = "reap" /\ unchecked' = known
      /\ UNCHANGED <<wins, bitmap, nextId, state, view, turn, todo, known, slots, sweeping,
                     swept, stray, squeezed>>
  BY DEF EndAdopt, Goto, At, history
<1>2. Turns' /\ Looked'
  BY <1>1 DEF Turns, Looked
<1> QED BY <1>1, <1>2, LoopStep DEF TypeOK

LEMMA CheckStep ==
    ASSUME IInv, NEW h \in unchecked, Check(h)
    PROVE  IInv'
<1> USE DEF IInv
<1>1. At("reap") /\ unchecked' = unchecked \ {h} /\ h \in known
  BY DEF Check, Turns
<1>2. CASE Close(h)
  BY <1>1, <1>2, CloseStep
<1>3. CASE /\ ById(h.id) # {}
           /\ UNCHANGED <<wins, bitmap, nextId, state, view, turn, phase, todo, known, slots,
                          sweeping, swept, history>>
  <2>1. UNCHANGED <<wins, bitmap, nextId, state, view, turn, phase, todo, known, slots,
                    sweeping, swept, stray, squeezed>>
    BY <1>3 DEF history
  <2>2. PICK i \in Used : wins[i].id = h.id
    BY <1>3 DEF ById
  <2>3. HandleOf(wins[i]) = h
    BY <1>1, <2>2 DEF Handles
  <2>4. wins[i].id # 0 /\ wins[i].pid \in Clients /\ wins[i].pid = h.pid
    BY <2>3, WindowIs, HandleOfIs DEF Window
  <2>5. view[h.pid] # NoHandle
    BY <2>4, ViewIs DEF Owners
  <2>6. state[h.pid] = "live"
    BY <2>4, <2>5 DEF Owners
  <2>7. Looked'
    BY <1>1, <2>1, <2>6 DEF Looked
  <2>8. Turns'
    BY <1>1, <2>1 DEF Turns
  <2> QED BY <1>1, <2>1, <2>7, <2>8, LoopStep DEF TypeOK, Turns
<1> QED BY <1>2, <1>3 DEF Check

LEMMA EndReapStep ==
    ASSUME IInv, EndReap
    PROVE  IInv'
<1> USE DEF IInv
<1>1. /\ turn = WM /\ ~sweeping /\ phase = "reap" /\ phase' = "paint" /\ unchecked = {}
      /\ UNCHANGED <<wins, bitmap, nextId, state, view, turn, todo, known, slots, unchecked,
                     sweeping, swept, stray, squeezed>>
  BY DEF EndReap, Goto, At, history
<1>2. Turns' /\ Looked'
  BY <1>1 DEF Turns, Looked
<1> QED BY <1>1, <1>2, LoopStep DEF TypeOK

LEMMA PaintStep ==
    ASSUME IInv, Paint
    PROVE  IInv'
<1> USE DEF IInv
<1>1. /\ turn = WM /\ ~sweeping /\ phase = "paint" /\ phase' = "input"
      /\ UNCHANGED <<bitmap, nextId, state, view, turn, todo, known, slots, unchecked, sweeping,
                     swept, stray, squeezed>>
  BY DEF Paint, Goto, At, history
<1>2. wins' = [i \in Slots |->
                 IF wins[i].used /\ wins[i].damage /\ \E h \in known : h.id = wins[i].id
                 THEN [wins[i] EXCEPT !.unseen = FALSE, !.damage = FALSE]
                 ELSE wins[i]]
  BY DEF Paint
<1>3. ASSUME NEW i \in Used
      PROVE  /\ wins'[i] \in Window /\ wins'[i].used
             /\ HandleOf(wins'[i]) = HandleOf(wins[i]) /\ wins'[i].ring = wins[i].ring
  <2>1. i \in Slots /\ wins[i] \in Window
    BY WindowIs
  <2> DEFINE win == [wins[i] EXCEPT !.unseen = FALSE, !.damage = FALSE]
  <2>2. win \in Window /\ win.used /\ HandleOf(win) = HandleOf(wins[i]) /\ win.ring = wins[i].ring
    BY <2>1 DEF Window, HandleOf
  <2>3. wins'[i] = wins[i] \/ wins'[i] = win
    BY <1>2, <2>1
  <2>4. wins[i].used
    BY <2>1 DEF Window
  <2> HIDE DEF win
  <2> QED BY <2>1, <2>2, <2>3, <2>4
<1>4. \A i \in Slots \ Used : wins'[i] = wins[i]
  BY <1>2 DEF Used
<1>5. Kept
  <2>1. wins' \in [Slots -> Window \cup {NoWindow}]
    <3> DEFINE F(i) == IF wins[i].used /\ wins[i].damage /\ \E h \in known : h.id = wins[i].id
                       THEN [wins[i] EXCEPT !.unseen = FALSE, !.damage = FALSE]
                       ELSE wins[i]
    <3>1. wins' = [i \in Slots |-> F(i)]
      BY <1>2
    <3> HIDE DEF F
    <3>2. \A i \in Slots : wins'[i] \in Window \cup {NoWindow}
      BY <1>3, <1>4 DEF TypeOK
    <3> QED BY <3>1, <3>2
  <2>2. Used' = Used
    BY <1>3, <1>4 DEF Used, Slots
  <2> QED BY <1>3, <2>1, <2>2 DEF Kept
<1>6. TypeOK' /\ Turns' /\ Looked' /\ DrawsInWindow'
  BY <1>1, <1>5 DEF TypeOK, Kept, Turns, Looked, DrawsInWindow
<1>7. Owners' /\ PixelsOwned' /\ Handles'
  BY <1>1, <1>5, KeptOwners, KeptPixels, KeptHandles
<1>8. Views'
  BY <1>1, <1>3, <1>5, KeptFields DEF Views, Kept
<1> QED BY <1>6, <1>7, <1>8

-----------------------------------------------------------------------------
(* The theorems.                                                           *)

LEMMA StutterStep ==
    ASSUME IInv, UNCHANGED vars
    PROVE  IInv'
<1> USE DEF IInv
<1>1. UNCHANGED <<wins, bitmap, nextId, state, view, turn, phase, todo, known, slots, unchecked,
                  sweeping, swept, stray, squeezed>>
  BY DEF vars, history
<1>2. Turns' /\ Looked'
  BY <1>1 DEF Turns, Looked
<1> QED BY <1>1, <1>2, LoopStep DEF TypeOK, Turns

LEMMA IInvStep == IInv /\ [Next]_vars => IInv'
<1> SUFFICES ASSUME IInv, [Next]_vars PROVE IInv'
  OBVIOUS
<1>1. CASE ClientStep
  BY <1>1, CreateStep, CreateFailsStep, QuitStep, PresentStep, IdleStep DEF ClientStep
<1>2. CASE Input
  BY <1>2, LaunchStep, PostEventStep, ResizeStep, CloseWindowStep DEF Input
<1>3. CASE Frame
  <2>1. CASE AdoptSpins
    BY <2>1, StutterStep DEF AdoptSpins
  <2> QED BY <1>3, <2>1, SweepStep, PumpStep, AdoptStep, EndAdoptStep, CheckStep, EndReapStep,
             PaintStep DEF Frame
<1>4. CASE UNCHANGED vars
  BY <1>4, StutterStep
<1> QED BY <1>1, <1>2, <1>3, <1>4 DEF Next

LEMMA IInvHolds == Spec => []IInv
  BY InitIInv, IInvStep, PTL DEF Spec

\* display_create, display_resize and display_destroy never give one page to
\* two windows, and the heap gets back the pages of a window that is resized,
\* destroyed, or killed with its client: for any heap and any GUI_WIN_MAX.
THEOREM PixelsAreOwned == Spec => []PixelsOwned
<1>1. IInv => PixelsOwned
  BY DEF IInv
<1> QED BY <1>1, IInvHolds, PTL

\* wm paints the pixels that each window has at that moment, whatever was
\* resized, closed, killed or left since it asked for them: the one exception
\* is a client that ran, and left, while wm was waiting for another.
THEOREM PaintIsLive == Spec => []WmPaintsLivePixels
<1>1. ASSUME IInv, At("paint"), NEW h \in known, h.pid \notin swept
      PROVE  \E i \in ById(h.id) : HandleOf(wins[i]) = h
  <2>1. unchecked = {} /\ state[h.pid] # "dead"
    BY <1>1 DEF IInv, Turns, Looked, At
  <2>2. PICK i \in Used : HandleOf(wins[i]) = h
    BY <1>1, <2>1 DEF IInv, Handles
  <2>3. wins[i].id = h.id
    BY <1>1, <2>2, WindowIs, HandleOfIs DEF IInv
  <2> QED BY <2>2, <2>3 DEF ById
<1>2. IInv => WmPaintsLivePixels
  BY <1>1 DEF WmPaintsLivePixels
<1> QED BY <1>2, IInvHolds, PTL

\* A client that answers INP_RESIZE and whose ring took every resize never
\* writes outside the pixels of its own window, though wm moves them while the
\* client is suspended: for any ring size, and whatever else is posted.
THEOREM ClientsDrawInWindow == Spec => []DrawsInWindow
<1>1. IInv => DrawsInWindow
  BY DEF IInv
<1> QED BY <1>1, IInvHolds, PTL
=============================================================================
