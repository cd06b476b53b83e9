------------------------------ MODULE NetProofs ------------------------------
(***************************************************************************)
(* Proofs about Net, for every number of sockets, every size of the buffer *)
(* and of a segment, every stream, every bound and every configuration.    *)
(***************************************************************************)
EXTENDS Net, FiniteSetTheorems, SequenceTheorems, WellFoundedInduction, TLAPS

-----------------------------------------------------------------------------
(* The library's folds, unfolded: what n frames in a row do.                *)

\* Every set of numbers that is not empty has a least one.
LEMMA LeastNat ==
    ASSUME NEW T \in SUBSET Nat, T # {}
    PROVE  \E n \in T : \A k \in T : n <= k
<1> DEFINE R == OpToRel(<, Nat)
<1>1. IsWellFoundedOn(R, Nat)
  BY NatLessThanWellFounded
<1>2. \E x \in T : \A y \in T : ~(<<y, x>> \in R)
  <2> HIDE DEF R
  <2> QED BY <1>1, WFMin
<1>3. \A x, y \in Nat : x < y => <<x, y>> \in R
  BY DEF OpToRel
<1>4. \A x, y \in Nat : x <= y \/ y < x
  OBVIOUS
<1> HIDE DEF R
<1> QED BY <1>2, <1>3, <1>4

\* Induction up to a bound, over a set.
LEMMA Climb ==
    ASSUME NEW n \in Nat, NEW S, 0 \in S, \A m \in 0 .. n - 1 : m \in S => m + 1 \in S
    PROVE  \A m \in 0 .. n : m \in S
<1> DEFINE T == {m \in 0 .. n : m \notin S}
<1> SUFFICES ASSUME NEW x \in 0 .. n, x \notin S PROVE FALSE
  OBVIOUS
<1>0. T \in SUBSET Nat /\ x \in T
  OBVIOUS
<1>1. PICK m \in T : \A j \in T : m <= j
  BY <1>0, LeastNat
<1>2. m \in 0 .. n /\ m \notin S /\ m # 0
  BY <1>1
<1>3. m - 1 \in 0 .. n - 1 /\ m - 1 \notin T
  BY <1>1, <1>2
<1> QED BY <1>2, <1>3

\* The fold takes the greatest index last.
LEMMA MaxIsLast ==
    ASSUME NEW n \in Nat, NEW S \in SUBSET (1 .. n + 1), n + 1 \in S
    PROVE  Max(S) = n + 1
<1>1. \A y \in S : y <= n + 1
  OBVIOUS
<1>2. \A x \in S : (\A y \in S : y <= x) => x = n + 1
  OBVIOUS
<1> QED BY <1>1, <1>2 DEF Max

\* The function that folding the frames s from k computes, and its first values.
Fold(k, s) == CHOOSE g : g = [S \in SUBSET (DOMAIN s) |->
    IF S = {} THEN k ELSE handle_frame(g[S \ {Max(S)}], s[Max(S)])]

\* it[i] is the state after the first i frames of s.
Folds(it, k, s, n) ==
    /\ it[{}] = k
    /\ \A S \in SUBSET (1 .. n) : S # {} => it[S] = handle_frame(it[S \ {Max(S)}], s[Max(S)])

\* The fold is its own recursion.
LEMMA FoldIs ==
    ASSUME NEW k, NEW s, NEW n \in Nat, DOMAIN s = 1 .. n
    PROVE  Folds(Fold(k, s), k, s, n)
<1> DEFINE Is(g, m) == g = [S \in SUBSET (1 .. m) |->
                 IF S = {} THEN k ELSE handle_frame(g[S \ {Max(S)}], s[Max(S)])]
           T == {m \in 0 .. n : \E g : Is(g, m)}
<1>1. 0 \in T
  <2> DEFINE g0 == [S \in SUBSET (1 .. 0) |-> k]
  <2>1. \A S \in SUBSET (1 .. 0) : S = {}
    OBVIOUS
  <2>2. g0 = [S \in SUBSET (1 .. 0) |->
                 IF S = {} THEN k ELSE handle_frame(g0[S \ {Max(S)}], s[Max(S)])]
    BY <2>1, Zenon
  <2> QED BY <2>2
<1>2. ASSUME NEW m \in 0 .. n - 1, m \in T PROVE m + 1 \in T
  <2>1. PICK g : Is(g, m)
    BY <1>2
  <2> DEFINE h == [S \in SUBSET (1 .. m + 1) |->
                 IF m + 1 \in S THEN handle_frame(g[S \ {m + 1}], s[m + 1]) ELSE g[S]]
             body == [S \in SUBSET (1 .. m + 1) |->
                 IF S = {} THEN k ELSE handle_frame(h[S \ {Max(S)}], s[Max(S)])]
  <2>2. ASSUME NEW S \in SUBSET (1 .. m + 1) PROVE h[S] = body[S]
    <3>1. CASE m + 1 \in S
      <4>1. Max(S) = m + 1
        BY <3>1, MaxIsLast
      <4>2. S \ {m + 1} \in SUBSET (1 .. m + 1) /\ m + 1 \notin S \ {m + 1} /\ S # {}
        BY <3>1
      <4>3. h[S \ {m + 1}] = g[S \ {m + 1}]
        BY <4>2, Zenon
      <4>4. h[S] = handle_frame(g[S \ {m + 1}], s[m + 1])
        BY <3>1, Zenon
      <4>5. body[S] = handle_frame(h[S \ {Max(S)}], s[Max(S)])
        BY <4>2, Zenon
      <4> QED BY <4>1, <4>3, <4>4, <4>5, Zenon
    <3>2. CASE m + 1 \notin S
      <4>1. S \in SUBSET (1 .. m)
        BY <3>2
      <4>2. h[S] = g[S]
        BY <3>2, Zenon
      <4>3. g[S] = IF S = {} THEN k ELSE handle_frame(g[S \ {Max(S)}], s[Max(S)])
        BY <4>1, <2>1, Zenon
      <4>4. S \ {Max(S)} \in SUBSET (1 .. m + 1) /\ m + 1 \notin S \ {Max(S)}
        BY <3>2, <4>1
      <4>5. h[S \ {Max(S)}] = g[S \ {Max(S)}]
        BY <4>4, Zenon
      <4> QED BY <4>2, <4>3, <4>5, Zenon
    <3> QED BY <3>1, <3>2
  <2>3. h = body
    BY <2>2, Zenon
  <2>4. Is(h, m + 1)
    BY <2>3, Zenon
  <2>5. m + 1 \in 0 .. n
    OBVIOUS
  <2> HIDE DEF Is
  <2> QED BY <2>4, <2>5
<1>3. n \in T
  <2> HIDE DEF T
  <2>1. \A m \in 0 .. n : m \in T
    BY <1>1, <1>2, Climb, Zenon
  <2> QED BY <2>1
<1>4. PICK g : Is(g, n)
  <2> HIDE DEF Is
  <2> QED BY <1>3
<1>5. SUBSET (DOMAIN s) = SUBSET (1 .. n)
  OBVIOUS
<1>6. Fold(k, s) = [S \in SUBSET (1 .. n) |->
          IF S = {} THEN k ELSE handle_frame(Fold(k, s)[S \ {Max(S)}], s[Max(S)])]
  BY <1>4, <1>5, Zenon DEF Fold
<1>7. {} \in SUBSET (1 .. n)
  OBVIOUS
<1> QED BY <1>6, <1>7, Zenon DEF Folds

\* F[i] is the kernel's state after i frames, and out the last of them.
RunsFrames(F, k, s, n, out) ==
    F[0] = k /\ F[n] = out /\ \A i \in 1 .. n : F[i] = handle_frame(F[i - 1], s[i])

\* Folding goes through the frames one after another.
LEMMA FoldRuns ==
    ASSUME NEW k, NEW s, NEW n \in Nat, DOMAIN s = 1 .. n
    PROVE  \E F : RunsFrames(F, k, s, n, Fold(k, s)[DOMAIN s])
<1> DEFINE it == Fold(k, s)
           F == [i \in 0 .. n |-> it[1 .. i]]
<1>0. Folds(it, k, s, n)
  BY FoldIs, Zenon
<1> HIDE DEF it
<1>1. /\ it[{}] = k
      /\ \A S \in SUBSET (1 .. n) : S # {} =>
            it[S] = handle_frame(it[S \ {Max(S)}], s[Max(S)])
  BY <1>0, Zenon DEF Folds
<1>2. it[1 .. 0] = k
  <2>1. 1 .. 0 = {}
    OBVIOUS
  <2> QED BY <1>1, <2>1, Zenon
<1>3. ASSUME NEW i \in 1 .. n PROVE it[1 .. i] = handle_frame(it[1 .. i - 1], s[i])
  <2>1. 1 .. i \in SUBSET (1 .. n) /\ 1 .. i # {} /\ i - 1 \in Nat /\ i \in 1 .. i
    OBVIOUS
  <2>2. Max(1 .. i) = i
    <3>1. \A S \in SUBSET (1 .. (i - 1) + 1) : (i - 1) + 1 \in S => Max(S) = (i - 1) + 1
      BY <2>1, MaxIsLast
    <3> QED BY <2>1, <3>1
  <2>3. (1 .. i) \ {i} = 1 .. i - 1
    OBVIOUS
  <2>4. it[1 .. i] = handle_frame(it[(1 .. i) \ {Max(1 .. i)}], s[Max(1 .. i)])
    BY <1>1, <2>1, Zenon
  <2> QED BY <2>2, <2>3, <2>4
<1>4. 0 \in 0 .. n /\ n \in 0 .. n /\ \A i \in 1 .. n : i \in 0 .. n /\ i - 1 \in 0 .. n
  OBVIOUS
<1>5. \A i \in 0 .. n : F[i] = it[1 .. i]
  BY Zenon
<1> HIDE DEF F
<1>6. ASSUME NEW i \in 1 .. n PROVE F[i] = handle_frame(F[i - 1], s[i])
  BY <1>3, <1>4, <1>5, Zenon
<1>7. F[0] = k /\ F[n] = it[1 .. n]
  BY <1>2, <1>4, <1>5, Zenon
<1>8. DOMAIN s = 1 .. n
  OBVIOUS
<1>9. RunsFrames(F, k, s, n, it[DOMAIN s])
  BY <1>6, <1>7, <1>8, Zenon DEF RunsFrames
<1> QED BY <1>9, Zenon DEF it

\* net_poll handles one frame after another.
LEMMA PolledRuns ==
    ASSUME NEW k, NEW A, rx \in Seq(A), PollMax \in Nat
    PROVE  LET n == Lo(PollMax, Len(rx))
           IN  /\ n \in 0 .. Len(rx)
               /\ \E F : /\ F[0] = k /\ F[n] = Polled(k)
                         /\ \A i \in 1 .. n : F[i] = handle_frame(F[i - 1], rx[i])
<1> DEFINE n == Lo(PollMax, Len(rx))
           s == SubSeq(rx, 1, n)
<1>1. n \in 0 .. Len(rx) /\ n \in Nat
  <2>1. Len(rx) \in Nat
    OBVIOUS
  <2> QED BY <2>1 DEF Lo
<1>2. DOMAIN s = 1 .. n /\ \A i \in 1 .. n : s[i] = rx[i]
  <2> HIDE DEF n
  <2> QED BY <1>1
<1>3. Polled(k) = Fold(k, s)[DOMAIN s]
  BY Zenon DEF Polled, FoldLeft, MapThenFoldSet, Fold
<1> HIDE DEF n, s
<1>4. PICK F : RunsFrames(F, k, s, n, Fold(k, s)[DOMAIN s])
  BY <1>1, <1>2, FoldRuns, Zenon
<1>5. \A i \in 1 .. n : F[i] = handle_frame(F[i - 1], rx[i])
  BY <1>2, <1>4, Zenon DEF RunsFrames
<1>6. F[0] = k /\ F[n] = Polled(k)
  BY <1>3, <1>4, Zenon DEF RunsFrames
<1> QED BY <1>1, <1>5, <1>6, Zenon DEF n

-----------------------------------------------------------------------------
(* What the state may hold, and what sending a frame does to it.            *)

\* The types of what the state holds.
Hosts == {Server, Client, Lan, Gw, None} \cup {NetConf[i][2] : i \in 1 .. Len(NetConf)}
Flags == {"SYN", "ACK", "FIN", "PSH", "RST"}
Conns == Hosts \X Nat
Bytes == Seq(Nat)
Tcps == [kind: {"tcp"}, host: Hosts, hport: Nat, port: Nat, seq: Nat, ack: Nat,
         flags: SUBSET Flags, data: Bytes]
Udps == [kind: {"udp"}, host: Hosts, port: Nat, data: Bytes]
Others == [kind: {"ask", "reply", "ping", "pong"}, host: Hosts, port: {0}]
Frames == Tcps \cup Udps \cup Others
Sock == [used: BOOLEAN, type: {None, "tcp", "udp"}, lport: Nat, rip: Hosts, rport: Nat,
         listening: BOOLEAN, connected: BOOLEAN, rbuf: Bytes, seq: Nat, ack: Nat]
Hist == [log: [Fds -> Bytes], stored: SUBSET (Hosts \X Nat \X Nat),
         answered: SUBSET Conns, finned: SUBSET Conns, muted: SUBSET Conns]
Kernels == [socks: [Fds -> Sock], arp: Hosts, tx: Seq(Frames), hist: Hist]

\* What sending frames of a connection may do to the kernel's state.
LEMMA HopIsHost ==
    ASSUME NEW h \in Hosts, conf.gw \in Hosts
    PROVE  route_nexthop(h) \in Hosts
BY DEF route_nexthop

\* A request of an address is appended to what the card has.
LEMMA ArpSends ==
    ASSUME NEW k \in Kernels, NEW h \in Hosts, NEW o \in {"ask", "reply"}
    PROVE  /\ Arp(o, h) \in Others
           /\ eth_send(k, Arp(o, h)) \in Kernels
           /\ eth_send(k, Arp(o, h)) = [socks |-> k.socks, arp |-> k.arp, hist |-> k.hist,
                                          tx |-> Append(k.tx, Arp(o, h))]
<1>1. Arp(o, h) \in Others
  BY DEF Arp, Others
<1>2. Append(k.tx, Arp(o, h)) \in Seq(Frames)
  BY <1>1 DEF Kernels, Frames
<1>3. eth_send(k, Arp(o, h)) = [socks |-> k.socks, arp |-> k.arp, hist |-> k.hist,
                                          tx |-> Append(k.tx, Arp(o, h))]
  <2>1. PICK f : f = Arp(o, h)
    OBVIOUS
  <2>2. PICK a, b, c, d : k = [socks |-> a, arp |-> b, tx |-> c, hist |-> d]
    BY DEF Kernels
  <2>3. /\ k.socks = a /\ k.arp = b /\ k.tx = c /\ k.hist = d
        /\ eth_send(k, f) = [socks |-> a, arp |-> b, hist |-> d, tx |-> Append(c, f)]
    BY <2>2 DEF eth_send
  <2> QED BY <2>1, <2>3
<1> QED BY <1>1, <1>2, <1>3 DEF Kernels

\* A packet goes out, or the request of its next hop does in its place.
LEMMA IpSends ==
    ASSUME NEW k \in Kernels, NEW f \in Frames, conf.gw \in Hosts
    PROVE  \E g \in Frames, k2 \in Kernels, m \in {k.hist.muted, k.hist.muted \cup {Conn(f)}} :
              /\ k2 = ip_send(k, f)
              /\ k2 = [socks |-> k.socks, arp |-> k.arp, tx |-> Append(k.tx, g),
                       hist |-> [k.hist EXCEPT !.muted = m]]
              /\ (g = f /\ m = k.hist.muted) \/ (g.kind = "ask" /\ m = k.hist.muted \cup {Conn(f)})
<1>1. f.host \in Hosts /\ f.port \in Nat /\ Conn(f) \in Conns
  BY DEF Frames, Tcps, Udps, Others, Conn, Conns
<1> DEFINE hop == IF k.arp = f.host THEN f.host ELSE route_nexthop(f.host)
<1>2. hop \in Hosts
  BY <1>1, HopIsHost
<1>3. k.hist \in Hist /\ k.hist = [k.hist EXCEPT !.muted = k.hist.muted]
  BY DEF Kernels, Hist
<1>4. CASE k.arp = hop
  <2>1. ip_send(k, f) = [socks |-> k.socks, arp |-> k.arp, tx |-> Append(k.tx, f), hist |-> k.hist]
    BY <1>4 DEF ip_send, eth_send, Kernels
  <2>2. Append(k.tx, f) \in Seq(Frames)
    BY DEF Kernels
  <2>3. ip_send(k, f) \in Kernels
    BY <2>1, <2>2 DEF Kernels
  <2>4. ip_send(k, f) = [socks |-> k.socks, arp |-> k.arp, tx |-> Append(k.tx, f),
                         hist |-> [k.hist EXCEPT !.muted = k.hist.muted]]
    BY <1>3, <2>1, Zenon
  <2> QED BY <2>3, <2>4, Zenon
<1>5. CASE k.arp # hop
  <2> DEFINE g == Arp("ask", hop)
             m == k.hist.muted \cup {Conn(f)}
  <2>1. g \in Frames /\ g.kind = "ask"
    BY <1>2, ArpSends DEF Frames, Arp
  <2>2. ip_send(k, f) = [arp_send(k, hop) EXCEPT !.hist.muted = @ \cup {Conn(f)}]
    BY <1>5 DEF ip_send
  <2>3. arp_send(k, hop) = [socks |-> k.socks, arp |-> k.arp, hist |-> k.hist, tx |-> Append(k.tx, g)]
    BY <1>2, ArpSends DEF arp_send
  <2>4. ip_send(k, f) = [socks |-> k.socks, arp |-> k.arp, tx |-> Append(k.tx, g),
                         hist |-> [k.hist EXCEPT !.muted = m]]
    <3>1. PICK a : a = arp_send(k, hop)
      OBVIOUS
    <3>2. a = [socks |-> k.socks, arp |-> k.arp, hist |-> k.hist, tx |-> Append(k.tx, g)]
      BY <2>3, <3>1
    <3>3. ip_send(k, f) = [a EXCEPT !.hist.muted = @ \cup {Conn(f)}]
      BY <2>2, <3>1
    <3>4. a.hist = k.hist
      BY <3>2
    <3>5. ip_send(k, f) = [a EXCEPT !.hist = [k.hist EXCEPT !.muted = m]]
      BY <3>3, <3>4
    <3> HIDE DEF g, m
    <3> QED BY <3>2, <3>5
  <2>5. Append(k.tx, g) \in Seq(Frames)
    BY <2>1 DEF Kernels
  <2>6. [k.hist EXCEPT !.muted = m] \in Hist
    BY <1>1, <1>3 DEF Hist
  <2>7. ip_send(k, f) \in Kernels
    BY <2>4, <2>5, <2>6 DEF Kernels
  <2> QED BY <2>1, <2>4, <2>7
<1> QED BY <1>4, <1>5

\* A state in which only socket fd and what is on record of it differ.
Base(k, k2, fd) ==
    /\ k2 \in Kernels /\ k2.arp = k.arp /\ k2.hist.answered = k.hist.answered
    /\ \A d \in Fds \ {fd} : k2.socks[d] = k.socks[d] /\ k2.hist.log[d] = k.hist.log[d]
\* A segment of socket s went out, or the question where its next hop is.
Sent(k, k2, s, fl) ==
    \E g \in Frames :
        /\ k2.tx = Append(k.tx, g)
        /\ \/ /\ g \in Tcps /\ g.host = s.rip /\ g.port = s.lport /\ g.ack = s.ack /\ g.flags = fl
              /\ k2.hist.muted = k.hist.muted
           \/ g.kind = "ask" /\ k2.hist.muted = k.hist.muted \cup {<<s.rip, s.lport>>}

\* What no segment changes in a socket.
Alike(s, s2) ==
    s2.used = s.used /\ s2.type = s.type /\ s2.lport = s.lport /\ s2.listening = s.listening

\* A segment carries the socket's sequence number and acknowledgement.
LEMMA RawSends ==
    ASSUME NEW k \in Kernels, NEW fd \in Fds, NEW fl \in SUBSET Flags, NEW data \in Bytes,
           conf.gw \in Hosts, NEW k2, k2 = tcp_send_raw(k, fd, fl, data)
    PROVE  /\ Base(k, k2, fd) /\ Sent(k, k2, k.socks[fd], fl)
           /\ k2.socks = k.socks /\ k2.hist.log = k.hist.log
           /\ k2.hist.stored = k.hist.stored /\ k2.hist.finned = k.hist.finned
<1> DEFINE s == k.socks[fd]
           part == SubSeq(data, 1, Lo(SegMax, Len(data)))
           f == Tcp(s.rip, s.rport, s.lport, s.seq, s.ack, fl, part)
<1>1. s \in Sock
  BY DEF Kernels
<1>2. part \in Bytes
  BY NetAssumption DEF Bytes, Lo
<1>3. /\ f \in Tcps /\ f.host = s.rip /\ f.port = s.lport /\ f.ack = s.ack /\ f.flags = fl
      /\ Conn(f) = <<s.rip, s.lport>>
  <2> HIDE DEF s, part
  <2> QED BY <1>1, <1>2 DEF Tcp, Tcps, Sock, Conn
<1>4. k2 = ip_send(k, f)
  BY DEF tcp_send_raw
<1> HIDE DEF f, s
<1>5. PICK g \in Frames, k3 \in Kernels, m \in {k.hist.muted, k.hist.muted \cup {Conn(f)}} :
              /\ k3 = ip_send(k, f)
              /\ k3 = [socks |-> k.socks, arp |-> k.arp, tx |-> Append(k.tx, g),
                       hist |-> [k.hist EXCEPT !.muted = m]]
              /\ (g = f /\ m = k.hist.muted) \/ (g.kind = "ask" /\ m = k.hist.muted \cup {Conn(f)})
  <2>1. f \in Frames
    BY <1>3 DEF Frames
  <2> QED BY <2>1, IpSends
<1>6. /\ k2.socks = k.socks /\ k2.arp = k.arp /\ k2.tx = Append(k.tx, g)
      /\ k2.hist = [k.hist EXCEPT !.muted = m] /\ k2 \in Kernels
  BY <1>4, <1>5
<1>7. /\ k2.hist.log = k.hist.log /\ k2.hist.stored = k.hist.stored /\ k2.hist.muted = m
      /\ k2.hist.finned = k.hist.finned /\ k2.hist.answered = k.hist.answered
  BY <1>6 DEF Kernels, Hist
<1>8. Sent(k, k2, s, fl)
  BY <1>3, <1>5, <1>6, <1>7 DEF Sent
<1>9. Base(k, k2, fd)
  BY <1>6, <1>7 DEF Base
<1> QED BY <1>6, <1>7, <1>8, <1>9 DEF s

\* Writing one socket and what is on record.
Put(k, fd, s, h) == [k EXCEPT !.socks[fd] = s, !.hist = h]
\* The record of the bytes a socket was given.
PutLog(h, fd, l) == [h EXCEPT !.log[fd] = l]

\* The type of a kernel with one socket changed.
LEMMA SocketPut ==
    ASSUME NEW k \in Kernels, NEW fd \in Fds, NEW s \in Sock, NEW h \in Hist,
           NEW k2, k2 = Put(k, fd, s, h)
    PROVE  /\ k2 \in Kernels /\ k2.arp = k.arp /\ k2.tx = k.tx /\ k2.hist = h
           /\ k2.socks[fd] = s
           /\ \A d \in Fds \ {fd} : k2.socks[d] = k.socks[d]
<1>1. [k.socks EXCEPT ![fd] = s] \in [Fds -> Sock]
  BY DEF Kernels
<1>2. k2.socks = [k.socks EXCEPT ![fd] = s]
  BY DEF Kernels, Put
<1> QED BY <1>1, <1>2 DEF Kernels, Put

\* The type of a record with one socket's bytes changed.
LEMMA LogPut ==
    ASSUME NEW h \in Hist, NEW fd \in Fds, NEW l \in Bytes,
           NEW h2, h2 = PutLog(h, fd, l)
    PROVE  /\ h2 \in Hist /\ h2.log[fd] = l /\ \A d \in Fds \ {fd} : h2.log[d] = h.log[d]
           /\ h2.stored = h.stored /\ h2.finned = h.finned /\ h2.answered = h.answered
           /\ h2.muted = h.muted
<1>1. [h.log EXCEPT ![fd] = l] \in [Fds -> Bytes]
  BY DEF Hist
<1>2. h2 = [h EXCEPT !.log = [h.log EXCEPT ![fd] = l]]
  BY DEF Hist, PutLog
<1> QED BY <1>1, <1>2 DEF Hist, PutLog

\* Socket fd and the record are written, a segment answers, the socket is written again.
Reacts(k, fd, s1, h, fl, s2) ==
    LET k3 == tcp_send_raw(Put(k, fd, s1, h), fd, fl, <<>>) IN Put(k3, fd, s2, k3.hist)

\* A socket that changes, sends and changes again.
LEMMA ReactsDoes ==
    ASSUME NEW k \in Kernels, NEW fd \in Fds, NEW s1 \in Sock, NEW h \in Hist,
           NEW fl \in SUBSET Flags, NEW s2 \in Sock, conf.gw \in Hosts,
           h.answered = k.hist.answered, h.muted = k.hist.muted,
           \A d \in Fds \ {fd} : h.log[d] = k.hist.log[d],
           s2.rip = s1.rip, s2.lport = s1.lport, s2.ack = s1.ack,
           NEW k2, k2 = Reacts(k, fd, s1, h, fl, s2)
    PROVE  /\ Base(k, k2, fd) /\ Sent(k, k2, s2, fl)
           /\ k2.socks[fd] = s2 /\ k2.hist.log[fd] = h.log[fd]
           /\ k2.hist.stored = h.stored /\ k2.hist.finned = h.finned
<1>1. PICK k1 : k1 = Put(k, fd, s1, h)
  OBVIOUS
<1>2. PICK k3 : k3 = tcp_send_raw(k1, fd, fl, <<>>)
  OBVIOUS
<1>3. k2 = Put(k3, fd, s2, k3.hist)
  BY <1>1, <1>2 DEF Reacts
<1>4. /\ k1 \in Kernels /\ k1.arp = k.arp /\ k1.tx = k.tx /\ k1.hist = h
      /\ k1.socks[fd] = s1 /\ \A d \in Fds \ {fd} : k1.socks[d] = k.socks[d]
  BY <1>1, SocketPut
<1>5. /\ Base(k1, k3, fd) /\ Sent(k1, k3, s1, fl)
      /\ k3.socks = k1.socks /\ k3.hist.log = k1.hist.log
      /\ k3.hist.stored = k1.hist.stored /\ k3.hist.finned = k1.hist.finned
  <2>1. <<>> \in Bytes
    BY DEF Bytes
  <2> QED BY <1>2, <1>4, <2>1, RawSends
<1>6. /\ k2 \in Kernels /\ k2.arp = k3.arp /\ k2.tx = k3.tx /\ k2.hist = k3.hist
      /\ k2.socks[fd] = s2 /\ \A d \in Fds \ {fd} : k2.socks[d] = k3.socks[d]
  <2>1. k3 \in Kernels /\ k3.hist \in Hist
    BY <1>5 DEF Base, Kernels
  <2> QED BY <1>3, <2>1, SocketPut
<1>7. Base(k, k2, fd)
  BY <1>4, <1>5, <1>6 DEF Base
<1>8. Sent(k, k2, s2, fl)
  BY <1>4, <1>5, <1>6 DEF Sent
<1> QED BY <1>4, <1>5, <1>6, <1>7, <1>8

\* A listening socket takes the host that calls and answers it.
LEMMA TakeSynDoes ==
    ASSUME NEW k \in Kernels, NEW fd \in Fds, NEW f \in Tcps, conf.gw \in Hosts,
           NEW k2, k2 = TakeSyn(k, fd, f), NEW s, s = k.socks[fd]
    PROVE  /\ Base(k, k2, fd) /\ Sent(k, k2, k2.socks[fd], {"SYN", "ACK"})
           /\ Alike(s, k2.socks[fd]) /\ k2.socks[fd].rbuf = s.rbuf
           /\ k2.socks[fd].rip = f.host /\ k2.socks[fd].rport = f.hport
           /\ k2.socks[fd].ack = f.seq + 1
           /\ k2.hist.log[fd] = IF Speaks(s, f) THEN k.hist.log[fd] ELSE <<>>
           /\ k2.hist.stored = k.hist.stored /\ k2.hist.finned = k.hist.finned
<1>1. s \in Sock /\ k.hist \in Hist
  BY DEF Kernels
<1>2. PICK s1 : s1 = [s EXCEPT !.rip = f.host, !.rport = f.hport, !.seq = 1,
                           !.ack = f.seq + 1, !.connected = TRUE]
  OBVIOUS
<1>3. PICK l : l = IF Speaks(s, f) THEN k.hist.log[fd] ELSE <<>>
  OBVIOUS
<1>4. PICK h : h = PutLog(k.hist, fd, l)
  OBVIOUS
<1>5. PICK s2 : s2 = [s1 EXCEPT !.seq = @ + 1]
  OBVIOUS
<1>6. s1 \in Sock /\ l \in Bytes
  <2>1. f.host \in Hosts /\ f.hport \in Nat /\ f.seq + 1 \in Nat
    BY DEF Tcps
  <2>2. l \in Bytes
    BY <1>1, <1>3 DEF Hist, Bytes
  <2> QED BY <1>1, <1>2, <2>1, <2>2 DEF Sock
<1>7. /\ h \in Hist /\ h.log[fd] = l /\ \A d \in Fds \ {fd} : h.log[d] = k.hist.log[d]
      /\ h.stored = k.hist.stored /\ h.finned = k.hist.finned /\ h.answered = k.hist.answered
      /\ h.muted = k.hist.muted
  BY <1>1, <1>4, <1>6, LogPut
<1>8. /\ s2 \in Sock /\ Alike(s, s2) /\ s2.rbuf = s.rbuf /\ s2.ack = f.seq + 1
      /\ s2.rip = f.host /\ s2.rport = f.hport
      /\ s2.rip = s1.rip /\ s2.lport = s1.lport /\ s2.ack = s1.ack
  <2>1. /\ Alike(s, s1) /\ s1.rbuf = s.rbuf /\ s1.ack = f.seq + 1
        /\ s1.rip = f.host /\ s1.rport = f.hport
    BY <1>1, <1>2 DEF Sock, Alike
  <2>2. s1.seq + 1 \in Nat
    BY <1>6 DEF Sock
  <2> QED BY <1>5, <1>6, <2>1, <2>2 DEF Sock, Alike
<1>9. {"SYN", "ACK"} \in SUBSET Flags
  BY DEF Flags
<1>10. k2 = Reacts(k, fd, s1, h, {"SYN", "ACK"}, s2)
  <2>1. PICK k1 : k1 = Put(k, fd, s1, h)
    OBVIOUS
  <2>2. k1 = [k EXCEPT !.socks[fd] = s1, !.hist.log[fd] = IF Speaks(s, f) THEN @ ELSE <<>>]
    BY <1>3, <1>4, <2>1 DEF Put, PutLog
  <2>3. PICK k3 : k3 = tcp_send_raw(k1, fd, {"SYN", "ACK"}, <<>>)
    OBVIOUS
  <2>4. k2 = [k3 EXCEPT !.socks[fd].seq = @ + 1]
    BY <1>2, <2>2, <2>3 DEF TakeSyn
  <2>5. k3 \in Kernels /\ k3.socks[fd] = s1
    <3>1. <<>> \in Bytes
      BY DEF Bytes
    <3>2. k1 \in Kernels /\ k1.socks[fd] = s1
      BY <1>6, <1>7, <2>1, SocketPut
    <3> QED BY <1>9, <2>3, <3>1, <3>2, RawSends DEF Base
  <2>6. k2 = Put(k3, fd, s2, k3.hist)
    BY <1>5, <2>4, <2>5 DEF Put, Kernels
  <2> QED BY <2>1, <2>3, <2>6 DEF Reacts
<1>11. /\ Base(k, k2, fd) /\ Sent(k, k2, s2, {"SYN", "ACK"})
       /\ k2.socks[fd] = s2 /\ k2.hist.log[fd] = h.log[fd]
       /\ k2.hist.stored = h.stored /\ k2.hist.finned = h.finned
  BY <1>6, <1>7, <1>8, <1>9, <1>10, ReactsDoes
<1> QED BY <1>3, <1>7, <1>8, <1>11

\* A socket of a connection after it has answered a segment or taken note of it.
LEMMA TakeAckDoes ==
    ASSUME NEW k \in Kernels, NEW fd \in Fds, NEW f \in Tcps, conf.gw \in Hosts,
           NEW k2, k2 = TakeAck(k, fd, f), NEW s, s = k.socks[fd]
    PROVE  /\ Base(k, k2, fd) /\ Alike(s, k2.socks[fd]) /\ k2.socks[fd].rbuf = s.rbuf
           /\ k2.socks[fd].rip = s.rip /\ k2.socks[fd].rport = s.rport
           /\ k2.hist.log[fd] = k.hist.log[fd]
           /\ k2.hist.stored = k.hist.stored /\ k2.hist.finned = k.hist.finned
           /\ \/ /\ k2.tx = k.tx /\ k2.hist.muted = k.hist.muted
                 /\ k2.socks[fd].ack = s.ack
              \/ /\ "SYN" \in f.flags /\ "ACK" \in f.flags
                 /\ Sent(k, k2, k2.socks[fd], {"ACK"}) /\ k2.socks[fd].ack = f.seq + 1
<1>1. s \in Sock /\ k.hist \in Hist
  BY DEF Kernels
<1>2. CASE {"SYN", "ACK"} \subseteq f.flags
  <2>1. PICK s1 : s1 = [s EXCEPT !.ack = f.seq + 1]
    OBVIOUS
  <2>2. PICK s2 : s2 = [s1 EXCEPT !.connected = TRUE]
    OBVIOUS
  <2>3. /\ s1 \in Sock /\ s2 \in Sock /\ Alike(s, s2) /\ s2.rbuf = s.rbuf /\ s2.ack = f.seq + 1
        /\ s2.rip = s.rip /\ s2.rport = s.rport
        /\ s2.rip = s1.rip /\ s2.lport = s1.lport /\ s2.ack = s1.ack
    <3>1. f.seq + 1 \in Nat
      BY DEF Tcps
    <3> QED BY <1>1, <2>1, <2>2, <3>1 DEF Sock, Alike
  <2>4. k2 = Reacts(k, fd, s1, k.hist, {"ACK"}, s2)
    <3>1. PICK k1 : k1 = Put(k, fd, s1, k.hist)
      OBVIOUS
    <3>2. k1 = [k EXCEPT !.socks[fd].ack = f.seq + 1]
      BY <2>1, <3>1 DEF Put, Kernels
    <3>3. PICK k3 : k3 = tcp_send_raw(k1, fd, {"ACK"}, <<>>)
      OBVIOUS
    <3>4. k2 = [k3 EXCEPT !.socks[fd].connected = TRUE]
      BY <1>2, <3>2, <3>3 DEF TakeAck
    <3>5. k3 \in Kernels /\ k3.socks[fd] = s1
      <4>1. <<>> \in Bytes /\ {"ACK"} \in SUBSET Flags
        BY DEF Bytes, Flags
      <4>2. k1 \in Kernels /\ k1.socks[fd] = s1
        BY <1>1, <2>3, <3>1, SocketPut
      <4> QED BY <3>3, <4>1, <4>2, RawSends DEF Base
    <3>6. k2 = Put(k3, fd, s2, k3.hist)
      BY <2>2, <3>4, <3>5 DEF Put, Kernels
    <3> QED BY <3>1, <3>3, <3>6 DEF Reacts
  <2>5. {"ACK"} \in SUBSET Flags
    BY DEF Flags
  <2>6. /\ Base(k, k2, fd) /\ Sent(k, k2, s2, {"ACK"})
        /\ k2.socks[fd] = s2 /\ k2.hist.log[fd] = k.hist.log[fd]
        /\ k2.hist.stored = k.hist.stored /\ k2.hist.finned = k.hist.finned
    BY <1>1, <2>3, <2>4, <2>5, ReactsDoes
  <2> QED BY <1>2, <2>3, <2>6
<1>3. CASE ~({"SYN", "ACK"} \subseteq f.flags) /\ "ACK" \in f.flags
  <2>1. PICK s2 : s2 = [s EXCEPT !.connected = TRUE]
    OBVIOUS
  <2>2. /\ s2 \in Sock /\ Alike(s, s2) /\ s2.rbuf = s.rbuf /\ s2.ack = s.ack
        /\ s2.rip = s.rip /\ s2.rport = s.rport
    BY <1>1, <2>1 DEF Sock, Alike
  <2>3. k2 = Put(k, fd, s2, k.hist)
    BY <1>3, <2>1 DEF TakeAck, Put, Kernels
  <2>4. /\ k2 \in Kernels /\ k2.arp = k.arp /\ k2.tx = k.tx /\ k2.hist = k.hist
        /\ k2.socks[fd] = s2 /\ \A d \in Fds \ {fd} : k2.socks[d] = k.socks[d]
    BY <1>1, <2>2, <2>3, SocketPut
  <2> QED BY <2>2, <2>4 DEF Base
<1>4. CASE "ACK" \notin f.flags
  <2>1. k2 = k
    BY <1>4 DEF TakeAck
  <2> QED BY <1>1, <2>1 DEF Base, Alike
<1> QED BY <1>2, <1>3, <1>4

-----------------------------------------------------------------------------
(* What the data and the FIN of a segment do.                               *)

\* The record of the bytes a socket was given, and of all that were stored.
Record(h, fd, l, st) == [h EXCEPT !.log[fd] = l, !.stored = st]

\* Its type.
LEMMA RecordIs ==
    ASSUME NEW h \in Hist, NEW fd \in Fds, NEW l \in Bytes, NEW st \in SUBSET (Hosts \X Nat \X Nat),
           NEW h2, h2 = Record(h, fd, l, st)
    PROVE  /\ h2 \in Hist /\ h2.log[fd] = l /\ \A d \in Fds \ {fd} : h2.log[d] = h.log[d]
           /\ h2.stored = st /\ h2.finned = h.finned /\ h2.answered = h.answered
           /\ h2.muted = h.muted
<1>1. [h.log EXCEPT ![fd] = l] \in [Fds -> Bytes]
  BY DEF Hist
<1>2. h2 = [h EXCEPT !.log = [h.log EXCEPT ![fd] = l], !.stored = st]
  BY DEF Hist, Record
<1> QED BY <1>1, <1>2 DEF Hist

\* The bytes of a segment that were stored.
Told3(f, kept) == {<<f.host, f.port, b>> : b \in ToSet(kept)}

\* What is cut off is a tail: the rest fits the buffer.
LEMMA CutIs ==
    ASSUME NEW k \in Kernels, NEW fd \in Fds, NEW f \in Tcps,
           Len(k.socks[fd].rbuf) <= BufSize, NEW g, g = Cut(k, fd, f)
    PROVE  \E n \in 0 .. Len(f.data) :
              /\ n = Lo(Len(f.data), BufSize - Len(k.socks[fd].rbuf))
              /\ Len(k.socks[fd].rbuf) + n <= BufSize
              /\ g.data = SubSeq(f.data, 1, n) /\ g.data \in Bytes /\ Len(g.data) = n
              /\ \A i \in 1 .. n : g.data[i] = f.data[i]
              /\ ToSet(g.data) \subseteq Nat
              /\ g \in Tcps
              /\ g.host = f.host /\ g.hport = f.hport /\ g.port = f.port /\ g.seq = f.seq
              /\ g.ack = f.ack /\ g.flags = f.flags
<1>1. BufSize \in Nat /\ f.data \in Seq(Nat) /\ k.socks[fd].rbuf \in Seq(Nat)
  BY NetAssumption DEF Kernels, Sock, Tcps, Bytes
<1>2. PICK n : n = Lo(Len(f.data), BufSize - Len(k.socks[fd].rbuf))
  OBVIOUS
<1>3. n \in 0 .. Len(f.data) /\ Len(k.socks[fd].rbuf) + n <= BufSize
  <2>1. PICK a \in Nat, b \in Nat : a = Len(f.data) /\ b = Len(k.socks[fd].rbuf)
    BY <1>1
  <2>2. b <= BufSize /\ n = Lo(a, BufSize - b)
    BY <1>2, <2>1
  <2>3. n \in 0 .. a /\ b + n <= BufSize
    BY <1>1, <2>2 DEF Lo
  <2> QED BY <2>1, <2>3
<1>4. PICK d : d = SubSeq(f.data, 1, n)
  OBVIOUS
<1>5. d \in Bytes /\ Len(d) = n /\ \A i \in 1 .. n : d[i] = f.data[i]
  BY <1>1, <1>3, <1>4 DEF Bytes
<1>6. g = [f EXCEPT !.data = d]
  BY <1>2, <1>4 DEF Cut
<1>7. ToSet(d) \subseteq Nat
  <2>1. \A x \in ToSet(d) : x \in Nat
    BY <1>5 DEF ToSet, Bytes
  <2> QED BY <2>1
<1>8. /\ g \in Tcps /\ g.data = d
      /\ g.host = f.host /\ g.hport = f.hport /\ g.port = f.port /\ g.seq = f.seq
      /\ g.ack = f.ack /\ g.flags = f.flags
  BY <1>5, <1>6 DEF Tcps
<1> QED BY <1>2, <1>3, <1>4, <1>5, <1>7, <1>8

\* What is kept is stored, recorded and acknowledged.
LEMMA TakeDataDoes ==
    ASSUME NEW k \in Kernels, NEW fd \in Fds, NEW f \in Tcps, conf.gw \in Hosts,
           Len(k.socks[fd].rbuf) <= BufSize, f.data # <<>>,
           NEW k2, k2 = TakeData(k, fd, f), NEW s, s = k.socks[fd],
           NEW kept, kept = Cut(k, fd, f).data
    PROVE  /\ Base(k, k2, fd) /\ Sent(k, k2, k2.socks[fd], {"ACK"})
           /\ Alike(s, k2.socks[fd]) /\ Len(k2.socks[fd].rbuf) <= BufSize
           /\ k2.socks[fd].rip = s.rip /\ k2.socks[fd].rport = s.rport
           /\ k2.socks[fd].connected = s.connected
           /\ k2.socks[fd].ack = f.seq + Len(kept)
           /\ k2.hist.log[fd] = (IF Conn(f) \in k.hist.muted THEN <<>> ELSE k.hist.log[fd] \o kept)
           /\ k2.hist.stored = k.hist.stored \cup Told3(f, kept)
           /\ k2.hist.finned = k.hist.finned
<1>1. s \in Sock /\ k.hist \in Hist
  BY DEF Kernels
<1>2. PICK n \in 0 .. Len(f.data) :
              /\ Len(s.rbuf) + n <= BufSize
              /\ kept \in Bytes /\ Len(kept) = n
              /\ ToSet(kept) \subseteq Nat
  <2>1. PICK g : g = Cut(k, fd, f)
    OBVIOUS
  <2>2. \E n \in 0 .. Len(f.data) :
              /\ n = Lo(Len(f.data), BufSize - Len(k.socks[fd].rbuf))
              /\ Len(k.socks[fd].rbuf) + n <= BufSize
              /\ g.data = SubSeq(f.data, 1, n) /\ g.data \in Bytes /\ Len(g.data) = n
              /\ \A i \in 1 .. n : g.data[i] = f.data[i]
              /\ ToSet(g.data) \subseteq Nat
    BY <2>1, CutIs
  <2> QED BY <2>1, <2>2
<1>3. PICK s1 : s1 = [s EXCEPT !.rbuf = @ \o kept, !.ack = f.seq + Len(kept)]
  OBVIOUS
<1>4. PICK l : l = IF Conn(f) \in k.hist.muted THEN <<>> ELSE k.hist.log[fd] \o kept
  OBVIOUS
<1>5. PICK st : st = k.hist.stored \cup Told3(f, kept)
  OBVIOUS
<1>6. PICK h : h = Record(k.hist, fd, l, st)
  OBVIOUS
<1>7. /\ s1 \in Sock /\ Alike(s, s1) /\ Len(s1.rbuf) <= BufSize
      /\ s1.rip = s.rip /\ s1.rport = s.rport /\ s1.connected = s.connected
      /\ s1.ack = f.seq + Len(kept)
  <2>1. f.seq + Len(kept) \in Nat
    <3>1. f.seq \in Nat /\ n \in Nat
      BY DEF Tcps
    <3> QED BY <1>2, <3>1
  <2>2. PICK b : b = s.rbuf \o kept
    OBVIOUS
  <2>3. b \in Bytes /\ Len(b) <= BufSize
    <3>1. PICK o : o = s.rbuf
      OBVIOUS
    <3>2. o \in Seq(Nat) /\ kept \in Seq(Nat) /\ Len(o) + Len(kept) <= BufSize
      BY <1>1, <1>2, <3>1 DEF Sock, Bytes
    <3>3. b = o \o kept
      BY <2>2, <3>1
    <3>4. b \in Seq(Nat) /\ Len(b) = Len(o) + Len(kept)
      BY <3>2, <3>3
    <3> QED BY <3>2, <3>4 DEF Bytes
  <2>4. s1 = [s EXCEPT !.rbuf = b, !.ack = f.seq + Len(kept)]
    BY <1>3, <2>2
  <2> QED BY <1>1, <2>1, <2>3, <2>4 DEF Sock, Alike
<1>8. l \in Bytes
  BY <1>1, <1>2, <1>4 DEF Hist, Bytes
<1>9. st \in SUBSET (Hosts \X Nat \X Nat)
  <2>1. f.host \in Hosts /\ f.port \in Nat
    BY DEF Tcps
  <2>2. Told3(f, kept) \subseteq Hosts \X Nat \X Nat
    BY <1>2, <2>1 DEF Told3
  <2> QED BY <1>1, <1>5, <2>2 DEF Hist
<1>10. /\ h \in Hist /\ h.log[fd] = l /\ \A d \in Fds \ {fd} : h.log[d] = k.hist.log[d]
       /\ h.stored = st /\ h.finned = k.hist.finned /\ h.answered = k.hist.answered
       /\ h.muted = k.hist.muted
  BY <1>1, <1>6, <1>8, <1>9, RecordIs
<1>11. {"ACK"} \in SUBSET Flags
  BY DEF Flags
<1>12. k2 = Reacts(k, fd, s1, h, {"ACK"}, s1)
  <2>1. PICK k1 : k1 = Put(k, fd, s1, h)
    OBVIOUS
  <2>2. k1 = [k EXCEPT !.socks[fd].rbuf = @ \o kept, !.socks[fd].ack = f.seq + Len(kept),
                       !.hist.log[fd] = IF Conn(f) \in k.hist.muted THEN <<>> ELSE @ \o kept,
                       !.hist.stored = @ \cup Told3(f, kept)]
    <3>1. k1 = [[k EXCEPT !.socks[fd] = s1] EXCEPT !.hist = h]
      BY <2>1 DEF Put
    <3>2. [k EXCEPT !.socks[fd].rbuf = @ \o kept, !.socks[fd].ack = f.seq + Len(kept)]
             = [k EXCEPT !.socks[fd] = s1]
      BY <1>3 DEF Kernels
    <3>3. PICK j : j = [k EXCEPT !.socks[fd] = s1]
      OBVIOUS
    <3>4. j.hist = k.hist
      BY <3>3 DEF Kernels
    <3>5. [j EXCEPT !.hist.log[fd] = IF Conn(f) \in k.hist.muted THEN <<>> ELSE @ \o kept,
                    !.hist.stored = @ \cup Told3(f, kept)] = [j EXCEPT !.hist = h]
      BY <3>4, <1>4, <1>5, <1>6 DEF Record
    <3> QED BY <3>1, <3>2, <3>3, <3>5
  <2>3. PICK k3 : k3 = tcp_send_raw(k1, fd, {"ACK"}, <<>>)
    OBVIOUS
  <2>4. k2 = k3
    BY <2>2, <2>3, Zenon DEF TakeData, Told3
  <2>5. k3 \in Kernels /\ k3.socks[fd] = s1
    <3>1. <<>> \in Bytes
      BY DEF Bytes
    <3>2. k1 \in Kernels /\ k1.socks[fd] = s1
      BY <1>7, <1>10, <2>1, SocketPut
    <3> QED BY <1>11, <2>3, <3>1, <3>2, RawSends DEF Base
  <2>6. k2 = Put(k3, fd, s1, k3.hist)
    BY <2>4, <2>5 DEF Put, Kernels
  <2> QED BY <2>1, <2>3, <2>6 DEF Reacts
<1>13. /\ Base(k, k2, fd) /\ Sent(k, k2, s1, {"ACK"})
       /\ k2.socks[fd] = s1 /\ k2.hist.log[fd] = h.log[fd]
       /\ k2.hist.stored = h.stored /\ k2.hist.finned = h.finned
  BY <1>7, <1>10, <1>11, <1>12, ReactsDoes
<1> QED BY <1>4, <1>5, <1>7, <1>10, <1>13

\* The record of the connections whose FIN came with data.
PutFin(h, fin) == [h EXCEPT !.finned = fin]

\* The connections on record as closed with data.
Finned(k, f) == IF f.data # <<>> THEN k.hist.finned \cup {Conn(f)} ELSE k.hist.finned

\* A FIN is acknowledged and ends the connection.
LEMMA TakeFinDoes ==
    ASSUME NEW k \in Kernels, NEW fd \in Fds, NEW f \in Tcps, conf.gw \in Hosts,
           "FIN" \in f.flags,
           NEW k2, k2 = TakeFin(k, fd, f), NEW s, s = k.socks[fd]
    PROVE  /\ Base(k, k2, fd) /\ Sent(k, k2, k2.socks[fd], {"ACK"})
           /\ Alike(s, k2.socks[fd]) /\ k2.socks[fd].rbuf = s.rbuf
           /\ k2.socks[fd].rip = s.rip /\ k2.socks[fd].rport = s.rport
           /\ ~k2.socks[fd].connected
           /\ k2.socks[fd].ack = f.seq + 1
           /\ k2.hist.log[fd] = k.hist.log[fd]
           /\ k2.hist.stored = k.hist.stored
           /\ k2.hist.finned = Finned(k, f)
<1>1. s \in Sock /\ k.hist \in Hist
  BY DEF Kernels
<1>2. PICK s1 : s1 = [s EXCEPT !.ack = f.seq + 1]
  OBVIOUS
<1>3. PICK s2 : s2 = [s1 EXCEPT !.connected = FALSE]
  OBVIOUS
<1>4. PICK fin : fin = IF f.data # <<>> THEN k.hist.finned \cup {Conn(f)} ELSE k.hist.finned
  OBVIOUS
<1>5. PICK h : h = PutFin(k.hist, fin)
  OBVIOUS
<1>6. /\ s1 \in Sock /\ s2 \in Sock /\ Alike(s, s2) /\ s2.rbuf = s.rbuf /\ s2.ack = f.seq + 1
      /\ s2.rip = s.rip /\ s2.rport = s.rport /\ ~s2.connected
      /\ s2.rip = s1.rip /\ s2.lport = s1.lport /\ s2.ack = s1.ack
  <2>1. f.seq + 1 \in Nat
    BY DEF Tcps
  <2> QED BY <1>1, <1>2, <1>3, <2>1 DEF Sock, Alike
<1>7. fin \in SUBSET Conns
  BY <1>1, <1>4 DEF Hist, Conn, Tcps, Conns
<1>8. /\ h \in Hist /\ h.log = k.hist.log /\ h.stored = k.hist.stored /\ h.finned = fin
      /\ h.answered = k.hist.answered /\ h.muted = k.hist.muted
  BY <1>1, <1>5, <1>7 DEF Hist, PutFin
<1>9. {"ACK"} \in SUBSET Flags
  BY DEF Flags
<1>10. k2 = Reacts(k, fd, s1, h, {"ACK"}, s2)
  <2>1. PICK k1 : k1 = Put(k, fd, s1, h)
    OBVIOUS
  <2>2. k1 = [k EXCEPT !.socks[fd].ack = f.seq + 1,
                       !.hist.finned = IF f.data # <<>> THEN @ \cup {Conn(f)} ELSE @]
    <3>1. k1 = [[k EXCEPT !.socks[fd] = s1] EXCEPT !.hist = h]
      BY <2>1 DEF Put
    <3>2. [k EXCEPT !.socks[fd].ack = f.seq + 1] = [k EXCEPT !.socks[fd] = s1]
      BY <1>2 DEF Kernels
    <3>3. PICK j : j = [k EXCEPT !.socks[fd] = s1]
      OBVIOUS
    <3>4. j.hist = k.hist
      BY <3>3 DEF Kernels
    <3>5. [j EXCEPT !.hist.finned = IF f.data # <<>> THEN @ \cup {Conn(f)} ELSE @]
             = [j EXCEPT !.hist = h]
      BY <3>4, <1>4, <1>5 DEF PutFin
    <3> QED BY <3>1, <3>2, <3>3, <3>5
  <2>3. PICK k3 : k3 = tcp_send_raw(k1, fd, {"ACK"}, <<>>)
    OBVIOUS
  <2>4. k2 = [k3 EXCEPT !.socks[fd].connected = FALSE]
    BY <2>2, <2>3, Zenon DEF TakeFin
  <2>5. k3 \in Kernels /\ k3.socks[fd] = s1
    <3>1. <<>> \in Bytes
      BY DEF Bytes
    <3>2. k1 \in Kernels /\ k1.socks[fd] = s1
      BY <1>6, <1>8, <2>1, SocketPut
    <3> QED BY <1>9, <2>3, <3>1, <3>2, RawSends DEF Base
  <2>6. k2 = Put(k3, fd, s2, k3.hist)
    BY <1>3, <2>4, <2>5 DEF Put, Kernels
  <2> QED BY <2>1, <2>3, <2>6 DEF Reacts
<1>11. /\ Base(k, k2, fd) /\ Sent(k, k2, s2, {"ACK"})
       /\ k2.socks[fd] = s2 /\ k2.hist.log[fd] = h.log[fd]
       /\ k2.hist.stored = h.stored /\ k2.hist.finned = h.finned
  BY <1>6, <1>8, <1>9, <1>10, ReactsDoes
<1> QED BY <1>4, <1>6, <1>8, <1>11 DEF Finned

-----------------------------------------------------------------------------
(* The invariant, of a socket and of a frame; one socket's turn with a segment. *)

\* The segments of the remote hosts that may be under way, and the other frames.
Heard == {f \in Tcps :
    /\ f.host \in Remote /\ f.hport = HostPort
    /\ "SYN" \in f.flags => /\ f.seq = 0 /\ f.data = <<>> /\ "FIN" \notin f.flags
                            /\ "ACK" \in f.flags <=> f.host = Server
    /\ "FIN" \in f.flags => f.seq + Len(f.data) = Stream + 1
    /\ f.data # <<>> => f.seq >= 1 /\ f.seq + Len(f.data) <= Stream + 1
    /\ \A i \in 1 .. Len(f.data) : f.data[i] = f.seq + i - 1}
Near == {f \in Udps \cup Others : f.host \in {Gw, Lan} /\ f.kind # "pong"}

\* The ports that connections with a host can have.
Given(e, r, p) == IF r = Client THEN p = ListenPort ELSE FirstEphemeral <= p /\ p < e
\* Every byte below a is stored, unless a FIN came with data.
Told(h, r, p, a) == \A i \in 1 .. Stream :
    i < a => <<r, p, i>> \in h.stored \/ <<r, p>> \in h.finned

\* What holds of a socket, of a frame that comes in and of one that goes out.
SockOK(k, e, s) ==
    /\ Len(s.rbuf) <= BufSize
    /\ s.type = "tcp" => s.used
    /\ s.rip \in Remote => /\ s.type = "tcp" /\ s.rport = HostPort
                           /\ Given(e, s.rip, s.lport) /\ Told(k.hist, s.rip, s.lport, s.ack)
    /\ s.connected => s.rip \in Remote /\ <<s.rip, s.lport>> \in k.hist.answered
    /\ s.listening => s.lport = ListenPort
InOK(k, e, f) == f.kind = "tcp" =>
    /\ Given(e, f.host, f.port) /\ Conn(f) \in k.hist.answered /\ Told(k.hist, f.host, f.port, f.seq)
OutOK(k, e, f) == f.kind = "tcp" /\ f.host \in Remote =>
    /\ Given(e, f.host, f.port) /\ Told(k.hist, f.host, f.port, f.ack)
    /\ "ACK" \in f.flags \/ f.ack = 0
\* A SYN of this machine's; a segment of a connection; a socket of a connection.
Syn(f) == f.kind = "tcp" /\ f.flags = {"SYN"} /\ f.host = Server
Of(f, r, p) == f.kind = "tcp" /\ f.host = r /\ f.port = p
Has(s, r, p) == s.rip = r /\ s.lport = p

\* The record grows.
Later(h, h2) == h.stored \subseteq h2.stored /\ h.answered \subseteq h2.answered
                /\ h.finned \subseteq h2.finned /\ h.muted \subseteq h2.muted
\* A socket that goes on with its connection.
Kept(k, k2, d) ==
    /\ k2.socks[d].rip = k.socks[d].rip /\ k2.socks[d].lport = k.socks[d].lport
    /\ k2.socks[d].ack = k.socks[d].ack /\ k2.hist.log[d] = k.hist.log[d]
\* Frames of one connection, none of them a SYN, were appended to those sent.
Longer(k, k2, e, r, p) ==
    /\ Len(k.tx) <= Len(k2.tx)
    /\ \A i \in 1 .. Len(k.tx) : k2.tx[i] = k.tx[i]
    /\ \A i \in Len(k.tx) + 1 .. Len(k2.tx) :
          /\ OutOK(k2, e, k2.tx[i]) /\ ~Syn(k2.tx[i])
          /\ k2.tx[i].kind = "tcp" => Of(k2.tx[i], r, p)
Sound(k, e) == \A d \in Fds : SockOK(k, e, k.socks[d])
\* What a segment of the connection of r and p may do.
Turn(k, k2, e, r, p) ==
    /\ k2 \in Kernels /\ Sound(k2, e) /\ Later(k.hist, k2.hist) /\ Longer(k, k2, e, r, p)
    /\ \A d \in Fds : Kept(k, k2, d) \/ Has(k2.socks[d], r, p)
    /\ \A d \in Fds : k2.socks[d].type = k.socks[d].type
    /\ \A d \in Fds : k.socks[d].rip = Server =>
          k2.socks[d].rip = Server /\ k2.socks[d].lport = k.socks[d].lport

\* What was stored stays stored.
LEMMA ToldLater ==
    ASSUME NEW h, NEW h2, Later(h, h2), NEW r, NEW p, NEW a, Told(h, r, p, a)
    PROVE  Told(h2, r, p, a)
BY DEF Later, Told

\* What holds of a socket goes on to hold as the record grows.
LEMMA SockLater ==
    ASSUME NEW k, NEW k2, Later(k.hist, k2.hist), NEW e, NEW s, SockOK(k, e, s)
    PROVE  SockOK(k2, e, s)
<1>1. Told(k.hist, s.rip, s.lport, s.ack) => Told(k2.hist, s.rip, s.lport, s.ack)
  BY ToldLater
<1> QED BY <1>1 DEF SockOK, Later

\* The same of a frame that comes in.
LEMMA InLater ==
    ASSUME NEW k, NEW k2, Later(k.hist, k2.hist), NEW e, NEW f, InOK(k, e, f)
    PROVE  InOK(k2, e, f)
<1>1. Told(k.hist, f.host, f.port, f.seq) => Told(k2.hist, f.host, f.port, f.seq)
  BY ToldLater
<1> QED BY <1>1 DEF InOK, Later

\* The same of a frame that goes out.
LEMMA OutLater ==
    ASSUME NEW k, NEW k2, Later(k.hist, k2.hist), NEW e, NEW f, OutOK(k, e, f)
    PROVE  OutOK(k2, e, f)
<1>1. Told(k.hist, f.host, f.port, f.ack) => Told(k2.hist, f.host, f.port, f.ack)
  BY ToldLater
<1> QED BY <1>1 DEF OutOK

\* Doing nothing is a turn.
LEMMA TurnStays ==
    ASSUME NEW k \in Kernels, NEW e, Sound(k, e), NEW r, NEW p
    PROVE  Turn(k, k, e, r, p)
<1>1. Len(k.tx) \in Nat
  BY DEF Kernels
<1> QED BY <1>1 DEF Turn, Later, Longer, Kept

\* Two turns are one.
LEMMA TurnTrans ==
    ASSUME NEW k \in Kernels, NEW k2, NEW k3, NEW e, NEW r, NEW p,
           Turn(k, k2, e, r, p), Turn(k2, k3, e, r, p)
    PROVE  Turn(k, k3, e, r, p)
<1>1. Len(k.tx) \in Nat /\ Len(k2.tx) \in Nat /\ Len(k3.tx) \in Nat
  BY DEF Turn, Kernels
<1>2. Later(k.hist, k3.hist)
  BY DEF Turn, Later
<1>3. Longer(k, k3, e, r, p)
  <2>1. Longer(k, k2, e, r, p) /\ Longer(k2, k3, e, r, p) /\ Later(k2.hist, k3.hist)
    BY DEF Turn
  <2>2. \A f : OutOK(k2, e, f) => OutOK(k3, e, f)
    BY <2>1, OutLater
  <2>3. \A i \in Len(k.tx) + 1 .. Len(k2.tx) : k3.tx[i] = k2.tx[i]
    BY <1>1, <2>1 DEF Longer
  <2>4. ASSUME NEW i \in Len(k.tx) + 1 .. Len(k3.tx)
        PROVE  /\ OutOK(k3, e, k3.tx[i]) /\ ~Syn(k3.tx[i])
               /\ k3.tx[i].kind = "tcp" => Of(k3.tx[i], r, p)
    <3>1. CASE i \in Len(k.tx) + 1 .. Len(k2.tx)
      BY <2>1, <2>2, <2>3, <3>1 DEF Longer
    <3>2. CASE i \in Len(k2.tx) + 1 .. Len(k3.tx)
      BY <2>1, <3>2 DEF Longer
    <3> QED BY <1>1, <3>1, <3>2
  <2>5. Len(k.tx) <= Len(k3.tx) /\ \A i \in 1 .. Len(k.tx) : k3.tx[i] = k.tx[i]
    BY <1>1, <2>1 DEF Longer
  <2> QED BY <2>4, <2>5 DEF Longer
<1>4. \A d \in Fds : Kept(k, k3, d) \/ Has(k3.socks[d], r, p)
  BY DEF Turn, Kept, Has
<1> QED BY <1>2, <1>3, <1>4 DEF Turn

\* A socket that has taken a segment of its connection, and what was sent.
LEMMA SentTurns ==
    ASSUME NEW k \in Kernels, NEW k2, NEW fd \in Fds, NEW e \in Nat, Sound(k, e), NEW r, NEW p,
           Base(k, k2, fd), Later(k.hist, k2.hist),
           SockOK(k2, e, k2.socks[fd]), Has(k2.socks[fd], r, p), Alike(k.socks[fd], k2.socks[fd]),
           k.socks[fd].rip = Server => r = Server /\ p = k.socks[fd].lport,
           k2.tx = k.tx \/ (\E fl : "ACK" \in fl /\ Sent(k, k2, k2.socks[fd], fl))
    PROVE  Turn(k, k2, e, r, p)
<1>1. k2 \in Kernels /\ Len(k.tx) \in Nat /\ Len(k2.tx) \in Nat
  BY DEF Base, Kernels
<1>2. ASSUME NEW d \in Fds \ {fd} PROVE SockOK(k2, e, k2.socks[d]) /\ Kept(k, k2, d)
  <2>1. k2.socks[d] = k.socks[d] /\ k2.hist.log[d] = k.hist.log[d] /\ SockOK(k, e, k.socks[d])
    BY DEF Base, Sound
  <2>2. SockOK(k2, e, k.socks[d])
    BY <2>1, SockLater
  <2> QED BY <2>1, <2>2 DEF Kept
<1>3. Sound(k2, e)
  BY <1>2 DEF Sound
<1>4. Longer(k, k2, e, r, p)
  <2>1. CASE k2.tx = k.tx
    BY <1>1, <2>1 DEF Longer
  <2>2. CASE \E fl : "ACK" \in fl /\ Sent(k, k2, k2.socks[fd], fl)
    <3>1. PICK fl : "ACK" \in fl /\ Sent(k, k2, k2.socks[fd], fl)
      BY <2>2
    <3>2. PICK g \in Frames :
             /\ k2.tx = Append(k.tx, g)
             /\ \/ /\ g \in Tcps /\ g.host = r /\ g.port = p /\ g.ack = k2.socks[fd].ack /\ g.flags = fl
                \/ g.kind = "ask"
      BY <3>1 DEF Sent, Has
    <3>3. /\ Len(k2.tx) = Len(k.tx) + 1 /\ k2.tx[Len(k.tx) + 1] = g
          /\ \A i \in 1 .. Len(k.tx) : k2.tx[i] = k.tx[i]
      <4>1. k.tx \in Seq(Frames)
        BY DEF Kernels
      <4> QED BY <3>2, <4>1
    <3>4. OutOK(k2, e, g) /\ ~Syn(g) /\ (g.kind = "tcp" => Of(g, r, p))
      <4>1. CASE g.kind = "ask"
        BY <4>1 DEF OutOK, Syn
      <4>2. CASE g \in Tcps /\ g.host = r /\ g.port = p /\ g.ack = k2.socks[fd].ack /\ g.flags = fl
        <5>1. g.flags # {"SYN"}
          BY <3>1, <4>2
        <5>2. OutOK(k2, e, g)
          BY <3>1, <4>2 DEF OutOK, SockOK, Has
        <5> QED BY <4>2, <5>1, <5>2 DEF Syn, Of
      <4> QED BY <3>2, <4>1, <4>2
    <3>5. \A i \in Len(k.tx) + 1 .. Len(k2.tx) : k2.tx[i] = g
      BY <1>1, <3>3
    <3> QED BY <1>1, <3>3, <3>4, <3>5 DEF Longer
  <2> QED BY <2>1, <2>2
<1>5. \A d \in Fds : Kept(k, k2, d) \/ Has(k2.socks[d], r, p)
  BY <1>2
<1>6. ASSUME NEW d \in Fds, k.socks[d].rip = Server
      PROVE  k2.socks[d].rip = Server /\ k2.socks[d].lport = k.socks[d].lport
  <2>1. CASE d = fd
    BY <1>6, <2>1 DEF Has
  <2>2. CASE d # fd
    BY <1>2, <1>6, <2>2 DEF Kept
  <2> QED BY <2>1, <2>2
<1>7. \A d \in Fds : k2.socks[d].type = k.socks[d].type
  BY DEF Base, Alike
<1> QED BY <1>1, <1>3, <1>4, <1>5, <1>6, <1>7 DEF Turn

-----------------------------------------------------------------------------
(* Each kind of segment is a turn.                                          *)

\* A segment as the sockets see it, cut off by those before them.
Piece(k, f) ==
    /\ f \in Tcps /\ f.host \in Remote /\ f.hport = HostPort
    /\ "SYN" \in f.flags => f.seq = 0 /\ f.data = <<>> /\ (("ACK" \in f.flags) <=> (f.host = Server))
    /\ "FIN" \in f.flags /\ f.data = <<>> => f.seq = Stream + 1 \/ Conn(f) \in k.hist.finned
    /\ \A i \in 1 .. Len(f.data) : f.data[i] = f.seq + i - 1

\* The kinds of frames are disjoint.
LEMMA FramesDiffer ==
    /\ \A f \in Tcps : f.kind = "tcp" /\ f.host \in Hosts /\ f.port \in Nat /\ f.seq \in Nat /\ f.ack \in Nat
                       /\ f.data \in Seq(Nat) /\ Len(f.data) \in Nat /\ f.hport \in Nat
BY DEF Tcps, Bytes

\* A SYN for a listening socket.
LEMMA SynTurns ==
    ASSUME NEW k \in Kernels, NEW fd \in Fds, NEW e \in Nat, Sound(k, e), conf.gw \in Hosts,
           NEW f, Piece(k, f), InOK(k, e, f), k.socks[fd].used, k.socks[fd].type = "tcp",
           Listens(k.socks[fd], f), NEW k2, k2 = TakeSyn(k, fd, f)
    PROVE  Turn(k, k2, e, f.host, f.port)
<1> DEFINE s == k.socks[fd]
           s2 == k2.socks[fd]
<1>1. /\ Base(k, k2, fd) /\ Sent(k, k2, s2, {"SYN", "ACK"})
      /\ Alike(s, s2) /\ s2.rbuf = s.rbuf
      /\ s2.rip = f.host /\ s2.rport = f.hport /\ s2.ack = f.seq + 1
      /\ k2.hist.stored = k.hist.stored /\ k2.hist.finned = k.hist.finned
  <2>1. f \in Tcps
    BY DEF Piece
  <2> QED BY <2>1, TakeSynDoes
<1> HIDE DEF s2
<1>2. f.kind = "tcp" /\ f.host \in Remote /\ f.hport = HostPort /\ f.seq = 0
  BY FramesDiffer DEF Piece, Listens
<1>3. SockOK(k, e, s) /\ s.lport = f.port /\ s.used /\ s.type = "tcp" /\ s.listening
  BY DEF Sound, Listens
<1>4. Later(k.hist, k2.hist)
  BY <1>1 DEF Later, Base, Sent
<1>5. Told(k2.hist, f.host, f.port, s2.ack)
  BY <1>1, <1>2 DEF Told
<1>6. SockOK(k2, e, s2)
  <2>1. Given(e, f.host, f.port) /\ Conn(f) \in k2.hist.answered
    BY <1>2, <1>4 DEF InOK, Later
  <2> QED BY <1>1, <1>2, <1>3, <1>5, <2>1 DEF SockOK, Alike, Conn
<1>7. s.rip # Server
  BY <1>3 DEF SockOK, Given, Remote, Server, Client, ListenPort, FirstEphemeral
<1>8. Has(s2, f.host, f.port)
  BY <1>1, <1>3 DEF Has, Alike
<1>9. "ACK" \in {"SYN", "ACK"}
  OBVIOUS
<1> QED BY <1>1, <1>4, <1>6, <1>7, <1>8, <1>9, SentTurns DEF s2

\* The flags of a segment for a socket of its connection.
LEMMA AckTurns ==
    ASSUME NEW k \in Kernels, NEW fd \in Fds, NEW e \in Nat, Sound(k, e), conf.gw \in Hosts,
           NEW f, Piece(k, f), InOK(k, e, f), k.socks[fd].used, k.socks[fd].type = "tcp",
           Has(k.socks[fd], f.host, f.port), NEW k2, k2 = TakeAck(k, fd, f)
    PROVE  Turn(k, k2, e, f.host, f.port) /\ Has(k2.socks[fd], f.host, f.port)
<1> DEFINE s == k.socks[fd]
           s2 == k2.socks[fd]
<1>1. /\ Base(k, k2, fd) /\ Alike(s, s2) /\ s2.rbuf = s.rbuf
      /\ s2.rip = s.rip /\ s2.rport = s.rport
      /\ k2.hist.stored = k.hist.stored /\ k2.hist.finned = k.hist.finned
      /\ \/ /\ k2.tx = k.tx /\ k2.hist.muted = k.hist.muted
            /\ s2.ack = s.ack
         \/ /\ "SYN" \in f.flags /\ "ACK" \in f.flags
            /\ Sent(k, k2, s2, {"ACK"}) /\ s2.ack = f.seq + 1
  <2>1. f \in Tcps
    BY DEF Piece
  <2> QED BY <2>1, TakeAckDoes
<1> HIDE DEF s2
<1>2. f.kind = "tcp" /\ f.host \in Remote
  BY FramesDiffer DEF Piece
<1>3. SockOK(k, e, s) /\ s.lport = f.port /\ s.rip = f.host
  BY DEF Sound, Has
<1>4. Later(k.hist, k2.hist)
  BY <1>1 DEF Later, Base, Sent
<1>5. Told(k2.hist, f.host, f.port, s2.ack)
  <2>1. CASE s2.ack = s.ack
    <3>1. Told(k.hist, f.host, f.port, s.ack)
      BY <1>2, <1>3 DEF SockOK
    <3> QED BY <1>4, <2>1, <3>1, ToldLater
  <2>2. CASE "SYN" \in f.flags /\ s2.ack = f.seq + 1
    BY <2>2 DEF Told, Piece
  <2> QED BY <1>1, <2>1, <2>2
<1>6. SockOK(k2, e, s2)
  <2>1. Given(e, f.host, f.port) /\ Conn(f) \in k2.hist.answered
    BY <1>2, <1>4 DEF InOK, Later
  <2> QED BY <1>1, <1>2, <1>3, <1>5, <2>1 DEF SockOK, Alike, Conn
<1>8. Has(s2, f.host, f.port)
  BY <1>1, <1>3 DEF Has, Alike
<1>9. k2.tx = k.tx \/ (\E fl : "ACK" \in fl /\ Sent(k, k2, s2, fl))
  BY <1>1
<1> QED BY <1>1, <1>3, <1>4, <1>6, <1>8, <1>9, SentTurns DEF s2

\* Its data.
LEMMA DataTurns ==
    ASSUME NEW k \in Kernels, NEW fd \in Fds, NEW e \in Nat, Sound(k, e), conf.gw \in Hosts,
           NEW f, Piece(k, f), InOK(k, e, f),
           Has(k.socks[fd], f.host, f.port), NEW k2, k2 = TakeData(k, fd, f)
    PROVE  Turn(k, k2, e, f.host, f.port) /\ Has(k2.socks[fd], f.host, f.port)
<1> DEFINE s == k.socks[fd]
           s2 == k2.socks[fd]
<1>0. SockOK(k, e, s) /\ s.lport = f.port /\ s.rip = f.host
  BY DEF Sound, Has
<1>1. CASE f.data = <<>>
  <2>1. k2 = k
    BY <1>1 DEF TakeData
  <2> QED BY <2>1, TurnStays
<1>2. CASE f.data # <<>>
  <2>0. f \in Tcps /\ Len(s.rbuf) <= BufSize
    BY <1>0 DEF Piece, SockOK
  <2>1. PICK kept : kept = Cut(k, fd, f).data
    OBVIOUS
  <2>2. /\ Base(k, k2, fd) /\ Sent(k, k2, s2, {"ACK"})
        /\ Alike(s, s2) /\ Len(s2.rbuf) <= BufSize
        /\ s2.rip = s.rip /\ s2.rport = s.rport /\ s2.connected = s.connected
        /\ s2.ack = f.seq + Len(kept)
        /\ k2.hist.stored = k.hist.stored \cup Told3(f, kept)
        /\ k2.hist.finned = k.hist.finned
    BY <1>2, <2>0, <2>1, TakeDataDoes
  <2>3. PICK n \in 0 .. Len(f.data) : Len(kept) = n /\ \A i \in 1 .. n : kept[i] = f.data[i]
    <3>1. PICK g : g = Cut(k, fd, f)
      OBVIOUS
    <3>2. \E n \in 0 .. Len(f.data) :
              /\ n = Lo(Len(f.data), BufSize - Len(k.socks[fd].rbuf))
              /\ Len(k.socks[fd].rbuf) + n <= BufSize
              /\ g.data = SubSeq(f.data, 1, n) /\ g.data \in Bytes /\ Len(g.data) = n
              /\ \A i \in 1 .. n : g.data[i] = f.data[i]
      BY <2>0, <3>1, CutIs
    <3> QED BY <2>1, <3>1, <3>2
  <2> HIDE DEF s2
  <2>4. Later(k.hist, k2.hist)
    BY <2>2 DEF Later, Base, Sent
  <2>5. Told(k2.hist, f.host, f.port, s2.ack)
    <3>1. Told(k.hist, f.host, f.port, f.seq) /\ f.seq \in Nat /\ Len(f.data) \in Nat
      BY <2>0, FramesDiffer DEF InOK, Piece
    <3>2. Told(k2.hist, f.host, f.port, f.seq)
      BY <2>4, <3>1, ToldLater
    <3>3. ASSUME NEW i \in f.seq .. f.seq + n - 1 PROVE <<f.host, f.port, i>> \in k2.hist.stored
      <4>1. PICK j \in 1 .. n : i = f.seq + j - 1
        <5>1. i - f.seq + 1 \in 1 .. n /\ i = f.seq + (i - f.seq + 1) - 1
          BY <3>1
        <5> QED BY <5>1
      <4>2. j \in 1 .. Len(f.data)
        BY <3>1
      <4>3. kept[j] = i
        BY <2>3, <4>1, <4>2 DEF Piece
      <4>4. kept[j] \in ToSet(kept)
        BY <2>3 DEF ToSet
      <4>5. <<f.host, f.port, i>> \in Told3(f, kept)
        BY <4>3, <4>4 DEF Told3
      <4> QED BY <2>2, <4>5
    <3>4. \A i \in 1 .. Stream : i < f.seq + n => i < f.seq \/ i \in f.seq .. f.seq + n - 1
      BY <3>1
    <3> QED BY <2>2, <2>3, <3>2, <3>3, <3>4 DEF Told
  <2>6. SockOK(k2, e, s2)
    <3>1. Given(e, f.host, f.port) /\ Conn(f) \in k2.hist.answered /\ f.host \in Remote
      BY <2>0, <2>4, FramesDiffer DEF InOK, Later, Piece
    <3> QED BY <1>0, <2>2, <2>5, <3>1 DEF SockOK, Alike, Conn
  <2>7. Has(s2, f.host, f.port)
    BY <1>0, <2>2 DEF Has, Alike
  <2>8. "ACK" \in {"ACK"}
    OBVIOUS
  <2> QED BY <1>0, <2>2, <2>4, <2>6, <2>7, <2>8, SentTurns DEF s2
<1> QED BY <1>1, <1>2

\* Its FIN.
LEMMA FinTurns ==
    ASSUME NEW k \in Kernels, NEW fd \in Fds, NEW e \in Nat, Sound(k, e), conf.gw \in Hosts,
           NEW f, Piece(k, f), InOK(k, e, f),
           Has(k.socks[fd], f.host, f.port), NEW k2, k2 = TakeFin(k, fd, f)
    PROVE  /\ Turn(k, k2, e, f.host, f.port) /\ Has(k2.socks[fd], f.host, f.port)
           /\ "FIN" \in f.flags => f.seq = Stream + 1 \/ Conn(f) \in k2.hist.finned
<1> DEFINE s == k.socks[fd]
           s2 == k2.socks[fd]
<1>0. SockOK(k, e, s) /\ s.lport = f.port /\ s.rip = f.host
  BY DEF Sound, Has
<1>1. CASE "FIN" \notin f.flags
  <2>1. k2 = k
    BY <1>1 DEF TakeFin
  <2> QED BY <1>1, <2>1, TurnStays
<1>2. CASE "FIN" \in f.flags
  <2>0. f \in Tcps
    BY DEF Piece
  <2>2. /\ Base(k, k2, fd) /\ Sent(k, k2, s2, {"ACK"})
        /\ Alike(s, s2) /\ s2.rbuf = s.rbuf
        /\ s2.rip = s.rip /\ s2.rport = s.rport /\ ~s2.connected
        /\ s2.ack = f.seq + 1
        /\ k2.hist.stored = k.hist.stored
        /\ k2.hist.finned = Finned(k, f)
    BY <1>2, <2>0, TakeFinDoes
  <2> HIDE DEF s2
  <2>4. Later(k.hist, k2.hist)
    BY <2>2 DEF Later, Base, Sent, Finned
  <2>5. f.seq = Stream + 1 \/ Conn(f) \in k2.hist.finned
    BY <1>2, <2>2 DEF Piece, Finned
  <2>6. Told(k2.hist, f.host, f.port, s2.ack)
    <3>1. Told(k.hist, f.host, f.port, f.seq) /\ f.seq \in Nat
      BY <2>0, FramesDiffer DEF InOK, Piece
    <3>2. Told(k2.hist, f.host, f.port, f.seq)
      BY <2>4, <3>1, ToldLater
    <3>3. Stream \in Nat
      BY NetAssumption
    <3> QED BY <2>2, <2>5, <3>1, <3>2, <3>3 DEF Told, Conn
  <2>7. SockOK(k2, e, s2)
    <3>1. Given(e, f.host, f.port) /\ f.host \in Remote
      BY <2>0, FramesDiffer DEF InOK, Piece
    <3> QED BY <1>0, <2>2, <2>6, <3>1 DEF SockOK, Alike, Conn
  <2>8. Has(s2, f.host, f.port)
    BY <1>0, <2>2 DEF Has, Alike
  <2>9. "ACK" \in {"ACK"}
    OBVIOUS
  <2> QED BY <1>0, <2>2, <2>4, <2>5, <2>7, <2>8, <2>9, SentTurns DEF s2
<1> QED BY <1>1, <1>2

\* A segment cut off is still one.
LEMMA PieceLater ==
    ASSUME NEW k, NEW k2, Later(k.hist, k2.hist), NEW f, Piece(k, f)
    PROVE  Piece(k2, f)
BY DEF Piece, Later

\* What is left of a cut segment is its beginning.
LEMMA CutKeeps ==
    ASSUME NEW k \in Kernels, NEW fd \in Fds, NEW f \in Tcps,
           Len(k.socks[fd].rbuf) <= BufSize, NEW g, g = Cut(k, fd, f)
    PROVE  \E n \in 0 .. Len(f.data) :
              /\ Len(g.data) = n
              /\ \A i \in 1 .. n : g.data[i] = f.data[i]
              /\ g \in Tcps
              /\ g.host = f.host /\ g.hport = f.hport /\ g.port = f.port /\ g.seq = f.seq
              /\ g.flags = f.flags
BY CutIs

\* One socket's turn is a step of the segment's connection.
LEMMA TakeTurns ==
    ASSUME NEW k \in Kernels, NEW fd \in Fds, NEW e \in Nat, Sound(k, e), conf.gw \in Hosts,
           NEW f, Piece(k, f), InOK(k, e, f),
           NEW p, p.k = k, p.f = f, NEW p2, p2 = Take(p, fd), p = [k |-> k, f |-> f]
    PROVE  /\ Turn(k, p2.k, e, f.host, f.port) /\ Piece(p2.k, p2.f) /\ InOK(p2.k, e, p2.f)
           /\ p2.f.host = f.host /\ p2.f.port = f.port
           /\ p2 = [k |-> p2.k, f |-> p2.f]
<1> DEFINE s == k.socks[fd]
<1>0. f \in Tcps /\ s \in Sock
  BY DEF Piece, Kernels
<1>1. CASE fd \notin Takers(k, f)
  <2>1. p2 = p
    BY <1>1 DEF Take
  <2> QED BY <2>1, TurnStays
<1>2. CASE fd \in Takers(k, f) /\ Listens(s, f)
  <2>1. s.used /\ s.type = "tcp"
    BY <1>2 DEF Takers
  <2>2. PICK k2 : k2 = TakeSyn(k, fd, f)
    OBVIOUS
  <2>3. p2 = [k |-> k2, f |-> f]
    BY <1>2, <2>2 DEF Take
  <2>4. Turn(k, k2, e, f.host, f.port)
    BY <1>2, <2>1, <2>2, SynTurns
  <2>5. Later(k.hist, k2.hist)
    BY <2>4 DEF Turn
  <2>6. Piece(k2, f) /\ InOK(k2, e, f)
    BY <2>5, PieceLater, InLater
  <2> QED BY <2>3, <2>4, <2>6
<1>3. CASE fd \in Takers(k, f) /\ ~Listens(s, f)
  <2>1. s.used /\ s.type = "tcp" /\ Has(s, f.host, f.port)
    BY <1>3 DEF Takers, Speaks, Has
  <2>2. PICK k2 : k2 = TakeAck(k, fd, f)
    OBVIOUS
  <2>3. PICK k3 : k3 = TakeData(k2, fd, f)
    OBVIOUS
  <2>4. PICK k4 : k4 = TakeFin(k3, fd, f)
    OBVIOUS
  <2>5. PICK g : g = Cut(k, fd, f)
    OBVIOUS
  <2>6. p2 = [k |-> k4, f |-> g]
    BY <1>3, <2>2, <2>3, <2>4, <2>5 DEF Take
  <2>7. Turn(k, k2, e, f.host, f.port) /\ Has(k2.socks[fd], f.host, f.port)
    BY <2>1, <2>2, AckTurns
  <2>8. k2 \in Kernels /\ Sound(k2, e) /\ Piece(k2, f) /\ InOK(k2, e, f)
    <3>1. k2 \in Kernels /\ Sound(k2, e) /\ Later(k.hist, k2.hist)
      BY <2>7 DEF Turn
    <3> QED BY <3>1, PieceLater, InLater
  <2>9. Turn(k2, k3, e, f.host, f.port) /\ Has(k3.socks[fd], f.host, f.port)
    BY <2>3, <2>7, <2>8, DataTurns
  <2>10. k3 \in Kernels /\ Sound(k3, e) /\ Piece(k3, f) /\ InOK(k3, e, f)
    <3>1. k3 \in Kernels /\ Sound(k3, e) /\ Later(k2.hist, k3.hist)
      BY <2>9 DEF Turn
    <3> QED BY <2>8, <3>1, PieceLater, InLater
  <2>11. /\ Turn(k3, k4, e, f.host, f.port)
         /\ "FIN" \in f.flags => f.seq = Stream + 1 \/ Conn(f) \in k4.hist.finned
    BY <2>4, <2>9, <2>10, FinTurns
  <2>12. Turn(k, k4, e, f.host, f.port)
    <3>1. Turn(k, k3, e, f.host, f.port)
      BY <2>7, <2>9, TurnTrans
    <3> QED BY <2>11, <3>1, TurnTrans
  <2>13. \E n \in 0 .. Len(f.data) :
              /\ Len(g.data) = n
              /\ \A i \in 1 .. n : g.data[i] = f.data[i]
              /\ g \in Tcps
              /\ g.host = f.host /\ g.hport = f.hport /\ g.port = f.port /\ g.seq = f.seq
              /\ g.flags = f.flags
    <3>1. f \in Tcps /\ Len(k.socks[fd].rbuf) <= BufSize /\ g = Cut(k, fd, f)
      BY <1>0, <2>5 DEF Sound, SockOK
    <3> QED BY <3>1, CutKeeps
  <2>14. PICK n \in 0 .. Len(f.data) :
              /\ Len(g.data) = n
              /\ \A i \in 1 .. n : g.data[i] = f.data[i]
              /\ g \in Tcps
              /\ g.host = f.host /\ g.hport = f.hport /\ g.port = f.port /\ g.seq = f.seq
              /\ g.flags = f.flags
    BY <2>13
  <2>15. Len(f.data) \in Nat /\ f.data \in Seq(Nat)
    BY <1>0, FramesDiffer
  <2>16. "SYN" \in f.flags => g.data = <<>>
    <3>1. SUFFICES ASSUME "SYN" \in f.flags PROVE g.data = <<>>
      OBVIOUS
    <3>2. f.data = <<>>
      BY <3>1 DEF Piece
    <3>3. Len(g.data) = 0 /\ g.data \in Seq(Nat)
      BY <2>14, <3>2, FramesDiffer
    <3> QED BY <3>3
  <2>17. Piece(k4, g)
    <3>1. Conn(g) = Conn(f)
      BY <2>14 DEF Conn
    <3>2. \A i \in 1 .. Len(g.data) : g.data[i] = g.seq + i - 1
      BY <2>14, <2>15 DEF Piece
    <3>3. "FIN" \in g.flags => g.seq = Stream + 1 \/ Conn(g) \in k4.hist.finned
      BY <2>11, <2>14, <3>1
    <3> QED BY <2>14, <2>16, <3>2, <3>3 DEF Piece
  <2>18. InOK(k4, e, g)
    <3>1. Later(k.hist, k4.hist)
      BY <2>12 DEF Turn
    <3>2. InOK(k4, e, f)
      BY <3>1, InLater
    <3>3. f.kind = "tcp" /\ g.kind = "tcp"
      BY <1>0, <2>14, FramesDiffer
    <3> QED BY <2>14, <3>2, <3>3 DEF InOK, Conn
  <2> QED BY <2>6, <2>12, <2>14, <2>17, <2>18
<1> QED BY <1>1, <1>2, <1>3

-----------------------------------------------------------------------------
(* The sockets of the table take a segment in turn.                         *)

\* The same for the sockets' turns with a segment.
FoldTakes(k, s) == CHOOSE g : g = [S \in SUBSET (DOMAIN s) |->
    IF S = {} THEN k ELSE Take(g[S \ {Max(S)}], s[Max(S)])]

\* it[i] is what the first i sockets make of the segment.
FoldsTakes(it, k, s, n) ==
    /\ it[{}] = k
    /\ \A S \in SUBSET (1 .. n) : S # {} => it[S] = Take(it[S \ {Max(S)}], s[Max(S)])

\* The fold is its own recursion.
LEMMA FoldTakesIs ==
    ASSUME NEW k, NEW s, NEW n \in Nat, DOMAIN s = 1 .. n
    PROVE  FoldsTakes(FoldTakes(k, s), k, s, n)
<1> DEFINE Is(g, m) == g = [S \in SUBSET (1 .. m) |->
                 IF S = {} THEN k ELSE Take(g[S \ {Max(S)}], s[Max(S)])]
           T == {m \in 0 .. n : \E g : Is(g, m)}
<1>1. 0 \in T
  <2> DEFINE g0 == [S \in SUBSET (1 .. 0) |-> k]
  <2>1. \A S \in SUBSET (1 .. 0) : S = {}
    OBVIOUS
  <2>2. g0 = [S \in SUBSET (1 .. 0) |->
                 IF S = {} THEN k ELSE Take(g0[S \ {Max(S)}], s[Max(S)])]
    BY <2>1, Zenon
  <2> QED BY <2>2
<1>2. ASSUME NEW m \in 0 .. n - 1, m \in T PROVE m + 1 \in T
  <2>1. PICK g : Is(g, m)
    BY <1>2
  <2> DEFINE h == [S \in SUBSET (1 .. m + 1) |->
                 IF m + 1 \in S THEN Take(g[S \ {m + 1}], s[m + 1]) ELSE g[S]]
             body == [S \in SUBSET (1 .. m + 1) |->
                 IF S = {} THEN k ELSE Take(h[S \ {Max(S)}], s[Max(S)])]
  <2>2. ASSUME NEW S \in SUBSET (1 .. m + 1) PROVE h[S] = body[S]
    <3>1. CASE m + 1 \in S
      <4>1. Max(S) = m + 1
        BY <3>1, MaxIsLast
      <4>2. S \ {m + 1} \in SUBSET (1 .. m + 1) /\ m + 1 \notin S \ {m + 1} /\ S # {}
        BY <3>1
      <4>3. h[S \ {m + 1}] = g[S \ {m + 1}]
        BY <4>2, Zenon
      <4>4. h[S] = Take(g[S \ {m + 1}], s[m + 1])
        BY <3>1, Zenon
      <4>5. body[S] = Take(h[S \ {Max(S)}], s[Max(S)])
        BY <4>2, Zenon
      <4> QED BY <4>1, <4>3, <4>4, <4>5, Zenon
    <3>2. CASE m + 1 \notin S
      <4>1. S \in SUBSET (1 .. m)
        BY <3>2
      <4>2. h[S] = g[S]
        BY <3>2, Zenon
      <4>3. g[S] = IF S = {} THEN k ELSE Take(g[S \ {Max(S)}], s[Max(S)])
        BY <4>1, <2>1, Zenon
      <4>4. S \ {Max(S)} \in SUBSET (1 .. m + 1) /\ m + 1 \notin S \ {Max(S)}
        BY <3>2, <4>1
      <4>5. h[S \ {Max(S)}] = g[S \ {Max(S)}]
        BY <4>4, Zenon
      <4> QED BY <4>2, <4>3, <4>5, Zenon
    <3> QED BY <3>1, <3>2
  <2>3. h = body
    BY <2>2, Zenon
  <2>4. Is(h, m + 1)
    BY <2>3, Zenon
  <2>5. m + 1 \in 0 .. n
    OBVIOUS
  <2> HIDE DEF Is
  <2> QED BY <2>4, <2>5
<1>3. n \in T
  <2> HIDE DEF T
  <2>1. \A m \in 0 .. n : m \in T
    BY <1>1, <1>2, Climb, Zenon
  <2> QED BY <2>1
<1>4. PICK g : Is(g, n)
  <2> HIDE DEF Is
  <2> QED BY <1>3
<1>5. SUBSET (DOMAIN s) = SUBSET (1 .. n)
  OBVIOUS
<1>6. FoldTakes(k, s) = [S \in SUBSET (1 .. n) |->
          IF S = {} THEN k ELSE Take(FoldTakes(k, s)[S \ {Max(S)}], s[Max(S)])]
  BY <1>4, <1>5, Zenon DEF FoldTakes
<1>7. {} \in SUBSET (1 .. n)
  OBVIOUS
<1> QED BY <1>6, <1>7, Zenon DEF FoldsTakes

\* F[i] is what the first i sockets made of the segment.
RunsTakes(F, k, s, n, out) ==
    F[0] = k /\ F[n] = out /\ \A i \in 1 .. n : F[i] = Take(F[i - 1], s[i])

\* Folding goes through the frames one after another.
LEMMA FoldTakesRuns ==
    ASSUME NEW k, NEW s, NEW n \in Nat, DOMAIN s = 1 .. n
    PROVE  \E F : RunsTakes(F, k, s, n, FoldTakes(k, s)[DOMAIN s])
<1> DEFINE it == FoldTakes(k, s)
           F == [i \in 0 .. n |-> it[1 .. i]]
<1>0. FoldsTakes(it, k, s, n)
  BY FoldTakesIs, Zenon
<1> HIDE DEF it
<1>1. /\ it[{}] = k
      /\ \A S \in SUBSET (1 .. n) : S # {} =>
            it[S] = Take(it[S \ {Max(S)}], s[Max(S)])
  BY <1>0, Zenon DEF FoldsTakes
<1>2. it[1 .. 0] = k
  <2>1. 1 .. 0 = {}
    OBVIOUS
  <2> QED BY <1>1, <2>1, Zenon
<1>3. ASSUME NEW i \in 1 .. n PROVE it[1 .. i] = Take(it[1 .. i - 1], s[i])
  <2>1. 1 .. i \in SUBSET (1 .. n) /\ 1 .. i # {} /\ i - 1 \in Nat /\ i \in 1 .. i
    OBVIOUS
  <2>2. Max(1 .. i) = i
    <3>1. \A S \in SUBSET (1 .. (i - 1) + 1) : (i - 1) + 1 \in S => Max(S) = (i - 1) + 1
      BY <2>1, MaxIsLast
    <3> QED BY <2>1, <3>1
  <2>3. (1 .. i) \ {i} = 1 .. i - 1
    OBVIOUS
  <2>4. it[1 .. i] = Take(it[(1 .. i) \ {Max(1 .. i)}], s[Max(1 .. i)])
    BY <1>1, <2>1, Zenon
  <2> QED BY <2>2, <2>3, <2>4
<1>4. 0 \in 0 .. n /\ n \in 0 .. n /\ \A i \in 1 .. n : i \in 0 .. n /\ i - 1 \in 0 .. n
  OBVIOUS
<1>5. \A i \in 0 .. n : F[i] = it[1 .. i]
  BY Zenon
<1> HIDE DEF F
<1>6. ASSUME NEW i \in 1 .. n PROVE F[i] = Take(F[i - 1], s[i])
  BY <1>3, <1>4, <1>5, Zenon
<1>7. F[0] = k /\ F[n] = it[1 .. n]
  BY <1>2, <1>4, <1>5, Zenon
<1>8. DOMAIN s = 1 .. n
  OBVIOUS
<1>9. RunsTakes(F, k, s, n, it[DOMAIN s])
  BY <1>6, <1>7, <1>8, Zenon DEF RunsTakes
<1> QED BY <1>9, Zenon DEF it


\* handle_tcp gives every socket its turn.
LEMMA TakesRun ==
    ASSUME NEW p
    PROVE  \E F : /\ F[0] = p
                  /\ F[NSock] = FoldLeft(Take, p, [i \in 1 .. NSock |-> i - 1])
                  /\ \A i \in 1 .. NSock : F[i] = Take(F[i - 1], i - 1)
<1> DEFINE s == [i \in 1 .. NSock |-> i - 1]
<1>1. NSock \in Nat
  BY NetAssumption
<1>2. DOMAIN s = 1 .. NSock /\ \A i \in 1 .. NSock : s[i] = i - 1
  OBVIOUS
<1>3. FoldLeft(Take, p, s) = FoldTakes(p, s)[DOMAIN s]
  BY Zenon DEF FoldLeft, MapThenFoldSet, FoldTakes
<1> HIDE DEF s
<1>4. PICK F : RunsTakes(F, p, s, NSock, FoldTakes(p, s)[DOMAIN s])
  BY <1>1, <1>2, FoldTakesRuns, Zenon
<1>5. \A i \in 1 .. NSock : F[i] = Take(F[i - 1], i - 1)
  BY <1>2, <1>4, Zenon DEF RunsTakes
<1>6. F[0] = p /\ F[NSock] = FoldLeft(Take, p, s)
  BY <1>3, <1>4, Zenon DEF RunsTakes
<1> QED BY <1>5, <1>6, Zenon DEF s

-----------------------------------------------------------------------------
(* Each kind of frame.                                                      *)

\* A step that leaves the sockets alone and sends at most a frame that is no segment.
LEMMA PlainTurns ==
    ASSUME NEW k \in Kernels, NEW e, Sound(k, e), NEW k2 \in Kernels, NEW r, NEW p,
           k2.socks = k.socks, k2.hist.log = k.hist.log, Later(k.hist, k2.hist),
           k2.tx = k.tx \/ (\E g \in Frames : k2.tx = Append(k.tx, g) /\ g.kind # "tcp")
    PROVE  Turn(k, k2, e, r, p)
<1>1. \A d \in Fds : SockOK(k2, e, k2.socks[d])
  <2>1. \A s : SockOK(k, e, s) => SockOK(k2, e, s)
    BY SockLater
  <2> QED BY <2>1 DEF Sound
<1>2. Longer(k, k2, e, r, p)
  <2>1. k.tx \in Seq(Frames) /\ Len(k.tx) \in Nat
    BY DEF Kernels
  <2>2. CASE k2.tx = k.tx
    BY <2>1, <2>2 DEF Longer
  <2>3. CASE \E g \in Frames : k2.tx = Append(k.tx, g) /\ g.kind # "tcp"
    <3>1. PICK g \in Frames : k2.tx = Append(k.tx, g) /\ g.kind # "tcp"
      BY <2>3
    <3>2. /\ Len(k2.tx) = Len(k.tx) + 1 /\ k2.tx[Len(k.tx) + 1] = g
          /\ \A i \in 1 .. Len(k.tx) : k2.tx[i] = k.tx[i]
      BY <2>1, <3>1
    <3>3. OutOK(k2, e, g) /\ ~Syn(g)
      BY <3>1 DEF OutOK, Syn
    <3>4. \A i \in Len(k.tx) + 1 .. Len(k2.tx) : k2.tx[i] = g
      BY <2>1, <3>2
    <3> QED BY <2>1, <3>1, <3>2, <3>3, <3>4 DEF Longer
  <2> QED BY <2>2, <2>3
<1>3. \A d \in Fds : Kept(k, k2, d)
  BY DEF Kept
<1> QED BY <1>1, <1>2, <1>3 DEF Turn, Sound

\* The record says that a connection's frames were disturbed.
Mute(k, m) == [k EXCEPT !.hist.muted = @ \cup m]

\* More connections are disturbed: nothing else changes.
LEMMA MuteIs ==
    ASSUME NEW k \in Kernels, NEW m \in SUBSET Conns, NEW k2, k2 = Mute(k, m)
    PROVE  /\ k2 \in Kernels /\ k2.socks = k.socks /\ k2.arp = k.arp /\ k2.tx = k.tx
           /\ k2.hist.log = k.hist.log /\ k2.hist.stored = k.hist.stored
           /\ k2.hist.answered = k.hist.answered /\ k2.hist.finned = k.hist.finned
           /\ k2.hist.muted = k.hist.muted \cup m
<1>1. k.hist \in Hist
  BY DEF Kernels
<1>2. PICK h : h = [k.hist EXCEPT !.muted = @ \cup m]
  OBVIOUS
<1>3. /\ h \in Hist /\ h.log = k.hist.log /\ h.stored = k.hist.stored
      /\ h.answered = k.hist.answered /\ h.finned = k.hist.finned
      /\ h.muted = k.hist.muted \cup m
  BY <1>1, <1>2 DEF Hist
<1>4. k2 = [k EXCEPT !.hist = h]
  BY <1>2 DEF Mute
<1> QED BY <1>3, <1>4 DEF Kernels

\* The hosts are different ones.
LEMMA NamesDiffer ==
    /\ Server # Client /\ Gw \notin Remote /\ Lan \notin Remote /\ None \notin Remote
    /\ Remote \subseteq Hosts /\ Gw \in Hosts /\ Lan \in Hosts /\ None \in Hosts
    /\ Server \in Remote /\ Client \in Remote
BY DEF Server, Client, Gw, Lan, None, Remote, Hosts

\* The connection of a segment that two sockets take.
Shared(k, f) == IF \E a, b \in Takers(k, f) : a # b THEN {Conn(f)} ELSE {}

\* The segment p.f and the kernel's state p.k during handle_tcp.
Under(k, p, e, r, q) ==
    /\ p = [k |-> p.k, f |-> p.f]
    /\ Turn(k, p.k, e, r, q) /\ Piece(p.k, p.f) /\ InOK(p.k, e, p.f)
    /\ p.f.host = r /\ p.f.port = q

\* Every segment that is heard is a piece of the stream.
LEMMA HeardIsPiece ==
    ASSUME NEW k, NEW f \in Heard
    PROVE  Piece(k, f)
<1>1. f \in Tcps /\ f.host \in Remote /\ f.hport = HostPort /\ f.data \in Seq(Nat) /\ f.seq \in Nat
  BY FramesDiffer DEF Heard
<1>2. "FIN" \in f.flags /\ f.data = <<>> => f.seq = Stream + 1
  <2>1. f.data = <<>> => Len(f.data) = 0
    BY <1>1
  <2> QED BY <1>1, <2>1 DEF Heard
<1> QED BY <1>1, <1>2 DEF Heard, Piece

\* What handle_tcp goes through: it records whether several sockets take the segment,
\* and gives each socket its turn.
TcpRun(k, f, k2, e, k1, F) ==
    /\ k1 = Mute(k, Shared(k, f)) /\ k1 \in Kernels /\ Turn(k, k1, e, f.host, f.port)
    /\ F[0] = [k |-> k1, f |-> f] /\ k2 = F[NSock].k
    /\ \A i \in 1 .. NSock : F[i] = Take(F[i - 1], i - 1)
    /\ \A m \in 0 .. NSock : Under(k1, F[m], e, f.host, f.port)

\* A segment, socket by socket.
LEMMA TcpRuns ==
    ASSUME NEW k \in Kernels, NEW e \in Nat, Sound(k, e), conf.gw \in Hosts,
           NEW f \in Heard, InOK(k, e, f), NEW k2, k2 = handle_tcp(k, f)
    PROVE  \E k1, F : TcpRun(k, f, k2, e, k1, F)
<1>1. f \in Tcps /\ f.host \in Hosts /\ f.port \in Nat
  BY FramesDiffer DEF Heard
<1>2. PICK k1 : k1 = Mute(k, Shared(k, f))
  OBVIOUS
<1>3. Shared(k, f) \in SUBSET Conns
  BY <1>1 DEF Shared, Conn, Conns
<1>4. Turn(k, k1, e, f.host, f.port) /\ k1 \in Kernels /\ Sound(k1, e) /\ Later(k.hist, k1.hist)
  <2>1. /\ k1 \in Kernels /\ k1.socks = k.socks /\ k1.tx = k.tx
        /\ k1.hist.log = k.hist.log /\ k1.hist.stored = k.hist.stored
        /\ k1.hist.answered = k.hist.answered /\ k1.hist.finned = k.hist.finned
        /\ k1.hist.muted = k.hist.muted \cup Shared(k, f)
    BY <1>2, <1>3, MuteIs
  <2>2. Later(k.hist, k1.hist)
    BY <2>1 DEF Later
  <2>3. Turn(k, k1, e, f.host, f.port)
    BY <2>1, <2>2, PlainTurns
  <2> QED BY <2>1, <2>2, <2>3 DEF Turn
<1>5. PICK p : p = [k |-> k1, f |-> f]
  OBVIOUS
<1>6. PICK F : /\ F[0] = p
               /\ F[NSock] = FoldLeft(Take, p, [i \in 1 .. NSock |-> i - 1])
               /\ \A i \in 1 .. NSock : F[i] = Take(F[i - 1], i - 1)
  BY TakesRun, Zenon
<1>7. k2 = F[NSock].k
  BY <1>2, <1>5, <1>6, Zenon DEF handle_tcp, Mute, Shared
<1> DEFINE T == {m \in 0 .. NSock : Under(k1, F[m], e, f.host, f.port)}
<1>8. NSock \in Nat
  BY NetAssumption
<1>9. 0 \in T
  <2>1. InOK(k1, e, f) /\ Piece(k1, f)
    BY <1>4, InLater, HeardIsPiece
  <2>2. Turn(k1, k1, e, f.host, f.port)
    BY <1>4, TurnStays
  <2>3. Under(k1, p, e, f.host, f.port)
    BY <1>5, <2>1, <2>2 DEF Under
  <2> QED BY <1>6, <1>8, <2>3
<1>10. ASSUME NEW m \in 0 .. NSock - 1, m \in T PROVE m + 1 \in T
  <2>1. Under(k1, F[m], e, f.host, f.port)
    BY <1>10
  <2>2. m + 1 \in 1 .. NSock /\ (m + 1) - 1 = m /\ m \in Fds /\ m + 1 \in 0 .. NSock
    BY <1>8 DEF Fds
  <2>3. F[m + 1] = Take(F[m], m)
    BY <1>6, <2>2
  <2>4. PICK a, b, c, d : a = F[m] /\ b = a.k /\ c = a.f /\ d = F[m + 1]
    OBVIOUS
  <2>5. /\ a = [k |-> b, f |-> c] /\ Turn(k1, b, e, f.host, f.port) /\ Piece(b, c) /\ InOK(b, e, c)
        /\ c.host = f.host /\ c.port = f.port
    BY <2>1, <2>4 DEF Under
  <2>6. b \in Kernels /\ Sound(b, e)
    BY <2>5 DEF Turn
  <2>7. d = Take(a, m)
    BY <2>3, <2>4
  <2>8. /\ Turn(b, d.k, e, c.host, c.port) /\ Piece(d.k, d.f) /\ InOK(d.k, e, d.f)
        /\ d.f.host = c.host /\ d.f.port = c.port
        /\ d = [k |-> d.k, f |-> d.f]
    BY <2>2, <2>4, <2>5, <2>6, <2>7, TakeTurns
  <2>9. Turn(k1, d.k, e, f.host, f.port)
    BY <1>4, <2>5, <2>8, TurnTrans
  <2>10. Under(k1, d, e, f.host, f.port)
    BY <2>5, <2>8, <2>9 DEF Under
  <2> QED BY <2>2, <2>4, <2>10
<1>11. \A m \in 0 .. NSock : m \in T
  <2> HIDE DEF T
  <2> QED BY <1>8, <1>9, <1>10, Climb, Zenon
<1>12. \A m \in 0 .. NSock : Under(k1, F[m], e, f.host, f.port)
  BY <1>11
<1>13. F[0] = [k |-> k1, f |-> f]
  BY <1>5, <1>6
<1> HIDE DEF T
<1>14. TcpRun(k, f, k2, e, k1, F)
  BY <1>2, <1>4, <1>6, <1>7, <1>12, <1>13, Zenon DEF TcpRun
<1> QED BY <1>14

\* A segment is a turn of its connection.
LEMMA TcpTurns ==
    ASSUME NEW k \in Kernels, NEW e \in Nat, Sound(k, e), conf.gw \in Hosts,
           NEW f \in Heard, InOK(k, e, f), NEW k2, k2 = handle_tcp(k, f)
    PROVE  Turn(k, k2, e, f.host, f.port)
<1>1. PICK k1, F : TcpRun(k, f, k2, e, k1, F)
  BY TcpRuns
<1>2. NSock \in 0 .. NSock
  BY NetAssumption
<1>3. Under(k1, F[NSock], e, f.host, f.port) /\ k2 = F[NSock].k /\ Turn(k, k1, e, f.host, f.port)
  BY <1>1, <1>2 DEF TcpRun
<1>4. Turn(k1, k2, e, f.host, f.port)
  BY <1>3 DEF Under
<1> QED BY <1>3, <1>4, TurnTrans

\* A datagram is a turn of no connection.
LEMMA UdpTurns ==
    ASSUME NEW k \in Kernels, NEW e \in Nat, Sound(k, e),
           NEW f \in Udps, f.host \notin Remote, NEW k2, k2 = handle_udp(k, f)
    PROVE  Turn(k, k2, e, f.host, f.port)
<1> DEFINE Got(s) == s.rbuf \o SubSeq(f.data, 1, Lo(Len(f.data), BufSize - Len(s.rbuf)))
           Hit(s) == ~(~s.used \/ s.type # "udp" \/ s.lport # f.port)
<1>1. k.socks \in [Fds -> Sock] /\ f.host \in Hosts /\ f.data \in Seq(Nat) /\ Len(f.data) \in Nat
  BY DEF Kernels, Udps, Bytes
<1>2. PICK sk : sk = [fd \in Fds |-> LET s == k.socks[fd] IN
             IF ~Hit(s) THEN s
             ELSE [s EXCEPT !.rbuf = Got(s), !.rip = f.host, !.rport = 53]]
  OBVIOUS
<1>3. k2 = [k EXCEPT !.socks = sk]
  BY <1>2, Zenon DEF handle_udp
<1>4. ASSUME NEW d \in Fds
      PROVE  /\ sk[d] \in Sock /\ SockOK(k, e, sk[d])
             /\ sk[d].type = k.socks[d].type
             /\ \/ sk[d] = k.socks[d]
                \/ Has(sk[d], f.host, f.port) /\ k.socks[d].rip \notin Remote
  <2>1. PICK s : s = k.socks[d]
    OBVIOUS
  <2>2. s \in Sock /\ SockOK(k, e, s)
    BY <1>1, <2>1 DEF Sound
  <2>3. CASE ~Hit(s)
    <3>1. sk[d] = s
      BY <1>2, <2>1, <2>3, Zenon
    <3> QED BY <2>1, <2>2, <3>1
  <2>4. CASE Hit(s)
    <3>1. PICK b : b = Got(s)
      OBVIOUS
    <3>2. sk[d] = [s EXCEPT !.rbuf = b, !.rip = f.host, !.rport = 53]
      BY <1>2, <2>1, <2>4, <3>1, Zenon
    <3>3. b \in Seq(Nat) /\ Len(b) <= BufSize
      <4>1. PICK o : o = s.rbuf
        OBVIOUS
      <4>2. o \in Seq(Nat) /\ Len(o) \in Nat /\ Len(o) <= BufSize /\ BufSize \in Nat
        BY <2>2, <4>1, NetAssumption DEF Sock, SockOK, Bytes
      <4>3. PICK n : n = Lo(Len(f.data), BufSize - Len(o))
        OBVIOUS
      <4>4. n \in 0 .. Len(f.data) /\ Len(o) + n <= BufSize
        <5>1. PICK x \in Nat, y \in Nat : x = Len(f.data) /\ y = Len(o)
          BY <1>1, <4>2
        <5>2. n = Lo(x, BufSize - y) /\ y <= BufSize
          BY <4>2, <4>3, <5>1
        <5>3. n \in 0 .. x /\ y + n <= BufSize
          BY <4>2, <5>2 DEF Lo
        <5> QED BY <5>1, <5>3
      <4>5. PICK c : c = SubSeq(f.data, 1, n)
        OBVIOUS
      <4>6. c \in Seq(Nat) /\ Len(c) = n
        BY <1>1, <4>4, <4>5
      <4>7. b = o \o c
        BY <3>1, <4>1, <4>3, <4>5
      <4>8. b \in Seq(Nat) /\ Len(b) = Len(o) + Len(c)
        <5>1. o \in Seq(Nat) /\ c \in Seq(Nat)
          BY <4>2, <4>6
        <5> QED BY <4>7, <5>1
      <4>9. Len(b) = Len(o) + n
        BY <4>6, <4>8
      <4> QED BY <4>4, <4>8, <4>9
    <3>4. s.rip \notin Remote /\ ~s.connected
      BY <2>2, <2>4 DEF SockOK
    <3>5. /\ sk[d] \in Sock /\ sk[d].rip = f.host /\ sk[d].lport = f.port
          /\ sk[d].rbuf = b /\ sk[d].connected = s.connected /\ sk[d].listening = s.listening
          /\ sk[d].lport = s.lport /\ sk[d].type = s.type /\ sk[d].used = s.used
      <4>1. s.lport = f.port
        BY <2>4
      <4> HIDE DEF Hit, Got
      <4>2. PICK t, h : t = sk[d] /\ h = f.host
        OBVIOUS
      <4>3. t = [s EXCEPT !.rbuf = b, !.rip = h, !.rport = 53] /\ h \in Hosts /\ b \in Bytes
        BY <1>1, <3>2, <3>3, <4>2 DEF Bytes
      <4>4. /\ t \in Sock /\ t.rip = h /\ t.lport = s.lport /\ t.rbuf = b
            /\ t.connected = s.connected /\ t.listening = s.listening /\ t.type = s.type /\ t.used = s.used
        BY <2>2, <4>3 DEF Sock
      <4> QED BY <4>1, <4>2, <4>4
    <3>6. SockOK(k, e, sk[d])
      BY <2>2, <3>3, <3>4, <3>5 DEF SockOK
    <3>7. Has(sk[d], f.host, f.port)
      BY <3>5 DEF Has
    <3> QED BY <2>1, <3>4, <3>5, <3>6, <3>7
  <2> QED BY <2>3, <2>4
<1> HIDE DEF Got, Hit
<1>5. sk \in [Fds -> Sock]
  <2>1. sk = [fd \in Fds |-> sk[fd]]
    BY <1>2, Zenon
  <2> QED BY <1>4, <2>1
<1>6. k2 \in Kernels /\ k2.socks = sk /\ k2.tx = k.tx /\ k2.hist = k.hist
  BY <1>3, <1>5 DEF Kernels
<1>7. \A d \in Fds : SockOK(k2, e, k2.socks[d])
  BY <1>4, <1>6 DEF SockOK
<1>8. Longer(k, k2, e, f.host, f.port)
  <2>1. Len(k.tx) \in Nat
    BY DEF Kernels
  <2> QED BY <1>6, <2>1 DEF Longer
<1>9. Later(k.hist, k2.hist)
  BY <1>6 DEF Later
<1>10. \A d \in Fds : Kept(k, k2, d) \/ Has(k2.socks[d], f.host, f.port)
  BY <1>4, <1>6 DEF Kept
<1>11. \A d \in Fds : k.socks[d].rip = Server => k2.socks[d] = k.socks[d]
  BY <1>4, <1>6, NamesDiffer
<1>12. \A d \in Fds : k2.socks[d].type = k.socks[d].type
  BY <1>4, <1>6
<1> QED BY <1>6, <1>7, <1>8, <1>9, <1>10, <1>11, <1>12 DEF Turn, Sound

\* Handling a frame is a step of its connection.
LEMMA HandleTurns ==
    ASSUME NEW k \in Kernels, NEW e \in Nat, Sound(k, e), conf.gw \in Hosts,
           NEW f \in Heard \cup Near, InOK(k, e, f), NEW k2, k2 = handle_frame(k, f)
    PROVE  Turn(k, k2, e, f.host, f.port)
<1>1. CASE f.kind = "tcp"
  <2>1. f \in Heard
    BY <1>1 DEF Near, Udps, Others
  <2>2. k2 = handle_tcp(k, f)
    BY <1>1 DEF handle_frame
  <2> QED BY <2>1, <2>2, TcpTurns
<1>2. CASE f.kind = "udp"
  <2>1. f \in Udps /\ f.host \notin Remote
    BY <1>2, NamesDiffer DEF Near, Heard, Tcps, Others
  <2>2. k2 = handle_udp(k, f)
    BY <1>2 DEF handle_frame
  <2> QED BY <2>1, <2>2, UdpTurns
<1>3. CASE f \in Others
  <2>1. f.host \in Hosts /\ f.port = 0
    BY <1>3 DEF Others
  <2>2. CASE f.kind = "ask"
    <3>1. k2 = eth_send(k, Arp("reply", f.host))
      BY <2>2 DEF handle_frame
    <3>2. PICK g : g = Arp("reply", f.host)
      OBVIOUS
    <3>3. /\ g \in Others /\ k2 \in Kernels
          /\ k2 = [socks |-> k.socks, arp |-> k.arp, hist |-> k.hist, tx |-> Append(k.tx, g)]
      BY <2>1, <3>1, <3>2, ArpSends
    <3>4. g \in Frames /\ g.kind # "tcp"
      BY <3>3 DEF Frames, Others
    <3>5. Later(k.hist, k2.hist)
      BY <3>3 DEF Later
    <3> QED BY <3>3, <3>4, <3>5, PlainTurns
  <2>3. CASE f.kind = "reply"
    <3>1. k2 = [k EXCEPT !.arp = f.host]
      BY <2>3 DEF handle_frame
    <3>2. k2 \in Kernels /\ k2.socks = k.socks /\ k2.tx = k.tx /\ k2.hist = k.hist
      BY <2>1, <3>1 DEF Kernels
    <3>3. Later(k.hist, k2.hist)
      BY <3>2 DEF Later
    <3> QED BY <3>2, <3>3, PlainTurns
  <2>4. CASE f.kind = "ping"
    <3>1. PICK p : p = [f EXCEPT !.kind = "pong"]
      OBVIOUS
    <3>2. k2 = ip_send(k, p)
      BY <2>4, <3>1 DEF handle_frame, handle_icmp
    <3>3. p \in Frames /\ p.kind # "tcp"
      BY <1>3, <3>1 DEF Others, Frames
    <3>4. PICK g \in Frames, k3 \in Kernels, m \in {k.hist.muted, k.hist.muted \cup {Conn(p)}} :
              /\ k3 = ip_send(k, p)
              /\ k3 = [socks |-> k.socks, arp |-> k.arp, tx |-> Append(k.tx, g),
                       hist |-> [k.hist EXCEPT !.muted = m]]
              /\ (g = p /\ m = k.hist.muted) \/ (g.kind = "ask" /\ m = k.hist.muted \cup {Conn(p)})
      BY <3>3, IpSends
    <3>5. /\ k2 \in Kernels /\ k2.socks = k.socks /\ k2.tx = Append(k.tx, g) /\ g.kind # "tcp"
          /\ k2.hist = [k.hist EXCEPT !.muted = m]
      BY <3>2, <3>3, <3>4
    <3>6. k2.hist.log = k.hist.log /\ Later(k.hist, k2.hist)
      BY <3>4, <3>5 DEF Later, Kernels, Hist
    <3> QED BY <3>5, <3>6, PlainTurns
  <2>5. f.kind \in {"ask", "reply", "ping"}
    BY <1>3 DEF Others, Near, Heard, Tcps
  <2> QED BY <2>2, <2>3, <2>4, <2>5
<1>4. f \in Tcps \/ f \in Udps \/ f \in Others
  BY DEF Heard, Near
<1>5. (f \in Tcps => f.kind = "tcp") /\ (f \in Udps => f.kind = "udp")
  BY DEF Tcps, Udps
<1> QED BY <1>1, <1>2, <1>3, <1>4, <1>5

-----------------------------------------------------------------------------
(* The peers, and polling.                                                  *)

\* The type of the remote hosts' state.
Peers == [Remote -> [st: {"closed", "syn", "open", "down"}, port: Nat, una: 0 .. Stream,
                     fly: BOOLEAN]]
\* What holds of a remote host: what it was told has arrived is stored.
PeerOK(k, e, r, s) ==
    /\ s.st \in {"closed", "down"} => s.port = 0
    /\ s.st = "syn" => r = Client
    /\ s.st \in {"closed", "down", "syn"} => s.una = 0 /\ ~s.fly
    /\ s.st \in {"syn", "open"} => Given(e, r, s.port) /\ <<r, s.port>> \in k.hist.answered
    /\ Told(k.hist, r, s.port, s.una + 1)
\* Sockets, frames and peers agree.
Talk(k, q, pr, e) ==
    /\ Sound(k, e)
    /\ \A i \in 1 .. Len(q) : InOK(k, e, q[i])
    /\ \A i \in 1 .. Len(k.tx) : OutOK(k, e, k.tx[i])
    /\ \A r \in Remote : PeerOK(k, e, r, pr[r])
\* The SYNs under way go up in their ports, from the server's last one.
InTurn(k, pr) ==
    /\ \A i \in 1 .. Len(k.tx) : Syn(k.tx[i]) => pr[Server].port <= k.tx[i].port
    /\ \A i, j \in 1 .. Len(k.tx) : i < j /\ Syn(k.tx[i]) /\ Syn(k.tx[j]) =>
            k.tx[i].port <= k.tx[j].port

\* What a step of this machine may do to the kernel's state when no SYN goes out.
Poll(k, k2, e) ==
    /\ k2 \in Kernels /\ Sound(k2, e) /\ Later(k.hist, k2.hist)
    /\ Len(k.tx) <= Len(k2.tx)
    /\ \A i \in 1 .. Len(k.tx) : k2.tx[i] = k.tx[i]
    /\ \A i \in Len(k.tx) + 1 .. Len(k2.tx) : OutOK(k2, e, k2.tx[i]) /\ ~Syn(k2.tx[i])
\* A socket that speaks to the server goes on speaking to it, and keeps its kind.
Steady(k, k2) == \A d \in Fds :
    /\ k2.socks[d].type = k.socks[d].type
    /\ k.socks[d].rip = Server =>
          k2.socks[d].rip = Server /\ k2.socks[d].lport = k.socks[d].lport

\* A turn of a connection is a step of the machine's.
LEMMA TurnPolls ==
    ASSUME NEW k, NEW k2, NEW e, NEW r, NEW p, Turn(k, k2, e, r, p)
    PROVE  Poll(k, k2, e) /\ Steady(k, k2)
BY DEF Turn, Poll, Longer, Steady

\* Doing nothing is one.
LEMMA PollStays ==
    ASSUME NEW k \in Kernels, NEW e, Sound(k, e)
    PROVE  Poll(k, k, e) /\ Steady(k, k)
<1>1. Len(k.tx) \in Nat
  BY DEF Kernels
<1> QED BY <1>1 DEF Poll, Later, Steady

\* Two are one.
LEMMA PollTrans ==
    ASSUME NEW k \in Kernels, NEW k2, NEW k3, NEW e, Poll(k, k2, e), Poll(k2, k3, e)
    PROVE  Poll(k, k3, e)
<1>1. Len(k.tx) \in Nat /\ Len(k2.tx) \in Nat /\ Len(k3.tx) \in Nat
  BY DEF Poll, Kernels
<1>2. Later(k.hist, k3.hist)
  BY DEF Poll, Later
<1>3. \A f : OutOK(k2, e, f) => OutOK(k3, e, f)
  <2>1. Later(k2.hist, k3.hist)
    BY DEF Poll
  <2> QED BY <2>1, OutLater
<1>4. \A i \in Len(k.tx) + 1 .. Len(k2.tx) : k3.tx[i] = k2.tx[i]
  BY <1>1 DEF Poll
<1>5. ASSUME NEW i \in Len(k.tx) + 1 .. Len(k3.tx)
      PROVE  OutOK(k3, e, k3.tx[i]) /\ ~Syn(k3.tx[i])
  <2>1. CASE i \in Len(k.tx) + 1 .. Len(k2.tx)
    BY <1>3, <1>4, <2>1 DEF Poll
  <2>2. CASE i \in Len(k2.tx) + 1 .. Len(k3.tx)
    BY <2>2 DEF Poll
  <2> QED BY <1>1, <2>1, <2>2
<1>6. Len(k.tx) <= Len(k3.tx) /\ \A i \in 1 .. Len(k.tx) : k3.tx[i] = k.tx[i]
  BY <1>1 DEF Poll
<1> QED BY <1>2, <1>5, <1>6 DEF Poll

\* The frames that may wait to be handled.
Queue == Seq(Heard \cup Near)

\* A round of polling.
LEMMA PolledPolls ==
    ASSUME NEW k \in Kernels, NEW e \in Nat, Sound(k, e), conf.gw \in Hosts, rx \in Queue,
           \A i \in 1 .. Len(rx) : InOK(k, e, rx[i]), NEW k2, k2 = Polled(k)
    PROVE  Poll(k, k2, e) /\ Steady(k, k2)
<1>1. PollMax \in Nat
  BY NetAssumption
<1>2. PICK n : n = Lo(PollMax, Len(rx))
  OBVIOUS
<1>3. /\ n \in 0 .. Len(rx)
      /\ \E F : /\ F[0] = k /\ F[n] = Polled(k)
                /\ \A i \in 1 .. n : F[i] = handle_frame(F[i - 1], rx[i])
  <2>1. rx \in Seq(Heard \cup Near)
    BY Zenon DEF Queue
  <2>2. LET j == Lo(PollMax, Len(rx))
        IN  /\ j \in 0 .. Len(rx)
            /\ \E F : /\ F[0] = k /\ F[j] = Polled(k)
                      /\ \A i \in 1 .. j : F[i] = handle_frame(F[i - 1], rx[i])
    BY <1>1, <2>1, PolledRuns, Zenon
  <2> QED BY <1>2, <2>2, Zenon
<1>4. PICK F : /\ F[0] = k /\ F[n] = Polled(k)
               /\ \A i \in 1 .. n : F[i] = handle_frame(F[i - 1], rx[i])
  BY <1>3
<1>5. Len(rx) \in Nat /\ n \in Nat
  BY <1>3 DEF Queue
<1> DEFINE T == {m \in 0 .. n : Poll(k, F[m], e) /\ Steady(k, F[m])}
<1>6. 0 \in T
  BY <1>4, <1>5, PollStays
<1>7. ASSUME NEW m \in 0 .. n - 1, m \in T PROVE m + 1 \in T
  <2>1. m + 1 \in 1 .. n /\ (m + 1) - 1 = m /\ m + 1 \in 1 .. Len(rx) /\ m + 1 \in 0 .. n
    BY <1>3, <1>5
  <2>2. PICK a, b, f : a = F[m] /\ b = F[m + 1] /\ f = rx[m + 1]
    OBVIOUS
  <2>3. b = handle_frame(a, f)
    BY <1>4, <2>1, <2>2
  <2>4. Poll(k, a, e) /\ Steady(k, a)
    BY <1>7, <2>2
  <2>5. a \in Kernels /\ Sound(a, e) /\ Later(k.hist, a.hist)
    BY <2>4 DEF Poll
  <2>6. f \in Heard \cup Near
    BY <2>1, <2>2 DEF Queue
  <2>7. InOK(a, e, f)
    <3>1. InOK(k, e, f)
      BY <2>1, <2>2
    <3> QED BY <2>5, <3>1, InLater
  <2>8. Turn(a, b, e, f.host, f.port)
    BY <2>3, <2>5, <2>6, <2>7, HandleTurns
  <2>9. Poll(a, b, e) /\ Steady(a, b)
    BY <2>8, TurnPolls
  <2>10. Poll(k, b, e)
    BY <2>4, <2>9, PollTrans
  <2>11. Steady(k, b)
    BY <2>4, <2>9 DEF Steady
  <2> QED BY <2>1, <2>2, <2>10, <2>11
<1>8. \A m \in 0 .. n : m \in T
  <2> HIDE DEF T
  <2> QED BY <1>5, <1>6, <1>7, Climb, Zenon
<1>9. n \in 0 .. n
  BY <1>5
<1> QED BY <1>4, <1>8, <1>9

\* What holds of a peer goes on to hold as the record grows.
LEMMA PeerLater ==
    ASSUME NEW k, NEW k2, Later(k.hist, k2.hist), NEW e, NEW r, NEW s, PeerOK(k, e, r, s)
    PROVE  PeerOK(k2, e, r, s)
<1>1. Told(k2.hist, r, s.port, s.una + 1)
  BY ToldLater DEF PeerOK
<1> QED BY <1>1 DEF PeerOK, Later

\* The conversation goes on when this machine has done something, and when frames
\* have left the queue.
LEMMA TalkGoesOn ==
    ASSUME NEW k \in Kernels, NEW k2, NEW e, NEW q, NEW q2, NEW pr, Talk(k, q, pr, e), InTurn(k, pr),
           Poll(k, k2, e), \A i \in 1 .. Len(q2) : \E j \in 1 .. Len(q) : q2[i] = q[j]
    PROVE  Talk(k2, q2, pr, e) /\ InTurn(k2, pr)
<1>1. Later(k.hist, k2.hist) /\ k2 \in Kernels /\ Len(k.tx) \in Nat /\ Len(k2.tx) \in Nat
  BY DEF Poll, Kernels
<1>2. ASSUME NEW i \in 1 .. Len(q2) PROVE InOK(k2, e, q2[i])
  <2>1. InOK(k, e, q2[i])
    BY DEF Talk
  <2> QED BY <1>1, <2>1, InLater
<1>3. ASSUME NEW i \in 1 .. Len(k2.tx) PROVE OutOK(k2, e, k2.tx[i])
  <2>1. CASE i \in 1 .. Len(k.tx)
    <3>1. OutOK(k, e, k2.tx[i])
      BY <2>1 DEF Talk, Poll
    <3> QED BY <1>1, <3>1, OutLater
  <2>2. CASE i \in Len(k.tx) + 1 .. Len(k2.tx)
    BY <2>2 DEF Poll
  <2> QED BY <1>1, <2>1, <2>2
<1>4. \A r \in Remote : PeerOK(k2, e, r, pr[r])
  BY <1>1, PeerLater DEF Talk
<1>5. Sound(k2, e)
  BY DEF Poll
<1>6. \A i \in 1 .. Len(k2.tx) : Syn(k2.tx[i]) => i \in 1 .. Len(k.tx) /\ k2.tx[i] = k.tx[i]
  <2>1. \A i \in 1 .. Len(k2.tx) : i \in 1 .. Len(k.tx) \/ i \in Len(k.tx) + 1 .. Len(k2.tx)
    BY <1>1
  <2> QED BY <2>1 DEF Poll
<1>7. InTurn(k2, pr)
  BY <1>6 DEF InTurn
<1> QED BY <1>2, <1>3, <1>4, <1>5, <1>7 DEF Talk

\* More ephemeral ports given out.
LEMMA TalkLonger ==
    ASSUME NEW k \in Kernels, NEW q \in Queue, NEW pr \in Peers, NEW e \in Nat, NEW e2 \in Nat, e <= e2, Talk(k, q, pr, e)
    PROVE  Talk(k, q, pr, e2)
<1>1. \A r, p : p \in Nat /\ Given(e, r, p) => Given(e2, r, p)
  BY DEF Given, FirstEphemeral
<1>2. ASSUME NEW d \in Fds PROVE SockOK(k, e2, k.socks[d])
  <2>1. k.socks[d].lport \in Nat /\ SockOK(k, e, k.socks[d])
    BY DEF Kernels, Sock, Talk, Sound
  <2> QED BY <1>1, <2>1 DEF SockOK
<1>3. ASSUME NEW i \in 1 .. Len(q) PROVE InOK(k, e2, q[i])
  <2>1. q[i] \in Heard \cup Near /\ InOK(k, e, q[i])
    BY DEF Queue, Talk
  <2>2. q[i].port \in Nat
    BY <2>1 DEF Heard, Near, Tcps, Udps, Others
  <2> QED BY <1>1, <2>1, <2>2 DEF InOK
<1>4. ASSUME NEW i \in 1 .. Len(k.tx) PROVE OutOK(k, e2, k.tx[i])
  <2>1. k.tx[i] \in Frames /\ OutOK(k, e, k.tx[i])
    BY DEF Kernels, Talk
  <2>2. k.tx[i].port \in Nat
    BY <2>1 DEF Frames, Tcps, Udps, Others
  <2> QED BY <1>1, <2>1, <2>2 DEF OutOK
<1>5. ASSUME NEW r \in Remote PROVE PeerOK(k, e2, r, pr[r])
  <2>1. pr[r].port \in Nat /\ PeerOK(k, e, r, pr[r])
    BY DEF Peers, Talk
  <2> QED BY <1>1, <2>1 DEF PeerOK
<1> QED BY <1>2, <1>3, <1>4, <1>5 DEF Talk, Sound

\* One socket rewritten by a call, with at most a frame that is no SYN.
LEMMA CallPolls ==
    ASSUME NEW k \in Kernels, NEW k2, NEW fd \in Fds, NEW e, Sound(k, e),
           Base(k, k2, fd), Later(k.hist, k2.hist), SockOK(k2, e, k2.socks[fd]),
           k2.tx = k.tx \/ (\E g \in Frames : k2.tx = Append(k.tx, g) /\ OutOK(k2, e, g) /\ ~Syn(g))
    PROVE  Poll(k, k2, e)
<1>1. k.tx \in Seq(Frames) /\ Len(k.tx) \in Nat /\ k2 \in Kernels
  BY DEF Kernels, Base
<1>2. ASSUME NEW d \in Fds PROVE SockOK(k2, e, k2.socks[d])
  <2>1. SockOK(k2, e, k.socks[d])
    BY SockLater DEF Sound
  <2> QED BY <2>1 DEF Base
<1>3. /\ Len(k.tx) <= Len(k2.tx)
      /\ \A i \in 1 .. Len(k.tx) : k2.tx[i] = k.tx[i]
      /\ \A i \in Len(k.tx) + 1 .. Len(k2.tx) : OutOK(k2, e, k2.tx[i]) /\ ~Syn(k2.tx[i])
  <2>2. CASE k2.tx = k.tx
    BY <1>1, <2>2
  <2>3. CASE \E g \in Frames : k2.tx = Append(k.tx, g) /\ OutOK(k2, e, g) /\ ~Syn(g)
    <3>1. PICK g \in Frames : k2.tx = Append(k.tx, g) /\ OutOK(k2, e, g) /\ ~Syn(g)
      BY <2>3
    <3>2. /\ Len(k2.tx) = Len(k.tx) + 1 /\ k2.tx[Len(k.tx) + 1] = g
          /\ \A i \in 1 .. Len(k.tx) : k2.tx[i] = k.tx[i]
      BY <1>1, <3>1
    <3>4. \A i \in Len(k.tx) + 1 .. Len(k2.tx) : k2.tx[i] = g
      BY <1>1, <3>2
    <3> QED BY <1>1, <3>1, <3>2, <3>4
  <2> QED BY <2>2, <2>3
<1> QED BY <1>1, <1>2, <1>3 DEF Poll, Sound

\* A segment of a socket whose acknowledgement was checked, as a call sends it.
LEMMA SentIsOut ==
    ASSUME NEW k, NEW k2, NEW e, NEW s, NEW fl, Sent(k, k2, s, fl), "ACK" \in fl \/ s.ack = 0,
           "ACK" \in fl \/ fl # {"SYN"},
           s.rip \in Remote => Given(e, s.rip, s.lport) /\ Told(k2.hist, s.rip, s.lport, s.ack)
    PROVE  \E g \in Frames : k2.tx = Append(k.tx, g) /\ OutOK(k2, e, g) /\ ~Syn(g)
<1>1. PICK g \in Frames :
        /\ k2.tx = Append(k.tx, g)
        /\ \/ /\ g \in Tcps /\ g.host = s.rip /\ g.port = s.lport /\ g.ack = s.ack /\ g.flags = fl
           \/ g.kind = "ask"
  BY DEF Sent
<1>2. fl # {"SYN"}
  OBVIOUS
<1>3. OutOK(k2, e, g) /\ ~Syn(g)
  BY <1>1, <1>2 DEF OutOK, Syn
<1> QED BY <1>1, <1>3

-----------------------------------------------------------------------------
(* The order of a stream: what makes a connection good, and keeps it so.    *)

\* A frame with data of a connection; a client's SYN.
Bears(f, r, p) == Of(f, r, p) /\ f.data # <<>>
Calls1(f, r, p) == Of(f, r, p) /\ "SYN" \in f.flags /\ "ACK" \notin f.flags
\* No frame of the connection was disturbed, and no FIN came with data.
Fine(k, r, p) == <<r, p>> \notin k.hist.muted \cup k.hist.finned
\* The peer has not come to the connection, or has only called.
Fresh(pr, r, p) == pr[r].port < p \/ (pr[r].port = p /\ pr[r].st = "syn")
\* An acknowledgement that takes the peer no further than the L bytes that were taken.
Fits(s, L, a) == a <= s.una + 1 \/ a = L + 1 \/ s.una = Stream

\* The next data that comes is the byte after the L that were taken, and comes once;
\* what the peer does not know to have arrived it is about to be told.
OnTrack(k, q, pr, r, p, L) ==
    /\ \A i \in 1 .. Len(q) : Bears(q[i], r, p) => q[i].seq = L + 1
    /\ \A i, j \in 1 .. Len(q) : Bears(q[i], r, p) /\ Bears(q[j], r, p) => i = j
    /\ pr[r].port = p =>
          /\ pr[r].una <= L
          /\ \A i \in 1 .. Len(q) : Bears(q[i], r, p) => pr[r].una = L /\ pr[r].fly
          /\ pr[r].una < L => /\ pr[r].fly
                              /\ \E i \in 1 .. Len(k.tx) : Of(k.tx[i], r, p) /\ k.tx[i].ack = L + 1
          /\ \A i \in 1 .. Len(k.tx) : Of(k.tx[i], r, p) => Fits(pr[r], L, k.tx[i].ack)
\* A socket of the connection was given the bytes from the first on; what it has
\* acknowledged takes the peer no further.
Listener(k, q, pr, r, p, fd) ==
    /\ Len(k.hist.log[fd]) <= Stream
    /\ \A i \in 1 .. Len(k.hist.log[fd]) : k.hist.log[fd][i] = i
    /\ OnTrack(k, q, pr, r, p, Len(k.hist.log[fd]))
    /\ pr[r].port = p => Fits(pr[r], Len(k.hist.log[fd]), k.socks[fd].ack)
\* No data of the connection has been sent, taken or acknowledged.
New(k, q, r, p) ==
    /\ \A i \in 1 .. Len(q) : Of(q[i], r, p) => q[i].data = <<>> /\ "FIN" \notin q[i].flags
    /\ \A i \in 1 .. Len(k.tx) : Of(k.tx[i], r, p) => k.tx[i].ack <= 1
    /\ \A fd \in Fds : Has(k.socks[fd], r, p) => k.hist.log[fd] = <<>> /\ k.socks[fd].ack <= 1
\* Before the SYN at i there is no data of the connection, and none was taken.
Called(k, q, pr, r, p, i) ==
    /\ \A j \in 1 .. i : ~Bears(q[j], r, p)
    /\ OnTrack(k, q, pr, r, p, 0)
    /\ \A fd \in Fds : Has(k.socks[fd], r, p) => k.hist.log[fd] = <<>>
\* One socket at most speaks on the connection.
Alone(k, r, p) == \A a, b \in Fds : Has(k.socks[a], r, p) /\ Has(k.socks[b], r, p) => a = b
\* A FIN that came alone was sent after everything was acknowledged.
Ended(q, pr, r, p) == \A i \in 1 .. Len(q) :
    Of(q[i], r, p) /\ q[i].data = <<>> /\ "FIN" \in q[i].flags /\ pr[r].port = p => pr[r].una = Stream
\* The connection is in order.
Good(k, q, pr, r, p) ==
    /\ Alone(k, r, p)
    /\ \A fd \in Fds : Has(k.socks[fd], r, p) => Listener(k, q, pr, r, p, fd)
    /\ Fresh(pr, r, p) => New(k, q, r, p)
    /\ \A i \in 1 .. Len(q) : Calls1(q[i], r, p) => Called(k, q, pr, r, p, i)
    /\ Ended(q, pr, r, p)

\* A frame that some part of Good is about.
Weighs(f, r, p) == Of(f, r, p) /\ (f.data # <<>> \/ "FIN" \in f.flags \/ "ACK" \notin f.flags)
\* The peer knows that all its data has arrived, or is no longer at the connection.
Closing(pr, r, p) == ~Fresh(pr, r, p) /\ (pr[r].port = p => pr[r].una = Stream)
\* What may be sent to the peer without harm; what must not be lost; what may become
\* of the sockets and of the queue.
Says(k, k2, pr, r, p) == \A i \in 1 .. Len(k2.tx) : Of(k2.tx[i], r, p) =>
    \/ k2.tx[i].ack <= 1
    \/ \E j \in 1 .. Len(k.tx) : k2.tx[i] = k.tx[j]
    \/ \E d \in Fds : Has(k.socks[d], r, p) /\ k2.tx[i].ack = k.socks[d].ack
    \/ Closing(pr, r, p)
Tells(k, k2, pr, r, p) == pr[r].port = p /\ pr[r].una < Stream =>
    \A j \in 1 .. Len(k.tx) : Of(k.tx[j], r, p) /\ k.tx[j].ack > pr[r].una + 1 =>
        \E i \in 1 .. Len(k2.tx) : k2.tx[i] = k.tx[j]
GoesOn(k, k2, pr, r, p, d) ==
    /\ Has(k.socks[d], r, p) /\ k2.hist.log[d] = k.hist.log[d]
    /\ k2.socks[d].ack = k.socks[d].ack \/ k2.socks[d].ack <= 1 \/ Closing(pr, r, p)
Opens(k, q, k2, pr, r, p, d) ==
    /\ k2.hist.log[d] = <<>> /\ k2.socks[d].ack <= 1 /\ OnTrack(k, q, pr, r, p, 0)
    /\ \A e \in Fds : Has(k.socks[e], r, p) => k.hist.log[e] = <<>>
Slides(q, q2, r, p) == \E d \in {0, 1} : \A i \in 1 .. Len(q2) :
    Weighs(q2[i], r, p) => i + d \in 1 .. Len(q) /\ q2[i] = q[i + d]
Calm(k, q, k2, q2, pr, r, p) ==
    /\ Says(k, k2, pr, r, p) /\ Tells(k, k2, pr, r, p) /\ Slides(q, q2, r, p)
    /\ \A d \in Fds : Has(k2.socks[d], r, p) => GoesOn(k, k2, pr, r, p, d)

\* What is on track stays so when nothing of weight is said, lost or queued.
LEMMA TrackStays ==
    ASSUME NEW k \in Kernels, NEW q \in Queue, NEW k2 \in Kernels, NEW q2 \in Queue, NEW pr \in Peers,
           NEW r \in Remote, NEW p \in Nat,
           Says(k, k2, pr, r, p), Tells(k, k2, pr, r, p), Slides(q, q2, r, p),
           NEW L \in 0 .. Stream, OnTrack(k, q, pr, r, p, L),
           pr[r].port = p => \A d \in Fds : Has(k.socks[d], r, p) => Fits(pr[r], L, k.socks[d].ack)
    PROVE  OnTrack(k2, q2, pr, r, p, L)
<1>1. Stream \in Nat /\ L \in Nat
  BY NetAssumption
<1>2. PICK s : s = pr[r]
  OBVIOUS
<1>3. s.una \in Nat /\ s.port \in Nat
  BY <1>1, <1>2 DEF Peers
<1>4. PICK d \in {0, 1} : \A i \in 1 .. Len(q2) :
          Weighs(q2[i], r, p) => i + d \in 1 .. Len(q) /\ q2[i] = q[i + d]
  BY DEF Slides
<1>5. \A i \in 1 .. Len(q2) : Bears(q2[i], r, p) =>
          i + d \in 1 .. Len(q) /\ q2[i] = q[i + d] /\ Bears(q[i + d], r, p)
  BY <1>4 DEF Bears, Weighs
<1>6. \A i \in 1 .. Len(q2) : Bears(q2[i], r, p) => q2[i].seq = L + 1
  BY <1>5 DEF OnTrack
<1>7. \A i, j \in 1 .. Len(q2) : Bears(q2[i], r, p) /\ Bears(q2[j], r, p) => i = j
  <2>1. ASSUME NEW i \in 1 .. Len(q2), NEW j \in 1 .. Len(q2), Bears(q2[i], r, p), Bears(q2[j], r, p)
        PROVE  i = j
    <3>1. i + d = j + d
      BY <1>5, <2>1 DEF OnTrack
    <3> QED BY <3>1
  <2> QED BY <2>1
<1>8. ASSUME s.port = p
      PROVE  /\ s.una <= L
             /\ \A i \in 1 .. Len(q2) : Bears(q2[i], r, p) => s.una = L /\ s.fly
             /\ s.una < L => /\ s.fly
                             /\ \E i \in 1 .. Len(k2.tx) : Of(k2.tx[i], r, p) /\ k2.tx[i].ack = L + 1
             /\ \A i \in 1 .. Len(k2.tx) : Of(k2.tx[i], r, p) => Fits(s, L, k2.tx[i].ack)
  <2>1. /\ s.una <= L
        /\ \A i \in 1 .. Len(q) : Bears(q[i], r, p) => s.una = L /\ s.fly
        /\ s.una < L => /\ s.fly
                        /\ \E i \in 1 .. Len(k.tx) : Of(k.tx[i], r, p) /\ k.tx[i].ack = L + 1
        /\ \A i \in 1 .. Len(k.tx) : Of(k.tx[i], r, p) => Fits(s, L, k.tx[i].ack)
    BY <1>2, <1>8 DEF OnTrack
  <2>2. \A i \in 1 .. Len(q2) : Bears(q2[i], r, p) => s.una = L /\ s.fly
    BY <1>5, <2>1
  <2>3. ASSUME s.una < L
        PROVE  \E i \in 1 .. Len(k2.tx) : Of(k2.tx[i], r, p) /\ k2.tx[i].ack = L + 1
    <3>1. PICK j \in 1 .. Len(k.tx) : Of(k.tx[j], r, p) /\ k.tx[j].ack = L + 1
      BY <2>1, <2>3
    <3>2. s.una < Stream /\ L + 1 > s.una + 1
      BY <1>1, <1>3, <2>3
    <3>3. \E i \in 1 .. Len(k2.tx) : k2.tx[i] = k.tx[j]
      BY <1>2, <1>8, <3>1, <3>2 DEF Tells
    <3> QED BY <3>1, <3>3
  <2>4. ASSUME NEW i \in 1 .. Len(k2.tx), Of(k2.tx[i], r, p) PROVE Fits(s, L, k2.tx[i].ack)
    <3>1. CASE k2.tx[i].ack <= 1
      <4>1. PICK g : g = k2.tx[i]
        OBVIOUS
      <4>2. g \in Frames
        BY <4>1 DEF Kernels
      <4>3. g.ack \in Nat
        BY <2>4, <4>1, <4>2, FramesDiffer DEF Frames, Udps, Others, Of
      <4> QED BY <1>3, <3>1, <4>1, <4>3 DEF Fits
    <3>2. CASE \E j \in 1 .. Len(k.tx) : k2.tx[i] = k.tx[j]
      BY <2>1, <2>4, <3>2
    <3>3. CASE \E e \in Fds : Has(k.socks[e], r, p) /\ k2.tx[i].ack = k.socks[e].ack
      BY <1>2, <1>8, <3>3
    <3>4. CASE Closing(pr, r, p)
      BY <1>2, <1>8, <3>4 DEF Closing, Fits
    <3> QED BY <2>4, <3>1, <3>2, <3>3, <3>4 DEF Says
  <2> QED BY <2>1, <2>2, <2>3, <2>4
<1> QED BY <1>2, <1>6, <1>7, <1>8 DEF OnTrack

\* The length of what a socket was given.
LEMMA LogIs ==
    ASSUME NEW k \in Kernels, NEW fd \in Fds
    PROVE  k.hist.log[fd] \in Seq(Nat) /\ Len(k.hist.log[fd]) \in Nat
BY DEF Kernels, Hist, Bytes

\* What is good stays good when nothing of weight is said, lost or queued.
LEMMA GoodStays ==
    ASSUME NEW k \in Kernels, NEW q \in Queue, NEW k2 \in Kernels, NEW q2 \in Queue, NEW pr \in Peers,
           NEW r \in Remote, NEW p \in Nat, Good(k, q, pr, r, p),
           Says(k, k2, pr, r, p), Tells(k, k2, pr, r, p), Slides(q, q2, r, p), Alone(k2, r, p),
           \A d \in Fds : Has(k2.socks[d], r, p) =>
               GoesOn(k, k2, pr, r, p, d) \/ Opens(k, q, k2, pr, r, p, d)
    PROVE  Good(k2, q2, pr, r, p)
<1>1. Stream \in Nat /\ 0 \in 0 .. Stream
  BY NetAssumption
<1>3. PICK d \in {0, 1} : \A i \in 1 .. Len(q2) :
          Weighs(q2[i], r, p) => i + d \in 1 .. Len(q) /\ q2[i] = q[i + d]
  BY DEF Slides
<1>5. pr[r].una \in Nat
  BY <1>1 DEF Peers
<1>10. PICK Z : Z = 0
  OBVIOUS
<1>11. ASSUME \A e \in Fds : Has(k.socks[e], r, p) => k.hist.log[e] = <<>>, pr[r].port = p
       PROVE  \A e \in Fds : Has(k.socks[e], r, p) => Fits(pr[r], Z, k.socks[e].ack)
  <2>1. ASSUME NEW e \in Fds, Has(k.socks[e], r, p) PROVE Fits(pr[r], Z, k.socks[e].ack)
    <3>1. k.hist.log[e] = <<>>
      BY <1>11, <2>1
    <3>2. Fits(pr[r], Len(k.hist.log[e]), k.socks[e].ack)
      BY <1>11, <2>1 DEF Good, Listener
    <3> QED BY <1>10, <3>1, <3>2
  <2> QED BY <2>1
<1>12. ASSUME OnTrack(k, q, pr, r, p, Z), \A e \in Fds : Has(k.socks[e], r, p) => k.hist.log[e] = <<>>
       PROVE  OnTrack(k2, q2, pr, r, p, Z)
  <2>1. Z \in 0 .. Stream
    BY <1>1, <1>10
  <2>2. pr[r].port = p => \A e \in Fds : Has(k.socks[e], r, p) => Fits(pr[r], Z, k.socks[e].ack)
    BY <1>11, <1>12
  <2> QED BY <1>12, <2>1, <2>2, TrackStays
<1>6. ASSUME NEW fd \in Fds, Has(k2.socks[fd], r, p), GoesOn(k, k2, pr, r, p, fd)
      PROVE  Listener(k2, q2, pr, r, p, fd)
  <2>1. /\ Has(k.socks[fd], r, p) /\ k2.hist.log[fd] = k.hist.log[fd]
        /\ k2.socks[fd].ack = k.socks[fd].ack \/ k2.socks[fd].ack <= 1 \/ Closing(pr, r, p)
    BY <1>6 DEF GoesOn
  <2>2. Listener(k, q, pr, r, p, fd)
    BY <2>1 DEF Good
  <2>3. PICK L : L = Len(k.hist.log[fd])
    OBVIOUS
  <2>4. L \in 0 .. Stream
    BY <1>1, <2>2, <2>3, LogIs DEF Listener
  <2>5. pr[r].port = p => \A e \in Fds : Has(k.socks[e], r, p) => Fits(pr[r], L, k.socks[e].ack)
    <3>1. \A e \in Fds : Has(k.socks[e], r, p) => e = fd
      BY <2>1 DEF Good, Alone
    <3> QED BY <2>2, <2>3, <3>1 DEF Listener
  <2>6. OnTrack(k, q, pr, r, p, L)
    BY <2>2, <2>3 DEF Listener
  <2>7. OnTrack(k2, q2, pr, r, p, L)
    BY <2>4, <2>5, <2>6, TrackStays
  <2>8. pr[r].port = p => Fits(pr[r], L, k2.socks[fd].ack)
    <3>1. k2.socks[fd].ack \in Nat
      BY DEF Kernels, Sock
    <3>2. k2.socks[fd].ack <= 1 => k2.socks[fd].ack <= pr[r].una + 1
      BY <1>5, <3>1
    <3> QED BY <2>1, <2>5, <3>2 DEF Fits, Closing
  <2> QED BY <2>1, <2>2, <2>3, <2>7, <2>8 DEF Listener
<1>13. ASSUME NEW fd \in Fds, Has(k2.socks[fd], r, p), Opens(k, q, k2, pr, r, p, fd)
       PROVE  Listener(k2, q2, pr, r, p, fd)
  <2>1. k2.hist.log[fd] = <<>> /\ Len(k2.hist.log[fd]) = Z
    BY <1>10, <1>13 DEF Opens
  <2>2. OnTrack(k2, q2, pr, r, p, Z)
    BY <1>10, <1>12, <1>13 DEF Opens
  <2>3. Fits(pr[r], Z, k2.socks[fd].ack)
    <3>1. k2.socks[fd].ack \in Nat
      BY DEF Kernels, Sock
    <3> QED BY <1>5, <1>13, <3>1 DEF Opens, Fits
  <2>4. Len(k2.hist.log[fd]) <= Stream /\ \A i \in 1 .. Len(k2.hist.log[fd]) : k2.hist.log[fd][i] = i
    BY <1>1, <1>10, <2>1
  <2> QED BY <2>1, <2>2, <2>3, <2>4 DEF Listener
<1>7. ASSUME Fresh(pr, r, p) PROVE New(k2, q2, r, p)
  <2>1. New(k, q, r, p)
    BY <1>7 DEF Good
  <2>2. ASSUME NEW i \in 1 .. Len(q2), Of(q2[i], r, p)
        PROVE  q2[i].data = <<>> /\ "FIN" \notin q2[i].flags
    <3>1. CASE Weighs(q2[i], r, p)
      BY <1>3, <2>1, <2>2, <3>1 DEF New
    <3>2. CASE ~Weighs(q2[i], r, p)
      BY <2>2, <3>2 DEF Weighs
    <3> QED BY <3>1, <3>2
  <2>3. ASSUME NEW i \in 1 .. Len(k2.tx), Of(k2.tx[i], r, p) PROVE k2.tx[i].ack <= 1
    BY <1>7, <2>1, <2>3 DEF Says, New, Closing
  <2>4. ASSUME NEW fd \in Fds, Has(k2.socks[fd], r, p)
        PROVE  k2.hist.log[fd] = <<>> /\ k2.socks[fd].ack <= 1
    BY <1>7, <2>1, <2>4 DEF GoesOn, Opens, New, Closing
  <2> QED BY <2>2, <2>3, <2>4 DEF New
<1>8. ASSUME NEW i \in 1 .. Len(q2), Calls1(q2[i], r, p) PROVE Called(k2, q2, pr, r, p, i)
  <2>1. i + d \in 1 .. Len(q) /\ q2[i] = q[i + d]
    BY <1>3, <1>8 DEF Calls1, Weighs
  <2>2. Called(k, q, pr, r, p, i + d)
    BY <1>8, <2>1 DEF Good
  <2>3. ASSUME NEW j \in 1 .. i PROVE ~Bears(q2[j], r, p)
    <3>1. j \in 1 .. Len(q2) /\ j + d \in 1 .. i + d
      <4>1. Len(q2) \in Nat
        BY DEF Queue
      <4> QED BY <4>1
    <3>2. Bears(q2[j], r, p) => q2[j] = q[j + d]
      BY <1>3, <3>1 DEF Bears, Weighs
    <3> QED BY <2>2, <3>1, <3>2 DEF Called
  <2>7. OnTrack(k2, q2, pr, r, p, Z)
    BY <1>10, <1>12, <2>2 DEF Called
  <2>8. \A e \in Fds : Has(k2.socks[e], r, p) => k2.hist.log[e] = <<>>
    BY <2>2 DEF GoesOn, Opens, Called
  <2> QED BY <1>10, <2>3, <2>7, <2>8 DEF Called
<1>9. Ended(q2, pr, r, p)
  <2>1. ASSUME NEW i \in 1 .. Len(q2), Of(q2[i], r, p), q2[i].data = <<>>, "FIN" \in q2[i].flags,
               pr[r].port = p
        PROVE  pr[r].una = Stream
    <3>1. i + d \in 1 .. Len(q) /\ q2[i] = q[i + d]
      BY <1>3, <2>1 DEF Weighs
    <3> QED BY <2>1, <3>1 DEF Good, Ended
  <2> QED BY <2>1 DEF Ended
<1> QED BY <1>6, <1>13, <1>7, <1>8, <1>9 DEF Good

\* A step that is calm for a connection keeps it good.
LEMMA CalmGood ==
    ASSUME NEW k \in Kernels, NEW q \in Queue, NEW k2 \in Kernels, NEW q2 \in Queue, NEW pr \in Peers,
           NEW r \in Remote, NEW p \in Nat, Calm(k, q, k2, q2, pr, r, p), Good(k, q, pr, r, p)
    PROVE  Good(k2, q2, pr, r, p)
<1>1. Alone(k2, r, p)
  BY DEF Good, Alone, Calm, GoesOn
<1>2. Says(k, k2, pr, r, p) /\ Tells(k, k2, pr, r, p) /\ Slides(q, q2, r, p)
  BY DEF Calm
<1>3. \A d \in Fds : Has(k2.socks[d], r, p) => GoesOn(k, k2, pr, r, p, d) \/ Opens(k, q, k2, pr, r, p, d)
  BY DEF Calm
<1> QED BY <1>1, <1>2, <1>3, GoodStays

\* Every connection whose frames were not disturbed is in order.
Tidy(k, q, pr) == \A r \in Remote, p \in Nat : Fine(k, r, p) => Good(k, q, pr, r, p)

\* A connection that is undisturbed has been so before.
LEMMA FineBefore ==
    ASSUME NEW k, NEW k2, Later(k.hist, k2.hist), NEW r, NEW p, Fine(k2, r, p)
    PROVE  Fine(k, r, p)
BY DEF Later, Fine

\* A step that is calm for all that are undisturbed.
LEMMA CalmTidy ==
    ASSUME NEW k \in Kernels, NEW q \in Queue, NEW k2 \in Kernels, NEW q2 \in Queue, NEW pr \in Peers,
           Tidy(k, q, pr), Later(k.hist, k2.hist),
           \A r \in Remote, p \in Nat : Fine(k2, r, p) => Calm(k, q, k2, q2, pr, r, p)
    PROVE  Tidy(k2, q2, pr)
<1>1. ASSUME NEW r \in Remote, NEW p \in Nat, Fine(k2, r, p) PROVE Good(k2, q2, pr, r, p)
  <2>1. Good(k, q, pr, r, p)
    BY <1>1, FineBefore DEF Tidy
  <2>2. Calm(k, q, k2, q2, pr, r, p)
    BY <1>1
  <2> QED BY <2>1, <2>2, CalmGood
<1> QED BY <1>1 DEF Tidy

-----------------------------------------------------------------------------
(* One segment, and the order of its stream and of the others'.             *)

\* q2 is q without its first frame.
Rest(q, q2) == Len(q) = Len(q2) + 1 /\ \A i \in 1 .. Len(q2) : q2[i] = q[i + 1]

\* The first frame of the queue is handled: the rest slides up.
LEMMA RestSlides ==
    ASSUME NEW q \in Queue, NEW q2 \in Queue, Rest(q, q2), NEW r, NEW p
    PROVE  Slides(q, q2, r, p)
<1>1. Len(q) \in Nat /\ Len(q2) \in Nat
  BY DEF Queue
<1>2. \A i \in 1 .. Len(q2) : i + 1 \in 1 .. Len(q) /\ q2[i] = q[i + 1]
  BY <1>1 DEF Rest
<1> QED BY <1>2 DEF Slides

\* A step of one connection is calm for the others.
LEMMA OthersCalm ==
    ASSUME NEW k \in Kernels, NEW q \in Queue, NEW k2, NEW q2 \in Queue, Rest(q, q2), NEW pr,
           NEW e, NEW r0, NEW p0, Turn(k, k2, e, r0, p0),
           NEW r \in Remote, NEW p \in Nat, r # r0 \/ p # p0
    PROVE  Calm(k, q, k2, q2, pr, r, p)
<1>1. /\ Len(k.tx) \in Nat /\ Len(k2.tx) \in Nat /\ Len(k.tx) <= Len(k2.tx)
      /\ \A i \in 1 .. Len(k.tx) : k2.tx[i] = k.tx[i]
      /\ \A i \in Len(k.tx) + 1 .. Len(k2.tx) : k2.tx[i].kind = "tcp" => Of(k2.tx[i], r0, p0)
  BY DEF Turn, Longer, Kernels
<1>2. Says(k, k2, pr, r, p)
  <2>1. ASSUME NEW i \in 1 .. Len(k2.tx), Of(k2.tx[i], r, p)
        PROVE  \E j \in 1 .. Len(k.tx) : k2.tx[i] = k.tx[j]
    <3>1. CASE i \in 1 .. Len(k.tx)
      BY <1>1, <3>1
    <3>2. CASE i \in Len(k.tx) + 1 .. Len(k2.tx)
      BY <1>1, <2>1, <3>2 DEF Of
    <3> QED BY <1>1, <3>1, <3>2
  <2> QED BY <2>1 DEF Says
<1>3. Tells(k, k2, pr, r, p)
  BY <1>1 DEF Tells
<1>4. ASSUME NEW d \in Fds, Has(k2.socks[d], r, p) PROVE GoesOn(k, k2, pr, r, p, d)
  <2>1. Kept(k, k2, d)
    BY <1>4 DEF Turn, Has
  <2> QED BY <1>4, <2>1 DEF Kept, GoesOn, Has
<1>5. Slides(q, q2, r, p)
  BY RestSlides
<1> QED BY <1>2, <1>3, <1>4, <1>5 DEF Calm

\* The socket that takes a segment is the only one that changes, and the segment
\* stays what it is but for the data.
LEMMA OneTurn ==
    ASSUME NEW k \in Kernels, NEW e \in Nat, Sound(k, e), conf.gw \in Hosts,
           NEW f, Piece(k, f), InOK(k, e, f), NEW fd \in Takers(k, f),
           NEW p, p = [k |-> k, f |-> f], NEW p2, p2 = Take(p, fd)
    PROVE  /\ \A d \in Fds \ {fd} : p2.k.socks[d] = k.socks[d]
           /\ p2.f.host = f.host /\ p2.f.hport = f.hport /\ p2.f.port = f.port
           /\ p2.f.flags = f.flags /\ p2 = [k |-> p2.k, f |-> p2.f]
<1>0. fd \in Fds /\ p.k = k /\ p.f = f /\ f \in Tcps
  BY DEF Takers, Piece
<1>1. CASE Listens(k.socks[fd], f)
  <2>1. PICK k2 : k2 = TakeSyn(k, fd, f)
    OBVIOUS
  <2>2. p2 = [k |-> k2, f |-> f]
    BY <1>0, <1>1, <2>1 DEF Take
  <2>3. Base(k, k2, fd)
    BY <1>0, <2>1, TakeSynDoes
  <2> QED BY <2>2, <2>3 DEF Base
<1>2. CASE ~Listens(k.socks[fd], f)
  <2>1. PICK k2, k3, k4, g : /\ k2 = TakeAck(k, fd, f) /\ k3 = TakeData(k2, fd, f)
                             /\ k4 = TakeFin(k3, fd, f) /\ g = Cut(k, fd, f)
    OBVIOUS
  <2>2. p2 = [k |-> k4, f |-> g]
    BY <1>0, <1>2, <2>1 DEF Take
  <2>3. Len(k.socks[fd].rbuf) <= BufSize
    BY <1>0 DEF Sound, SockOK
  <2>4. Base(k, k2, fd) /\ k2.socks[fd].rbuf = k.socks[fd].rbuf
    BY <1>0, <2>1, TakeAckDoes
  <2>5. Base(k2, k3, fd)
    <3>1. CASE f.data = <<>>
      BY <2>1, <2>4, <3>1 DEF TakeData, Base
    <3>2. CASE f.data # <<>>
      <4>1. PICK kept : kept = Cut(k2, fd, f).data
        OBVIOUS
      <4>2. k2 \in Kernels /\ Len(k2.socks[fd].rbuf) <= BufSize
        BY <2>3, <2>4 DEF Base
      <4> QED BY <1>0, <2>1, <3>2, <4>1, <4>2, TakeDataDoes
    <3> QED BY <3>1, <3>2
  <2>6. Base(k3, k4, fd)
    <3>1. CASE "FIN" \notin f.flags
      BY <2>1, <2>5, <3>1 DEF TakeFin, Base
    <3>2. CASE "FIN" \in f.flags
      <4>1. k3 \in Kernels
        BY <2>5 DEF Base
      <4>2. PICK s : s = k3.socks[fd]
        OBVIOUS
      <4> QED BY <1>0, <2>1, <3>2, <4>1, <4>2, TakeFinDoes
    <3> QED BY <3>1, <3>2
  <2>7. g.host = f.host /\ g.hport = f.hport /\ g.port = f.port /\ g.flags = f.flags
    <3>1. \E n \in 0 .. Len(f.data) :
              /\ n = Lo(Len(f.data), BufSize - Len(k.socks[fd].rbuf))
              /\ Len(k.socks[fd].rbuf) + n <= BufSize
              /\ g.data = SubSeq(f.data, 1, n) /\ g.data \in Bytes /\ Len(g.data) = n
              /\ \A i \in 1 .. n : g.data[i] = f.data[i]
              /\ ToSet(g.data) \subseteq Nat
              /\ g \in Tcps
              /\ g.host = f.host /\ g.hport = f.hport /\ g.port = f.port /\ g.seq = f.seq
              /\ g.ack = f.ack /\ g.flags = f.flags
      BY <1>0, <2>1, <2>3, CutIs
    <3> QED BY <3>1
  <2>8. \A d \in Fds \ {fd} : k4.socks[d] = k.socks[d]
    BY <2>4, <2>5, <2>6 DEF Base
  <2> QED BY <2>2, <2>7, <2>8
<1> QED BY <1>1, <1>2

\* If one socket at most takes a segment, that socket's turn is all there is to it.
LEMMA OneTakes ==
    ASSUME NEW k \in Kernels, NEW e \in Nat, Sound(k, e), conf.gw \in Hosts,
           NEW f \in Heard, InOK(k, e, f), NEW fd \in Nat, Takers(k, f) \subseteq {fd},
           NEW k2, k2 = handle_tcp(k, f)
    PROVE  k2 = Take([k |-> k, f |-> f], fd).k \/ (k2 = k /\ Takers(k, f) = {})
<1>1. PICK k1, F : TcpRun(k, f, k2, e, k1, F)
  BY TcpRuns
<1>2. NSock \in Nat /\ NSock \in 0 .. NSock
  BY NetAssumption
<1>3. k1 = k
  <2>1. Shared(k, f) = {}
    BY DEF Shared
  <2>2. k1 = Mute(k, {})
    BY <1>1, <2>1 DEF TcpRun
  <2>3. k.hist.muted \cup {} = k.hist.muted
    OBVIOUS
  <2>4. k1 = [k EXCEPT !.hist = [k.hist EXCEPT !.muted = k.hist.muted]]
    BY <2>2, <2>3 DEF Mute
  <2>5. [k.hist EXCEPT !.muted = k.hist.muted] = k.hist
    BY DEF Kernels, Hist
  <2> QED BY <2>4, <2>5 DEF Kernels
<1>4. PICK p : p = [k |-> k, f |-> f]
  OBVIOUS
<1>5. PICK one : one = Take(p, fd)
  OBVIOUS
<1>6. /\ F[0] = p /\ k2 = F[NSock].k
      /\ \A i \in 1 .. NSock : F[i] = Take(F[i - 1], i - 1)
  BY <1>1, <1>3, <1>4 DEF TcpRun
<1>7. p.k = k /\ p.f = f
  BY <1>4
<1>8. \A d : d # fd => Take(one, d) = one
  <2>1. ASSUME NEW d, d # fd PROVE Take(one, d) = one
    <3>1. CASE fd \in Takers(k, f)
      <4>1. /\ \A c \in Fds \ {fd} : one.k.socks[c] = k.socks[c]
            /\ one.f.host = f.host /\ one.f.hport = f.hport /\ one.f.port = f.port
            /\ one.f.flags = f.flags
        <5>1. Piece(k, f)
          BY HeardIsPiece
        <5> QED BY <1>4, <1>5, <3>1, <5>1, OneTurn
      <4>2. ASSUME NEW c \in Fds \ {fd}, c \in Takers(one.k, one.f) PROVE c \in Takers(k, f)
        BY <4>1, <4>2 DEF Takers, Listens, Speaks
      <4>3. d \notin Takers(one.k, one.f)
        <5>1. Takers(one.k, one.f) \subseteq Fds
          BY DEF Takers
        <5> QED BY <2>1, <4>2, <5>1
      <4> QED BY <4>3 DEF Take
    <3>2. CASE fd \notin Takers(k, f)
      <4>1. one = p
        BY <1>5, <1>7, <3>2 DEF Take
      <4>2. d \notin Takers(k, f)
        BY <2>1
      <4> QED BY <1>7, <4>1, <4>2 DEF Take
    <3> QED BY <3>1, <3>2
  <2> QED BY <2>1
<1>9. \A d : d # fd => Take(p, d) = p
  BY <1>7 DEF Take
<1> DEFINE T == {m \in 0 .. NSock : F[m] = IF m <= fd THEN p ELSE one}
<1>10. 0 \in T
  BY <1>2, <1>6
<1>11. ASSUME NEW m \in 0 .. NSock - 1, m \in T PROVE m + 1 \in T
  <2>1. m + 1 \in 1 .. NSock /\ (m + 1) - 1 = m /\ m + 1 \in 0 .. NSock
    BY <1>2
  <2>2. F[m + 1] = Take(F[m], m)
    BY <1>6, <2>1
  <2>3. CASE m < fd
    <3>1. F[m] = p /\ m # fd /\ m + 1 <= fd
      BY <1>11, <2>3
    <3>2. F[m + 1] = p
      BY <1>9, <2>2, <3>1
    <3> QED BY <2>1, <3>1, <3>2
  <2>4. CASE m = fd
    <3>1. F[m] = p /\ ~(m + 1 <= fd)
      BY <1>11, <2>4
    <3>2. F[m + 1] = one
      BY <1>5, <2>2, <2>4, <3>1
    <3> QED BY <2>1, <3>1, <3>2
  <2>5. CASE m > fd
    <3>1. F[m] = one /\ m # fd /\ ~(m + 1 <= fd)
      BY <1>11, <2>5
    <3>2. F[m + 1] = one
      BY <1>8, <2>2, <3>1
    <3> QED BY <2>1, <3>1, <3>2
  <2> QED BY <2>3, <2>4, <2>5
<1>12. \A m \in 0 .. NSock : m \in T
  <2> HIDE DEF T
  <2> QED BY <1>2, <1>10, <1>11, Climb, Zenon
<1>13. F[NSock] = IF NSock <= fd THEN p ELSE one
  BY <1>2, <1>12
<1>14. CASE NSock <= fd
  <2>1. fd \notin Fds
    BY <1>2, <1>14 DEF Fds
  <2>2. Takers(k, f) = {}
    BY <2>1 DEF Takers
  <2> QED BY <1>6, <1>7, <1>13, <1>14, <2>2
<1>15. CASE ~(NSock <= fd)
  BY <1>4, <1>5, <1>6, <1>13, <1>15
<1> QED BY <1>14, <1>15

\* One frame more.
LEMMA OneMore ==
    ASSUME NEW k \in Kernels, NEW k2, NEW g \in Frames, k2.tx = Append(k.tx, g)
    PROVE  /\ \A i \in 1 .. Len(k2.tx) : k2.tx[i] = g \/ (\E j \in 1 .. Len(k.tx) : k2.tx[i] = k.tx[j])
           /\ \A j \in 1 .. Len(k.tx) : \E i \in 1 .. Len(k2.tx) : k2.tx[i] = k.tx[j]
           /\ \E i \in 1 .. Len(k2.tx) : k2.tx[i] = g
<1>1. k.tx \in Seq(Frames) /\ Len(k.tx) \in Nat
  BY DEF Kernels
<1>2. /\ Len(k2.tx) = Len(k.tx) + 1 /\ k2.tx[Len(k.tx) + 1] = g
      /\ \A i \in 1 .. Len(k.tx) : k2.tx[i] = k.tx[i]
  BY <1>1
<1>3. /\ \A i \in 1 .. Len(k2.tx) : i \in 1 .. Len(k.tx) \/ i = Len(k.tx) + 1
      /\ \A j \in 1 .. Len(k.tx) : j \in 1 .. Len(k2.tx)
      /\ Len(k.tx) + 1 \in 1 .. Len(k2.tx)
  BY <1>1, <1>2
<1> QED BY <1>2, <1>3

\* A frame that may be sent to the peer without harm.
Harmless(g, k, pr, r, p) == Of(g, r, p) =>
    \/ g.ack <= 1
    \/ \E d \in Fds : Has(k.socks[d], r, p) /\ g.ack = k.socks[d].ack
    \/ Closing(pr, r, p)

\* A frame that is harmless, or none, is sent.
LEMMA SentSays ==
    ASSUME NEW k \in Kernels, NEW k2, NEW pr, NEW r, NEW p,
           k2.tx = k.tx \/ (\E g \in Frames : k2.tx = Append(k.tx, g) /\ Harmless(g, k, pr, r, p))
    PROVE  Says(k, k2, pr, r, p) /\ Tells(k, k2, pr, r, p)
<1>1. CASE k2.tx = k.tx
  BY <1>1 DEF Says, Tells
<1>2. CASE \E g \in Frames : k2.tx = Append(k.tx, g) /\ Harmless(g, k, pr, r, p)
  <2>1. PICK g \in Frames : k2.tx = Append(k.tx, g) /\ Harmless(g, k, pr, r, p)
    BY <1>2
  <2>2. /\ \A i \in 1 .. Len(k2.tx) : k2.tx[i] = g \/ (\E j \in 1 .. Len(k.tx) : k2.tx[i] = k.tx[j])
        /\ \A j \in 1 .. Len(k.tx) : \E i \in 1 .. Len(k2.tx) : k2.tx[i] = k.tx[j]
    BY <2>1, OneMore
  <2> QED BY <2>1, <2>2 DEF Says, Tells, Harmless
<1> QED BY <1>1, <1>2

\* A socket speaks with the host a segment comes from: it takes the segment.
LEMMA HasTakes ==
    ASSUME NEW k \in Kernels, NEW e \in Nat, Sound(k, e), NEW f \in Heard,
           NEW d \in Fds, Has(k.socks[d], f.host, f.port)
    PROVE  d \in Takers(k, f) /\ Speaks(k.socks[d], f)
<1>1. SockOK(k, e, k.socks[d]) /\ f.host \in Remote /\ f.hport = HostPort
  BY DEF Sound, Heard
<1> QED BY <1>1 DEF SockOK, Has, Takers, Speaks

\* A socket that speaks with the client has lost nothing when it answers its call.
LEMMA SynGood ==
    ASSUME NEW k \in Kernels, NEW e \in Nat, Sound(k, e), conf.gw \in Hosts,
           NEW q \in Queue, NEW q2 \in Queue, Rest(q, q2), NEW pr \in Peers,
           NEW f \in Heard, q[1] = f, InOK(k, e, f), NEW r, NEW p, r = f.host, p = f.port,
           NEW fd \in Takers(k, f), Takers(k, f) \subseteq {fd}, Listens(k.socks[fd], f),
           Good(k, q, pr, r, p), NEW k2, k2 = TakeSyn(k, fd, f)
    PROVE  Good(k2, q2, pr, r, p)
<1>1. fd \in Fds /\ k.socks[fd].lport = p
  BY DEF Takers, Listens
<1>2. /\ f \in Tcps /\ f.kind = "tcp" /\ f.host \in Remote /\ f.port \in Nat
      /\ "SYN" \in f.flags => f.seq = 0 /\ f.data = <<>> /\ (("ACK" \in f.flags) <=> (f.host = Server))
  BY FramesDiffer DEF Heard
<1>3. /\ Base(k, k2, fd) /\ Sent(k, k2, k2.socks[fd], {"SYN", "ACK"})
      /\ Alike(k.socks[fd], k2.socks[fd]) /\ k2.socks[fd].rip = f.host
      /\ k2.socks[fd].ack = f.seq + 1
      /\ k2.hist.log[fd] = IF Speaks(k.socks[fd], f) THEN k.hist.log[fd] ELSE <<>>
  BY <1>1, <1>2, TakeSynDoes
<1>4. f.seq = 0 /\ k2.socks[fd].ack = 1
  BY <1>2, <1>3 DEF Listens
<1>5. Calls1(f, r, p)
  <2>1. p = ListenPort
    BY <1>1 DEF Sound, SockOK, Listens
  <2>2. Given(e, f.host, f.port)
    BY <1>2 DEF InOK
  <2>3. f.host # Server
    BY <2>1, <2>2, NamesDiffer DEF Given, ListenPort, FirstEphemeral
  <2> QED BY <1>2, <2>3 DEF Calls1, Of, Listens
<1>6. Called(k, q, pr, r, p, 1)
  <2>1. 1 \in 1 .. Len(q)
    BY DEF Rest, Queue
  <2> QED BY <1>5, <2>1 DEF Good
<1>7. \A d \in Fds : Has(k2.socks[d], r, p) => d = fd
  <2>1. ASSUME NEW d \in Fds \ {fd}, Has(k2.socks[d], r, p) PROVE FALSE
    <3>1. Has(k.socks[d], f.host, f.port)
      BY <1>3, <2>1 DEF Base
    <3> QED BY <3>1, HasTakes
  <2> QED BY <2>1
<1>8. Alone(k2, r, p)
  BY <1>7 DEF Alone
<1>9. Opens(k, q, k2, pr, r, p, fd)
  <2>1. k2.hist.log[fd] = <<>>
    <3>1. Speaks(k.socks[fd], f) => Has(k.socks[fd], r, p)
      BY DEF Speaks, Has
    <3> QED BY <1>1, <1>3, <1>6, <3>1 DEF Called
  <2> QED BY <1>4, <1>6, <2>1 DEF Opens, Called
<1>10. Says(k, k2, pr, r, p) /\ Tells(k, k2, pr, r, p)
  <2>1. \E g \in Frames : k2.tx = Append(k.tx, g) /\ Harmless(g, k, pr, r, p)
    <3>1. PICK g \in Frames : /\ k2.tx = Append(k.tx, g)
                              /\ g.ack = k2.socks[fd].ack \/ g.kind = "ask"
      BY <1>3 DEF Sent
    <3> QED BY <1>4, <3>1 DEF Harmless, Of
  <2> QED BY <2>1, SentSays
<1>11. k2 \in Kernels /\ Slides(q, q2, r, p) /\ r \in Remote /\ p \in Nat
  BY <1>2, <1>3, RestSlides DEF Base
<1> QED BY <1>7, <1>8, <1>9, <1>10, <1>11, GoodStays

\* The flags of a segment without data change nothing that matters.
LEMMA FlagsCalm ==
    ASSUME NEW k \in Kernels, NEW e \in Nat, Sound(k, e), conf.gw \in Hosts,
           NEW q \in Queue, NEW q2 \in Queue, Rest(q, q2), NEW pr \in Peers,
           NEW f \in Heard, q[1] = f, InOK(k, e, f), NEW r, NEW p, r = f.host, p = f.port,
           NEW fd \in Fds, Has(k.socks[fd], r, p), f.data = <<>>,
           Good(k, q, pr, r, p),
           NEW k2, k2 = TakeAck(k, fd, f), NEW k3, k3 = TakeData(k2, fd, f),
           NEW k4, k4 = TakeFin(k3, fd, f)
    PROVE  Calm(k, q, k4, q2, pr, r, p)
<1>1. /\ f \in Tcps /\ f.kind = "tcp" /\ f.host \in Remote /\ f.port \in Nat
      /\ "SYN" \in f.flags => f.seq = 0 /\ "FIN" \notin f.flags
      /\ 1 \in 1 .. Len(q)
  BY FramesDiffer DEF Heard, Rest, Queue
<1>2. /\ Base(k, k2, fd) /\ Alike(k.socks[fd], k2.socks[fd]) /\ k2.socks[fd].rip = k.socks[fd].rip
      /\ k2.hist.log[fd] = k.hist.log[fd]
      /\ \/ k2.tx = k.tx /\ k2.socks[fd].ack = k.socks[fd].ack
         \/ /\ "SYN" \in f.flags
            /\ Sent(k, k2, k2.socks[fd], {"ACK"}) /\ k2.socks[fd].ack = f.seq + 1
  BY <1>1, TakeAckDoes
<1>3. k3 = k2
  BY DEF TakeData
<1>4. Slides(q, q2, r, p)
  BY RestSlides
<1>5. CASE "FIN" \notin f.flags
  <2>1. k4 = k2
    BY <1>3, <1>5 DEF TakeFin
  <2>2. k2.tx = k.tx \/ (\E g \in Frames : k2.tx = Append(k.tx, g) /\ Harmless(g, k, pr, r, p))
    <3>1. CASE k2.tx = k.tx
      BY <3>1
    <3>2. CASE /\ "SYN" \in f.flags
               /\ Sent(k, k2, k2.socks[fd], {"ACK"}) /\ k2.socks[fd].ack = f.seq + 1
      <4>1. PICK g \in Frames : k2.tx = Append(k.tx, g) /\ (g.ack = k2.socks[fd].ack \/ g.kind = "ask")
        BY <3>2 DEF Sent
      <4>2. k2.socks[fd].ack = 1
        BY <1>1, <3>2
      <4> QED BY <4>1, <4>2 DEF Harmless, Of
    <3> QED BY <1>2, <3>1, <3>2
  <2>3. Says(k, k2, pr, r, p) /\ Tells(k, k2, pr, r, p)
    BY <2>2, SentSays
  <2>4. ASSUME NEW d \in Fds, Has(k2.socks[d], r, p) PROVE GoesOn(k, k2, pr, r, p, d)
    <3>1. CASE d = fd
      <4>1. k2.socks[fd].ack = k.socks[fd].ack \/ k2.socks[fd].ack <= 1
        BY <1>1, <1>2
      <4> QED BY <1>2, <3>1, <4>1 DEF GoesOn
    <3>2. CASE d # fd
      BY <1>2, <2>4, <3>2 DEF GoesOn, Base
    <3> QED BY <3>1, <3>2
  <2> QED BY <1>4, <2>1, <2>3, <2>4 DEF Calm
<1>6. CASE "FIN" \in f.flags
  <2>1. k2.tx = k.tx /\ k2.socks[fd].ack = k.socks[fd].ack
    BY <1>1, <1>2, <1>6
  <2>2. Closing(pr, r, p)
    <3>1. Of(f, r, p)
      BY <1>1 DEF Of
    <3>2. ~Fresh(pr, r, p)
      BY <1>1, <1>6, <3>1 DEF Good, New
    <3>3. pr[r].port = p => pr[r].una = Stream
      BY <1>1, <1>6, <3>1 DEF Good, Ended
    <3> QED BY <3>2, <3>3 DEF Closing
  <2>3. k2 \in Kernels
    BY <1>2 DEF Base
  <2>4. /\ Base(k2, k4, fd) /\ Sent(k2, k4, k4.socks[fd], {"ACK"})
        /\ Alike(k2.socks[fd], k4.socks[fd]) /\ k4.socks[fd].rip = k2.socks[fd].rip
        /\ k4.hist.log[fd] = k2.hist.log[fd]
    BY <1>1, <1>3, <1>6, <2>3, TakeFinDoes
  <2>5. \E g \in Frames : k4.tx = Append(k.tx, g) /\ Harmless(g, k, pr, r, p)
    BY <2>1, <2>2, <2>4 DEF Sent, Harmless
  <2>6. Says(k, k4, pr, r, p) /\ Tells(k, k4, pr, r, p)
    BY <2>5, SentSays
  <2>7. ASSUME NEW d \in Fds, Has(k4.socks[d], r, p) PROVE GoesOn(k, k4, pr, r, p, d)
    <3>1. CASE d = fd
      BY <1>2, <2>2, <2>4, <3>1 DEF GoesOn
    <3>2. CASE d # fd
      BY <1>2, <2>4, <2>7, <3>2 DEF GoesOn, Base
    <3> QED BY <3>1, <3>2
  <2> QED BY <1>4, <2>6, <2>7 DEF Calm
<1> QED BY <1>5, <1>6

\* What a socket keeps of the next bytes goes on with the stream, and is acknowledged.
LEMMA DataGood ==
    ASSUME NEW k \in Kernels, NEW e \in Nat, Sound(k, e), conf.gw \in Hosts,
           NEW q \in Queue, NEW q2 \in Queue, Rest(q, q2), NEW pr \in Peers,
           NEW f \in Heard, q[1] = f, InOK(k, e, f), NEW r, NEW p, r = f.host, p = f.port,
           NEW fd \in Fds, Has(k.socks[fd], r, p), f.data # <<>>,
           Good(k, q, pr, r, p),
           NEW k2, k2 = TakeData(k, fd, f), Fine(k2, r, p)
    PROVE  Good(k2, q2, pr, r, p)
<1>1. /\ f \in Tcps /\ f.kind = "tcp" /\ f.host \in Remote /\ f.port \in Nat
      /\ f.seq \in Nat /\ Len(f.data) \in Nat /\ f.data \in Seq(Nat) /\ Stream \in Nat
      /\ f.seq >= 1 /\ f.seq + Len(f.data) <= Stream + 1
      /\ \A i \in 1 .. Len(f.data) : f.data[i] = f.seq + i - 1
      /\ Len(q) \in Nat /\ Len(q2) \in Nat /\ Len(q) = Len(q2) + 1 /\ 1 \in 1 .. Len(q)
      /\ \A i \in 1 .. Len(q2) : q2[i] = q[i + 1] /\ i + 1 \in 1 .. Len(q) /\ i + 1 # 1
  <2>1. /\ f \in Tcps /\ f.host \in Remote /\ f.seq >= 1 /\ f.seq + Len(f.data) <= Stream + 1
        /\ \A i \in 1 .. Len(f.data) : f.data[i] = f.seq + i - 1
    BY DEF Heard
  <2>2. /\ f.kind = "tcp" /\ f.port \in Nat /\ f.seq \in Nat /\ f.data \in Seq(Nat)
    BY <2>1, FramesDiffer
  <2>3. Len(f.data) \in Nat
    BY <2>2
  <2>4. Stream \in Nat
    BY NetAssumption
  <2>5. Len(q) \in Nat /\ Len(q2) \in Nat
    BY DEF Queue
  <2>6. Len(q) = Len(q2) + 1 /\ \A i \in 1 .. Len(q2) : q2[i] = q[i + 1]
    BY DEF Rest
  <2>7. 1 \in 1 .. Len(q) /\ \A i \in 1 .. Len(q2) : i + 1 \in 1 .. Len(q) /\ i + 1 # 1
    BY <2>5, <2>6
  <2> QED BY <2>1, <2>2, <2>3, <2>4, <2>5, <2>6, <2>7
<1>0. f \in Tcps
  BY <1>1
<1>2. Bears(f, r, p)
  BY <1>1 DEF Bears, Of
<1>3. PICK kept : kept = Cut(k, fd, f).data
  OBVIOUS
<1>4. PICK n \in 0 .. Len(f.data) : kept \in Seq(Nat) /\ Len(kept) = n /\ \A i \in 1 .. n : kept[i] = f.data[i]
  <2>1. PICK g : g = Cut(k, fd, f)
    OBVIOUS
  <2>2. Len(k.socks[fd].rbuf) <= BufSize
    BY DEF Sound, SockOK
  <2>3. \E n \in 0 .. Len(f.data) :
            /\ n = Lo(Len(f.data), BufSize - Len(k.socks[fd].rbuf))
            /\ Len(k.socks[fd].rbuf) + n <= BufSize
            /\ g.data = SubSeq(f.data, 1, n) /\ g.data \in Bytes /\ Len(g.data) = n
            /\ \A i \in 1 .. n : g.data[i] = f.data[i]
            /\ ToSet(g.data) \subseteq Nat
            /\ g \in Tcps
            /\ g.host = f.host /\ g.hport = f.hport /\ g.port = f.port /\ g.seq = f.seq
            /\ g.ack = f.ack /\ g.flags = f.flags
    BY <1>0, <2>1, <2>2, CutIs
  <2> QED BY <1>3, <2>1, <2>3 DEF Bytes
<1>5. /\ Base(k, k2, fd) /\ Sent(k, k2, k2.socks[fd], {"ACK"})
      /\ Alike(k.socks[fd], k2.socks[fd]) /\ k2.socks[fd].rip = k.socks[fd].rip
      /\ k2.socks[fd].ack = f.seq + n
      /\ k2.hist.log[fd] = (IF Conn(f) \in k.hist.muted THEN <<>> ELSE k.hist.log[fd] \o kept)
  <2>1. Len(k.socks[fd].rbuf) <= BufSize
    BY DEF Sound, SockOK
  <2>2. PICK s : s = k.socks[fd]
    OBVIOUS
  <2>3. /\ Base(k, k2, fd) /\ Sent(k, k2, k2.socks[fd], {"ACK"})
        /\ Alike(s, k2.socks[fd]) /\ k2.socks[fd].rip = s.rip
        /\ k2.socks[fd].ack = f.seq + Len(kept)
        /\ k2.hist.log[fd] = (IF Conn(f) \in k.hist.muted THEN <<>> ELSE k.hist.log[fd] \o kept)
    BY <1>0, <1>3, <2>1, <2>2, TakeDataDoes
  <2> QED BY <1>4, <2>2, <2>3
<1>6. PICK g \in Frames :
          /\ k2.tx = Append(k.tx, g) /\ g \in Tcps /\ g.host = r /\ g.port = p
          /\ g.ack = k2.socks[fd].ack /\ k2.hist.muted = k.hist.muted
  <2>1. PICK g \in Frames :
          /\ k2.tx = Append(k.tx, g)
          /\ \/ /\ g \in Tcps /\ g.host = k2.socks[fd].rip /\ g.port = k2.socks[fd].lport
                /\ g.ack = k2.socks[fd].ack /\ k2.hist.muted = k.hist.muted
             \/ k2.hist.muted = k.hist.muted \cup {<<k2.socks[fd].rip, k2.socks[fd].lport>>}
    BY <1>5 DEF Sent
  <2>2. k2.socks[fd].rip = r /\ k2.socks[fd].lport = p
    BY <1>5 DEF Has, Alike
  <2>3. <<r, p>> \notin k2.hist.muted
    BY DEF Fine
  <2> QED BY <2>1, <2>2, <2>3
<1>7. k2.hist.log[fd] = k.hist.log[fd] \o kept
  BY <1>5, <1>6 DEF Fine, Conn
<1>8. PICK L, log : L = Len(k.hist.log[fd]) /\ log = k.hist.log[fd]
  OBVIOUS
<1>9. log \in Seq(Nat) /\ L = Len(log) /\ L \in Nat
  BY <1>8, LogIs
<1>10. PICK M, log2 : M = Len(k2.hist.log[fd]) /\ log2 = k2.hist.log[fd]
  OBVIOUS
<1>11. /\ Len(log2) = L + n /\ M = L + n /\ M \in Nat
       /\ \A i \in 1 .. L : log2[i] = log[i]
       /\ \A i \in 1 .. n : log2[L + i] = kept[i]
  <2>1. log2 = log \o kept
    BY <1>7, <1>8, <1>10
  <2>2. kept \in Seq(Nat) /\ Len(kept) = n /\ n \in Nat
    BY <1>1, <1>4
  <2>3. Len(log2) = L + n
    BY <1>9, <2>1, <2>2
  <2>4. \A i \in 1 .. L : log2[i] = log[i]
    BY <1>9, <2>1, <2>2
  <2>5. ASSUME NEW i \in 1 .. n PROVE log2[L + i] = kept[i]
    <3>1. L + i \in L + 1 .. L + n /\ (L + i) - L = i
      BY <1>9, <2>2
    <3> QED BY <1>9, <2>1, <2>2, <3>1
  <2> QED BY <1>9, <1>10, <2>2, <2>3, <2>4, <2>5
<1>12. /\ L <= Stream /\ \A i \in 1 .. L : log[i] = i
       /\ OnTrack(k, q, pr, r, p, L) /\ (pr[r].port = p => Fits(pr[r], L, k.socks[fd].ack))
  BY <1>8 DEF Good, Listener
<1>13. f.seq = L + 1
  BY <1>1, <1>2, <1>12 DEF OnTrack
<1>14. M <= Stream
  <2>1. PICK z : z = Len(f.data)
    OBVIOUS
  <2>2. z \in Nat /\ f.seq + z <= Stream + 1 /\ n \in 0 .. z
    BY <1>1, <1>4, <2>1
  <2>3. L + 1 + z <= Stream + 1 /\ n <= z /\ n \in Nat
    BY <1>13, <2>2
  <2>4. Stream \in Nat
    BY <1>1
  <2>5. L + n <= Stream
    BY <1>9, <2>2, <2>3, <2>4
  <2> QED BY <1>11, <2>5
<1>15. ASSUME NEW i \in 1 .. M PROVE log2[i] = i
  <2>1. CASE i <= L
    BY <1>9, <1>11, <1>12, <2>1
  <2>2. CASE i > L
    <3>1. PICK j : j = i - L
      OBVIOUS
    <3>2. j \in 1 .. n /\ i = L + j /\ j \in 1 .. Len(f.data)
      <4>1. /\ i \in 1 .. M /\ M = L + n /\ L \in Nat /\ n \in Nat /\ n <= Len(f.data)
            /\ Len(f.data) \in Nat
        BY <1>1, <1>4, <1>9, <1>11
      <4> QED BY <2>2, <3>1, <4>1
    <3>3. log2[i] = f.data[j]
      <4>0. j \in 1 .. n
        BY <3>2
      <4>1. log2[L + j] = kept[j]
        BY <1>11, <4>0, Zenon
      <4>2. kept[j] = f.data[j]
        BY <1>4, <3>2
      <4> QED BY <3>2, <4>1, <4>2
    <3>4. f.data[j] = L + 1 + j - 1
      BY <1>1, <1>13, <3>2
    <3> QED BY <1>1, <1>4, <1>9, <3>2, <3>3, <3>4
  <2> QED BY <1>9, <1>11, <2>1, <2>2
<1>16. \A i \in 1 .. Len(q2) : ~Bears(q2[i], r, p)
  BY <1>1, <1>2, <1>12 DEF OnTrack
<1>17. /\ \A i \in 1 .. Len(k2.tx) : k2.tx[i] = g \/ (\E j \in 1 .. Len(k.tx) : k2.tx[i] = k.tx[j])
       /\ \E i \in 1 .. Len(k2.tx) : k2.tx[i] = g
  BY <1>6, OneMore
<1>18. g.ack = M + 1 /\ Of(g, r, p) /\ k2.socks[fd].ack = M + 1
  <2>1. g.kind = "tcp"
    BY <1>6 DEF Tcps
  <2>2. f.seq + n = M + 1
    BY <1>4, <1>9, <1>11, <1>13
  <2> QED BY <1>5, <1>6, <2>1, <2>2 DEF Of
<1>19. ASSUME pr[r].port = p
       PROVE  /\ pr[r].una = L /\ pr[r].fly
              /\ pr[r].una <= M
              /\ \A i \in 1 .. Len(k2.tx) : Of(k2.tx[i], r, p) => Fits(pr[r], M, k2.tx[i].ack)
  <2>1. pr[r].una = L /\ pr[r].fly
    BY <1>1, <1>2, <1>12, <1>19 DEF OnTrack
  <2>2. ASSUME NEW i \in 1 .. Len(k2.tx), Of(k2.tx[i], r, p) PROVE Fits(pr[r], M, k2.tx[i].ack)
    <3>1. CASE k2.tx[i] = g
      BY <1>18, <3>1 DEF Fits
    <3>2. CASE \E j \in 1 .. Len(k.tx) : k2.tx[i] = k.tx[j]
      <4>1. Fits(pr[r], L, k2.tx[i].ack)
        BY <1>12, <1>19, <2>2, <3>2 DEF OnTrack
      <4> QED BY <1>9, <2>1, <4>1 DEF Fits
    <3> QED BY <1>17, <3>1, <3>2
  <2> QED BY <1>4, <1>9, <1>11, <2>1, <2>2
<1>20. OnTrack(k2, q2, pr, r, p, M)
  <2>1. \E i \in 1 .. Len(k2.tx) : Of(k2.tx[i], r, p) /\ k2.tx[i].ack = M + 1
    BY <1>17, <1>18
  <2> QED BY <1>16, <1>19, <2>1 DEF OnTrack
<1>21. Listener(k2, q2, pr, r, p, fd)
  <2>1. pr[r].port = p => Fits(pr[r], M, k2.socks[fd].ack)
    BY <1>18 DEF Fits
  <2> QED BY <1>10, <1>14, <1>15, <1>20, <2>1 DEF Listener
<1>22. \A d \in Fds : Has(k2.socks[d], r, p) <=> Has(k.socks[d], r, p)
  BY <1>5 DEF Base, Has, Alike
<1>23. Alone(k2, r, p)
  BY <1>22 DEF Good, Alone
<1>24. \A d \in Fds : Has(k2.socks[d], r, p) => d = fd
  BY <1>22 DEF Good, Alone
<1>25. ~Fresh(pr, r, p)
  BY <1>1, <1>2 DEF Good, New, Bears
<1>26. ASSUME NEW i \in 1 .. Len(q2), Calls1(q2[i], r, p) PROVE FALSE
  <2>1. Called(k, q, pr, r, p, i + 1)
    BY <1>1, <1>26 DEF Good
  <2>2. 1 \in 1 .. i + 1
    BY <1>1
  <2> QED BY <1>2, <2>1, <2>2 DEF Called
<1>27. Ended(q2, pr, r, p)
  BY <1>1 DEF Good, Ended
<1> QED BY <1>21, <1>23, <1>24, <1>25, <1>26, <1>27 DEF Good

\* A segment of a connection that was not disturbed.
LEMMA TcpGood ==
    ASSUME NEW k \in Kernels, NEW e \in Nat, Sound(k, e), conf.gw \in Hosts,
           NEW q \in Queue, NEW q2 \in Queue, Rest(q, q2), NEW pr \in Peers,
           NEW f \in Heard, q[1] = f, InOK(k, e, f), NEW r, NEW p, r = f.host, p = f.port,
           Tidy(k, q, pr), NEW k2, k2 = handle_tcp(k, f), Fine(k2, r, p)
    PROVE  Good(k2, q2, pr, r, p)
<1>1. PICK k1, F : TcpRun(k, f, k2, e, k1, F)
  BY TcpRuns
<1>2. f \in Tcps /\ f.host \in Remote /\ f.port \in Nat /\ Shared(k, f) \in SUBSET Conns
  <2>1. f \in Tcps /\ f.host \in Remote /\ f.port \in Nat
    BY FramesDiffer DEF Heard
  <2> QED BY <2>1, NamesDiffer DEF Shared, Conn, Conns
<1>3. /\ Later(k.hist, k1.hist) /\ Later(k1.hist, k2.hist) /\ Later(k.hist, k2.hist)
      /\ k2 \in Kernels
  <2>1. NSock \in 0 .. NSock
    BY NetAssumption
  <2>2. Under(k1, F[NSock], e, f.host, f.port) /\ k2 = F[NSock].k /\ Turn(k, k1, e, f.host, f.port)
    BY <1>1, <2>1 DEF TcpRun
  <2> QED BY <2>2 DEF Under, Turn, Later
<1>4. Conn(f) \notin Shared(k, f)
  <2>1. k1 = Mute(k, Shared(k, f))
    BY <1>1 DEF TcpRun
  <2>2. k1.hist.muted = k.hist.muted \cup Shared(k, f)
    BY <1>2, <2>1, MuteIs
  <2> QED BY <1>3, <2>2 DEF Fine, Later, Conn
<1>5. \A a, b \in Takers(k, f) : a = b
  BY <1>4 DEF Shared
<1>6. Good(k, q, pr, r, p)
  <2>1. Fine(k, r, p)
    BY <1>3, FineBefore
  <2> QED BY <1>2, <2>1 DEF Tidy
<1>7. Piece(k, f)
  BY HeardIsPiece
<1>8. CASE Takers(k, f) = {}
  <2>1. k2 = k
    <3>1. PICK fd \in Nat : fd = 0
      OBVIOUS
    <3>2. k2 = Take([k |-> k, f |-> f], fd).k \/ k2 = k
      BY <1>8, <3>1, OneTakes
    <3>3. Take([k |-> k, f |-> f], fd).k = k
      BY <1>8 DEF Take
    <3> QED BY <3>2, <3>3
  <2>2. ASSUME NEW d \in Fds, Has(k.socks[d], r, p) PROVE FALSE
    BY <1>8, <2>2, HasTakes
  <2>3. Says(k, k, pr, r, p) /\ Tells(k, k, pr, r, p)
    BY SentSays
  <2>4. Slides(q, q2, r, p)
    BY RestSlides
  <2>5. Calm(k, q, k, q2, pr, r, p)
    BY <2>2, <2>3, <2>4 DEF Calm
  <2> QED BY <1>2, <1>6, <2>1, <2>5, CalmGood
<1>9. CASE Takers(k, f) # {}
  <2>1. PICK fd \in Takers(k, f) : Takers(k, f) \subseteq {fd}
    BY <1>5, <1>9
  <2>2. fd \in Fds /\ fd \in Nat /\ k.socks[fd].used /\ k.socks[fd].type = "tcp"
        /\ (Listens(k.socks[fd], f) \/ Speaks(k.socks[fd], f))
    BY NetAssumption DEF Takers, Fds
  <2>3. PICK o : o = [k |-> k, f |-> f]
    OBVIOUS
  <2>4. k2 = Take(o, fd).k /\ o.k = k /\ o.f = f
    <3>1. k2 = Take([k |-> k, f |-> f], fd).k
      BY <1>9, <2>1, <2>2, OneTakes
    <3> QED BY <2>3, <3>1
  <2>5. CASE Listens(k.socks[fd], f)
    <3>1. PICK k3 : k3 = TakeSyn(k, fd, f)
      OBVIOUS
    <3>2. k2 = k3
      BY <2>3, <2>4, <2>5, <3>1 DEF Take
    <3> QED BY <1>6, <2>1, <2>5, <3>1, <3>2, SynGood
  <2>6. CASE ~Listens(k.socks[fd], f)
    <3>1. Has(k.socks[fd], r, p)
      BY <2>2, <2>6 DEF Speaks, Has
    <3>2. PICK a : a = TakeAck(k, fd, f)
      OBVIOUS
    <3>3. PICK b : b = TakeData(a, fd, f)
      OBVIOUS
    <3>4. PICK c : c = TakeFin(b, fd, f)
      OBVIOUS
    <3>5. k2 = c
      BY <2>4, <2>6, <3>2, <3>3, <3>4 DEF Take
    <3>6. CASE f.data = <<>>
      <4>1. Calm(k, q, c, q2, pr, r, p)
        BY <1>6, <2>2, <3>1, <3>2, <3>3, <3>4, <3>6, FlagsCalm
      <4>2. c \in Kernels
        BY <1>3, <3>5
      <4> QED BY <1>2, <1>6, <3>5, <4>1, <4>2, CalmGood
    <3>7. CASE f.data # <<>>
      <4>1. /\ Base(k, a, fd) /\ a.tx = k.tx /\ a.socks[fd].ack = k.socks[fd].ack
            /\ Alike(k.socks[fd], a.socks[fd]) /\ a.socks[fd].rip = k.socks[fd].rip
            /\ a.hist.log[fd] = k.hist.log[fd]
        <5>1. "SYN" \notin f.flags
          BY <3>7 DEF Heard
        <5>2. fd \in Fds /\ f \in Tcps
          BY <1>2, <2>2
        <5> QED BY <3>2, <5>1, <5>2, TakeAckDoes
      <4>2. a \in Kernels /\ Turn(k, a, e, f.host, f.port) /\ Sound(a, e) /\ Has(a.socks[fd], f.host, f.port)
        <5>1. Turn(k, a, e, f.host, f.port) /\ Has(a.socks[fd], f.host, f.port)
          BY <1>7, <2>2, <3>1, <3>2, AckTurns
        <5> QED BY <5>1 DEF Turn
      <4>3. InOK(a, e, f) /\ Piece(a, f)
        <5>1. Later(k.hist, a.hist)
          BY <4>2 DEF Turn
        <5> QED BY <1>7, <5>1, InLater, PieceLater
      <4>4. Good(a, q, pr, r, p)
        <5>1. Slides(q, q, r, p)
          BY DEF Slides, Queue
        <5>2. Says(k, a, pr, r, p) /\ Tells(k, a, pr, r, p)
          BY <4>1, SentSays
        <5>3. ASSUME NEW d \in Fds, Has(a.socks[d], r, p) PROVE GoesOn(k, a, pr, r, p, d)
          <6>1. CASE d = fd
            BY <3>1, <4>1, <6>1 DEF GoesOn
          <6>2. CASE d # fd
            BY <4>1, <5>3, <6>2 DEF GoesOn, Base
          <6> QED BY <6>1, <6>2
        <5>4. Calm(k, q, a, q, pr, r, p)
          BY <5>1, <5>2, <5>3 DEF Calm
        <5> QED BY <1>2, <1>6, <4>2, <5>4, CalmGood
      <4>5. b \in Kernels /\ Turn(a, b, e, f.host, f.port) /\ Sound(b, e) /\ Has(b.socks[fd], f.host, f.port)
        <5>1. Turn(a, b, e, f.host, f.port) /\ Has(b.socks[fd], f.host, f.port)
          BY <2>2, <3>3, <4>2, <4>3, DataTurns
        <5> QED BY <5>1 DEF Turn
      <4>6. "FIN" \notin f.flags
        <5>1. SUFFICES ASSUME "FIN" \in f.flags PROVE FALSE
          OBVIOUS
        <5>2. c.hist.finned = Finned(b, f)
          BY <1>2, <2>2, <3>4, <4>5, <5>1, TakeFinDoes
        <5>3. Conn(f) \in c.hist.finned
          BY <3>7, <5>2 DEF Finned
        <5> QED BY <3>5, <5>3 DEF Fine, Conn
      <4>7. c = b
        BY <3>4, <4>6 DEF TakeFin
      <4>8. Fine(b, r, p) /\ Has(a.socks[fd], r, p)
        BY <3>5, <4>2, <4>7
      <4> QED BY <2>2, <3>3, <3>5, <3>7, <4>2, <4>3, <4>4, <4>7, <4>8, DataGood
    <3> QED BY <3>6, <3>7
  <2> QED BY <2>5, <2>6
<1> QED BY <1>8, <1>9

\* Handling the first frame of the queue keeps every connection in order.
LEMMA HandleTidy ==
    ASSUME NEW k \in Kernels, NEW e \in Nat, Sound(k, e), conf.gw \in Hosts,
           NEW q \in Queue, NEW q2 \in Queue, Rest(q, q2), NEW pr \in Peers,
           NEW f \in Heard \cup Near, q[1] = f, InOK(k, e, f),
           Tidy(k, q, pr), NEW k2, k2 = handle_frame(k, f)
    PROVE  Tidy(k2, q2, pr)
<1>1. Turn(k, k2, e, f.host, f.port)
  BY HandleTurns
<1>2. k2 \in Kernels /\ Later(k.hist, k2.hist)
  BY <1>1 DEF Turn
<1>3. ASSUME NEW r \in Remote, NEW p \in Nat, Fine(k2, r, p) PROVE Good(k2, q2, pr, r, p)
  <2>1. CASE r # f.host \/ p # f.port
    <3>1. Calm(k, q, k2, q2, pr, r, p)
      BY <1>1, <2>1, OthersCalm
    <3>2. Good(k, q, pr, r, p)
      BY <1>2, <1>3, FineBefore DEF Tidy
    <3> QED BY <1>2, <3>1, <3>2, CalmGood
  <2>2. CASE r = f.host /\ p = f.port
    <3>1. f \in Heard
      BY <2>2, NamesDiffer DEF Near
    <3>2. k2 = handle_tcp(k, f)
      <4>1. f.kind = "tcp"
        BY <3>1, FramesDiffer DEF Heard
      <4> QED BY <4>1 DEF handle_frame
    <3> QED BY <1>3, <2>2, <3>1, <3>2, TcpGood
  <2> QED BY <2>1, <2>2
<1> QED BY <1>3 DEF Tidy

-----------------------------------------------------------------------------
(* A round of polling, and a call, keep the streams in order.               *)

\* What is left of a queue after m frames.
After(q, m) == SubSeq(q, m + 1, Len(q))

\* What that is.
LEMMA AfterIs ==
    ASSUME NEW q \in Queue, NEW m \in 0 .. Len(q), NEW r, r = After(q, m)
    PROVE  r \in Queue /\ Len(r) = Len(q) - m /\ \A i \in 1 .. Len(r) : r[i] = q[m + i]
<1>1. PICK S : S = Heard \cup Near
  OBVIOUS
<1>2. q \in Seq(S) /\ Len(q) \in Nat /\ r = SubSeq(q, m + 1, Len(q))
  BY <1>1 DEF Queue, After
<1>3. r \in Seq(S) /\ Len(r) = Len(q) - m
  BY <1>2
<1>4. ASSUME NEW i \in 1 .. Len(r) PROVE r[i] = q[m + i]
  <2>1. r[i] = q[(m + 1) + i - 1] /\ (m + 1) + i - 1 = m + i
    BY <1>2, <1>3
  <2> QED BY <2>1
<1> QED BY <1>1, <1>3, <1>4 DEF Queue

\* One frame more is handled.
LEMMA AfterRest ==
    ASSUME NEW q \in Queue, NEW m \in 0 .. Len(q) - 1
    PROVE  /\ After(q, m) \in Queue /\ After(q, m + 1) \in Queue
           /\ Rest(After(q, m), After(q, m + 1)) /\ After(q, m)[1] = q[m + 1]
<1>1. PICK r, r2 : r = After(q, m) /\ r2 = After(q, m + 1)
  OBVIOUS
<1>2. Len(q) \in Nat /\ m \in 0 .. Len(q) /\ m + 1 \in 0 .. Len(q)
  BY DEF Queue
<1>3. r \in Queue /\ Len(r) = Len(q) - m /\ \A i \in 1 .. Len(r) : r[i] = q[m + i]
  BY <1>1, <1>2, AfterIs
<1>4. r2 \in Queue /\ Len(r2) = Len(q) - (m + 1) /\ \A i \in 1 .. Len(r2) : r2[i] = q[m + 1 + i]
  BY <1>1, <1>2, AfterIs
<1>5. ASSUME NEW i \in 1 .. Len(r2) PROVE r2[i] = r[i + 1]
  <2>1. i + 1 \in 1 .. Len(r) /\ m + (i + 1) = m + 1 + i
    BY <1>2, <1>3, <1>4
  <2> QED BY <1>3, <1>4, <2>1
<1>6. 1 \in 1 .. Len(r) /\ Len(r) = Len(r2) + 1
  BY <1>2, <1>3, <1>4
<1> QED BY <1>1, <1>3, <1>4, <1>5, <1>6 DEF Rest

\* Polling keeps every connection in order.
LEMMA PolledTidy ==
    ASSUME NEW k \in Kernels, NEW e \in Nat, Sound(k, e), conf.gw \in Hosts, rx \in Queue,
           \A i \in 1 .. Len(rx) : InOK(k, e, rx[i]), NEW pr \in Peers, Tidy(k, rx, pr),
           NEW k2, k2 = Polled(k)
    PROVE  Tidy(k2, Unpolled, pr) /\ Unpolled \in Queue
<1>1. PollMax \in Nat
  BY NetAssumption
<1>2. PICK n : n = Lo(PollMax, Len(rx))
  OBVIOUS
<1>3. /\ n \in 0 .. Len(rx)
      /\ \E F : /\ F[0] = k /\ F[n] = Polled(k)
                /\ \A i \in 1 .. n : F[i] = handle_frame(F[i - 1], rx[i])
  <2>1. rx \in Seq(Heard \cup Near)
    BY Zenon DEF Queue
  <2>2. LET j == Lo(PollMax, Len(rx))
        IN  /\ j \in 0 .. Len(rx)
            /\ \E F : /\ F[0] = k /\ F[j] = Polled(k)
                      /\ \A i \in 1 .. j : F[i] = handle_frame(F[i - 1], rx[i])
    BY <1>1, <2>1, PolledRuns, Zenon
  <2> QED BY <1>2, <2>2, Zenon
<1>4. PICK F : /\ F[0] = k /\ F[n] = Polled(k)
               /\ \A i \in 1 .. n : F[i] = handle_frame(F[i - 1], rx[i])
  BY <1>3
<1>5. Len(rx) \in Nat /\ n \in Nat
  BY <1>3 DEF Queue
<1> DEFINE T == {m \in 0 .. n : Poll(k, F[m], e) /\ Tidy(F[m], After(rx, m), pr)}
<1>6. 0 \in T
  <2>1. After(rx, 0) = rx
    BY <1>5 DEF After, Queue
  <2> QED BY <1>4, <1>5, <2>1, PollStays
<1>7. ASSUME NEW m \in 0 .. n - 1, m \in T PROVE m + 1 \in T
  <2>1. /\ m + 1 \in 1 .. n /\ (m + 1) - 1 = m /\ m + 1 \in 1 .. Len(rx) /\ m + 1 \in 0 .. n
        /\ m \in 0 .. Len(rx) - 1
    BY <1>3, <1>5
  <2>2. PICK a, b, f, q, q2 : /\ a = F[m] /\ b = F[m + 1] /\ f = rx[m + 1]
                              /\ q = After(rx, m) /\ q2 = After(rx, m + 1)
    OBVIOUS
  <2>3. b = handle_frame(a, f)
    BY <1>4, <2>1, <2>2
  <2>4. Poll(k, a, e) /\ Tidy(a, q, pr)
    BY <1>7, <2>2
  <2>5. a \in Kernels /\ Sound(a, e) /\ Later(k.hist, a.hist)
    BY <2>4 DEF Poll
  <2>6. f \in Heard \cup Near
    BY <2>1, <2>2 DEF Queue
  <2>7. InOK(a, e, f)
    <3>1. InOK(k, e, f)
      BY <2>1, <2>2
    <3> QED BY <2>5, <3>1, InLater
  <2>8. Turn(a, b, e, f.host, f.port)
    BY <2>3, <2>5, <2>6, <2>7, HandleTurns
  <2>9. Poll(a, b, e)
    BY <2>8, TurnPolls
  <2>10. Poll(k, b, e)
    BY <2>4, <2>9, PollTrans
  <2>11. q \in Queue /\ q2 \in Queue /\ Rest(q, q2) /\ q[1] = f
    BY <2>1, <2>2, AfterRest
  <2>12. Tidy(b, q2, pr)
    BY <2>3, <2>4, <2>5, <2>6, <2>7, <2>11, HandleTidy
  <2> QED BY <2>1, <2>2, <2>10, <2>12
<1>8. \A m \in 0 .. n : m \in T
  <2> HIDE DEF T
  <2> QED BY <1>5, <1>6, <1>7, Climb, Zenon
<1>9. n \in 0 .. n /\ Unpolled = After(rx, n)
  BY <1>2, <1>5 DEF Unpolled, After
<1>10. After(rx, n) \in Queue
  BY <1>3, AfterIs
<1> QED BY <1>4, <1>8, <1>9, <1>10

\* A socket that goes on with the connection it had.
SameEnd(s, s2) == s2.rip = s.rip /\ s2.lport = s.lport /\ s2.ack = s.ack

\* A queue that stays as it is.
LEMMA StillSlides ==
    ASSUME NEW q \in Queue, NEW r, NEW p
    PROVE  Slides(q, q, r, p)
BY DEF Slides, Queue

\* A call that changes one socket, which goes on with its connection if it has one
\* with a remote host, and sends no more than what was acknowledged before.
LEMMA CallTidy ==
    ASSUME NEW k \in Kernels, NEW k2 \in Kernels, NEW fd \in Fds, Base(k, k2, fd), Later(k.hist, k2.hist),
           NEW q \in Queue, NEW pr \in Peers, Tidy(k, q, pr),
           k2.socks[fd].rip \in Remote =>
               SameEnd(k.socks[fd], k2.socks[fd]) /\ k2.hist.log[fd] = k.hist.log[fd],
           k2.tx = k.tx \/ (\E g \in Frames : /\ k2.tx = Append(k.tx, g)
                                              /\ \A r \in Remote, p \in Nat : Harmless(g, k, pr, r, p))
    PROVE  Tidy(k2, q, pr)
<1>1. ASSUME NEW r \in Remote, NEW p \in Nat PROVE Calm(k, q, k2, q, pr, r, p)
  <2>1. Says(k, k2, pr, r, p) /\ Tells(k, k2, pr, r, p)
    BY SentSays
  <2>2. ASSUME NEW d \in Fds, Has(k2.socks[d], r, p) PROVE GoesOn(k, k2, pr, r, p, d)
    <3>1. CASE d = fd
      BY <2>2, <3>1 DEF GoesOn, SameEnd, Has
    <3>2. CASE d # fd
      BY <2>2, <3>2 DEF GoesOn, Base
    <3> QED BY <3>1, <3>2
  <2> QED BY <2>1, <2>2, StillSlides DEF Calm
<1> QED BY <1>1, CalmTidy

\* A call that changes no socket, and sends no segment.
LEMMA PlainTidy ==
    ASSUME NEW k \in Kernels, NEW k2 \in Kernels, Later(k.hist, k2.hist),
           k2.socks = k.socks, k2.hist.log = k.hist.log,
           NEW q \in Queue, NEW pr \in Peers, Tidy(k, q, pr),
           k2.tx = k.tx \/ (\E g \in Frames : k2.tx = Append(k.tx, g) /\ g.kind # "tcp")
    PROVE  Tidy(k2, q, pr)
<1>1. ASSUME NEW r \in Remote, NEW p \in Nat PROVE Calm(k, q, k2, q, pr, r, p)
  <2>1. \A g : g.kind # "tcp" => Harmless(g, k, pr, r, p)
    BY DEF Harmless, Of
  <2>2. Says(k, k2, pr, r, p) /\ Tells(k, k2, pr, r, p)
    BY <2>1, SentSays
  <2>3. \A d \in Fds : Has(k2.socks[d], r, p) => GoesOn(k, k2, pr, r, p, d)
    BY DEF GoesOn
  <2> QED BY <2>2, <2>3, StillSlides DEF Calm
<1> QED BY <1>1, CalmTidy

-----------------------------------------------------------------------------
(* The invariant, and the steps that only poll.                             *)

\* A call that polls has a socket; a connect's is the one with the last port given.
CallOK(c, k, e) ==
    /\ c \in [op: {None, "accept", "connect", "recv"}, fd: Nat, syns: Nat]
    /\ c # NoCall => c.fd \in Fds
    /\ c.op = "connect" => k.socks[c.fd].rip = Server /\ k.socks[c.fd].lport = e - 1
\* The inductive invariant.
NetInv ==
    /\ K \in Kernels /\ rx \in Queue /\ peer \in Peers /\ eph \in Nat /\ eph >= FirstEphemeral
    /\ conf.gw \in Hosts /\ CallOK(call, K, eph)
    /\ Talk(K, rx, peer, eph) /\ InTurn(K, peer) /\ Tidy(K, rx, peer)

\* The kernel's state is the variables.
LEMMA KIs ==
    K.socks = socks /\ K.arp = arp /\ K.tx = tx /\ K.hist = hist
BY DEF K

\* Becoming k makes the state k.
LEMMA BecomeIs ==
    ASSUME NEW k \in Kernels, Become(k)
    PROVE  K' = k
<1>1. K' = [socks |-> k.socks, arp |-> k.arp, tx |-> k.tx, hist |-> k.hist]
  BY DEF K, Become
<1>2. k = [socks |-> k.socks, arp |-> k.arp, tx |-> k.tx, hist |-> k.hist]
  BY DEF Kernels
<1> QED BY <1>1, <1>2, Zenon

\* Nothing changes when no variable does.
LEMMA KStays ==
    ASSUME UNCHANGED <<socks, arp, tx, hist>>
    PROVE  K' = K
BY DEF K

\* What polling leaves was in the queue.
LEMMA UnpolledIs ==
    ASSUME rx \in Queue
    PROVE  Unpolled \in Queue /\ \A i \in 1 .. Len(Unpolled) : \E j \in 1 .. Len(rx) : Unpolled[i] = rx[j]
<1>1. rx \in Seq(Heard \cup Near) /\ Len(rx) \in Nat /\ PollMax \in Nat
  BY NetAssumption DEF Queue
<1>2. PICK n \in 0 .. Len(rx) : n = Lo(PollMax, Len(rx))
  BY <1>1 DEF Lo
<1>3. PICK u : u = SubSeq(rx, n + 1, Len(rx))
  OBVIOUS
<1>4. u \in Seq(Heard \cup Near) /\ Len(u) = Len(rx) - n /\ \A i \in 1 .. Len(u) : u[i] = rx[n + i]
  BY <1>1, <1>3
<1>5. \A i \in 1 .. Len(u) : n + i \in 1 .. Len(rx)
  BY <1>1, <1>4
<1>6. \A i \in 1 .. Len(u) : \E j \in 1 .. Len(rx) : u[i] = rx[j]
  BY <1>4, <1>5
<1>7. Unpolled = u
  BY <1>2, <1>3 DEF Unpolled
<1> QED BY <1>4, <1>6, <1>7 DEF Queue

\* A step of this machine's that leaves the peers alone.
LEMMA StepOf ==
    ASSUME NetInv, NEW k2, K' = k2, Poll(K, k2, eph), eph' = eph, peer' = peer, conf'.gw \in Hosts,
           rx' = rx \/ rx' = Unpolled, CallOK(call', k2, eph), Tidy(k2, rx', peer)
    PROVE  NetInv'
<1>1. /\ K \in Kernels /\ rx \in Queue /\ peer \in Peers /\ eph \in Nat /\ eph >= FirstEphemeral
      /\ Talk(K, rx, peer, eph) /\ InTurn(K, peer)
  BY DEF NetInv
<1>2. rx' \in Queue /\ \A i \in 1 .. Len(rx') : \E j \in 1 .. Len(rx) : rx'[i] = rx[j]
  BY <1>1, UnpolledIs
<1>3. Talk(k2, rx', peer, eph) /\ InTurn(k2, peer)
  BY <1>1, <1>2, TalkGoesOn
<1>4. k2 \in Kernels
  BY DEF Poll
<1>5. /\ K' \in Kernels /\ rx' \in Queue /\ peer' \in Peers /\ eph' \in Nat /\ eph' >= FirstEphemeral
      /\ conf'.gw \in Hosts /\ CallOK(call', K', eph')
      /\ Talk(K', rx', peer', eph') /\ InTurn(K', peer') /\ Tidy(K', rx', peer')
  BY <1>1, <1>2, <1>3, <1>4
<1> QED BY <1>5 DEF NetInv

\* What polling makes of the state.
LEMMA PolledIs ==
    ASSUME NetInv
    PROVE  /\ Poll(K, Polled(K), eph) /\ Steady(K, Polled(K)) /\ Polled(K) \in Kernels
           /\ Tidy(Polled(K), Unpolled, peer) /\ Unpolled \in Queue
<1>1. PICK k2 : k2 = Polled(K)
  OBVIOUS
<1>2. /\ K \in Kernels /\ eph \in Nat /\ Sound(K, eph) /\ conf.gw \in Hosts /\ rx \in Queue
      /\ \A i \in 1 .. Len(rx) : InOK(K, eph, rx[i])
  BY DEF NetInv, Talk
<1>3. Poll(K, k2, eph) /\ Steady(K, k2)
  BY <1>1, <1>2, PolledPolls
<1>4. peer \in Peers /\ Tidy(K, rx, peer)
  BY DEF NetInv
<1>5. Tidy(k2, Unpolled, peer) /\ Unpolled \in Queue
  BY <1>1, <1>2, <1>4, PolledTidy
<1> QED BY <1>1, <1>3, <1>5 DEF Poll

\* Polling keeps the call that polls.
LEMMA CallSteady ==
    ASSUME NEW c, NEW k, NEW k2, NEW e, CallOK(c, k, e), Steady(k, k2)
    PROVE  CallOK(c, k2, e)
<1>1. c.op = "connect" => c # NoCall
  BY DEF NoCall, None
<1>2. c.op = "connect" => c.fd \in Fds
  BY <1>1 DEF CallOK
<1> QED BY <1>2 DEF CallOK, Steady

\* No call is a call in order.
LEMMA NoCallOK ==
    ASSUME NEW k, NEW e
    PROVE  CallOK(NoCall, k, e)
BY DEF CallOK, NoCall, None

\* Polling, from the timer or from a call that waits.
LEMMA PollingKeeps ==
    ASSUME NetInv, timer_irq \/ Spin
    PROVE  NetInv'
<1>1. PICK k2 : k2 = Polled(K)
  OBVIOUS
<1>2. Become(k2) /\ rx' = Unpolled /\ UNCHANGED <<eph, conf, call, peer>>
  BY <1>1 DEF timer_irq, Spin
<1>3. Poll(K, k2, eph) /\ Steady(K, k2) /\ k2 \in Kernels /\ Tidy(k2, rx', peer)
  BY <1>1, <1>2, PolledIs
<1>4. K' = k2
  BY <1>2, <1>3, BecomeIs
<1>5. CallOK(call', k2, eph) /\ conf'.gw \in Hosts
  BY <1>2, <1>3, CallSteady DEF NetInv
<1> QED BY <1>2, <1>3, <1>4, <1>5, StepOf

\* Every set of numbers up to n that is not empty has a greatest one.
LEMMA GreatestIn ==
    ASSUME NEW n \in Nat, NEW S \in SUBSET (1 .. n), S # {}
    PROVE  \E i \in S : \A j \in S : j <= i
<1> DEFINE T == {m \in Nat : \A j \in S : j <= m}
<1>1. n \in T
  OBVIOUS
<1>2. PICK m \in T : \A j \in T : m <= j
  <2>1. T \in SUBSET Nat /\ T # {}
    BY <1>1
  <2> HIDE DEF T
  <2> QED BY <2>1, LeastNat
<1>3. CASE m \in S
  BY <1>2, <1>3
<1>4. CASE m \notin S
  <2>a. PICK i : i \in S
    OBVIOUS
  <2>0. i \in S /\ i \in Nat /\ 1 <= i
    BY <2>a
  <2>1. m # 0
    BY <1>2, <2>0
  <2>2. m - 1 \in Nat /\ \A j \in S : j <= m - 1
    BY <1>2, <1>4, <2>1
  <2>3. m - 1 \in T
    BY <2>2
  <2> QED BY <1>2, <2>3
<1> QED BY <1>3, <1>4

\* net_start_dhcp: the gateway is a host, whatever the lines of the file.
LEMMA ConfKeeps ==
    ASSUME NetInv, net_start_dhcp
    PROVE  NetInv'
<1> DEFINE at == {i \in 1 .. Len(NetConf) : NetConf[i][1] = "gw"}
           gw == IF at = {} THEN Gw ELSE NetConf[CHOOSE i \in at : \A j \in at : j <= i][2]
<1>1. gw \in Hosts
  <2>1. CASE at = {}
    BY <2>1, NamesDiffer
  <2>2. CASE at # {}
    <3>1. Len(NetConf) \in Nat /\ at \in SUBSET (1 .. Len(NetConf))
      BY NetAssumption
    <3>2. \E i \in at : \A j \in at : j <= i
      <4> HIDE DEF at
      <4> QED BY <2>2, <3>1, GreatestIn
    <3>3. PICK i : i = CHOOSE x \in at : \A j \in at : j <= x
      OBVIOUS
    <3>4. i \in at
      <4> HIDE DEF at
      <4> QED BY <3>2, <3>3, Zenon
    <3>5. gw = NetConf[i][2]
      BY <2>2, <3>3
    <3> QED BY <3>4, <3>5 DEF Hosts
  <2> QED BY <2>1, <2>2
<1>2. conf'.gw = gw
  BY DEF net_start_dhcp
<1>3. UNCHANGED <<socks, arp, eph, rx, tx, call, peer, hist>>
  BY DEF net_start_dhcp
<1>4. K' = K
  BY <1>3, KStays
<1>5. Poll(K, K, eph) /\ CallOK(call', K, eph) /\ Tidy(K, rx', peer)
  BY <1>3, PollStays DEF NetInv, Talk
<1> HIDE DEF gw
<1> QED BY <1>1, <1>2, <1>3, <1>4, <1>5, StepOf

\* A free socket.
LEMMA FreeIs ==
    /\ Free \in Sock /\ Free.rbuf = <<>> /\ Free.rip = None /\ ~Free.connected /\ ~Free.listening
    /\ Free.lport = 0
BY NamesDiffer DEF Free, Sock, Bytes

\* An empty buffer is not too long.
LEMMA EmptyFits ==
    Len(<<>>) <= BufSize /\ Len(<<>>) = 0 /\ <<>> \in Bytes
BY NetAssumption DEF Bytes

-----------------------------------------------------------------------------
(* The calls that touch one socket.                                         *)

\* The parts of the invariant that the calls use.
LEMMA NowOK ==
    ASSUME NetInv
    PROVE  /\ K \in Kernels /\ Sound(K, eph) /\ eph \in Nat /\ hist \in Hist /\ socks \in [Fds -> Sock]
           /\ conf.gw \in Hosts
           /\ \A d \in Fds : SockOK(K, eph, socks[d])
<1>1. K \in Kernels /\ Sound(K, eph) /\ eph \in Nat /\ conf.gw \in Hosts
  BY DEF NetInv, Talk
<1>2. K.hist \in Hist /\ K.socks \in [Fds -> Sock]
  BY <1>1 DEF Kernels
<1> QED BY <1>1, <1>2, KIs DEF Sound

\* The record as a call leaves it: that of one socket begins anew or stays.
Blank(h, h2, fd) == h2 = h \/ h2 = PutLog(h, fd, <<>>)

\* Its type.
LEMMA BlankIs ==
    ASSUME NEW h \in Hist, NEW fd \in Fds, NEW h2, Blank(h, h2, fd)
    PROVE  /\ h2 \in Hist /\ \A d \in Fds \ {fd} : h2.log[d] = h.log[d]
           /\ h2.stored = h.stored /\ h2.finned = h.finned /\ h2.answered = h.answered
           /\ h2.muted = h.muted /\ (h2.log[fd] = h.log[fd] \/ h2.log[fd] = <<>>)
<1>1. CASE h2 = h
  BY <1>1
<1>2. CASE h2 = PutLog(h, fd, <<>>)
  BY <1>2, EmptyFits, LogPut
<1> QED BY <1>1, <1>2 DEF Blank

\* A socket may be replaced by one that is in order.
LEMMA PutPolls ==
    ASSUME NEW k \in Kernels, NEW e, Sound(k, e), NEW fd \in Fds, NEW s \in Sock,
           NEW h, Blank(k.hist, h, fd), SockOK(k, e, s), NEW k2, k2 = Put(k, fd, s, h)
    PROVE  /\ Poll(k, k2, e) /\ Base(k, k2, fd) /\ Later(k.hist, k2.hist) /\ SockOK(k2, e, s)
           /\ k2 \in Kernels /\ k2.socks[fd] = s /\ k2.hist = h /\ k2.tx = k.tx /\ k2.arp = k.arp
<1>0. k.hist \in Hist
  BY DEF Kernels
<1>1. /\ h \in Hist /\ \A d \in Fds \ {fd} : h.log[d] = k.hist.log[d]
      /\ h.stored = k.hist.stored /\ h.finned = k.hist.finned /\ h.answered = k.hist.answered
      /\ h.muted = k.hist.muted
  BY <1>0, BlankIs
<1>2. /\ k2 \in Kernels /\ k2.arp = k.arp /\ k2.tx = k.tx /\ k2.hist = h
      /\ k2.socks[fd] = s
      /\ \A d \in Fds \ {fd} : k2.socks[d] = k.socks[d]
  BY <1>1, SocketPut
<1>3. Base(k, k2, fd) /\ Later(k.hist, k2.hist)
  BY <1>1, <1>2 DEF Base, Later
<1>4. SockOK(k2, e, k2.socks[fd])
  BY <1>2, <1>3, SockLater
<1>5. Poll(k, k2, e)
  BY <1>2, <1>3, <1>4, CallPolls
<1> QED BY <1>2, <1>3, <1>4, <1>5

\* A socket is replaced: it goes on with its connection, or has none.
LEMMA PutTidy ==
    ASSUME NEW k \in Kernels, NEW e, Sound(k, e), NEW fd \in Fds, NEW s \in Sock,
           NEW h, Blank(k.hist, h, fd), SockOK(k, e, s), NEW k2, k2 = Put(k, fd, s, h),
           s.rip \in Remote => SameEnd(k.socks[fd], s) /\ h = k.hist,
           NEW q \in Queue, NEW pr \in Peers, Tidy(k, q, pr)
    PROVE  Tidy(k2, q, pr)
<1>1. /\ Base(k, k2, fd) /\ Later(k.hist, k2.hist)
      /\ k2 \in Kernels /\ k2.socks[fd] = s /\ k2.hist = h /\ k2.tx = k.tx
  BY PutPolls
<1>2. k2.socks[fd].rip \in Remote =>
          SameEnd(k.socks[fd], k2.socks[fd]) /\ k2.hist.log[fd] = k.hist.log[fd]
  BY <1>1
<1> QED BY <1>1, <1>2, CallTidy

\* The state when one socket and its record change.
LEMMA PutNow ==
    ASSUME NEW fd, NEW s, NEW h, socks' = [socks EXCEPT ![fd] = s], hist' = h, UNCHANGED <<arp, tx>>
    PROVE  K' = Put(K, fd, s, h)
<1>1. PICK k : k = K
  OBVIOUS
<1>2. k.socks = socks /\ k = [socks |-> socks, arp |-> arp, tx |-> tx, hist |-> hist]
  BY <1>1 DEF K
<1>3. PICK sk : sk = [socks EXCEPT ![fd] = s]
  OBVIOUS
<1>4. Put(k, fd, s, h) = [socks |-> sk, arp |-> arp, tx |-> tx, hist |-> h]
  <2>1. PICK j : j = [k EXCEPT !.socks[fd] = s]
    OBVIOUS
  <2>2. j = [k EXCEPT !.socks = sk]
    BY <1>2, <1>3, <2>1
  <2>3. j = [socks |-> sk, arp |-> arp, tx |-> tx, hist |-> hist]
    BY <1>2, <2>2
  <2>4. Put(k, fd, s, h) = [j EXCEPT !.hist = h]
    BY <2>1 DEF Put
  <2> QED BY <2>3, <2>4
<1>5. K' = [socks |-> socks', arp |-> arp', tx |-> tx', hist |-> hist']
  BY DEF K
<1> QED BY <1>1, <1>3, <1>4, <1>5

\* A call that only writes its socket.
LEMMA WritesKeep ==
    ASSUME NetInv, NEW fd \in Fds, NEW s \in Sock, SockOK(K, eph, s),
           s.rip \in Remote => SameEnd(socks[fd], s) /\ hist' = hist,
           socks' = [socks EXCEPT ![fd] = s], Blank(hist, hist', fd),
           UNCHANGED <<arp, eph, conf, rx, tx, peer>>, CallOK(call', Put(K, fd, s, hist'), eph)
    PROVE  NetInv'
<1>1. PICK h : h = hist'
  OBVIOUS
<1>2. PICK k2 : k2 = Put(K, fd, s, h)
  OBVIOUS
<1>3. K' = k2
  BY <1>1, <1>2, PutNow
<1>4. K \in Kernels /\ Sound(K, eph) /\ Blank(K.hist, h, fd) /\ conf.gw \in Hosts
  BY <1>1, NowOK, KIs
<1>5. Poll(K, k2, eph)
  BY <1>2, <1>4, PutPolls
<1>6. CallOK(call', k2, eph)
  BY <1>1, <1>2
<1>7. s.rip \in Remote => SameEnd(K.socks[fd], s) /\ h = K.hist
  BY <1>1, KIs
<1>8. Tidy(k2, rx, peer) /\ rx' = rx
  BY <1>2, <1>4, <1>7, PutTidy DEF NetInv
<1> QED BY <1>3, <1>4, <1>5, <1>6, <1>8, StepOf

\* A step that changes the call only.
LEMMA StillKeeps ==
    ASSUME NetInv, UNCHANGED <<socks, arp, eph, conf, rx, tx, peer, hist>>, CallOK(call', K, eph)
    PROVE  NetInv'
<1>1. K' = K
  BY KStays
<1>2. Poll(K, K, eph) /\ conf.gw \in Hosts
  BY NowOK, PollStays
<1>3. PICK k2 : k2 = K
  OBVIOUS
<1>4. Tidy(k2, rx', peer)
  BY <1>3 DEF NetInv
<1> QED BY <1>1, <1>2, <1>3, <1>4, StepOf

\* net_socket.
LEMMA SocketKeeps ==
    ASSUME NetInv, net_socket
    PROVE  NetInv'
<1>1. PICK fd \in Fds :
         /\ socks' = [socks EXCEPT ![fd] = [Free EXCEPT !.used = TRUE, !.type = "tcp"]]
         /\ hist' = [hist EXCEPT !.log[fd] = <<>>]
  BY DEF net_socket
<1>2. PICK s : s = [Free EXCEPT !.used = TRUE, !.type = "tcp"]
  OBVIOUS
<1>3. /\ s \in Sock /\ s.rbuf = <<>> /\ s.rip = None /\ ~s.connected /\ ~s.listening
      /\ s.used
  BY <1>2, FreeIs DEF Sock
<1>4. SockOK(K, eph, s)
  BY <1>3, EmptyFits, NamesDiffer DEF SockOK
<1>5. Blank(hist, hist', fd) /\ call' = NoCall /\ UNCHANGED <<arp, eph, conf, rx, tx, peer>>
  BY <1>1 DEF Blank, PutLog, net_socket, Idle
<1>6. s.rip \notin Remote
  BY <1>3, NamesDiffer
<1> QED BY <1>1, <1>2, <1>3, <1>4, <1>5, <1>6, NoCallOK, WritesKeep

\* The ports given out.
LEMMA PortGiven ==
    ASSUME NEW k, NEW e, NEW s, SockOK(k, e, s), s.lport = 0
    PROVE  s.rip \notin Remote /\ ~s.connected /\ ~s.listening
BY DEF SockOK, Given, ListenPort, FirstEphemeral

\* net_bind.
LEMMA BindKeeps ==
    ASSUME NetInv, NEW fd \in Fds, net_bind(fd, ListenPort)
    PROVE  NetInv'
<1>1. /\ socks[fd].lport = 0 /\ call' = NoCall
      /\ socks' = [socks EXCEPT ![fd].lport = ListenPort]
      /\ UNCHANGED <<arp, eph, conf, rx, tx, peer, hist>>
  BY DEF net_bind, Idle
<1>2. PICK s : s = socks[fd]
  OBVIOUS
<1>3. s \in Sock /\ SockOK(K, eph, s)
  BY <1>2, NowOK
<1>4. PICK s2 : s2 = [s EXCEPT !.lport = ListenPort]
  OBVIOUS
<1>5. s.rip \notin Remote /\ ~s.connected /\ ~s.listening
  BY <1>1, <1>2, <1>3, PortGiven
<1>6. /\ s2 \in Sock /\ s2.rip = s.rip /\ s2.connected = s.connected /\ s2.listening = s.listening
      /\ s2.rbuf = s.rbuf /\ s2.type = s.type /\ s2.used = s.used
  BY <1>3, <1>4 DEF Sock, ListenPort
<1>7. SockOK(K, eph, s2)
  BY <1>3, <1>5, <1>6 DEF SockOK
<1>8. socks' = [socks EXCEPT ![fd] = s2]
  BY <1>1, <1>2, <1>4
<1>9. s2.rip \notin Remote
  BY <1>5, <1>6
<1> QED BY <1>1, <1>6, <1>7, <1>8, <1>9, NoCallOK, WritesKeep DEF Blank

\* net_listen.
LEMMA ListenKeeps ==
    ASSUME NetInv, NEW fd \in Fds, net_listen(fd)
    PROVE  NetInv'
<1>1. /\ socks[fd].lport = ListenPort /\ socks[fd].used /\ call' = NoCall
      /\ socks' = [socks EXCEPT ![fd].listening = TRUE, ![fd].type = "tcp"]
      /\ UNCHANGED <<arp, eph, conf, rx, tx, peer, hist>>
  BY DEF net_listen, Idle
<1>2. PICK s : s = socks[fd]
  OBVIOUS
<1>3. s \in Sock /\ SockOK(K, eph, s) /\ socks \in [Fds -> Sock]
  BY <1>2, NowOK
<1>4. PICK s2 : s2 = [s EXCEPT !.listening = TRUE, !.type = "tcp"]
  OBVIOUS
<1>6. /\ s2 \in Sock /\ s2.rip = s.rip /\ s2.connected = s.connected /\ s2.lport = s.lport
      /\ s2.rbuf = s.rbuf /\ s2.type = "tcp" /\ s2.used = s.used /\ s2.ack = s.ack
      /\ s2.rport = s.rport
  BY <1>3, <1>4 DEF Sock
<1>7. SockOK(K, eph, s2)
  BY <1>1, <1>2, <1>3, <1>6 DEF SockOK
<1>8. socks' = [socks EXCEPT ![fd] = s2]
  BY <1>1, <1>2, <1>3, <1>4
<1>9. SameEnd(socks[fd], s2)
  BY <1>2, <1>6 DEF SameEnd
<1> QED BY <1>1, <1>6, <1>7, <1>8, <1>9, NoCallOK, WritesKeep DEF Blank

\* net_accept and net_recv begin to wait.
LEMMA WaitKeeps ==
    ASSUME NetInv, NEW fd \in Fds, net_accept(fd) \/ net_recv(fd)
    PROVE  NetInv'
<1>1. UNCHANGED <<socks, arp, eph, conf, rx, tx, peer, hist>>
  BY DEF net_accept, net_recv
<1>2. call' = [op |-> "accept", fd |-> fd, syns |-> 0] \/ call' = [op |-> "recv", fd |-> fd, syns |-> 0]
  BY DEF net_accept, net_recv
<1>3. fd \in Nat
  BY NetAssumption DEF Fds
<1>4. CallOK(call', K, eph)
  BY <1>2, <1>3 DEF CallOK
<1> QED BY <1>1, <1>4, StillKeeps

\* A call that waits returns.
LEMMA ReturnKeeps ==
    ASSUME NetInv, CallReturns
    PROVE  NetInv'
<1>1. UNCHANGED <<socks, arp, eph, conf, rx, tx, peer, hist>> /\ call' = NoCall
  BY DEF CallReturns
<1> QED BY <1>1, NoCallOK, StillKeeps

\* net_recv returns.
LEMMA RecvKeeps ==
    ASSUME NetInv, NEW fd \in Fds, NEW n \in Nat, RecvReturns(fd, n)
    PROVE  NetInv'
<1>1. /\ socks' = [socks EXCEPT ![fd].rbuf = SubSeq(@, Lo(n, Len(@)) + 1, Len(@))]
      /\ call' = NoCall
      /\ UNCHANGED <<arp, eph, conf, rx, tx, peer, hist>>
  BY DEF RecvReturns
<1>2. PICK s : s = socks[fd]
  OBVIOUS
<1>3. s \in Sock /\ SockOK(K, eph, s) /\ s.rbuf \in Seq(Nat) /\ Len(s.rbuf) \in Nat
  BY <1>2, NowOK DEF Sock, Bytes
<1>4. PICK b : b = SubSeq(s.rbuf, Lo(n, Len(s.rbuf)) + 1, Len(s.rbuf))
  OBVIOUS
<1>5. b \in Seq(Nat) /\ Len(b) <= BufSize
  <2>1. PICK o, m : o = s.rbuf /\ m = Lo(n, Len(o))
    OBVIOUS
  <2>2. o \in Seq(Nat) /\ Len(o) \in Nat /\ m \in 0 .. Len(o) /\ Len(o) <= BufSize /\ BufSize \in Nat
    BY <1>3, <2>1, NetAssumption DEF Lo, SockOK
  <2>3. b = SubSeq(o, m + 1, Len(o))
    BY <1>4, <2>1
  <2>4. b \in Seq(Nat) /\ Len(b) = Len(o) - m
    BY <2>2, <2>3
  <2> QED BY <2>2, <2>4
<1>6. PICK s2 : s2 = [s EXCEPT !.rbuf = b]
  OBVIOUS
<1>7. /\ s2 \in Sock /\ s2.rip = s.rip /\ s2.connected = s.connected /\ s2.lport = s.lport
      /\ s2.rbuf = b /\ s2.type = s.type /\ s2.used = s.used /\ s2.ack = s.ack
      /\ s2.rport = s.rport /\ s2.listening = s.listening
  BY <1>3, <1>5, <1>6 DEF Sock, Bytes
<1>8. SockOK(K, eph, s2)
  BY <1>3, <1>5, <1>7 DEF SockOK
<1>9. socks' = [socks EXCEPT ![fd] = s2]
  BY <1>1, <1>2, <1>4, <1>6
<1>10. SameEnd(socks[fd], s2)
  BY <1>2, <1>7 DEF SameEnd
<1> QED BY <1>1, <1>7, <1>8, <1>9, <1>10, NoCallOK, WritesKeep DEF Blank

-----------------------------------------------------------------------------
(* net_connect and the SYNs it sends.                                       *)

\* The socket that net_connect leaves.
Calling(s, host, port) ==
    [s EXCEPT !.type = "tcp", !.rip = host, !.rport = HostPort, !.connected = FALSE,
              !.rbuf = <<>>, !.lport = port, !.seq = 1, !.ack = 0]

\* The socket of net_connect.
LEMMA CallingIs ==
    ASSUME NEW s \in Sock, NEW port \in Nat, NEW s2, s2 = Calling(s, Server, port)
    PROVE  /\ s2 \in Sock /\ s2.type = "tcp" /\ s2.rip = Server /\ s2.rport = HostPort
           /\ ~s2.connected /\ s2.rbuf = <<>> /\ s2.lport = port /\ s2.ack = 0
           /\ s2.used = s.used /\ s2.listening = s.listening
<1>1. Server \in Hosts /\ HostPort \in Nat /\ <<>> \in Bytes
  BY NamesDiffer, EmptyFits DEF HostPort
<1>2. PICK h, b : h = Server /\ b = <<>>
  OBVIOUS
<1>3. s2 = [s EXCEPT !.type = "tcp", !.rip = h, !.rport = HostPort, !.connected = FALSE,
              !.rbuf = b, !.lport = port, !.seq = 1, !.ack = 0]
  BY <1>2 DEF Calling
<1>4. h \in Hosts /\ b \in Bytes
  BY <1>1, <1>2
<1>5. HostPort \in Nat
  BY DEF HostPort
<1>6. s2.type = "tcp" /\ s2.rip = h /\ s2.rport = HostPort /\ ~s2.connected /\ s2.rbuf = b
  BY <1>3 DEF Sock
<1>7. s2.lport = port /\ s2.ack = 0 /\ s2.seq = 1 /\ s2.used = s.used /\ s2.listening = s.listening
  BY <1>3 DEF Sock
<1>8. s2 \in Sock
  <2>1. PICK t : t = [s EXCEPT !.type = "tcp", !.rip = h, !.rport = HostPort, !.connected = FALSE]
    OBVIOUS
  <2>2. t \in Sock
    BY <1>4, <1>5, <2>1 DEF Sock
  <2>3. PICK u : u = [t EXCEPT !.rbuf = b, !.lport = port]
    OBVIOUS
  <2>4. u \in Sock
    BY <1>4, <2>2, <2>3 DEF Sock
  <2>5. PICK one \in Nat, zero \in Nat : one = 1 /\ zero = 0
    OBVIOUS
  <2>6. s2 = [u EXCEPT !.seq = one, !.ack = zero]
    BY <1>3, <2>1, <2>3, <2>5
  <2> QED BY <2>4, <2>6 DEF Sock
<1> QED BY <1>2, <1>6, <1>7, <1>8

\* What net_connect does to the kernel's state: the question where the next hop is.
Asks(k, hop) == IF k.arp = hop THEN k ELSE arp_send(k, hop)

\* The next hop is asked for if it is not in the cache.
LEMMA AsksPolls ==
    ASSUME NEW k \in Kernels, NEW e, Sound(k, e), NEW h \in Hosts, NEW k2, k2 = Asks(k, h)
    PROVE  /\ Poll(k, k2, e) /\ k2.socks = k.socks /\ k2 \in Kernels /\ k2.hist = k.hist
           /\ k2.tx = k.tx \/ (\E g \in Frames : k2.tx = Append(k.tx, g) /\ g.kind # "tcp")
<1>1. CASE k.arp = h
  <2>1. k2 = k
    BY <1>1 DEF Asks
  <2> QED BY <2>1, PollStays
<1>2. CASE k.arp # h
  <2>1. PICK g : g = Arp("ask", h)
    OBVIOUS
  <2>2. /\ g \in Others /\ k2 \in Kernels
        /\ k2 = [socks |-> k.socks, arp |-> k.arp, hist |-> k.hist, tx |-> Append(k.tx, g)]
    BY <1>2, <2>1, ArpSends DEF Asks, arp_send
  <2>3. g \in Frames /\ g.kind # "tcp"
    BY <2>2 DEF Frames, Others
  <2>4. Later(k.hist, k2.hist)
    BY <2>2 DEF Later
  <2>5. Turn(k, k2, e, None, 0)
    BY <2>2, <2>3, <2>4, PlainTurns
  <2> QED BY <2>2, <2>3, <2>5, TurnPolls
<1> QED BY <1>1, <1>2

\* What net_connect does before it waits.
LEMMA ConnectIs ==
    ASSUME NetInv, NEW fd \in Fds, net_connect(fd, Server)
    PROVE  \E s2, k1, k2, hop :
             /\ s2 = Calling(socks[fd], Server, eph) /\ k1 = Put(K, fd, s2, PutLog(hist, fd, <<>>))
             /\ hop = route_nexthop(Server) /\ k2 = Asks(k1, hop) /\ Become(k2)
             /\ socks[fd].lport = 0 /\ socks[fd].type = "tcp" /\ eph' = eph + 1
             /\ call' = [op |-> "connect", fd |-> fd, syns |-> 0]
             /\ UNCHANGED <<conf, rx, peer, faults>>
<1>1. PICK s2, k1, hop : /\ s2 = Calling(socks[fd], Server, eph)
                         /\ k1 = Put(K, fd, s2, PutLog(hist, fd, <<>>))
                         /\ hop = route_nexthop(Server)
  OBVIOUS
<1>2. PICK k2 : k2 = Asks(k1, hop)
  OBVIOUS
<1>3. socks[fd].lport = 0 /\ socks[fd].type = "tcp" /\ UNCHANGED <<conf, rx, peer, faults>>
  BY DEF net_connect
<1>4. PICK port : port = IF socks[fd].lport = 0 THEN eph ELSE socks[fd].lport
  OBVIOUS
<1>5. port = eph
  BY <1>3, <1>4
<1>6. eph' = eph + 1 /\ call' = [op |-> "connect", fd |-> fd, syns |-> 0]
  BY <1>3 DEF net_connect
<1>7. k1 = [K EXCEPT
               !.socks[fd] = [@ EXCEPT !.type = "tcp", !.rip = Server, !.rport = HostPort,
                                       !.connected = FALSE, !.rbuf = <<>>, !.lport = port,
                                       !.seq = 1, !.ack = 0],
               !.hist.log[fd] = <<>>]
  <2>1. K.hist = hist /\ K.socks = socks
    BY KIs
  <2>2. PICK k : k = K
    OBVIOUS
  <2>3. PICK j : j = [k EXCEPT !.socks[fd] = s2]
    OBVIOUS
  <2>4. PICK h : h = PutLog(hist, fd, <<>>)
    OBVIOUS
  <2>5. k1 = [j EXCEPT !.hist = h]
    BY <1>1, <2>2, <2>3, <2>4 DEF Put
  <2>6. j = [k EXCEPT !.socks[fd] = [@ EXCEPT !.type = "tcp", !.rip = Server, !.rport = HostPort,
                                       !.connected = FALSE, !.rbuf = <<>>, !.lport = port,
                                       !.seq = 1, !.ack = 0]]
    BY <1>1, <1>5, <2>1, <2>2, <2>3 DEF Calling
  <2>7. j.hist = hist
    <3>1. k \in Kernels /\ k.hist = hist
      BY <2>1, <2>2, NowOK
    <3> QED BY <2>3, <3>1 DEF Kernels
  <2>8. [j EXCEPT !.hist = h] = [j EXCEPT !.hist.log[fd] = <<>>]
    BY <2>4, <2>7 DEF PutLog
  <2> QED BY <2>2, <2>5, <2>6, <2>8, Zenon
<1>8. Become(k2)
  <2>1. /\ k1.arp = arp
        /\ Become(IF arp = hop THEN k1 ELSE arp_send(k1, hop))
    <3>1. k1.arp = arp
      <4>1. K.arp = arp /\ K \in Kernels
        BY KIs, NowOK
      <4> QED BY <1>7, <4>1 DEF Kernels
    <3>2. Become(IF arp = hop THEN k1 ELSE arp_send(k1, hop))
      BY <1>1, <1>4, <1>7, Zenon DEF net_connect
    <3> QED BY <3>1, <3>2
  <2> QED BY <1>2, <2>1 DEF Asks
<1> QED BY <1>1, <1>2, <1>3, <1>6, <1>8

\* A socket begins a connection whose port was given to none before: no frame, no
\* socket and no peer is of it.
LEMMA DialTidy ==
    ASSUME NEW k \in Kernels, NEW e \in Nat, e >= FirstEphemeral, NEW q \in Queue, NEW pr \in Peers,
           Talk(k, q, pr, e), Tidy(k, q, pr), NEW fd \in Fds,
           NEW k2 \in Kernels, Base(k, k2, fd), Later(k.hist, k2.hist), k2.tx = k.tx,
           Has(k2.socks[fd], Server, e), k2.socks[fd].ack = 0, k2.hist.log[fd] = <<>>
    PROVE  Tidy(k2, q, pr)
<1>1. ~Given(e, Server, e) /\ Server \in Remote
  BY NamesDiffer DEF Given
<1>2. \A d \in Fds : ~Has(k.socks[d], Server, e)
  BY <1>1 DEF Has, Talk, Sound, SockOK
<1>3. \A i \in 1 .. Len(q) : ~Of(q[i], Server, e)
  BY <1>1 DEF Of, Talk, InOK
<1>4. \A i \in 1 .. Len(k.tx) : ~Of(k.tx[i], Server, e)
  BY <1>1 DEF Of, Talk, OutOK
<1>5. pr[Server].port # e
  <2>1. PICK s : s = pr[Server]
    OBVIOUS
  <2>2. PeerOK(k, e, Server, s) /\ s.st \in {"closed", "syn", "open", "down"}
    BY <1>1, <2>1 DEF Talk, Peers
  <2>3. s.st \in {"closed", "down"} \/ Given(e, Server, s.port)
    BY <2>2 DEF PeerOK
  <2>4. s.st \in {"closed", "down"} => s.port = 0
    BY <2>2 DEF PeerOK
  <2> QED BY <1>1, <2>1, <2>3, <2>4 DEF FirstEphemeral
<1>6. \A d \in Fds : Has(k2.socks[d], Server, e) => d = fd
  BY <1>2 DEF Base
<1>7. Good(k2, q, pr, Server, e)
  <2>1. Alone(k2, Server, e)
    BY <1>6 DEF Alone
  <2>2. PICK Z : Z = 0
    OBVIOUS
  <2>3. OnTrack(k2, q, pr, Server, e, Z)
    BY <1>3, <1>5 DEF OnTrack, Bears
  <2>4. Listener(k2, q, pr, Server, e, fd)
    <3>1. Len(k2.hist.log[fd]) = Z /\ Z <= Stream
      BY <2>2, NetAssumption
    <3>2. \A i \in 1 .. Len(k2.hist.log[fd]) : k2.hist.log[fd][i] = i
      BY <2>2, <3>1
    <3> QED BY <1>5, <2>3, <3>1, <3>2 DEF Listener
  <2>5. New(k2, q, Server, e)
    <3>1. \A d \in Fds : Has(k2.socks[d], Server, e) => k2.hist.log[d] = <<>> /\ k2.socks[d].ack <= 1
      BY <1>6
    <3> QED BY <1>3, <1>4, <3>1 DEF New
  <2>6. \A i \in 1 .. Len(q) : ~Calls1(q[i], Server, e)
    BY <1>3 DEF Calls1
  <2>7. Ended(q, pr, Server, e)
    BY <1>3 DEF Ended
  <2> QED BY <1>6, <2>1, <2>4, <2>5, <2>6, <2>7 DEF Good
<1>8. ASSUME NEW r \in Remote, NEW p \in Nat, r # Server \/ p # e PROVE Calm(k, q, k2, q, pr, r, p)
  <2>1. Says(k, k2, pr, r, p) /\ Tells(k, k2, pr, r, p)
    BY SentSays
  <2>2. ASSUME NEW d \in Fds, Has(k2.socks[d], r, p) PROVE GoesOn(k, k2, pr, r, p, d)
    <3>1. d # fd
      BY <1>8, <2>2 DEF Has
    <3> QED BY <2>2, <3>1 DEF GoesOn, Base
  <2> QED BY <2>1, <2>2, StillSlides DEF Calm
<1>9. ASSUME NEW r \in Remote, NEW p \in Nat, Fine(k2, r, p) PROVE Good(k2, q, pr, r, p)
  <2>1. CASE r = Server /\ p = e
    BY <1>7, <2>1
  <2>2. CASE r # Server \/ p # e
    <3>1. Good(k, q, pr, r, p)
      BY <1>9, FineBefore DEF Tidy
    <3> QED BY <1>8, <2>2, <3>1, CalmGood
  <2> QED BY <2>1, <2>2
<1> QED BY <1>9 DEF Tidy

\* net_connect takes the next port for a socket that had none.
LEMMA ConnectKeeps ==
    ASSUME NetInv, NEW fd \in Fds, net_connect(fd, Server)
    PROVE  NetInv'
<1>1. PICK s2, k1, k2, hop :
             /\ s2 = Calling(socks[fd], Server, eph) /\ k1 = Put(K, fd, s2, PutLog(hist, fd, <<>>))
             /\ hop = route_nexthop(Server) /\ k2 = Asks(k1, hop) /\ Become(k2)
             /\ socks[fd].lport = 0 /\ socks[fd].type = "tcp" /\ eph' = eph + 1
             /\ call' = [op |-> "connect", fd |-> fd, syns |-> 0]
             /\ UNCHANGED <<conf, rx, peer, faults>>
  BY ConnectIs
<1>2. PICK e : e = eph + 1
  OBVIOUS
<1>3. /\ K \in Kernels /\ eph \in Nat /\ e \in Nat /\ eph <= e /\ eph >= FirstEphemeral
      /\ rx \in Queue /\ peer \in Peers
      /\ Talk(K, rx, peer, eph) /\ InTurn(K, peer) /\ conf.gw \in Hosts /\ Tidy(K, rx, peer)
  BY <1>2 DEF NetInv
<1>4. Talk(K, rx, peer, e) /\ Sound(K, e)
  BY <1>3, TalkLonger DEF Talk
<1>5. PICK s : s = socks[fd]
  OBVIOUS
<1>6. s \in Sock /\ SockOK(K, eph, s)
  BY <1>5, NowOK
<1>7. /\ s2 \in Sock /\ s2.type = "tcp" /\ s2.rip = Server /\ s2.rport = HostPort
      /\ ~s2.connected /\ s2.rbuf = <<>> /\ s2.lport = eph /\ s2.ack = 0
      /\ s2.used = s.used /\ s2.listening = s.listening
  BY <1>1, <1>3, <1>5, <1>6, CallingIs
<1>8. SockOK(K, e, s2)
  <2>1. ~s.listening /\ s.used
    BY <1>1, <1>5, <1>6, PortGiven DEF SockOK
  <2>2. Given(e, Server, eph)
    BY <1>2, <1>3, NamesDiffer DEF Given
  <2>3. Told(K.hist, s2.rip, s2.lport, s2.ack)
    BY <1>7, NetAssumption DEF Told
  <2> QED BY <1>7, <2>1, <2>2, <2>3, EmptyFits DEF SockOK
<1>9. PICK h : h = PutLog(hist, fd, <<>>)
  OBVIOUS
<1>10. Blank(K.hist, h, fd)
  BY <1>9, KIs DEF Blank
<1>11. Poll(K, k1, e) /\ k1 \in Kernels /\ k1.socks[fd] = s2
  BY <1>1, <1>3, <1>4, <1>7, <1>8, <1>9, <1>10, PutPolls
<1>12. hop \in Hosts /\ Sound(k1, e)
  BY <1>1, <1>3, <1>11, HopIsHost, NamesDiffer DEF Poll
<1>13. /\ Poll(k1, k2, e) /\ k2.socks = k1.socks /\ k2 \in Kernels /\ k2.hist = k1.hist
       /\ k2.tx = k1.tx \/ (\E g \in Frames : k2.tx = Append(k1.tx, g) /\ g.kind # "tcp")
  BY <1>1, <1>11, <1>12, AsksPolls
<1>t. Tidy(k1, rx, peer)
  <2>1. Base(K, k1, fd) /\ Later(K.hist, k1.hist) /\ k1.tx = K.tx /\ k1.hist = h
    BY <1>1, <1>3, <1>4, <1>7, <1>8, <1>9, <1>10, PutPolls
  <2>2. h.log[fd] = <<>>
    BY <1>9, NowOK, EmptyFits, LogPut
  <2>3. k1.hist.log[fd] = <<>>
    BY <2>1, <2>2
  <2>4. Has(k1.socks[fd], Server, eph) /\ k1.socks[fd].ack = 0
    BY <1>7, <1>11 DEF Has
  <2> QED BY <1>3, <1>11, <2>1, <2>3, <2>4, DialTidy
<1>u. Tidy(k2, rx, peer)
  <2>1. Later(k1.hist, k2.hist) /\ k2.hist.log = k1.hist.log
    BY <1>13 DEF Later
  <2> QED BY <1>3, <1>11, <1>13, <1>t, <2>1, PlainTidy
<1>14. Poll(K, k2, e)
  BY <1>3, <1>11, <1>13, PollTrans
<1>15. Talk(k2, rx, peer, e) /\ InTurn(k2, peer)
  <2>1. \A i \in 1 .. Len(rx) : \E j \in 1 .. Len(rx) : rx[i] = rx[j]
    OBVIOUS
  <2> QED BY <1>3, <1>4, <1>14, <2>1, TalkGoesOn
<1>16. K' = k2
  BY <1>1, <1>13, BecomeIs
<1>17. CallOK(call', k2, e)
  <2>1. fd \in Nat /\ e - 1 = eph
    BY <1>2, <1>3, NetAssumption DEF Fds
  <2>2. k2.socks[fd] = s2
    BY <1>11, <1>13
  <2> QED BY <1>1, <1>7, <2>1, <2>2 DEF CallOK
<1>18. /\ K' \in Kernels /\ rx' \in Queue /\ peer' \in Peers /\ eph' \in Nat /\ eph' >= FirstEphemeral
       /\ conf'.gw \in Hosts /\ CallOK(call', K', eph')
       /\ Talk(K', rx', peer', eph') /\ InTurn(K', peer') /\ Tidy(K', rx', peer')
  <2>1. eph' = e /\ e >= FirstEphemeral
    BY <1>1, <1>2, <1>3 DEF FirstEphemeral
  <2> QED BY <1>1, <1>3, <1>13, <1>15, <1>16, <1>17, <1>u, <2>1
<1> QED BY <1>18 DEF NetInv

\* A SYN joins the frames that go out.
LEMMA SynJoins ==
    ASSUME NEW k \in Kernels, NEW k2 \in Kernels, NEW e, NEW q, NEW pr, NEW g,
           Talk(k, q, pr, e), InTurn(k, pr),
           Sound(k2, e), Later(k.hist, k2.hist), k2.tx = Append(k.tx, g), OutOK(k2, e, g),
           Syn(g) => pr[Server].port <= g.port /\ \A i \in 1 .. Len(k.tx) : Syn(k.tx[i]) => k.tx[i].port <= g.port
    PROVE  Talk(k2, q, pr, e) /\ InTurn(k2, pr)
<1>1. k.tx \in Seq(Frames) /\ Len(k.tx) \in Nat
  BY DEF Kernels
<1>2. /\ Len(k2.tx) = Len(k.tx) + 1 /\ k2.tx[Len(k.tx) + 1] = g
      /\ \A i \in 1 .. Len(k.tx) : k2.tx[i] = k.tx[i]
  BY <1>1
<1>3. \A i \in 1 .. Len(k2.tx) : i \in 1 .. Len(k.tx) \/ i = Len(k.tx) + 1
  BY <1>1, <1>2
<1>4. ASSUME NEW i \in 1 .. Len(k2.tx) PROVE OutOK(k2, e, k2.tx[i])
  <2>1. CASE i \in 1 .. Len(k.tx)
    BY <1>2, <2>1, OutLater DEF Talk
  <2> QED BY <1>2, <1>3, <2>1
<1>5. \A i \in 1 .. Len(q) : InOK(k2, e, q[i])
  BY InLater DEF Talk
<1>6. \A r \in Remote : PeerOK(k2, e, r, pr[r])
  BY PeerLater DEF Talk
<1>7. \A i \in 1 .. Len(k2.tx) : Syn(k2.tx[i]) => pr[Server].port <= k2.tx[i].port
  BY <1>2, <1>3 DEF InTurn
<1>8. ASSUME NEW i \in 1 .. Len(k2.tx), NEW j \in 1 .. Len(k2.tx), i < j, Syn(k2.tx[i]), Syn(k2.tx[j])
      PROVE  k2.tx[i].port <= k2.tx[j].port
  <2>1. i \in 1 .. Len(k.tx)
    BY <1>1, <1>2, <1>8
  <2>2. CASE j \in 1 .. Len(k.tx)
    BY <1>2, <1>8, <2>1, <2>2 DEF InTurn
  <2>3. CASE j = Len(k.tx) + 1
    BY <1>2, <1>8, <2>1, <2>3
  <2> QED BY <1>3, <2>2, <2>3
<1> QED BY <1>4, <1>5, <1>6, <1>7, <1>8 DEF Talk, InTurn

\* The two writes of ConnectSyn around its segment.
LEMMA ConnectSynIs ==
    ASSUME NetInv, ConnectSyn
    PROVE  \E fd, s1, s2, k1, k3, k2 :
             /\ fd \in Fds
             /\ fd = call.fd /\ call.op = "connect"
             /\ s1 = [socks[fd] EXCEPT !.seq = 1, !.ack = 0] /\ s2 = [socks[fd] EXCEPT !.seq = 2]
             /\ k1 = Put(K, fd, s1, hist) /\ k3 = tcp_send_raw(k1, fd, {"SYN"}, <<>>)
             /\ k2 = Put(k3, fd, s2, k3.hist) /\ Become(k2)
             /\ call' = [call EXCEPT !.syns = @ + 1]
             /\ UNCHANGED <<eph, conf, rx, peer, faults>>
<1>1. PICK fd : fd = call.fd
  OBVIOUS
<1>2. call.op = "connect" /\ fd \in Fds
  BY <1>1 DEF ConnectSyn, NetInv, CallOK, NoCall, None
<1>3. PICK s1, s2, k1 : /\ s1 = [socks[fd] EXCEPT !.seq = 1, !.ack = 0]
                        /\ s2 = [socks[fd] EXCEPT !.seq = 2]
                        /\ k1 = Put(K, fd, s1, hist)
  OBVIOUS
<1>4. PICK k3 : k3 = tcp_send_raw(k1, fd, {"SYN"}, <<>>)
  OBVIOUS
<1>5. PICK k2 : k2 = Put(k3, fd, s2, k3.hist)
  OBVIOUS
<1>6. k1 = [K EXCEPT !.socks[fd] = s1]
  <2>1. PICK k : k = K
    OBVIOUS
  <2>2. k.hist = hist /\ k \in Kernels
    BY <2>1, KIs, NowOK
  <2>3. PICK sk : sk = [k.socks EXCEPT ![fd] = s1]
    OBVIOUS
  <2>4. Put(k, fd, s1, k.hist) = [k EXCEPT !.socks = sk]
    <3>1. PICK j : j = [k EXCEPT !.socks[fd] = s1]
      OBVIOUS
    <3>2. j = [k EXCEPT !.socks = sk] /\ j.hist = k.hist
      BY <2>2, <2>3, <3>1 DEF Kernels
    <3>3. Put(k, fd, s1, k.hist) = [j EXCEPT !.hist = k.hist]
      BY <3>1 DEF Put
    <3>4. [j EXCEPT !.hist = k.hist] = j
      BY <2>2, <3>2 DEF Kernels
    <3> QED BY <3>2, <3>3, <3>4
  <2> QED BY <1>3, <2>1, <2>2, <2>3, <2>4
<1>7. Become([k3 EXCEPT !.socks[fd] = [socks[fd] EXCEPT !.seq = 2]])
  BY <1>1, <1>3, <1>4, <1>6, Zenon DEF ConnectSyn
<1>8. k3 \in Kernels
  <2>1. PICK s : s = socks[fd]
    OBVIOUS
  <2>2. s \in Sock /\ K \in Kernels /\ K.hist = hist /\ hist \in Hist
    BY <1>2, <2>1, NowOK, KIs
  <2>3. PICK one \in Nat, zero \in Nat : one = 1 /\ zero = 0
    OBVIOUS
  <2>4. s1 = [s EXCEPT !.seq = one, !.ack = zero]
    BY <1>3, <2>1, <2>3
  <2>5. s1 \in Sock
    BY <2>2, <2>4 DEF Sock
  <2>6. k1 \in Kernels
    BY <1>2, <1>3, <2>2, <2>5, SocketPut
  <2>7. {"SYN"} \in SUBSET Flags
    BY DEF Flags
  <2>8. conf.gw \in Hosts
    BY NowOK
  <2> QED BY <1>2, <1>4, <2>6, <2>7, <2>8, EmptyFits, RawSends DEF Base
<1>9. Become(k2)
  <2>1. k2 = [k3 EXCEPT !.socks[fd] = s2]
    <3>1. PICK j : j = [k3 EXCEPT !.socks[fd] = s2]
      OBVIOUS
    <3>2. j.hist = k3.hist /\ [j EXCEPT !.hist = k3.hist] = j
      BY <1>8, <3>1 DEF Kernels
    <3>3. k2 = [j EXCEPT !.hist = k3.hist]
      BY <1>5, <3>1 DEF Put
    <3> QED BY <3>1, <3>2, <3>3
  <2> QED BY <1>3, <1>7, <2>1
<1>10. call' = [call EXCEPT !.syns = @ + 1] /\ UNCHANGED <<eph, conf, rx, peer, faults>>
  BY DEF ConnectSyn
<1> QED BY <1>1, <1>2, <1>3, <1>4, <1>5, <1>9, <1>10

\* A SYN of net_connect: its port is the last given, so it comes last in turn.
LEMMA ConnectSynKeeps ==
    ASSUME NetInv, ConnectSyn
    PROVE  NetInv'
<1>1. PICK fd, s1, s2, k1, k3, k2 :
             /\ fd \in Fds
             /\ fd = call.fd /\ call.op = "connect"
             /\ s1 = [socks[fd] EXCEPT !.seq = 1, !.ack = 0] /\ s2 = [socks[fd] EXCEPT !.seq = 2]
             /\ k1 = Put(K, fd, s1, hist) /\ k3 = tcp_send_raw(k1, fd, {"SYN"}, <<>>)
             /\ k2 = Put(k3, fd, s2, k3.hist) /\ Become(k2)
             /\ call' = [call EXCEPT !.syns = @ + 1]
             /\ UNCHANGED <<eph, conf, rx, peer, faults>>
  BY ConnectSynIs
<1>d. fd \in Fds
  BY <1>1
<1> USE <1>d
<1>a. k1 = Put(K, fd, s1, hist)
  BY <1>1
<1>b. k3 = tcp_send_raw(k1, fd, {"SYN"}, <<>>)
  BY <1>1
<1>c. k2 = Put(k3, fd, s2, k3.hist)
  BY <1>1
<1>2. /\ K \in Kernels /\ Sound(K, eph) /\ eph \in Nat /\ hist \in Hist /\ conf.gw \in Hosts
      /\ rx \in Queue /\ peer \in Peers /\ CallOK(call, K, eph) /\ eph >= FirstEphemeral
      /\ Talk(K, rx, peer, eph) /\ InTurn(K, peer) /\ K.socks = socks /\ K.hist = hist
      /\ Tidy(K, rx, peer)
  BY NowOK, KIs DEF NetInv
<1>3. PICK s : s = socks[fd]
  OBVIOUS
<1>4. s \in Sock /\ SockOK(K, eph, s) /\ s.rip = Server /\ s.lport = eph - 1
  BY <1>1, <1>2, <1>3, NowOK DEF CallOK
<1>5. /\ s1 \in Sock /\ s1.rip = s.rip /\ s1.lport = s.lport /\ s1.ack = 0
      /\ s1.type = s.type /\ s1.used = s.used /\ s1.rport = s.rport /\ s1.rbuf = s.rbuf
      /\ s1.connected = s.connected /\ s1.listening = s.listening
  <2>1. PICK one \in Nat, zero \in Nat : one = 1 /\ zero = 0
    OBVIOUS
  <2>2. s1 = [s EXCEPT !.seq = one, !.ack = zero]
    BY <1>1, <1>3, <2>1
  <2> QED BY <1>4, <2>1, <2>2 DEF Sock
<1>6. /\ s2 \in Sock /\ s2.rip = s.rip /\ s2.lport = s.lport /\ s2.ack = s.ack
      /\ s2.type = s.type /\ s2.used = s.used /\ s2.rport = s.rport /\ s2.rbuf = s.rbuf
      /\ s2.connected = s.connected /\ s2.listening = s.listening
  <2>1. PICK two \in Nat : two = 2
    OBVIOUS
  <2>2. s2 = [s EXCEPT !.seq = two]
    BY <1>1, <1>3, <2>1
  <2> QED BY <1>4, <2>1, <2>2 DEF Sock
<1>7. SockOK(K, eph, s1) /\ SockOK(K, eph, s2)
  <2>1. Told(K.hist, s1.rip, s1.lport, s1.ack)
    BY <1>5, NetAssumption DEF Told
  <2> QED BY <1>4, <1>5, <1>6, <2>1 DEF SockOK
<1>8. Blank(K.hist, hist, fd)
  BY <1>2 DEF Blank
<1>9. /\ Base(K, k1, fd) /\ Later(K.hist, k1.hist) /\ k1 \in Kernels /\ k1.socks[fd] = s1
      /\ k1.tx = K.tx /\ SockOK(k1, eph, s1)
  BY <1>a, <1>2, <1>5, <1>7, <1>8, PutPolls
<1>10. /\ Base(k1, k3, fd) /\ Sent(k1, k3, s1, {"SYN"})
       /\ k3.socks = k1.socks /\ k3.hist.log = k1.hist.log
       /\ k3.hist.stored = k1.hist.stored /\ k3.hist.finned = k1.hist.finned
  <2>1. {"SYN"} \in SUBSET Flags
    BY DEF Flags
  <2> QED BY <1>b, <1>2, <1>9, <2>1, EmptyFits, RawSends
<1>11. Later(k1.hist, k3.hist) /\ k3 \in Kernels
  BY <1>10 DEF Later, Base, Sent
<1>12. Later(K.hist, k3.hist)
  BY <1>9, <1>11 DEF Later
<1>13. /\ k2 \in Kernels /\ k2.arp = k3.arp /\ k2.tx = k3.tx /\ k2.hist = k3.hist /\ k2.socks[fd] = s2
       /\ \A d \in Fds \ {fd} : k2.socks[d] = k3.socks[d]
  <2>1. k3.hist \in Hist
    BY <1>11 DEF Kernels
  <2> QED BY <1>c, <1>6, <1>11, <2>1, SocketPut
<1>14. Sound(k2, eph)
  <2>1. ASSUME NEW d \in Fds PROVE SockOK(K, eph, k2.socks[d])
    <3>1. CASE d = fd
      BY <1>7, <1>13, <3>1
    <3>2. CASE d # fd
      BY <1>2, <1>9, <1>10, <1>13, <3>2 DEF Base, Sound
    <3> QED BY <3>1, <3>2
  <2>2. Later(K.hist, k2.hist)
    BY <1>12, <1>13
  <2> QED BY <2>1, <2>2, SockLater DEF Sound
<1>15. PICK g \in Frames :
        /\ k3.tx = Append(k1.tx, g)
        /\ \/ g \in Tcps /\ g.host = Server /\ g.port = eph - 1 /\ g.ack = 0
           \/ g.kind = "ask"
  <2>1. PICK g \in Frames :
        /\ k3.tx = Append(k1.tx, g)
        /\ \/ /\ g \in Tcps /\ g.host = s1.rip /\ g.port = s1.lport /\ g.ack = s1.ack /\ g.flags = {"SYN"}
              /\ k3.hist.muted = k1.hist.muted
           \/ g.kind = "ask" /\ k3.hist.muted = k1.hist.muted \cup {<<s1.rip, s1.lport>>}
    BY <1>10, Zenon DEF Sent
  <2>2. s1.rip = Server /\ s1.lport = eph - 1 /\ s1.ack = 0
    BY <1>4, <1>5
  <2> QED BY <2>1, <2>2
<1>16. OutOK(k2, eph, g)
  <2>1. Given(eph, Server, eph - 1)
    BY <1>4, NamesDiffer DEF SockOK
  <2>2. Told(k2.hist, Server, eph - 1, 0)
    BY NetAssumption DEF Told
  <2>3. CASE g.kind = "ask"
    BY <2>3 DEF OutOK
  <2>4. CASE g \in Tcps /\ g.host = Server /\ g.port = eph - 1 /\ g.ack = 0
    BY <2>1, <2>2, <2>4 DEF OutOK
  <2> QED BY <1>15, <2>3, <2>4
<1>17. ASSUME Syn(g)
       PROVE  /\ peer[Server].port <= g.port
              /\ \A i \in 1 .. Len(K.tx) : Syn(K.tx[i]) => K.tx[i].port <= g.port
  <2>1. g.port = eph - 1
    BY <1>15, <1>17 DEF Syn
  <2>2. PeerOK(K, eph, Server, peer[Server]) /\ peer[Server].port \in Nat
        /\ peer[Server].st \in {"closed", "syn", "open", "down"}
    BY <1>2, NamesDiffer DEF Talk, Peers
  <2>3. peer[Server].port <= eph - 1
    BY <1>2, <2>2, NamesDiffer DEF PeerOK, Given, FirstEphemeral
  <2>4. ASSUME NEW i \in 1 .. Len(K.tx), Syn(K.tx[i]) PROVE K.tx[i].port <= eph - 1
    <3>1. OutOK(K, eph, K.tx[i]) /\ K.tx[i] \in Frames
      BY <1>2 DEF Talk, Kernels
    <3>2. K.tx[i].port \in Nat
      BY <3>1 DEF Frames, Tcps, Udps, Others
    <3> QED BY <1>2, <2>4, <3>1, <3>2, NamesDiffer DEF OutOK, Given, Syn
  <2> QED BY <2>1, <2>3, <2>4
<1>18. Talk(k2, rx, peer, eph) /\ InTurn(k2, peer)
  <2>1. k2.tx = Append(K.tx, g) /\ Later(K.hist, k2.hist)
    BY <1>9, <1>12, <1>13, <1>15
  <2> QED BY <1>2, <1>13, <1>14, <1>16, <1>17, <2>1, SynJoins
<1>19. K' = k2
  BY <1>1, <1>13, BecomeIs
<1>t. Tidy(k2, rx, peer)
  <2>1. Base(K, k2, fd)
    BY <1>9, <1>10, <1>13 DEF Base
  <2>2. Later(K.hist, k2.hist)
    BY <1>12, <1>13
  <2>3. SameEnd(K.socks[fd], k2.socks[fd]) /\ k2.hist.log[fd] = K.hist.log[fd]
    <3>1. k1.hist = hist
      BY <1>a, <1>2, <1>5, <1>7, <1>8, PutPolls
    <3>2. k2.hist.log = K.hist.log
      BY <1>2, <1>10, <1>13, <3>1
    <3> QED BY <1>2, <1>3, <1>6, <1>13, <3>2 DEF SameEnd
  <2>4. \E x \in Frames : /\ k2.tx = Append(K.tx, x)
                          /\ \A r \in Remote, p \in Nat : Harmless(x, K, peer, r, p)
    <3>1. PICK x \in Frames : k3.tx = Append(k1.tx, x) /\ (x.ack = s1.ack \/ x.kind = "ask")
      BY <1>10 DEF Sent
    <3>2. \A r \in Remote, p \in Nat : Harmless(x, K, peer, r, p)
      BY <1>5, <3>1 DEF Harmless, Of
    <3> QED BY <1>9, <1>13, <3>1, <3>2
  <2> QED BY <1>2, <1>13, <2>1, <2>2, <2>3, <2>4, CallTidy
<1>20. CallOK(call', k2, eph)
  <2>1. k2.socks[call.fd].rip = Server /\ k2.socks[call.fd].lport = eph - 1
    BY <1>1, <1>4, <1>6, <1>13
  <2>2. call \in [op: {None, "accept", "connect", "recv"}, fd: Nat, syns: Nat]
    BY <1>2 DEF CallOK
  <2>3. /\ call' \in [op: {None, "accept", "connect", "recv"}, fd: Nat, syns: Nat]
        /\ call'.fd = call.fd /\ call'.op = call.op
    BY <1>1, <2>2
  <2> QED BY <1>1, <2>1, <2>3 DEF CallOK
<1>21. /\ K' \in Kernels /\ rx' \in Queue /\ peer' \in Peers /\ eph' \in Nat /\ eph' >= FirstEphemeral
       /\ conf'.gw \in Hosts /\ CallOK(call', K', eph')
       /\ Talk(K', rx', peer', eph') /\ InTurn(K', peer') /\ Tidy(K', rx', peer')
  BY <1>1, <1>2, <1>13, <1>18, <1>19, <1>20, <1>t
<1> QED BY <1>21 DEF NetInv

-----------------------------------------------------------------------------
(* net_send, net_close, lookups and pings.                                  *)

\* A segment of a socket goes out, and the socket is written.
LEMMA SendPolls ==
    ASSUME NEW k \in Kernels, NEW e \in Nat, Sound(k, e), NEW fd \in Fds, conf.gw \in Hosts,
           NEW fl \in SUBSET Flags, "ACK" \in fl, NEW data \in Bytes,
           NEW k3, k3 = tcp_send_raw(k, fd, fl, data),
           NEW s2 \in Sock, SockOK(k, e, s2), NEW k2, k2 = Put(k3, fd, s2, k3.hist)
    PROVE  Poll(k, k2, e) /\ k2 \in Kernels /\ k3 \in Kernels /\ k3.socks = k.socks /\ k2.socks[fd] = s2
<1>1. /\ Base(k, k3, fd) /\ Sent(k, k3, k.socks[fd], fl)
      /\ k3.socks = k.socks /\ k3.hist.log = k.hist.log
      /\ k3.hist.stored = k.hist.stored /\ k3.hist.finned = k.hist.finned
  BY RawSends
<1>2. k3 \in Kernels /\ k3.hist \in Hist /\ Later(k.hist, k3.hist)
  BY <1>1 DEF Base, Sent, Later, Kernels
<1>3. /\ k2 \in Kernels /\ k2.arp = k3.arp /\ k2.tx = k3.tx /\ k2.hist = k3.hist /\ k2.socks[fd] = s2
      /\ \A d \in Fds \ {fd} : k2.socks[d] = k3.socks[d]
  BY <1>2, SocketPut
<1>4. Base(k, k2, fd) /\ Later(k.hist, k2.hist)
  BY <1>1, <1>2, <1>3 DEF Base
<1>5. SockOK(k2, e, k2.socks[fd])
  BY <1>3, <1>4, SockLater
<1>6. PICK s : s = k.socks[fd]
  OBVIOUS
<1>7. Sent(k, k2, s, fl)
  BY <1>1, <1>3, <1>6 DEF Sent
<1>8. s.rip \in Remote => Given(e, s.rip, s.lport) /\ Told(k2.hist, s.rip, s.lport, s.ack)
  <2>1. SockOK(k2, e, s)
    BY <1>4, <1>6, SockLater DEF Sound
  <2> QED BY <2>1 DEF SockOK
<1>9. \E g \in Frames : k2.tx = Append(k.tx, g) /\ OutOK(k2, e, g) /\ ~Syn(g)
  BY <1>7, <1>8, SentIsOut
<1>10. Poll(k, k2, e)
  BY <1>4, <1>5, <1>9, CallPolls
<1> QED BY <1>1, <1>2, <1>3, <1>10

\* A segment goes out with a socket's own acknowledgement.
LEMMA SendTidy ==
    ASSUME NEW k \in Kernels, NEW fd \in Fds, conf.gw \in Hosts,
           NEW fl \in SUBSET Flags, NEW data \in Bytes,
           NEW k3, k3 = tcp_send_raw(k, fd, fl, data),
           NEW s2 \in Sock, s2.rip \in Remote => SameEnd(k.socks[fd], s2),
           NEW k2, k2 = Put(k3, fd, s2, k3.hist),
           NEW q \in Queue, NEW pr \in Peers, Tidy(k, q, pr)
    PROVE  Tidy(k2, q, pr)
<1>1. PICK s : s = k.socks[fd]
  OBVIOUS
<1>2. Base(k, k3, fd) /\ Sent(k, k3, s, fl) /\ k3.socks = k.socks /\ k3.hist.log = k.hist.log
      /\ k3.hist.stored = k.hist.stored /\ k3.hist.finned = k.hist.finned
  BY <1>1, RawSends
<1>3. k3 \in Kernels /\ k3.hist \in Hist /\ Later(k.hist, k3.hist)
  BY <1>2 DEF Base, Sent, Later, Kernels
<1>4. /\ k2 \in Kernels /\ k2.arp = k3.arp /\ k2.tx = k3.tx /\ k2.hist = k3.hist /\ k2.socks[fd] = s2
      /\ \A d \in Fds \ {fd} : k2.socks[d] = k3.socks[d]
  BY <1>3, SocketPut
<1>5. Base(k, k2, fd) /\ Later(k.hist, k2.hist)
  BY <1>2, <1>3, <1>4 DEF Base
<1>6. k2.socks[fd].rip \in Remote =>
          SameEnd(k.socks[fd], k2.socks[fd]) /\ k2.hist.log[fd] = k.hist.log[fd]
  BY <1>2, <1>4
<1>7. \E g \in Frames : /\ k2.tx = Append(k.tx, g)
                        /\ \A r \in Remote, p \in Nat : Harmless(g, k, pr, r, p)
  <2>1. PICK g \in Frames :
          /\ k3.tx = Append(k.tx, g)
          /\ (g.host = s.rip /\ g.port = s.lport /\ g.ack = s.ack) \/ g.kind = "ask"
    BY <1>2 DEF Sent
  <2>2. \A r \in Remote, p \in Nat : Harmless(g, k, pr, r, p)
    BY <1>1, <2>1 DEF Harmless, Of, Has
  <2> QED BY <1>4, <2>1, <2>2
<1> QED BY <1>4, <1>5, <1>6, <1>7, CallTidy

\* net_send.
LEMMA SendKeeps ==
    ASSUME NetInv, NEW fd \in Fds, NEW n \in 1 .. 2, net_send(fd, n)
    PROVE  NetInv'
<1>1. PICK k1, data : k1 = Polled(K) /\ data = [i \in 1 .. n |-> Filler]
  OBVIOUS
<1>2. PICK k3 : k3 = tcp_send_raw(k1, fd, {"ACK", "PSH"}, data)
  OBVIOUS
<1>3. PICK s : s = k3.socks[fd]
  OBVIOUS
<1>4. PICK s2 : s2 = [s EXCEPT !.seq = @ + n]
  OBVIOUS
<1>5. PICK k2 : k2 = Put(k3, fd, s2, k3.hist)
  OBVIOUS
<1>6. /\ Become([k3 EXCEPT !.socks[fd].seq = @ + n]) /\ rx' = Unpolled /\ call = NoCall
      /\ UNCHANGED <<eph, conf, call, peer>>
  BY <1>1, <1>2 DEF net_send, Idle
<1>7. /\ Poll(K, k1, eph) /\ k1 \in Kernels /\ Sound(k1, eph)
      /\ Tidy(k1, Unpolled, peer) /\ Unpolled \in Queue
  BY <1>1, PolledIs DEF Poll
<1>8. K \in Kernels /\ eph \in Nat /\ conf.gw \in Hosts
  BY NowOK
<1>9. data \in Bytes /\ {"ACK", "PSH"} \in SUBSET Flags /\ "ACK" \in {"ACK", "PSH"}
  <2>1. data \in [1 .. n -> Nat] /\ n \in Nat
    BY <1>1 DEF Filler
  <2>2. data \in Seq(Nat)
    BY <2>1
  <2> QED BY <2>2 DEF Bytes, Flags
<1>10. k3.socks = k1.socks /\ k3 \in Kernels
  <2>1. PICK fl : fl = {"ACK", "PSH"}
    OBVIOUS
  <2>2. k3 = tcp_send_raw(k1, fd, fl, data) /\ fl \in SUBSET Flags
    BY <1>2, <1>9, <2>1
  <2>3. data \in Bytes /\ conf.gw \in Hosts /\ k1 \in Kernels
    BY <1>7, <1>8, <1>9
  <2>4. Base(k1, k3, fd) /\ k3.socks = k1.socks
    BY <2>2, <2>3, RawSends
  <2> QED BY <2>4 DEF Base
<1>11. s \in Sock /\ SockOK(k1, eph, s)
  BY <1>3, <1>7, <1>10 DEF Kernels, Sound
<1>12. /\ s2 \in Sock /\ s2.rip = s.rip /\ s2.lport = s.lport /\ s2.ack = s.ack
       /\ s2.type = s.type /\ s2.used = s.used /\ s2.rport = s.rport /\ s2.rbuf = s.rbuf
       /\ s2.connected = s.connected /\ s2.listening = s.listening
  <2>1. s.seq + n \in Nat
    BY <1>11 DEF Sock
  <2> QED BY <1>4, <1>11, <2>1 DEF Sock
<1>13. SockOK(k1, eph, s2)
  BY <1>11, <1>12 DEF SockOK
<1>14. Poll(k1, k2, eph) /\ k2 \in Kernels
  BY <1>2, <1>5, <1>7, <1>8, <1>9, <1>12, <1>13, SendPolls
<1>15. Become(k2)
  <2>1. k2 = [k3 EXCEPT !.socks[fd].seq = @ + n]
    <3>1. PICK j : j = [k3 EXCEPT !.socks[fd] = s2]
      OBVIOUS
    <3>2. j.hist = k3.hist /\ [j EXCEPT !.hist = k3.hist] = j
      BY <1>10, <3>1 DEF Kernels
    <3>3. k2 = [j EXCEPT !.hist = k3.hist]
      BY <1>5, <3>1 DEF Put
    <3> QED BY <1>3, <1>4, <3>1, <3>2, <3>3
  <2> QED BY <1>6, <2>1
<1>16. Poll(K, k2, eph) /\ K' = k2
  BY <1>7, <1>8, <1>14, <1>15, PollTrans, BecomeIs
<1>17. CallOK(call', k2, eph)
  BY <1>6, NoCallOK
<1>18. Tidy(k2, rx', peer)
  <2>1. PICK fl, q : fl = {"ACK", "PSH"} /\ q = Unpolled
    OBVIOUS
  <2>2. k3 = tcp_send_raw(k1, fd, fl, data) /\ fl \in SUBSET Flags
    BY <1>2, <1>9, <2>1
  <2>3. SameEnd(k1.socks[fd], s2)
    BY <1>3, <1>10, <1>12 DEF SameEnd
  <2>4. peer \in Peers /\ q \in Queue /\ Tidy(k1, q, peer)
    BY <1>7, <2>1 DEF NetInv
  <2>5. Tidy(k2, q, peer)
    BY <1>5, <1>7, <1>8, <1>9, <1>12, <2>2, <2>3, <2>4, SendTidy
  <2> QED BY <1>6, <2>1, <2>5
<1> QED BY <1>6, <1>8, <1>16, <1>17, <1>18, StepOf

\* net_close.
LEMMA CloseKeeps ==
    ASSUME NetInv, NEW fd \in Fds, net_close(fd)
    PROVE  NetInv'
<1>1. PICK k1 : k1 = IF socks[fd].type = "tcp" /\ socks[fd].connected
                     THEN tcp_send_raw(K, fd, {"FIN", "ACK"}, <<>>) ELSE K
  OBVIOUS
<1>2. /\ Become([k1 EXCEPT !.socks[fd] = Free]) /\ call = NoCall
      /\ UNCHANGED <<eph, conf, rx, call, peer>>
  BY <1>1 DEF net_close, Idle
<1>3. PICK k2 : k2 = Put(k1, fd, Free, k1.hist)
  OBVIOUS
<1>4. K \in Kernels /\ eph \in Nat /\ conf.gw \in Hosts /\ Sound(K, eph)
  BY NowOK
<1>5. Free \in Sock /\ SockOK(K, eph, Free)
  <2>1. Free.type # "tcp"
    BY DEF Free, None
  <2> QED BY <2>1, FreeIs, EmptyFits, NamesDiffer DEF SockOK
<1>6. Poll(K, k2, eph) /\ k2 \in Kernels /\ k1 \in Kernels
  <2>1. CASE socks[fd].type = "tcp" /\ socks[fd].connected
    <3>1. k1 = tcp_send_raw(K, fd, {"FIN", "ACK"}, <<>>)
      BY <1>1, <2>1
    <3>2. {"FIN", "ACK"} \in SUBSET Flags /\ "ACK" \in {"FIN", "ACK"}
      BY DEF Flags
    <3> QED BY <1>3, <1>4, <1>5, <3>1, <3>2, EmptyFits, SendPolls
  <2>2. CASE ~(socks[fd].type = "tcp" /\ socks[fd].connected)
    <3>1. k1 = K
      BY <1>1, <2>2
    <3>2. Blank(K.hist, k1.hist, fd)
      BY <3>1 DEF Blank
    <3>3. k2 = Put(K, fd, Free, k1.hist)
      BY <1>3, <3>1
    <3> QED BY <1>4, <1>5, <3>1, <3>2, <3>3, PutPolls
  <2> QED BY <2>1, <2>2
<1>7. Become(k2)
  <2>1. k2 = [k1 EXCEPT !.socks[fd] = Free]
    <3>1. PICK j : j = [k1 EXCEPT !.socks[fd] = Free]
      OBVIOUS
    <3>2. j.hist = k1.hist /\ [j EXCEPT !.hist = k1.hist] = j
      BY <1>6, <3>1 DEF Kernels
    <3>3. k2 = [j EXCEPT !.hist = k1.hist]
      BY <1>3, <3>1 DEF Put
    <3> QED BY <3>1, <3>2, <3>3
  <2> QED BY <1>2, <2>1
<1>8. K' = k2 /\ CallOK(call', k2, eph)
  BY <1>2, <1>6, <1>7, BecomeIs, NoCallOK
<1>9. Free.rip \notin Remote
  BY FreeIs, NamesDiffer
<1>10. rx \in Queue /\ peer \in Peers /\ Tidy(K, rx, peer)
  BY DEF NetInv
<1>11. Tidy(k2, rx', peer)
  <2>1. CASE socks[fd].type = "tcp" /\ socks[fd].connected
    <3>1. PICK fl, none : fl = {"FIN", "ACK"} /\ none = <<>>
      OBVIOUS
    <3>2. k1 = tcp_send_raw(K, fd, fl, none) /\ fl \in SUBSET Flags /\ none \in Bytes
      BY <1>1, <2>1, <3>1, EmptyFits DEF Flags
    <3>3. Tidy(k2, rx, peer)
      BY <1>3, <1>4, <1>5, <1>9, <1>10, <3>2, SendTidy
    <3> QED BY <1>2, <3>3
  <2>2. CASE ~(socks[fd].type = "tcp" /\ socks[fd].connected)
    <3>1. PICK h : h = K.hist
      OBVIOUS
    <3>2. k2 = Put(K, fd, Free, h) /\ Blank(K.hist, h, fd)
      BY <1>1, <1>3, <2>2, <3>1 DEF Blank
    <3>3. Tidy(k2, rx, peer)
      BY <1>4, <1>5, <1>9, <1>10, <3>2, PutTidy
    <3> QED BY <1>2, <3>3
  <2> QED BY <2>1, <2>2
<1> QED BY <1>2, <1>4, <1>6, <1>8, <1>11, StepOf

\* net_ping.
LEMMA PingKeeps ==
    ASSUME NetInv, net_ping(Lan)
    PROVE  NetInv'
<1>1. PICK k1 : k1 = arp_send(K, Lan)
  OBVIOUS
<1>2. PICK k2 : k2 = Polled(k1)
  OBVIOUS
<1>3. /\ Become(k2) /\ rx' = Unpolled /\ call = NoCall /\ UNCHANGED <<eph, conf, call, peer>>
  BY <1>1, <1>2 DEF net_ping, Idle
<1>4. /\ K \in Kernels /\ eph \in Nat /\ conf.gw \in Hosts /\ Sound(K, eph)
      /\ rx \in Queue /\ peer \in Peers /\ Tidy(K, rx, peer)
      /\ \A i \in 1 .. Len(rx) : InOK(K, eph, rx[i])
  BY NowOK DEF NetInv, Talk
<1>5. Poll(K, k1, eph) /\ k1 \in Kernels /\ Tidy(k1, rx, peer)
  <2>1. PICK g : g = Arp("ask", Lan)
    OBVIOUS
  <2>2. /\ g \in Others /\ k1 \in Kernels
        /\ k1 = [socks |-> K.socks, arp |-> K.arp, hist |-> K.hist, tx |-> Append(K.tx, g)]
    BY <1>1, <1>4, <2>1, NamesDiffer, ArpSends DEF arp_send
  <2>3. g \in Frames /\ g.kind # "tcp"
    BY <2>2 DEF Frames, Others
  <2>4. Later(K.hist, k1.hist)
    BY <2>2 DEF Later
  <2>5. Turn(K, k1, eph, None, 0)
    BY <1>4, <2>2, <2>3, <2>4, PlainTurns
  <2>6. k1.socks = K.socks /\ k1.hist = K.hist /\ k1.tx = Append(K.tx, g)
    BY <2>2
  <2>7. Tidy(k1, rx, peer)
    BY <1>4, <2>2, <2>3, <2>4, <2>6, PlainTidy
  <2> QED BY <2>2, <2>5, <2>7, TurnPolls
<1>6. Poll(k1, k2, eph) /\ k2 \in Kernels /\ Tidy(k2, Unpolled, peer)
  <2>1. Sound(k1, eph) /\ Later(K.hist, k1.hist)
    BY <1>5 DEF Poll
  <2>2. \A i \in 1 .. Len(rx) : InOK(k1, eph, rx[i])
    BY <1>4, <2>1, InLater
  <2>3. Poll(k1, k2, eph)
    BY <1>2, <1>4, <1>5, <2>1, <2>2, PolledPolls
  <2>4. Tidy(k2, Unpolled, peer)
    BY <1>2, <1>4, <1>5, <2>1, <2>2, PolledTidy
  <2> QED BY <2>3, <2>4 DEF Poll
<1>7. Poll(K, k2, eph) /\ K' = k2 /\ CallOK(call', k2, eph)
  BY <1>3, <1>4, <1>5, <1>6, PollTrans, BecomeIs, NoCallOK
<1>8. Tidy(k2, rx', peer)
  BY <1>3, <1>6
<1> QED BY <1>3, <1>4, <1>7, <1>8, StepOf

\* net_dns.
LEMMA DnsKeeps ==
    ASSUME NetInv, net_dns
    PROVE  NetInv'
<1>1. PICK fd \in Fds : 
         LET open == [Free EXCEPT !.used = TRUE, !.type = "udp", !.lport = eph,
                                  !.rip = Gw, !.rport = 53]
         IN \E k \in {Polled([K EXCEPT !.socks[fd] = open])} :
                 LET asked == udp_send(k, Gw, eph, <<Filler>>)
                 IN Become([asked EXCEPT !.socks[fd].used = FALSE])
  BY Zenon DEF net_dns
<1>2. PICK s : s = [Free EXCEPT !.used = TRUE, !.type = "udp", !.lport = eph, !.rip = Gw, !.rport = 53]
  OBVIOUS
<1>3. PICK k1 : k1 = [K EXCEPT !.socks[fd] = s]
  OBVIOUS
<1>4. PICK k3 : k3 = Polled(k1)
  OBVIOUS
<1>5. PICK k4 : k4 = udp_send(k3, Gw, eph, <<Filler>>)
  OBVIOUS
<1>6. Become([k4 EXCEPT !.socks[fd].used = FALSE])
  BY <1>1, <1>2, <1>3, <1>4, <1>5, Zenon
<1>7. rx' = Unpolled /\ call = NoCall /\ eph' = eph + 1 /\ UNCHANGED <<conf, call, peer>>
  BY DEF net_dns, Idle
<1>8. PICK e : e = eph + 1
  OBVIOUS
<1>9. /\ K \in Kernels /\ eph \in Nat /\ e \in Nat /\ eph <= e /\ eph >= FirstEphemeral
      /\ rx \in Queue /\ peer \in Peers /\ K.hist \in Hist
      /\ Talk(K, rx, peer, eph) /\ InTurn(K, peer) /\ conf.gw \in Hosts /\ Tidy(K, rx, peer)
  BY <1>8 DEF NetInv, Kernels
<1>10. Talk(K, rx, peer, e) /\ Sound(K, e) /\ \A i \in 1 .. Len(rx) : InOK(K, e, rx[i])
  BY <1>9, TalkLonger DEF Talk
<1>11. /\ s \in Sock /\ s.type = "udp" /\ s.rip = Gw /\ ~s.connected /\ ~s.listening /\ s.rbuf = <<>>
  <2>1. PICK g, x : g = Gw /\ x = 53 /\ x \in Nat
    OBVIOUS
  <2>2. g \in Hosts /\ eph \in Nat
    BY <1>9, <2>1, NamesDiffer
  <2>3. PICK u : u = [Free EXCEPT !.used = TRUE, !.type = "udp", !.lport = eph]
    OBVIOUS
  <2>4. u \in Sock /\ u.type = "udp" /\ ~u.connected /\ ~u.listening /\ u.rbuf = <<>>
    BY <2>2, <2>3, FreeIs DEF Sock
  <2>5. s = [u EXCEPT !.rip = g, !.rport = x]
    BY <1>2, <2>1, <2>3
  <2> QED BY <2>1, <2>2, <2>4, <2>5 DEF Sock
<1>12. SockOK(K, e, s)
  BY <1>11, EmptyFits, NamesDiffer DEF SockOK
<1>13. k1 = Put(K, fd, s, K.hist)
  <2>1. PICK k : k = K
    OBVIOUS
  <2>2. k1 = [k EXCEPT !.socks[fd] = s] /\ k \in Kernels
    BY <1>3, <1>9, <2>1
  <2>3. k1.hist = k.hist /\ [k1 EXCEPT !.hist = k.hist] = k1
    BY <2>2 DEF Kernels
  <2>4. Put(k, fd, s, k.hist) = [k1 EXCEPT !.hist = k.hist]
    BY <2>2 DEF Put
  <2> QED BY <2>1, <2>3, <2>4
<1>14. /\ Poll(K, k1, e) /\ k1 \in Kernels /\ k1.socks[fd] = s /\ Sound(k1, e) /\ Later(K.hist, k1.hist)
       /\ Tidy(k1, rx, peer)
  <2>1. PICK h : h = K.hist
    OBVIOUS
  <2>2. Blank(K.hist, h, fd) /\ k1 = Put(K, fd, s, h)
    BY <1>13, <2>1 DEF Blank
  <2>3. Poll(K, k1, e) /\ k1 \in Kernels /\ k1.socks[fd] = s
    BY <1>9, <1>10, <1>11, <1>12, <2>2, PutPolls
  <2>4. s.rip \notin Remote
    BY <1>11, NamesDiffer
  <2>5. Tidy(k1, rx, peer)
    BY <1>9, <1>10, <1>11, <1>12, <2>2, <2>4, PutTidy
  <2> QED BY <2>3, <2>5 DEF Poll
<1>15. /\ Poll(k1, k3, e) /\ Steady(k1, k3) /\ k3 \in Kernels /\ Sound(k3, e)
       /\ Tidy(k3, Unpolled, peer) /\ Unpolled \in Queue
  <2>1. \A i \in 1 .. Len(rx) : InOK(k1, e, rx[i])
    BY <1>10, <1>14, InLater
  <2>2. Poll(k1, k3, e) /\ Steady(k1, k3)
    BY <1>4, <1>9, <1>14, <2>1, PolledPolls
  <2>3. Tidy(k3, Unpolled, peer) /\ Unpolled \in Queue
    BY <1>4, <1>9, <1>14, <2>1, PolledTidy
  <2> QED BY <2>2, <2>3 DEF Poll
<1>16. PICK f : f = [kind |-> "udp", host |-> Gw, port |-> eph, data |-> <<Filler>>]
  OBVIOUS
<1>17. f \in Frames /\ f.kind # "tcp"
  <2>1. <<Filler>> \in Seq(Nat)
    BY DEF Filler
  <2> QED BY <1>9, <1>16, <2>1, NamesDiffer DEF Frames, Udps, Bytes
<1>18. k4 = ip_send(k3, f)
  BY <1>5, <1>16 DEF udp_send
<1>19. PICK g \in Frames, k5 \in Kernels, m \in {k3.hist.muted, k3.hist.muted \cup {Conn(f)}} :
              /\ k5 = ip_send(k3, f)
              /\ k5 = [socks |-> k3.socks, arp |-> k3.arp, tx |-> Append(k3.tx, g),
                       hist |-> [k3.hist EXCEPT !.muted = m]]
              /\ (g = f /\ m = k3.hist.muted) \/ (g.kind = "ask" /\ m = k3.hist.muted \cup {Conn(f)})
  BY <1>9, <1>15, <1>17, IpSends
<1>20. /\ k4 \in Kernels /\ k4.socks = k3.socks /\ k4.tx = Append(k3.tx, g) /\ g.kind # "tcp"
       /\ k4.hist = [k3.hist EXCEPT !.muted = m]
  BY <1>17, <1>18, <1>19
<1>21. Poll(k3, k4, e) /\ Sound(k4, e) /\ Tidy(k4, Unpolled, peer)
  <2>1. k4.hist.log = k3.hist.log /\ Later(k3.hist, k4.hist)
    BY <1>15, <1>19, <1>20 DEF Later, Kernels, Hist
  <2>2. Turn(k3, k4, e, None, 0)
    BY <1>15, <1>20, <2>1, PlainTurns
  <2>3. Tidy(k4, Unpolled, peer)
    BY <1>9, <1>15, <1>20, <2>1, PlainTidy
  <2> QED BY <2>2, <2>3, TurnPolls DEF Poll
<1>22. PICK t : t = k4.socks[fd]
  OBVIOUS
<1>23. t \in Sock /\ SockOK(k4, e, t) /\ t.type = "udp"
  <2>1. k3.socks[fd].type = "udp"
    BY <1>11, <1>14, <1>15 DEF Steady
  <2> QED BY <1>20, <1>21, <1>22, <2>1 DEF Kernels, Sound
<1>24. PICK t2 : t2 = [t EXCEPT !.used = FALSE]
  OBVIOUS
<1>25. /\ t2 \in Sock /\ t2.rip = t.rip /\ t2.lport = t.lport /\ t2.ack = t.ack
       /\ t2.type = t.type /\ t2.rport = t.rport /\ t2.rbuf = t.rbuf
       /\ t2.connected = t.connected /\ t2.listening = t.listening
  BY <1>23, <1>24 DEF Sock
<1>26. SockOK(k4, e, t2)
  BY <1>23, <1>25 DEF SockOK
<1>27. PICK k2 : k2 = [k4 EXCEPT !.socks[fd].used = FALSE]
  OBVIOUS
<1>28. k2 = Put(k4, fd, t2, k4.hist)
  <2>1. k2 = [k4 EXCEPT !.socks[fd] = t2]
    BY <1>22, <1>24, <1>27
  <2>2. k2.hist = k4.hist /\ [k2 EXCEPT !.hist = k4.hist] = k2
    BY <1>20, <2>1 DEF Kernels
  <2>3. Put(k4, fd, t2, k4.hist) = [k2 EXCEPT !.hist = k4.hist]
    BY <2>1 DEF Put
  <2> QED BY <2>2, <2>3
<1>29. Poll(k4, k2, e) /\ k2 \in Kernels /\ Tidy(k2, Unpolled, peer)
  <2>1. PICK h : h = k4.hist
    OBVIOUS
  <2>2. Blank(k4.hist, h, fd) /\ k2 = Put(k4, fd, t2, h)
    BY <1>28, <2>1 DEF Blank
  <2>3. SameEnd(k4.socks[fd], t2) /\ h = k4.hist
    BY <1>22, <1>25, <2>1 DEF SameEnd
  <2>4. Tidy(k2, Unpolled, peer)
    BY <1>9, <1>15, <1>20, <1>21, <1>25, <1>26, <2>2, <2>3, PutTidy
  <2> QED BY <1>20, <1>21, <1>25, <1>26, <2>2, <2>4, PutPolls
<1>30. Poll(K, k2, e)
  <2>1. Poll(K, k3, e)
    BY <1>9, <1>14, <1>15, PollTrans
  <2>2. Poll(K, k4, e)
    BY <1>9, <1>21, <2>1, PollTrans
  <2> QED BY <1>9, <1>29, <2>2, PollTrans
<1>31. Unpolled \in Queue /\ \A i \in 1 .. Len(Unpolled) : \E j \in 1 .. Len(rx) : Unpolled[i] = rx[j]
  BY <1>9, UnpolledIs
<1>32. Talk(k2, Unpolled, peer, e) /\ InTurn(k2, peer)
  BY <1>9, <1>10, <1>30, <1>31, TalkGoesOn
<1>33. K' = k2
  BY <1>6, <1>27, <1>29, BecomeIs
<1>34. CallOK(call', k2, e)
  BY <1>7, NoCallOK
<1>35. /\ K' \in Kernels /\ rx' \in Queue /\ peer' \in Peers /\ eph' \in Nat /\ eph' >= FirstEphemeral
       /\ conf'.gw \in Hosts /\ CallOK(call', K', eph')
       /\ Talk(K', rx', peer', eph') /\ InTurn(K', peer') /\ Tidy(K', rx', peer')
  <2>1. eph' = e /\ e >= FirstEphemeral
    BY <1>7, <1>8, <1>9 DEF FirstEphemeral
  <2> QED BY <1>7, <1>9, <1>29, <1>31, <1>32, <1>33, <1>34, <2>1
<1> QED BY <1>35 DEF NetInv

-----------------------------------------------------------------------------
(* What the network does to the frames, and the order of the streams.       *)

\* The head and the tail of a sequence.
LEMMA HeadTail ==
    ASSUME NEW S, NEW q \in Seq(S), q # <<>>
    PROVE  /\ Head(q) \in S /\ Head(q) = q[1] /\ Tail(q) \in Seq(S) /\ Len(q) \in Nat /\ Len(q) >= 1
           /\ Len(Tail(q)) = Len(q) - 1 /\ \A i \in 1 .. Len(Tail(q)) : Tail(q)[i] = q[i + 1]
<1>1. Len(q) \in Nat /\ Len(q) >= 1
  BY Len(q) # 0
<1> QED BY <1>1

\* A frame leaves the wire, or is dropped from it.
Shorter(q, q2) == q2 = q \/ (q # <<>> /\ q2 = Tail(q))

\* Each frame that is left was there before.
LEMMA ShorterIs ==
    ASSUME NEW S, NEW q \in Seq(S), NEW q2, Shorter(q, q2)
    PROVE  /\ q2 \in Seq(S) /\ Len(q) \in Nat /\ Len(q2) \in Nat
           /\ \E d \in {0, 1} : /\ Len(q2) = Len(q) - d
                                /\ \A i \in 1 .. Len(q2) : i + d \in 1 .. Len(q) /\ q2[i] = q[i + d]
<1>1. CASE q2 = q
  <2>1. Len(q) \in Nat /\ Len(q2) = Len(q) - 0
    BY <1>1
  <2>2. \A i \in 1 .. Len(q2) : i + 0 \in 1 .. Len(q) /\ q2[i] = q[i + 0]
    BY <1>1, <2>1
  <2> QED BY <1>1, <2>1, <2>2
<1>2. CASE q # <<>> /\ q2 = Tail(q)
  <2>1. /\ Tail(q) \in Seq(S) /\ Len(q) \in Nat /\ Len(q) >= 1
        /\ Len(Tail(q)) = Len(q) - 1 /\ \A i \in 1 .. Len(Tail(q)) : Tail(q)[i] = q[i + 1]
    BY <1>2, HeadTail
  <2>2. \A i \in 1 .. Len(q2) : i + 1 \in 1 .. Len(q) /\ q2[i] = q[i + 1]
    BY <1>2, <2>1
  <2>3. q2 \in Seq(S) /\ Len(q2) \in Nat /\ Len(q2) = Len(q) - 1
    BY <1>2, <2>1
  <2> QED BY <2>1, <2>2, <2>3
<1> QED BY <1>1, <1>2 DEF Shorter

\* A frame leaves the queue, or none does.
LEMMA TailSlides ==
    ASSUME NEW q \in Queue, NEW q2, Shorter(q, q2), NEW r, NEW p
    PROVE  q2 \in Queue /\ Slides(q, q2, r, p)
<1>1. PICK S : S = Heard \cup Near
  OBVIOUS
<1>2. q \in Seq(S)
  BY <1>1 DEF Queue
<1>3. /\ q2 \in Seq(S)
      /\ \E d \in {0, 1} : /\ Len(q2) = Len(q) - d
                           /\ \A i \in 1 .. Len(q2) : i + d \in 1 .. Len(q) /\ q2[i] = q[i + d]
  BY <1>2, ShorterIs
<1> QED BY <1>1, <1>3 DEF Queue, Slides

\* A queue with one more frame.
LEMMA MoreIs ==
    ASSUME NEW q \in Queue, NEW g \in Heard \cup Near, NEW q2, q2 = Append(q, g)
    PROVE  /\ q2 \in Queue /\ Len(q) \in Nat /\ Len(q2) = Len(q) + 1 /\ q2[Len(q) + 1] = g
           /\ \A i \in 1 .. Len(q) : q2[i] = q[i]
           /\ \A i \in 1 .. Len(q2) : i \in 1 .. Len(q) \/ i = Len(q) + 1
<1>1. PICK S : S = Heard \cup Near
  OBVIOUS
<1>2. q \in Seq(S) /\ g \in S /\ Len(q) \in Nat
  BY <1>1 DEF Queue
<1>3. /\ q2 \in Seq(S) /\ Len(q2) = Len(q) + 1 /\ q2[Len(q) + 1] = g
      /\ \A i \in 1 .. Len(q) : q2[i] = q[i]
  BY <1>2
<1> QED BY <1>1, <1>2, <1>3 DEF Queue

\* A frame without weight is added.
LEMMA MoreSlides ==
    ASSUME NEW q \in Queue, NEW g \in Heard \cup Near, NEW q2, q2 = Append(q, g),
           NEW r, NEW p, ~Weighs(g, r, p)
    PROVE  Slides(q, q2, r, p)
<1>1. \A i \in 1 .. Len(q2) : Weighs(q2[i], r, p) => i \in 1 .. Len(q) /\ q2[i] = q[i]
  BY MoreIs
<1>2. \A i \in 1 .. Len(q) : i + 0 = i
  OBVIOUS
<1> QED BY <1>1, <1>2 DEF Slides

\* A frame that its peer can miss.
Spare(f, pr, r, p) == Of(f, r, p) =>
    pr[r].port # p \/ pr[r].una = Stream \/ f.ack <= pr[r].una + 1
\* A peer that stays as it was, or comes no nearer to the connection.
Away(pr, pr2, r, p) == pr2[r] = pr[r] \/ (pr2[r].port # p /\ (pr2[r].port < p => pr[r].port < p))

\* A frame leaves the wire that the peer can miss.
LEMMA WireCalm ==
    ASSUME NEW k \in Kernels, NEW k2 \in Kernels, NEW q \in Queue, NEW q2 \in Queue, NEW pr \in Peers,
           NEW r \in Remote, NEW p \in Nat, k2.socks = k.socks, k2.hist.log = k.hist.log,
           Shorter(k.tx, k2.tx), Slides(q, q2, r, p), k2.tx # k.tx => Spare(Head(k.tx), pr, r, p)
    PROVE  Calm(k, q, k2, q2, pr, r, p)
<1>1. k.tx \in Seq(Frames) /\ pr[r].una \in Nat
  BY NetAssumption DEF Kernels, Peers
<1>2. PICK d \in {0, 1} : /\ Len(k2.tx) = Len(k.tx) - d
                          /\ \A i \in 1 .. Len(k2.tx) : i + d \in 1 .. Len(k.tx) /\ k2.tx[i] = k.tx[i + d]
  BY <1>1, ShorterIs
<1>3. Says(k, k2, pr, r, p)
  BY <1>2 DEF Says
<1>4. Tells(k, k2, pr, r, p)
  <2>1. CASE k2.tx = k.tx
    BY <2>1 DEF Tells
  <2>2. CASE k2.tx # k.tx
    <3>0. k.tx # <<>> /\ k2.tx = Tail(k.tx)
      BY <2>2 DEF Shorter
    <3>1. /\ Len(k.tx) \in Nat /\ Head(k.tx) = k.tx[1]
          /\ Len(k2.tx) = Len(k.tx) - 1 /\ \A i \in 1 .. Len(k2.tx) : k2.tx[i] = k.tx[i + 1]
      <4>1. PICK t, t2 : t = k.tx /\ t2 = k2.tx
        OBVIOUS
      <4>2. t \in Seq(Frames) /\ t # <<>> /\ t2 = Tail(t)
        BY <1>1, <3>0, <4>1
      <4>3. /\ Head(t) = t[1] /\ Len(t) \in Nat /\ Len(Tail(t)) = Len(t) - 1
            /\ \A i \in 1 .. Len(Tail(t)) : Tail(t)[i] = t[i + 1]
        BY <4>2, HeadTail
      <4> QED BY <4>1, <4>2, <4>3
    <3>2. ASSUME pr[r].port = p, pr[r].una < Stream,
                 NEW j \in 1 .. Len(k.tx), Of(k.tx[j], r, p), k.tx[j].ack > pr[r].una + 1
          PROVE  \E i \in 1 .. Len(k2.tx) : k2.tx[i] = k.tx[j]
      <4>1. CASE j = 1
        <5>1. PICK f : f = k.tx[1]
          OBVIOUS
        <5>2. f \in Frames
          BY <1>1, <3>2, <4>1, <5>1
        <5>3. f.ack \in Nat
          BY <3>2, <4>1, <5>1, <5>2, FramesDiffer DEF Frames, Udps, Others, Of
        <5>4. f.ack <= pr[r].una + 1
          BY <1>1, <2>2, <3>1, <3>2, <4>1, <5>1, NetAssumption DEF Spare
        <5> QED BY <1>1, <3>2, <4>1, <5>1, <5>3, <5>4
      <4>2. CASE j # 1
        <5>1. j - 1 \in 1 .. Len(k2.tx) /\ (j - 1) + 1 = j
          BY <3>1, <4>2
        <5> QED BY <3>1, <5>1
      <4> QED BY <4>1, <4>2
    <3> QED BY <3>2 DEF Tells
  <2> QED BY <2>1, <2>2
<1>5. \A c \in Fds : Has(k2.socks[c], r, p) => GoesOn(k, k2, pr, r, p, c)
  BY DEF GoesOn
<1> QED BY <1>3, <1>4, <1>5 DEF Calm

\* A peer elsewhere has no say in whether a connection is in order.
LEMMA AwayGood ==
    ASSUME NEW k, NEW q, NEW pr \in Peers, NEW pr2 \in Peers, NEW r \in Remote, NEW p \in Nat,
           Away(pr, pr2, r, p), Good(k, q, pr, r, p)
    PROVE  Good(k, q, pr2, r, p)
<1>1. CASE pr2[r] = pr[r]
  BY <1>1 DEF Good, Listener, Called, OnTrack, Fresh, Ended
<1>2. CASE pr2[r].port # p /\ (pr2[r].port < p => pr[r].port < p)
  <2>1. \A L : OnTrack(k, q, pr, r, p, L) => OnTrack(k, q, pr2, r, p, L)
    BY <1>2 DEF OnTrack
  <2>2. \A d : Listener(k, q, pr, r, p, d) => Listener(k, q, pr2, r, p, d)
    BY <1>2, <2>1 DEF Listener
  <2>3. \A i : Called(k, q, pr, r, p, i) => Called(k, q, pr2, r, p, i)
    BY <2>1 DEF Called
  <2>4. Fresh(pr2, r, p) => Fresh(pr, r, p)
    BY <1>2 DEF Fresh
  <2>5. Ended(q, pr2, r, p)
    BY <1>2 DEF Ended
  <2> QED BY <2>2, <2>3, <2>4, <2>5 DEF Good
<1> QED BY <1>1, <1>2 DEF Away

\* What the network does to the frames: each connection is either untouched by it, or
\* shown to be in order.
LEMMA WireTidy ==
    ASSUME NEW k \in Kernels, NEW k2 \in Kernels, NEW q \in Queue, NEW q2 \in Queue,
           NEW pr \in Peers, NEW pr2 \in Peers, Tidy(k, q, pr),
           k2.socks = k.socks, k2.hist.log = k.hist.log, Later(k.hist, k2.hist), Shorter(k.tx, k2.tx),
           \A r \in Remote, p \in Nat : Fine(k2, r, p) =>
               \/ Good(k2, q2, pr2, r, p)
               \/ /\ Away(pr, pr2, r, p) /\ Slides(q, q2, r, p)
                  /\ k2.tx # k.tx => Spare(Head(k.tx), pr2, r, p)
    PROVE  Tidy(k2, q2, pr2)
<1>1. ASSUME NEW r \in Remote, NEW p \in Nat, Fine(k2, r, p) PROVE Good(k2, q2, pr2, r, p)
  <2>1. Good(k, q, pr, r, p)
    BY <1>1, FineBefore DEF Tidy
  <2>2. CASE /\ Away(pr, pr2, r, p) /\ Slides(q, q2, r, p)
             /\ k2.tx # k.tx => Spare(Head(k.tx), pr2, r, p)
    <3>1. Good(k, q, pr2, r, p)
      BY <2>1, <2>2, AwayGood
    <3>2. Calm(k, q, k2, q2, pr2, r, p)
      BY <2>2, WireCalm
    <3> QED BY <3>1, <3>2, CalmGood
  <2> QED BY <1>1, <2>2
<1> QED BY <1>1 DEF Tidy

-----------------------------------------------------------------------------
(* What a remote host does, and the order of its stream.                    *)

\* A connection that has only begun.
LEMMA NewGoes ==
    ASSUME NEW k \in Kernels, NEW k2 \in Kernels, NEW q \in Queue, NEW q2, NEW r, NEW p,
           New(k, q, r, p), k2.socks = k.socks, k2.hist.log = k.hist.log, Shorter(k.tx, k2.tx),
           NEW g \in Heard \cup Near, q2 = Append(q, g), g.data = <<>>, "FIN" \notin g.flags
    PROVE  New(k2, q2, r, p)
<1>1. \A i \in 1 .. Len(q2) : Of(q2[i], r, p) => q2[i].data = <<>> /\ "FIN" \notin q2[i].flags
  <2>1. /\ \A i \in 1 .. Len(q) : q2[i] = q[i]
        /\ \A i \in 1 .. Len(q2) : i \in 1 .. Len(q) \/ q2[i] = g
    BY MoreIs
  <2> QED BY <2>1 DEF New
<1>2. \A i \in 1 .. Len(k2.tx) : Of(k2.tx[i], r, p) => k2.tx[i].ack <= 1
  <2>1. PICK u, v : u = k.tx /\ v = k2.tx
    OBVIOUS
  <2>3. u \in Seq(Frames) /\ Shorter(u, v)
    BY <2>1 DEF Kernels
  <2>4. PICK d \in {0, 1} : \A i \in 1 .. Len(v) : i + d \in 1 .. Len(u) /\ v[i] = u[i + d]
    BY <2>3, ShorterIs
  <2>2. \A i \in 1 .. Len(k2.tx) : \E j \in 1 .. Len(k.tx) : k2.tx[i] = k.tx[j]
    BY <2>1, <2>4
  <2> QED BY <2>2 DEF New
<1> QED BY <1>1, <1>2 DEF New

\* The peer comes to a connection that is new.
LEMMA BeginGood ==
    ASSUME NEW k \in Kernels, NEW q \in Queue, NEW pr \in Peers, NEW r \in Remote, NEW p \in Nat,
           Alone(k, r, p), New(k, q, r, p), pr[r].port = p, pr[r].una = 0
    PROVE  Good(k, q, pr, r, p)
<1>1. k.tx \in Seq(Frames) /\ Stream \in Nat
  BY NetAssumption DEF Kernels
<1>2. \A i \in 1 .. Len(q) : ~Bears(q[i], r, p)
  BY DEF New, Bears
<1>3. PICK Z, s : Z = 0 /\ s = pr[r]
  OBVIOUS
<1>4. \A a : a <= 1 => Fits(s, Z, a)
  BY <1>3 DEF Fits
<1>5. OnTrack(k, q, pr, r, p, Z)
  <2>1. \A i \in 1 .. Len(k.tx) : Of(k.tx[i], r, p) => Fits(s, Z, k.tx[i].ack)
    BY <1>4 DEF New
  <2>2. s.una <= Z /\ ~(s.una < Z)
    BY <1>3
  <2> QED BY <1>2, <1>3, <2>1, <2>2 DEF OnTrack
<1>6. ASSUME NEW fd \in Fds, Has(k.socks[fd], r, p) PROVE Listener(k, q, pr, r, p, fd)
  <2>1. k.hist.log[fd] = <<>> /\ Len(k.hist.log[fd]) = Z /\ k.socks[fd].ack <= 1
    BY <1>3, <1>6 DEF New
  <2>2. Fits(s, Z, k.socks[fd].ack)
    BY <1>4, <2>1
  <2>3. Len(k.hist.log[fd]) <= Stream /\ \A i \in 1 .. Len(k.hist.log[fd]) : k.hist.log[fd][i] = i
    BY <1>1, <1>3, <2>1
  <2> QED BY <1>3, <1>5, <2>1, <2>2, <2>3 DEF Listener
<1>7. ASSUME NEW i \in 1 .. Len(q) PROVE Called(k, q, pr, r, p, i)
  <2>1. \A j \in 1 .. i : j \in 1 .. Len(q)
    BY DEF Queue
  <2> QED BY <1>2, <1>3, <1>5, <2>1 DEF Called, New
<1>8. Ended(q, pr, r, p)
  BY DEF Ended, New
<1> QED BY <1>6, <1>7, <1>8 DEF Good

\* What a peer takes an acknowledgement to mean, of what was taken from it.
Learns(s, s2, a) ==
    /\ s2.port = s.port /\ s2.st = "open"
    /\ s2.una = Lo(Stream, IF a > s.una + 1 THEN a - 1 ELSE s.una)
    /\ s2.fly <=> s.fly /\ s2.una = s.una

\* It learns nothing, or that all L bytes have arrived.
LEMMA LearnsOne ==
    ASSUME NEW s, NEW s2, NEW a \in Nat, s.una \in 0 .. Stream, s2.una \in 0 .. Stream, Learns(s, s2, a),
           NEW L \in 0 .. Stream, s.una <= L, Fits(s, L, a)
    PROVE  /\ (s2.una = s.una /\ (s2.fly <=> s.fly)) \/ (s.una < L /\ s2.una = L)
           /\ \A b \in Nat : Fits(s, L, b) => Fits(s2, L, b)
<1>1. Stream \in Nat
  BY NetAssumption
<1>2. PICK u, u2 : u = s.una /\ u2 = s2.una
  OBVIOUS
<1>3. u \in Nat /\ u2 \in Nat /\ u <= Stream /\ L \in Nat /\ L <= Stream /\ u <= L
  BY <1>1, <1>2
<1>4. u2 = Lo(Stream, IF a > u + 1 THEN a - 1 ELSE u) /\ (s2.fly <=> s.fly /\ u2 = u)
  BY <1>2 DEF Learns
<1>5. a <= u + 1 \/ a = L + 1 \/ u = Stream
  BY <1>2 DEF Fits
<1>6. u2 = u \/ (u < L /\ u2 = L)
  BY <1>1, <1>3, <1>4, <1>5 DEF Lo
<1>7. ASSUME NEW b \in Nat, Fits(s, L, b) PROVE Fits(s2, L, b)
  <2>1. b <= u + 1 \/ b = L + 1 \/ u = Stream
    BY <1>2, <1>7 DEF Fits
  <2>2. b <= u2 + 1 \/ b = L + 1 \/ u2 = Stream
    BY <1>1, <1>3, <1>6, <2>1
  <2> QED BY <1>2, <2>2 DEF Fits
<1> QED BY <1>2, <1>4, <1>6, <1>7

\* The data that is under way is still the next.
LEMMA LearnsTrack ==
    ASSUME NEW k \in Kernels, NEW q \in Queue, NEW pr \in Peers, NEW pr2 \in Peers,
           NEW r \in Remote, NEW p \in Nat, pr[r].port = p,
           NEW j \in 1 .. Len(k.tx), Of(k.tx[j], r, p), Learns(pr[r], pr2[r], k.tx[j].ack),
           NEW L \in 0 .. Stream, OnTrack(k, q, pr, r, p, L)
    PROVE  OnTrack(k, q, pr2, r, p, L) /\ \A b \in Nat : Fits(pr[r], L, b) => Fits(pr2[r], L, b)
<1>1. PICK s, s2, a : s = pr[r] /\ s2 = pr2[r] /\ a = k.tx[j].ack
  OBVIOUS
<1>2. s.una \in 0 .. Stream /\ s2.una \in 0 .. Stream /\ Stream \in Nat
  BY <1>1, NetAssumption DEF Peers
<1>3. k.tx \in Seq(Frames) /\ \A i \in 1 .. Len(k.tx) : Of(k.tx[i], r, p) => k.tx[i].ack \in Nat
  <2>1. k.tx \in Seq(Frames)
    BY DEF Kernels
  <2>2. \A f \in Frames : Of(f, r, p) => f.ack \in Nat
    BY FramesDiffer DEF Frames, Tcps, Udps, Others, Of
  <2> QED BY <2>1, <2>2
<1>4. /\ \A i \in 1 .. Len(q) : Bears(q[i], r, p) => q[i].seq = L + 1
      /\ \A i, h \in 1 .. Len(q) : Bears(q[i], r, p) /\ Bears(q[h], r, p) => i = h
      /\ s.una <= L
      /\ \A i \in 1 .. Len(q) : Bears(q[i], r, p) => s.una = L /\ s.fly
      /\ s.una < L => /\ s.fly
                      /\ \E i \in 1 .. Len(k.tx) : Of(k.tx[i], r, p) /\ k.tx[i].ack = L + 1
      /\ \A i \in 1 .. Len(k.tx) : Of(k.tx[i], r, p) => Fits(s, L, k.tx[i].ack)
  BY <1>1 DEF OnTrack
<1>5. a \in Nat /\ Fits(s, L, a) /\ Learns(s, s2, a)
  BY <1>1, <1>3, <1>4
<1>6. /\ (s2.una = s.una /\ (s2.fly <=> s.fly)) \/ (s.una < L /\ s2.una = L)
      /\ \A b \in Nat : Fits(s, L, b) => Fits(s2, L, b)
  BY <1>2, <1>4, <1>5, LearnsOne
<1>7. /\ s2.una <= L
      /\ \A i \in 1 .. Len(q) : Bears(q[i], r, p) => s2.una = L /\ s2.fly
      /\ s2.una < L => /\ s2.fly
                       /\ \E i \in 1 .. Len(k.tx) : Of(k.tx[i], r, p) /\ k.tx[i].ack = L + 1
  <2>1. CASE s2.una = s.una /\ (s2.fly <=> s.fly)
    BY <1>4, <2>1
  <2>2. CASE s.una < L /\ s2.una = L
    <3>1. s.una # L /\ ~(s2.una < L) /\ s2.una <= L
      BY <1>2, <2>2
    <3> QED BY <1>4, <3>1
  <2> QED BY <1>6, <2>1, <2>2
<1>8. \A i \in 1 .. Len(k.tx) : Of(k.tx[i], r, p) => Fits(s2, L, k.tx[i].ack)
  BY <1>3, <1>4, <1>6
<1>9. OnTrack(k, q, pr2, r, p, L)
  BY <1>1, <1>4, <1>7, <1>8 DEF OnTrack
<1> QED BY <1>1, <1>6, <1>9

\* An acknowledgement of the connection keeps it good.
LEMMA LearnsGood ==
    ASSUME NEW k \in Kernels, NEW q \in Queue, NEW pr \in Peers, NEW pr2 \in Peers,
           NEW r \in Remote, NEW p \in Nat, pr[r].port = p,
           NEW j \in 1 .. Len(k.tx), Of(k.tx[j], r, p), Learns(pr[r], pr2[r], k.tx[j].ack),
           Good(k, q, pr, r, p)
    PROVE  Good(k, q, pr2, r, p)
<1>1. Stream \in Nat
  BY NetAssumption
<1>2. ASSUME NEW fd \in Fds, Has(k.socks[fd], r, p) PROVE Listener(k, q, pr2, r, p, fd)
  <2>1. PICK L : L = Len(k.hist.log[fd])
    OBVIOUS
  <2>2. Listener(k, q, pr, r, p, fd) /\ L \in Nat
    BY <1>2, <2>1, LogIs DEF Good
  <2>3. L \in 0 .. Stream /\ OnTrack(k, q, pr, r, p, L) /\ Fits(pr[r], L, k.socks[fd].ack)
    BY <1>1, <2>1, <2>2 DEF Listener
  <2>4. k.socks[fd].ack \in Nat
    BY DEF Kernels, Sock
  <2>5. OnTrack(k, q, pr2, r, p, L) /\ Fits(pr2[r], L, k.socks[fd].ack)
    BY <2>3, <2>4, LearnsTrack
  <2> QED BY <2>1, <2>2, <2>5 DEF Listener
<1>3. ~Fresh(pr2, r, p)
  BY DEF Fresh, Learns
<1>4. ASSUME NEW i \in 1 .. Len(q), Calls1(q[i], r, p) PROVE Called(k, q, pr2, r, p, i)
  <2>1. Called(k, q, pr, r, p, i)
    BY <1>4 DEF Good
  <2>2. PICK Z : Z = 0
    OBVIOUS
  <2>3. Z \in 0 .. Stream /\ OnTrack(k, q, pr, r, p, Z)
    BY <1>1, <2>1, <2>2 DEF Called
  <2>4. OnTrack(k, q, pr2, r, p, Z)
    BY <2>3, LearnsTrack
  <2> QED BY <2>1, <2>2, <2>4 DEF Called
<1>5. Ended(q, pr2, r, p)
  <2>1. pr[r].una = Stream => pr2[r].una = Stream
    <3>1. PICK s, s2, a : s = pr[r] /\ s2 = pr2[r] /\ a = k.tx[j].ack
      OBVIOUS
    <3>2. PICK f : f = k.tx[j]
      OBVIOUS
    <3>3. f \in Frames
      BY <3>2 DEF Kernels
    <3>4. a \in Nat
      BY <3>1, <3>2, <3>3, FramesDiffer DEF Frames, Tcps, Udps, Others, Of
    <3>5. s2.una = Lo(Stream, IF a > s.una + 1 THEN a - 1 ELSE s.una)
      BY <3>1 DEF Learns
    <3> QED BY <1>1, <3>1, <3>4, <3>5 DEF Lo
  <2> QED BY <2>1 DEF Ended, Good
<1> QED BY <1>2, <1>3, <1>4, <1>5 DEF Good

\* A peer that sends: nothing it does not know of is under way.
Sends(s, s2) == s2.port = s.port /\ s2.st = "open" /\ s2.una = s.una /\ s2.fly
Silent(k, q, r, p) ==
    /\ \A i \in 1 .. Len(q) : ~Of(q[i], r, p)
    /\ \A i \in 1 .. Len(k.tx) : ~Of(k.tx[i], r, p)

\* What it sends is the next data, and the only one under way.
LEMMA SendsTrack ==
    ASSUME NEW k \in Kernels, NEW q \in Queue, NEW q2 \in Queue, NEW pr \in Peers, NEW pr2 \in Peers,
           NEW r \in Remote, NEW p \in Nat, pr[r].port = p, Sends(pr[r], pr2[r]),
           ~pr[r].fly \/ Silent(k, q, r, p),
           NEW g \in Heard \cup Near, q2 = Append(q, g), g.seq = pr[r].una + 1,
           NEW L \in 0 .. Stream, OnTrack(k, q, pr, r, p, L)
    PROVE  OnTrack(k, q2, pr2, r, p, L)
<1>1. PICK s, s2 : s = pr[r] /\ s2 = pr2[r]
  OBVIOUS
<1>2. s.una \in 0 .. Stream /\ Stream \in Nat /\ s2.una = s.una /\ s2.fly /\ s2.port = p
  BY <1>1, NetAssumption DEF Peers, Sends
<1>3. /\ s.una <= L
      /\ \A i \in 1 .. Len(q) : Bears(q[i], r, p) => s.una = L /\ s.fly
      /\ s.una < L => /\ s.fly
                      /\ \E i \in 1 .. Len(k.tx) : Of(k.tx[i], r, p) /\ k.tx[i].ack = L + 1
      /\ \A i \in 1 .. Len(k.tx) : Of(k.tx[i], r, p) => Fits(s, L, k.tx[i].ack)
  BY <1>1 DEF OnTrack
<1>4. s.una = L /\ \A i \in 1 .. Len(q) : ~Bears(q[i], r, p)
  <2>1. ~(s.una < L)
    BY <1>1, <1>3 DEF Silent
  <2>2. \A i \in 1 .. Len(q) : ~Bears(q[i], r, p)
    BY <1>1, <1>3 DEF Silent, Bears
  <2> QED BY <1>2, <1>3, <2>1, <2>2
<1>5. /\ Len(q) \in Nat /\ Len(q2) = Len(q) + 1 /\ q2[Len(q) + 1] = g
      /\ \A i \in 1 .. Len(q) : q2[i] = q[i]
      /\ \A i \in 1 .. Len(q2) : i \in 1 .. Len(q) \/ i = Len(q) + 1
  BY MoreIs
<1>6. \A i \in 1 .. Len(q2) : Bears(q2[i], r, p) => i = Len(q) + 1 /\ q2[i] = g
  BY <1>4, <1>5
<1>7. \A b : Fits(s, L, b) => Fits(s2, L, b)
  BY <1>2 DEF Fits
<1>8. g.seq = L + 1
  BY <1>1, <1>4
<1>9. /\ \A i \in 1 .. Len(q2) : Bears(q2[i], r, p) => q2[i].seq = L + 1
      /\ \A i, h \in 1 .. Len(q2) : Bears(q2[i], r, p) /\ Bears(q2[h], r, p) => i = h
  BY <1>6, <1>8
<1>10. /\ s2.una <= L /\ ~(s2.una < L) /\ s2.una = L /\ s2.fly
       /\ \A i \in 1 .. Len(k.tx) : Of(k.tx[i], r, p) => Fits(s2, L, k.tx[i].ack)
  BY <1>2, <1>3, <1>4, <1>7
<1>11. OnTrack(k, q2, pr2, r, p, L)
  BY <1>1, <1>9, <1>10 DEF OnTrack
<1> QED BY <1>11

\* A segment that is not sent again keeps the connection good.
LEMMA SendsGood ==
    ASSUME NEW k \in Kernels, NEW q \in Queue, NEW q2 \in Queue, NEW pr \in Peers, NEW pr2 \in Peers,
           NEW r \in Remote, NEW p \in Nat, pr[r].port = p, pr[r].st = "open", Sends(pr[r], pr2[r]),
           ~pr[r].fly \/ Silent(k, q, r, p),
           NEW g \in Heard \cup Near, q2 = Append(q, g), g.seq = pr[r].una + 1,
           "ACK" \in g.flags, g.data = <<>> /\ "FIN" \in g.flags => pr[r].una = Stream,
           Good(k, q, pr, r, p)
    PROVE  Good(k, q2, pr2, r, p)
<1>1. Stream \in Nat
  BY NetAssumption
<1>2. ASSUME NEW fd \in Fds, Has(k.socks[fd], r, p) PROVE Listener(k, q2, pr2, r, p, fd)
  <2>1. PICK L : L = Len(k.hist.log[fd])
    OBVIOUS
  <2>2. Listener(k, q, pr, r, p, fd) /\ L \in Nat
    BY <1>2, <2>1, LogIs DEF Good
  <2>3. L \in 0 .. Stream /\ OnTrack(k, q, pr, r, p, L) /\ Fits(pr[r], L, k.socks[fd].ack)
    BY <1>1, <2>1, <2>2 DEF Listener
  <2>6. L \in 0 .. Stream /\ OnTrack(k, q, pr, r, p, L)
    BY <2>3
  <2>4. OnTrack(k, q2, pr2, r, p, L)
    BY <2>6, SendsTrack
  <2>5. Fits(pr2[r], L, k.socks[fd].ack)
    BY <2>3 DEF Fits, Sends
  <2> QED BY <2>1, <2>2, <2>4, <2>5 DEF Listener
<1>3. ~Fresh(pr2, r, p)
  BY DEF Fresh, Sends
<1>5. /\ Len(q) \in Nat /\ Len(q2) = Len(q) + 1 /\ q2[Len(q) + 1] = g
      /\ \A i \in 1 .. Len(q) : q2[i] = q[i]
      /\ \A i \in 1 .. Len(q2) : i \in 1 .. Len(q) \/ i = Len(q) + 1
  BY MoreIs
<1>4. ASSUME NEW i \in 1 .. Len(q2), Calls1(q2[i], r, p) PROVE Called(k, q2, pr2, r, p, i)
  <2>0. i \in 1 .. Len(q) /\ q2[i] = q[i]
    BY <1>4, <1>5 DEF Calls1
  <2>1. Called(k, q, pr, r, p, i)
    BY <1>4, <2>0 DEF Good
  <2>2. PICK Z : Z = 0
    OBVIOUS
  <2>3. Z \in 0 .. Stream /\ OnTrack(k, q, pr, r, p, Z)
    BY <1>1, <2>1, <2>2 DEF Called
  <2>4. OnTrack(k, q2, pr2, r, p, Z)
    BY <2>3, SendsTrack
  <2>5. \A j \in 1 .. i : j \in 1 .. Len(q)
    BY <1>5, <2>0
  <2>6. \A j \in 1 .. i : ~Bears(q2[j], r, p)
    BY <1>5, <2>1, <2>5 DEF Called
  <2> QED BY <2>1, <2>2, <2>4, <2>6 DEF Called
<1>6. Ended(q2, pr2, r, p)
  <2>1. pr2[r].una = pr[r].una /\ pr2[r].port = pr[r].port
    BY DEF Sends
  <2> QED BY <1>5, <2>1 DEF Ended, Good
<1> QED BY <1>2, <1>3, <1>4, <1>6 DEF Good

\* The kernel's state once a frame left the wire.
LEMMA WireNow ==
    ASSUME NetInv, UNCHANGED <<socks, arp>>, Shorter(tx, tx'), hist' \in Hist, Later(hist, hist'),
           NEW k2, k2 = K'
    PROVE  /\ K \in Kernels /\ k2 \in Kernels /\ k2.socks = K.socks /\ k2.tx = tx' /\ k2.hist = hist'
           /\ Later(K.hist, k2.hist) /\ Shorter(K.tx, k2.tx)
<1>1. /\ K \in Kernels /\ K.socks = socks /\ K.tx = tx /\ K.hist = hist /\ K.arp = arp
  BY KIs DEF NetInv
<1>2. tx \in Seq(Frames)
  BY <1>1 DEF Kernels
<1>3. PICK t2, h2 : t2 = tx' /\ h2 = hist'
  OBVIOUS
<1>4. t2 \in Seq(Frames)
  BY <1>2, <1>3, ShorterIs
<1>5. k2 = [socks |-> K.socks, arp |-> K.arp, tx |-> t2, hist |-> h2]
  BY <1>1, <1>3 DEF K
<1>6. k2 \in Kernels /\ k2.socks = K.socks /\ k2.tx = t2 /\ k2.hist = h2
  <2>1. h2 \in Hist
    BY <1>3
  <2> QED BY <1>1, <1>4, <1>5, <2>1 DEF Kernels
<1> QED BY <1>1, <1>3, <1>6

\* What is left of the order of the streams when frames and peers moved.
LEMMA TidyNow ==
    ASSUME NetInv, UNCHANGED <<socks, arp>>, Shorter(tx, tx'), hist' \in Hist, Later(hist, hist'),
           hist'.log = hist.log, rx' \in Queue, peer' \in Peers, NEW k2, k2 = K',
           \A r \in Remote, p \in Nat : Fine(k2, r, p) =>
               \/ Good(k2, rx', peer', r, p)
               \/ /\ Away(peer, peer', r, p) /\ Slides(rx, rx', r, p)
                  /\ tx' # tx => Spare(Head(tx), peer', r, p)
    PROVE  Tidy(k2, rx', peer')
<1>1. /\ K \in Kernels /\ k2 \in Kernels /\ k2.socks = K.socks /\ k2.tx = tx' /\ k2.hist = hist'
      /\ Later(K.hist, k2.hist) /\ Shorter(K.tx, k2.tx)
  BY WireNow
<1>2. rx \in Queue /\ peer \in Peers /\ Tidy(K, rx, peer) /\ K.tx = tx /\ K.hist = hist
  BY KIs DEF NetInv
<1>3. PICK q2, pr2 : q2 = rx' /\ pr2 = peer'
  OBVIOUS
<1>4. \A r \in Remote, p \in Nat : Fine(k2, r, p) =>
          \/ Good(k2, q2, pr2, r, p)
          \/ /\ Away(peer, pr2, r, p) /\ Slides(rx, q2, r, p)
             /\ k2.tx # K.tx => Spare(Head(K.tx), pr2, r, p)
  BY <1>1, <1>2, <1>3
<1>5. k2.hist.log = K.hist.log /\ q2 \in Queue /\ pr2 \in Peers
  BY <1>1, <1>2, <1>3
<1>6. Tidy(k2, q2, pr2)
  BY <1>1, <1>2, <1>4, <1>5, WireTidy
<1> QED BY <1>3, <1>6

\* What comes when a frame is added to the queue, or leaves it.
LEMMA QueueNow ==
    ASSUME NetInv, Shorter(rx, rx') \/ (\E g \in Heard \cup Near : rx' = Append(rx, g))
    PROVE  rx' \in Queue
<1>1. rx \in Queue
  BY DEF NetInv
<1>2. CASE Shorter(rx, rx')
  <2>1. PICK q2 : q2 = rx'
    OBVIOUS
  <2>2. Shorter(rx, q2)
    BY <1>2, <2>1
  <2>3. q2 \in Queue
    BY <1>1, <2>2, TailSlides
  <2> QED BY <2>1, <2>3
<1>3. CASE \E g \in Heard \cup Near : rx' = Append(rx, g)
  <2>1. PICK q2 : q2 = rx'
    OBVIOUS
  <2>2. PICK g \in Heard \cup Near : q2 = Append(rx, g)
    BY <1>3, <2>1
  <2>3. q2 \in Queue
    BY <1>1, <2>2, MoreIs
  <2> QED BY <2>1, <2>3
<1> QED BY <1>2, <1>3

\* The peers stay as they are.
LEMMA StillTidy ==
    ASSUME NetInv, UNCHANGED <<socks, arp, peer>>, Shorter(tx, tx'), hist' \in Hist, Later(hist, hist'),
           hist'.log = hist.log, NEW k2, k2 = K',
           \/ Shorter(rx, rx')
           \/ \E g \in Heard \cup Near : /\ rx' = Append(rx, g)
                                         /\ \A r \in Remote, p \in Nat : Fine(k2, r, p) => ~Weighs(g, r, p),
           tx' # tx => \A r \in Remote, p \in Nat : Fine(k2, r, p) => Spare(Head(tx), peer, r, p)
    PROVE  Tidy(k2, rx', peer')
<1>1. rx \in Queue /\ peer \in Peers /\ peer' = peer
  BY DEF NetInv
<1>2. rx' \in Queue /\ peer' \in Peers
  BY <1>1, QueueNow
<1>3. ASSUME NEW r \in Remote, NEW p \in Nat, Fine(k2, r, p)
      PROVE  /\ Away(peer, peer', r, p) /\ Slides(rx, rx', r, p)
             /\ tx' # tx => Spare(Head(tx), peer', r, p)
  <2>1. Away(peer, peer', r, p)
    BY <1>1 DEF Away
  <2>2. Slides(rx, rx', r, p)
    <3>1. PICK q2 : q2 = rx'
      OBVIOUS
    <3>2. CASE Shorter(rx, rx')
      <4>1. Shorter(rx, q2)
        BY <3>1, <3>2
      <4>2. Slides(rx, q2, r, p)
        BY <1>1, <4>1, TailSlides
      <4> QED BY <3>1, <4>2
    <3>3. CASE \E g \in Heard \cup Near : rx' = Append(rx, g) /\ ~Weighs(g, r, p)
      <4>1. PICK g \in Heard \cup Near : q2 = Append(rx, g) /\ ~Weighs(g, r, p)
        BY <3>1, <3>3
      <4>2. Slides(rx, q2, r, p)
        BY <1>1, <4>1, MoreSlides
      <4> QED BY <3>1, <4>2
    <3> QED BY <1>3, <3>2, <3>3
  <2>3. tx' # tx => Spare(Head(tx), peer', r, p)
    BY <1>1, <1>3
  <2> QED BY <2>1, <2>2, <2>3
<1> QED BY <1>2, <1>3, TidyNow

-----------------------------------------------------------------------------
(* The rest of the network.                                                 *)

\* What the rest of the network may do.
LEMMA WireKeeps ==
    ASSUME NetInv, UNCHANGED <<socks, arp, eph, conf, call>>, Shorter(tx, tx'),
           hist' \in Hist, Later(hist, hist'),
           NEW k2, k2 = K',
           Shorter(rx, rx') \/ (\E f \in Heard \cup Near : rx' = Append(rx, f) /\ InOK(k2, eph, f)),
           peer' \in Peers, \A r \in Remote : PeerOK(k2, eph, r, peer'[r]), Tidy(k2, rx', peer'),
           \/ peer'[Server].port = peer[Server].port
           \/ /\ tx # <<>> /\ tx' = Tail(tx) /\ Syn(Head(tx))
              /\ peer'[Server].port = Head(tx).port
    PROVE  NetInv'
<1>1. /\ K \in Kernels /\ rx \in Queue /\ peer \in Peers /\ eph \in Nat /\ eph >= FirstEphemeral
      /\ Talk(K, rx, peer, eph) /\ InTurn(K, peer) /\ conf.gw \in Hosts /\ CallOK(call, K, eph)
      /\ K.socks = socks /\ K.tx = tx /\ K.hist = hist /\ K.arp = arp
  BY KIs DEF NetInv
<1>2. tx \in Seq(Frames) /\ rx \in Seq(Heard \cup Near)
  BY <1>1 DEF Kernels, Queue
<1>3. PICK t2, h2, q2, p2 : t2 = tx' /\ h2 = hist' /\ q2 = rx' /\ p2 = peer'
  OBVIOUS
<1>4. t2 \in Seq(Frames) /\ \A i \in 1 .. Len(t2) : \E j \in 1 .. Len(tx) : t2[i] = tx[j]
  <2>1. Shorter(tx, t2)
    BY <1>3
  <2>2. /\ t2 \in Seq(Frames)
        /\ \E d \in {0, 1} : /\ Len(t2) = Len(tx) - d
                             /\ \A i \in 1 .. Len(t2) : i + d \in 1 .. Len(tx) /\ t2[i] = tx[i + d]
    BY <1>2, <2>1, ShorterIs
  <2> QED BY <2>2
<1>5. k2 = [socks |-> K.socks, arp |-> K.arp, tx |-> t2, hist |-> h2]
  BY <1>1, <1>3 DEF K
<1>6. k2 \in Kernels /\ k2.socks = K.socks /\ k2.tx = t2 /\ k2.hist = h2
  <2>1. h2 \in Hist
    BY <1>3
  <2> QED BY <1>1, <1>4, <1>5, <2>1 DEF Kernels
<1>7. Later(K.hist, k2.hist)
  BY <1>1, <1>3, <1>6
<1>8. Sound(k2, eph)
  BY <1>1, <1>6, <1>7, SockLater DEF Sound, Talk
<1>9. ASSUME NEW i \in 1 .. Len(k2.tx) PROVE OutOK(k2, eph, k2.tx[i])
  <2>1. OutOK(K, eph, k2.tx[i])
    BY <1>1, <1>4, <1>6 DEF Talk
  <2> QED BY <1>7, <2>1, OutLater
<1>10. q2 \in Queue /\ \A i \in 1 .. Len(q2) : InOK(k2, eph, q2[i])
  <2>1. \A i \in 1 .. Len(rx) : InOK(k2, eph, rx[i])
    BY <1>1, <1>7, InLater DEF Talk
  <2>2. CASE Shorter(rx, q2)
    <3>2. /\ q2 \in Seq(Heard \cup Near)
          /\ \E d \in {0, 1} : /\ Len(q2) = Len(rx) - d
                               /\ \A i \in 1 .. Len(q2) : i + d \in 1 .. Len(rx) /\ q2[i] = rx[i + d]
      <4>1. PICK S : S = Heard \cup Near
        OBVIOUS
      <4>2. /\ q2 \in Seq(S)
            /\ \E d \in {0, 1} : /\ Len(q2) = Len(rx) - d
                                 /\ \A i \in 1 .. Len(q2) : i + d \in 1 .. Len(rx) /\ q2[i] = rx[i + d]
        BY <1>2, <2>2, <4>1, ShorterIs
      <4> QED BY <4>1, <4>2
    <3> QED BY <2>1, <3>2 DEF Queue
  <2>3. CASE \E f \in Heard \cup Near : q2 = Append(rx, f) /\ InOK(k2, eph, f)
    <3>1. PICK f \in Heard \cup Near : q2 = Append(rx, f) /\ InOK(k2, eph, f)
      BY <2>3
    <3>2. /\ q2 \in Seq(Heard \cup Near) /\ Len(q2) = Len(rx) + 1 /\ q2[Len(rx) + 1] = f
          /\ \A i \in 1 .. Len(rx) : q2[i] = rx[i]
      BY <1>2, <3>1
    <3>3. \A i \in 1 .. Len(q2) : i \in 1 .. Len(rx) \/ i = Len(rx) + 1
      <4>1. Len(rx) \in Nat
        BY <1>2
      <4> QED BY <3>2, <4>1
    <3> QED BY <2>1, <3>1, <3>2, <3>3 DEF Queue
  <2> QED BY <1>3, <2>2, <2>3
<1>11. Talk(k2, q2, p2, eph)
  BY <1>3, <1>8, <1>9, <1>10 DEF Talk
<1>12. InTurn(k2, p2)
  <2>1. PICK d \in {0, 1} : /\ Len(t2) = Len(tx) - d
                            /\ \A i \in 1 .. Len(t2) : i + d \in 1 .. Len(tx) /\ t2[i] = tx[i + d]
    <3>1. Shorter(tx, t2)
      BY <1>3
    <3> QED BY <1>2, <3>1, ShorterIs
  <2>2. \A i, j \in 1 .. Len(t2) : i < j /\ Syn(t2[i]) /\ Syn(t2[j]) => t2[i].port <= t2[j].port
    <3>1. \A i, j \in 1 .. Len(t2) : i < j => i + d < j + d
      OBVIOUS
    <3> QED BY <1>1, <2>1, <3>1 DEF InTurn
  <2>3. \A i \in 1 .. Len(t2) : Syn(t2[i]) => p2[Server].port <= t2[i].port
    <3>1. CASE peer'[Server].port = peer[Server].port
      BY <1>1, <1>3, <2>1, <3>1 DEF InTurn
    <3>2. CASE /\ tx # <<>> /\ tx' = Tail(tx) /\ Syn(Head(tx))
               /\ peer'[Server].port = Head(tx).port
      <4>1. /\ Len(tx) \in Nat /\ Len(tx) >= 1 /\ Head(tx) = tx[1]
            /\ Len(t2) = Len(tx) - 1 /\ \A i \in 1 .. Len(t2) : t2[i] = tx[i + 1]
        BY <1>2, <1>3, <3>2, HeadTail
      <4>2. \A i \in 1 .. Len(t2) : i + 1 \in 1 .. Len(tx) /\ 1 < i + 1 /\ 1 \in 1 .. Len(tx)
        BY <4>1
      <4> QED BY <1>1, <1>3, <3>2, <4>1, <4>2 DEF InTurn
    <3> QED BY <3>1, <3>2
  <2> QED BY <1>6, <2>2, <2>3 DEF InTurn
<1>13. CallOK(call, k2, eph)
  BY <1>1, <1>6 DEF CallOK
<1>14. /\ K' \in Kernels /\ rx' \in Queue /\ peer' \in Peers /\ eph' \in Nat /\ eph' >= FirstEphemeral
       /\ conf'.gw \in Hosts /\ CallOK(call', K', eph')
       /\ Talk(K', rx', peer', eph') /\ InTurn(K', peer') /\ Tidy(K', rx', peer')
  BY <1>1, <1>3, <1>6, <1>10, <1>11, <1>12, <1>13
<1> QED BY <1>14 DEF NetInv

\* The record says that the frames of a connection were disturbed.
LEMMA TouchIs ==
    ASSUME NetInv, NEW f \in Frames, Touch(f)
    PROVE  /\ hist' \in Hist /\ Later(hist, hist') /\ hist'.stored = hist.stored
           /\ hist'.answered = hist.answered /\ hist'.finned = hist.finned
           /\ hist'.log = hist.log /\ hist'.muted = hist.muted \cup {Conn(f)}
<1>1. hist \in Hist
  BY NowOK
<1>2. hist' = [hist EXCEPT !.muted = @ \cup {Conn(f)}]
  BY DEF Touch
<1>3. Conn(f) \in Conns
  BY DEF Conn, Conns, Frames, Tcps, Udps, Others
<1> QED BY <1>1, <1>2, <1>3 DEF Hist, Later

\* A connection that is undisturbed had no part in it.
LEMMA TouchNot ==
    ASSUME NetInv, NEW f \in Frames, Touch(f), NEW k2, k2.hist = hist', NEW r, NEW p, Fine(k2, r, p)
    PROVE  ~Of(f, r, p)
BY TouchIs DEF Fine, Of, Conn

\* The remote hosts that do nothing.
LEMMA PeersStay ==
    ASSUME NetInv, peer' = peer, Later(hist, hist'), NEW k2, k2.hist = hist'
    PROVE  /\ peer' \in Peers /\ \A r \in Remote : PeerOK(k2, eph, r, peer'[r])
           /\ peer'[Server].port = peer[Server].port
<1>1. peer \in Peers /\ \A r \in Remote : PeerOK(K, eph, r, peer[r])
  BY DEF NetInv, Talk
<1>2. Later(K.hist, k2.hist)
  BY KIs
<1> QED BY <1>1, <1>2, PeerLater

\* What is on the wire.
LEMMA WireTypes ==
    ASSUME NetInv
    PROVE  /\ tx \in Seq(Frames) /\ rx \in Seq(Heard \cup Near) /\ hist \in Hist /\ peer \in Peers
           /\ \A i \in 1 .. Len(tx) : OutOK(K, eph, tx[i])
           /\ \A i \in 1 .. Len(rx) : InOK(K, eph, rx[i])
           /\ \A r \in Remote : PeerOK(K, eph, r, peer[r])
BY KIs DEF NetInv, Talk, Kernels, Queue

\* What is heard is a frame.
LEMMA HeardIsFrame ==
    ASSUME NEW f \in Heard \cup Near
    PROVE  f \in Frames
BY DEF Heard, Near, Frames

\* A frame is lost.
LEMMA LoseKeeps ==
    ASSUME NetInv, Lose
    PROVE  NetInv'
<1>1. PICK k2 : k2 = K'
  OBVIOUS
<1>2. k2.hist = hist' /\ UNCHANGED <<socks, arp, eph, conf, call, peer>>
  BY <1>1 DEF K, Lose, Kernel
<1>3. /\ hist' \in Hist /\ Later(hist, hist') /\ Shorter(tx, tx') /\ Shorter(rx, rx')
      /\ hist'.log = hist.log
      /\ tx' # tx => \A r \in Remote, p \in Nat : Fine(k2, r, p) => Spare(Head(tx), peer, r, p)
  <2>1. CASE tx # <<>> /\ tx' = Tail(tx) /\ Touch(Head(tx)) /\ UNCHANGED rx
    <3>1. Head(tx) \in Frames
      BY <2>1, WireTypes, HeadTail
    <3>2. Touch(Head(tx))
      BY <2>1
    <3>3. hist' \in Hist /\ Later(hist, hist') /\ hist'.log = hist.log
      BY <3>1, <3>2, TouchIs
    <3>4. PICK f : f = Head(tx)
      OBVIOUS
    <3>5. f \in Frames /\ Touch(f)
      BY <3>1, <3>2, <3>4
    <3>6. \A r \in Remote, p \in Nat : Fine(k2, r, p) => Spare(f, peer, r, p)
      BY <1>2, <3>5, TouchNot DEF Spare
    <3> QED BY <2>1, <3>3, <3>4, <3>6 DEF Shorter
  <2>2. CASE rx # <<>> /\ rx' = Tail(rx) /\ UNCHANGED <<tx, hist>>
    <3>1. hist' = hist /\ tx' = tx
      BY <2>2
    <3>2. hist' \in Hist /\ Later(hist, hist')
      BY <3>1, WireTypes DEF Later
    <3> QED BY <2>2, <3>1, <3>2 DEF Shorter
  <2> QED BY <2>1, <2>2 DEF Lose
<1>5. Tidy(k2, rx', peer')
  BY <1>1, <1>2, <1>3, StillTidy
<1>4. /\ peer' \in Peers /\ \A r \in Remote : PeerOK(k2, eph, r, peer'[r])
      /\ peer'[Server].port = peer[Server].port
  BY <1>2, <1>3, PeersStay
<1> QED BY <1>1, <1>2, <1>3, <1>4, <1>5, WireKeeps

\* A frame comes twice.
LEMMA DuplicateKeeps ==
    ASSUME NetInv, Duplicate
    PROVE  NetInv'
<1>1. PICK k2 : k2 = K'
  OBVIOUS
<1>2. /\ k2.hist = hist' /\ UNCHANGED <<socks, arp, eph, conf, call, tx, peer>>
      /\ rx # <<>> /\ rx' = Append(rx, Head(rx)) /\ Touch(Head(rx))
  BY <1>1 DEF K, Duplicate, Kernel, Arrive
<1>3. Head(rx) \in Heard \cup Near /\ Head(rx) = rx[1] /\ 1 \in 1 .. Len(rx)
  <2>1. PICK S : S = Heard \cup Near
    OBVIOUS
  <2>2. rx \in Seq(S)
    BY <2>1, WireTypes
  <2>3. Head(rx) \in S /\ Head(rx) = rx[1] /\ Len(rx) \in Nat /\ Len(rx) >= 1
    BY <1>2, <2>2, HeadTail
  <2> QED BY <2>1, <2>3
<1>4. /\ hist' \in Hist /\ Later(hist, hist') /\ hist'.log = hist.log
      /\ \A r \in Remote, p \in Nat : Fine(k2, r, p) => ~Weighs(Head(rx), r, p)
  <2>1. PICK f : f = Head(rx)
    OBVIOUS
  <2>2. f \in Frames /\ Touch(f)
    BY <1>2, <1>3, <2>1, HeardIsFrame
  <2>3. \A r \in Remote, p \in Nat : Fine(k2, r, p) => ~Weighs(f, r, p)
    BY <1>2, <2>2, TouchNot DEF Weighs
  <2> QED BY <2>1, <2>2, <2>3, TouchIs
<1>5. InOK(k2, eph, Head(rx))
  <2>1. \A i \in 1 .. Len(rx) : InOK(K, eph, rx[i])
    BY DEF NetInv, Talk
  <2>2. InOK(K, eph, Head(rx))
    BY <1>3, <2>1
  <2>3. Later(K.hist, k2.hist)
    BY <1>2, <1>4, KIs
  <2> QED BY <2>2, <2>3, InLater
<1>6. /\ peer' \in Peers /\ \A r \in Remote : PeerOK(k2, eph, r, peer'[r])
      /\ peer'[Server].port = peer[Server].port
  BY <1>2, <1>4, PeersStay
<1>7. Shorter(tx, tx') /\ tx' = tx
  BY <1>2 DEF Shorter
<1>8. Tidy(k2, rx', peer')
  BY <1>1, <1>2, <1>3, <1>4, <1>7, StillTidy
<1> QED BY <1>1, <1>2, <1>3, <1>4, <1>5, <1>6, <1>7, <1>8, WireKeeps

\* Another machine asks.
LEMMA VisitorKeeps ==
    ASSUME NetInv, Visitor
    PROVE  NetInv'
<1>1. PICK k2 : k2 = K'
  OBVIOUS
<1>2. /\ k2.hist = hist' /\ UNCHANGED <<socks, arp, eph, conf, call, tx, peer, hist>>
      /\ \E f \in {Arp("ask", Lan), Arp("ping", Lan)} : rx' = Append(rx, f)
  BY <1>1 DEF K, Visitor, Kernel, Arrive
<1>3. PICK f : f \in Near /\ f.kind # "tcp" /\ rx' = Append(rx, f)
  BY <1>2, NamesDiffer DEF Arp, Near, Others
<1>4. hist' \in Hist /\ Later(hist, hist')
  BY <1>2, WireTypes DEF Later
<1>5. InOK(k2, eph, f)
  BY <1>3 DEF InOK
<1>6. /\ peer' \in Peers /\ \A r \in Remote : PeerOK(k2, eph, r, peer'[r])
      /\ peer'[Server].port = peer[Server].port
  BY <1>2, <1>4, PeersStay
<1>7. Shorter(tx, tx') /\ tx' = tx
  BY <1>2 DEF Shorter
<1>8. Tidy(k2, rx', peer')
  <2>1. \A r \in Remote, p \in Nat : ~Weighs(f, r, p)
    BY <1>3 DEF Weighs, Of
  <2> QED BY <1>1, <1>2, <1>3, <1>4, <1>7, <2>1, StillTidy
<1> QED BY <1>1, <1>2, <1>3, <1>4, <1>5, <1>6, <1>7, <1>8, WireKeeps

\* A segment of a remote host.
LEMMA SegmentIs ==
    ASSUME NEW r \in Remote, NEW p \in Nat, NEW sq \in Nat, NEW a \in Nat, NEW fl \in SUBSET Flags,
           NEW data \in Bytes, NEW f, f = Tcp(r, HostPort, p, sq, a, fl, data)
    PROVE  /\ f \in Tcps /\ f.kind = "tcp" /\ f.host = r /\ f.hport = HostPort /\ f.port = p
           /\ f.seq = sq /\ f.flags = fl /\ f.data = data /\ Conn(f) = <<r, p>>
<1>1. r \in Hosts /\ HostPort \in Nat
  BY NamesDiffer DEF HostPort
<1>2. f = [kind |-> "tcp", host |-> r, hport |-> HostPort, port |-> p,
           seq |-> sq, ack |-> a, flags |-> fl, data |-> data]
  BY DEF Tcp
<1> QED BY <1>1, <1>2 DEF Tcps, Conn

\* Control segments of a remote host.
LEMMA ControlIs ==
    ASSUME NEW r \in Remote, NEW p \in Nat, NEW a \in Nat, NEW fl \in SUBSET Flags, "FIN" \notin fl,
           "SYN" \in fl => ("ACK" \in fl <=> r = Server),
           NEW f, f = Tcp(r, HostPort, p, 0, a, fl, <<>>),
           NEW k, NEW e, Given(e, r, p), <<r, p>> \in k.hist.answered
    PROVE  f \in Heard \cup Near /\ InOK(k, e, f)
<1>0. PICK nought, none : nought = 0 /\ none = <<>>
  OBVIOUS
<1>1. nought = 0 /\ none = <<>> /\ nought \in Nat /\ none \in Bytes
  BY <1>0 DEF Bytes
<1>2. f = Tcp(r, HostPort, p, nought, a, fl, none)
  BY <1>1
<1>3. /\ f.kind = "tcp" /\ f.host = r /\ f.hport = HostPort /\ f.port = p /\ f.seq = 0 /\ f.flags = fl
      /\ f.data = <<>> /\ f \in Tcps /\ Conn(f) = <<r, p>>
  BY <1>1, <1>2, SegmentIs
<1>5. f \in Heard
  <2>1. f.data = <<>> /\ Len(f.data) = 0
    BY <1>3
  <2>2. \A i \in 1 .. Len(f.data) : f.data[i] = f.seq + i - 1
    BY <2>1
  <2> QED BY <1>3, <2>1, <2>2 DEF Heard
<1>6. Told(k.hist, r, p, 0)
  BY DEF Told
<1>8. InOK(k, e, f)
  BY <1>3, <1>6 DEF InOK
<1> QED BY <1>5, <1>8

\* The frame a host receives.
LEMMA DeliveredIs ==
    ASSUME NetInv, tx # <<>>, NEW f, f = Head(tx)
    PROVE  f \in Frames /\ OutOK(K, eph, f)
<1>1. tx \in Seq(Frames)
  BY WireTypes
<1>2. f \in Frames /\ f = tx[1] /\ 1 \in 1 .. Len(tx)
  BY <1>1, HeadTail
<1>3. \A i \in 1 .. Len(tx) : OutOK(K, eph, tx[i])
  BY KIs DEF NetInv, Talk
<1> QED BY <1>2, <1>3

\* A remote host.
LEMMA PeersOK ==
    ASSUME NetInv, NEW r \in Remote
    PROVE  /\ peer \in Peers /\ peer[r] \in [st: {"closed", "syn", "open", "down"}, port: Nat,
                                             una: 0 .. Stream, fly: BOOLEAN]
           /\ PeerOK(K, eph, r, peer[r]) /\ hist \in Hist /\ K.hist = hist
<1>1. peer \in Peers /\ PeerOK(K, eph, r, peer[r])
  BY DEF NetInv, Talk
<1> QED BY <1>1, NowOK, KIs DEF Peers

\* A host answers a request of its address, or a question.
LEMMA AnswerKeeps ==
    ASSUME NetInv, tx # <<>>, tx' = Tail(tx), UNCHANGED <<Kernel, faults>>, Answer(Head(tx))
    PROVE  NetInv'
<1>1. PICK k2, f : k2 = K' /\ f = Head(tx)
  OBVIOUS
<1>2. /\ k2.hist = hist' /\ UNCHANGED <<socks, arp, eph, conf, call, peer, hist>>
      /\ f.kind \in {"ask", "udp"} /\ f.host \in {Gw, Lan}
      /\ rx' = Append(rx, IF f.kind = "ask" THEN Arp("reply", f.host) ELSE [f EXCEPT !.data = <<Filler>>])
  BY <1>1 DEF K, Answer, Kernel, Arrive
<1>3. PICK g : /\ g = IF f.kind = "ask" THEN Arp("reply", f.host) ELSE [f EXCEPT !.data = <<Filler>>]
               /\ rx' = Append(rx, g)
  BY <1>2
<1>4. g \in Near /\ g.kind # "tcp"
  <2>1. CASE f.kind = "ask"
    <3>1. g = [kind |-> "reply", host |-> f.host, port |-> 0]
      BY <1>3, <2>1 DEF Arp
    <3>2. f.host \in Hosts
      BY <1>2, NamesDiffer
    <3>3. g \in Others
      BY <3>1, <3>2 DEF Others
    <3> QED BY <1>2, <3>1, <3>3 DEF Near
  <2>2. CASE f.kind = "udp"
    <3>1. f \in Frames
      BY <1>1, DeliveredIs
    <3>2. f \in Udps
      BY <2>2, <3>1 DEF Frames, Tcps, Others
    <3>3. PICK b : b = <<Filler>>
      OBVIOUS
    <3>4. b \in Bytes
      BY <3>3 DEF Bytes, Filler
    <3>5. g = [f EXCEPT !.data = b]
      BY <1>3, <2>2, <3>3
    <3> QED BY <1>2, <3>2, <3>4, <3>5 DEF Udps, Near
  <2> QED BY <1>2, <2>1, <2>2
<1>5. InOK(k2, eph, g)
  BY <1>4 DEF InOK
<1>6. hist' \in Hist /\ Later(hist, hist') /\ hist'.log = hist.log
  <2>1. hist \in Hist
    BY NowOK
  <2> QED BY <1>2, <2>1 DEF Later
<1>7. /\ peer' \in Peers /\ \A r \in Remote : PeerOK(k2, eph, r, peer'[r])
      /\ peer'[Server].port = peer[Server].port
  BY <1>2, <1>6, PeersStay
<1>8. Shorter(tx, tx')
  BY DEF Shorter
<1>9. Tidy(k2, rx', peer')
  <2>1. \A r \in Remote, p \in Nat : ~Weighs(g, r, p) /\ Spare(f, peer, r, p)
    BY <1>2, <1>4 DEF Weighs, Spare, Of
  <2> QED BY <1>1, <1>2, <1>3, <1>4, <1>6, <1>8, <2>1, StillTidy
<1> QED BY <1>1, <1>2, <1>3, <1>4, <1>5, <1>6, <1>7, <1>8, <1>9, WireKeeps

\* A frame that nobody answers.
LEMMA DroppedKeeps ==
    ASSUME NetInv, tx # <<>>, tx' = Tail(tx), UNCHANGED <<Kernel, faults, rx, peer, hist>>,
           \A r \in Remote, p \in Nat : Spare(Head(tx), peer, r, p)
    PROVE  NetInv'
<1>1. PICK k2 : k2 = K'
  OBVIOUS
<1>2. k2.hist = hist' /\ UNCHANGED <<socks, arp, eph, conf, call, peer, hist, rx>>
  BY <1>1 DEF K, Kernel
<1>3. hist' \in Hist /\ Later(hist, hist') /\ hist'.log = hist.log
  <2>1. hist \in Hist
    BY NowOK
  <2> QED BY <1>2, <2>1 DEF Later
<1>4. /\ peer' \in Peers /\ \A r \in Remote : PeerOK(k2, eph, r, peer'[r])
      /\ peer'[Server].port = peer[Server].port
  BY <1>2, <1>3, PeersStay
<1>5. Shorter(tx, tx') /\ Shorter(rx, rx')
  BY <1>2 DEF Shorter
<1>6. Tidy(k2, rx', peer')
  BY <1>1, <1>2, <1>3, <1>5, StillTidy
<1> QED BY <1>1, <1>2, <1>3, <1>4, <1>5, <1>6, WireKeeps

\* The record says that a remote host has sent something to the port.
Answered(h, c) == [h EXCEPT !.answered = @ \cup {c}]
\* Its type.
LEMMA AnsweredIs ==
    ASSUME NEW h \in Hist, NEW r \in Remote, NEW p \in Nat, NEW h2, h2 = Answered(h, <<r, p>>)
    PROVE  /\ h2 \in Hist /\ Later(h, h2) /\ <<r, p>> \in h2.answered
           /\ h2.log = h.log /\ h2.muted = h.muted /\ h2.finned = h.finned
<1>1. <<r, p>> \in Conns
  BY NamesDiffer DEF Conns
<1> QED BY <1>1 DEF Answered, Hist, Later

\* A peer comes to a connection: what was under way before was of older ones.
LEMMA NewConn ==
    ASSUME NetInv, UNCHANGED <<socks, arp>>, Shorter(tx, tx'), hist' \in Hist, Later(hist, hist'),
           hist'.log = hist.log, NEW k2, k2 = K', peer' \in Peers,
           NEW r0 \in Remote, NEW p0 \in Nat,
           peer'[r0].port = p0, peer'[r0].una = 0, \A r \in Remote \ {r0} : peer'[r] = peer[r],
           peer[r0].port < p0 \/ (peer[r0].port = p0 /\ peer[r0].st = "syn"),
           NEW g \in Heard \cup Near, rx' = Append(rx, g), g.host = r0, g.port = p0,
           g.data = <<>>, "FIN" \notin g.flags,
           tx' # tx => \A r \in Remote, p \in Nat : r # r0 \/ p # p0 => ~Of(Head(tx), r, p)
    PROVE  Tidy(k2, rx', peer')
<1>1. rx' \in Queue
  BY QueueNow
<1>2. /\ K \in Kernels /\ k2 \in Kernels /\ k2.socks = K.socks /\ k2.tx = tx' /\ k2.hist = hist'
      /\ Later(K.hist, k2.hist) /\ Shorter(K.tx, k2.tx)
  BY WireNow
<1>3. /\ rx \in Queue /\ peer \in Peers /\ Tidy(K, rx, peer) /\ K.tx = tx /\ K.hist = hist
  BY KIs DEF NetInv
<1>4. PICK q2, pr2 : q2 = rx' /\ pr2 = peer'
  OBVIOUS
<1>5. /\ q2 \in Queue /\ pr2 \in Peers /\ q2 = Append(rx, g) /\ pr2[r0].port = p0 /\ pr2[r0].una = 0
      /\ \A r \in Remote \ {r0} : pr2[r] = peer[r]
      /\ k2.hist.log = K.hist.log
  BY <1>1, <1>2, <1>3, <1>4
<1>6. ASSUME NEW r \in Remote, NEW p \in Nat, Fine(k2, r, p), r = r0, p = p0
      PROVE  Good(k2, q2, pr2, r, p)
  <2>1. Good(K, rx, peer, r, p)
    BY <1>2, <1>3, <1>6, FineBefore DEF Tidy
  <2>2. New(K, rx, r, p) /\ Alone(K, r, p)
    BY <1>6, <2>1 DEF Good, Fresh
  <2>3. New(k2, q2, r, p)
    BY <1>2, <1>3, <1>5, <2>2, NewGoes
  <2>4. Alone(k2, r, p)
    BY <1>2, <2>2 DEF Alone
  <2>5. pr2[r].port = p /\ pr2[r].una = 0
    BY <1>5, <1>6
  <2> QED BY <1>2, <1>5, <2>3, <2>4, <2>5, BeginGood
<1>7. ASSUME NEW r \in Remote, NEW p \in Nat, r # r0 \/ p # p0
      PROVE  /\ Away(peer, pr2, r, p) /\ Slides(rx, q2, r, p)
             /\ tx' # tx => Spare(Head(tx), pr2, r, p)
  <2>1. Away(peer, pr2, r, p)
    <3>1. CASE r # r0
      BY <1>5, <3>1 DEF Away
    <3>2. CASE r = r0 /\ p # p0
      <4>1. PICK a : a = peer[r].port
        OBVIOUS
      <4>2. a \in Nat /\ a <= p0
        BY <1>3, <3>2, <4>1 DEF Peers
      <4>3. p0 < p => a < p
        BY <4>2
      <4> QED BY <1>5, <3>2, <4>1, <4>3 DEF Away
    <3> QED BY <1>7, <3>1, <3>2
  <2>2. ~Weighs(g, r, p)
    BY <1>7 DEF Weighs, Of
  <2>3. Slides(rx, q2, r, p)
    BY <1>3, <1>5, <2>2, MoreSlides
  <2> QED BY <1>7, <2>1, <2>3 DEF Spare
<1> QED BY <1>1, <1>4, <1>6, <1>7, TidyNow

\* A server takes or refuses a connection.
LEMMA AcceptsKeeps ==
    ASSUME NetInv, tx # <<>>, tx' = Tail(tx), UNCHANGED <<Kernel, faults>>, Accepts(Head(tx))
    PROVE  NetInv'
<1>1. PICK k2, f : k2 = K' /\ f = Head(tx)
  OBVIOUS
<1>2. /\ k2.hist = hist' /\ UNCHANGED <<socks, arp, eph, conf, call>>
      /\ Accepts(f) /\ f.kind = "tcp" /\ f.flags = {"SYN"} /\ f.host = Server
      /\ Syn(f) /\ f \in Frames /\ OutOK(K, eph, f) /\ Conn(f) = <<Server, f.port>>
  BY <1>1, DeliveredIs DEF K, Kernel, Accepts, Syn, Conn
<1>3. f.port \in Nat /\ Given(eph, Server, f.port) /\ Server \in Remote /\ Server \in Hosts
  BY <1>2, NamesDiffer, FramesDiffer DEF OutOK, Frames, Tcps, Udps, Others
<1>4. Shorter(tx, tx')
  BY DEF Shorter
<1>5. PICK sa, ra : sa = {"SYN", "ACK"} /\ ra = {"RST", "ACK"}
  OBVIOUS
<1>6. /\ sa \in SUBSET Flags /\ "FIN" \notin sa /\ ("SYN" \in sa => ("ACK" \in sa <=> Server = Server))
      /\ ra \in SUBSET Flags /\ "FIN" \notin ra /\ ("SYN" \in ra => ("ACK" \in ra <=> Server = Server))
  BY <1>5 DEF Flags
<1>8. PICK two \in Nat : two = 2
  OBVIOUS
<1>9. ASSUME <<Server, f.port>> \in hist'.answered,
             \/ rx' = Append(rx, Tcp(Server, HostPort, f.port, 0, 2, {"SYN", "ACK"}, <<>>))
             \/ rx' = Append(rx, Tcp(Server, HostPort, f.port, 0, 2, {"RST", "ACK"}, <<>>))
      PROVE  \E g \in Heard \cup Near : /\ rx' = Append(rx, g) /\ InOK(k2, eph, g)
                                       /\ g.host = Server /\ g.port = f.port /\ g.data = <<>>
                                       /\ "FIN" \notin g.flags /\ "ACK" \in g.flags
  <2>1. <<Server, f.port>> \in k2.hist.answered
    BY <1>2, <1>9
  <2>2. CASE rx' = Append(rx, Tcp(Server, HostPort, f.port, 0, 2, {"SYN", "ACK"}, <<>>))
    <3>1. PICK g : g = Tcp(Server, HostPort, f.port, 0, two, sa, <<>>)
      OBVIOUS
    <3>2. g \in Heard \cup Near /\ InOK(k2, eph, g)
      BY <1>3, <1>6, <2>1, <3>1, ControlIs
    <3>3. g.host = Server /\ g.port = f.port /\ g.data = <<>> /\ g.flags = sa
      BY <3>1 DEF Tcp
    <3>4. "FIN" \notin g.flags /\ "ACK" \in g.flags
      BY <1>5, <3>3
    <3>5. rx' = Append(rx, g)
      BY <1>5, <1>8, <2>2, <3>1
    <3> QED BY <3>2, <3>3, <3>4, <3>5
  <2>3. CASE rx' = Append(rx, Tcp(Server, HostPort, f.port, 0, 2, {"RST", "ACK"}, <<>>))
    <3>1. PICK g : g = Tcp(Server, HostPort, f.port, 0, two, ra, <<>>)
      OBVIOUS
    <3>2. g \in Heard \cup Near /\ InOK(k2, eph, g)
      BY <1>3, <1>6, <2>1, <3>1, ControlIs
    <3>3. g.host = Server /\ g.port = f.port /\ g.data = <<>> /\ g.flags = ra
      BY <3>1 DEF Tcp
    <3>4. "FIN" \notin g.flags /\ "ACK" \in g.flags
      BY <1>5, <3>3
    <3>5. rx' = Append(rx, g)
      BY <1>5, <1>8, <2>3, <3>1
    <3> QED BY <3>2, <3>3, <3>4, <3>5
  <2> QED BY <1>9, <2>2, <2>3
<1>10. CASE /\ peer[Server].st = "closed" \/ peer[Server].port # f.port
            /\ peer' = [peer EXCEPT ![Server] = [PeerStart EXCEPT !.st = "open", !.port = f.port]]
            /\ rx' = Append(rx, Tcp(Server, HostPort, f.port, 0, 2, {"SYN", "ACK"}, <<>>))
            /\ hist' = [hist EXCEPT !.answered = @ \cup {Conn(f)}]
  <2>1. hist \in Hist /\ hist' = Answered(hist, <<Server, f.port>>)
    BY <1>2, <1>10, NowOK DEF Answered
  <2>2. /\ hist' \in Hist /\ Later(hist, hist') /\ <<Server, f.port>> \in hist'.answered
        /\ hist'.log = hist.log
    BY <1>3, <2>1, AnsweredIs
  <2>3. PICK s : s = [PeerStart EXCEPT !.st = "open", !.port = f.port]
    OBVIOUS
  <2>4. s = [st |-> "open", port |-> f.port, una |-> 0, fly |-> FALSE]
    BY <2>3 DEF PeerStart
  <2>5. s \in [st: {"closed", "syn", "open", "down"}, port: Nat, una: 0 .. Stream, fly: BOOLEAN]
    BY <1>3, <2>4, NetAssumption
  <2>6. PeerOK(k2, eph, Server, s)
    <3>1. Told(k2.hist, Server, f.port, s.una + 1)
      BY <2>4 DEF Told
    <3> QED BY <1>2, <1>3, <2>2, <2>4, <3>1 DEF PeerOK
  <2>7. peer \in Peers /\ \A r \in Remote : PeerOK(k2, eph, r, peer[r])
    <3>1. \A r \in Remote : PeerOK(K, eph, r, peer[r])
      BY DEF NetInv, Talk
    <3>2. Later(K.hist, k2.hist)
      BY <1>2, <2>2, KIs
    <3> QED BY <3>1, <3>2, PeersOK, PeerLater, <1>3
  <2>8. peer' = [peer EXCEPT ![Server] = s]
    BY <1>10, <2>3
  <2>9. peer' \in Peers /\ \A r \in Remote : PeerOK(k2, eph, r, peer'[r])
    BY <1>3, <2>5, <2>6, <2>7, <2>8 DEF Peers
  <2>10. peer'[Server].port = Head(tx).port /\ Syn(Head(tx))
    BY <1>1, <1>2, <1>3, <2>4, <2>7, <2>8 DEF Peers
  <2>11. peer[Server].port < f.port
    <3>1. PICK a, b : a = peer[Server].port /\ b = f.port
      OBVIOUS
    <3>2. a \in Nat /\ b \in Nat /\ b >= 1
      BY <1>3, <3>1, PeersOK DEF Given, FirstEphemeral, ListenPort
    <3>3. CASE peer[Server].st = "closed"
      <4>1. a = 0
        BY <1>3, <3>1, <3>3, PeersOK DEF PeerOK
      <4> QED BY <3>1, <3>2, <4>1
    <3>4. CASE a # b
      <4>1. InTurn(K, peer) /\ K.tx = tx /\ tx \in Seq(Frames)
        BY KIs, WireTypes DEF NetInv
      <4>2. f = tx[1] /\ 1 \in 1 .. Len(tx)
        BY <1>1, <4>1, HeadTail
      <4>3. a <= b
        BY <1>2, <3>1, <4>1, <4>2 DEF InTurn
      <4> QED BY <3>1, <3>2, <3>4, <4>3
    <3> QED BY <1>10, <3>1, <3>3, <3>4
  <2>12. PICK g \in Heard \cup Near : /\ rx' = Append(rx, g) /\ InOK(k2, eph, g)
                                      /\ g.host = Server /\ g.port = f.port
                                      /\ g.data = <<>> /\ "FIN" \notin g.flags
    BY <1>9, <1>10, <2>2
  <2>13. peer'[Server] = s /\ \A r \in Remote \ {Server} : peer'[r] = peer[r]
    BY <1>3, <2>7, <2>8, PeersOK DEF Peers
  <2>14. Tidy(k2, rx', peer')
    <3>1. PICK p0 : p0 = f.port
      OBVIOUS
    <3>2. \A r \in Remote, p \in Nat : r # Server \/ p # p0 => ~Of(Head(tx), r, p)
      BY <1>1, <1>2, <3>1 DEF Of
    <3>3. peer'[Server].port = p0 /\ peer'[Server].una = 0 /\ p0 \in Nat
      BY <1>3, <2>4, <2>13, <3>1
    <3>4. PICK r0 : r0 = Server
      OBVIOUS
    <3>5. /\ r0 \in Remote /\ peer'[r0].port = p0 /\ peer'[r0].una = 0
          /\ \A r \in Remote \ {r0} : peer'[r] = peer[r]
          /\ peer[r0].port < p0 /\ g.host = r0 /\ g.port = p0
          /\ \A r \in Remote, p \in Nat : r # r0 \/ p # p0 => ~Of(Head(tx), r, p)
      BY <1>3, <2>11, <2>12, <2>13, <3>1, <3>2, <3>3, <3>4
    <3>6. UNCHANGED <<socks, arp>> /\ k2 = K' /\ peer' \in Peers /\ rx' = Append(rx, g)
          /\ g.data = <<>> /\ "FIN" \notin g.flags /\ hist' \in Hist /\ Later(hist, hist') /\ hist'.log = hist.log
      BY <1>1, <1>2, <2>2, <2>9, <2>12
    <3> QED BY <1>4, <3>3, <3>5, <3>6, NewConn
  <2> QED BY <1>1, <1>2, <1>4, <2>2, <2>9, <2>10, <2>12, <2>14, WireKeeps
<1>11. CASE /\ \/ rx' = Append(rx, Tcp(Server, HostPort, f.port, 0, 2, {"SYN", "ACK"}, <<>>))
               \/ rx' = Append(rx, Tcp(Server, HostPort, f.port, 0, 2, {"RST", "ACK"}, <<>>))
            /\ hist' \in Hist /\ Later(hist, hist') /\ <<Server, f.port>> \in hist'.answered
            /\ hist'.log = hist.log /\ peer' = peer
  <2>1. /\ peer' \in Peers /\ \A r \in Remote : PeerOK(k2, eph, r, peer'[r])
        /\ peer'[Server].port = peer[Server].port
    BY <1>2, <1>11, PeersStay
  <2>2. f.ack = 0
    BY <1>2, <1>3 DEF OutOK
  <2>3. \A r \in Remote, p \in Nat : Spare(f, peer, r, p)
    <3>1. \A r \in Remote : peer[r].una \in Nat
      BY NetAssumption DEF NetInv, Peers
    <3> QED BY <2>2, <3>1 DEF Spare
  <2>4. PICK g \in Heard \cup Near : /\ rx' = Append(rx, g) /\ InOK(k2, eph, g)
                                     /\ g.data = <<>> /\ "FIN" \notin g.flags /\ "ACK" \in g.flags
    BY <1>9, <1>11
  <2>5. \A r \in Remote, p \in Nat : ~Weighs(g, r, p)
    BY <2>4 DEF Weighs
  <2>6. Tidy(k2, rx', peer')
    BY <1>1, <1>2, <1>4, <1>11, <2>3, <2>4, <2>5, StillTidy
  <2> QED BY <1>1, <1>2, <1>4, <1>11, <2>1, <2>4, <2>6, WireKeeps
<1>12. CASE /\ peer' = peer
            /\ hist' = [hist EXCEPT !.answered = @ \cup {Conn(f)}]
            /\ rx' = Append(rx, Tcp(Server, HostPort, f.port, 0, 2, {"RST", "ACK"}, <<>>))
  <2>1. hist \in Hist /\ hist' = Answered(hist, <<Server, f.port>>)
    BY <1>2, <1>12, NowOK DEF Answered
  <2>2. /\ hist' \in Hist /\ Later(hist, hist') /\ <<Server, f.port>> \in hist'.answered
        /\ hist'.log = hist.log
    BY <1>3, <2>1, AnsweredIs
  <2> QED BY <1>11, <1>12, <2>2
<1>13. CASE /\ peer' = peer /\ hist' = hist /\ peer[Server].st = "open" /\ peer[Server].port = f.port
            /\ rx' = Append(rx, Tcp(Server, HostPort, f.port, 0, 2, {"SYN", "ACK"}, <<>>))
  <2>1. <<Server, peer[Server].port>> \in hist.answered /\ hist \in Hist
    BY <1>3, <1>13, PeersOK DEF PeerOK
  <2>2. /\ hist' \in Hist /\ Later(hist, hist') /\ <<Server, f.port>> \in hist'.answered
        /\ hist'.log = hist.log
    BY <1>13, <2>1 DEF Later
  <2> QED BY <1>11, <1>13, <2>2
<1>14. \/ /\ peer[Server].st = "closed" \/ peer[Server].port # f.port
          /\ peer' = [peer EXCEPT ![Server] = [PeerStart EXCEPT !.st = "open", !.port = f.port]]
          /\ rx' = Append(rx, Tcp(Server, HostPort, f.port, 0, 2, {"SYN", "ACK"}, <<>>))
          /\ hist' = [hist EXCEPT !.answered = @ \cup {Conn(f)}]
       \/ /\ peer' = peer
          /\ hist' = [hist EXCEPT !.answered = @ \cup {Conn(f)}]
          /\ rx' = Append(rx, Tcp(Server, HostPort, f.port, 0, 2, {"RST", "ACK"}, <<>>))
       \/ /\ peer' = peer /\ hist' = hist /\ peer[Server].st = "open" /\ peer[Server].port = f.port
          /\ rx' = Append(rx, Tcp(Server, HostPort, f.port, 0, 2, {"SYN", "ACK"}, <<>>))
  BY <1>2 DEF Accepts, Arrive
<1> QED BY <1>10, <1>12, <1>13, <1>14

\* A remote host takes an acknowledgement.
LEMMA AckedKeeps ==
    ASSUME NetInv, tx # <<>>, tx' = Tail(tx), UNCHANGED <<Kernel, faults>>, Acked(Head(tx))
    PROVE  NetInv'
<1>1. PICK k2, f : k2 = K' /\ f = Head(tx)
  OBVIOUS
<1>2. PICK r, una : /\ r = f.host
                    /\ una = Lo(Stream, IF f.ack > peer[r].una + 1 THEN f.ack - 1 ELSE peer[r].una)
  OBVIOUS
<1>3. /\ k2.hist = hist' /\ UNCHANGED <<socks, arp, eph, conf, call, hist>>
      /\ f.kind = "tcp" /\ r \in Remote /\ "ACK" \in f.flags
      /\ peer[r].st \in {"open", "syn"} /\ peer[r].port = f.port
      /\ peer' = [peer EXCEPT ![r].una = una, ![r].st = "open",
                              ![r].fly = @ /\ una = peer[r].una]
      /\ rx' = rx \/ rx' = Append(rx, FromPeer(r, {"ACK"}, 0, <<>>))
  BY <1>1, <1>2 DEF K, Kernel, Acked, Arrive
<1>4. f \in Frames /\ OutOK(K, eph, f)
  BY <1>1, DeliveredIs
<1>5. f.ack \in Nat
  BY <1>3, <1>4, FramesDiffer DEF Frames, Tcps, Udps, Others
<1>6. PICK s : s = peer[r]
  OBVIOUS
<1>7. /\ s \in [st: {"closed", "syn", "open", "down"}, port: Nat, una: 0 .. Stream, fly: BOOLEAN]
      /\ PeerOK(K, eph, r, s) /\ hist \in Hist /\ K.hist = hist /\ peer \in Peers
  BY <1>3, <1>6, PeersOK
<1>8. Stream \in Nat /\ s.una \in 0 .. Stream
  BY <1>7, NetAssumption
<1>9. una \in 0 .. Stream /\ (una < f.ack \/ una <= s.una)
  BY <1>2, <1>5, <1>6, <1>8 DEF Lo
<1>10. Told(hist, r, f.port, una + 1)
  <2>1. Told(hist, r, f.port, f.ack) /\ Told(hist, r, f.port, s.una + 1)
    BY <1>2, <1>3, <1>4, <1>6, <1>7 DEF OutOK, PeerOK
  <2>2. \A i \in 1 .. Stream : i < una + 1 => i < f.ack \/ i < s.una + 1
    BY <1>5, <1>8, <1>9
  <2> QED BY <2>1, <2>2 DEF Told
<1>11. PICK fly : fly = (s.fly /\ una = s.una)
  OBVIOUS
<1>12. PICK s2 : s2 = [st |-> "open", port |-> s.port, una |-> una, fly |-> fly]
  OBVIOUS
<1>13. s2 \in [st: {"closed", "syn", "open", "down"}, port: Nat, una: 0 .. Stream, fly: BOOLEAN]
  BY <1>7, <1>9, <1>11, <1>12
<1>14. peer'[r] = s2 /\ \A q \in Remote \ {r} : peer'[q] = peer[q]
  <2>1. peer'[r] = [s EXCEPT !.una = una, !.st = "open", !.fly = fly]
    BY <1>3, <1>6, <1>7, <1>11 DEF Peers
  <2>2. [s EXCEPT !.una = una, !.st = "open", !.fly = fly] = s2
    <3>1. PICK open : open = "open"
      OBVIOUS
    <3>2. s = [st |-> s.st, port |-> s.port, una |-> s.una, fly |-> s.fly]
      BY <1>7
    <3>3. PICK t : t = [s EXCEPT !.una = una]
      OBVIOUS
    <3>4. t = [st |-> s.st, port |-> s.port, una |-> una, fly |-> s.fly]
      BY <3>2, <3>3
    <3>5. PICK u : u = [t EXCEPT !.st = open]
      OBVIOUS
    <3>6. u = [st |-> open, port |-> s.port, una |-> una, fly |-> s.fly]
      BY <3>4, <3>5
    <3>7. [u EXCEPT !.fly = fly] = s2
      BY <1>12, <3>1, <3>6
    <3>8. [s EXCEPT !.una = una, !.st = "open", !.fly = fly] = [u EXCEPT !.fly = fly]
      BY <3>1, <3>3, <3>5, Zenon
    <3> QED BY <3>7, <3>8
  <2>3. \A q \in Remote \ {r} : peer'[q] = peer[q]
    BY <1>3, <1>7 DEF Peers
  <2> QED BY <2>1, <2>2, <2>3
<1>15. peer' \in Peers
  BY <1>3, <1>7, <1>13, <1>14 DEF Peers
<1>16. hist' \in Hist /\ Later(hist, hist') /\ k2.hist = hist /\ Later(K.hist, k2.hist)
  BY <1>3, <1>7 DEF Later
<1>17. Given(eph, r, s.port) /\ <<r, s.port>> \in hist.answered
  BY <1>3, <1>6, <1>7 DEF PeerOK
<1>18. PeerOK(k2, eph, r, s2)
  BY <1>3, <1>6, <1>10, <1>12, <1>16, <1>17 DEF PeerOK
<1>19. ASSUME NEW q \in Remote PROVE PeerOK(k2, eph, q, peer'[q])
  <2>1. CASE q = r
    BY <1>14, <1>18, <2>1
  <2>2. CASE q # r
    <3>1. PeerOK(K, eph, q, peer[q])
      BY PeersOK
    <3>2. PeerOK(k2, eph, q, peer[q])
      BY <1>16, <3>1, PeerLater
    <3> QED BY <1>14, <2>2, <3>2
  <2> QED BY <2>1, <2>2
<1>20. peer'[Server].port = peer[Server].port
  BY <1>6, <1>12, <1>14, NamesDiffer
<1>21. \/ Shorter(rx, rx')
       \/ \E g \in Heard \cup Near : /\ rx' = Append(rx, g) /\ InOK(k2, eph, g)
                                     /\ g.data = <<>> /\ "FIN" \notin g.flags /\ "ACK" \in g.flags
  <2>1. CASE rx' = rx
    BY <2>1 DEF Shorter
  <2>2. CASE rx' = Append(rx, FromPeer(r, {"ACK"}, 0, <<>>))
    <3>0. PICK fl, one : fl = {"ACK"} /\ one = 1
      OBVIOUS
    <3>1. fl = {"ACK"} /\ one = 1 /\ one \in Nat
      BY <3>0
    <3>2. fl \in SUBSET Flags /\ "FIN" \notin fl /\ ("SYN" \in fl => ("ACK" \in fl <=> r = Server))
      BY <3>1 DEF Flags
    <3>3. PICK g : g = Tcp(r, HostPort, s.port, 0, one, fl, <<>>)
      OBVIOUS
    <3>4. s.port \in Nat /\ <<r, s.port>> \in k2.hist.answered
      BY <1>7, <1>16, <1>17
    <3>5. g \in Heard \cup Near /\ InOK(k2, eph, g)
      BY <1>3, <1>17, <3>1, <3>2, <3>3, <3>4, ControlIs
    <3>6. FromPeer(r, {"ACK"}, 0, <<>>) = g
      BY <1>6, <3>1, <3>3 DEF FromPeer
    <3>7. g.data = <<>> /\ g.flags = fl
      BY <3>3 DEF Tcp
    <3>8. g.data = <<>> /\ "FIN" \notin g.flags /\ "ACK" \in g.flags
      BY <3>1, <3>7
    <3> QED BY <2>2, <3>5, <3>6, <3>8
  <2> QED BY <1>3, <2>1, <2>2
<1>22. Shorter(tx, tx')
  BY DEF Shorter
<1>23. rx \in Queue /\ rx' \in Queue /\ Tidy(K, rx, peer) /\ K.tx = tx
  BY <1>21, QueueNow, KIs DEF NetInv
<1>24. \A p \in Nat, q \in Remote : Slides(rx, rx', q, p)
  <2>0. PICK q2 : q2 = rx'
    OBVIOUS
  <2>1. CASE Shorter(rx, rx')
    <3>1. Shorter(rx, q2)
      BY <2>0, <2>1
    <3>2. \A p \in Nat, q \in Remote : Slides(rx, q2, q, p)
      BY <1>23, <3>1, TailSlides
    <3> QED BY <2>0, <3>2
  <2>2. CASE \E g \in Heard \cup Near : /\ rx' = Append(rx, g) /\ g.data = <<>> /\ "FIN" \notin g.flags
                                        /\ "ACK" \in g.flags
    <3>1. PICK g \in Heard \cup Near : /\ q2 = Append(rx, g) /\ g.data = <<>> /\ "FIN" \notin g.flags
                                       /\ "ACK" \in g.flags
      BY <2>0, <2>2
    <3>2. \A p \in Nat, q \in Remote : ~Weighs(g, q, p)
      BY <3>1 DEF Weighs
    <3>3. \A p \in Nat, q \in Remote : Slides(rx, q2, q, p)
      BY <1>23, <3>1, <3>2, MoreSlides
    <3> QED BY <2>0, <3>3
  <2> QED BY <1>21, <2>1, <2>2
<1>25. PICK pr2, p0, q2 : pr2 = peer' /\ p0 = s.port /\ q2 = rx'
  OBVIOUS
<1>26. /\ K \in Kernels /\ k2 \in Kernels /\ k2.socks = K.socks /\ k2.tx = tx' /\ k2.hist = hist'
       /\ Later(K.hist, k2.hist) /\ Shorter(K.tx, k2.tx)
  BY <1>1, <1>3, <1>16, <1>22, WireNow
<1>27. tx \in Seq(Frames) /\ f = tx[1] /\ 1 \in 1 .. Len(tx)
  BY <1>1, HeadTail, WireTypes
<1>28. /\ Of(f, r, p0) /\ p0 \in Nat /\ f.port = p0
       /\ \A q \in Remote, p \in Nat : q # r \/ p # p0 => ~Of(f, q, p)
  BY <1>2, <1>3, <1>6, <1>7, <1>25 DEF Of
<1>29. Learns(peer[r], pr2[r], f.ack)
  <2>1. s2.st = "open" /\ s2.port = s.port /\ s2.una = una /\ s2.fly = fly
    BY <1>12
  <2>2. s2.fly <=> (s.fly /\ s2.una = s.una)
    BY <1>11, <2>1, Zenon
  <2>3. s2.una = Lo(Stream, IF f.ack > s.una + 1 THEN f.ack - 1 ELSE s.una)
    BY <1>2, <1>6, <2>1
  <2>4. Learns(s, s2, f.ack)
    BY <2>1, <2>2, <2>3, Zenon DEF Learns
  <2> QED BY <1>6, <1>14, <1>25, <2>4
<1>30. Spare(f, pr2, r, p0)
  <2>1. una = Stream \/ f.ack <= una + 1
    BY <1>2, <1>5, <1>6, <1>8 DEF Lo
  <2>2. pr2[r].una = una
    BY <1>12, <1>14, <1>25
  <2> QED BY <2>1, <2>2 DEF Spare
<1>31. ASSUME Fine(k2, r, p0) PROVE Good(k2, q2, pr2, r, p0)
  <2>1. Good(K, rx, peer, r, p0)
    BY <1>3, <1>23, <1>26, <1>28, <1>31, FineBefore DEF Tidy
  <2>2. /\ pr2 \in Peers /\ q2 \in Queue /\ peer[r].port = p0 /\ Slides(rx, q2, r, p0)
    BY <1>3, <1>6, <1>15, <1>23, <1>24, <1>25, <1>28
  <2>3. 1 \in 1 .. Len(K.tx) /\ Of(K.tx[1], r, p0) /\ Learns(peer[r], pr2[r], K.tx[1].ack)
    BY <1>23, <1>27, <1>28, <1>29
  <2>4. Good(K, rx, pr2, r, p0)
    BY <1>3, <1>7, <1>23, <1>26, <1>28, <2>1, <2>2, <2>3, LearnsGood
  <2>5. k2.hist.log = K.hist.log /\ Spare(Head(K.tx), pr2, r, p0)
    BY <1>1, <1>7, <1>16, <1>23, <1>30
  <2>6. Calm(K, rx, k2, q2, pr2, r, p0)
    BY <1>3, <1>23, <1>26, <1>28, <2>2, <2>5, WireCalm
  <2> QED BY <1>3, <1>23, <1>26, <1>28, <2>2, <2>4, <2>6, CalmGood
<1>32. ASSUME NEW q \in Remote, NEW p \in Nat, q # r \/ p # p0
       PROVE  /\ Away(peer, pr2, q, p) /\ Slides(rx, q2, q, p) /\ Spare(f, pr2, q, p)
  <2>1. Away(peer, pr2, q, p)
    BY <1>6, <1>12, <1>14, <1>25, <1>32 DEF Away
  <2> QED BY <1>24, <1>25, <1>28, <1>32, <2>1 DEF Spare
<1>33. Tidy(k2, rx', peer')
  <2>1. \A q \in Remote, p \in Nat : Fine(k2, q, p) =>
               \/ Good(k2, rx', peer', q, p)
               \/ /\ Away(peer, peer', q, p) /\ Slides(rx, rx', q, p)
                  /\ tx' # tx => Spare(Head(tx), peer', q, p)
    BY <1>1, <1>25, <1>31, <1>32
  <2>2. hist'.log = hist.log /\ UNCHANGED <<socks, arp>>
    BY <1>3
  <2> QED BY <1>1, <1>15, <1>16, <1>22, <1>23, <2>1, <2>2, TidyNow
<1> QED BY <1>1, <1>3, <1>15, <1>16, <1>19, <1>20, <1>21, <1>22, <1>33, WireKeeps

\* A host receives the next frame.
LEMMA DeliverKeeps ==
    ASSUME NetInv, Deliver
    PROVE  NetInv'
<1>1. tx # <<>> /\ tx' = Tail(tx) /\ UNCHANGED <<Kernel, faults>>
  BY DEF Deliver
<1>2. CASE Answer(Head(tx))
  BY <1>1, <1>2, AnswerKeeps
<1>3. CASE Accepts(Head(tx))
  BY <1>1, <1>3, AcceptsKeeps
<1>4. CASE Acked(Head(tx))
  BY <1>1, <1>4, AckedKeeps
<1>5. PICK f : f = Head(tx)
  OBVIOUS
<1>6. f \in Frames /\ OutOK(K, eph, f)
  BY <1>1, <1>5, DeliveredIs
<1>7. CASE /\ UNCHANGED <<rx, peer, hist>>
           /\ \/ f.kind \in {"reply", "pong"} \/ f.host = None
              \/ f.kind = "tcp" /\ peer[f.host].port # f.port
              \/ f.host \in Remote /\ peer[f.host].st = "down"
  <2>1. ASSUME NEW r \in Remote, NEW p \in Nat, Of(f, r, p) PROVE peer[r].port # p
    <3>1. f.kind = "tcp" /\ f.host = r /\ f.port = p /\ r # None
      BY <2>1, NamesDiffer DEF Of
    <3>2. CASE peer[r].st = "down"
      <4>1. peer[r].port = 0
        BY <3>2, PeersOK DEF PeerOK
      <4>2. p >= 1
        BY <1>6, <3>1 DEF OutOK, Given, FirstEphemeral, ListenPort
      <4> QED BY <4>1, <4>2
    <3> QED BY <1>7, <3>1, <3>2
  <2>2. \A r \in Remote, p \in Nat : Spare(Head(tx), peer, r, p)
    BY <1>5, <2>1 DEF Spare
  <2> QED BY <1>1, <1>7, <2>2, DroppedKeeps
<1> QED BY <1>2, <1>3, <1>4, <1>5, <1>7 DEF Deliver

\* A client's SYN, and its repetition.
LEMMA ClientSynKeeps ==
    ASSUME NetInv, ClientSyn
    PROVE  NetInv'
<1>1. PICK k2 : k2 = K'
  OBVIOUS
<1>2. /\ k2.hist = hist' /\ UNCHANGED <<socks, arp, eph, conf, call, tx>>
      /\ peer' = [peer EXCEPT ![Client] = [PeerStart EXCEPT !.st = "syn", !.port = ListenPort]]
      /\ rx' = Append(rx, Tcp(Client, HostPort, ListenPort, 0, 0, {"SYN"}, <<>>))
      /\ hist' = [hist EXCEPT !.answered = @ \cup {<<Client, ListenPort>>}]
  BY <1>1 DEF K, Kernel, ClientSyn, Arrive
<1>3. Client \in Remote /\ Client # Server /\ Given(eph, Client, ListenPort) /\ ListenPort \in Nat
  BY NamesDiffer DEF Given, ListenPort
<1>4. hist \in Hist /\ peer \in Peers
  BY NowOK, PeersOK, <1>3
<1>5. /\ hist' \in Hist /\ Later(hist, hist') /\ <<Client, ListenPort>> \in k2.hist.answered
      /\ hist'.log = hist.log
  <2>1. PICK h2 : h2 = Answered(hist, <<Client, ListenPort>>)
    OBVIOUS
  <2>2. h2 \in Hist /\ Later(hist, h2) /\ <<Client, ListenPort>> \in h2.answered /\ h2.log = hist.log
    BY <1>3, <1>4, <2>1, AnsweredIs
  <2>3. hist' = h2
    BY <1>2, <2>1 DEF Answered
  <2> QED BY <1>2, <2>2, <2>3
<1>6. PICK s : s = [PeerStart EXCEPT !.st = "syn", !.port = ListenPort]
  OBVIOUS
<1>7. s = [st |-> "syn", port |-> ListenPort, una |-> 0, fly |-> FALSE]
  BY <1>6 DEF PeerStart
<1>8. s \in [st: {"closed", "syn", "open", "down"}, port: Nat, una: 0 .. Stream, fly: BOOLEAN]
  BY <1>3, <1>7, NetAssumption
<1>9. PeerOK(k2, eph, Client, s)
  <2>1. Told(k2.hist, Client, ListenPort, s.una + 1)
    BY <1>7 DEF Told
  <2> QED BY <1>3, <1>5, <1>7, <2>1 DEF PeerOK
<1>10. peer' = [peer EXCEPT ![Client] = s]
  BY <1>2, <1>6
<1>11. peer' \in Peers /\ peer'[Client] = s /\ \A q \in Remote \ {Client} : peer'[q] = peer[q]
  BY <1>3, <1>4, <1>8, <1>10 DEF Peers
<1>12. ASSUME NEW q \in Remote PROVE PeerOK(k2, eph, q, peer'[q])
  <2>1. CASE q = Client
    BY <1>9, <1>11, <2>1
  <2>2. CASE q # Client
    <3>1. PeerOK(K, eph, q, peer[q]) /\ Later(K.hist, k2.hist)
      BY <1>2, <1>5, PeersOK, KIs
    <3>2. PeerOK(k2, eph, q, peer[q])
      BY <3>1, PeerLater
    <3> QED BY <1>11, <2>2, <3>2
  <2> QED BY <2>1, <2>2
<1>13. peer'[Server].port = peer[Server].port
  BY <1>3, <1>11, NamesDiffer
<1>14. PICK g \in Heard \cup Near : /\ rx' = Append(rx, g) /\ InOK(k2, eph, g)
                                    /\ g.host = Client /\ g.port = ListenPort
                                    /\ g.data = <<>> /\ "FIN" \notin g.flags
  <2>0. PICK fl, nought : fl = {"SYN"} /\ nought = 0
    OBVIOUS
  <2>1. fl = {"SYN"} /\ nought = 0 /\ nought \in Nat
    BY <2>0
  <2>2. fl \in SUBSET Flags /\ "FIN" \notin fl /\ ("SYN" \in fl => ("ACK" \in fl <=> Client = Server))
    BY <1>3, <2>1 DEF Flags
  <2>3. PICK g : g = Tcp(Client, HostPort, ListenPort, 0, nought, fl, <<>>)
    OBVIOUS
  <2>4. g \in Heard \cup Near /\ InOK(k2, eph, g)
    BY <1>3, <1>5, <2>1, <2>2, <2>3, ControlIs
  <2>5. g.host = Client /\ g.port = ListenPort /\ g.data = <<>> /\ g.flags = fl
    BY <2>3 DEF Tcp
  <2>6. "FIN" \notin g.flags
    BY <2>1, <2>5
  <2> QED BY <1>2, <2>1, <2>3, <2>4, <2>5, <2>6
<1>15. Shorter(tx, tx') /\ tx' = tx
  BY <1>2 DEF Shorter
<1>16. PICK r0, p0 : r0 = Client /\ p0 = ListenPort
  OBVIOUS
<1>17. peer[r0].port < p0 \/ (peer[r0].port = p0 /\ peer[r0].st = "syn")
  <2>1. CASE peer[Client].st = "closed"
    <3>1. peer[Client].port = 0
      BY <1>3, <2>1, PeersOK DEF PeerOK
    <3> QED BY <1>16, <3>1 DEF ListenPort
  <2>2. CASE peer[Client].st = "syn"
    <3>1. Given(eph, Client, peer[Client].port)
      BY <1>3, <2>2, PeersOK DEF PeerOK
    <3> QED BY <1>16, <2>2, <3>1 DEF Given
  <2> QED BY <2>1, <2>2 DEF ClientSyn
<1>18. /\ r0 \in Remote /\ p0 \in Nat /\ peer'[r0].port = p0 /\ peer'[r0].una = 0
       /\ \A r \in Remote \ {r0} : peer'[r] = peer[r]
       /\ g.host = r0 /\ g.port = p0
  BY <1>3, <1>7, <1>11, <1>14, <1>16
<1>19. Tidy(k2, rx', peer')
  BY <1>1, <1>2, <1>5, <1>11, <1>14, <1>15, <1>17, <1>18, NewConn
<1> QED BY <1>1, <1>2, <1>5, <1>11, <1>12, <1>13, <1>14, <1>15, <1>19, WireKeeps

\* A segment of a remote host's stream.
LEMMA StreamIs ==
    ASSUME NEW r \in Remote, NEW p \in Nat, NEW una \in 0 .. Stream, NEW n \in 0 .. Stream - una,
           NEW fl \in SUBSET Flags, "SYN" \notin fl, "FIN" \in fl => una + n = Stream,
           NEW a \in Nat, NEW f,
           f = Tcp(r, HostPort, p, una + 1, a, fl, [i \in 1 .. n |-> una + i]),
           NEW k, NEW e, Given(e, r, p), <<r, p>> \in k.hist.answered, Told(k.hist, r, p, una + 1)
    PROVE  f \in Heard \cup Near /\ InOK(k, e, f)
<1>1. Stream \in Nat /\ una \in Nat /\ n \in Nat /\ una + n <= Stream
  BY NetAssumption
<1>2. PICK sq, data : sq = una + 1 /\ data = [i \in 1 .. n |-> una + i]
  OBVIOUS
<1>3. data \in Seq(Nat) /\ Len(data) = n /\ \A i \in 1 .. n : data[i] = una + i
  BY <1>1, <1>2
<1>4. f = Tcp(r, HostPort, p, sq, a, fl, data) /\ sq \in Nat /\ data \in Bytes
  BY <1>1, <1>2, <1>3 DEF Bytes
<1>5. /\ f.kind = "tcp" /\ f.host = r /\ f.hport = HostPort /\ f.port = p /\ f.seq = sq
      /\ f.flags = fl /\ f.data = data /\ f \in Tcps /\ Conn(f) = <<r, p>>
  BY <1>4, SegmentIs
<1>6. f.seq = una + 1
  BY <1>2, <1>5
<1>7. f \in Heard
  <2>1. \A i \in 1 .. Len(f.data) : f.data[i] = f.seq + i - 1
    BY <1>1, <1>3, <1>5, <1>6
  <2>0. Len(f.data) = n /\ f.seq = una + 1
    BY <1>3, <1>5, <1>6
  <2>2. "FIN" \in f.flags => f.seq + Len(f.data) = Stream + 1
    <3>1. "FIN" \in f.flags => una + n = Stream
      BY <1>5
    <3>2. una + n = Stream => una + 1 + n = Stream + 1
      BY <1>1
    <3> QED BY <2>0, <3>1, <3>2
  <2>3. f.seq >= 1 /\ f.seq + Len(f.data) <= Stream + 1
    BY <1>1, <2>0
  <2> QED BY <1>5, <1>6, <2>1, <2>2, <2>3 DEF Heard
<1> QED BY <1>5, <1>6, <1>7 DEF InOK

\* A remote host sends, or sends again.
LEMMA PeerSendsKeeps ==
    ASSUME NetInv, NEW r \in Remote, PeerSends(r)
    PROVE  NetInv'
<1>1. PICK k2, s : k2 = K' /\ s = peer[r]
  OBVIOUS
<1>2. /\ k2.hist = hist' /\ UNCHANGED <<socks, arp, eph, conf, call, tx>>
      /\ s.st = "open"
      /\ \/ hist' = hist /\ (~s.fly \/ Quiet(r))
         \/ hist' = [hist EXCEPT !.muted = @ \cup {<<r, s.port>>}]
      /\ peer' = [peer EXCEPT ![r].fly = TRUE]
  BY <1>1 DEF K, Kernel, PeerSends
<1>3. PICK n \in 0 .. Lo(SegMax, Stream - s.una), fin \in BOOLEAN :
         /\ fin => s.una + n = Stream
         /\ rx' = Append(rx, FromPeer(r, IF fin THEN {"ACK", "FIN"} ELSE {"ACK"}, s.una + 1,
                                      [i \in 1 .. n |-> s.una + i]))
  BY <1>1 DEF PeerSends, Arrive
<1>4. /\ s \in [st: {"closed", "syn", "open", "down"}, port: Nat, una: 0 .. Stream, fly: BOOLEAN]
      /\ PeerOK(K, eph, r, s) /\ hist \in Hist /\ K.hist = hist /\ peer \in Peers
  BY <1>1, PeersOK
<1>5. Stream \in Nat /\ SegMax \in Nat /\ s.una \in 0 .. Stream /\ s.port \in Nat
  BY <1>4, NetAssumption
<1>6. n \in 0 .. Stream - s.una
  BY <1>3, <1>5 DEF Lo
<1>7. /\ hist' \in Hist /\ Later(hist, hist') /\ Later(K.hist, k2.hist) /\ hist'.log = hist.log
      /\ <<r, s.port>> \in hist'.muted \/ ~s.fly \/ Quiet(r)
  <2>1. CASE hist' = hist /\ (~s.fly \/ Quiet(r))
    BY <1>2, <1>4, <2>1 DEF Later
  <2>2. CASE hist' = [hist EXCEPT !.muted = @ \cup {<<r, s.port>>}]
    <3>1. <<r, s.port>> \in Conns
      BY <1>5, NamesDiffer DEF Conns
    <3> QED BY <1>2, <1>4, <2>2, <3>1 DEF Hist, Later
  <2> QED BY <1>2, <2>1, <2>2
<1>8. /\ Given(eph, r, s.port) /\ <<r, s.port>> \in k2.hist.answered
      /\ Told(k2.hist, r, s.port, s.una + 1)
  <2>1. Told(K.hist, r, s.port, s.una + 1)
    BY <1>4 DEF PeerOK
  <2>2. Told(k2.hist, r, s.port, s.una + 1)
    BY <1>7, <2>1, ToldLater
  <2> QED BY <1>2, <1>4, <1>7, <2>2 DEF PeerOK, Later
<1>9. PICK g \in Heard \cup Near : /\ rx' = Append(rx, g) /\ InOK(k2, eph, g)
                                   /\ g.host = r /\ g.port = s.port /\ g.seq = s.una + 1 /\ "ACK" \in g.flags
                                   /\ g.data = <<>> /\ "FIN" \in g.flags => s.una = Stream
  <2>1. PICK fl : fl = IF fin THEN {"ACK", "FIN"} ELSE {"ACK"}
    OBVIOUS
  <2>2. fl \in SUBSET Flags /\ "SYN" \notin fl /\ ("FIN" \in fl => s.una + n = Stream)
    BY <1>3, <2>1 DEF Flags
  <2>3. PICK one : one = 1
    OBVIOUS
  <2>4. one \in Nat
    BY <2>3
  <2>5. PICK g, una : una = s.una /\ g = Tcp(r, HostPort, s.port, una + 1, one, fl, [i \in 1 .. n |-> una + i])
    OBVIOUS
  <2>6. una \in 0 .. Stream /\ n \in 0 .. Stream - una /\ ("FIN" \in fl => una + n = Stream)
        /\ Told(k2.hist, r, s.port, una + 1)
    BY <1>5, <1>6, <1>8, <2>2, <2>5
  <2>7. g \in Heard \cup Near /\ InOK(k2, eph, g)
    BY <1>5, <1>8, <2>2, <2>4, <2>5, <2>6, StreamIs
  <2>8. rx' = Append(rx, g)
    BY <1>1, <1>3, <2>1, <2>3, <2>5 DEF FromPeer
  <2>9. /\ g.host = r /\ g.port = s.port /\ g.seq = s.una + 1 /\ g.flags = fl
        /\ g.data = [i \in 1 .. n |-> una + i]
    BY <2>5 DEF Tcp
  <2>10. "ACK" \in g.flags
    BY <2>1, <2>9
  <2>11. ASSUME g.data = <<>>, "FIN" \in g.flags PROVE s.una = Stream
    <3>1. n = 0
      BY <1>5, <1>6, <2>9, <2>11
    <3> QED BY <1>5, <2>2, <2>9, <2>11, <3>1
  <2> QED BY <2>7, <2>8, <2>9, <2>10, <2>11
<1>10. PICK s2 : s2 = [s EXCEPT !.fly = TRUE]
  OBVIOUS
<1>11. /\ s2 \in [st: {"closed", "syn", "open", "down"}, port: Nat, una: 0 .. Stream, fly: BOOLEAN]
       /\ s2.fly /\ s2.st = s.st /\ s2.port = s.port /\ s2.una = s.una
  BY <1>4, <1>10
<1>12. peer' \in Peers /\ peer'[r] = s2 /\ \A q \in Remote \ {r} : peer'[q] = peer[q]
  BY <1>1, <1>2, <1>4, <1>10, <1>11 DEF Peers
<1>13. ASSUME NEW q \in Remote PROVE PeerOK(k2, eph, q, peer'[q])
  <2>1. CASE q = r
    BY <1>2, <1>8, <1>11, <1>12, <2>1 DEF PeerOK
  <2>2. CASE q # r
    <3>1. PeerOK(K, eph, q, peer[q])
      BY PeersOK
    <3>2. PeerOK(k2, eph, q, peer[q])
      BY <1>7, <3>1, PeerLater
    <3> QED BY <1>12, <2>2, <3>2
  <2> QED BY <2>1, <2>2
<1>14. peer'[Server].port = peer[Server].port
  BY <1>1, <1>11, <1>12, NamesDiffer
<1>15. Shorter(tx, tx') /\ tx' = tx
  BY <1>2 DEF Shorter
<1>16. PICK pr2, p0, q2 : pr2 = peer' /\ p0 = s.port /\ q2 = rx'
  OBVIOUS
<1>17. /\ K \in Kernels /\ k2 \in Kernels /\ k2.socks = K.socks /\ k2.tx = tx' /\ k2.hist = hist'
       /\ Later(K.hist, k2.hist) /\ Shorter(K.tx, k2.tx)
  BY <1>1, <1>2, <1>7, <1>15, WireNow
<1>18. /\ rx \in Queue /\ q2 \in Queue /\ Tidy(K, rx, peer) /\ K.tx = tx
       /\ q2 = Append(rx, g) /\ p0 \in Nat /\ pr2 \in Peers /\ peer[r].port = p0
  BY <1>1, <1>5, <1>9, <1>12, <1>16, QueueNow, KIs DEF NetInv
<1>19. ASSUME Fine(k2, r, p0) PROVE Good(k2, q2, pr2, r, p0)
  <2>1. Good(K, rx, peer, r, p0)
    BY <1>17, <1>18, <1>19, FineBefore DEF Tidy
  <2>2. Calm(K, rx, k2, rx, peer, r, p0)
    <3>1. k2.hist.log = K.hist.log /\ k2.tx = K.tx /\ Slides(rx, rx, r, p0)
      BY <1>4, <1>7, <1>15, <1>17, <1>18, StillSlides
    <3> QED BY <1>4, <1>17, <1>18, <3>1, WireCalm
  <2>3. Good(k2, rx, peer, r, p0)
    BY <1>4, <1>17, <1>18, <2>1, <2>2, CalmGood
  <2>4. ~s.fly \/ Quiet(r)
    BY <1>7, <1>16, <1>17, <1>19 DEF Fine
  <2>5. ~peer[r].fly \/ Silent(k2, rx, r, p0)
    <3>1. ASSUME Quiet(r) PROVE Silent(k2, rx, r, p0)
      <4>1. \A i \in 1 .. Len(rx) : rx[i] \in ToSet(rx)
        BY <1>18 DEF ToSet, Queue
      <4>2. \A i \in 1 .. Len(tx) : tx[i] \in ToSet(tx)
        BY WireTypes DEF ToSet
      <4>3. k2.tx = tx
        BY <1>15, <1>17
      <4> QED BY <1>18, <3>1, <4>1, <4>2, <4>3 DEF Silent, Quiet, Of, Conn
    <3> QED BY <1>1, <2>4, <3>1
  <2>6. Sends(peer[r], pr2[r]) /\ peer[r].st = "open"
    BY <1>1, <1>2, <1>11, <1>12, <1>16 DEF Sends
  <2>7. g.seq = peer[r].una + 1 /\ (g.data = <<>> /\ "FIN" \in g.flags => peer[r].una = Stream)
    BY <1>1, <1>9
  <2> QED BY <1>4, <1>9, <1>17, <1>18, <2>3, <2>5, <2>6, <2>7, SendsGood
<1>20. ASSUME NEW q \in Remote, NEW p \in Nat, q # r \/ p # p0
       PROVE  Away(peer, pr2, q, p) /\ Slides(rx, q2, q, p)
  <2>1. Away(peer, pr2, q, p)
    BY <1>1, <1>11, <1>12, <1>16, <1>20 DEF Away
  <2>2. ~Weighs(g, q, p)
    BY <1>9, <1>16, <1>20 DEF Weighs, Of
  <2> QED BY <1>18, <2>1, <2>2, MoreSlides
<1>21. Tidy(k2, rx', peer')
  <2>1. \A q \in Remote, p \in Nat : Fine(k2, q, p) =>
               \/ Good(k2, rx', peer', q, p)
               \/ /\ Away(peer, peer', q, p) /\ Slides(rx, rx', q, p)
                  /\ tx' # tx => Spare(Head(tx), peer', q, p)
    BY <1>15, <1>16, <1>19, <1>20
  <2>2. UNCHANGED <<socks, arp>> /\ rx' \in Queue
    BY <1>2, <1>16, <1>18
  <2> QED BY <1>1, <1>7, <1>12, <1>15, <2>1, <2>2, TidyNow
<1> QED BY <1>1, <1>2, <1>7, <1>9, <1>12, <1>13, <1>14, <1>15, <1>21, WireKeeps

-----------------------------------------------------------------------------
(* The invariant holds, and what follows from it.                           *)

\* The invariant holds as net_init leaves the machine.
LEMMA InitNet ==
    ASSUME Init
    PROVE  NetInv
<1>0. PICK s : s = [Free EXCEPT !.used = TRUE, !.type = "udp", !.lport = 68]
  OBVIOUS
<1>a. PICK up : peer = [r \in Remote |-> IF r = up THEN PeerStart ELSE [PeerStart EXCEPT !.st = "down"]]
  BY DEF Init
<1>1. /\ s = [Free EXCEPT !.used = TRUE, !.type = "udp", !.lport = 68]
      /\ socks = [fd \in Fds |-> IF fd = 0 THEN s ELSE Free]
  BY <1>0 DEF Init
<1>2. /\ arp = None /\ eph = FirstEphemeral /\ conf.gw = None
      /\ rx = <<>> /\ tx = <<>> /\ call = NoCall
      /\ hist.log = [fd \in Fds |-> <<>>] /\ hist.stored = {} /\ hist.answered = {}
      /\ hist.finned = {} /\ hist.muted = {}
      /\ hist = [log |-> [fd \in Fds |-> <<>>], stored |-> {}, answered |-> {}, finned |-> {},
                 muted |-> {}]
  BY DEF Init
<1>3. s \in Sock /\ s.used /\ s.type = "udp" /\ s.rbuf = <<>> /\ s.rip = None /\ ~s.connected /\ ~s.listening
  <2>1. PICK udp, port : udp = "udp" /\ port = 68
    OBVIOUS
  <2>2. udp \in {None, "tcp", "udp"} /\ port \in Nat
    BY <2>1
  <2>3. s = [[Free EXCEPT !.used = TRUE, !.type = udp] EXCEPT !.lport = port]
    BY <1>1, <2>1
  <2>4. PICK t : t = [Free EXCEPT !.used = TRUE, !.type = udp]
    OBVIOUS
  <2>5. /\ t \in Sock /\ t.used /\ t.type = udp /\ t.rbuf = <<>> /\ t.rip = None
        /\ ~t.connected /\ ~t.listening
    BY <2>2, <2>4, FreeIs DEF Sock
  <2>6. s = [t EXCEPT !.lport = port]
    BY <2>3, <2>4
  <2>7. /\ s \in Sock /\ s.used = t.used /\ s.type = t.type /\ s.rbuf = t.rbuf /\ s.rip = t.rip
        /\ s.connected = t.connected /\ s.listening = t.listening
    BY <2>2, <2>5, <2>6 DEF Sock
  <2> QED BY <2>1, <2>5, <2>7
<1>4. socks \in [Fds -> Sock]
  BY <1>1, <1>3, FreeIs
<1>5. hist \in Hist
  <2>1. [fd \in Fds |-> <<>>] \in [Fds -> Bytes]
    BY EmptyFits
  <2>2. hist.log \in [Fds -> Bytes]
    BY <1>2, <2>1
  <2> QED BY <1>2, <2>2 DEF Hist
<1>6. K \in Kernels
  <2>1. tx \in Seq(Frames)
    BY <1>2
  <2> QED BY <1>2, <1>4, <1>5, <2>1, NamesDiffer DEF K, Kernels
<1>7. Sound(K, eph)
  <2>1. ASSUME NEW d \in Fds PROVE SockOK(K, eph, socks[d])
    <3>1. socks[d] = s \/ socks[d] = Free
      BY <1>1
    <3>2. Free.type = None /\ None # "tcp" /\ s.type # "tcp"
      BY <1>3 DEF Free, None
    <3> QED BY <1>3, <3>1, <3>2, FreeIs, EmptyFits, NamesDiffer DEF SockOK
  <2> QED BY <2>1, KIs DEF Sound
<1>8. ASSUME NEW r \in Remote
      PROVE  /\ peer[r] \in [st: {"closed", "syn", "open", "down"}, port: Nat, una: 0 .. Stream,
                             fly: BOOLEAN]
             /\ PeerOK(K, eph, r, peer[r]) /\ peer[r].port = 0
  <2>1. PICK st : peer[r] = [PeerStart EXCEPT !.st = st] /\ st \in {"closed", "down"}
    <3>1. peer[r] = PeerStart \/ peer[r] = [PeerStart EXCEPT !.st = "down"]
      BY <1>a
    <3>2. PeerStart = [PeerStart EXCEPT !.st = "closed"]
      BY DEF PeerStart
    <3> QED BY <3>1, <3>2
  <2>2. peer[r] = [st |-> st, port |-> 0, una |-> 0, fly |-> FALSE]
    BY <2>1 DEF PeerStart
  <2>3. Told(K.hist, r, peer[r].port, peer[r].una + 1)
    BY <2>2 DEF Told
  <2>4. Stream \in Nat /\ st \notin {"syn", "open"} /\ st \in {"closed", "syn", "open", "down"}
    BY <2>1, NetAssumption
  <2>5. peer[r].st = st /\ peer[r].port = 0 /\ peer[r].una = 0 /\ ~peer[r].fly
    BY <2>2
  <2>6. PeerOK(K, eph, r, peer[r])
    BY <2>3, <2>4, <2>5 DEF PeerOK
  <2> QED BY <2>2, <2>4, <2>5, <2>6
<1>9. peer \in Peers
  BY <1>a, <1>8 DEF Peers
<1>10. rx \in Queue /\ Len(rx) = 0 /\ Len(tx) = 0 /\ K.tx = tx
  BY <1>2 DEF Queue, K
<1>11. Talk(K, rx, peer, eph)
  BY <1>7, <1>8, <1>10 DEF Talk
<1>12. InTurn(K, peer)
  BY <1>10 DEF InTurn
<1>13. CallOK(call, K, eph)
  BY <1>2, NoCallOK
<1>14. eph \in Nat /\ eph >= FirstEphemeral /\ conf.gw \in Hosts
  BY <1>2, NamesDiffer DEF FirstEphemeral
<1>15. ASSUME NEW r \in Remote, NEW p \in Nat PROVE Good(K, rx, peer, r, p)
  <2>1. \A d \in Fds : ~Has(K.socks[d], r, p)
    <3>1. ASSUME NEW d \in Fds PROVE socks[d].rip = None
      BY <1>1, <1>3 DEF Free
    <3> QED BY <3>1, KIs, NamesDiffer DEF Has
  <2>2. PICK Z : Z = 0
    OBVIOUS
  <2>3. Alone(K, r, p) /\ New(K, rx, r, p) /\ Ended(rx, peer, r, p)
    BY <1>10, <2>1 DEF Alone, New, Ended
  <2>4. \A i \in 1 .. Len(rx) : FALSE
    BY <1>10
  <2> QED BY <2>1, <2>3, <2>4 DEF Good
<1>16. Tidy(K, rx, peer)
  BY <1>15 DEF Tidy
<1> QED BY <1>6, <1>9, <1>10, <1>11, <1>12, <1>13, <1>14, <1>16 DEF NetInv

\* Every step keeps it.
LEMMA StepKeeps ==
    ASSUME NetInv, [Next]_vars
    PROVE  NetInv'
<1>1. CASE net_start_dhcp
  BY <1>1, ConfKeeps
<1>2. CASE timer_irq \/ Spin
  BY <1>2, PollingKeeps
<1>3. CASE Calls
  <2>1. CASE net_socket
    BY <2>1, SocketKeeps
  <2>2. CASE net_dns
    BY <2>2, DnsKeeps
  <2>3. CASE net_ping(Lan)
    BY <2>3, PingKeeps
  <2>4. ASSUME NEW fd \in Fds, \/ net_bind(fd, ListenPort) \/ net_listen(fd) \/ net_accept(fd)
                               \/ net_connect(fd, Server) \/ net_recv(fd) \/ net_close(fd)
        PROVE  NetInv'
    BY <2>4, BindKeeps, ListenKeeps, WaitKeeps, ConnectKeeps, CloseKeeps
  <2>5. ASSUME NEW fd \in Fds, NEW n \in 1 .. 2, net_send(fd, n) PROVE NetInv'
    BY <2>5, SendKeeps
  <2>6. ASSUME NEW fd \in Fds, NEW n \in 1 .. 2, RecvReturns(fd, n) PROVE NetInv'
    <3>1. n \in Nat
      OBVIOUS
    <3> QED BY <2>6, <3>1, RecvKeeps
  <2> QED BY <1>3, <2>1, <2>2, <2>3, <2>4, <2>5, <2>6 DEF Calls
<1>4. CASE ConnectSyn
  BY <1>4, ConnectSynKeeps
<1>5. CASE CallReturns
  BY <1>5, ReturnKeeps
<1>6. CASE Deliver
  BY <1>6, DeliverKeeps
<1>7. CASE ClientSyn
  BY <1>7, ClientSynKeeps
<1>8. CASE \E r \in Remote : PeerSends(r)
  BY <1>8, PeerSendsKeeps
<1>9. CASE Visitor
  BY <1>9, VisitorKeeps
<1>10. CASE Lose
  BY <1>10, LoseKeeps
<1>11. CASE Duplicate
  BY <1>11, DuplicateKeeps
<1>12. CASE UNCHANGED vars
  <2>1. UNCHANGED <<socks, arp, eph, conf, rx, tx, peer, hist>> /\ call' = call
    BY <1>12 DEF vars
  <2>2. CallOK(call', K, eph)
    BY <2>1 DEF NetInv
  <2> QED BY <2>1, <2>2, StillKeeps
<1> QED BY <1>1, <1>2, <1>3, <1>4, <1>5, <1>6, <1>7, <1>8, <1>9, <1>10, <1>11, <1>12 DEF Next

\* The inductive invariant: the types; each socket's buffer within its array, each
\* socket, segment and peer of a connection whose port was given out and whose
\* acknowledgements name stored bytes only; SYNs in the order of their ports; and the
\* connections that nothing disturbed in order.
THEOREM NetSound == Spec => []NetInv
BY InitNet, StepKeeps, PTL DEF Spec

\* What a remote host was told has arrived is in hist.stored (TakeData acknowledges
\* what handle_tcp kept, whatever was lost, repeated or cut off), unless a FIN came
\* with data: for every table, buffer, segment and stream.
THEOREM AcksAreHonest == Spec => []AckHonest
<1>1. ASSUME NetInv PROVE AckHonest
  <2>1. ASSUME NEW r \in Remote, NEW i \in 1 .. peer[r].una
        PROVE  <<r, peer[r].port, i>> \in hist.stored \/ <<r, peer[r].port>> \in hist.finned
    <3>1. PICK s : s = peer[r]
      OBVIOUS
    <3>2. Told(hist, r, s.port, s.una + 1) /\ s.una \in 0 .. Stream /\ Stream \in Nat
      BY <1>1, <3>1, PeersOK, NetAssumption DEF PeerOK
    <3>3. i \in 1 .. Stream /\ i < s.una + 1
      BY <3>1, <3>2
    <3> QED BY <3>1, <3>2, <3>3 DEF Told
  <2> QED BY <2>1 DEF AckHonest
<1> QED BY <1>1, NetSound, PTL

\* A socket that handle_tcp or net_connect left connected has a remote end that has
\* sent something to its port.
THEOREM ConnectedAreAnswered == Spec => []ConnectedIsAnswered
<1>1. ASSUME NetInv PROVE ConnectedIsAnswered
  BY <1>1, NowOK, KIs DEF SockOK, ConnectedIsAnswered
<1> QED BY <1>1, NetSound, PTL

\* Without a look at a sequence number, handle_tcp gives a socket the stream from its
\* first byte on without a gap, as long as no frame of the connection was lost on its
\* way out, none came twice or was sent again needlessly, no two sockets took it, and
\* no FIN came with data: for every table, buffer, segment, stream and configuration.
THEOREM StreamInOrder == Spec => []InOrder
<1>1. ASSUME NetInv PROVE InOrder
  <2>1. ASSUME NEW fd \in Fds, socks[fd].rip \in Remote,
               <<socks[fd].rip, socks[fd].lport>> \notin hist.muted \cup hist.finned
        PROVE  \A i \in 1 .. Len(hist.log[fd]) : hist.log[fd][i] = i
    <3>1. PICK r, p : r = socks[fd].rip /\ p = socks[fd].lport
      OBVIOUS
    <3>2. K \in Kernels /\ K.socks = socks /\ K.hist = hist /\ Tidy(K, rx, peer)
      BY <1>1, KIs DEF NetInv
    <3>3. r \in Remote /\ p \in Nat /\ Has(K.socks[fd], r, p) /\ Fine(K, r, p)
      BY <2>1, <3>1, <3>2 DEF Has, Fine, Kernels, Sock
    <3>4. Good(K, rx, peer, r, p)
      BY <3>2, <3>3 DEF Tidy
    <3>5. Listener(K, rx, peer, r, p, fd)
      BY <3>3, <3>4 DEF Good
    <3> QED BY <3>2, <3>5 DEF Listener
  <2> QED BY <2>1 DEF InOrder
<1> QED BY <1>1, NetSound, PTL
=============================================================================
