--------------------------------- MODULE Net ---------------------------------
(* The network stack of kernel/net/net.c: the socket table, the one-entry ARP *)
(* cache, what each kind of frame does to them, the polling loop and the      *)
(* socket calls.  The other side of the wire is modelled from how the frames  *)
(* are used: a host answers ARP, a server and a client speak TCP the plain    *)
(* way (one segment outstanding, sent again after a while, positive acks).    *)
(* Byte i of a remote host's stream has sequence number i, its SYN 0.         *)
EXTENDS Naturals, SequencesExt

CONSTANTS
    NSock,      \* length of socks[]
    BufSize,    \* sizeof(rbuf)
    SegMax,     \* the longest payload of a segment
    PollMax,    \* frames one net_poll handles
    MaxSyn,     \* SYNs one net_connect sends
    Stream,     \* bytes a remote host has to send
    MaxWire,    \* bound: frames under way in one direction
    MaxPort,    \* bound: ephemeral ports given out
    MaxFaults,  \* bound: frames lost, duplicated or needlessly repeated, visits of other
                \* machines, and this one's sends, lookups and pings
    NetConf     \* the lines of /sys/etc/network.conf, as <<key, value>>

ASSUME NetAssumption ==
    /\ {NSock, BufSize, SegMax, PollMax, MaxSyn, Stream, MaxWire, MaxPort, MaxFaults} \subseteq Nat
    /\ NetConf \in Seq(STRING \X STRING)

Fds == 0 .. NSock - 1
Server == "srv"
Client == "cli"
Remote == {Server, Client}      \* hosts behind the gateway
Lan == "lan"                    \* a host of the local network
Gw == "gw"
None == "none"
ListenPort == 1
FirstEphemeral == 2
HostPort == 80
Filler == 0                     \* a byte that nothing depends on
Lo(a, b) == IF a < b THEN a ELSE b

VARIABLES
    socks, arp, eph, conf,
    rx,         \* frames in the used ring that net_poll has not handled
    tx,         \* frames handed to the card that no host has received
    call,       \* the system call that is polling
    peer,       \* the connection state of each remote host
    faults,     \* chance events so far
    hist        \* what has happened, for the properties only

vars == <<socks, arp, eph, conf, rx, tx, call, peer, faults, hist>>

Free == [used |-> FALSE, type |-> None, lport |-> 0, rip |-> None, rport |-> 0,
         listening |-> FALSE, connected |-> FALSE, rbuf |-> <<>>, seq |-> 0, ack |-> 0]
NoCall == [op |-> None, fd |-> 0, syns |-> 0]

\* A TCP frame: "host" is the end that is not this machine, "port" this end's port.
Tcp(host, hport, port, seq, ack, flags, data) ==
    [kind |-> "tcp", host |-> host, hport |-> hport, port |-> port,
     seq |-> seq, ack |-> ack, flags |-> flags, data |-> data]
Arp(op, host) == [kind |-> op, host |-> host, port |-> 0]

\* The kernel's state as the handlers pass it on.
K == [socks |-> socks, arp |-> arp, tx |-> tx, hist |-> hist]

Conn(f) == <<f.host, f.port>>

(****************************** sending a frame *******************************)
\* route_nexthop and the choice of ip_send: a host of the own network is asked
\* for directly, any other through the gateway.
route_nexthop(dst) ==
    IF conf.mask = "set" /\ dst \in {Lan, Gw} THEN dst
    ELSE IF conf.gw # None THEN conf.gw ELSE dst

eth_send(k, f) == [k EXCEPT !.tx = Append(@, f)]
arp_send(k, tip) == eth_send(k, Arp("ask", tip))

\* A packet whose next hop is not in the cache is dropped: the request goes out
\* in its place.
ip_send(k, f) ==
    LET hop == IF k.arp = f.host THEN f.host ELSE route_nexthop(f.host)
    IN IF k.arp = hop THEN eth_send(k, f)
       ELSE [arp_send(k, hop) EXCEPT !.hist.muted = @ \cup {Conn(f)}]

tcp_send_raw(k, fd, flags, data) ==
    LET s == k.socks[fd] IN
    ip_send(k, Tcp(s.rip, s.rport, s.lport, s.seq, s.ack, flags,
                   SubSeq(data, 1, Lo(SegMax, Len(data)))))

udp_send(k, dst, port, data) ==
    ip_send(k, [kind |-> "udp", host |-> dst, port |-> port, data |-> data])

(***************************** handling a frame *******************************)
Listens(s, f) == s.listening /\ s.lport = f.port /\ "SYN" \in f.flags
SpeaksToPort(s, f) == s.lport = f.port       \* mutant: whoever sends it
Speaks(s, f) == s.lport = f.port /\ s.rip = f.host /\ s.rport = f.hport
Takers(k, f) == {fd \in Fds : /\ k.socks[fd].used /\ k.socks[fd].type = "tcp"
                              /\ Listens(k.socks[fd], f) \/ Speaks(k.socks[fd], f)}

\* A SYN for a listening socket, whatever the socket was doing: it takes the new
\* remote end and keeps what is in its buffer.
TakeSyn(k, fd, f) ==
    LET old == k.socks[fd]
        k1 == [k EXCEPT
                 !.socks[fd] = [old EXCEPT !.rip = f.host, !.rport = f.hport, !.seq = 1,
                                           !.ack = f.seq + 1, !.connected = TRUE],
                 !.hist.log[fd] = IF Speaks(old, f) THEN @ ELSE <<>>]
    IN [tcp_send_raw(k1, fd, {"SYN", "ACK"}, <<>>) EXCEPT !.socks[fd].seq = @ + 1]

TakeAck(k, fd, f) ==
    IF {"SYN", "ACK"} \subseteq f.flags
    THEN LET k1 == [k EXCEPT !.socks[fd].ack = f.seq + 1]
         IN [tcp_send_raw(k1, fd, {"ACK"}, <<>>) EXCEPT !.socks[fd].connected = TRUE]
    ELSE IF "ACK" \in f.flags THEN [k EXCEPT !.socks[fd].connected = TRUE] ELSE k

\* What the buffer has no room for is cut off.
Cut(k, fd, f) ==
    [f EXCEPT !.data = SubSeq(@, 1, Lo(Len(@), BufSize - Len(k.socks[fd].rbuf)))]

\* Mutants of TakeData, all of one shape: what it stores and acknowledges.
TakeOr(k, fd, f, pay, ack) ==
    IF f.data = <<>> THEN k
    ELSE tcp_send_raw([k EXCEPT !.socks[fd].rbuf = @ \o SubSeq(f.data, 1, pay),
                                !.socks[fd].ack = f.seq + ack,
                                !.hist.log[fd] = @ \o SubSeq(f.data, 1, pay),
                                !.hist.stored = @ \cup {<<f.host, f.port, f.data[i]>> : i \in 1 .. pay}],
                      fd, {"ACK"}, <<>>)
AckAll(k, fd, f) ==
    TakeOr(k, fd, f, Lo(Len(f.data), BufSize - Len(k.socks[fd].rbuf)), Len(f.data))
AckNothing(k, fd, f) ==
    TakeOr(k, fd, f, Lo(Len(f.data), BufSize - Len(k.socks[fd].rbuf)), 0)

\* What is kept is acknowledged.
TakeData(k, fd, f) ==
    IF f.data = <<>> THEN k
    ELSE LET kept == Cut(k, fd, f).data
             k1 == [k EXCEPT !.socks[fd].rbuf = @ \o kept,
                             !.socks[fd].ack = f.seq + Len(kept),
                             !.hist.log[fd] = IF Conn(f) \in k.hist.muted THEN <<>> ELSE @ \o kept,
                             !.hist.stored = @ \cup {<<f.host, f.port, b>> : b \in ToSet(kept)}]
         IN tcp_send_raw(k1, fd, {"ACK"}, <<>>)

TakeFin(k, fd, f) ==
    IF "FIN" \notin f.flags THEN k
    ELSE LET k1 == [k EXCEPT !.socks[fd].ack = f.seq + 1,
                             !.hist.finned = IF f.data # <<>> THEN @ \cup {Conn(f)} ELSE @]
         IN [tcp_send_raw(k1, fd, {"ACK"}, <<>>) EXCEPT !.socks[fd].connected = FALSE]

\* One socket's turn with the segment: what it cut off, the sockets after it do not
\* see either.
Take(p, fd) ==
    IF fd \notin Takers(p.k, p.f) THEN p
    ELSE IF Listens(p.k.socks[fd], p.f) THEN [p EXCEPT !.k = TakeSyn(p.k, fd, p.f)]
    ELSE [k |-> TakeFin(TakeData(TakeAck(p.k, fd, p.f), fd, p.f), fd, p.f),
          f |-> Cut(p.k, fd, p.f)]

\* Every socket that matches takes the segment, in the order of the table.
handle_tcp(k, f) ==
    LET shared == IF \E a, b \in Takers(k, f) : a # b THEN {Conn(f)} ELSE {}
    IN FoldLeft(Take, [k |-> [k EXCEPT !.hist.muted = @ \cup shared], f |-> f],
                [i \in 1 .. NSock |-> i - 1]).k

handle_udp(k, f) ==
    [k EXCEPT !.socks = [fd \in Fds |->
        LET s == k.socks[fd] IN
        IF ~s.used \/ s.type # "udp" \/ s.lport # f.port THEN s
        ELSE [s EXCEPT !.rbuf = s.rbuf \o SubSeq(f.data, 1, Lo(Len(f.data), BufSize - Len(s.rbuf))),
                       !.rip = f.host, !.rport = 53]]]

handle_icmp(k, f) == ip_send(k, [f EXCEPT !.kind = "pong"])

handle_frame(k, f) ==
    CASE f.kind = "ask" -> eth_send(k, Arp("reply", f.host))
      [] f.kind = "reply" -> [k EXCEPT !.arp = f.host]
      [] f.kind = "ping" -> handle_icmp(k, f)
      [] f.kind = "udp" -> handle_udp(k, f)
      [] f.kind = "tcp" -> handle_tcp(k, f)

Polled(k) == FoldLeft(handle_frame, k, SubSeq(rx, 1, Lo(PollMax, Len(rx))))
Unpolled == SubSeq(rx, Lo(PollMax, Len(rx)) + 1, Len(rx))

Become(k) == socks' = k.socks /\ arp' = k.arp /\ tx' = k.tx /\ hist' = k.hist
Room == Len(tx) < MaxWire
Chance == faults < MaxFaults /\ faults' = faults + 1

(********************************* the calls **********************************)
net_start_dhcp ==
    LET LineOf(key, default) ==
            LET at == {i \in 1 .. Len(NetConf) : NetConf[i][1] = key}
            IN IF at = {} THEN default ELSE NetConf[CHOOSE i \in at : \A j \in at : j <= i][2]
    IN /\ ~conf.ready /\ call = NoCall
       /\ conf' = [ready |-> TRUE, gw |-> LineOf("gw", Gw), mask |-> LineOf("mask", "set")]
       /\ UNCHANGED <<socks, arp, eph, rx, tx, call, peer, faults, hist>>

\* timer_irq: interrupts are off during a system call, so only between calls.
timer_irq ==
    /\ call = NoCall /\ rx # <<>> /\ Room
    /\ \E k \in {Polled(K)} : Become(k)
    /\ rx' = Unpolled
    /\ UNCHANGED <<eph, conf, call, peer, faults>>

\* The programs under src/user/net make their calls in this order: socket and
\* connect, or socket, bind, listen and accept; then send, recv and close.
Idle == call = NoCall /\ conf.ready /\ Room

net_socket ==
    /\ Idle
    /\ \E fd \in Fds :
         /\ ~socks[fd].used /\ \A e \in 0 .. fd - 1 : socks[e].used
         /\ socks' = [socks EXCEPT ![fd] = [Free EXCEPT !.used = TRUE, !.type = "tcp"]]
         /\ hist' = [hist EXCEPT !.log[fd] = <<>>]
    /\ UNCHANGED <<arp, eph, conf, rx, tx, call, peer, faults>>

net_bind(fd, port) ==
    /\ Idle /\ socks[fd].used /\ socks[fd].type = "tcp" /\ socks[fd].lport = 0
    /\ socks' = [socks EXCEPT ![fd].lport = port]
    /\ UNCHANGED <<arp, eph, conf, rx, tx, call, peer, faults, hist>>

net_listen(fd) ==
    /\ Idle /\ socks[fd].used /\ socks[fd].lport = ListenPort /\ ~socks[fd].listening
    /\ socks' = [socks EXCEPT ![fd].listening = TRUE, ![fd].type = "tcp"]
    /\ UNCHANGED <<arp, eph, conf, rx, tx, call, peer, faults, hist>>

\* The loop of net_accept measures its second in timer ticks, and none comes
\* while interrupts are off: it polls until the socket is connected.
net_accept(fd) ==
    /\ Idle /\ socks[fd].listening
    /\ call' = [op |-> "accept", fd |-> fd, syns |-> 0]
    /\ UNCHANGED <<socks, arp, eph, conf, rx, tx, peer, faults, hist>>

net_connect(fd, host) ==
    LET port == IF socks[fd].lport = 0 THEN eph ELSE socks[fd].lport IN
    /\ Idle /\ socks[fd].type = "tcp" /\ socks[fd].lport = 0 /\ port < MaxPort
    /\ eph' = IF socks[fd].lport = 0 THEN eph + 1 ELSE eph
    /\ call' = [op |-> "connect", fd |-> fd, syns |-> 0]
    /\ LET k == [K EXCEPT
                   !.socks[fd] = [@ EXCEPT !.type = "tcp", !.rip = host, !.rport = HostPort,
                                           !.connected = FALSE, !.rbuf = <<>>, !.lport = port,
                                           !.seq = 1, !.ack = 0],
                   !.hist.log[fd] = <<>>]
           hop == route_nexthop(host)
       IN Become(IF arp = hop THEN k ELSE arp_send(k, hop))
    /\ UNCHANGED <<conf, rx, peer, faults>>

\* One round of a polling call.
Spin ==
    /\ call # NoCall /\ rx # <<>> /\ Room
    /\ \E k \in {Polled(K)} : Become(k)
    /\ rx' = Unpolled
    /\ UNCHANGED <<eph, conf, call, peer, faults>>

\* The SYN goes out once the next hop is known, and again every 40 rounds.
ConnectSyn ==
    LET fd == call.fd
        s == [socks[fd] EXCEPT !.seq = 1, !.ack = 0]
        k == tcp_send_raw([K EXCEPT !.socks[fd] = s], fd, {"SYN"}, <<>>)
    IN /\ call.op = "connect" /\ ~socks[fd].connected /\ Room
       /\ arp = route_nexthop(s.rip) \/ call.syns > 0
       /\ call.syns < MaxSyn
       /\ call' = [call EXCEPT !.syns = @ + 1]
       /\ Become([k EXCEPT !.socks[fd] = [socks[fd] EXCEPT !.seq = 2]])
       /\ UNCHANGED <<eph, conf, rx, peer, faults>>

\* accept and connect return when the socket is connected; connect gives up when
\* its next hop does not answer or its rounds are over.
CallReturns ==
    /\ \/ call.op \in {"accept", "connect"} /\ socks[call.fd].connected
       \/ call.op = "connect" /\ call.syns = MaxSyn
       \/ call.op = "connect" /\ call.syns = 0 /\ arp # route_nexthop(socks[call.fd].rip)
    /\ call' = NoCall
    /\ UNCHANGED <<socks, arp, eph, conf, rx, tx, peer, faults, hist>>

\* The sequence number moves by n although no more than a segment goes out, and
\* nothing is kept to be sent again.
net_send(fd, n) ==
    /\ Idle /\ socks[fd].rip \in Remote /\ Chance /\ rx' = Unpolled
    /\ \E k \in {Polled(K)} :
         Become([tcp_send_raw(k, fd, {"ACK", "PSH"}, [i \in 1 .. n |-> Filler])
                   EXCEPT !.socks[fd].seq = @ + n])
    /\ UNCHANGED <<eph, conf, call, peer>>

\* The loop polls while the socket is connected and its buffer empty, 20000 times
\* at most; then what there is is moved out.
net_recv(fd) ==
    /\ Idle /\ socks[fd].used /\ socks[fd].rbuf = <<>> /\ socks[fd].connected
    /\ call' = [op |-> "recv", fd |-> fd, syns |-> 0]
    /\ UNCHANGED <<socks, arp, eph, conf, rx, tx, peer, faults, hist>>

RecvReturns(fd, n) ==
    /\ \/ Idle /\ socks[fd].rip \in Remote /\ (socks[fd].rbuf # <<>> \/ ~socks[fd].connected)
       \/ call.op = "recv" /\ call.fd = fd
    /\ socks' = [socks EXCEPT ![fd].rbuf = SubSeq(@, Lo(n, Len(@)) + 1, Len(@))]
    /\ call' = NoCall
    /\ UNCHANGED <<arp, eph, conf, rx, tx, peer, faults, hist>>

\* A FIN goes out if the socket is connected; the peer's answer is not waited for.
net_close(fd) ==
    /\ Idle /\ socks[fd].type = "tcp"
    /\ LET k == IF socks[fd].type = "tcp" /\ socks[fd].connected
                THEN tcp_send_raw(K, fd, {"FIN", "ACK"}, <<>>) ELSE K
       IN Become([k EXCEPT !.socks[fd] = Free])
    /\ UNCHANGED <<eph, conf, rx, call, peer, faults>>

\* A lookup: a socket, the question, and the answer read at once: net_recv does
\* not wait on a socket that is not connected.
net_dns ==
    /\ Idle /\ eph < MaxPort /\ Chance /\ rx' = Unpolled
    /\ \E fd \in Fds :
         /\ ~socks[fd].used /\ \A e \in 0 .. fd - 1 : socks[e].used
         /\ LET open == [Free EXCEPT !.used = TRUE, !.type = "udp", !.lport = eph,
                                     !.rip = Gw, !.rport = 53]
            IN \E k \in {Polled([K EXCEPT !.socks[fd] = open])} :
                 LET asked == udp_send(k, Gw, eph, <<Filler>>)
                 IN Become([asked EXCEPT
                      !.socks[fd].used = FALSE])
    /\ eph' = eph + 1
    /\ UNCHANGED <<conf, call, peer>>

\* Four requests of the address, polled for; no echo is sent.
net_ping(host) ==
    /\ Idle /\ Chance /\ rx' = Unpolled
    /\ \E k \in {Polled(arp_send(K, host))} : Become(k)
    /\ UNCHANGED <<eph, conf, call, peer>>

(**************************** the rest of the network *************************)
PeerStart == [st |-> "closed", port |-> 0, una |-> 0, fly |-> FALSE]
Arrive(f) == Len(rx) < MaxWire /\ rx' = Append(rx, f)
Kernel == <<socks, arp, eph, conf, call>>
FromPeer(r, flags, seq, data) == Tcp(r, HostPort, peer[r].port, seq, 1, flags, data)

Quiet(r) == \A f \in ToSet(rx) \cup ToSet(tx) : Conn(f) # <<r, peer[r].port>>

\* A host's answer to a frame: to an ARP request its address, to a question a datagram.
Answer(f) ==
    /\ f.kind \in {"ask", "udp"} /\ f.host \in {Gw, Lan}
    /\ Arrive(IF f.kind = "ask" THEN Arp("reply", f.host) ELSE [f EXCEPT !.data = <<Filler>>])
    /\ UNCHANGED <<peer, hist>>

\* A server takes or refuses a connection; it may have taken it before.
Accepts(f) ==
    /\ f.kind = "tcp" /\ f.flags = {"SYN"} /\ f.host = Server
    /\ peer[Server].st # "down"
    /\ \/ /\ peer[Server].st = "closed" \/ peer[Server].port # f.port
          /\ peer' = [peer EXCEPT ![Server] = [PeerStart EXCEPT !.st = "open", !.port = f.port]]
          /\ Arrive(Tcp(Server, HostPort, f.port, 0, 2, {"SYN", "ACK"}, <<>>))
          /\ hist' = [hist EXCEPT !.answered = @ \cup {Conn(f)}]
       \/ /\ peer[Server].st = "closed"
          /\ Arrive(Tcp(Server, HostPort, f.port, 0, 2, {"RST", "ACK"}, <<>>))
          /\ hist' = [hist EXCEPT !.answered = @ \cup {Conn(f)}]
          /\ UNCHANGED peer
       \/ /\ peer[Server].st = "open" /\ peer[Server].port = f.port
          /\ Arrive(Tcp(Server, HostPort, f.port, 0, 2, {"SYN", "ACK"}, <<>>))
          /\ UNCHANGED <<peer, hist>>

\* A remote host takes an acknowledgement: the bytes before it need not be kept.
Acked(f) ==
    LET r == f.host
        una == Lo(Stream, IF f.ack > peer[r].una + 1 THEN f.ack - 1 ELSE peer[r].una)
    IN /\ f.kind = "tcp" /\ r \in Remote /\ "ACK" \in f.flags
       /\ peer[r].st \in {"open", "syn"} /\ peer[r].port = f.port
       /\ peer' = [peer EXCEPT ![r].una = una, ![r].st = "open",
                               ![r].fly = @ /\ una = peer[r].una]
       /\ IF "SYN" \in f.flags \/ f.data # <<>>
          THEN Arrive(FromPeer(r, {"ACK"}, 0, <<>>))
          ELSE UNCHANGED rx
       /\ UNCHANGED hist

Deliver ==
    /\ tx # <<>>
    /\ \/ Answer(Head(tx)) \/ Accepts(Head(tx)) \/ Acked(Head(tx))
       \/ /\ Head(tx).kind \in {"reply", "pong"} \/ Head(tx).host = None
          /\ UNCHANGED <<rx, peer, hist>>
       \/ /\ Head(tx).kind = "tcp" /\ Head(tx).host # None
          /\ Head(tx).flags # {"SYN"}
          /\ peer[Head(tx).host].port # Head(tx).port
          /\ UNCHANGED <<rx, peer, hist>>
       \/ /\ Head(tx).host \in Remote /\ peer[Head(tx).host].st = "down"
          /\ UNCHANGED <<rx, peer, hist>>
    /\ tx' = Tail(tx)
    /\ UNCHANGED <<Kernel, faults>>

\* A client calls: its SYN, again if it has had no answer.
ClientSyn ==
    /\ \/ peer[Client].st = "closed" /\ UNCHANGED faults
       \/ peer[Client].st = "syn" /\ Chance
    /\ peer' = [peer EXCEPT ![Client] = [PeerStart EXCEPT !.st = "syn", !.port = ListenPort]]
    /\ Arrive(Tcp(Client, HostPort, ListenPort, 0, 0, {"SYN"}, <<>>))
    /\ hist' = [hist EXCEPT !.answered = @ \cup {<<Client, ListenPort>>}]
    /\ UNCHANGED <<Kernel, tx>>

\* A segment from the first byte that is not acknowledged, with the FIN on the last
\* bytes or alone; or one more when no answer came, which is needless while the
\* first or its answer is still under way.
PeerSends(r) ==
    /\ peer[r].st = "open"
    /\ \/ (~peer[r].fly \/ Quiet(r)) /\ UNCHANGED <<faults, hist>>
       \/ /\ peer[r].fly /\ ~Quiet(r) /\ Chance
          /\ hist' = [hist EXCEPT !.muted = @ \cup {<<r, peer[r].port>>}]
    /\ \E n \in 0 .. Lo(SegMax, Stream - peer[r].una), fin \in BOOLEAN :
         /\ fin => peer[r].una + n = Stream
         /\ n > 0 \/ fin
         /\ Arrive(FromPeer(r, IF fin THEN {"ACK", "FIN"} ELSE {"ACK"}, peer[r].una + 1,
                            [i \in 1 .. n |-> peer[r].una + i]))
    /\ peer' = [peer EXCEPT ![r].fly = TRUE]
    /\ UNCHANGED <<Kernel, tx>>

\* Another machine asks for this one's address, or pings it.
Visitor ==
    /\ rx = <<>> /\ Chance
    /\ \E f \in {Arp("ask", Lan), Arp("ping", Lan)} : Arrive(f)
    /\ UNCHANGED <<Kernel, tx, peer, hist>>

Touch(f) == hist' = [hist EXCEPT !.muted = @ \cup {Conn(f)}]
\* A frame is lost on the wire, or finds its receiver without a free buffer.
Lose ==
    /\ \/ tx # <<>> /\ tx' = Tail(tx) /\ Touch(Head(tx)) /\ UNCHANGED rx
          /\ (Chance \/ (Len(rx) = MaxWire /\ UNCHANGED faults))
       \/ rx # <<>> /\ rx' = Tail(rx) /\ Chance /\ UNCHANGED <<tx, hist>>
    /\ UNCHANGED <<Kernel, peer>>
Duplicate ==
    /\ Chance
    /\ rx # <<>> /\ Arrive(Head(rx)) /\ Touch(Head(rx))
    /\ UNCHANGED <<Kernel, tx, peer>>

(****************************** the specification *****************************)
Init ==
    \* net_init takes socket 0 for a DHCP client that never runs.
    /\ socks = [fd \in Fds |-> IF fd = 0 THEN [Free EXCEPT !.used = TRUE, !.type = "udp", !.lport = 68]
                               ELSE Free]
    /\ arp = None /\ eph = FirstEphemeral
    /\ conf = [ready |-> FALSE, gw |-> None, mask |-> None]
    /\ rx = <<>> /\ tx = <<>> /\ call = NoCall
    \* One of the remote hosts is up.
    /\ \E up \in Remote : peer = [r \in Remote |-> IF r = up THEN PeerStart ELSE [PeerStart EXCEPT !.st = "down"]]
    /\ faults = 0
    /\ hist = [log |-> [fd \in Fds |-> <<>>],
               stored |-> {}, answered |-> {}, finned |-> {},
               muted |-> {}]

Calls ==
    \/ net_socket
    \/ \E fd \in Fds :
         \/ net_bind(fd, ListenPort) \/ net_listen(fd) \/ net_accept(fd)
         \/ net_connect(fd, Server)
         \/ \E n \in 1 .. 2 : net_send(fd, n) \/ RecvReturns(fd, n)
         \/ net_recv(fd) \/ net_close(fd)
    \/ net_dns \/ net_ping(Lan)

Next ==
    \/ net_start_dhcp \/ timer_irq \/ Calls
    \/ Spin \/ ConnectSyn \/ CallReturns
    \/ Deliver \/ ClientSyn \/ (\E r \in Remote : PeerSends(r)) \/ Visitor \/ Lose \/ Duplicate

\* What a remote host was told has arrived has been put into a socket's buffer
\* (TakeData acknowledges what it kept, not what was sent), whatever is lost,
\* repeated or cut off.  A FIN that came with data is the exception.
AckHonest ==
    \A r \in Remote : \A i \in 1 .. peer[r].una :
        \/ <<r, peer[r].port, i>> \in hist.stored
        \/ <<r, peer[r].port>> \in hist.finned

\* Nothing checks sequence numbers, and yet: as long as no frame of a connection
\* was lost after the data in it was taken, none came twice, and no FIN came with
\* data, a socket has been given the stream from its first byte on without a gap.
InOrder ==
    \A fd \in Fds :
        LET s == socks[fd] IN
        s.rip \in Remote /\ <<s.rip, s.lport>> \notin hist.muted \cup hist.finned =>
            \A i \in 1 .. Len(hist.log[fd]) : hist.log[fd][i] = i

\* A connected socket's remote end has sent something to its port.
ConnectedIsAnswered ==
    \A fd \in Fds :
        socks[fd].connected => <<socks[fd].rip, socks[fd].lport>> \in hist.answered

Spec == Init /\ [][Next]_vars
=============================================================================
