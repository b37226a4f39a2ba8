------------------------------- MODULE Network -------------------------------
(***************************************************************************)
(* The network stack (kernel/src/net) under the ping command: Ethernet,    *)
(* ARP with its cache and its blocking resolution, IPv4 next-hop choice,   *)
(* ICMP echo.  The stack runs on the caller's thread and nests: ping sends *)
(* its request, which may wait for ARP, which polls, which may process an  *)
(* echo request, whose reply may wait for ARP, which polls again ...  The  *)
(* variable `stack' is that chain of activations, innermost first.         *)
(*                                                                         *)
(* Frames are records of what the handlers look at.  Frames the parsers    *)
(* refuse (length, checksum, another destination) and UDP datagrams, for   *)
(* which the kernel never binds a port, are one kind, "other", that has no *)
(* effect.  The wire loses, delays, reorders and repeats frames.  Time is  *)
(* counted in ticks of the waiting loops' clocks.                          *)
(***************************************************************************)
EXTENDS Naturals, Sequences, FiniteSets

CONSTANTS Local,             \* hosts on the subnet
          Remote,            \* hosts behind the gateway
          Gateway,           \* one of Local
          ARP_CACHE_SIZE, RX_QUEUE_CAPACITY,
          ATTEMPTS,          \* ARP requests per resolution (4 in the code)
          PINGS,             \* echo requests per ping command (4 in the code)
          TICKS,             \* ticks a loop waits before it gives up
          Ups,               \* sets of hosts that may be up
          Unasked,           \* frames hosts may send unasked
          DEPTH, UNASKED,    \* bounds: they come while the chain of activations and the
                             \* frames waiting in the device are shorter than this
          SEQUENCES,         \* bound: ping commands start up to this sequence number
          RING               \* bound: frames waiting in the device

ASSUME NetworkAssumption ==
    /\ Gateway \in Local /\ ARP_CACHE_SIZE \in Nat \ {0} /\ RX_QUEUE_CAPACITY \in Nat
    /\ PINGS \in Nat
    /\ \A f \in Unasked : /\ f.kind \in {"arp_request", "arp_reply"} => f.src \in Local
                          /\ f.kind = "echo_request" => f.src \in Local \cup Remote

VARIABLES stack, cache, ping_reply, icmp_seq, rxq,
          ring,              \* frames in the device's used ring
          air,               \* frames on their way to this host
          up,                \* hosts that answer
          learned,           \* ghost: the last mapping each host announced
          echoes,            \* ghost: per host, echo requests taken in and not answered
          outcome            \* ghost: what the last step ended with

vars == <<stack, cache, ping_reply, icmp_seq, rxq, ring, air, up,
          learned, echoes, outcome>>

Hosts == Local \cup Remote
None == <<>>                       \* no MAC
NoReply == [kind |-> "none"]
Invalid == [valid |-> FALSE]

ArpReply(h) == [kind |-> "arp_reply", src |-> h, mac |-> <<h, 1>>]
EchoReply(h, n) == [kind |-> "echo_reply", src |-> h, seq |-> n]

-----------------------------------------------------------------------------
\* The ARP cache.
lookup(c, ip) == IF \E i \in DOMAIN c : c[i].valid /\ c[i].ip = ip
                 THEN c[CHOOSE i \in DOMAIN c :
                          /\ c[i].valid /\ c[i].ip = ip
                          /\ \A j \in 1..(i - 1) : ~(c[j].valid /\ c[j].ip = ip)].mac
                 ELSE None

\* Mutant: the host's own entry is not looked for.
Slot_any(c, ip) ==
    LET free == {i \in DOMAIN c : ~c[i].valid}
    IN  IF free # {} THEN CHOOSE i \in free : \A j \in free : i <= j ELSE 1

\* insert: the entry of ip, else the first free slot, else slot 0 (1 here).
Slot(c, ip) ==
    LET mine == {i \in DOMAIN c : c[i].valid /\ c[i].ip = ip}
        free == {i \in DOMAIN c : ~c[i].valid}
        ours == IF mine # {} THEN mine ELSE free
    IN  IF ours # {} THEN CHOOSE i \in ours : \A j \in ours : i <= j ELSE 1
insert(c, ip, mac) == [c EXCEPT ![Slot(c, ip)] = [valid |-> TRUE, ip |-> ip, mac |-> mac]]

\* ipv4::send's next hop.
next_hop(dst) == IF dst \in Local THEN dst ELSE Gateway

-----------------------------------------------------------------------------
\* Activations.  A waiting loop polls, then checks; `ms' is its clock.
Resolve(dst, pkt, seq) == [f |-> "resolve", ip |-> next_hop(dst), dst |-> dst, pkt |-> pkt,
                           seq |-> seq, attempt |-> 1, ms |-> 0, pc |-> "poll"]
Ping(seq) == [f |-> "ping", seq |-> seq, ms |-> 0, pc |-> "poll"]
Pause == [f |-> "pause", ms |-> 0, pc |-> "poll"]
Cmd(dst) == [f |-> "cmd", dst |-> dst, i |-> 0]

Top == Head(stack)
Running(f) == stack # <<>> /\ Top.f = f
Waits(r) == r.f \in {"resolve", "ping", "pause"}
WithTop(r) == <<r>> \o Tail(stack)

Init == /\ stack = <<>> /\ cache = [i \in 1..ARP_CACHE_SIZE |-> Invalid]
        /\ ping_reply = NoReply /\ icmp_seq = 1 /\ rxq = <<>>
        /\ ring = <<>> /\ air = {} /\ up \in Ups
        /\ learned = [h \in Local |-> None] /\ echoes = [h \in Hosts |-> 0] /\ outcome = "none"

\* The wire's answers to what is sent: a broadcast ARP request, and an IPv4
\* frame to the MAC of its next hop.
Asked(ip) == IF ip \in up THEN {ArpReply(ip)} ELSE {}
Carried(pkt, dst, seq) == IF pkt = "echo_request" /\ dst \in up THEN {EchoReply(dst, seq)} ELSE {}

\* A packet leaves for the MAC of its next hop, or is given up: what the ghost
\* of echo requests loses when it was the answer to one.
Settled(e, pkt, dst) == IF pkt = "echo_reply" THEN [e EXCEPT ![dst] = @ - 1] ELSE e

\* ipv4::send from ping or from a handler: the packet goes out when the next
\* hop is in the cache; otherwise an ARP request goes out and the caller waits
\* in resolve_blocking.  `rest' is the caller's stack, `then' what runs on it
\* afterwards, `e' the echo requests outstanding.
send(dst, pkt, seq, rest, then, e) ==
    IF lookup(cache, next_hop(dst)) # None
    THEN /\ air' = air \cup Carried(pkt, dst, seq) /\ stack' = then \o rest
         /\ echoes' = Settled(e, pkt, dst)
    ELSE /\ air' = air \cup Asked(next_hop(dst)) /\ stack' = <<Resolve(dst, pkt, seq)>> \o rest
         /\ echoes' = e

-----------------------------------------------------------------------------
\* The ping command: PINGS times ping, with a pause between two.
cmd_ping == /\ stack = <<>> /\ icmp_seq <= SEQUENCES
            /\ \E dst \in Hosts : stack' = <<Cmd(dst)>>
            /\ outcome' = "none"
            /\ UNCHANGED <<cache, ping_reply, icmp_seq, rxq, ring, air, up,
                           learned, echoes>>

\* ping up to its loop: the sequence number, the old reply cleared, the
\* request sent.  The clock starts when send_echo_request has returned.
ping == /\ Running("cmd") /\ Top.i < PINGS
        /\ icmp_seq' = icmp_seq + 1 /\ ping_reply' = NoReply
        /\ send(Top.dst, "echo_request", icmp_seq, WithTop([Top EXCEPT !.i = @ + 1]),
                <<Ping(icmp_seq)>>, echoes)
        /\ outcome' = "none"
        /\ UNCHANGED <<cache, rxq, ring, up, learned>>

cmd_done == /\ Running("cmd") /\ Top.i = PINGS /\ stack' = <<>> /\ outcome' = "none"
            /\ UNCHANGED <<cache, ping_reply, icmp_seq, rxq, ring, air, up,
                           learned, echoes>>

\* net::poll: the driver's ring into its queue (what does not fit is lost);
\* then the loop over recv_frame, one action per frame.
Kept(all) == IF Len(all) <= RX_QUEUE_CAPACITY THEN all ELSE SubSeq(all, 1, RX_QUEUE_CAPACITY)
poll == /\ stack # <<>> /\ Waits(Top) /\ Top.pc = "poll"
        /\ rxq' = Kept(rxq \o ring) /\ ring' = <<>>
        /\ stack' = <<[f |-> "poll"]>> \o WithTop([Top EXCEPT !.pc = "check"])
        /\ outcome' = "none"
        /\ UNCHANGED <<cache, ping_reply, icmp_seq, air, up, learned, echoes>>
poll_end == /\ Running("poll") /\ rxq = <<>> /\ stack' = Tail(stack) /\ outcome' = "none"
            /\ UNCHANGED <<cache, ping_reply, icmp_seq, rxq, ring, air, up,
                           learned, echoes>>

\* process_arp: the sender is learned from every packet; a request for this
\* host is answered at once, to the sender's own MAC.
process_arp(f) ==
    /\ cache' = insert(cache, f.src, f.mac) /\ learned' = [learned EXCEPT ![f.src] = f.mac]
    /\ UNCHANGED <<stack, ping_reply, air, echoes>>

\* process_icmp: a request is answered through ipv4::send, inside the loop; a
\* reply replaces whatever reply is stored.
process_icmp(f) ==
    /\ UNCHANGED <<cache, learned>>
    /\ \/ /\ f.kind = "echo_reply" /\ ping_reply' = f
          /\ UNCHANGED <<stack, air, echoes>>
       \/ /\ f.kind = "echo_request" /\ ping_reply' = ping_reply
          /\ send(f.src, "echo_reply", 0, stack, <<>>, [echoes EXCEPT ![f.src] = @ + 1])

process_frame == /\ Running("poll") /\ rxq # <<>>
                 /\ rxq' = Tail(rxq)
                 /\ CASE Head(rxq).kind \in {"arp_request", "arp_reply"} -> process_arp(Head(rxq))
                      [] Head(rxq).kind \in {"echo_request", "echo_reply"} -> process_icmp(Head(rxq))
                      [] OTHER -> UNCHANGED <<stack, cache, ping_reply, air, learned, echoes>>
                 /\ outcome' = "none"
                 /\ UNCHANGED <<icmp_seq, ring, up>>

-----------------------------------------------------------------------------
\* resolve_blocking after a poll: the cache first, then the clock, then the
\* next attempt or the end.  Its caller's packet goes out, or is dropped; the
\* ping it was for starts waiting either way.
After == IF Top.pkt = "echo_request" THEN <<Ping(Top.seq)>> \o Tail(stack) ELSE Tail(stack)

resolve_found == /\ lookup(cache, Top.ip) # None
                 /\ air' = air \cup Carried(Top.pkt, Top.dst, Top.seq) /\ stack' = After
                 /\ echoes' = Settled(echoes, Top.pkt, Top.dst) /\ outcome' = "sent"
resolve_wait == /\ lookup(cache, Top.ip) = None /\ Top.ms <= TICKS
                /\ stack' = WithTop([Top EXCEPT !.pc = "poll"])
                /\ outcome' = "none" /\ UNCHANGED <<air, echoes>>

\* Mutant: the attempts are not counted.
resolve_retry_uncounted ==
                 /\ lookup(cache, Top.ip) = None /\ Top.ms > TICKS /\ Top.attempt < ATTEMPTS
                 /\ stack' = WithTop([Top EXCEPT !.pc = "poll", !.ms = 0])
                 /\ air' = air \cup Asked(Top.ip) /\ outcome' = "none" /\ echoes' = echoes

resolve_retry == /\ lookup(cache, Top.ip) = None /\ Top.ms > TICKS /\ Top.attempt < ATTEMPTS
                 /\ stack' = WithTop([Top EXCEPT !.pc = "poll", !.attempt = @ + 1, !.ms = 0])
                 /\ air' = air \cup Asked(Top.ip) /\ outcome' = "none" /\ echoes' = echoes

\* Mutant: the clock is looked at before the cache.
GivesUp_clock == Top.ms > TICKS /\ Top.attempt = ATTEMPTS

GivesUp == lookup(cache, Top.ip) = None /\ Top.ms > TICKS /\ Top.attempt = ATTEMPTS
resolve_fail == /\ GivesUp
                /\ stack' = After /\ outcome' = "gave_up" /\ air' = air
                /\ echoes' = Settled(echoes, Top.pkt, Top.dst)
resolve == /\ Running("resolve") /\ Top.pc = "check"
           /\ resolve_found \/ resolve_wait \/ resolve_retry \/ resolve_fail
           /\ UNCHANGED <<cache, ping_reply, icmp_seq, rxq, ring, up, learned>>

\* ping's loop after a poll: a stored reply, whichever it is, ends the wait;
\* otherwise the clock does.  Then cmd_ping pauses or stops (what it counts is
\* only printed).
Pinged == (IF Head(Tail(stack)).i < PINGS THEN <<Pause>> ELSE <<>>) \o Tail(stack)
ping_check == /\ Running("ping") /\ Top.pc = "check"
              /\ \/ ping_reply # NoReply /\ stack' = Pinged /\ outcome' = "reply"
                 \/ ping_reply = NoReply /\ Top.ms > TICKS /\ stack' = Pinged /\ outcome' = "timeout"
                 \/ ping_reply = NoReply /\ Top.ms <= TICKS
                    /\ stack' = WithTop([Top EXCEPT !.pc = "poll"]) /\ outcome' = "none"
              /\ ping_reply' = NoReply
              /\ UNCHANGED <<cache, icmp_seq, rxq, ring, air, up, learned, echoes>>
pause_check == /\ Running("pause") /\ Top.pc = "check"
               /\ stack' = IF Top.ms > TICKS THEN Tail(stack)
                                              ELSE WithTop([Top EXCEPT !.pc = "poll"])
               /\ outcome' = "none"
               /\ UNCHANGED <<cache, ping_reply, icmp_seq, rxq, ring, air, up, learned,
                              echoes>>

-----------------------------------------------------------------------------
\* The clock every waiting loop reads, and the wire (external).  Clocks stop
\* counting once past the limit.
Tick == /\ stack # <<>>
        /\ stack' = [k \in DOMAIN stack |->
                        IF Waits(stack[k]) /\ stack[k].ms <= TICKS
                        THEN [stack[k] EXCEPT !.ms = @ + 1] ELSE stack[k]]
        /\ outcome' = "none"
        /\ UNCHANGED <<cache, ping_reply, icmp_seq, rxq, ring, air, up, learned, echoes>>

\* Frames reach the device's ring: answers from the wire, perhaps more than
\* once, and what hosts send unasked.  Only poll reads the ring, so arrivals
\* are placed just before a poll.  Frames that never arrive are lost.
Arrives(f) == /\ stack # <<>> /\ Waits(Top) /\ Top.pc = "poll"
              /\ Len(ring) < RING /\ ring' = Append(ring, f) /\ outcome' = "none"
              /\ UNCHANGED <<stack, cache, ping_reply, icmp_seq, rxq, up, learned, echoes>>
Deliver == \E f \in air : Arrives(f) /\ air' = air \ {f}
Unbidden == /\ Len(stack) < DEPTH /\ Len(ring) < UNASKED /\ air' = air
            /\ \E f \in Unasked \cup air : Arrives(f)

Step == \/ ping \/ cmd_done \/ poll \/ poll_end \/ process_frame
        \/ resolve \/ ping_check \/ pause_check
Next == cmd_ping \/ Step \/ Tick \/ Deliver \/ Unbidden

\* The thread runs and the timer ticks; nothing is assumed of the wire.
Fairness == WF_vars(Step) /\ WF_vars(Tick)
Spec == Init /\ [][Next]_vars /\ Fairness

-----------------------------------------------------------------------------
\* The cache answers with what the host announced last or not at all: entries
\* are updated in place, an evicted host has no second, older entry.
LatestMapping == \A h \in Local : lookup(cache, h) \in {None, learned[h]}

\* Every echo request taken in is answered or given up exactly once, whatever
\* the depth of nested resolutions it was taken in at: what is outstanding is
\* exactly the replies waiting on the stack.
EchoesAnsweredOnce ==
    \A h \in Hosts : echoes[h] =
        Cardinality({k \in DOMAIN stack : /\ stack[k].f = "resolve" /\ stack[k].dst = h
                                          /\ stack[k].pkt = "echo_reply"})

\* A wait that ends without an answer had none: a resolution gives up only if
\* no ARP packet of the host was ever taken in, at whatever depth of nested
\* polls and however late, unless a full cache gave its place away; a ping
\* times out only if no reply lies there.
AnswerBeatsTimeoutStep ==
  /\ outcome' = "gave_up" => \/ learned[Head(stack).ip] = None
                             \/ \A i \in DOMAIN cache : cache[i] # Invalid
  /\ outcome' = "timeout" => ping_reply = NoReply

\* The three together: what the stack promises the ping command.
NetworkFaithful == [](LatestMapping /\ EchoesAnsweredOnce) /\ [][AnswerBeatsTimeoutStep]_vars

\* The ping command comes to an end whatever the wire loses or repeats and though
\* uninvited frames never cease, as long as they do not reach the loops nested
\* beyond DEPTH: every loop's own clock goes on under the resolutions it has to
\* wait for.  (The code has no DEPTH: see README, section 6.)
PingReturns == (stack # <<>>) ~> (stack = <<>>)

\* The reply a ping reports is the reply to its own request.  Not so: see
\* README, section 6.
ReplyIsMine == [][outcome' = "reply" => ping_reply.seq = Head(stack).seq]_vars

\* Resolutions nest at most one deep.  Not so: see README, section 6.
NotNested == Cardinality({k \in DOMAIN stack : stack[k].f = "resolve"}) <= 1
=============================================================================
