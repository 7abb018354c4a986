----------------------------- MODULE TcpSockets -----------------------------
(***************************************************************************)
(* The DPDK thread's sockets: the socket map of xy_manage.cc, the three    *)
(* lists of xy_socks.cc and xy_syn_socks.cc, the operations of             *)
(* xy_syn_api.cc and what tcp_recv does with a segment.  One thread runs   *)
(* all of it: an operation of the application reaches it through the queue *)
(* of module EventQueue, so operations and segments are whole steps.       *)
(*                                                                         *)
(* The three lists are sets, of the sockets that have been put in and not  *)
(* taken out; a lookup may take any match.  The same links serve all three *)
(* lists: when the application listens on a connection that a segment has  *)
(* closed, the socket is in two of them (Tangled).  Walking the list of    *)
(* connections then leads from it into the listeners and never back, so a  *)
(* lookup that has found nothing there does not return, and neither does   *)
(* the sending loop, which runs in every turn of lcore_main.  All segments *)
(* carry the address of this host (ip_recv drops the others), so the local *)
(* address of a socket is a port, or Unbound if no segment can match it.   *)
(*                                                                         *)
(* Two pointers that the code never sets are taken to be usable: the ends  *)
(* of the mbuf lists of a TCB and the epoll item of a connection.  A step  *)
(* that never returns, or reaches other memory it should not, ends the     *)
(* behaviour, and a behaviour of Spec may end anywhere: the null socket of *)
(* a SYN when the map is full, the walk of a tangled list.                 *)
(***************************************************************************)
EXTENDS TcpInput

CONSTANTS
    Slots,     \* the entries of __socket_maps
    Peers,     \* remote addresses: an IP address with a port
    Ports,     \* local ports
    FlagSets,  \* the combinations of flags segments come with
    Iss,       \* what rand() gives: a number of 31 bits
    MaxBurst,  \* bound: segments a socket sends in one turn of lcore_main
    Unbound,   \* the local address 0.0.0.0:0 or one of another host
    NoPeer     \* the remote address of a socket without a connection

ASSUME SocketsAssumption ==
    /\ Ports \subseteq Nat
    /\ Unbound \notin Ports
    /\ NoPeer \notin Peers
    /\ Iss \subseteq SeqNum
    /\ MaxBurst \in Nat

VARIABLES
    type,        \* slot -> sock_type
    state,       \* slot -> TCP state
    passive,     \* slot -> made by a SYN, not by xy_socket
    local,       \* slot -> port_src
    remote,      \* slot -> ip_dst and port_dst
    tcb,         \* slot -> struct tcb
    listeners,   \* list_listeners
    syn_recved,  \* list_syn_recved
    established, \* list_established
    ports        \* the bits set in xy_ports_occupied

vars == <<type, state, passive, local, remote, tcb, listeners, syn_recved,
          established, ports>>

socketVars == <<type, passive, local, remote>>
listVars == <<listeners, syn_recved, established>>

\* The acknowledgment number is not read without the bit ACK.
Segments ==
    {g \in [src : Peers, dst : Ports, flags : FlagSets, seq : SeqNum, ack : SeqNum] :
        "ACK" \notin g.flags => g.ack = 0}

\* port_flag_index; port_index_mask is the same for all eight ports of an index.
Bit(p) == p \div 8

Connections == syn_recved \cup established

Linked == listeners \cup Connections

\* The closed connections the application listens on: they are in two lists.
Tangled == listeners \cap Connections

\* A walk of the list comes back to its head.
Intact(l) == l \cap listeners = {}

Unused == {s \in Slots : type[s] = "UNUSED"}

\* xy_get_tcp_socket_by_id does not return NULL.
Tcp(s) == type[s] = "TCP"

Init ==
    /\ type = [s \in Slots |-> "UNUSED"]
    /\ state = [s \in Slots |-> "CLOSE"]
    /\ passive = [s \in Slots |-> FALSE]
    /\ local = [s \in Slots |-> Unbound]
    /\ remote = [s \in Slots |-> NoPeer]
    /\ tcb = [s \in Slots |-> ZeroTcb]
    /\ listeners = {}
    /\ syn_recved = {}
    /\ established = {}
    /\ ports = {}

-----------------------------------------------------------------------------
(***************************************************************************)
(* Operations of the application.  An operation that is refused with an    *)
(* error number changes nothing.                                           *)
(***************************************************************************)

\* xy_syn_socket: the socket is all zero but for its state, CLOSE.
Socket(s) ==
    /\ s \in Unused
    /\ type' = [type EXCEPT ![s] = "TCP"]
    /\ UNCHANGED <<state, passive, local, remote, tcb, listVars, ports>>

\* xy_syn_epoll_create takes a slot of the same map.
EpollCreate(s) ==
    /\ s \in Unused
    /\ type' = [type EXCEPT ![s] = "EPOLL"]
    /\ UNCHANGED <<state, passive, local, remote, tcb, listVars, ports>>

\* Faulty variant: a registered port is taken all the same.
BindTwice(s, p, here) ==
    /\ Tcp(s)
    /\ local' = [local EXCEPT ![s] = IF here THEN p ELSE Unbound]
    /\ ports' = ports \cup {Bit(p)}
    /\ UNCHANGED <<type, state, passive, remote, tcb, listVars>>

\* Faulty variant: the port is not marked.
BindUnmarked(s, p, here) ==
    /\ Tcp(s)
    /\ local' = [local EXCEPT ![s] = IF Bit(p) \in ports \/ ~here THEN Unbound ELSE p]
    /\ UNCHANGED <<type, state, passive, remote, tcb, listVars, ports>>

\* xy_syn_bind, for any socket that has an id, a connection too.  When the
\* port cannot be registered the socket loses its address and the call
\* succeeds.  The address may be the one of another host: the port is
\* registered then and the socket receives nothing.
Bind(s, p, here) ==
    /\ Tcp(s)
    /\ local' = [local EXCEPT ![s] = IF Bit(p) \in ports \/ ~here THEN Unbound ELSE p]
    /\ ports' = ports \cup {Bit(p)}
    /\ UNCHANGED <<type, state, passive, remote, tcb, listVars>>

\* xy_syn_listen looks at the state and not at the lists.
Listen(s) ==
    /\ Tcp(s)
    /\ state[s] = "CLOSE"
    /\ state' = [state EXCEPT ![s] = "LISTEN"]
    /\ listeners' = listeners \cup {s}
    /\ UNCHANGED <<socketVars, tcb, syn_recved, established, ports>>

\* xy_syn_close: the FIN is queued on snd_buf_list.
Close(s) ==
    /\ Tcp(s)
    /\ state[s] = "ESTABLISHED"
    /\ established' = established \ {s}
    /\ state' = [state EXCEPT ![s] = "FIN_WAIT_1"]
    /\ UNCHANGED <<socketVars, tcb, listeners, syn_recved, ports>>

\* Faulty variant: the loop runs over all connections.
SendToAll ==
    /\ \E n \in [Slots -> 0 .. MaxBurst] :
          tcb' = [s \in Slots |->
                    IF passive[s]
                    THEN [tcb[s] EXCEPT !.snd_nxt = Plus(@, n[s])]
                    ELSE tcb[s]]
    /\ UNCHANGED <<socketVars, state, listVars, ports>>

\* established_send_buffers: every segment sent, a retransmission too, takes
\* the next number.
SendBuffers ==
    /\ Intact(established)
    /\ \E n \in [established -> 0 .. MaxBurst] :
          tcb' = [s \in Slots |->
                    IF s \in established
                    THEN [tcb[s] EXCEPT !.snd_nxt = Plus(@, n[s])]
                    ELSE tcb[s]]
    /\ UNCHANGED <<socketVars, state, listVars, ports>>

-----------------------------------------------------------------------------
(***************************************************************************)
(* Segments.                                                               *)
(***************************************************************************)

\* The comparison of the two lookups: the ports of this host are only tested
\* for not being zero.
Matches(s, src, dst) ==
    /\ remote[s] = src
    /\ local[s] \notin {Unbound, 0}
    /\ dst # 0

\* The socket tcp_recv finds for a segment from src to port dst, if any.
Receiver(src, dst) ==
    LET inSyn == {s \in syn_recved : Matches(s, src, dst)}
        inEstablished == {s \in established : Matches(s, src, dst)}
    IN  IF inSyn # {} THEN inSyn
        ELSE IF ~Intact(syn_recved) THEN {}
        ELSE IF inEstablished # {} THEN inEstablished
        ELSE IF ~Intact(established) THEN {}
        ELSE {s \in listeners : local[s] = dst}

\* state_tcp_listen, third check: a connection is made for the SYN.
RecvConnect(g) ==
    /\ "SYN" \in g.flags
    /\ g.flags \cap {"RST", "ACK"} = {}
    /\ \E s \in Receiver(g.src, g.dst) : state[s] = "LISTEN"
    /\ \E t \in Unused, iss \in Iss :
          /\ type' = [type EXCEPT ![t] = "TCP"]
          /\ state' = [state EXCEPT ![t] = "SYN_RECEIVED"]
          /\ passive' = [passive EXCEPT ![t] = TRUE]
          /\ local' = [local EXCEPT ![t] = g.dst]
          /\ remote' = [remote EXCEPT ![t] = g.src]
          /\ tcb' = [tcb EXCEPT ![t] = PassiveTcb(iss, g.seq)]
          /\ syn_recved' = syn_recved \cup {t}
    /\ UNCHANGED <<listeners, established, ports>>

\* The segment goes to state_tcp_otherwise and passes the first check.
Arrives(g, s) ==
    /\ s \in Receiver(g.src, g.dst)
    /\ state[s] \notin {"CLOSE", "LISTEN", "SYN_SENT"}
    /\ Acceptable(tcb[s], g)

\* Faulty variant: the reset connection stays in list_syn_recved.
ResetKeepsLinked(g, s) ==
    /\ "RST" \in g.flags
    /\ Arrives(g, s)
    /\ state' = [state EXCEPT ![s] = ResetState(state[s], passive[s])]
    /\ UNCHANGED <<socketVars, tcb, listVars, ports>>

\* Second check.
RecvReset(g, s) ==
    /\ "RST" \in g.flags
    /\ Arrives(g, s)
    /\ state' = [state EXCEPT ![s] = ResetState(state[s], passive[s])]
    /\ syn_recved' = IF state[s] = "SYN_RECEIVED" /\ passive[s]
                     THEN syn_recved \ {s} ELSE syn_recved
    /\ UNCHANGED <<socketVars, tcb, listeners, established, ports>>

\* Fourth check.
RecvSyn(g, s) ==
    /\ "RST" \notin g.flags
    /\ "SYN" \in g.flags
    /\ Arrives(g, s)
    /\ state' = [state EXCEPT ![s] = "CLOSE"]
    /\ UNCHANGED <<socketVars, tcb, listVars, ports>>

\* Fifth to eighth check.
RecvAck(g, s, n) ==
    /\ "ACK" \in g.flags
    /\ g.flags \cap {"RST", "SYN"} = {}
    /\ Arrives(g, s)
    /\ ~AckRefused(state[s], tcb[s], g.ack)
    /\ LET acked == AckState(state[s], tcb[s], g.ack)
           read == TextTcb(acked, AckTcb(state[s], tcb[s], g.ack), g.seq, n)
           fin == "FIN" \in g.flags
           last == IF fin THEN FinState(acked, read, g.ack) ELSE acked
       IN  /\ state' = [state EXCEPT ![s] = last]
           /\ tcb' = [tcb EXCEPT ![s] = IF fin THEN FinTcb(acked, read, g.seq) ELSE read]
           /\ syn_recved' = IF state[s] = "SYN_RECEIVED"
                            THEN syn_recved \ {s} ELSE syn_recved
           /\ established' = IF fin /\ acked = "ESTABLISHED" THEN established \ {s}
                             ELSE IF state[s] = "SYN_RECEIVED" THEN established \cup {s}
                             ELSE established
    /\ UNCHANGED <<socketVars, listeners, ports>>

-----------------------------------------------------------------------------

Operation ==
    \/ \E s \in Slots :
          \/ Socket(s)
          \/ EpollCreate(s)
          \/ \E p \in Ports, here \in BOOLEAN : Bind(s, p, here)
          \/ Listen(s)
          \/ Close(s)
    \/ SendBuffers

Recv(g) ==
    \/ RecvConnect(g)
    \/ \E s \in Receiver(g.src, g.dst) :
          \/ RecvReset(g, s)
          \/ RecvSyn(g, s)
          \/ \E n \in 1 .. RcvWnd : RecvAck(g, s, n)

Next == Operation \/ \E g \in Segments : Recv(g)

Spec == Init /\ [][Next]_vars

-----------------------------------------------------------------------------
(***************************************************************************)
(* Properties.                                                             *)
(***************************************************************************)

\* Type invariant.
TypeOK ==
    /\ type \in [Slots -> {"UNUSED", "TCP", "EPOLL"}]
    /\ state \in [Slots -> States]
    /\ passive \in [Slots -> BOOLEAN]
    /\ local \in [Slots -> Ports \cup {Unbound}]
    /\ remote \in [Slots -> Peers \cup {NoPeer}]
    /\ tcb \in [Slots -> Tcb]
    /\ listeners \subseteq Slots
    /\ syn_recved \subseteq Slots
    /\ established \subseteq Slots
    /\ ports \subseteq {Bit(p) : p \in Ports}

\* A list fits the states of its sockets and a socket that can still be used is
\* in its list: the assertion of listener_tcp_sock_lookup never fails, a lookup
\* of syn_recved never yields an established connection, nor the other way
\* round.  A connection that a segment has closed stays where it was, and no
\* other socket is ever in two lists, also when the application listens on it.
ListsMatchStates ==
    /\ \A s \in listeners : Tcp(s) /\ state[s] = "LISTEN"
    /\ \A s \in syn_recved \ listeners : Tcp(s) /\ state[s] \in {"SYN_RECEIVED", "CLOSE"}
    /\ \A s \in established \ listeners : Tcp(s) /\ state[s] \in {"ESTABLISHED", "CLOSE"}
    /\ syn_recved \cap established = {}
    /\ \A s \in Slots :
          /\ state[s] = "SYN_RECEIVED" => s \in syn_recved
          /\ state[s] = "ESTABLISHED" => s \in established
          /\ state[s] = "LISTEN" /\ ~passive[s] => s \in listeners

\* Whatever the order of binds, listens and segments, at most one socket with
\* a given local port is the receiver of a segment: duplicated and repeated
\* SYNs never make a second connection for a peer, and no two listeners have
\* the same port.  Two connections of a peer compete only if the application
\* has bound one of them to another port, which the lookup does not compare.
\* Nothing of the kind holds once the application has listened on a closed
\* connection.
LookupUnique ==
    Tangled = {} =>
        \A src \in Peers, dst \in Ports :
            \A s, t \in Receiver(src, dst) : local[s] = local[t] => s = t

\* The connections of a listener keep a port that has been registered, even
\* when the listener or the connection is bound again to another one, as long
\* as nobody listens on a closed connection.
ConnectionsOnRegisteredPorts ==
    Tangled = {} => \A s \in Slots : local[s] # Unbound => Bit(local[s]) \in ports

\* A connection that has left its list has come to rest: no segment, no
\* operation and no turn of the sending loop changes its state or its TCB, and
\* it keeps its peer.
DetachedIsFinal ==
    [][\A s \in Slots :
          passive[s] /\ s \notin Linked =>
              UNCHANGED <<state[s], tcb[s], remote[s]>>]_vars

Distance(a, b) == (b + SeqMod - a) % SeqMod

\* No segment acknowledges a number that has not been sent, and an
\* acknowledgment is never taken back.
AcksOnlySent ==
    [][\A s \in Slots : passive[s] =>
          Distance(tcb[s].snd_una, tcb'[s].snd_una)
              <= Distance(tcb[s].snd_una, tcb[s].snd_nxt)]_vars

-----------------------------------------------------------------------------
(***************************************************************************)
(* The inductive invariant behind ListsMatchStates and LookupUnique.       *)
(***************************************************************************)

\* The connections in the two lists are the ones made by a SYN, and of these
\* only closed ones are listened on; a connection that was closed by a segment
\* has not left its list.
PassiveShape ==
    /\ \A s \in Connections : passive[s]
    /\ \A s \in listeners : passive[s] => s \in Connections
    /\ \A s \in Slots : passive[s] => Tcp(s)
    /\ \A s \in Slots : passive[s] /\ state[s] = "CLOSE" => s \in Connections

\* At most one connection that a lookup can find for each peer and local port.
PeersUnique ==
    Tangled = {} =>
        \A s, t \in Connections :
            /\ local[s] \notin {Unbound, 0}
            /\ local[s] = local[t]
            /\ remote[s] = remote[t]
            => s = t

\* At most one socket of xy_socket for each port.
PortsUnique ==
    Tangled = {} =>
        \A s, t \in Slots :
            ~passive[s] /\ ~passive[t] /\ local[s] = local[t] /\ local[s] # Unbound => s = t

IInv ==
    /\ TypeOK
    /\ ListsMatchStates
    /\ ConnectionsOnRegisteredPorts
    /\ PassiveShape
    /\ PeersUnique
    /\ PortsUnique

=============================================================================
