-------------------------- MODULE TcpSocketsProofs --------------------------
(***************************************************************************)
(* Proofs about TcpSockets for any number of slots, peers and ports and    *)
(* any size of the sequence numbers: the lists fit the states, a segment   *)
(* has at most one receiver for each local port until somebody listens on  *)
(* a closed connection, a connection that has left its list has come to    *)
(* rest, and no acknowledgment moves snd_una beyond what was sent.         *)
(*                                                                         *)
(* The lemmas on TcpInput come first, then what is known of the receiver   *)
(* of a segment, then a lemma for each action with one step for each part  *)
(* of IInv.                                                                *)
(***************************************************************************)
EXTENDS TcpSockets, TLAPS

\* Unsigned addition stays among the sequence numbers.
LEMMA PlusSeq ==
  ASSUME NEW a \in SeqNum, NEW n \in Nat
  PROVE  Plus(a, n) \in SeqNum
  BY SeqAssumption DEF Plus, SeqNum

\* What an acknowledgment, a text and a FIN do to a TCB leaves a TCB.
LEMMA TcbTypes ==
  ASSUME NEW k \in Tcb, NEW st \in States, NEW a \in SeqNum, NEW q \in SeqNum, NEW n \in Nat
  PROVE  /\ AckTcb(st, k, a) \in Tcb
         /\ TextTcb(st, k, q, n) \in Tcb
         /\ FinTcb(st, k, q) \in Tcb
<1>1. Plus(q, n) \in SeqNum /\ Plus(q, 1) \in SeqNum
  BY PlusSeq
<1>2. \A v \in SeqNum :
         /\ [k EXCEPT !.snd_una = v] \in Tcb
         /\ [k EXCEPT !.rcv_nxt = v] \in Tcb
  BY DEF Tcb
<1>3. QED
  BY <1>1, <1>2 DEF AckTcb, TextTcb, FinTcb

\* So does sending n segments.
LEMMA NextNumberType ==
  ASSUME NEW k \in Tcb, NEW n \in Nat
  PROVE  [k EXCEPT !.snd_nxt = Plus(@, n)] \in Tcb
  BY PlusSeq DEF Tcb

\* A connection made for a SYN has a TCB of the right type.
LEMMA PassiveTcbType ==
  ASSUME NEW iss \in SeqNum, NEW q \in SeqNum
  PROVE  PassiveTcb(iss, q) \in Tcb
  BY PlusSeq DEF PassiveTcb, Tcb

\* The receiver of a segment is a socket.
LEMMA ReceiverIsSlot ==
  ASSUME IInv, NEW src, NEW dst
  PROVE  Receiver(src, dst) \subseteq Slots
  BY DEF IInv, TypeOK, Receiver

\* A segment that reaches state_tcp_otherwise has found a connection that is in
\* the one list its state calls for.
LEMMA ArrivesAtConnection ==
  ASSUME IInv, NEW g \in Segments, NEW s \in Slots, Arrives(g, s)
  PROVE  /\ s \in Connections
         /\ passive[s]
         /\ \/ state[s] = "SYN_RECEIVED" /\ s \in syn_recved \ established
            \/ state[s] = "ESTABLISHED" /\ s \in established \ syn_recved
<1>1. s \in syn_recved \cup established \cup listeners
  BY DEF Arrives, Receiver
<1>2. state[s] \notin {"CLOSE", "LISTEN"}
  BY DEF Arrives
<1>3. ListsMatchStates /\ PassiveShape
  BY DEF IInv
<1>4. s \in Connections
  BY <1>1, <1>2, <1>3 DEF ListsMatchStates, Connections
<1>5. QED
  BY <1>2, <1>3, <1>4 DEF ListsMatchStates, PassiveShape, Connections

\* An acknowledgment establishes its connection or, with a FIN, takes it out of
\* its list, whatever the numbers of the segment are.
LEMMA AckAtConnection ==
  ASSUME IInv, NEW g \in Segments, NEW s \in Slots, NEW n \in 1 .. RcvWnd, RecvAck(g, s, n)
  PROVE  /\ state' = [state EXCEPT ![s] = IF "FIN" \in g.flags THEN "CLOSE_WAIT" ELSE "ESTABLISHED"]
         /\ syn_recved' = syn_recved \ {s}
         /\ established' = IF "FIN" \in g.flags THEN established \ {s} ELSE established \cup {s}
         /\ tcb' \in [Slots -> Tcb]
         /\ UNCHANGED <<type, passive, local, remote, listeners, ports>>
<1> DEFINE k1 == AckTcb(state[s], tcb[s], g.ack)
           k2 == TextTcb("ESTABLISHED", k1, g.seq, n)
<1>1. Arrives(g, s)
  BY DEF RecvAck
<1>2. \/ state[s] = "SYN_RECEIVED" /\ s \in syn_recved \ established
      \/ state[s] = "ESTABLISHED" /\ s \in established \ syn_recved
  BY <1>1, ArrivesAtConnection
<1>3. AckState(state[s], tcb[s], g.ack) = "ESTABLISHED"
  BY <1>2 DEF AckState
<1>4. FinState("ESTABLISHED", k2, g.ack) = "CLOSE_WAIT"
  BY DEF FinState
<1>5. n \in Nat /\ g.ack \in SeqNum /\ g.seq \in SeqNum /\ tcb[s] \in Tcb /\ state[s] \in States
      /\ "ESTABLISHED" \in States /\ tcb \in [Slots -> Tcb]
  BY SeqAssumption DEF Segments, IInv, TypeOK, States, SeqNum
<1>6. k1 \in Tcb
  BY <1>5, TcbTypes
<1>7. k2 \in Tcb /\ FinTcb("ESTABLISHED", k2, g.seq) \in Tcb
  BY <1>5, <1>6, TcbTypes
<1>8. tcb' = [tcb EXCEPT ![s] = IF "FIN" \in g.flags THEN FinTcb("ESTABLISHED", k2, g.seq) ELSE k2]
  BY <1>3 DEF RecvAck
<1>9. tcb' \in [Slots -> Tcb]
  BY <1>5, <1>7, <1>8
<1>10. state' = [state EXCEPT ![s] = IF "FIN" \in g.flags THEN "CLOSE_WAIT" ELSE "ESTABLISHED"]
  BY <1>3, <1>4 DEF RecvAck
<1>11. syn_recved' = syn_recved \ {s}
  BY <1>2 DEF RecvAck
<1>12. established' = IF "FIN" \in g.flags THEN established \ {s} ELSE established \cup {s}
  BY <1>2, <1>3 DEF RecvAck
<1>13. QED
  BY <1>9, <1>10, <1>11, <1>12 DEF RecvAck, socketVars

(***************************************************************************)
(* One lemma for each action.                                              *)
(***************************************************************************)

LEMMA SocketStep ==
  ASSUME IInv, NEW s \in Slots, Socket(s)
  PROVE  IInv'
<1>0. Tangled' = {} => Tangled = {}
  BY DEF Socket, Tangled, Connections, listVars
<1>1. TypeOK'
  BY DEF Socket, IInv, TypeOK, listVars
<1>2. ListsMatchStates'
  BY DEF Socket, IInv, ListsMatchStates, Tcp, listVars
<1>3. ConnectionsOnRegisteredPorts'
  BY <1>0 DEF Socket, IInv, ConnectionsOnRegisteredPorts
<1>4. PassiveShape'
  BY DEF Socket, IInv, PassiveShape, Connections, Tcp, listVars
<1>5. PeersUnique'
  BY <1>0 DEF Socket, IInv, PeersUnique, Connections, listVars
<1>6. PortsUnique'
  BY <1>0 DEF Socket, IInv, PortsUnique
<1>7. QED
  BY <1>1, <1>2, <1>3, <1>4, <1>5, <1>6 DEF IInv

LEMMA EpollCreateStep ==
  ASSUME IInv, NEW s \in Slots, EpollCreate(s)
  PROVE  IInv'
<1>0. Tangled' = {} => Tangled = {}
  BY DEF EpollCreate, Tangled, Connections, listVars
<1>1. TypeOK'
  BY DEF EpollCreate, IInv, TypeOK, listVars
<1>2. ListsMatchStates'
  BY DEF EpollCreate, IInv, ListsMatchStates, Unused, Tcp, listVars
<1>3. ConnectionsOnRegisteredPorts'
  BY <1>0 DEF EpollCreate, IInv, ConnectionsOnRegisteredPorts
<1>4. PassiveShape'
  BY DEF EpollCreate, IInv, PassiveShape, Connections, Unused, Tcp, listVars
<1>5. PeersUnique'
  BY <1>0 DEF EpollCreate, IInv, PeersUnique, Connections, listVars
<1>6. PortsUnique'
  BY <1>0 DEF EpollCreate, IInv, PortsUnique
<1>7. QED
  BY <1>1, <1>2, <1>3, <1>4, <1>5, <1>6 DEF IInv

LEMMA BindStep ==
  ASSUME IInv, NEW s \in Slots, NEW p \in Ports, NEW here \in BOOLEAN, Bind(s, p, here)
  PROVE  IInv'
<1>0. Tangled' = {} => Tangled = {}
  BY DEF Bind, Tangled, Connections, listVars
<1>1. TypeOK'
  BY DEF Bind, IInv, TypeOK, listVars
<1>2. ListsMatchStates'
  BY DEF Bind, IInv, ListsMatchStates, Tcp, listVars
<1>3. ConnectionsOnRegisteredPorts'
  BY <1>0 DEF Bind, IInv, ConnectionsOnRegisteredPorts
<1>4. PassiveShape'
  BY DEF Bind, IInv, PassiveShape, Connections, Tcp, listVars
<1>5. PeersUnique'
  <2>1. SUFFICES ASSUME Tangled' = {}, NEW t \in Connections', NEW u \in Connections',
                        local'[t] \notin {Unbound, 0}, local'[t] = local'[u],
                        remote'[t] = remote'[u], t # u
                 PROVE  FALSE
    BY DEF PeersUnique
  <2>2. Tangled = {} /\ t \in Connections /\ u \in Connections /\ t \in Slots /\ u \in Slots
    BY <1>0, <2>1 DEF Bind, IInv, TypeOK, Connections, listVars
  <2>3. \A v \in Slots : local[v] # Unbound => Bit(local[v]) \in ports
    BY <2>2 DEF IInv, ConnectionsOnRegisteredPorts
  <2>4. CASE t # s /\ u # s
    BY <2>1, <2>2, <2>4 DEF Bind, IInv, TypeOK, PeersUnique
  <2>5. CASE t = s \/ u = s
    BY <2>1, <2>2, <2>3, <2>5 DEF Bind, IInv, TypeOK
  <2>6. QED
    BY <2>4, <2>5
<1>6. PortsUnique'
  BY <1>0 DEF Bind, IInv, ConnectionsOnRegisteredPorts, PortsUnique
<1>7. QED
  BY <1>1, <1>2, <1>3, <1>4, <1>5, <1>6 DEF IInv

LEMMA ListenStep ==
  ASSUME IInv, NEW s \in Slots, Listen(s)
  PROVE  IInv'
<1>0. Tangled' = {} => Tangled = {}
  BY DEF Listen, Tangled, Connections
<1>1. TypeOK'
  BY DEF Listen, IInv, TypeOK, States, socketVars
<1>2. ListsMatchStates'
  BY DEF Listen, IInv, TypeOK, ListsMatchStates, Linked, Tcp, socketVars
<1>3. ConnectionsOnRegisteredPorts'
  BY <1>0 DEF Listen, IInv, ConnectionsOnRegisteredPorts, socketVars
<1>4. PassiveShape'
  BY DEF Listen, IInv, PassiveShape, Connections, Linked, Tcp, socketVars
<1>5. PeersUnique'
  BY <1>0 DEF Listen, IInv, PeersUnique, Connections, socketVars
<1>6. PortsUnique'
  BY <1>0 DEF Listen, IInv, PortsUnique, socketVars
<1>7. QED
  BY <1>1, <1>2, <1>3, <1>4, <1>5, <1>6 DEF IInv

LEMMA CloseStep ==
  ASSUME IInv, NEW s \in Slots, Close(s)
  PROVE  IInv'
<1>0. Tangled' = {} => Tangled = {}
  BY DEF Close, IInv, ListsMatchStates, Tangled, Connections
<1>1. TypeOK'
  BY DEF Close, IInv, TypeOK, States, socketVars
<1>2. ListsMatchStates'
  BY DEF Close, IInv, TypeOK, ListsMatchStates, Tcp, socketVars
<1>3. ConnectionsOnRegisteredPorts'
  BY <1>0 DEF Close, IInv, ConnectionsOnRegisteredPorts, socketVars
<1>4. PassiveShape'
  BY DEF Close, IInv, TypeOK, ListsMatchStates, PassiveShape, Connections, Tcp, socketVars
<1>5. PeersUnique'
  BY <1>0 DEF Close, IInv, PeersUnique, Connections, socketVars
<1>6. PortsUnique'
  BY <1>0 DEF Close, IInv, PortsUnique, socketVars
<1>7. QED
  BY <1>1, <1>2, <1>3, <1>4, <1>5, <1>6 DEF IInv

LEMMA SendBuffersStep ==
  ASSUME IInv, SendBuffers
  PROVE  IInv'
<1>a. tcb' \in [Slots -> Tcb]
  <2>1. PICK m \in [established -> 0 .. MaxBurst] :
          tcb' = [s \in Slots |->
                    IF s \in established
                    THEN [tcb[s] EXCEPT !.snd_nxt = Plus(@, m[s])]
                    ELSE tcb[s]]
    BY DEF SendBuffers
  <2>2. \A s \in Slots : tcb[s] \in Tcb
    BY DEF IInv, TypeOK
  <2>3. \A s \in established : m[s] \in Nat
    BY SocketsAssumption
  <2>4. \A s \in established \cap Slots : [tcb[s] EXCEPT !.snd_nxt = Plus(@, m[s])] \in Tcb
    BY <2>2, <2>3, NextNumberType
  <2>5. QED
    BY <2>1, <2>2, <2>4
<1>0. Tangled' = {} => Tangled = {}
  BY DEF SendBuffers, Tangled, Connections, listVars
<1>1. TypeOK'
  BY <1>a DEF SendBuffers, IInv, TypeOK, socketVars, listVars
<1>2. ListsMatchStates'
  BY DEF SendBuffers, IInv, ListsMatchStates, Tcp, socketVars, listVars
<1>3. ConnectionsOnRegisteredPorts'
  BY <1>0 DEF SendBuffers, IInv, ConnectionsOnRegisteredPorts, socketVars
<1>4. PassiveShape'
  BY DEF SendBuffers, IInv, PassiveShape, Connections, Tcp, socketVars, listVars
<1>5. PeersUnique'
  BY <1>0 DEF SendBuffers, IInv, PeersUnique, Connections, socketVars, listVars
<1>6. PortsUnique'
  BY <1>0 DEF SendBuffers, IInv, PortsUnique, socketVars
<1>7. QED
  BY <1>1, <1>2, <1>3, <1>4, <1>5, <1>6 DEF IInv

LEMMA RecvConnectStep ==
  ASSUME IInv, NEW g \in Segments, RecvConnect(g)
  PROVE  IInv'
<1>0. Tangled' = {} => Tangled = {}
  BY DEF RecvConnect, Tangled, Connections
<1>l. Tangled = {} =>
        /\ \E l \in listeners : local[l] = g.dst
        /\ \A s \in Connections : ~(remote[s] = g.src /\ local[s] = g.dst /\ local[s] \notin {Unbound, 0})
  <2>1. SUFFICES ASSUME Tangled = {}
                 PROVE  /\ \E l \in listeners : local[l] = g.dst
                        /\ \A s \in Connections :
                              ~(remote[s] = g.src /\ local[s] = g.dst /\ local[s] \notin {Unbound, 0})
    OBVIOUS
  <2>2. PICK l \in Receiver(g.src, g.dst) : state[l] = "LISTEN"
    BY DEF RecvConnect
  <2>3. l \notin Connections
    BY <2>1, <2>2 DEF IInv, ListsMatchStates, Tangled, Connections
  <2>4. /\ l \in listeners /\ local[l] = g.dst
        /\ {s \in syn_recved : Matches(s, g.src, g.dst)} = {}
        /\ {s \in established : Matches(s, g.src, g.dst)} = {}
    BY <2>2, <2>3 DEF Receiver, Connections
  <2>5. QED
    BY <2>4 DEF Matches, Connections
<1>1. TypeOK'
  BY SocketsAssumption, PassiveTcbType
  DEF RecvConnect, IInv, TypeOK, Unused, States, Segments
<1>2. ListsMatchStates'
  BY DEF RecvConnect, IInv, TypeOK, ListsMatchStates, Unused, Tcp
<1>3. ConnectionsOnRegisteredPorts'
  BY <1>0, <1>l DEF RecvConnect, IInv, TypeOK, ConnectionsOnRegisteredPorts
<1>4. PassiveShape'
  BY DEF RecvConnect, IInv, TypeOK, ListsMatchStates, PassiveShape,
         Connections, Unused, Tcp
<1>5. PeersUnique'
  BY <1>0, <1>l DEF RecvConnect, IInv, TypeOK, ListsMatchStates, PeersUnique,
         Connections, Unused, Tcp
<1>6. PortsUnique'
  BY <1>0 DEF RecvConnect, IInv, TypeOK, PortsUnique
<1>7. QED
  BY <1>1, <1>2, <1>3, <1>4, <1>5, <1>6 DEF IInv

LEMMA RecvResetStep ==
  ASSUME IInv, NEW g \in Segments, NEW s \in Slots, RecvReset(g, s)
  PROVE  IInv'
<1>0. Tangled' = {} => Tangled = {}
  BY ArrivesAtConnection
  DEF RecvReset, IInv, ListsMatchStates, Tangled, Connections
<1>1. TypeOK'
  BY DEF RecvReset, IInv, TypeOK, States, ResetState, socketVars
<1>2. ListsMatchStates'
  BY ArrivesAtConnection
  DEF RecvReset, IInv, TypeOK, ListsMatchStates, Tcp, ResetState, socketVars
<1>3. ConnectionsOnRegisteredPorts'
  BY <1>0 DEF RecvReset, IInv, ConnectionsOnRegisteredPorts, socketVars
<1>4. PassiveShape'
  BY ArrivesAtConnection
  DEF RecvReset, IInv, TypeOK, ListsMatchStates, PassiveShape, Connections, Tcp, ResetState, socketVars
<1>5. PeersUnique'
  BY <1>0 DEF RecvReset, IInv, PeersUnique, Connections, socketVars
<1>6. PortsUnique'
  BY <1>0 DEF RecvReset, IInv, PortsUnique, socketVars
<1>7. QED
  BY <1>1, <1>2, <1>3, <1>4, <1>5, <1>6 DEF IInv

LEMMA RecvSynStep ==
  ASSUME IInv, NEW g \in Segments, NEW s \in Slots, RecvSyn(g, s)
  PROVE  IInv'
<1>0. Tangled' = {} => Tangled = {}
  BY DEF RecvSyn, Tangled, Connections, listVars
<1>1. TypeOK'
  BY DEF RecvSyn, IInv, TypeOK, States, socketVars, listVars
<1>2. ListsMatchStates'
  BY ArrivesAtConnection
  DEF RecvSyn, IInv, ListsMatchStates, Tcp, socketVars, listVars
<1>3. ConnectionsOnRegisteredPorts'
  BY <1>0 DEF RecvSyn, IInv, ConnectionsOnRegisteredPorts, socketVars
<1>4. PassiveShape'
  BY ArrivesAtConnection
  DEF RecvSyn, IInv, PassiveShape, Connections, Tcp, socketVars, listVars
<1>5. PeersUnique'
  BY <1>0 DEF RecvSyn, IInv, PeersUnique, Connections, socketVars, listVars
<1>6. PortsUnique'
  BY <1>0 DEF RecvSyn, IInv, PortsUnique, socketVars
<1>7. QED
  BY <1>1, <1>2, <1>3, <1>4, <1>5, <1>6 DEF IInv

LEMMA RecvAckStep ==
  ASSUME IInv, NEW g \in Segments, NEW s \in Slots, NEW n \in 1 .. RcvWnd, RecvAck(g, s, n)
  PROVE  IInv'
<1>a. s \in Connections /\ passive[s]
  BY ArrivesAtConnection DEF RecvAck
<1>b. /\ state' = [state EXCEPT ![s] = IF "FIN" \in g.flags THEN "CLOSE_WAIT" ELSE "ESTABLISHED"]
      /\ syn_recved' = syn_recved \ {s}
      /\ established' = IF "FIN" \in g.flags THEN established \ {s} ELSE established \cup {s}
      /\ tcb' \in [Slots -> Tcb]
      /\ UNCHANGED <<type, passive, local, remote, listeners, ports>>
  BY AckAtConnection
<1>c. s \notin listeners
  BY ArrivesAtConnection DEF RecvAck, IInv, ListsMatchStates
<1>0. Tangled' = {} => Tangled = {}
  BY <1>a, <1>b, <1>c DEF Tangled, Connections
<1>1. TypeOK'
  BY <1>a, <1>b DEF IInv, TypeOK, States
<1>2. ListsMatchStates'
  BY <1>a, <1>b, <1>c DEF IInv, TypeOK, ListsMatchStates, PassiveShape, Tcp
<1>3. ConnectionsOnRegisteredPorts'
  BY <1>0, <1>a, <1>b DEF IInv, ConnectionsOnRegisteredPorts
<1>4. PassiveShape'
  BY <1>a, <1>b, <1>c DEF IInv, TypeOK, PassiveShape, Connections, Tcp
<1>5. PeersUnique'
  BY <1>0, <1>a, <1>b DEF IInv, PeersUnique, Connections
<1>6. PortsUnique'
  BY <1>0, <1>a, <1>b DEF IInv, PortsUnique
<1>7. QED
  BY <1>1, <1>2, <1>3, <1>4, <1>5, <1>6 DEF IInv

(***************************************************************************)
(* The invariant.                                                          *)
(***************************************************************************)

LEMMA InitIInv == Init => IInv
<1>1. SUFFICES ASSUME Init
               PROVE  IInv
  OBVIOUS
<1>2. ZeroTcb \in Tcb
  BY SeqAssumption DEF ZeroTcb, Tcb, SeqNum
<1>3. TypeOK
  BY <1>1, <1>2 DEF Init, TypeOK, States
<1>4. ListsMatchStates /\ ConnectionsOnRegisteredPorts
  BY <1>1 DEF Init, ListsMatchStates, ConnectionsOnRegisteredPorts
<1>5. PassiveShape /\ PeersUnique /\ PortsUnique
  BY <1>1 DEF Init, PassiveShape, PeersUnique, PortsUnique, Connections
<1>6. QED
  BY <1>3, <1>4, <1>5 DEF IInv

LEMMA NextStep ==
  ASSUME IInv, [Next]_vars
  PROVE  IInv'
<1>1. CASE UNCHANGED vars
  BY <1>1
  DEF vars, listVars, IInv, TypeOK, ListsMatchStates, ConnectionsOnRegisteredPorts,
      PassiveShape, PeersUnique, PortsUnique, Tangled, Connections, Tcp
<1>2. CASE Operation
  BY <1>2, SocketStep, EpollCreateStep, BindStep, ListenStep, CloseStep, SendBuffersStep
  DEF Operation
<1>3. ASSUME NEW g \in Segments, Recv(g)
      PROVE  IInv'
  BY <1>3, ReceiverIsSlot, RecvConnectStep, RecvResetStep, RecvSynStep, RecvAckStep DEF Recv
<1>4. QED
  BY <1>1, <1>2, <1>3 DEF Next

\* IInv holds in every reachable state, for any number of slots, peers and
\* ports and any size of the sequence numbers.
THEOREM Invariance == Spec => []IInv
<1>1. Init => IInv
  BY InitIInv
<1>2. IInv /\ [Next]_vars => IInv'
  BY NextStep
<1>3. QED
  BY <1>1, <1>2, PTL DEF Spec

\* Every variable keeps to its type; the sequence numbers stay in their range.
THEOREM TypeCorrect == Spec => []TypeOK
<1>1. IInv => TypeOK
  BY DEF IInv
<1>2. QED
  BY <1>1, Invariance, PTL

\* Every socket is in the one list its state calls for, a closed connection that
\* is listened on in two: the assertion of listener_tcp_sock_lookup cannot fail.
THEOREM ListsMatch == Spec => []ListsMatchStates
<1>1. IInv => ListsMatchStates
  BY DEF IInv
<1>2. QED
  BY <1>1, Invariance, PTL

\* No two sockets with the same local port compete for a segment, as long as
\* no closed connection is listened on (xy_syn_listen does not exclude it).
THEOREM ReceiverIsUnique == Spec => []LookupUnique
<1>1. IInv => LookupUnique
  <2>1. SUFFICES ASSUME IInv, Tangled = {}, NEW src \in Peers, NEW dst \in Ports,
                        NEW s \in Receiver(src, dst), NEW t \in Receiver(src, dst),
                        local[s] = local[t]
                 PROVE  s = t
    BY DEF LookupUnique
  <2>2. CASE /\ s \in Connections /\ Matches(s, src, dst)
             /\ t \in Connections /\ Matches(t, src, dst)
    BY <2>1, <2>2 DEF IInv, PeersUnique, Matches
  <2>3. CASE /\ s \in listeners /\ local[s] = dst
             /\ t \in listeners /\ local[t] = dst
    <3>1. ~passive[s] /\ ~passive[t]
      BY <2>1, <2>3 DEF IInv, PassiveShape, Tangled
    <3>2. QED
      BY <2>1, <2>3, <3>1, SocketsAssumption DEF IInv, TypeOK, PortsUnique
  <2>4. QED
    BY <2>1, <2>2, <2>3 DEF Receiver, Connections
<1>2. QED
  BY <1>1, Invariance, PTL

\* Every local port in use is marked in xy_ports_occupied, with the same proviso.
THEOREM PortsAreRegistered == Spec => []ConnectionsOnRegisteredPorts
<1>1. IInv => ConnectionsOnRegisteredPorts
  BY DEF IInv
<1>2. QED
  BY <1>1, Invariance, PTL

(***************************************************************************)
(* A connection in none of the lists is final.                             *)
(***************************************************************************)

LEMMA DetachedStep ==
  ASSUME IInv, [Next]_vars, NEW d \in Slots, passive[d], d \notin Linked
  PROVE  UNCHANGED <<state[d], tcb[d], remote[d]>>
<1>1. Tcp(d) /\ state[d] \notin {"CLOSE", "ESTABLISHED"}
  BY DEF IInv, ListsMatchStates, PassiveShape, Linked, Connections
<1>2. IInv /\ TypeOK
  BY DEF IInv
<1>3. ASSUME NEW s \in Slots, Socket(s) \/ EpollCreate(s)
      PROVE  UNCHANGED <<state, tcb, remote>>
  BY <1>3 DEF Socket, EpollCreate
<1>4. ASSUME NEW s \in Slots, NEW p \in Ports, NEW here \in BOOLEAN, Bind(s, p, here)
      PROVE  UNCHANGED <<state[d], tcb[d], remote[d]>>
  BY <1>2, <1>4 DEF Bind, TypeOK
<1>5. ASSUME NEW s \in Slots, Listen(s) \/ Close(s)
      PROVE  UNCHANGED <<state[d], tcb[d], remote[d]>>
  BY <1>1, <1>2, <1>5 DEF Listen, Close, TypeOK, socketVars
<1>6. CASE SendBuffers
  BY <1>2, <1>6 DEF SendBuffers, TypeOK, socketVars, Linked, Connections
<1>7. ASSUME NEW g \in Segments, RecvConnect(g)
      PROVE  UNCHANGED <<state[d], tcb[d], remote[d]>>
  BY <1>1, <1>2, <1>7 DEF RecvConnect, Unused, Tcp, TypeOK
<1>8. ASSUME NEW g \in Segments, NEW s \in Slots, RecvReset(g, s) \/ RecvSyn(g, s)
      PROVE  UNCHANGED <<state[d], tcb[d], remote[d]>>
  <2>1. s # d
    BY <1>2, <1>8, ArrivesAtConnection DEF RecvReset, RecvSyn, Linked, Connections
  <2>2. QED
    BY <1>2, <1>8, <2>1 DEF RecvReset, RecvSyn, TypeOK, socketVars
<1>9. ASSUME NEW g \in Segments, NEW s \in Slots, NEW n \in 1 .. RcvWnd, RecvAck(g, s, n)
      PROVE  UNCHANGED <<state[d], tcb[d], remote[d]>>
  <2>1. s # d
    BY <1>2, <1>9, ArrivesAtConnection DEF RecvAck, Linked, Connections
  <2>2. QED
    BY <1>2, <1>9, <2>1 DEF RecvAck, TypeOK, socketVars
<1>10. CASE UNCHANGED vars
  BY <1>10 DEF vars
<1>11. QED
  BY ReceiverIsSlot, <1>3, <1>4, <1>5, <1>6, <1>7, <1>8, <1>9, <1>10
  DEF Next, Operation, Recv

\* A connection that has left its list keeps its state, its TCB and its peer: one
\* that is closed on either side waits for ever (state_tcp_otherwise,
\* xy_syn_close).  Only xy_bind can still change its address.
THEOREM DetachedConnectionIsFinal == Spec => DetachedIsFinal
<1>1. IInv /\ [Next]_vars =>
        [\A s \in Slots :
            passive[s] /\ s \notin Linked =>
              UNCHANGED <<state[s], tcb[s], remote[s]>>]_vars
  BY DetachedStep
<1>2. QED
  BY <1>1, Invariance, PTL DEF Spec, DetachedIsFinal

(***************************************************************************)
(* Acknowledgments.                                                        *)
(***************************************************************************)

LEMMA DistanceForward ==
  ASSUME NEW a \in SeqNum, NEW b \in SeqNum, a <= b
  PROVE  Distance(a, b) = b - a
  BY SeqAssumption DEF Distance, SeqNum

LEMMA DistanceNat ==
  ASSUME NEW a \in SeqNum, NEW b \in SeqNum
  PROVE  Distance(a, b) \in Nat
  BY SeqAssumption DEF Distance, SeqNum

\* tcp_ack_window_update moves snd_una inside what has been sent, or not at all.
LEMMA AckTcbInSent ==
  ASSUME NEW k \in Tcb, NEW st \in States, NEW ack \in SeqNum
  PROVE  Distance(k.snd_una, AckTcb(st, k, ack).snd_una) <= Distance(k.snd_una, k.snd_nxt)
<1>1. k.snd_una \in SeqNum /\ k.snd_nxt \in SeqNum
  BY DEF Tcb
<1>2. CASE AckTcb(st, k, ack) = k
  <2>1. Distance(k.snd_una, k.snd_una) = 0
    BY <1>1, DistanceForward DEF SeqNum
  <2>2. QED
    BY <1>1, <1>2, <2>1, DistanceNat
<1>3. CASE AckTcb(st, k, ack) # k
  <2>1. k.snd_una < ack /\ ack <= k.snd_nxt /\ AckTcb(st, k, ack) = [k EXCEPT !.snd_una = ack]
    BY <1>3 DEF AckTcb
  <2>2. AckTcb(st, k, ack).snd_una = ack
    BY <2>1 DEF Tcb
  <2>3. Distance(k.snd_una, ack) = ack - k.snd_una
    BY <1>1, <2>1, DistanceForward DEF SeqNum
  <2>4. Distance(k.snd_una, k.snd_nxt) = k.snd_nxt - k.snd_una
    BY <1>1, <2>1, DistanceForward DEF SeqNum
  <2>5. QED
    BY <1>1, <2>1, <2>2, <2>3, <2>4 DEF SeqNum
<1>4. QED
  BY <1>2, <1>3

LEMMA TextAndFinKeepUna ==
  ASSUME NEW k \in Tcb, NEW st \in States, NEW q \in SeqNum, NEW n \in Nat
  PROVE  /\ TextTcb(st, k, q, n).snd_una = k.snd_una
         /\ FinTcb(st, k, q).snd_una = k.snd_una
  BY DEF TextTcb, FinTcb, Tcb

LEMMA AckStepInSent ==
  ASSUME IInv, [Next]_vars, NEW c \in Slots, passive[c]
  PROVE  Distance(tcb[c].snd_una, tcb'[c].snd_una) <= Distance(tcb[c].snd_una, tcb[c].snd_nxt)
<1>1. /\ tcb \in [Slots -> Tcb] /\ tcb[c].snd_una \in SeqNum /\ tcb[c].snd_nxt \in SeqNum
      /\ state \in [Slots -> States] /\ Tcp(c)
  BY DEF IInv, TypeOK, PassiveShape, Tcb
<1>2. SUFFICES ASSUME tcb'[c].snd_una # tcb[c].snd_una
               PROVE  Distance(tcb[c].snd_una, tcb'[c].snd_una)
                        <= Distance(tcb[c].snd_una, tcb[c].snd_nxt)
  <2>1. Distance(tcb[c].snd_una, tcb[c].snd_una) = 0
    BY <1>1, DistanceForward DEF SeqNum
  <2>2. QED
    BY <1>1, <1>2, <2>1, DistanceNat
<1>3. CASE Operation
  <2>1. tcb'[c].snd_una = tcb[c].snd_una
    BY <1>1, <1>3
    DEF Operation, Socket, EpollCreate, Bind, Listen, Close, SendBuffers, Tcb
  <2>2. QED
    BY <1>2, <2>1
<1>4. ASSUME NEW g \in Segments, RecvConnect(g)
      PROVE  FALSE
  BY <1>1, <1>2, <1>4 DEF RecvConnect, Unused, Tcp
<1>5. ASSUME NEW g \in Segments, NEW s \in Slots, RecvReset(g, s) \/ RecvSyn(g, s)
      PROVE  FALSE
  BY <1>2, <1>5 DEF RecvReset, RecvSyn
<1>6. ASSUME NEW g \in Segments, NEW s \in Slots, NEW n \in 1 .. RcvWnd, RecvAck(g, s, n)
      PROVE  Distance(tcb[c].snd_una, tcb'[c].snd_una)
               <= Distance(tcb[c].snd_una, tcb[c].snd_nxt)
  <2> DEFINE acked == AckTcb(state[s], tcb[s], g.ack)
             st == AckState(state[s], tcb[s], g.ack)
             read == TextTcb(st, acked, g.seq, n)
  <2>1. s = c
    BY <1>1, <1>2, <1>6 DEF RecvAck
  <2>2. g.ack \in SeqNum /\ g.seq \in SeqNum /\ n \in Nat
    BY SeqAssumption DEF Segments
  <2>3. acked \in Tcb
    BY <1>1, <2>2, TcbTypes
  <2>4. st \in States
    BY <1>1 DEF AckState, States
  <2>5. read \in Tcb /\ read.snd_una = acked.snd_una
    BY <2>2, <2>3, <2>4, TcbTypes, TextAndFinKeepUna
  <2>6. FinTcb(st, read, g.seq).snd_una = acked.snd_una
    BY <2>2, <2>4, <2>5, TextAndFinKeepUna
  <2>7. tcb'[c].snd_una = acked.snd_una
    BY <1>1, <1>6, <2>1, <2>5, <2>6 DEF RecvAck
  <2>8. Distance(tcb[c].snd_una, acked.snd_una) <= Distance(tcb[c].snd_una, tcb[c].snd_nxt)
    BY <1>1, <2>1, <2>2, AckTcbInSent
  <2>9. QED
    BY <2>7, <2>8
<1>7. CASE UNCHANGED vars
  BY <1>2, <1>7 DEF vars
<1>8. QED
  BY ReceiverIsSlot, <1>3, <1>4, <1>5, <1>6, <1>7 DEF Next, Recv

\* No segment acknowledges what was not sent, whatever the numbers it carries
\* and however often the numbers have wrapped around (tcp_ack_window_update).
THEOREM AcknowledgmentsAreOfSent == Spec => AcksOnlySent
<1>1. IInv /\ [Next]_vars =>
        [\A s \in Slots : passive[s] =>
            Distance(tcb[s].snd_una, tcb'[s].snd_una)
              <= Distance(tcb[s].snd_una, tcb[s].snd_nxt)]_vars
  BY AckStepInSent
<1>2. QED
  BY <1>1, Invariance, PTL DEF Spec, AcksOnlySent

=============================================================================
