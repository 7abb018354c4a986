---------------------------- MODULE AcceptCursor ----------------------------
(***************************************************************************)
(* The list of established connections, shared by the DPDK thread and the  *)
(* application threads that accept from it (xy_syn_socks.cc).  Accepting   *)
(* does not take a connection out of the list: one static cursor, kept     *)
(* from call to call, moves through the list towards its head, where the   *)
(* DPDK thread adds.  Closing, from either side, unlinks a connection      *)
(* without clearing its pointers, the cursor's own connection included.    *)
(*                                                                         *)
(* A step is one critical section of shared_mtx.  The memory of a          *)
(* connection is never freed, so the cursor always points to a node.       *)
(***************************************************************************)
EXTENDS Naturals

CONSTANTS
    Threads,    \* application threads
    Conns,      \* connections that may be established
    Head,       \* the node list_established
    Nil

ASSUME ConnsAssumption ==
    /\ Head \notin Conns
    /\ Nil \notin Conns \cup Threads \cup {Head}

VARIABLES
    next, prev, \* xy_list_node of the head and of each connection
    cur,        \* the cursor of established_take_next
    cur_mtx,    \* the thread that holds cur_mtx, or Nil
    pc,         \* "idle", "lock" (cur_mtx), "search"
    age,        \* the order in which connections were established, 0 before
    count,      \* how many have been established
    owner,      \* the thread a connection has been handed to, or Nil
    unlinked    \* connections that have been taken out of the list

vars == <<next, prev, cur, cur_mtx, pc, age, count, owner, unlinked>>

Nodes == Conns \cup {Head}

Listed == {c \in Conns : age[c] # 0} \ unlinked

Init ==
    /\ next = [n \in Nodes |-> IF n = Head THEN Head ELSE Nil]
    /\ prev = [n \in Nodes |-> IF n = Head THEN Head ELSE Nil]
    /\ cur = Head
    /\ cur_mtx = Nil
    /\ pc = [t \in Threads |-> "idle"]
    /\ age = [c \in Conns |-> 0]
    /\ count = 0
    /\ owner = [c \in Conns |-> Nil]
    /\ unlinked = {}

-----------------------------------------------------------------------------
(***************************************************************************)
(* The list (xy_list.h).  The new node is the head's next; a node that is  *)
(* deleted keeps its pointers.                                             *)
(***************************************************************************)

\* Faulty variant: the new node is not told of the head; it is added at the tail.
AddHeadUnlinked(c) ==
    /\ prev' = [prev EXCEPT ![next[Head]] = c]
    /\ next' = [next EXCEPT ![c] = next[Head], ![Head] = c]

AddTail(c) ==
    /\ next' = [next EXCEPT ![prev[Head]] = c, ![c] = Head]
    /\ prev' = [prev EXCEPT ![c] = prev[Head], ![Head] = c]

AddHead(c) ==
    /\ prev' = [prev EXCEPT ![next[Head]] = c, ![c] = Head]
    /\ next' = [next EXCEPT ![c] = next[Head], ![Head] = c]

Delete(c) ==
    /\ next' = [next EXCEPT ![prev[c]] = next[c]]
    /\ prev' = [prev EXCEPT ![next[c]] = prev[c]]

-----------------------------------------------------------------------------
(***************************************************************************)
(* The DPDK thread.                                                        *)
(***************************************************************************)

\* established_tcp_sock_enqueue, when the handshake of c completes.
Establish(c) ==
    /\ age[c] = 0
    /\ AddHead(c)
    /\ count' = count + 1
    /\ age' = [age EXCEPT ![c] = count + 1]
    /\ UNCHANGED <<cur, cur_mtx, pc, owner, unlinked>>

\* established_tcp_sock_dequeue, when the application closes c or a FIN arrives
\* for it, which may be before anybody has accepted it.
Close(c) ==
    /\ c \in Listed
    /\ Delete(c)
    /\ unlinked' = unlinked \cup {c}
    /\ UNCHANGED <<cur, cur_mtx, pc, age, count, owner>>

-----------------------------------------------------------------------------
(***************************************************************************)
(* xy_accept on an application thread.  While cur->prev is the head the    *)
(* thread yields and looks again, with cur_mtx locked.                     *)
(***************************************************************************)

Accept(t) ==
    /\ pc[t] = "idle"
    /\ pc' = [pc EXCEPT ![t] = "lock"]
    /\ UNCHANGED <<next, prev, cur, cur_mtx, age, count, owner, unlinked>>

LockCursor(t) ==
    /\ pc[t] = "lock"
    /\ cur_mtx = Nil
    /\ cur_mtx' = t
    /\ pc' = [pc EXCEPT ![t] = "search"]
    /\ UNCHANGED <<next, prev, cur, age, count, owner, unlinked>>

\* Faulty variant: the cursor begins at the head every time; the lock is kept.
TakeOldest(t) ==
    /\ pc[t] = "search"
    /\ prev[Head] # Head
    /\ cur' = prev[Head]
    /\ owner' = [owner EXCEPT ![prev[Head]] = t]
    /\ cur_mtx' = Nil
    /\ pc' = [pc EXCEPT ![t] = "idle"]
    /\ UNCHANGED <<next, prev, age, count, unlinked>>

TakeLocked(t) ==
    /\ pc[t] = "search"
    /\ prev[cur] # Head
    /\ cur' = prev[cur]
    /\ owner' = [owner EXCEPT ![prev[cur]] = t]
    /\ pc' = [pc EXCEPT ![t] = "idle"]
    /\ UNCHANGED <<next, prev, cur_mtx, age, count, unlinked>>

TakeNext(t) ==
    /\ pc[t] = "search"
    /\ prev[cur] # Head
    /\ cur' = prev[cur]
    /\ owner' = [owner EXCEPT ![prev[cur]] = t]
    /\ cur_mtx' = Nil
    /\ pc' = [pc EXCEPT ![t] = "idle"]
    /\ UNCHANGED <<next, prev, age, count, unlinked>>

Next ==
    \/ \E c \in Conns : Establish(c) \/ Close(c)
    \/ \E t \in Threads : Accept(t) \/ LockCursor(t) \/ TakeNext(t)

Spec == Init /\ [][Next]_vars

\* A thread in xy_accept runs, and gets the cursor in the end.
FairSpec ==
    Spec /\ \A t \in Threads : SF_vars(LockCursor(t)) /\ WF_vars(TakeNext(t))

-----------------------------------------------------------------------------
(***************************************************************************)
(* Properties.                                                             *)
(***************************************************************************)

\* Type invariant.
TypeOK ==
    /\ next \in [Nodes -> Nodes \cup {Nil}]
    /\ prev \in [Nodes -> Nodes \cup {Nil}]
    /\ cur \in Nodes
    /\ cur_mtx \in Threads \cup {Nil}
    /\ pc \in [Threads -> {"idle", "lock", "search"}]
    /\ age \in [Conns -> Nat]
    /\ count \in Nat
    /\ owner \in [Conns -> Threads \cup {Nil}]
    /\ unlinked \subseteq Conns

Unclaimed == {c \in Listed : owner[c] = Nil}

\* Although the cursor may stay on a connection that has been unlinked and
\* follow pointers that were never updated, xy_accept returns each connection
\* at most once, in the order in which they were established, and none of the
\* list out of its turn (established_take_next).
HandsOutNext ==
    [][\A c \in Conns : owner'[c] # owner[c] =>
          /\ owner[c] = Nil
          /\ \A d \in Conns : owner[d] # Nil => age[d] < age[c]
          /\ \A d \in Unclaimed : age[c] <= age[d]]_vars

\* The cursor never passes over a listed connection: a new one is always added
\* in front of it.
NoneSkipped ==
    \A c \in Listed : owner[c] = Nil => cur = Head \/ age[c] > age[cur]

\* The cursor is on a connection that was the newest when it was unlinked: nothing
\* that is established later can be reached from it any more.
CursorLost == cur \in unlinked /\ prev[cur] = Head

\* Until the cursor is lost, a call of xy_accept returns when there is a
\* connection for it, whatever the other threads accept and close.
AcceptReturns ==
    \A t \in Threads :
        pc[t] # "idle" /\ Unclaimed # {}
            ~> pc[t] = "idle" \/ Unclaimed = {} \/ CursorLost

-----------------------------------------------------------------------------
(***************************************************************************)
(* The inductive invariant behind HandsOutNext and NoneSkipped.            *)
(***************************************************************************)

Ring == Listed \cup {Head}

Established == {c \in Conns : age[c] # 0}

\* Connections are numbered as they are established.
Numbered ==
    /\ \A c \in Conns : age[c] <= count
    /\ \A c, d \in Conns : age[c] # 0 /\ age[c] = age[d] => c = d
    /\ unlinked \subseteq Established

\* The list is a ring of the listed connections, in order.
RingSound ==
    /\ \A n \in Ring : prev[n] \in Ring /\ next[n] \in Ring
    /\ \A n \in Ring : next[prev[n]] = n /\ prev[next[n]] = n
    /\ \A c, d \in Listed : age[c] < age[d] => prev[c] # Head
    /\ \A d \in Listed : prev[Head] # Head /\ age[prev[Head]] <= age[d]

\* From a connection, listed or not, prev leads to a newer one, past nothing
\* that is listed.
LeadsOn ==
    \A c \in Established : prev[c] # Head =>
        /\ prev[c] \in Established
        /\ age[c] < age[prev[c]]
        /\ \A d \in Listed : age[c] < age[d] => age[prev[c]] <= age[d]

\* The cursor has been to nothing newer than where it is.
HandedOutToCursor ==
    /\ cur # Head => cur \in Established
    /\ \A c \in Conns : owner[c] # Nil => cur # Head /\ age[c] # 0 /\ age[c] <= age[cur]
    /\ cur # Head => owner[cur] # Nil

IInv ==
    /\ TypeOK
    /\ Numbered
    /\ RingSound
    /\ LeadsOn
    /\ HandedOutToCursor
    /\ NoneSkipped

=============================================================================
