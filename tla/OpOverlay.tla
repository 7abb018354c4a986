----------------------------- MODULE OpOverlay -----------------------------
(***************************************************************************)
(* What the cast of xy_socket_ops to mpmc_list_node does.  The two share   *)
(* their memory (x86-64, libstdc++):                                       *)
(*                                                                         *)
(*     byte    xy_socket_ops         mpmc_list_node                        *)
(*        0    type                  next, low half                        *)
(*        4    done                  next, a byte of the high half         *)
(*        8    mutex, the lock word  prev, low half                        *)
(*       64    cv                    mtx                                   *)
(*                                                                         *)
(* so linking an operation writes over its type, its done flag and its     *)
(* mutex.  A mutex whose lock word is not 0 is locked for whoever asks.    *)
(* The list functions are atomic here; module EventQueue has their steps.  *)
(* The low half of an address is taken to be neither 0 nor an xy_ops_type, *)
(* a byte of its high half may be 0 or not.                                *)
(***************************************************************************)
EXTENDS Naturals, Sequences

CONSTANTS
    Callers,   \* application threads, and the operation in each one's frame
    Types,     \* xy_ops_type
    Address,   \* the low half of an address
    Nil

VARIABLES
    queue,     \* the callers whose operations are linked, in order
    posted,    \* caller -> the type it constructed its operation with
    type,      \* caller -> bytes 0 to 3
    done,      \* caller -> byte 4 is not 0
    lock,      \* caller -> bytes 8 to 11
    pc,        \* caller -> where it is in xy_syn_event_enqueue
    ops,       \* the operation the DPDK thread handles, if any
    handled    \* the type it has been dispatched on, if it has been

vars == <<queue, posted, type, done, lock, pc, ops, handled>>

Init ==
    /\ queue = <<>>
    /\ posted = [c \in Callers |-> Nil]
    /\ type = [c \in Callers |-> Nil]
    /\ done = [c \in Callers |-> FALSE]
    /\ lock = [c \in Callers |-> 0]
    /\ pc = [c \in Callers |-> "idle"]
    /\ ops = Nil
    /\ handled = Nil

\* An operation is constructed and linked: next and prev of its node and next
\* of the node before it are written.
Post(c, t) ==
    /\ pc[c] = "idle"
    /\ posted' = [posted EXCEPT ![c] = t]
    /\ LET written == {c} \cup (IF queue = <<>> THEN {} ELSE {queue[Len(queue)]})
       IN  /\ type' = [d \in Callers |-> IF d \in written THEN Address ELSE type[d]]
           /\ \E byte \in [written -> BOOLEAN] :
                 done' = [d \in Callers |-> IF d \in written THEN byte[d] ELSE done[d]]
    /\ lock' = [lock EXCEPT ![c] = Address]
    /\ queue' = Append(queue, c)
    /\ pc' = [pc EXCEPT ![c] = "lock"]
    /\ UNCHANGED <<ops, handled>>

Lock(c) ==
    /\ pc[c] = "lock"
    /\ lock[c] = 0
    /\ pc' = [pc EXCEPT ![c] = IF done[c] THEN "idle" ELSE "sleep"]
    /\ UNCHANGED <<queue, posted, type, done, lock, ops, handled>>

\* The first operation is unlinked: prev of the second one is written.
Take ==
    /\ ops = Nil
    /\ queue # <<>>
    /\ ops' = Head(queue)
    /\ queue' = Tail(queue)
    /\ lock' = [c \in Callers |->
                  IF Len(queue) > 1 /\ c = queue[2] THEN Address ELSE lock[c]]
    /\ UNCHANGED <<posted, type, done, pc, handled>>

Dispatch ==
    /\ ops # Nil
    /\ handled = Nil
    /\ handled' = type[ops]
    /\ UNCHANGED <<queue, posted, type, done, lock, pc, ops>>

Answer ==
    /\ handled # Nil
    /\ lock[ops] = 0
    /\ done' = [done EXCEPT ![ops] = TRUE]
    /\ pc' = [pc EXCEPT ![ops] = IF @ = "sleep" THEN "lock" ELSE @]
    /\ ops' = Nil
    /\ handled' = Nil
    /\ UNCHANGED <<queue, posted, type, lock>>

Next ==
    \/ \E c \in Callers : Lock(c) \/ \E t \in Types : Post(c, t)
    \/ Take
    \/ Dispatch
    \/ Answer

Spec == Init /\ [][Next]_vars

-----------------------------------------------------------------------------

\* xy_syn_event_handle is "called by dpdk thread to handle ops passed from
\* other thread": what it dispatches on is what the thread has passed.
DispatchesPosted == handled # Nil => handled = posted[ops]

=============================================================================
