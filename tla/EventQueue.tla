----------------------------- MODULE EventQueue -----------------------------
(***************************************************************************)
(* The queue that carries socket operations from application threads to    *)
(* the DPDK thread: the doubly linked list with a mutex in every node of   *)
(* queue/include/xy_mpmc.h, and the done flag and condition variable of    *)
(* xy_syn_event_enqueue and xy_syn_event_handle (queue/src/xy_syn_api.cc). *)
(*                                                                         *)
(* A thread's operation lives in its stack frame and is the list node, so  *)
(* a node is named by its caller, and a later call of the same thread uses *)
(* the same address again.  Memory of a frame that has returned is left as *)
(* it was until the next call constructs a new operation there, with a new *)
(* mutex; a stale pointer to it is followed as the machine would follow    *)
(* it.  The writes of a caller reach memory in the order of the program,   *)
(* as they do on x86; unlocks that follow one another are one step where   *)
(* nobody can tell.                                                        *)
(*                                                                         *)
(* Spec is everything the code can do.  SteadySpec is what it does as long *)
(* as nobody uses a frame again that another caller still holds as its     *)
(* predecessor; the code does not see to that, and without it the DPDK     *)
(* thread can take an operation whose next has not been written.           *)
(*                                                                         *)
(* The list functions are modelled for a node that has the fields of       *)
(* mpmc_list_node.  What the cast of xy_socket_ops to that type does to    *)
(* the fields of the operation is the subject of module OpOverlay.         *)
(***************************************************************************)

CONSTANTS
    Callers,   \* application threads, and the node of each one's operation
    Ops,       \* operations a thread can post
    Nil        \* a null pointer, no operation, no result

Head == "head"     \* event_queue.head
Tail == "tail"     \* event_queue.tail
Dpdk == "dpdk"     \* the thread that runs lcore_main
Free == "free"     \* the owner of a mutex that nobody holds

ASSUME CallersAssumption ==
    /\ Callers \cap {Head, Tail, Dpdk, Free, Nil} = {}
    /\ Nil \notin Ops \cup {Head, Tail, Dpdk, Free}

Nodes == Callers \cup {Head, Tail}

VARIABLES
    next,      \* node -> node, the next pointers
    prev,      \* node -> node, the prev pointers
    mtx,       \* node -> owner of the node's mutex
    pc,        \* caller -> where it is in xy_syn_event_enqueue
    pred,      \* caller -> its local `prev` of mpmc_list_add_tail
    op,        \* caller -> the operation in its frame
    err,       \* caller -> err_no, as the operation it was computed for
    done,      \* caller -> the done flag
    dpc,       \* where the DPDK thread is in xy_syn_event_handle
    first,     \* its local `first`, then `ops`
    second     \* its local `second`

listVars == <<next, prev>>
opVars == <<op, err, done>>
dpdkVars == <<dpc, first, second>>
vars == <<next, prev, mtx, pc, pred, op, err, done, dpc, first, second>>

\* Where a caller holds the locks of its predecessor and of the tail, each
\* named for the statement that comes next.
LinkPc == {"prev_next", "node_next", "tail_prev", "node_prev", "unlock_tail"}

CallerPc ==
    {"idle", "read", "lock_prev", "lock_tail", "unlock_prev", "check", "sleep"} \cup LinkPc

DpdkPc ==
    {"poll", "head", "read_second", "first", "second", "handle", "set_done", "notify"}

Init ==
    /\ next = [n \in Nodes |-> IF n = Head THEN Tail ELSE Nil]
    /\ prev = [n \in Nodes |-> IF n = Tail THEN Head ELSE Nil]
    /\ mtx = [n \in Nodes |-> Free]
    /\ pc = [c \in Callers |-> "idle"]
    /\ pred = [c \in Callers |-> Nil]
    /\ op = [c \in Callers |-> Nil]
    /\ err = [c \in Callers |-> Nil]
    /\ done = [c \in Callers |-> FALSE]
    /\ dpc = "poll"
    /\ first = Nil
    /\ second = Nil

-----------------------------------------------------------------------------
(***************************************************************************)
(* An application thread in xy_syn_event_enqueue.                          *)
(***************************************************************************)

\* An API function builds the operation in its frame: its mutex is new, done
\* is 0, and the two pointers keep what the frame held before.
Call(c, o) ==
    /\ pc[c] = "idle"
    /\ pc' = [pc EXCEPT ![c] = "read"]
    /\ op' = [op EXCEPT ![c] = o]
    /\ err' = [err EXCEPT ![c] = Nil]
    /\ done' = [done EXCEPT ![c] = FALSE]
    /\ mtx' = [mtx EXCEPT ![c] = Free]
    /\ UNCHANGED <<next, prev, pred, dpc, first, second>>

\* tail->prev is read before any lock is taken.
ReadPrev(c) ==
    /\ pc[c] = "read"
    /\ pred' = [pred EXCEPT ![c] = prev[Tail]]
    /\ pc' = [pc EXCEPT ![c] = "lock_prev"]
    /\ UNCHANGED <<next, prev, mtx, op, err, done, dpc, first, second>>

\* Faulty variant: the predecessor is not locked.
LockPrevNever(c) ==
    /\ pc[c] = "lock_prev"
    /\ pc' = [pc EXCEPT ![c] = "lock_tail"]
    /\ UNCHANGED <<next, prev, mtx, pred, op, err, done, dpc, first, second>>

LockPrev(c) ==
    /\ pc[c] = "lock_prev"
    /\ mtx[pred[c]] = Free
    /\ mtx' = [mtx EXCEPT ![pred[c]] = c]
    /\ pc' = [pc EXCEPT ![c] = "lock_tail"]
    /\ UNCHANGED <<next, prev, pred, op, err, done, dpc, first, second>>

LockTail(c) ==
    /\ pc[c] = "lock_tail"
    /\ mtx[Tail] = Free
    /\ mtx' = [mtx EXCEPT ![Tail] = c]
    /\ pc' = [pc EXCEPT ![c] = "prev_next"]
    /\ UNCHANGED <<next, prev, pred, op, err, done, dpc, first, second>>

\* prev->next = node: from here on the list leads to the operation.
LinkPrevNext(c) ==
    /\ pc[c] = "prev_next"
    /\ next' = [next EXCEPT ![pred[c]] = c]
    /\ pc' = [pc EXCEPT ![c] = "node_next"]
    /\ UNCHANGED <<prev, mtx, pred, op, err, done, dpc, first, second>>

\* node->next = tail: until now it was what the frame held before.
LinkNodeNext(c) ==
    /\ pc[c] = "node_next"
    /\ next' = [next EXCEPT ![c] = Tail]
    /\ pc' = [pc EXCEPT ![c] = "tail_prev"]
    /\ UNCHANGED <<prev, mtx, pred, op, err, done, dpc, first, second>>

LinkTailPrev(c) ==
    /\ pc[c] = "tail_prev"
    /\ prev' = [prev EXCEPT ![Tail] = c]
    /\ pc' = [pc EXCEPT ![c] = "node_prev"]
    /\ UNCHANGED <<next, mtx, pred, op, err, done, dpc, first, second>>

LinkNodePrev(c) ==
    /\ pc[c] = "node_prev"
    /\ prev' = [prev EXCEPT ![c] = pred[c]]
    /\ pc' = [pc EXCEPT ![c] = "unlock_tail"]
    /\ UNCHANGED <<next, mtx, pred, op, err, done, dpc, first, second>>

UnlockTail(c) ==
    /\ pc[c] = "unlock_tail"
    /\ mtx' = [mtx EXCEPT ![Tail] = Free]
    /\ pc' = [pc EXCEPT ![c] = "unlock_prev"]
    /\ UNCHANGED <<next, prev, pred, op, err, done, dpc, first, second>>

\* The mutex at the predecessor's address, whoever holds it by now.
UnlockPrev(c) ==
    /\ pc[c] = "unlock_prev"
    /\ mtx' = [mtx EXCEPT ![pred[c]] = Free]
    /\ pc' = [pc EXCEPT ![c] = "check"]
    /\ UNCHANGED <<next, prev, pred, op, err, done, dpc, first, second>>

\* cv.wait finds the predicate false and releases the operation's mutex.
Sleep(c) ==
    /\ pc[c] = "check"
    /\ ~done[c]
    /\ pc' = [pc EXCEPT ![c] = "sleep"]
    /\ UNCHANGED <<next, prev, mtx, pred, op, err, done, dpc, first, second>>

\* A condition variable may wake its waiter without a notification.
SpuriousWakeup(c) ==
    /\ pc[c] = "sleep"
    /\ pc' = [pc EXCEPT ![c] = "check"]
    /\ UNCHANGED <<next, prev, mtx, pred, op, err, done, dpc, first, second>>

\* Faulty variant: cv.wait without its predicate.
ReturnUnasked(c) ==
    /\ pc[c] = "check"
    /\ pc' = [pc EXCEPT ![c] = "idle"]
    /\ UNCHANGED <<next, prev, mtx, pred, op, err, done, dpc, first, second>>

\* The predicate holds: the API function reads err_no and its frame ends.
Return(c) ==
    /\ pc[c] = "check"
    /\ done[c]
    /\ pc' = [pc EXCEPT ![c] = "idle"]
    /\ UNCHANGED <<next, prev, mtx, pred, op, err, done, dpc, first, second>>

-----------------------------------------------------------------------------
(***************************************************************************)
(* The DPDK thread in xy_syn_event_handle.                                 *)
(***************************************************************************)

LockHead ==
    /\ dpc = "poll"
    /\ mtx[Head] = Free
    /\ mtx' = [mtx EXCEPT ![Head] = Dpdk]
    /\ dpc' = "head"
    /\ UNCHANGED <<next, prev, pc, pred, op, err, done, first, second>>

\* Faulty variant: waits for an operation with the head locked.
SpinLocked ==
    /\ dpc = "head"
    /\ next[Head] = Tail
    /\ UNCHANGED vars

\* The list is empty: the loop ends until the next turn of lcore_main.
FoundEmpty ==
    /\ dpc = "head"
    /\ next[Head] = Tail
    /\ mtx' = [mtx EXCEPT ![Head] = Free]
    /\ dpc' = "poll"
    /\ UNCHANGED <<next, prev, pc, pred, op, err, done, first, second>>

\* Faulty variant: the test for the tail is missing.
LockFirstUntested ==
    /\ dpc = "head"
    /\ mtx[next[Head]] = Free
    /\ mtx' = [mtx EXCEPT ![next[Head]] = Dpdk]
    /\ first' = next[Head]
    /\ dpc' = "read_second"
    /\ UNCHANGED <<next, prev, pc, pred, op, err, done, second>>

\* The head stays locked, so `first` does not change while it is waited for.
LockFirst ==
    /\ dpc = "head"
    /\ next[Head] # Tail
    /\ mtx[next[Head]] = Free
    /\ mtx' = [mtx EXCEPT ![next[Head]] = Dpdk]
    /\ first' = next[Head]
    /\ dpc' = "read_second"
    /\ UNCHANGED <<next, prev, pc, pred, op, err, done, second>>

ReadSecond ==
    /\ dpc = "read_second"
    /\ second' = next[first]
    /\ dpc' = "first"
    /\ UNCHANGED <<next, prev, mtx, pc, pred, op, err, done, first>>

\* A null pointer, which next is in memory that no call has linked yet, ends
\* the program: the thread takes no step from there.
LockSecond ==
    /\ dpc = "first"
    /\ second # Nil
    /\ mtx[second] = Free
    /\ mtx' = [mtx EXCEPT ![second] = Dpdk]
    /\ dpc' = "second"
    /\ UNCHANGED <<next, prev, pc, pred, op, err, done, first, second>>

\* Faulty variant: head->next is left as it was.
UnlinkKeepsHead ==
    /\ dpc = "second"
    /\ prev' = [prev EXCEPT ![second] = Head]
    /\ mtx' = [mtx EXCEPT ![Head] = Free, ![first] = Free, ![second] = Free]
    /\ dpc' = "handle"
    /\ UNCHANGED <<next, pc, pred, op, err, done, first, second>>

\* Faulty variant: second->prev is left as it was.
UnlinkKeepsPrev ==
    /\ dpc = "second"
    /\ next' = [next EXCEPT ![Head] = second]
    /\ mtx' = [mtx EXCEPT ![Head] = Free, ![first] = Free, ![second] = Free]
    /\ dpc' = "handle"
    /\ UNCHANGED <<prev, pc, pred, op, err, done, first, second>>

\* The first operation leaves the list and the three locks are released.
Unlink ==
    /\ dpc = "second"
    /\ next' = [next EXCEPT ![Head] = second]
    /\ prev' = [prev EXCEPT ![second] = Head]
    /\ mtx' = [mtx EXCEPT ![Head] = Free, ![first] = Free, ![second] = Free]
    /\ dpc' = "handle"
    /\ UNCHANGED <<pc, pred, op, err, done, first, second>>

\* xy_syn_event_handle_ops carries the operation out and leaves err_no.
Handle ==
    /\ dpc = "handle"
    /\ err' = [err EXCEPT ![first] = op[first]]
    /\ dpc' = "set_done"
    /\ UNCHANGED <<next, prev, mtx, pc, pred, op, done, first, second>>

SetDone ==
    /\ dpc = "set_done"
    /\ done' = [done EXCEPT ![first] = TRUE]
    /\ dpc' = "notify"
    /\ UNCHANGED <<next, prev, mtx, pc, pred, op, err, first, second>>

\* Faulty variant: the condition variable is not notified.
NotifyNobody ==
    /\ dpc = "notify"
    /\ dpc' = "poll"
    /\ UNCHANGED <<next, prev, mtx, pc, pred, op, err, done, first, second>>

\* notify_one on the condition variable at the operation's address, whoever
\* uses that address by now.
Notify ==
    /\ dpc = "notify"
    /\ pc' = [pc EXCEPT ![first] = IF @ = "sleep" THEN "check" ELSE @]
    /\ dpc' = "poll"
    /\ UNCHANGED <<next, prev, mtx, pred, op, err, done, first, second>>

-----------------------------------------------------------------------------

Enqueue(c) ==
    \/ ReadPrev(c)
    \/ LockPrev(c)
    \/ LockTail(c)
    \/ LinkPrevNext(c)
    \/ LinkNodeNext(c)
    \/ LinkTailPrev(c)
    \/ LinkNodePrev(c)
    \/ UnlockTail(c)
    \/ UnlockPrev(c)
    \/ Sleep(c)
    \/ Return(c)

EventHandle ==
    \/ LockHead
    \/ FoundEmpty
    \/ LockFirst
    \/ ReadSecond
    \/ LockSecond
    \/ Unlink
    \/ Handle
    \/ SetDone
    \/ Notify

Next ==
    \/ \E c \in Callers :
          \/ \E o \in Ops : Call(c, o)
          \/ Enqueue(c)
          \/ SpuriousWakeup(c)
    \/ EventHandle

Spec == Init /\ [][Next]_vars

\* From the read of tail->prev to its unlock a caller holds a pointer to the
\* frame of its predecessor.
HoldsPred(c) == pc[c] \in {"lock_prev", "lock_tail", "unlock_prev"} \cup LinkPc

\* A step that makes no call from the thread whose frame another caller holds
\* as its predecessor.
PredecessorStays ==
    \A c, d \in Callers :
        pc[d] = "idle" /\ HoldsPred(c) /\ pred[c] = d => pc'[d] = "idle"

SteadySpec == Init /\ [][Next /\ PredecessorStays]_vars

(***************************************************************************)
(* lcore_main polls for ever, so the DPDK thread always takes its next     *)
(* step, and a scheduled caller takes its own.  A mutex that is released   *)
(* again and again is granted to a thread that keeps asking for it: strong *)
(* fairness of the lock steps.  Nobody has to make a call, and no          *)
(* notification but the code's own is relied upon.                         *)
(***************************************************************************)
Fairness ==
    /\ \A c \in Callers :
          /\ WF_vars(ReadPrev(c) \/ LinkPrevNext(c) \/ LinkNodeNext(c) \/ LinkTailPrev(c))
          /\ WF_vars(LinkNodePrev(c) \/ UnlockTail(c) \/ UnlockPrev(c))
          /\ WF_vars(Sleep(c) \/ Return(c))
          /\ SF_vars(LockPrev(c))
          /\ SF_vars(LockTail(c))
    /\ WF_vars(FoundEmpty \/ ReadSecond \/ Unlink \/ Handle \/ SetDone \/ Notify)
    /\ SF_vars(LockHead)
    /\ SF_vars(LockFirst)
    /\ SF_vars(LockSecond)

FairSpec == Spec /\ Fairness

FairSteadySpec == SteadySpec /\ Fairness

-----------------------------------------------------------------------------
(***************************************************************************)
(* Properties.                                                             *)
(***************************************************************************)

\* The list has been made to lead to the operation of c, and the DPDK thread
\* has not taken it.
Queued(c) ==
    /\ pc[c] \in (LinkPc \ {"prev_next"}) \cup {"unlock_prev", "check", "sleep"}
    /\ ~done[c]
    /\ ~(dpc \in {"handle", "set_done"} /\ first = c)

Linked == {c \in Callers : Queued(c)} \cup {Head}

\* A node whose next is the one of the list: not one that has been linked a
\* moment ago and still has the next its frame held before.
NextIsSet(n) == n = Head \/ pc[n] # "node_next"

\* Type invariant.
TypeOK ==
    /\ next \in [Nodes -> Callers \cup {Tail, Nil}]
    /\ next[Head] # Nil
    /\ prev \in [Nodes -> Nodes \cup {Nil}]
    /\ prev[Tail] \in Callers \cup {Head}
    /\ mtx \in [Nodes -> Callers \cup {Dpdk, Free}]
    /\ pc \in [Callers -> CallerPc]
    /\ pred \in [Callers -> Callers \cup {Head, Nil}]
    /\ op \in [Callers -> Ops \cup {Nil}]
    /\ err \in [Callers -> Ops \cup {Nil}]
    /\ done \in [Callers -> BOOLEAN]
    /\ dpc \in DpdkPc
    /\ first \in Callers \cup {Nil}
    /\ second \in Callers \cup {Tail, Nil}
    /\ \A c \in Callers : HoldsPred(c) => pred[c] # Nil
    /\ dpc \notin {"poll", "head"} => first # Nil
    /\ dpc = "second" => second # Nil

\* However many callers race, what the DPDK thread reaches from the head is
\* only operations that are posted and not yet served, each by one path: the
\* list it walks never runs into a frame that has returned, and `second` is
\* never read before it is written (mpmc_list_add_tail and mpmc_list_del_head).
QueueSound ==
    /\ \A n \in Linked : NextIsSet(n) => next[n] \in (Linked \ {Head}) \cup {Tail}
    /\ \A m, n \in Linked :
          m # n /\ NextIsSet(m) /\ NextIsSet(n) /\ next[m] = next[n] => next[m] = Tail
    /\ dpc = "first" => second \in (Linked \ {Head, first}) \cup {Tail}

\* An operation is never carried out for a caller that is not waiting for it,
\* nor a second time (xy_syn_event_handle hands out each node once).
ServesWaitingCaller ==
    dpc = "handle" =>
        /\ pc[first] \in {"check", "sleep"}
        /\ err[first] = Nil
        /\ ~done[first]

\* No operation is lost: one that has been linked can be reached from the head
\* of the list.  True with one caller at a time; two callers that read the same
\* tail->prev lose one of their operations.
NoLostOp ==
    \A c \in Callers : Queued(c) => \E n \in Linked : n # c /\ next[n] = c

\* The locks of mpmc_list_add_tail are always obtained: whatever the other
\* callers and the DPDK thread hold, an enqueue completes.
EnqueueCompletes ==
    \A c \in Callers : pc[c] = "read" ~> pc[c] = "check"

\* Every API call returns.
CallsReturn ==
    \A c \in Callers : pc[c] = "read" ~> pc[c] = "idle"

(***************************************************************************)
(* The inductive invariant behind QueueSound and the refinement, under     *)
(* PredecessorStays: a lock that a caller has obtained stays its own, so   *)
(* what is half linked is behind a lock that the DPDK thread waits for.    *)
(***************************************************************************)

\* Who holds which lock.
LocksHeld ==
    /\ mtx[Head] = Dpdk <=> dpc \in {"head", "read_second", "first", "second"}
    /\ dpc \in {"read_second", "first", "second"} => mtx[first] = Dpdk
    /\ dpc = "second" => mtx[second] = Dpdk
    /\ \A c \in Callers :
          /\ pc[c] \in LinkPc \cup {"lock_tail", "unlock_prev"} => mtx[pred[c]] = c
          /\ pc[c] \in LinkPc => mtx[Tail] = c

\* Until a caller has unlocked its predecessor, nothing else leads to its
\* operation.
LedToByPred ==
    \A c \in Callers :
        pc[c] \in (LinkPc \ {"prev_next"}) \cup {"unlock_prev"} =>
            \A n \in Linked : NextIsSet(n) /\ next[n] = c => n = pred[c]

\* The operation being taken off is the first of the list and its caller has
\* gone to wait; nothing else leads to the one that will follow the head.
TakesFirst ==
    /\ dpc \in {"read_second", "first", "second"} =>
          /\ next[Head] = first
          /\ first \in Linked
          /\ pc[first] \in {"check", "sleep"}
    /\ dpc \in {"first", "second"} =>
          /\ second = next[first]
          /\ second \in (Linked \ {Head, first}) \cup {Tail}

\* The operation being carried out belongs to a caller that waits for it.
HandlesWaiting ==
    dpc \in {"handle", "set_done"} =>
        /\ pc[first] \in {"check", "sleep"}
        /\ ~done[first]

\* err_no is set exactly when the operation has been carried out, and done
\* only afterwards.
Answered(c) == done[c] \/ (dpc = "set_done" /\ first = c)

AnswersOnce ==
    \A c \in Callers : pc[c] # "idle" =>
        /\ op[c] \in Ops
        /\ err[c] = IF Answered(c) THEN op[c] ELSE Nil
        /\ done[c] => pc[c] \in {"check", "sleep"}

IInv ==
    /\ TypeOK
    /\ LocksHeld
    /\ QueueSound
    /\ LedToByPred
    /\ TakesFirst
    /\ HandlesWaiting
    /\ AnswersOnce

(***************************************************************************)
(* The refinement of SyncCall: a call is served when err_no is set.        *)
(***************************************************************************)
callStatus ==
    [c \in Callers |->
        IF pc[c] = "idle" THEN "idle"
        ELSE IF err[c] = Nil THEN "pending" ELSE "served"]

Calls == INSTANCE SyncCall WITH
            status <- callStatus, request <- op, result <- err

\* Every call is served at most once, with the operation that was posted, and
\* returns only afterwards (xy_syn_event_enqueue with xy_syn_event_handle).
ImplementsSyncCall == Calls!Spec

\* With the liveness of SyncCall: every call is served and returns.
ImplementsFairSyncCall == Calls!FairSpec

=============================================================================
