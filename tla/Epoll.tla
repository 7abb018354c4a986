------------------------------- MODULE Epoll -------------------------------
(***************************************************************************)
(* One event poll (xy_epoll.cc): the DPDK thread makes items ready and     *)
(* signals, application threads wait for them, and add and delete items    *)
(* while they do.  Two locks are involved: the spin lock of the ready list *)
(* and cdmtx, which goes with the condition variable.  ready_num is        *)
(* changed under the first and tested under the second.                    *)
(*                                                                         *)
(* A step is what happens between two accesses of shared memory; a section *)
(* under the spin lock is one step.  An item is one registration: a socket *)
(* that is deleted and added again has another item.  The masks of events  *)
(* are left out, and with them xy_epoll_ctl's MOD, and so are the calls    *)
(* that fail.  The module takes the event poll to be found by the callback *)
(* (xy_get_event_poll_by_id is given the id of the socket).  A behaviour   *)
(* ends for a thread where it would use the memory of a deleted item.      *)
(***************************************************************************)
EXTENDS Integers, Sequences, FiniteSets

CONSTANTS
    Threads,     \* application threads that call xy_epoll_wait
    Items,       \* memory for xy_epoll_item
    MaxEvents,   \* max_events of each call
    FreshReady,  \* what malloc may leave in the field ready of an item
    FreshNum,    \* what malloc may leave in ready_num
    Nil

ASSUME EpollAssumption ==
    /\ IsFiniteSet(Threads)
    /\ Nil \notin Threads \cup Items
    /\ MaxEvents \in Nat \ {0}
    /\ FreshReady \subseteq BOOLEAN
    /\ FreshNum \subseteq Int

VARIABLES
    tree,       \* the items of rb_tree
    freed,      \* items that have been deleted
    ready,      \* epi->ready
    list,       \* ready_list, the head first
    ready_num,
    fresh_num,  \* what malloc has left in ready_num
    dpc, epi,   \* the DPDK thread: "idle", "found", "add", "signal"
    wpc,        \* each thread in xy_epoll_wait
    timeout,    \* 0, 1 (some time), -1 (for ever)
    cdmtx       \* the thread that holds it, or Nil

callVars == <<wpc, timeout, cdmtx>>
dpdkVars == <<dpc, epi>>
listVars == <<ready, list, ready_num, fresh_num>>
vars == <<tree, freed, ready, list, ready_num, fresh_num, dpc, epi, wpc, timeout, cdmtx>>

Init ==
    /\ tree = {}
    /\ freed = {}
    /\ ready \in [Items -> FreshReady]
    /\ list = <<>>
    /\ fresh_num \in FreshNum
    /\ ready_num = fresh_num
    /\ dpc = "idle"
    /\ epi = Nil
    /\ wpc = [t \in Threads |-> "idle"]
    /\ timeout = [t \in Threads |-> 0]
    /\ cdmtx = Nil

-----------------------------------------------------------------------------
(***************************************************************************)
(* xy_epoll_ctl, under ep->mtx.  Neither operation looks at the ready list *)
(* and the callback does not lock ep->mtx.                                 *)
(***************************************************************************)

CtlAdd(i) ==
    /\ i \notin tree \cup freed
    /\ tree' = tree \cup {i}
    /\ UNCHANGED <<freed, listVars, dpdkVars, callVars>>

CtlDel(i) ==
    /\ i \in tree
    /\ tree' = tree \ {i}
    /\ freed' = freed \cup {i}
    /\ UNCHANGED <<listVars, dpdkVars, callVars>>

-----------------------------------------------------------------------------
(***************************************************************************)
(* epoll_event_callback on the DPDK thread.                                *)
(***************************************************************************)

Find(i) ==
    /\ dpc = "idle"
    /\ i \in tree
    /\ epi' = i
    /\ dpc' = "found"
    /\ UNCHANGED <<tree, freed, listVars, callVars>>

\* Faulty variant: ready is not tested.
TestUnready ==
    /\ dpc = "found"
    /\ epi \notin freed
    /\ dpc' = "add"
    /\ UNCHANGED <<tree, freed, epi, listVars, callVars>>

\* The test of epi->ready, without a lock.
TestReady ==
    /\ dpc = "found"
    /\ epi \notin freed
    /\ dpc' = IF ready[epi] THEN "idle" ELSE "add"
    /\ UNCHANGED <<tree, freed, epi, listVars, callVars>>

\* The section under the spin lock.  Linking writes to the first item too.
AddReady ==
    /\ dpc = "add"
    /\ epi \notin freed
    /\ list # <<>> => Head(list) \notin freed
    /\ ready' = [ready EXCEPT ![epi] = TRUE]
    /\ list' = <<epi>> \o list
    /\ ready_num' = ready_num + 1
    /\ dpc' = "signal"
    /\ UNCHANGED <<tree, freed, fresh_num, epi, callVars>>

Asleep == {t \in Threads : wpc[t] = "asleep"}

\* Faulty variants: the signal is sent without cdmtx; it is not sent.
SignalUnlocked ==
    /\ dpc = "signal"
    /\ IF Asleep = {}
       THEN UNCHANGED wpc
       ELSE \E t \in Asleep : wpc' = [wpc EXCEPT ![t] = "woken"]
    /\ dpc' = "idle"
    /\ UNCHANGED <<tree, freed, epi, listVars, timeout, cdmtx>>

SignalNobody ==
    /\ dpc = "signal"
    /\ cdmtx = Nil
    /\ dpc' = "idle"
    /\ UNCHANGED <<tree, freed, epi, listVars, callVars>>

\* pthread_cond_signal wakes one of the threads that sleep, if any.
Signal ==
    /\ dpc = "signal"
    /\ cdmtx = Nil
    /\ IF Asleep = {}
       THEN UNCHANGED wpc
       ELSE \E t \in Asleep : wpc' = [wpc EXCEPT ![t] = "woken"]
    /\ dpc' = "idle"
    /\ UNCHANGED <<tree, freed, epi, listVars, timeout, cdmtx>>

-----------------------------------------------------------------------------
(***************************************************************************)
(* xy_epoll_wait on an application thread.                                 *)
(***************************************************************************)

Wait(t) ==
    /\ wpc[t] = "idle"
    /\ wpc' = [wpc EXCEPT ![t] = "enter"]
    /\ \E w \in {-1, 0, 1} : timeout' = [timeout EXCEPT ![t] = w]
    /\ UNCHANGED <<tree, freed, listVars, dpdkVars, cdmtx>>

\* Faulty variant: the timeout also counts down when there is none.
LockCountsDown(t) ==
    /\ wpc[t] \in {"enter", "woken"}
    /\ cdmtx = Nil
    /\ cdmtx' = t
    /\ wpc' = [wpc EXCEPT ![t] = "test"]
    /\ timeout' = IF wpc[t] = "woken"
                  THEN [timeout EXCEPT ![t] = @ - 1]
                  ELSE timeout
    /\ UNCHANGED <<tree, freed, listVars, dpdkVars>>

\* cdmtx is locked, at the beginning or when the wait ends; one wait is all a
\* call with a timeout makes.
Lock(t) ==
    /\ wpc[t] \in {"enter", "woken"}
    /\ cdmtx = Nil
    /\ cdmtx' = t
    /\ wpc' = [wpc EXCEPT ![t] = "test"]
    /\ timeout' = IF wpc[t] = "woken" /\ timeout[t] = 1
                  THEN [timeout EXCEPT ![t] = 0]
                  ELSE timeout
    /\ UNCHANGED <<tree, freed, listVars, dpdkVars>>

\* The test of ready_num, under cdmtx only.
Test(t) ==
    /\ wpc[t] = "test"
    /\ IF ready_num = 0 /\ timeout[t] # 0
       THEN wpc' = [wpc EXCEPT ![t] = "wait"] /\ UNCHANGED cdmtx
       ELSE wpc' = [wpc EXCEPT ![t] = "collect"] /\ cdmtx' = Nil
    /\ UNCHANGED <<tree, freed, listVars, dpdkVars, timeout>>

\* pthread_cond_wait: to sleep and to unlock is one.
Sleep(t) ==
    /\ wpc[t] = "wait"
    /\ wpc' = [wpc EXCEPT ![t] = "asleep"]
    /\ cdmtx' = Nil
    /\ UNCHANGED <<tree, freed, listVars, dpdkVars, timeout>>

\* The time is over, or the system wakes the thread for no reason.
WakeUp(t) ==
    /\ wpc[t] = "asleep"
    /\ wpc' = [wpc EXCEPT ![t] = "woken"]
    /\ UNCHANGED <<tree, freed, listVars, dpdkVars, timeout, cdmtx>>

\* How many items a thread takes: at most max_events, ready_num, and the list.
\* A negative number never counts down to 0, and the thread takes the whole list.
Taken ==
    LET num == IF ready_num > MaxEvents THEN MaxEvents ELSE ready_num
    IN  IF num < 0 \/ num > Len(list) THEN Len(list) ELSE num

\* Faulty variant: the items are not counted.
CollectAgain(t) ==
    /\ wpc[t] = "collect"
    /\ \A k \in 1 .. Len(list) : k <= Taken + 1 => list[k] \notin freed
    /\ list' = SubSeq(list, Taken + 1, Len(list))
    /\ ready' = [i \in Items |-> ready[i] /\ \A k \in 1 .. Taken : list[k] # i]
    /\ wpc' = [wpc EXCEPT ![t] = "idle"]
    /\ UNCHANGED <<tree, freed, ready_num, fresh_num, dpdkVars, timeout, cdmtx>>

\* The section under the spin lock.  To unlink the last item taken writes to
\* the one after it.
Collect(t) ==
    /\ wpc[t] = "collect"
    /\ \A k \in 1 .. Len(list) : k <= Taken + 1 => list[k] \notin freed
    /\ list' = SubSeq(list, Taken + 1, Len(list))
    /\ ready' = [i \in Items |-> ready[i] /\ \A k \in 1 .. Taken : list[k] # i]
    /\ ready_num' = ready_num - Taken
    /\ wpc' = [wpc EXCEPT ![t] = "idle"]
    /\ UNCHANGED <<tree, freed, fresh_num, dpdkVars, timeout, cdmtx>>

-----------------------------------------------------------------------------
Ctl == \E i \in Items : CtlAdd(i) \/ CtlDel(i)

Callback == (\E i \in Items : Find(i)) \/ TestReady \/ AddReady \/ Signal

Call(t) == Wait(t) \/ Lock(t) \/ Test(t) \/ Sleep(t) \/ WakeUp(t) \/ Collect(t)

Next == Ctl \/ Callback \/ \E t \in Threads : Call(t)

Spec == Init /\ [][Next]_vars

\* The DPDK thread finishes a callback, a thread in xy_epoll_wait runs unless
\* it sleeps, and who asks for cdmtx gets it in the end.  No event has to come,
\* no thread has to call, and no sleeping thread has to wake by itself.
FairSpec ==
    /\ Spec
    /\ WF_vars(TestReady) /\ WF_vars(AddReady) /\ SF_vars(Signal)
    /\ \A t \in Threads :
          SF_vars(Lock(t)) /\ WF_vars(Test(t)) /\ WF_vars(Sleep(t)) /\ WF_vars(Collect(t))

-----------------------------------------------------------------------------
(***************************************************************************)
(* Properties.                                                             *)
(***************************************************************************)

\* Type invariant.
TypeOK ==
    /\ tree \subseteq Items
    /\ freed \subseteq Items
    /\ ready \in [Items -> BOOLEAN]
    /\ list \in Seq(Items)
    /\ ready_num \in Int
    /\ fresh_num \in Int
    /\ dpc \in {"idle", "found", "add", "signal"}
    /\ epi \in Items \cup {Nil}
    /\ wpc \in [Threads -> {"idle", "enter", "test", "wait", "asleep", "woken", "collect"}]
    /\ timeout \in [Threads -> {-1, 0, 1}]
    /\ cdmtx \in Threads \cup {Nil}

\* "ready: exist in list": although the callback tests ready without the lock,
\* an item is in the list at most once, and while it is there it is marked.
ListedOnce ==
    /\ \A k \in DOMAIN list : ready[list[k]]
    /\ \A j, k \in DOMAIN list : list[j] = list[k] => j = k

\* ready_num follows the length of the list through every interleaving of the
\* callback and the calls, and is never more wrong than it was when allocated.
CountsList ==
    [][ready_num' - ready_num = Len(list') - Len(list)]_vars

Sleepers == {t \in Threads : wpc[t] \in {"wait", "asleep"}}

Awake == {t \in Threads : wpc[t] \in {"enter", "woken", "test", "collect"}}

\* The items of the list that a ready_num that was negative does not count.
Overlooked == IF fresh_num < 0 THEN -fresh_num ELSE 0

\* No wakeup is lost: a thread sleeps beside ready items only while a signal is
\* due or another thread is on its way to collect.  The counter is tested under
\* cdmtx and changed under the spin lock (xy_epoll_wait, epoll_event_callback).
\* The exception is what malloc can do: with a counter that began below zero,
\* as many items as it was short of do not keep a thread from sleeping.
NoLostWakeup ==
    Sleepers # {} /\ Len(list) > Overlooked => dpc = "signal" \/ Awake # {}

\* An item of the list, or the one the callback has found, has been deleted.
Dangling ==
    \/ \E k \in DOMAIN list : list[k] \in freed
    \/ dpc \in {"found", "add"} /\ epi \in freed

\* Who sleeps while items are ready returns, unless others have taken them,
\* with the same exception.
SleeperReturns ==
    \A t \in Threads :
        t \in Asleep /\ Len(list) > Overlooked
            ~> wpc[t] = "idle" \/ Len(list) <= Overlooked \/ Dangling

-----------------------------------------------------------------------------
(***************************************************************************)
(* The inductive invariant behind ListedOnce and NoLostWakeup.             *)
(***************************************************************************)

\* Nobody else tests ready_num, or is about to sleep, at the same time.
TestsLocked == \A t \in Threads : wpc[t] \in {"test", "wait"} => cdmtx = t

\* The item the callback is going to add is not in the list.
FoundIsFree ==
    /\ dpc \in {"found", "add"} => epi \in Items
    /\ dpc = "add" => \A k \in DOMAIN list : list[k] # epi

\* ready_num is wrong by what malloc has left there, for ever.
CountsFromFresh == ready_num = fresh_num + Len(list)

\* A thread falls asleep at 0 only, so the counter was not too large.  While one
\* sleeps, each item the counter counts has a thread on its way to take one, or
\* its signal is due.
WakesEnough ==
    Sleepers # {} =>
        /\ ready_num \in 0 .. Len(list)
        /\ ready_num <= Cardinality(Awake) + (IF dpc = "signal" THEN 1 ELSE 0)

IInv ==
    /\ TypeOK
    /\ ListedOnce
    /\ TestsLocked
    /\ FoundIsFree
    /\ CountsFromFresh
    /\ WakesEnough

=============================================================================
