---------------------------- MODULE EpollProofs ----------------------------
(***************************************************************************)
(* Proofs about Epoll, for any number of threads and items: an item is     *)
(* listed once, the counter follows the list, and no wakeup is lost        *)
(* between the two locks.                                                  *)
(*                                                                         *)
(* A lemma says what each section under the spin lock does to the list;    *)
(* then one lemma for each part of IInv goes through the actions.          *)
(***************************************************************************)
EXTENDS Epoll, FiniteSetTheorems, SequenceTheorems, TLAPS

(***************************************************************************)
(* The list.                                                               *)
(***************************************************************************)

\* Positions that meet after the same shift are the same.
LEMMA SameShift ==
  ASSUME NEW a \in Int, NEW b \in Int, NEW c \in Int, c + a = c + b
  PROVE  a = b
  OBVIOUS

\* Linking a new item at the head of the list.
LEMMA AddedToList ==
  ASSUME NEW s \in Seq(Items), NEW i \in Items
  PROVE  /\ <<i>> \o s \in Seq(Items)
         /\ Len(<<i>> \o s) = Len(s) + 1
         /\ (<<i>> \o s)[1] = i
         /\ \A k \in 2 .. Len(s) + 1 : (<<i>> \o s)[k] = s[k - 1]
<1>1. <<i>> \in Seq(Items) /\ Len(<<i>>) = 1 /\ <<i>>[1] = i
  OBVIOUS
<1>2. Len(s) \in Nat
  OBVIOUS
<1>3. QED
  BY <1>1, <1>2, ConcatProperties

\* Taking the first n items away.
LEMMA RestOfList ==
  ASSUME NEW s \in Seq(Items), NEW n \in 0 .. Len(s)
  PROVE  LET rest == SubSeq(s, n + 1, Len(s))
         IN  /\ rest \in Seq(Items)
             /\ Len(rest) = Len(s) - n
             /\ \A k \in 1 .. Len(s) - n : rest[k] = s[n + k]
<1>1. Len(s) \in Nat /\ \A k \in n + 1 .. Len(s) : s[k] \in Items
  BY ElementOfSeq
<1>2. /\ SubSeq(s, n + 1, Len(s)) \in Seq(Items)
      /\ Len(SubSeq(s, n + 1, Len(s))) = IF n + 1 <= Len(s) THEN Len(s) - (n + 1) + 1 ELSE 0
      /\ \A k \in 1 .. Len(s) - (n + 1) + 1 : SubSeq(s, n + 1, Len(s))[k] = s[n + 1 + k - 1]
  BY <1>1, SubSeqProperties
<1>3. QED
  BY <1>1, <1>2

\* The number of items a thread takes.
LEMMA TakenType ==
  ASSUME TypeOK
  PROVE  /\ Taken \in 0 .. Len(list)
         /\ ready_num >= 0 => Taken <= ready_num
         /\ ready_num > 0 /\ Len(list) > 0 => Taken > 0
<1>1. ready_num \in Int /\ Len(list) \in Nat /\ MaxEvents \in Nat \ {0}
  BY EpollAssumption DEF TypeOK
<1>2. QED
  BY <1>1 DEF Taken

(***************************************************************************)
(* The parts of the invariant.                                             *)
(***************************************************************************)

LEMMA InitIInv == Init => IInv
<1>1. SUFFICES ASSUME Init
               PROVE  IInv
  OBVIOUS
<1>2. TypeOK
  BY <1>1, EpollAssumption DEF Init, TypeOK
<1>3. ListedOnce /\ TestsLocked /\ FoundIsFree
  BY <1>1 DEF Init, ListedOnce, TestsLocked, FoundIsFree
<1>4. Sleepers = {}
  BY <1>1 DEF Init, Sleepers
<1>5. CountsFromFresh
  BY <1>1, <1>2 DEF Init, TypeOK, CountsFromFresh
<1>6. QED
  BY <1>2, <1>3, <1>4, <1>5 DEF IInv, WakesEnough

LEMMA TypeStep ==
  ASSUME IInv, [Next]_vars
  PROVE  TypeOK'
<1>1. TypeOK /\ FoundIsFree
  BY DEF IInv
<1>2. CASE Ctl
  BY <1>1, <1>2 DEF Ctl, CtlAdd, CtlDel, TypeOK, listVars, dpdkVars, callVars
<1>3. ASSUME NEW i \in Items, Find(i)
      PROVE  TypeOK'
  BY <1>1, <1>3 DEF Find, TypeOK, listVars, callVars
<1>4. CASE TestReady
  BY <1>1, <1>4 DEF TestReady, TypeOK, listVars, callVars
<1>5. CASE AddReady
  <2>1. epi \in Items
    BY <1>1, <1>5 DEF AddReady, FoundIsFree
  <2>2. list' \in Seq(Items)
    BY <1>1, <1>5, <2>1, AddedToList DEF AddReady, TypeOK
  <2>3. QED
    BY <1>1, <1>5, <2>2 DEF AddReady, TypeOK, callVars
<1>6. CASE Signal
  BY <1>1, <1>6 DEF Signal, TypeOK, Asleep, listVars
<1>7. ASSUME NEW t \in Threads, Wait(t) \/ Lock(t) \/ Test(t) \/ Sleep(t) \/ WakeUp(t)
      PROVE  TypeOK'
  <2>1. CASE Wait(t)
    BY <1>1, <2>1 DEF Wait, TypeOK, listVars, dpdkVars
  <2>2. CASE Lock(t)
    BY <1>1, <2>2 DEF Lock, TypeOK, listVars, dpdkVars
  <2>3. CASE Test(t)
    BY <1>1, <2>3 DEF Test, TypeOK, listVars, dpdkVars
  <2>4. CASE Sleep(t) \/ WakeUp(t)
    BY <1>1, <2>4 DEF Sleep, WakeUp, TypeOK, listVars, dpdkVars
  <2>5. QED
    BY <1>7, <2>1, <2>2, <2>3, <2>4
<1>8. ASSUME NEW t \in Threads, Collect(t)
      PROVE  TypeOK'
  <2>1. list' \in Seq(Items)
    BY <1>1, <1>8, TakenType, RestOfList DEF Collect, TypeOK
  <2>2. ready_num' \in Int
    BY <1>1, <1>8, TakenType DEF Collect, TypeOK
  <2>3. QED
    BY <1>1, <1>8, <2>1, <2>2 DEF Collect, TypeOK, dpdkVars
<1>9. CASE UNCHANGED vars
  BY <1>1, <1>9 DEF vars, TypeOK
<1>10. QED
  BY <1>2, <1>3, <1>4, <1>5, <1>6, <1>7, <1>8, <1>9 DEF Next, Callback, Call

LEMMA ListStep ==
  ASSUME IInv, [Next]_vars
  PROVE  ListedOnce'
<1>1. TypeOK /\ ListedOnce /\ FoundIsFree
  BY DEF IInv
<1>2. CASE UNCHANGED listVars
  BY <1>1, <1>2 DEF ListedOnce, listVars
<1>3. CASE AddReady
  <2>1. /\ list \in Seq(Items) /\ Len(list) \in Nat /\ DOMAIN list = 1 .. Len(list)
        /\ epi \in Items
        /\ ready' = [ready EXCEPT ![epi] = TRUE] /\ list' = <<epi>> \o list
    BY <1>1, <1>3 DEF AddReady, TypeOK, FoundIsFree
  <2>2. /\ Len(list') = Len(list) + 1 /\ list'[1] = epi
        /\ \A k \in 2 .. Len(list) + 1 : list'[k] = list[k - 1]
        /\ DOMAIN list' = 1 .. Len(list) + 1
    BY <2>1, AddedToList
  <2>3. \A k \in 2 .. Len(list) + 1 : k - 1 \in DOMAIN list /\ list[k - 1] # epi /\ ready[list[k - 1]]
                                      /\ list[k - 1] \in Items
    <3>1. ASSUME NEW k \in 2 .. Len(list) + 1
          PROVE  k - 1 \in 1 .. Len(list)
      BY <2>1, <3>1
    <3>2. QED
      BY <1>1, <1>3, <2>1, <3>1, ElementOfSeq DEF AddReady, FoundIsFree, ListedOnce
  <2>4. \A k \in DOMAIN list' : ready'[list'[k]]
    BY <1>1, <2>1, <2>2, <2>3 DEF TypeOK
  <2>5. ASSUME NEW j \in DOMAIN list', NEW k \in DOMAIN list', list'[j] = list'[k]
        PROVE  j = k
    <3>1. CASE j = 1 \/ k = 1
      BY <2>1, <2>2, <2>3, <2>5, <3>1
    <3>2. CASE j # 1 /\ k # 1
      <4>1. j - 1 \in DOMAIN list /\ k - 1 \in DOMAIN list /\ list[j - 1] = list[k - 1]
        BY <2>1, <2>2, <2>5, <3>2
      <4>2. j - 1 = k - 1
        BY <1>1, <4>1 DEF ListedOnce
      <4>3. QED
        BY <2>1, <2>2, <4>2
    <3>3. QED
      BY <3>1, <3>2
  <2>6. QED
    BY <2>4, <2>5 DEF ListedOnce
<1>4. ASSUME NEW t \in Threads, Collect(t)
      PROVE  ListedOnce'
  <2>1. /\ list \in Seq(Items) /\ Len(list) \in Nat /\ DOMAIN list = 1 .. Len(list)
        /\ Taken \in 0 .. Len(list)
        /\ ready' = [i \in Items |-> ready[i] /\ \A k \in 1 .. Taken : list[k] # i]
        /\ list' = SubSeq(list, Taken + 1, Len(list))
    BY <1>1, <1>4, TakenType DEF Collect, TypeOK
  <2>2. /\ Len(list') = Len(list) - Taken
        /\ DOMAIN list' = 1 .. Len(list) - Taken
        /\ \A k \in 1 .. Len(list) - Taken : list'[k] = list[Taken + k]
    BY <2>1, RestOfList
  <2>3. \A k \in DOMAIN list' : Taken + k \in DOMAIN list
    <3>1. SUFFICES ASSUME NEW k \in 1 .. Len(list) - Taken
                   PROVE  Taken + k \in 1 .. Len(list)
      BY <2>1, <2>2
    <3>2. Taken \in Int /\ k \in Int /\ 1 <= k /\ k <= Len(list) - Taken /\ 0 <= Taken /\ Len(list) \in Int
      BY <2>1, <3>1
    <3>3. QED
      BY <3>2
  <2>4. ASSUME NEW k \in DOMAIN list'
        PROVE  ready'[list'[k]]
    <3>1. Taken + k \in DOMAIN list /\ list'[k] = list[Taken + k] /\ list[Taken + k] \in Items
      BY <2>1, <2>2, <2>3, <2>4, ElementOfSeq
    <3>2. \A j \in 1 .. Taken : j \in DOMAIN list /\ j # Taken + k
      <4>1. SUFFICES ASSUME NEW j \in 1 .. Taken
                     PROVE  j \in 1 .. Len(list) /\ j # Taken + k
        BY <2>1
      <4>2. k \in 1 .. Len(list) - Taken
        BY <2>2, <2>4
      <4>3. QED
        BY <2>1, <4>1, <4>2
    <3>3. \A j \in 1 .. Taken : list[j] # list[Taken + k]
      BY <1>1, <3>1, <3>2 DEF ListedOnce
    <3>4. ready[list[Taken + k]]
      BY <1>1, <3>1 DEF ListedOnce
    <3>5. QED
      BY <2>1, <3>1, <3>3, <3>4
  <2>5. ASSUME NEW j \in DOMAIN list', NEW k \in DOMAIN list', list'[j] = list'[k]
        PROVE  j = k
    <3>1. Taken + j = Taken + k
      BY <1>1, <2>2, <2>3, <2>5 DEF ListedOnce
    <3>2. j \in 1 .. Len(list) - Taken /\ k \in 1 .. Len(list) - Taken
      BY <2>2, <2>5
    <3>3. Taken \in Int /\ j \in Int /\ k \in Int
      BY <2>1, <3>2
    <3>4. QED
      BY <3>1, <3>3, SameShift
  <2>6. QED
    BY <2>4, <2>5 DEF ListedOnce
<1>5. QED
  BY <1>2, <1>3, <1>4
  DEF Next, Ctl, CtlAdd, CtlDel, Callback, Find, TestReady, Signal, Call, Wait, Lock, Test,
      Sleep, WakeUp, vars, listVars, dpdkVars, callVars

LEMMA LocksStep ==
  ASSUME IInv, [Next]_vars
  PROVE  TestsLocked'
<1>1. TypeOK /\ TestsLocked /\ Nil \notin Threads
  BY EpollAssumption DEF IInv
<1>2. CASE UNCHANGED <<wpc, cdmtx>>
  BY <1>1, <1>2 DEF TestsLocked
<1>3. CASE Signal
  BY <1>1, <1>3 DEF Signal, TestsLocked, TypeOK, Asleep
<1>4. ASSUME NEW t \in Threads, Wait(t) \/ WakeUp(t) \/ Collect(t)
      PROVE  TestsLocked'
  BY <1>1, <1>4 DEF Wait, WakeUp, Collect, TestsLocked, TypeOK
<1>5. ASSUME NEW t \in Threads, Lock(t)
      PROVE  TestsLocked'
  BY <1>1, <1>5 DEF Lock, TestsLocked, TypeOK
<1>6. ASSUME NEW t \in Threads, Test(t)
      PROVE  TestsLocked'
  BY <1>1, <1>6 DEF Test, TestsLocked, TypeOK
<1>7. ASSUME NEW t \in Threads, Sleep(t)
      PROVE  TestsLocked'
  BY <1>1, <1>7 DEF Sleep, TestsLocked, TypeOK
<1>8. QED
  BY <1>2, <1>3, <1>4, <1>5, <1>6, <1>7
  DEF Next, Ctl, CtlAdd, CtlDel, Callback, Find, TestReady, AddReady, Call, vars, callVars

LEMMA FoundStep ==
  ASSUME IInv, [Next]_vars
  PROVE  FoundIsFree'
<1>1. TypeOK /\ FoundIsFree /\ ListedOnce
  BY DEF IInv
<1>2. CASE UNCHANGED <<dpc, epi, list>>
  BY <1>1, <1>2 DEF FoundIsFree
<1>3. ASSUME NEW i \in Items, Find(i)
      PROVE  FoundIsFree'
  BY <1>3 DEF Find, FoundIsFree
<1>4. CASE TestReady
  BY <1>1, <1>4 DEF TestReady, FoundIsFree, ListedOnce, listVars
<1>5. CASE AddReady \/ Signal
  BY <1>5 DEF AddReady, Signal, FoundIsFree
<1>6. ASSUME NEW t \in Threads, Collect(t)
      PROVE  FoundIsFree'
  <2>1. /\ list \in Seq(Items) /\ Len(list) \in Nat /\ DOMAIN list = 1 .. Len(list)
        /\ Taken \in 0 .. Len(list)
        /\ list' = SubSeq(list, Taken + 1, Len(list))
        /\ dpc' = dpc /\ epi' = epi
    BY <1>1, <1>6, TakenType DEF Collect, TypeOK, dpdkVars
  <2>2. /\ DOMAIN list' = 1 .. Len(list) - Taken
        /\ \A k \in 1 .. Len(list) - Taken : list'[k] = list[Taken + k]
    BY <2>1, RestOfList
  <2>3. ASSUME NEW k \in 1 .. Len(list) - Taken
        PROVE  Taken + k \in 1 .. Len(list)
    BY <2>1, <2>3
  <2>4. QED
    BY <1>1, <2>1, <2>2, <2>3 DEF FoundIsFree
<1>7. QED
  BY <1>2, <1>3, <1>4, <1>5, <1>6
  DEF Next, Ctl, CtlAdd, CtlDel, Callback, Call, Wait, Lock, Test, Sleep, WakeUp, vars,
      listVars, dpdkVars, callVars

(***************************************************************************)
(* The counter.                                                            *)
(***************************************************************************)

LEMMA CountStep ==
  ASSUME IInv, [Next]_vars
  PROVE  ready_num' - ready_num = Len(list') - Len(list) \/ UNCHANGED vars
<1>1. TypeOK /\ ready_num \in Int /\ Len(list) \in Nat /\ list \in Seq(Items)
  BY DEF IInv, TypeOK
<1>2. CASE UNCHANGED <<list, ready_num>>
  BY <1>1, <1>2
<1>3. CASE AddReady
  <2>1. epi \in Items
    BY <1>3 DEF AddReady, IInv, FoundIsFree
  <2>2. Len(list') = Len(list) + 1 /\ ready_num' = ready_num + 1
    BY <1>1, <1>3, <2>1, AddedToList DEF AddReady
  <2>3. QED
    BY <1>1, <2>2
<1>4. ASSUME NEW t \in Threads, Collect(t)
      PROVE  ready_num' - ready_num = Len(list') - Len(list)
  <2>1. Taken \in 0 .. Len(list)
    BY <1>1, TakenType
  <2>2. Len(list') = Len(list) - Taken /\ ready_num' = ready_num - Taken
    BY <1>1, <1>4, <2>1, RestOfList DEF Collect
  <2>3. QED
    BY <1>1, <2>1, <2>2
<1>5. QED
  BY <1>2, <1>3, <1>4
  DEF Next, Ctl, CtlAdd, CtlDel, Callback, Find, TestReady, Signal, Call, Wait, Lock, Test,
      Sleep, WakeUp, vars, listVars, dpdkVars, callVars

LEMMA FreshStep ==
  ASSUME IInv, [Next]_vars
  PROVE  CountsFromFresh'
<1>1. /\ CountsFromFresh /\ TypeOK /\ TypeOK'
      /\ ready_num \in Int /\ fresh_num \in Int /\ Len(list) \in Nat
      /\ ready_num' \in Int /\ Len(list') \in Nat
  BY TypeStep DEF IInv, TypeOK
<1>2. fresh_num' = fresh_num
  BY DEF Next, Ctl, CtlAdd, CtlDel, Callback, Find, TestReady, AddReady, Signal, Call, Wait,
         Lock, Test, Sleep, WakeUp, Collect, vars, listVars, dpdkVars, callVars
<1>3. CASE UNCHANGED vars
  BY <1>1, <1>3 DEF CountsFromFresh, vars
<1>4. CASE ready_num' - ready_num = Len(list') - Len(list)
  BY <1>1, <1>2, <1>4 DEF CountsFromFresh
<1>5. QED
  BY <1>3, <1>4, CountStep

(***************************************************************************)
(* The threads that will collect.                                          *)
(***************************************************************************)

LEMMA AwakeFinite == IsFiniteSet(Awake) /\ Cardinality(Awake) \in Nat
<1>1. Awake \subseteq Threads /\ IsFiniteSet(Threads)
  BY EpollAssumption DEF Awake
<1>2. IsFiniteSet(Awake)
  BY <1>1, FS_Subset
<1>3. QED
  BY <1>2, FS_CardinalityType

\* A thread joins them.
LEMMA OneMoreAwake ==
  ASSUME NEW t \in Threads, t \notin Awake, Awake' = Awake \cup {t}
  PROVE  Cardinality(Awake') = Cardinality(Awake) + 1
  BY AwakeFinite, FS_AddElement

\* One of them leaves.
LEMMA OneLessAwake ==
  ASSUME NEW t \in Awake, Awake' = Awake \ {t}
  PROVE  Cardinality(Awake') = Cardinality(Awake) - 1
  BY AwakeFinite, FS_RemoveElement

\* The test and the wait are one section under cdmtx, so the signal either comes
\* before the test or finds the thread asleep; and every collection takes as
\* many items as one wakeup stands for.
LEMMA WakesStep ==
  ASSUME IInv, [Next]_vars
  PROVE  WakesEnough'
<1> DEFINE due == IF dpc = "signal" THEN 1 ELSE 0
<1>1. /\ TypeOK /\ TestsLocked /\ WakesEnough /\ Nil \notin Threads
      /\ CountsFromFresh /\ fresh_num \in Int
      /\ ready_num \in Int /\ Len(list) \in Nat /\ Cardinality(Awake) \in Nat
  BY EpollAssumption, AwakeFinite DEF IInv, TypeOK
<1>2. CASE /\ UNCHANGED <<list, ready_num, wpc>>
           /\ dpc # "signal"
  <2>1. Sleepers' = Sleepers /\ Awake' = Awake
    BY <1>2 DEF Sleepers, Awake
  <2>2. QED
    BY <1>1, <1>2, <2>1 DEF WakesEnough
<1>3. CASE UNCHANGED <<list, ready_num, wpc, dpc>>
  <2>1. Sleepers' = Sleepers /\ Awake' = Awake
    BY <1>3 DEF Sleepers, Awake
  <2>2. QED
    BY <1>1, <1>3, <2>1 DEF WakesEnough
<1>4. CASE AddReady
  <2>1. epi \in Items /\ list \in Seq(Items)
    BY <1>4 DEF AddReady, IInv, FoundIsFree, TypeOK
  <2>2. Len(list') = Len(list) + 1 /\ ready_num' = ready_num + 1
    BY <1>4, <2>1, AddedToList DEF AddReady
  <2>3. Sleepers' = Sleepers /\ Awake' = Awake /\ dpc = "add" /\ dpc' = "signal"
    BY <1>4 DEF AddReady, Sleepers, Awake, callVars
  <2>4. Cardinality(Awake') = Cardinality(Awake)
    BY <2>3
  <2>5. QED
    BY <1>1, <2>2, <2>3, <2>4 DEF WakesEnough
<1>5. CASE Signal
  <2>1. list' = list /\ ready_num' = ready_num /\ dpc = "signal" /\ dpc' = "idle"
    BY <1>5 DEF Signal, listVars
  <2>2. CASE Asleep = {}
    <3>1. Sleepers = {} /\ wpc' = wpc
      BY <1>1, <1>5, <2>2 DEF Signal, Sleepers, Asleep, TestsLocked
    <3>2. Sleepers' = {}
      BY <3>1 DEF Sleepers
    <3>3. QED
      BY <1>1, <2>1, <3>2 DEF WakesEnough
  <2>3. CASE Asleep # {}
    <3>1. PICK t \in Asleep : wpc' = [wpc EXCEPT ![t] = "woken"]
      BY <1>5, <2>3 DEF Signal
    <3>2. t \in Threads /\ t \notin Awake /\ Awake' = Awake \cup {t} /\ Sleepers # {}
      BY <1>1, <3>1 DEF Asleep, Awake, Sleepers, TypeOK
    <3>3. Cardinality(Awake') = Cardinality(Awake) + 1
      BY <3>2, OneMoreAwake
    <3>4. QED
      BY <1>1, <2>1, <3>2, <3>3 DEF WakesEnough
  <2>4. QED
    BY <2>2, <2>3
<1>6. ASSUME NEW t \in Threads, Wait(t) \/ WakeUp(t)
      PROVE  WakesEnough'
  <2>1. UNCHANGED <<list, ready_num, dpc>>
    BY <1>6 DEF Wait, WakeUp, listVars, dpdkVars
  <2>2. t \notin Awake /\ Awake' = Awake \cup {t} /\ Sleepers' \subseteq Sleepers
    BY <1>1, <1>6 DEF Wait, WakeUp, Awake, Sleepers, TypeOK
  <2>3. Cardinality(Awake') = Cardinality(Awake) + 1
    BY <2>2, OneMoreAwake
  <2>4. QED
    BY <1>1, <2>1, <2>2, <2>3 DEF WakesEnough
<1>7. ASSUME NEW t \in Threads, Lock(t) \/ Sleep(t)
      PROVE  WakesEnough'
  <2>1. UNCHANGED <<list, ready_num, dpc>>
    BY <1>7 DEF Lock, Sleep, listVars, dpdkVars
  <2>2. Awake' = Awake /\ Sleepers' = Sleepers
    BY <1>1, <1>7 DEF Lock, Sleep, Awake, Sleepers, TypeOK
  <2>3. QED
    BY <1>1, <2>1, <2>2 DEF WakesEnough
<1>8. ASSUME NEW t \in Threads, Test(t)
      PROVE  WakesEnough'
  <2>1. UNCHANGED <<list, ready_num, dpc>>
    BY <1>8 DEF Test, listVars, dpdkVars
  <2>2. CASE ready_num = 0
    <3>1. Cardinality(Awake)' \in Nat
      <4>1. Awake' \subseteq Threads /\ IsFiniteSet(Threads)
        BY EpollAssumption DEF Awake
      <4>2. QED
        BY <4>1, FS_Subset, FS_CardinalityType
    <3>2. QED
      BY <1>1, <2>1, <2>2, <3>1 DEF WakesEnough
  <2>3. CASE ready_num # 0
    <3>1. Awake' = Awake /\ Sleepers' = Sleepers
      BY <1>1, <1>8, <2>3 DEF Test, Awake, Sleepers, TypeOK
    <3>2. QED
      BY <1>1, <2>1, <3>1 DEF WakesEnough
  <2>4. QED
    BY <2>2, <2>3
<1>9. ASSUME NEW t \in Threads, Collect(t)
      PROVE  WakesEnough'
  <2>1. /\ Taken \in 0 .. Len(list)
        /\ ready_num >= 0 => Taken <= ready_num
        /\ ready_num > 0 /\ Len(list) > 0 => Taken > 0
        /\ ready_num' = ready_num - Taken
        /\ list \in Seq(Items) /\ list' = SubSeq(list, Taken + 1, Len(list))
        /\ dpc' = dpc
    BY <1>1, <1>9, TakenType DEF Collect, TypeOK, dpdkVars
  <2>2. Len(list') = Len(list) - Taken
    BY <2>1, RestOfList
  <2>3. t \in Awake /\ Awake' = Awake \ {t} /\ Sleepers' = Sleepers
    BY <1>1, <1>9 DEF Collect, Awake, Sleepers, TypeOK
  <2>4. Cardinality(Awake') = Cardinality(Awake) - 1
    BY <2>3, OneLessAwake
  <2>5. Cardinality(Awake) >= 1
    <3>1. Cardinality(Awake') \in Nat
      <4>1. Awake' \subseteq Threads /\ IsFiniteSet(Threads)
        BY EpollAssumption DEF Awake
      <4>2. QED
        BY <4>1, FS_Subset, FS_CardinalityType
    <3>2. QED
      BY <1>1, <2>4, <3>1
  <2>6. QED
    BY <1>1, <2>1, <2>2, <2>3, <2>4, <2>5 DEF WakesEnough
<1>10. QED
  BY <1>2, <1>3, <1>4, <1>5, <1>6, <1>7, <1>8, <1>9
  DEF Next, Ctl, CtlAdd, CtlDel, Callback, Find, TestReady, Call, vars, listVars, dpdkVars, callVars

\* IInv holds in every reachable state, for any number of threads and items and
\* whatever malloc leaves in ready and ready_num.
THEOREM Invariance == Spec => []IInv
<1>1. Init => IInv
  BY InitIInv
<1>2. IInv /\ [Next]_vars => IInv'
  BY TypeStep, ListStep, LocksStep, FoundStep, FreshStep, WakesStep DEF IInv
<1>3. QED
  BY <1>1, <1>2, PTL DEF Spec

\* Every variable keeps to its type, whatever malloc leaves in ready_num.
THEOREM TypeCorrect == Spec => []TypeOK
<1>1. IInv => TypeOK
  BY DEF IInv
<1>2. QED
  BY <1>1, Invariance, PTL

\* An item is in the ready list at most once although epoll_event_callback tests
\* ready without the lock.
THEOREM ItemIsListedOnce == Spec => []ListedOnce
<1>1. IInv => ListedOnce
  BY DEF IInv
<1>2. QED
  BY <1>1, Invariance, PTL

\* No wakeup is lost between the test under cdmtx and the count under the spin
\* lock, for any number of threads in xy_epoll_wait; a counter that malloc has
\* left below zero hides as many items as it was short of, and no more.
THEOREM WakeupIsNotLost == Spec => []NoLostWakeup
<1>1. IInv => NoLostWakeup
  <2>1. SUFFICES ASSUME IInv, Sleepers # {}, Len(list) > Overlooked, dpc # "signal", Awake = {}
                 PROVE  FALSE
    BY DEF NoLostWakeup
  <2>2. Cardinality(Awake) = 0
    BY <2>1, FS_EmptySet
  <2>3. ready_num = 0
    BY <2>1, <2>2 DEF IInv, WakesEnough
  <2>4. fresh_num \in Int /\ Len(list) \in Nat /\ ready_num = fresh_num + Len(list)
    BY <2>1 DEF IInv, TypeOK, CountsFromFresh
  <2>5. QED
    BY <2>1, <2>3, <2>4 DEF Overlooked
<1>2. QED
  BY <1>1, Invariance, PTL

\* ready_num changes as the length of the ready list does, through every
\* interleaving of the callback and the calls.
THEOREM CounterFollowsList == Spec => CountsList
<1>1. IInv /\ [Next]_vars => [ready_num' - ready_num = Len(list') - Len(list)]_vars
  BY CountStep
<1>2. QED
  BY <1>1, Invariance, PTL DEF Spec, CountsList

=============================================================================
