-------------------------- MODULE EventQueueProofs --------------------------
(***************************************************************************)
(* Proofs about EventQueue for any number of callers and any operations.   *)
(* Type correctness is of everything the code can do.  Under SteadySpec,   *)
(* that is while nobody uses a frame again that another caller holds as    *)
(* its predecessor, the list the DPDK thread walks is sound, an operation  *)
(* is carried out at most once and for a waiting caller, and the queue     *)
(* with its handshake implements the safety part of SyncCall.              *)
(*                                                                         *)
(* Each action has a lemma that it preserves IInv, with one step for each  *)
(* part of IInv the action can disturb.                                    *)
(***************************************************************************)
EXTENDS EventQueue, TLAPS

LEMMA InitTypeOK == Init => TypeOK
  BY CallersAssumption
  DEF Init, TypeOK, HoldsPred, CallerPc, LinkPc, DpdkPc, Nodes, Head, Tail, Dpdk, Free

LEMMA InitIInv == Init => IInv
<1>1. SUFFICES ASSUME Init
               PROVE  IInv
  OBVIOUS
<1>2. Linked = {Head}
  BY <1>1 DEF Init, Linked, Queued, LinkPc
<1>3. LocksHeld
  BY <1>1, CallersAssumption DEF Init, LocksHeld, LinkPc, Nodes, Head, Tail, Dpdk, Free
<1>4. QueueSound
  BY <1>1, <1>2, CallersAssumption DEF Init, QueueSound, Nodes, Head, Tail
<1>5. LedToByPred /\ TakesFirst /\ HandlesWaiting /\ AnswersOnce
  BY <1>1 DEF Init, LedToByPred, TakesFirst, HandlesWaiting, AnswersOnce, LinkPc
<1>6. QED
  BY <1>1, <1>3, <1>4, <1>5, InitTypeOK DEF IInv

USE CallersAssumption DEF Nodes, Head, Tail, Dpdk, Free

LEMMA TypeStep ==
  ASSUME TypeOK, [Next]_vars
  PROVE  TypeOK'
<1>1. CASE UNCHANGED vars
  BY <1>1 DEF vars, TypeOK, HoldsPred
<1>2. ASSUME NEW c \in Callers, NEW o \in Ops, Call(c, o)
      PROVE  TypeOK'
  BY <1>2 DEF Call, TypeOK, HoldsPred, CallerPc, LinkPc
<1>3. ASSUME NEW c \in Callers, ReadPrev(c)
      PROVE  TypeOK'
  BY <1>3 DEF ReadPrev, TypeOK, HoldsPred, CallerPc, LinkPc
<1>4. ASSUME NEW c \in Callers, LockPrev(c)
      PROVE  TypeOK'
  BY <1>4 DEF LockPrev, TypeOK, HoldsPred, CallerPc, LinkPc
<1>5. ASSUME NEW c \in Callers, LockTail(c)
      PROVE  TypeOK'
  BY <1>5 DEF LockTail, TypeOK, HoldsPred, CallerPc, LinkPc
<1>6. ASSUME NEW c \in Callers, LinkPrevNext(c)
      PROVE  TypeOK'
  BY <1>6 DEF LinkPrevNext, TypeOK, HoldsPred, CallerPc, LinkPc
<1>7. ASSUME NEW c \in Callers, LinkNodeNext(c)
      PROVE  TypeOK'
  BY <1>7 DEF LinkNodeNext, TypeOK, HoldsPred, CallerPc, LinkPc
<1>8. ASSUME NEW c \in Callers, LinkTailPrev(c)
      PROVE  TypeOK'
  BY <1>8 DEF LinkTailPrev, TypeOK, HoldsPred, CallerPc, LinkPc
<1>9. ASSUME NEW c \in Callers, LinkNodePrev(c)
      PROVE  TypeOK'
  BY <1>9 DEF LinkNodePrev, TypeOK, HoldsPred, CallerPc, LinkPc
<1>10. ASSUME NEW c \in Callers, UnlockTail(c)
      PROVE  TypeOK'
  BY <1>10 DEF UnlockTail, TypeOK, HoldsPred, CallerPc, LinkPc
<1>11. ASSUME NEW c \in Callers, UnlockPrev(c)
      PROVE  TypeOK'
  BY <1>11 DEF UnlockPrev, TypeOK, HoldsPred, CallerPc, LinkPc
<1>12. ASSUME NEW c \in Callers, Sleep(c)
      PROVE  TypeOK'
  BY <1>12 DEF Sleep, TypeOK, HoldsPred, CallerPc, LinkPc
<1>13. ASSUME NEW c \in Callers, SpuriousWakeup(c)
      PROVE  TypeOK'
  BY <1>13 DEF SpuriousWakeup, TypeOK, HoldsPred, CallerPc, LinkPc
<1>14. ASSUME NEW c \in Callers, Return(c)
      PROVE  TypeOK'
  BY <1>14 DEF Return, TypeOK, HoldsPred, CallerPc, LinkPc
<1>15. ASSUME LockHead
      PROVE  TypeOK'
  BY <1>15 DEF LockHead, TypeOK, HoldsPred, CallerPc, LinkPc, DpdkPc
<1>16. ASSUME FoundEmpty
      PROVE  TypeOK'
  BY <1>16 DEF FoundEmpty, TypeOK, HoldsPred, CallerPc, LinkPc, DpdkPc
<1>17. ASSUME LockFirst
      PROVE  TypeOK'
  BY <1>17 DEF LockFirst, TypeOK, HoldsPred, CallerPc, LinkPc, DpdkPc
<1>18. ASSUME ReadSecond
      PROVE  TypeOK'
  BY <1>18 DEF ReadSecond, TypeOK, HoldsPred, CallerPc, LinkPc, DpdkPc
<1>19. ASSUME LockSecond
      PROVE  TypeOK'
  BY <1>19 DEF LockSecond, TypeOK, HoldsPred, CallerPc, LinkPc, DpdkPc
<1>20. ASSUME Unlink
      PROVE  TypeOK'
  BY <1>20 DEF Unlink, TypeOK, HoldsPred, CallerPc, LinkPc, DpdkPc
<1>21. ASSUME Handle
      PROVE  TypeOK'
  BY <1>21 DEF Handle, TypeOK, HoldsPred, CallerPc, LinkPc, DpdkPc
<1>22. ASSUME SetDone
      PROVE  TypeOK'
  BY <1>22 DEF SetDone, TypeOK, HoldsPred, CallerPc, LinkPc, DpdkPc
<1>23. ASSUME Notify
      PROVE  TypeOK'
  BY <1>23 DEF Notify, TypeOK, HoldsPred, CallerPc, LinkPc, DpdkPc
<1>24. QED
  BY <1>1, <1>2, <1>3, <1>4, <1>5, <1>6, <1>7, <1>8, <1>9, <1>10, <1>11,
     <1>12, <1>13, <1>14, <1>15, <1>16, <1>17, <1>18, <1>19, <1>20, <1>21,
     <1>22, <1>23
  DEF Next, Enqueue, EventHandle

LEMMA CallStep ==
  ASSUME IInv, TypeOK', NEW c \in Callers, NEW o \in Ops, Call(c, o), PredecessorStays
  PROVE  IInv'
<1>1. LocksHeld'
  BY DEF Call, IInv, TypeOK, LocksHeld, LinkPc, TakesFirst, PredecessorStays, HoldsPred,
         Linked, Queued
<1>2. QueueSound'
  BY DEF Call, IInv, TypeOK, QueueSound, Linked, Queued, NextIsSet, LinkPc
<1>3. LedToByPred'
  BY DEF Call, IInv, TypeOK, LedToByPred, Linked, Queued, NextIsSet, LinkPc
<1>4. TakesFirst'
  BY DEF Call, IInv, TypeOK, TakesFirst, Linked, Queued, LinkPc
<1>5. HandlesWaiting'
  BY DEF Call, IInv, TypeOK, HandlesWaiting
<1>6. AnswersOnce'
  BY DEF Call, IInv, TypeOK, AnswersOnce, Answered, HandlesWaiting
<1>7. QED
  BY <1>1, <1>2, <1>3, <1>4, <1>5, <1>6 DEF IInv

LEMMA ReadPrevStep ==
  ASSUME IInv, TypeOK', NEW c \in Callers, ReadPrev(c)
  PROVE  IInv'
<1>1. LocksHeld'
  BY DEF ReadPrev, IInv, TypeOK, LocksHeld, LinkPc
<1>2. QueueSound'
  BY DEF ReadPrev, IInv, TypeOK, QueueSound, Linked, Queued, NextIsSet, LinkPc
<1>3. LedToByPred'
  BY DEF ReadPrev, IInv, TypeOK, LedToByPred, Linked, Queued, NextIsSet, LinkPc
<1>4. TakesFirst'
  BY DEF ReadPrev, IInv, TypeOK, TakesFirst, Linked, Queued, LinkPc
<1>5. HandlesWaiting'
  BY DEF ReadPrev, IInv, TypeOK, HandlesWaiting
<1>6. AnswersOnce'
  BY DEF ReadPrev, IInv, TypeOK, AnswersOnce, Answered
<1>7. QED
  BY <1>1, <1>2, <1>3, <1>4, <1>5, <1>6 DEF IInv

LEMMA LockPrevStep ==
  ASSUME IInv, TypeOK', NEW c \in Callers, LockPrev(c)
  PROVE  IInv'
<1>1. LocksHeld'
  BY DEF LockPrev, IInv, TypeOK, LocksHeld, LinkPc
<1>2. QueueSound'
  BY DEF LockPrev, IInv, TypeOK, QueueSound, Linked, Queued, NextIsSet, LinkPc
<1>3. LedToByPred'
  BY DEF LockPrev, IInv, TypeOK, LedToByPred, Linked, Queued, NextIsSet, LinkPc
<1>4. TakesFirst'
  BY DEF LockPrev, IInv, TypeOK, TakesFirst, Linked, Queued, LinkPc
<1>5. HandlesWaiting'
  BY DEF LockPrev, IInv, TypeOK, HandlesWaiting
<1>6. AnswersOnce'
  BY DEF LockPrev, IInv, TypeOK, AnswersOnce, Answered
<1>7. QED
  BY <1>1, <1>2, <1>3, <1>4, <1>5, <1>6 DEF IInv

LEMMA LockTailStep ==
  ASSUME IInv, TypeOK', NEW c \in Callers, LockTail(c)
  PROVE  IInv'
<1>1. LocksHeld'
  BY DEF LockTail, IInv, TypeOK, LocksHeld, LinkPc
<1>2. QueueSound'
  BY DEF LockTail, IInv, TypeOK, QueueSound, Linked, Queued, NextIsSet, LinkPc
<1>3. LedToByPred'
  BY DEF LockTail, IInv, TypeOK, LedToByPred, Linked, Queued, NextIsSet, LinkPc
<1>4. TakesFirst'
  BY DEF LockTail, IInv, TypeOK, TakesFirst, Linked, Queued, LinkPc
<1>5. HandlesWaiting'
  BY DEF LockTail, IInv, TypeOK, HandlesWaiting
<1>6. AnswersOnce'
  BY DEF LockTail, IInv, TypeOK, AnswersOnce, Answered
<1>7. QED
  BY <1>1, <1>2, <1>3, <1>4, <1>5, <1>6 DEF IInv

LEMMA LinkPrevNextStep ==
  ASSUME IInv, TypeOK', NEW c \in Callers, LinkPrevNext(c)
  PROVE  IInv'
<1>1. LocksHeld'
  BY DEF LinkPrevNext, IInv, TypeOK, LocksHeld, LinkPc
<1>2. QueueSound'
  BY DEF LinkPrevNext, IInv, TypeOK, QueueSound, Linked, Queued, NextIsSet, LinkPc,
         LocksHeld, TakesFirst, AnswersOnce, HandlesWaiting
<1>3. LedToByPred'
  BY DEF LinkPrevNext, IInv, TypeOK, LedToByPred, Linked, Queued, NextIsSet, LinkPc,
         QueueSound, LocksHeld, AnswersOnce
<1>4. TakesFirst'
  BY DEF LinkPrevNext, IInv, TypeOK, TakesFirst, Linked, Queued, LinkPc, LocksHeld,
         AnswersOnce, HandlesWaiting, QueueSound
<1>5. HandlesWaiting'
  BY DEF LinkPrevNext, IInv, TypeOK, HandlesWaiting
<1>6. AnswersOnce'
  BY DEF LinkPrevNext, IInv, TypeOK, AnswersOnce, Answered
<1>7. QED
  BY <1>1, <1>2, <1>3, <1>4, <1>5, <1>6 DEF IInv

LEMMA LinkNodeNextStep ==
  ASSUME IInv, TypeOK', NEW c \in Callers, LinkNodeNext(c)
  PROVE  IInv'
<1>1. LocksHeld'
  BY DEF LinkNodeNext, IInv, TypeOK, LocksHeld, LinkPc
<1>2. QueueSound'
  BY DEF LinkNodeNext, IInv, TypeOK, QueueSound, Linked, Queued, NextIsSet, LinkPc,
         LedToByPred, LocksHeld
<1>3. LedToByPred'
  BY DEF LinkNodeNext, IInv, TypeOK, LedToByPred, Linked, Queued, NextIsSet, LinkPc,
         LocksHeld
<1>4. TakesFirst'
  BY DEF LinkNodeNext, IInv, TypeOK, TakesFirst, Linked, Queued, LinkPc, LedToByPred,
         LocksHeld
<1>5. HandlesWaiting'
  BY DEF LinkNodeNext, IInv, TypeOK, HandlesWaiting
<1>6. AnswersOnce'
  BY DEF LinkNodeNext, IInv, TypeOK, AnswersOnce, Answered
<1>7. QED
  BY <1>1, <1>2, <1>3, <1>4, <1>5, <1>6 DEF IInv

LEMMA LinkTailPrevStep ==
  ASSUME IInv, TypeOK', NEW c \in Callers, LinkTailPrev(c)
  PROVE  IInv'
<1>1. LocksHeld'
  BY DEF LinkTailPrev, IInv, TypeOK, LocksHeld, LinkPc
<1>2. QueueSound'
  BY DEF LinkTailPrev, IInv, TypeOK, QueueSound, Linked, Queued, NextIsSet, LinkPc
<1>3. LedToByPred'
  BY DEF LinkTailPrev, IInv, TypeOK, LedToByPred, Linked, Queued, NextIsSet, LinkPc
<1>4. TakesFirst'
  BY DEF LinkTailPrev, IInv, TypeOK, TakesFirst, Linked, Queued, LinkPc
<1>5. HandlesWaiting'
  BY DEF LinkTailPrev, IInv, TypeOK, HandlesWaiting
<1>6. AnswersOnce'
  BY DEF LinkTailPrev, IInv, TypeOK, AnswersOnce, Answered
<1>7. QED
  BY <1>1, <1>2, <1>3, <1>4, <1>5, <1>6 DEF IInv

LEMMA LinkNodePrevStep ==
  ASSUME IInv, TypeOK', NEW c \in Callers, LinkNodePrev(c)
  PROVE  IInv'
<1>1. LocksHeld'
  BY DEF LinkNodePrev, IInv, TypeOK, LocksHeld, LinkPc
<1>2. QueueSound'
  BY DEF LinkNodePrev, IInv, TypeOK, QueueSound, Linked, Queued, NextIsSet, LinkPc
<1>3. LedToByPred'
  BY DEF LinkNodePrev, IInv, TypeOK, LedToByPred, Linked, Queued, NextIsSet, LinkPc
<1>4. TakesFirst'
  BY DEF LinkNodePrev, IInv, TypeOK, TakesFirst, Linked, Queued, LinkPc
<1>5. HandlesWaiting'
  BY DEF LinkNodePrev, IInv, TypeOK, HandlesWaiting
<1>6. AnswersOnce'
  BY DEF LinkNodePrev, IInv, TypeOK, AnswersOnce, Answered
<1>7. QED
  BY <1>1, <1>2, <1>3, <1>4, <1>5, <1>6 DEF IInv

LEMMA UnlockTailStep ==
  ASSUME IInv, TypeOK', NEW c \in Callers, UnlockTail(c)
  PROVE  IInv'
<1>1. LocksHeld'
  BY DEF UnlockTail, IInv, TypeOK, LocksHeld, LinkPc
<1>2. QueueSound'
  BY DEF UnlockTail, IInv, TypeOK, QueueSound, Linked, Queued, NextIsSet, LinkPc
<1>3. LedToByPred'
  BY DEF UnlockTail, IInv, TypeOK, LedToByPred, Linked, Queued, NextIsSet, LinkPc
<1>4. TakesFirst'
  BY DEF UnlockTail, IInv, TypeOK, TakesFirst, Linked, Queued, LinkPc
<1>5. HandlesWaiting'
  BY DEF UnlockTail, IInv, TypeOK, HandlesWaiting
<1>6. AnswersOnce'
  BY DEF UnlockTail, IInv, TypeOK, AnswersOnce, Answered
<1>7. QED
  BY <1>1, <1>2, <1>3, <1>4, <1>5, <1>6 DEF IInv

LEMMA UnlockPrevStep ==
  ASSUME IInv, TypeOK', NEW c \in Callers, UnlockPrev(c)
  PROVE  IInv'
<1>1. LocksHeld'
  BY DEF UnlockPrev, IInv, TypeOK, LocksHeld, LinkPc
<1>2. QueueSound'
  BY DEF UnlockPrev, IInv, TypeOK, QueueSound, Linked, Queued, NextIsSet, LinkPc
<1>3. LedToByPred'
  BY DEF UnlockPrev, IInv, TypeOK, LedToByPred, Linked, Queued, NextIsSet, LinkPc
<1>4. TakesFirst'
  BY DEF UnlockPrev, IInv, TypeOK, TakesFirst, Linked, Queued, LinkPc
<1>5. HandlesWaiting'
  BY DEF UnlockPrev, IInv, TypeOK, HandlesWaiting
<1>6. AnswersOnce'
  BY DEF UnlockPrev, IInv, TypeOK, AnswersOnce, Answered
<1>7. QED
  BY <1>1, <1>2, <1>3, <1>4, <1>5, <1>6 DEF IInv

LEMMA SleepStep ==
  ASSUME IInv, TypeOK', NEW c \in Callers, Sleep(c)
  PROVE  IInv'
<1>1. LocksHeld'
  BY DEF Sleep, IInv, TypeOK, LocksHeld, LinkPc
<1>2. QueueSound'
  BY DEF Sleep, IInv, TypeOK, QueueSound, Linked, Queued, NextIsSet, LinkPc
<1>3. LedToByPred'
  BY DEF Sleep, IInv, TypeOK, LedToByPred, Linked, Queued, NextIsSet, LinkPc
<1>4. TakesFirst'
  BY DEF Sleep, IInv, TypeOK, TakesFirst, Linked, Queued, LinkPc
<1>5. HandlesWaiting'
  BY DEF Sleep, IInv, TypeOK, HandlesWaiting
<1>6. AnswersOnce'
  BY DEF Sleep, IInv, TypeOK, AnswersOnce, Answered
<1>7. QED
  BY <1>1, <1>2, <1>3, <1>4, <1>5, <1>6 DEF IInv

LEMMA SpuriousWakeupStep ==
  ASSUME IInv, TypeOK', NEW c \in Callers, SpuriousWakeup(c)
  PROVE  IInv'
<1>1. LocksHeld'
  BY DEF SpuriousWakeup, IInv, TypeOK, LocksHeld, LinkPc
<1>2. QueueSound'
  BY DEF SpuriousWakeup, IInv, TypeOK, QueueSound, Linked, Queued, NextIsSet, LinkPc
<1>3. LedToByPred'
  BY DEF SpuriousWakeup, IInv, TypeOK, LedToByPred, Linked, Queued, NextIsSet, LinkPc
<1>4. TakesFirst'
  BY DEF SpuriousWakeup, IInv, TypeOK, TakesFirst, Linked, Queued, LinkPc
<1>5. HandlesWaiting'
  BY DEF SpuriousWakeup, IInv, TypeOK, HandlesWaiting
<1>6. AnswersOnce'
  BY DEF SpuriousWakeup, IInv, TypeOK, AnswersOnce, Answered
<1>7. QED
  BY <1>1, <1>2, <1>3, <1>4, <1>5, <1>6 DEF IInv

LEMMA ReturnStep ==
  ASSUME IInv, TypeOK', NEW c \in Callers, Return(c)
  PROVE  IInv'
<1>1. LocksHeld'
  BY DEF Return, IInv, TypeOK, LocksHeld, LinkPc
<1>2. QueueSound'
  BY DEF Return, IInv, TypeOK, QueueSound, Linked, Queued, NextIsSet, LinkPc
<1>3. LedToByPred'
  BY DEF Return, IInv, TypeOK, LedToByPred, Linked, Queued, NextIsSet, LinkPc
<1>4. TakesFirst'
  BY DEF Return, IInv, TypeOK, TakesFirst, Linked, Queued, LinkPc
<1>5. HandlesWaiting'
  BY DEF Return, IInv, TypeOK, HandlesWaiting
<1>6. AnswersOnce'
  BY DEF Return, IInv, TypeOK, AnswersOnce, Answered
<1>7. QED
  BY <1>1, <1>2, <1>3, <1>4, <1>5, <1>6 DEF IInv

LEMMA LockHeadStep ==
  ASSUME IInv, TypeOK', LockHead
  PROVE  IInv'
<1>1. LocksHeld'
  BY DEF LockHead, IInv, TypeOK, LocksHeld, LinkPc
<1>2. QueueSound'
  BY DEF LockHead, IInv, TypeOK, QueueSound, Linked, Queued, NextIsSet, LinkPc
<1>3. LedToByPred'
  BY DEF LockHead, IInv, TypeOK, LedToByPred, Linked, Queued, NextIsSet, LinkPc
<1>4. TakesFirst'
  BY DEF LockHead, IInv, TypeOK, TakesFirst, Linked, Queued, LinkPc
<1>5. HandlesWaiting'
  BY DEF LockHead, IInv, TypeOK, HandlesWaiting
<1>6. AnswersOnce'
  BY DEF LockHead, IInv, TypeOK, AnswersOnce, Answered
<1>7. QED
  BY <1>1, <1>2, <1>3, <1>4, <1>5, <1>6 DEF IInv

LEMMA FoundEmptyStep ==
  ASSUME IInv, TypeOK', FoundEmpty
  PROVE  IInv'
<1>1. LocksHeld'
  BY DEF FoundEmpty, IInv, TypeOK, LocksHeld, LinkPc
<1>2. QueueSound'
  BY DEF FoundEmpty, IInv, TypeOK, QueueSound, Linked, Queued, NextIsSet, LinkPc
<1>3. LedToByPred'
  BY DEF FoundEmpty, IInv, TypeOK, LedToByPred, Linked, Queued, NextIsSet, LinkPc
<1>4. TakesFirst'
  BY DEF FoundEmpty, IInv, TypeOK, TakesFirst, Linked, Queued, LinkPc
<1>5. HandlesWaiting'
  BY DEF FoundEmpty, IInv, TypeOK, HandlesWaiting
<1>6. AnswersOnce'
  BY DEF FoundEmpty, IInv, TypeOK, AnswersOnce, Answered
<1>7. QED
  BY <1>1, <1>2, <1>3, <1>4, <1>5, <1>6 DEF IInv

LEMMA LockFirstStep ==
  ASSUME IInv, TypeOK', LockFirst
  PROVE  IInv'
<1>1. LocksHeld'
  BY DEF LockFirst, IInv, TypeOK, LocksHeld, LinkPc, TakesFirst
<1>2. QueueSound'
  BY DEF LockFirst, IInv, TypeOK, QueueSound, Linked, Queued, NextIsSet, LinkPc
<1>3. LedToByPred'
  BY DEF LockFirst, IInv, TypeOK, LedToByPred, Linked, Queued, NextIsSet, LinkPc
<1>4. TakesFirst'
  BY DEF LockFirst, IInv, TypeOK, TakesFirst, Linked, Queued, LinkPc, LocksHeld,
         QueueSound, LedToByPred, NextIsSet
<1>5. HandlesWaiting'
  BY DEF LockFirst, IInv, TypeOK, HandlesWaiting
<1>6. AnswersOnce'
  BY DEF LockFirst, IInv, TypeOK, AnswersOnce, Answered
<1>7. QED
  BY <1>1, <1>2, <1>3, <1>4, <1>5, <1>6 DEF IInv

LEMMA ReadSecondStep ==
  ASSUME IInv, TypeOK', ReadSecond
  PROVE  IInv'
<1>1. LocksHeld'
  BY DEF ReadSecond, IInv, TypeOK, LocksHeld, LinkPc
<1>2. QueueSound'
  BY DEF ReadSecond, IInv, TypeOK, QueueSound, Linked, Queued, NextIsSet, LinkPc,
         TakesFirst
<1>3. LedToByPred'
  BY DEF ReadSecond, IInv, TypeOK, LedToByPred, Linked, Queued, NextIsSet, LinkPc
<1>4. TakesFirst'
  BY DEF ReadSecond, IInv, TypeOK, TakesFirst, Linked, Queued, LinkPc, QueueSound,
         NextIsSet
<1>5. HandlesWaiting'
  BY DEF ReadSecond, IInv, TypeOK, HandlesWaiting
<1>6. AnswersOnce'
  BY DEF ReadSecond, IInv, TypeOK, AnswersOnce, Answered
<1>7. QED
  BY <1>1, <1>2, <1>3, <1>4, <1>5, <1>6 DEF IInv

LEMMA LockSecondStep ==
  ASSUME IInv, TypeOK', LockSecond
  PROVE  IInv'
<1>1. LocksHeld'
  BY DEF LockSecond, IInv, TypeOK, LocksHeld, LinkPc
<1>2. QueueSound'
  BY DEF LockSecond, IInv, TypeOK, QueueSound, Linked, Queued, NextIsSet, LinkPc
<1>3. LedToByPred'
  BY DEF LockSecond, IInv, TypeOK, LedToByPred, Linked, Queued, NextIsSet, LinkPc
<1>4. TakesFirst'
  BY DEF LockSecond, IInv, TypeOK, TakesFirst, Linked, Queued, LinkPc
<1>5. HandlesWaiting'
  BY DEF LockSecond, IInv, TypeOK, HandlesWaiting
<1>6. AnswersOnce'
  BY DEF LockSecond, IInv, TypeOK, AnswersOnce, Answered
<1>7. QED
  BY <1>1, <1>2, <1>3, <1>4, <1>5, <1>6 DEF IInv

LEMMA UnlinkStep ==
  ASSUME IInv, TypeOK', Unlink
  PROVE  IInv'
<1>1. LocksHeld'
  <2>1. /\ dpc' = "handle"
        /\ mtx' = [mtx EXCEPT ![Head] = Free, ![first] = Free, ![second] = Free]
        /\ mtx \in [Nodes -> Callers \cup {Dpdk, Free}]
        /\ UNCHANGED <<pc, pred>>
    BY DEF Unlink, IInv, TypeOK
  <2>2. mtx[Head] = Dpdk /\ mtx[first] = Dpdk /\ mtx[second] = Dpdk
    BY DEF Unlink, IInv, LocksHeld
  <2>3. mtx'[Head] = Free
    BY <2>1
  <2>4. ASSUME NEW n \in Nodes, mtx[n] \in Callers
        PROVE  mtx'[n] = mtx[n]
    BY <2>1, <2>2, <2>4
  <2>5. ASSUME NEW c \in Callers, pc[c] \in LinkPc \cup {"lock_tail", "unlock_prev"}
        PROVE  mtx'[pred[c]] = c
    BY <2>4, <2>5 DEF IInv, TypeOK, LocksHeld, HoldsPred, LinkPc
  <2>6. ASSUME NEW c \in Callers, pc[c] \in LinkPc
        PROVE  mtx'[Tail] = c
    BY <2>4, <2>6 DEF IInv, LocksHeld
  <2>7. QED
    BY <2>1, <2>3, <2>5, <2>6 DEF LocksHeld
<1>2. QueueSound'
  BY DEF Unlink, IInv, TypeOK, QueueSound, Linked, Queued, NextIsSet, LinkPc, TakesFirst
<1>3. LedToByPred'
  BY DEF Unlink, IInv, TypeOK, LedToByPred, Linked, Queued, NextIsSet, LinkPc,
         TakesFirst, QueueSound, LocksHeld
<1>4. TakesFirst'
  BY DEF Unlink, IInv, TypeOK, TakesFirst, Linked, Queued, LinkPc
<1>5. HandlesWaiting'
  BY DEF Unlink, IInv, TypeOK, HandlesWaiting, TakesFirst, Linked, Queued
<1>6. AnswersOnce'
  BY DEF Unlink, IInv, TypeOK, AnswersOnce, Answered
<1>7. QED
  BY <1>1, <1>2, <1>3, <1>4, <1>5, <1>6 DEF IInv

LEMMA HandleStep ==
  ASSUME IInv, TypeOK', Handle
  PROVE  IInv'
<1>1. LocksHeld'
  BY DEF Handle, IInv, TypeOK, LocksHeld, LinkPc
<1>2. QueueSound'
  BY DEF Handle, IInv, TypeOK, QueueSound, Linked, Queued, NextIsSet, LinkPc
<1>3. LedToByPred'
  BY DEF Handle, IInv, TypeOK, LedToByPred, Linked, Queued, NextIsSet, LinkPc
<1>4. TakesFirst'
  BY DEF Handle, IInv, TypeOK, TakesFirst, Linked, Queued, LinkPc
<1>5. HandlesWaiting'
  BY DEF Handle, IInv, TypeOK, HandlesWaiting
<1>6. AnswersOnce'
  BY DEF Handle, IInv, TypeOK, AnswersOnce, Answered, HandlesWaiting
<1>7. QED
  BY <1>1, <1>2, <1>3, <1>4, <1>5, <1>6 DEF IInv

LEMMA SetDoneStep ==
  ASSUME IInv, TypeOK', SetDone
  PROVE  IInv'
<1>1. LocksHeld'
  BY DEF SetDone, IInv, TypeOK, LocksHeld, LinkPc
<1>2. QueueSound'
  BY DEF SetDone, IInv, TypeOK, QueueSound, Linked, Queued, NextIsSet, LinkPc,
         HandlesWaiting
<1>3. LedToByPred'
  BY DEF SetDone, IInv, TypeOK, LedToByPred, Linked, Queued, NextIsSet, LinkPc,
         HandlesWaiting
<1>4. TakesFirst'
  BY DEF SetDone, IInv, TypeOK, TakesFirst, Linked, Queued, LinkPc
<1>5. HandlesWaiting'
  BY DEF SetDone, IInv, TypeOK, HandlesWaiting
<1>6. AnswersOnce'
  BY DEF SetDone, IInv, TypeOK, AnswersOnce, Answered, HandlesWaiting
<1>7. QED
  BY <1>1, <1>2, <1>3, <1>4, <1>5, <1>6 DEF IInv

LEMMA NotifyStep ==
  ASSUME IInv, TypeOK', Notify
  PROVE  IInv'
<1>1. LocksHeld'
  BY DEF Notify, IInv, TypeOK, LocksHeld, LinkPc
<1>2. QueueSound'
  BY DEF Notify, IInv, TypeOK, QueueSound, Linked, Queued, NextIsSet, LinkPc
<1>3. LedToByPred'
  BY DEF Notify, IInv, TypeOK, LedToByPred, Linked, Queued, NextIsSet, LinkPc
<1>4. TakesFirst'
  BY DEF Notify, IInv, TypeOK, TakesFirst, Linked, Queued, LinkPc
<1>5. HandlesWaiting'
  BY DEF Notify, IInv, TypeOK, HandlesWaiting
<1>6. AnswersOnce'
  BY DEF Notify, IInv, TypeOK, AnswersOnce, Answered
<1>7. QED
  BY <1>1, <1>2, <1>3, <1>4, <1>5, <1>6 DEF IInv

(***************************************************************************)
(* The invariant.                                                          *)
(***************************************************************************)

LEMMA NextStep ==
  ASSUME IInv, [Next /\ PredecessorStays]_vars
  PROVE  IInv'
<1>1. TypeOK'
  BY TypeStep DEF IInv
<1>2. CASE UNCHANGED vars
  BY <1>1, <1>2
  DEF vars, IInv, LocksHeld, QueueSound, LedToByPred, TakesFirst, HandlesWaiting,
      AnswersOnce, Answered, Linked, Queued, NextIsSet
<1>3. ASSUME NEW c \in Callers, NEW o \in Ops, Call(c, o), PredecessorStays
      PROVE  IInv'
  BY <1>1, <1>3, CallStep
<1>4. ASSUME NEW c \in Callers, Enqueue(c)
      PROVE  IInv'
  BY <1>1, <1>4, ReadPrevStep, LockPrevStep, LockTailStep, LinkPrevNextStep,
     LinkNodeNextStep, LinkTailPrevStep, LinkNodePrevStep, UnlockTailStep,
     UnlockPrevStep, SleepStep, ReturnStep
  DEF Enqueue
<1>5. ASSUME NEW c \in Callers, SpuriousWakeup(c)
      PROVE  IInv'
  BY <1>1, <1>5, SpuriousWakeupStep
<1>6. ASSUME EventHandle
      PROVE  IInv'
  BY <1>1, <1>6, LockHeadStep, FoundEmptyStep, LockFirstStep, ReadSecondStep,
     LockSecondStep, UnlinkStep, HandleStep, SetDoneStep, NotifyStep
  DEF EventHandle
<1>7. QED
  BY <1>2, <1>3, <1>4, <1>5, <1>6 DEF Next

\* Every variable keeps to its type in everything the code can do: the pointer
\* that LockFirst follows is never null, and tail->prev is always a node.
THEOREM TypeCorrect == Spec => []TypeOK
<1>1. Init => TypeOK
  BY InitTypeOK
<1>2. TypeOK /\ [Next]_vars => TypeOK'
  BY TypeStep
<1>3. QED
  BY <1>1, <1>2, PTL DEF Spec

\* As long as nobody uses a frame again that another caller holds as its
\* predecessor, IInv holds, whatever the number of callers
\* (xy_syn_event_enqueue and xy_syn_event_handle).
THEOREM Invariance == SteadySpec => []IInv
<1>1. Init => IInv
  BY InitIInv
<1>2. IInv /\ [Next /\ PredecessorStays]_vars => IInv'
  BY NextStep
<1>3. QED
  BY <1>1, <1>2, PTL DEF SteadySpec

\* Then the list that mpmc_list_del_head walks holds only operations that wait
\* to be served, each reached by one path, although callers and the DPDK thread
\* write to it at the same time.
THEOREM QueueIsSound == SteadySpec => []QueueSound
<1>1. IInv => QueueSound
  BY DEF IInv
<1>2. QED
  BY <1>1, Invariance, PTL

\* And an operation is carried out at most once, and for a caller that waits.
THEOREM ServiceIsSound == SteadySpec => []ServesWaitingCaller
<1>1. IInv => ServesWaitingCaller
  <2>1. SUFFICES ASSUME IInv, dpc = "handle"
                 PROVE  /\ pc[first] \in {"check", "sleep"}
                        /\ err[first] = Nil
                        /\ ~done[first]
    BY DEF ServesWaitingCaller
  <2>2. first \in Callers
    BY <2>1 DEF IInv, TypeOK
  <2>3. pc[first] \in {"check", "sleep"} /\ ~done[first]
    BY <2>1 DEF IInv, HandlesWaiting
  <2>4. err[first] = Nil
    BY <2>1, <2>2, <2>3 DEF IInv, AnswersOnce, Answered
  <2>5. QED
    BY <2>3, <2>4
<1>2. QED
  BY <1>1, Invariance, PTL

(***************************************************************************)
(* With calls that follow one another no operation is lost.  Two calls at  *)
(* a time are enough to lose one, so the hypothesis cannot be dropped.     *)
(***************************************************************************)

\* The application makes one call at a time, from whatever thread.
OneCall == \A c, d \in Callers : pc[c] # "idle" /\ pc[d] # "idle" => c = d

\* Then no frame is used again while another caller holds it.
LEMMA OneCallIsSteady == Spec /\ []OneCall => SteadySpec
<1>1. ASSUME TypeOK, OneCall', [Next]_vars
      PROVE  [Next /\ PredecessorStays]_vars
  <2>1. SUFFICES ASSUME NEW c \in Callers, NEW d \in Callers, Next,
                        pc[d] = "idle", HoldsPred(c), pc'[d] # "idle"
                 PROVE  FALSE
    BY <1>1 DEF PredecessorStays
  <2>2. c # d /\ pc[c] # "idle"
    BY <2>1 DEF HoldsPred, LinkPc
  <2>3. pc'[c] # "idle"
    <3>1. ASSUME NEW e \in Callers, NEW o \in Ops, Call(e, o)
          PROVE  pc'[c] # "idle"
      BY <1>1, <2>2, <3>1 DEF Call, TypeOK
    <3>2. ASSUME NEW e \in Callers, Enqueue(e) \/ SpuriousWakeup(e)
          PROVE  FALSE
      BY <1>1, <2>1, <3>2
      DEF Enqueue, ReadPrev, LockPrev, LockTail, LinkPrevNext, LinkNodeNext,
          LinkTailPrev, LinkNodePrev, UnlockTail, UnlockPrev, Sleep, Return,
          SpuriousWakeup, TypeOK
    <3>3. ASSUME EventHandle
          PROVE  FALSE
      BY <1>1, <2>1, <3>3
      DEF EventHandle, LockHead, FoundEmpty, LockFirst, ReadSecond, LockSecond, Unlink,
          Handle, SetDone, Notify, TypeOK
    <3>4. QED
      BY <2>1, <3>1, <3>2, <3>3 DEF Next
  <2>4. QED
    BY <1>1, <2>1, <2>2, <2>3 DEF OneCall
<1>2. QED
  BY <1>1, TypeCorrect, PTL DEF Spec, SteadySpec

\* The list holds the operation of that call or nothing, and the predecessor
\* that the caller read without a lock is the head.
OneInv ==
    /\ \A c \in Callers : Queued(c) => next[Head] = c
    /\ (\A c \in Callers : ~Queued(c)) => next[Head] = Tail /\ prev[Tail] = Head
    /\ \A c \in Callers : HoldsPred(c) => pred[c] = Head

LEMMA OneCallerStep ==
  ASSUME IInv, OneCall, OneInv, NEW c \in Callers,
         (\E o \in Ops : Call(c, o)) \/ Enqueue(c) \/ SpuriousWakeup(c)
  PROVE  OneInv'
<1>1. CASE \E o \in Ops : Call(c, o)
  BY <1>1 DEF Call, IInv, TypeOK, OneInv, Queued, HoldsPred, LinkPc
<1>2. CASE ReadPrev(c)
  BY <1>2 DEF ReadPrev, IInv, TypeOK, OneCall, OneInv, Queued, HoldsPred, LinkPc
<1>3. CASE LockPrev(c) \/ LockTail(c)
  BY <1>3 DEF LockPrev, LockTail, IInv, TypeOK, OneInv, Queued, HoldsPred, LinkPc
<1>4. CASE LinkPrevNext(c)
  <2>1. pred[c] = Head /\ ~done[c]
    BY <1>4 DEF LinkPrevNext, IInv, AnswersOnce, OneInv, HoldsPred, LinkPc
  <2>2. Queued(c)' /\ next'[Head] = c
    BY <1>4, <2>1 DEF LinkPrevNext, IInv, TypeOK, HandlesWaiting, Queued, LinkPc
  <2>3. \A d \in Callers : Queued(d)' => d = c
    BY <1>4 DEF LinkPrevNext, IInv, TypeOK, OneCall, Queued, LinkPc
  <2>4. QED
    BY <1>4, <2>2, <2>3 DEF LinkPrevNext, IInv, TypeOK, OneInv, HoldsPred, LinkPc
<1>5. CASE LinkNodeNext(c) \/ LinkTailPrev(c) \/ LinkNodePrev(c)
  <2>1. ~done[c] /\ Queued(c) /\ Queued(c)'
    BY <1>5
    DEF LinkNodeNext, LinkTailPrev, LinkNodePrev, IInv, TypeOK, AnswersOnce,
        HandlesWaiting, Queued, LinkPc
  <2>2. next'[Head] = next[Head]
    BY <1>5 DEF LinkNodeNext, LinkTailPrev, LinkNodePrev, IInv, TypeOK
  <2>3. \A d \in Callers : Queued(d)' => Queued(d)
    BY <1>5, <2>1
    DEF LinkNodeNext, LinkTailPrev, LinkNodePrev, IInv, TypeOK, Queued, LinkPc
  <2>4. \A d \in Callers : HoldsPred(d)' => HoldsPred(d) /\ pred'[d] = pred[d]
    BY <1>5
    DEF LinkNodeNext, LinkTailPrev, LinkNodePrev, IInv, TypeOK, HoldsPred, LinkPc
  <2>5. QED
    BY <2>1, <2>2, <2>3, <2>4 DEF OneInv
<1>6. CASE UnlockTail(c) \/ UnlockPrev(c)
  BY <1>6 DEF UnlockTail, UnlockPrev, IInv, TypeOK, OneInv, Queued, HoldsPred, LinkPc
<1>7. CASE Sleep(c) \/ SpuriousWakeup(c) \/ Return(c)
  BY <1>7
  DEF Sleep, SpuriousWakeup, Return, IInv, TypeOK, OneInv, Queued, HoldsPred, LinkPc
<1>8. QED
  BY <1>1, <1>2, <1>3, <1>4, <1>5, <1>6, <1>7 DEF Enqueue

LEMMA OneDpdkStep ==
  ASSUME IInv, OneCall, OneInv, EventHandle
  PROVE  OneInv'
<1>1. CASE LockHead \/ FoundEmpty \/ LockFirst \/ ReadSecond \/ LockSecond
  BY <1>1
  DEF LockHead, FoundEmpty, LockFirst, ReadSecond, LockSecond, IInv, TypeOK, OneInv,
      Queued, HoldsPred
<1>2. CASE Unlink
  <2>1. first \in Callers /\ Queued(first)
    BY <1>2 DEF Unlink, IInv, TypeOK, TakesFirst, Linked
  <2>2. \A c \in Callers : Queued(c) => c = first
    BY <2>1 DEF OneCall, Queued, LinkPc
  <2>3. second = Tail
    BY <1>2, <2>2 DEF Unlink, IInv, TakesFirst, Linked
  <2>4. next'[Head] = Tail /\ prev'[Tail] = Head
    BY <1>2, <2>3 DEF Unlink, IInv, TypeOK
  <2>5. \A c \in Callers : ~Queued(c)'
    BY <1>2, <2>2 DEF Unlink, Queued
  <2>6. QED
    BY <1>2, <2>4, <2>5 DEF Unlink, OneInv, HoldsPred
<1>3. CASE Handle \/ SetDone
  BY <1>3 DEF Handle, SetDone, IInv, TypeOK, OneInv, Queued, HoldsPred
<1>4. CASE Notify
  BY <1>4 DEF Notify, IInv, TypeOK, OneInv, Queued, HoldsPred, LinkPc
<1>5. QED
  BY <1>1, <1>2, <1>3, <1>4 DEF EventHandle

\* As long as no two calls overlap, an operation that has been linked can be
\* reached from the head until it is served, whichever threads make the calls
\* (mpmc_list_add_tail with mpmc_list_del_head).
THEOREM NothingLostInTurn == Spec /\ []OneCall => []NoLostOp
<1>1. Init => OneInv
  BY DEF Init, OneInv, Queued, HoldsPred, LinkPc
<1>2. IInv /\ OneCall /\ OneInv /\ [Next]_vars => OneInv'
  <2>1. SUFFICES ASSUME IInv, OneCall, OneInv, [Next]_vars
                 PROVE  OneInv'
    OBVIOUS
  <2>2. CASE UNCHANGED vars
    BY <2>1, <2>2 DEF vars, OneInv, Queued, HoldsPred
  <2>3. QED
    BY <2>1, <2>2, OneCallerStep, OneDpdkStep DEF Next
<1>3. OneInv => NoLostOp
  BY DEF OneInv, NoLostOp, Linked
<1>4. QED
  BY <1>1, <1>2, <1>3, OneCallIsSteady, Invariance, PTL DEF Spec

\* A program with one thread that uses sockets loses no operation.
THEOREM NothingLostWithOneCaller ==
  ASSUME \A c, d \in Callers : c = d
  PROVE  Spec => []NoLostOp
<1>1. OneCall
  BY DEF OneCall
<1>2. QED
  BY <1>1, NothingLostInTurn, PTL

(***************************************************************************)
(* The refinement of SyncCall: Call, Handle and Return are its steps, all  *)
(* others leave its variables alone.                                       *)
(***************************************************************************)

LEMMA InitRefines == Init => Calls!Init
  BY DEF Init, Calls!Init, callStatus

LEMMA CallRefines ==
  ASSUME IInv, NEW c \in Callers, NEW o \in Ops, Call(c, o)
  PROVE  Calls!Call(c, o)
  BY DEF IInv, TypeOK, Call, Calls!Call, callStatus

LEMMA HandleRefines ==
  ASSUME IInv, Handle
  PROVE  first \in Callers /\ Calls!Serve(first)
<1>1. first \in Callers /\ dpc = "handle"
  BY DEF IInv, TypeOK, Handle
<1>2. pc[first] \in {"check", "sleep"} /\ ~done[first]
  BY <1>1 DEF IInv, HandlesWaiting
<1>3. err[first] = Nil /\ op[first] \in Ops
  BY <1>1, <1>2 DEF IInv, AnswersOnce, Answered
<1>4. QED
  BY <1>1, <1>2, <1>3, CallersAssumption
  DEF IInv, TypeOK, Handle, Calls!Serve, callStatus

LEMMA ReturnRefines ==
  ASSUME IInv, NEW c \in Callers, Return(c)
  PROVE  Calls!Return(c)
<1>1. err[c] # Nil
  BY CallersAssumption DEF IInv, AnswersOnce, Answered, Return
<1>2. QED
  BY <1>1 DEF IInv, TypeOK, Return, Calls!Return, callStatus

LEMMA OthersStutter ==
  ASSUME IInv,
         \/ UNCHANGED vars
         \/ \E c \in Callers :
               \/ ReadPrev(c) \/ LockPrev(c) \/ LockTail(c) \/ LinkPrevNext(c)
               \/ LinkNodeNext(c) \/ LinkTailPrev(c) \/ LinkNodePrev(c)
               \/ UnlockTail(c) \/ UnlockPrev(c)
               \/ Sleep(c) \/ SpuriousWakeup(c)
         \/ LockHead \/ FoundEmpty \/ LockFirst \/ ReadSecond \/ LockSecond \/ Unlink
         \/ SetDone \/ Notify
  PROVE  UNCHANGED <<callStatus, op, err>>
<1>1. UNCHANGED <<op, err>>
  BY DEF vars, ReadPrev, LockPrev, LockTail, LinkPrevNext, LinkNodeNext, LinkTailPrev,
         LinkNodePrev, UnlockTail, UnlockPrev, Sleep, SpuriousWakeup, LockHead,
         FoundEmpty, LockFirst, ReadSecond, LockSecond, Unlink, SetDone, Notify
<1>2. \A c \in Callers : pc'[c] = "idle" <=> pc[c] = "idle"
  BY DEF IInv, TypeOK, vars, ReadPrev, LockPrev, LockTail, LinkPrevNext, LinkNodeNext,
         LinkTailPrev, LinkNodePrev, UnlockTail, UnlockPrev, Sleep, SpuriousWakeup,
         LockHead, FoundEmpty, LockFirst, ReadSecond, LockSecond, Unlink, SetDone, Notify
<1>3. QED
  BY <1>1, <1>2 DEF callStatus

\* The queue and its handshake keep the promise of the socket API: a call is
\* served at most once, with the operation that was posted, and returns only
\* afterwards, for any number of application threads, as long as nobody uses a
\* frame again that another caller holds as its predecessor.
THEOREM Refinement == SteadySpec => ImplementsSyncCall
<1>1. Init => Calls!Init
  BY InitRefines
<1>2. IInv /\ [Next /\ PredecessorStays]_vars => [Calls!Next]_Calls!vars
  <2>1. SUFFICES ASSUME IInv, [Next]_vars
                 PROVE  [Calls!Next]_Calls!vars
    OBVIOUS
  <2>2. ASSUME NEW c \in Callers, NEW o \in Ops, Call(c, o)
        PROVE  Calls!Next
    BY <2>1, <2>2, CallRefines DEF Calls!Next
  <2>3. ASSUME Handle
        PROVE  Calls!Next
    BY <2>1, <2>3, HandleRefines DEF Calls!Next
  <2>4. ASSUME NEW c \in Callers, Return(c)
        PROVE  Calls!Next
    BY <2>1, <2>4, ReturnRefines DEF Calls!Next
  <2>5. CASE \/ UNCHANGED vars
             \/ \E c \in Callers :
                   \/ ReadPrev(c) \/ LockPrev(c) \/ LockTail(c) \/ LinkPrevNext(c)
                   \/ LinkNodeNext(c) \/ LinkTailPrev(c) \/ LinkNodePrev(c)
                   \/ UnlockTail(c) \/ UnlockPrev(c)
                   \/ Sleep(c) \/ SpuriousWakeup(c)
             \/ LockHead \/ FoundEmpty \/ LockFirst \/ ReadSecond \/ LockSecond \/ Unlink
             \/ SetDone \/ Notify
    BY <2>1, <2>5, OthersStutter DEF Calls!vars
  <2>6. QED
    BY <2>1, <2>2, <2>3, <2>4, <2>5 DEF Next, Enqueue, EventHandle
<1>3. QED
  BY <1>1, <1>2, Invariance, PTL DEF SteadySpec, ImplementsSyncCall, Calls!Spec

=============================================================================
