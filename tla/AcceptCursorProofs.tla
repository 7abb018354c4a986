------------------------- MODULE AcceptCursorProofs -------------------------
(***************************************************************************)
(* Proofs about AcceptCursor, for any number of connections and threads.   *)
(***************************************************************************)
EXTENDS AcceptCursor, TLAPS

\* The invariant holds of the empty list.
LEMMA InitIInv == Init => IInv
<1> SUFFICES ASSUME Init PROVE IInv
  OBVIOUS
<1> USE ConnsAssumption DEF Init
<1>1. TypeOK
  BY DEF TypeOK, Nodes
<1>2. Listed = {} /\ Established = {} /\ Ring = {Head}
  BY DEF Listed, Established, Ring
<1>3. Numbered
  BY DEF Numbered
<1>4. RingSound
  BY <1>2 DEF RingSound, Nodes
<1>5. LeadsOn /\ HandedOutToCursor /\ NoneSkipped
  BY <1>2 DEF LeadsOn, HandedOutToCursor, NoneSkipped
<1> QED BY <1>1, <1>3, <1>4, <1>5 DEF IInv

\* Adding a connection at the head of the list, wherever the cursor is.
LEMMA EstablishIInv ==
    ASSUME IInv, NEW c \in Conns, Establish(c)
    PROVE  IInv'
<1> USE ConnsAssumption
<1>1. TypeOK'
  BY DEF IInv, TypeOK, Establish, AddHead, Nodes
<1> DEFINE first == next[Head]
<1>2. /\ c \notin Listed /\ c \notin Ring /\ c \notin unlinked /\ c \notin Established
      /\ Listed' = Listed \cup {c}
      /\ Established' = Established \cup {c}
      /\ Ring' = Ring \cup {c}
      /\ first \in Ring /\ prev[first] = Head
      /\ Ring \subseteq Nodes /\ c \in Nodes
      /\ Listed \subseteq Established /\ Established \subseteq Conns
  BY DEF IInv, TypeOK, Numbered, RingSound, Establish, Listed, Established, Ring, Nodes
<1>3. /\ age' = [age EXCEPT ![c] = count + 1]
      /\ \A n \in Nodes : prev'[n] = IF n = c THEN Head ELSE IF n = first THEN c ELSE prev[n]
      /\ \A n \in Nodes : next'[n] = IF n = Head THEN c ELSE IF n = c THEN first ELSE next[n]
      /\ UNCHANGED <<cur, owner, unlinked>>
  BY <1>2 DEF IInv, TypeOK, Establish, AddHead, Nodes
<1>4. /\ \A d \in Conns \ {c} : age'[d] = age[d]
      /\ age'[c] = count + 1
      /\ \A d \in Conns : age[d] \in Nat /\ age[d] <= count
      /\ count \in Nat /\ count' = count + 1
      /\ age[c] = 0
  BY <1>3 DEF IInv, TypeOK, Numbered, Establish
<1>5. Numbered'
  BY <1>2, <1>3, <1>4 DEF IInv, Numbered, TypeOK
<1>6. /\ first # Head => first \in Listed /\ \A d \in Listed : age[d] <= age[first]
      /\ first = Head => Listed = {}
  BY <1>2, <1>4 DEF IInv, RingSound, Ring
<1>7. RingSound'
  <2>1. \A n \in Ring' : prev'[n] \in Ring' /\ next'[n] \in Ring'
    BY <1>2, <1>3 DEF IInv, RingSound, Ring
  <2>2. \A n \in Ring' : next'[prev'[n]] = n /\ prev'[next'[n]] = n
    BY <1>2, <1>3 DEF IInv, RingSound, Ring
  <2>3. \A d, e \in Listed' : age'[d] < age'[e] => prev'[d] # Head
    BY <1>2, <1>3, <1>4, <1>6 DEF IInv, RingSound, Ring, Nodes
  <2>4. \A d \in Listed' : prev'[Head] # Head /\ age'[prev'[Head]] <= age'[d]
    BY <1>2, <1>3, <1>4, <1>6 DEF IInv, RingSound, Ring, Nodes
  <2> QED BY <2>1, <2>2, <2>3, <2>4 DEF RingSound
<1>8. LeadsOn'
  <2> SUFFICES ASSUME NEW d \in Established', prev'[d] # Head
               PROVE  /\ prev'[d] \in Established'
                      /\ age'[d] < age'[prev'[d]]
                      /\ \A e \in Listed' : age'[d] < age'[e] => age'[prev'[d]] <= age'[e]
    BY DEF LeadsOn
  <2>1. d \in Established /\ d # c /\ d \in Nodes
    BY <1>2, <1>3 DEF Nodes
  <2>2. CASE d = first
    BY <1>2, <1>3, <1>4, <1>6, <2>1, <2>2 DEF Established
  <2>3. CASE d # first
    <3>1. prev'[d] = prev[d]
      BY <1>3, <2>1, <2>3
    <3>2. /\ prev[d] \in Established /\ age[d] < age[prev[d]]
          /\ \A e \in Listed : age[d] < age[e] => age[prev[d]] <= age[e]
      BY <2>1, <3>1 DEF IInv, LeadsOn
    <3> QED BY <1>2, <1>4, <2>1, <3>1, <3>2
  <2> QED BY <2>2, <2>3
<1>9. HandedOutToCursor' /\ NoneSkipped'
  BY <1>2, <1>3, <1>4 DEF IInv, HandedOutToCursor, NoneSkipped, Established
<1> QED BY <1>1, <1>5, <1>7, <1>8, <1>9 DEF IInv

\* Unlinking a connection, the cursor's own included.
LEMMA CloseIInv ==
    ASSUME IInv, NEW c \in Conns, Close(c)
    PROVE  IInv'
<1> USE ConnsAssumption
<1>1. TypeOK'
  BY DEF IInv, TypeOK, Close, Delete, Nodes, Ring, RingSound, Listed
<1> DEFINE newer == prev[c]
           older == next[c]
<1>2. /\ c \in Listed /\ c \in Ring
      /\ Listed' = Listed \ {c}
      /\ Established' = Established
      /\ Ring' = Ring \ {c}
      /\ newer \in Ring /\ older \in Ring
      /\ next[newer] = c /\ prev[older] = c
      /\ Ring \subseteq Nodes
      /\ Listed \subseteq Established /\ Established \subseteq Conns
  BY DEF IInv, RingSound, Close, Listed, Established, Ring, Nodes
<1>3. /\ \A n \in Nodes : prev'[n] = IF n = older THEN newer ELSE prev[n]
      /\ \A n \in Nodes : next'[n] = IF n = newer THEN older ELSE next[n]
      /\ unlinked' = unlinked \cup {c}
      /\ UNCHANGED <<cur, owner, age, count>>
  BY <1>2 DEF IInv, TypeOK, Close, Delete
<1>4. \A d \in Conns : age[d] \in Nat
  BY DEF IInv, TypeOK
<1>5. newer # c /\ older # c
  BY <1>2, <1>4 DEF IInv, LeadsOn
<1>6. Numbered'
  BY <1>2, <1>3 DEF IInv, Numbered
<1>7. \A e \in Listed' : age[c] < age[e] => newer # Head /\ age[newer] <= age[e]
  BY <1>2 DEF IInv, RingSound, LeadsOn
<1>8. \A e \in Listed' : age[c] # age[e]
  BY <1>2 DEF IInv, Numbered, Established
<1>9. RingSound'
  <2>1. \A n \in Ring' : prev'[n] \in Ring' /\ next'[n] \in Ring'
    BY <1>2, <1>3, <1>5 DEF IInv, RingSound
  <2>2. \A n \in Ring' : next'[prev'[n]] = n /\ prev'[next'[n]] = n
    BY <1>2, <1>3, <1>5 DEF IInv, RingSound
  <2>3. \A d, e \in Listed' : age'[d] < age'[e] => prev'[d] # Head
    <3> SUFFICES ASSUME NEW d \in Listed', NEW e \in Listed', age[d] < age[e]
                 PROVE  prev'[d] # Head
      BY <1>3
    <3>1. CASE d = older
      <4>1. age[c] <= age[e]
        BY <1>2, <3>1 DEF IInv, LeadsOn, Listed
      <4> QED BY <1>2, <1>3, <1>4, <1>7, <1>8, <3>1, <4>1
    <3>2. CASE d # older
      BY <1>2, <1>3, <3>2 DEF IInv, RingSound, Ring
    <3> QED BY <3>1, <3>2
  <2>4. \A d \in Listed' : prev'[Head] # Head /\ age'[prev'[Head]] <= age'[d]
    <3> SUFFICES ASSUME NEW d \in Listed'
                 PROVE  prev'[Head] # Head /\ age[prev'[Head]] <= age[d]
      BY <1>3
    <3>1. prev[Head] # Head /\ age[prev[Head]] <= age[d]
      BY <1>2 DEF IInv, RingSound
    <3>2. CASE older = Head
      BY <1>2, <1>3, <1>4, <1>7, <1>8, <3>1, <3>2
    <3>3. CASE older # Head
      BY <1>2, <1>3, <3>1, <3>3 DEF Nodes
    <3> QED BY <3>2, <3>3
  <2> QED BY <2>1, <2>2, <2>3, <2>4 DEF RingSound
<1>10. LeadsOn'
  <2> SUFFICES ASSUME NEW d \in Established, prev'[d] # Head
               PROVE  /\ prev'[d] \in Established
                      /\ age[d] < age[prev'[d]]
                      /\ \A e \in Listed' : age[d] < age[e] => age[prev'[d]] <= age[e]
    BY <1>2, <1>3 DEF LeadsOn
  <2>1. CASE d = older
    <3>1. age[d] < age[c] /\ prev'[d] = newer /\ newer \in Established
      BY <1>2, <1>3, <2>1 DEF IInv, LeadsOn, Ring, Listed, Nodes
    <3>2. age[c] < age[newer]
      BY <1>2, <3>1, <2>1, ConnsAssumption DEF IInv, LeadsOn
    <3>3. \A e \in Listed' : age[d] < age[e] => age[c] <= age[e]
      BY <1>2, <2>1 DEF IInv, LeadsOn
    <3> QED BY <1>2, <1>4, <1>7, <1>8, <3>1, <3>2, <3>3
  <2>2. CASE d # older
    <3>1. prev'[d] = prev[d]
      BY <1>2, <1>3, <2>2 DEF Nodes
    <3> QED BY <1>2, <3>1 DEF IInv, LeadsOn
  <2> QED BY <2>1, <2>2
<1>11. HandedOutToCursor' /\ NoneSkipped'
  BY <1>2, <1>3 DEF IInv, HandedOutToCursor, NoneSkipped
<1> QED BY <1>1, <1>6, <1>9, <1>10, <1>11 DEF IInv

\* What TakeNext hands out: newer than all that has been, and nothing of the
\* list lies between.
LEMMA CursorLeadsToNext ==
    ASSUME IInv, prev[cur] # Head
    PROVE  /\ prev[cur] \in Established
           /\ \A d \in Unclaimed : age[prev[cur]] <= age[d]
           /\ \A d \in Conns : owner[d] # Nil => age[d] < age[prev[cur]]
<1> USE ConnsAssumption
<1>1. \A d \in Conns : age[d] \in Nat
  BY DEF IInv, TypeOK
<1>2. CASE cur = Head
  BY <1>2 DEF IInv, RingSound, HandedOutToCursor, Unclaimed, Ring, Listed, Established
<1>3. CASE cur # Head
  <2>1. /\ cur \in Established /\ prev[cur] \in Established
        /\ age[cur] < age[prev[cur]]
        /\ \A d \in Listed : age[cur] < age[d] => age[prev[cur]] <= age[d]
    BY <1>3 DEF IInv, HandedOutToCursor, LeadsOn
  <2>2. \A d \in Unclaimed : age[cur] < age[d]
    BY <1>1, <1>3 DEF IInv, NoneSkipped, Unclaimed
  <2> QED BY <1>1, <2>1, <2>2 DEF IInv, HandedOutToCursor, Unclaimed, Established
<1> QED BY <1>2, <1>3

LEMMA TakeNextIInv ==
    ASSUME IInv, NEW t \in Threads, TakeNext(t)
    PROVE  IInv'
<1> USE ConnsAssumption
<1> DEFINE c == prev[cur]
<1>1. /\ c \in Established /\ c \in Conns /\ age[c] # 0
      /\ \A d \in Unclaimed : age[c] <= age[d]
      /\ \A d \in Conns : owner[d] # Nil => age[d] < age[c]
  BY CursorLeadsToNext DEF TakeNext, Established
<1>2. TypeOK'
  BY <1>1 DEF IInv, TypeOK, TakeNext, Nodes
<1>3. /\ cur' = c
      /\ \A d \in Conns : owner'[d] = IF d = c THEN t ELSE owner[d]
      /\ UNCHANGED <<next, prev, age, count, unlinked>>
      /\ t # Nil /\ c # Head
      /\ \A d \in Conns : age[d] \in Nat
  BY <1>1 DEF IInv, TypeOK, TakeNext
<1>4. Numbered'
  BY <1>3 DEF IInv, Numbered, Established
<1>5. RingSound' /\ LeadsOn'
  BY <1>3 DEF IInv, RingSound, LeadsOn, Ring, Listed, Established
<1>6. HandedOutToCursor'
  BY <1>1, <1>3 DEF IInv, HandedOutToCursor, Established
<1>7. NoneSkipped'
  <2> SUFFICES ASSUME NEW d \in Listed', owner'[d] = Nil
               PROVE  age'[d] > age'[cur']
    BY DEF NoneSkipped
  <2>1. d \in Conns /\ d \in Unclaimed /\ d # c
    BY <1>3 DEF Listed, Unclaimed
  <2>2. age[c] <= age[d] /\ age[c] # age[d]
    BY <1>1, <2>1 DEF IInv, Numbered
  <2> QED BY <1>1, <1>3, <2>1, <2>2
<1> QED BY <1>2, <1>4, <1>5, <1>6, <1>7 DEF IInv

\* Every step keeps the invariant.
LEMMA NextIInv == IInv /\ [Next]_vars => IInv'
<1> SUFFICES ASSUME IInv, [Next]_vars PROVE IInv'
  OBVIOUS
<1>1. ASSUME UNCHANGED <<next, prev, cur, age, count, owner, unlinked>>, TypeOK'
      PROVE  IInv'
  BY <1>1 DEF IInv, Numbered, RingSound, LeadsOn, HandedOutToCursor, NoneSkipped,
              Ring, Listed, Established
<1>2. ASSUME NEW c \in Conns, Establish(c) \/ Close(c) PROVE IInv'
  BY <1>2, EstablishIInv, CloseIInv
<1>3. ASSUME NEW t \in Threads, Accept(t) PROVE IInv'
  BY <1>1, <1>3 DEF IInv, TypeOK, Accept
<1>4. ASSUME NEW t \in Threads, LockCursor(t) PROVE IInv'
  BY <1>1, <1>4 DEF IInv, TypeOK, LockCursor
<1>5. ASSUME NEW t \in Threads, TakeNext(t) PROVE IInv'
  BY <1>5, TakeNextIInv
<1>6. CASE UNCHANGED vars
  BY <1>1, <1>6 DEF vars, IInv, TypeOK
<1> QED BY <1>2, <1>3, <1>4, <1>5, <1>6 DEF Next

\* The inductive invariant.
LEMMA Invariance == Spec => []IInv
BY InitIInv, NextIInv, PTL DEF Spec

\* Every variable stays in its type, for any number of connections and threads.
THEOREM TypeCorrect == Spec => []TypeOK
BY Invariance, PTL DEF IInv

\* The cursor never passes over a connection of the list.
THEOREM NothingIsSkipped == Spec => []NoneSkipped
BY Invariance, PTL DEF IInv

\* xy_accept returns connections in order, each at most once and none of the
\* list out of its turn, wherever the cursor has been left.
THEOREM HandedOutInOrder == Spec => HandsOutNext
<1>1. IInv /\ [Next]_vars =>
        [\A c \in Conns : owner'[c] # owner[c] =>
            /\ owner[c] = Nil
            /\ \A d \in Conns : owner[d] # Nil => age[d] < age[c]
            /\ \A d \in Unclaimed : age[c] <= age[d]]_vars
  <2> SUFFICES ASSUME IInv, [Next]_vars, NEW c \in Conns, owner'[c] # owner[c]
               PROVE  /\ owner[c] = Nil
                      /\ \A d \in Conns : owner[d] # Nil => age[d] < age[c]
                      /\ \A d \in Unclaimed : age[c] <= age[d]
    OBVIOUS
  <2>1. PICK t \in Threads : TakeNext(t)
    BY DEF Next, vars, Establish, Close, Accept, LockCursor
  <2>2. c = prev[cur]
    BY <2>1 DEF TakeNext, IInv, TypeOK
  <2>3. age[c] \in Nat
    BY DEF IInv, TypeOK
  <2> QED BY <2>1, <2>2, <2>3, CursorLeadsToNext DEF TakeNext
<1> QED BY <1>1, Invariance, PTL DEF Spec, HandsOutNext

=============================================================================
