---------------------------- MODULE RbTreeProofs ----------------------------
(***************************************************************************)
(* Proofs about RbTree for any finite set of nodes: between two calls the  *)
(* tree holds the registered items in order and is balanced, the repair    *)
(* follows no link that is Nil, a find that no change has met is right.    *)
(*                                                                         *)
(* The links as they are in memory are no tree while a call has writes to  *)
(* do.  The invariant is about the tree they will be when the pending      *)
(* writes are done: its links T, with D[n] the items from n down and B[n]  *)
(* the black ones on each way from n down.  Such a tree is in order at     *)
(* every step, and balanced but for the one place the repair is at, which  *)
(* depends on the place in the code (Colored).                             *)
(*                                                                         *)
(* The changes of trees come first, each with what it makes of T and of D: *)
(* a rotation (Turns), an item cut out (Cuts), replaced (Takes) or added   *)
(* (Hangs).  Then the writes that lead to them, the ways the search takes, *)
(* a lemma for each action, and at the end what the properties count.      *)
(***************************************************************************)
EXTENDS RbTree, FiniteSetTheorems, TLAPS

(***************************************************************************)
(* The invariant.                                                          *)
(***************************************************************************)

\* m comes before n, or behind it, as an item on that side of n does.
Before(side, m, n) == IF side = "left" THEN m < n ELSE n < m

\* An item counts as a black one, or not.
Weight(C, n) == IF C[n] = "black" THEN 1 ELSE 0

\* T2 is T after the writes w.
Written(T, w, T2) ==
    /\ T2 \in [Sides -> [Places -> Places]]
    /\ \A i \in 1 .. Len(w) : T2[w[i][1]][w[i][2]] = w[i][3]
    /\ \A side \in Sides, n \in Places :
          (\A i \in 1 .. Len(w) : w[i][1] # side \/ w[i][2] # n)
             => T2[side][n] = T[side][n]

\* The links of T lead to the items in R, and P leads back.
Tree(T, P, R) ==
    /\ T \in [Sides -> [Places -> Places]]
    /\ T["right"][Nil] = Nil
    /\ \A n \in R \cup {Nil}, side \in Sides :
          T[side][n] # Nil => T[side][n] \in R /\ P[T[side][n]] = n
    /\ \A n \in R : P[n] \in R \cup {Nil} /\ \E side \in Sides : T[side][P[n]] = n

\* D[n] are the items from n downward.
Sorted(T, D, R) ==
    /\ D \in [Places -> SUBSET R]
    /\ D[Nil] = {}
    /\ D[T["left"][Nil]] = R
    /\ \A n \in R :
          /\ D[n] = {n} \cup D[T["left"][n]] \cup D[T["right"][n]]
          /\ \A side \in Sides : \A m \in D[T[side][n]] : Before(side, m, n)

\* B[n] is the number of black items on each way from n down.
Even(T, C, B, n) ==
    /\ B[T["left"][n]] = B[T["right"][n]]
    /\ B[n] = B[T["left"][n]] + Weight(C, n)

\* Below p, on the side of e, one black item is missing.
Lacks(T, C, B, p, e) ==
    \E side \in Sides :
       /\ T[side][p] = e
       /\ B[T[Opp(side)][p]] = B[e] + 1
       /\ B[p] = B[e] + 1 + Weight(C, p)

\* Every item has as many black items on both sides.
AllEven(T, C, B, R) == \A n \in R : Even(T, C, B, n)

\* No red item hangs below a red one, and the root is black.
NoRedPair(P, C, R) == \A n \in R : C[n] = "red" => P[n] # Nil /\ C[P[n]] = "black"

\* The colors and heights, by the place in the code.  At "insert_color" e may be
\* red below a red item; at "remove_color" e may be, and if it is not the root
\* one black item is missing on its side below p.
Colored(T, P, C, R, B, place, e, p) ==
    /\ B \in [Places -> Nat]
    /\ B[Nil] = 0
    /\ place \in {"idle", "free"} => NoRedPair(P, C, R) /\ AllEven(T, C, B, R)
    /\ place = "insert_color" =>
          /\ e \in R
          /\ C[e] = "red"
          /\ NoRedPair(P, C, R \ {e})
          /\ AllEven(T, C, B, R)
    /\ place = "remove_color" =>
          /\ e \in R \cup {Nil}
          /\ \A n \in R \ {e} :
                C[n] = "red" => P[n] # Nil /\ (P[n] = e \/ C[P[n]] = "black")
          /\ \/ e = T["left"][Nil] /\ AllEven(T, C, B, R)
             \/ p \in R /\ AllEven(T, C, B, R \ {p}) /\ Lacks(T, C, B, p, e)

\* A find that no change has met is at a place from which the item it looks for,
\* if it is registered, can still be reached.
Searched(D) ==
    quiet =>
       /\ pc = "idle"
       /\ at \in registered \cup {Nil}
       /\ key \in registered => key \in D[at]

\* What is written and what is freed, by the place in the code.
Writer ==
    /\ writes \in Seq(Sides \X Places \X Places)
    /\ pc = "idle" => writes = <<>>
    /\ pc \in {"idle", "insert_color"} => old = Nil
    /\ pc \in {"remove_color", "free"} => old \in Socks \ registered

\* The tree that the pending writes lead to: T is its links, D its items from each
\* place down, B the black items from each place down.
Shape(T, D, B) ==
    /\ Written(child, writes, T)
    /\ Tree(T, parent, registered)
    /\ Sorted(T, D, registered)
    /\ Colored(T, parent, color, registered, B, pc, elm, par)
    /\ Searched(D)

\* The inductive invariant: whatever has been written of a change so far, what is
\* still to be written makes it a search tree whose colors are right but for the one
\* place the repair is at.
IInv ==
    /\ TypeOK
    /\ Writer
    /\ \E T, D, B : Shape(T, D, B)

(***************************************************************************)
(* Trees and rotations.                                                    *)
(***************************************************************************)

\* The side of its parent on which n hangs.
SideIn(T, P, n) == IF T["left"][P[n]] = n THEN "left" ELSE "right"

\* The upward links after y has taken the place of x, inner moving from y to x.
Turned(P, x, y, inner) ==
    [n \in Socks |-> CASE n = x -> y [] n = y -> P[x] [] n = inner -> x [] OTHER -> P[n]]

\* T2 and P2 are T and P after the child of x on the other side has taken its
\* place.
Turns(T, P, x, side, T2, P2) ==
    LET y == T[Opp(side)][x]
        inner == T[side][y]
        top == SideIn(T, P, x)
    IN  /\ T2 \in [Sides -> [Places -> Places]]
        /\ T2[Opp(side)][x] = inner /\ T2[top][P[x]] = y /\ T2[side][y] = x
        /\ \A s \in Sides, n \in Places :
              (s # Opp(side) \/ n # x) /\ (s # top \/ n # P[x]) /\ (s # side \/ n # y)
                 => T2[s][n] = T[s][n]
        /\ P2 = Turned(P, x, y, inner)

\* There are two sides.
LEMMA OppFacts ==
  ASSUME NEW side \in Sides
  PROVE  /\ Opp(side) \in Sides /\ Opp(side) # side /\ Opp(Opp(side)) = side
         /\ \A s \in Sides : s = side \/ s = Opp(side)
BY DEF Opp, Sides

\* The order of the items is strict, and on the other side it is the reverse.
LEMMA BeforeFacts ==
  ASSUME NEW side \in Sides, NEW m \in Socks, NEW n \in Socks
  PROVE  /\ ~Before(side, m, m)
         /\ Before(side, m, n) => m # n /\ Before(Opp(side), n, m) /\ ~Before(Opp(side), m, n)
BY TreeAssumption DEF Before, Opp, Sides

\* Below an item are fewer items than from it down.
LEMMA BelowItems ==
  ASSUME NEW R \in SUBSET Socks, NEW T, NEW P, NEW D, Tree(T, P, R), Sorted(T, D, R),
         NEW n \in R
  PROVE  /\ n \in D[n]
         /\ \A side \in Sides :
               /\ T[side][n] \in R \cup {Nil}
               /\ D[T[side][n]] \subseteq D[n]
               /\ n \notin D[T[side][n]]
<1>1. \A side \in Sides : T[side][n] \in R \cup {Nil}
  BY DEF Tree
<1>2. \A side \in Sides : D[T[side][n]] \subseteq D[n]
  BY DEF Sorted, Sides
<1>3. \A side \in Sides : n \notin D[T[side][n]]
  BY BeforeFacts DEF Sorted
<1>4. QED
  BY <1>1, <1>2, <1>3 DEF Sorted

\* The upward link of an item leads to a place whose link leads back to it.
LEMMA UpIsDown ==
  ASSUME NEW R \in SUBSET Socks, NEW T, NEW P, Tree(T, P, R), NEW n \in R
  PROVE  /\ SideIn(T, P, n) \in Sides
         /\ P[n] \in R \cup {Nil}
         /\ T[SideIn(T, P, n)][P[n]] = n
BY DEF Tree, SideIn, Sides

\* A node does not hang on both sides of another.
LEMMA OneSide ==
  ASSUME NEW R \in SUBSET Socks, NEW T, NEW P, NEW D, Tree(T, P, R), Sorted(T, D, R),
         NEW n \in R \cup {Nil}, NEW s1 \in Sides, NEW s2 \in Sides,
         T[s1][n] # Nil, T[s1][n] = T[s2][n]
  PROVE  s1 = s2
<1>1. CASE n \in R
  <2>1. T[s1][n] \in D[T[s1][n]] /\ T[s1][n] \in Socks
    <3>1. T[s1][n] \in R
      BY DEF Tree
    <3>2. QED
      BY <3>1, BelowItems
  <2>2. Before(s1, T[s1][n], n) /\ Before(s2, T[s1][n], n)
    BY <1>1, <2>1 DEF Sorted
  <2>3. s2 # Opp(s1)
    BY <1>1, <2>1, <2>2, BeforeFacts
  <2>4. QED
    BY <2>3, OppFacts
<1>2. CASE n = Nil
  BY <1>2 DEF Tree, Sides
<1>3. QED
  BY <1>1, <1>2

\* Where a rotation takes place: y hangs below x, inner below y.
TurnsAt(P, R, x, y, inner) ==
    /\ y \in R /\ y # x /\ P[y] = x
    /\ inner \in R \cup {Nil} /\ inner # x /\ inner # y
    /\ inner # Nil => P[inner] = y
    /\ P[x] \in R \cup {Nil} /\ P[x] # x /\ P[x] # y
    /\ inner # Nil => P[x] # inner

\* The nodes that a rotation moves are different ones.
LEMMA TurnPlaces ==
  ASSUME NEW R \in SUBSET Socks, NEW T, NEW P, NEW D, Tree(T, P, R), Sorted(T, D, R),
         NEW x \in R, NEW side \in Sides, T[Opp(side)][x] # Nil
  PROVE  TurnsAt(P, R, x, T[Opp(side)][x], T[side][T[Opp(side)][x]])
<1> DEFINE y == T[Opp(side)][x]
           inner == T[side][y]
<1> HIDE DEF y, inner
<1> USE TreeAssumption
<1>0. Opp(side) \in Sides
  BY OppFacts
<1>1. y \in R /\ P[y] = x /\ y # Nil
  BY <1>0 DEF Tree, y
<1>2. x \notin D[y] /\ x \in D[x]
  BY <1>0, BelowItems DEF y
<1>3. y # x
  BY <1>1, <1>2
<1>4. inner \in R \cup {Nil} /\ (inner # Nil => P[inner] = y) /\ D[inner] \subseteq D[y]
  <2>1. inner \in R \cup {Nil} /\ (inner # Nil => P[inner] = y)
    BY <1>1 DEF inner, Tree
  <2>2. D[inner] \subseteq D[y]
    BY <1>1, BelowItems DEF inner
  <2>3. QED
    BY <2>1, <2>2
<1>5. inner # x
  BY <1>2, <1>4
<1>6. inner # y
  BY <1>1, <1>3, <1>4
<1>7. P[x] \in R \cup {Nil} /\ \A q \in R : P[x] = q => x \in D[q] /\ q # x
  <2>1. \E s \in Sides : T[s][P[x]] = x
    BY DEF Tree
  <2>2. P[x] \in R \cup {Nil}
    BY DEF Tree
  <2>3. ASSUME NEW q \in R, P[x] = q
        PROVE  x \in D[q] /\ q # x
    <3>1. PICK s \in Sides : T[s][q] = x
      BY <2>1, <2>3
    <3>2. D[T[s][q]] \subseteq D[q] /\ q \notin D[T[s][q]]
      BY <3>1, BelowItems
    <3>3. QED
      BY <3>1, <3>2, <1>2
  <2>4. QED
    BY <2>2, <2>3
<1>8. P[x] # x /\ P[x] # y /\ (inner # Nil => P[x] # inner)
  BY <1>1, <1>2, <1>3, <1>4, <1>5, <1>6, <1>7
<1>9. TurnsAt(P, R, x, y, inner)
  BY <1>1, <1>3, <1>4, <1>5, <1>6, <1>7, <1>8 DEF TurnsAt
<1>10. QED
  BY <1>9 DEF y, inner

\* A rotation keeps a tree a tree ...
LEMMA TurnTree ==
  ASSUME NEW R \in SUBSET Socks, NEW T, NEW P, NEW D, Tree(T, P, R), Sorted(T, D, R),
         NEW x \in R, NEW side \in Sides, T[Opp(side)][x] # Nil,
         NEW T2, NEW P2, Turns(T, P, x, side, T2, P2)
  PROVE  Tree(T2, P2, R)
<1> DEFINE y == T[Opp(side)][x]
           inner == T[side][y]
           top == SideIn(T, P, x)
<1> USE TreeAssumption
<1>1. /\ y \in R /\ y # x /\ P[y] = x
      /\ inner \in R \cup {Nil} /\ inner # x /\ inner # y
      /\ inner # Nil => P[inner] = y
      /\ P[x] \in R \cup {Nil} /\ P[x] # x /\ P[x] # y
      /\ inner # Nil => P[x] # inner
  <2>1. TurnsAt(P, R, x, y, inner)
    BY TurnPlaces
  <2>2. QED
    BY <2>1 DEF TurnsAt
<1>2. top \in Sides /\ T[top][P[x]] = x
  <2>1. top \in Sides
    BY UpIsDown
  <2>2. T[top][P[x]] = x
    BY UpIsDown
  <2>3. QED
    BY <2>1, <2>2
<1>3. /\ Opp(side) \in Sides /\ Opp(side) # side
      /\ \A s \in Sides : s = side \/ s = Opp(side)
      /\ \A n \in R \cup {Nil} : \A s1, s2 \in Sides :
            T[s1][n] # Nil /\ T[s1][n] = T[s2][n] => s1 = s2
  <2>1. Opp(side) \in Sides /\ Opp(side) # side /\ \A s \in Sides : s = side \/ s = Opp(side)
    BY OppFacts
  <2>2. \A n \in R \cup {Nil} : \A s1, s2 \in Sides :
            T[s1][n] # Nil /\ T[s1][n] = T[s2][n] => s1 = s2
    BY OneSide
  <2>3. QED
    BY <2>1, <2>2
<1>4. /\ T2 \in [Sides -> [Places -> Places]]
      /\ T2[Opp(side)][x] = inner /\ T2[top][P[x]] = y /\ T2[side][y] = x
      /\ \A s \in Sides, n \in Places :
            (s # Opp(side) \/ n # x) /\ (s # top \/ n # P[x]) /\ (s # side \/ n # y)
               => T2[s][n] = T[s][n]
      /\ P2 = Turned(P, x, y, inner)
  BY DEF Turns
<1>5. T[Opp(side)][x] = y /\ T[side][y] = inner
  OBVIOUS
<1>6. /\ T \in [Sides -> [Places -> Places]]
      /\ T["right"][Nil] = Nil
      /\ \A n \in R \cup {Nil}, s \in Sides :
            T[s][n] # Nil => T[s][n] \in R /\ P[T[s][n]] = n
      /\ \A n \in R : P[n] \in R \cup {Nil} /\ \E s \in Sides : T[s][P[n]] = n
  BY DEF Tree
<1>7. R \subseteq Socks /\ Places = Socks \cup {Nil} /\ Nil \notin Socks
  BY DEF Places
<1>8. /\ P2[x] = y /\ P2[y] = P[x] /\ (inner # Nil => P2[inner] = x)
      /\ \A n \in R : n # x /\ n # y /\ n # inner => P2[n] = P[n]
  BY <1>1, <1>4, <1>7 DEF Turned
<1> HIDE DEF y, inner, top
<1>9. T2["right"][Nil] = Nil
  BY <1>1, <1>2, <1>4, <1>6, <1>7 DEF Sides
<1>10. ASSUME NEW n \in R \cup {Nil}, NEW s \in Sides, T2[s][n] # Nil
       PROVE  T2[s][n] \in R /\ P2[T2[s][n]] = n
  <2>1. CASE s = Opp(side) /\ n = x
    BY <2>1, <1>10, <1>1, <1>4, <1>8
  <2>2. CASE s = top /\ n = P[x]
    BY <2>2, <1>1, <1>4, <1>8
  <2>3. CASE s = side /\ n = y
    BY <2>3, <1>1, <1>4, <1>8
  <2>4. CASE (s # Opp(side) \/ n # x) /\ (s # top \/ n # P[x]) /\ (s # side \/ n # y)
    <3>1. T2[s][n] = T[s][n] /\ T[s][n] \in R /\ P[T[s][n]] = n
      BY <2>4, <1>10, <1>4, <1>6, <1>7
    <3>2. T[s][n] # x /\ T[s][n] # y /\ T[s][n] # inner
      <4>1. T[s][n] # y
        BY <2>4, <1>1, <1>3, <1>5, <3>1
      <4>2. T[s][n] # inner
        BY <2>4, <1>1, <1>2, <1>3, <1>5, <3>1
      <4>3. T[s][n] # x
        BY <2>4, <1>1, <1>2, <1>3, <1>5, <3>1
      <4>4. QED
        BY <4>1, <4>2, <4>3
    <3>3. QED
      BY <3>1, <3>2, <1>8
  <2>5. QED
    BY <2>1, <2>2, <2>3, <2>4
<1>11. ASSUME NEW n \in R
       PROVE  P2[n] \in R \cup {Nil} /\ \E s \in Sides : T2[s][P2[n]] = n
  <2>1. CASE n = x
    BY <2>1, <1>1, <1>4, <1>8
  <2>2. CASE n = y
    BY <2>2, <1>1, <1>2, <1>4, <1>8
  <2>3. CASE n = inner
    BY <2>3, <1>1, <1>3, <1>4, <1>7, <1>8
  <2>4. CASE n # x /\ n # y /\ n # inner
    <3>1. P2[n] = P[n] /\ P[n] \in R \cup {Nil}
      BY <2>4, <1>6, <1>8
    <3>2. PICK s \in Sides : T[s][P[n]] = n
      BY <1>6
    <3>3. T2[s][P[n]] = T[s][P[n]]
      <4>1. s # Opp(side) \/ P[n] # x
        BY <2>4, <1>5, <3>2
      <4>2. s # top \/ P[n] # P[x]
        BY <2>4, <1>2, <3>2
      <4>3. s # side \/ P[n] # y
        BY <2>4, <1>5, <3>2
      <4>4. QED
        BY <1>4, <1>7, <3>1, <4>1, <4>2, <4>3
    <3>4. QED
      BY <3>1, <3>2, <3>3
  <2>5. QED
    BY <2>1, <2>2, <2>3, <2>4
<1>12. QED
  BY <1>4, <1>9, <1>10, <1>11 DEF Tree

\* The order of the items is transitive.
LEMMA BeforeTransitive ==
  ASSUME NEW side \in Sides, NEW k \in Socks, NEW m \in Socks, NEW n \in Socks,
         Before(side, k, m), Before(side, m, n)
  PROVE  Before(side, k, n)
BY TreeAssumption DEF Before, Sides

\* The links after the rotation, by the nodes they start from.
Relinked(T, R, x, side, T2, y, inner, outer) ==
    /\ T2[side][x] = T[side][x] /\ T2[Opp(side)][x] = inner
    /\ T2[side][y] = x /\ T2[Opp(side)][y] = outer
    /\ T[side][x] \in (R \cup {Nil}) \ {x, y}
    /\ inner \in (R \cup {Nil}) \ {x, y}
    /\ outer \in (R \cup {Nil}) \ {x, y}
    /\ \A n \in (R \cup {Nil}) \ {x, y}, s \in Sides :
          \/ T2[s][n] = y /\ T[s][n] = x
          \/ T2[s][n] = T[s][n] /\ T[s][n] \in (R \cup {Nil}) \ {x, y}

\* A rotation changes the links of x, of y and the one that led to x, and no more.
LEMMA TurnLinks ==
  ASSUME NEW R \in SUBSET Socks, NEW T, NEW P, NEW D, Tree(T, P, R), Sorted(T, D, R),
         NEW x \in R, NEW side \in Sides, T[Opp(side)][x] # Nil,
         NEW T2, NEW P2, Turns(T, P, x, side, T2, P2)
  PROVE  Relinked(T, R, x, side, T2, T[Opp(side)][x], T[side][T[Opp(side)][x]],
                  T[Opp(side)][T[Opp(side)][x]])
<1> DEFINE y == T[Opp(side)][x]
           inner == T[side][y]
           outer == T[Opp(side)][y]
           top == SideIn(T, P, x)
<1> USE TreeAssumption
<1>1. /\ y \in R /\ y # x /\ P[y] = x
      /\ inner \in R \cup {Nil} /\ inner # x /\ inner # y
      /\ inner # Nil => P[inner] = y
      /\ P[x] \in R \cup {Nil} /\ P[x] # x /\ P[x] # y
      /\ inner # Nil => P[x] # inner
  <2>1. TurnsAt(P, R, x, y, inner)
    BY TurnPlaces
  <2>2. QED
    BY <2>1 DEF TurnsAt
<1>2. top \in Sides /\ T[top][P[x]] = x
  <2>1. top \in Sides
    BY UpIsDown
  <2>2. T[top][P[x]] = x
    BY UpIsDown
  <2>3. QED
    BY <2>1, <2>2
<1>3. /\ Opp(side) \in Sides /\ Opp(side) # side /\ Opp(Opp(side)) = side
      /\ \A s \in Sides : s = side \/ s = Opp(side)
  BY OppFacts
<1>4. /\ T2[Opp(side)][x] = inner /\ T2[top][P[x]] = y /\ T2[side][y] = x
      /\ \A s \in Sides, n \in Places :
            (s # Opp(side) \/ n # x) /\ (s # top \/ n # P[x]) /\ (s # side \/ n # y)
               => T2[s][n] = T[s][n]
  BY DEF Turns
<1>5. T[Opp(side)][x] = y /\ T[side][y] = inner /\ T[Opp(side)][y] = outer
  OBVIOUS
<1>6. R \subseteq Socks /\ Places = Socks \cup {Nil} /\ Nil \notin Socks
  BY DEF Places
<1>7. \A n \in R \cup {Nil}, s \in Sides :
         /\ T[s][n] \in R \cup {Nil}
         /\ T[s][n] # Nil => P[T[s][n]] = n
  BY DEF Tree
<1>8. \A s1, s2 \in Sides : T[s1][P[x]] = x /\ T[s2][P[x]] = x => s1 = s2
  <2>1. SUFFICES ASSUME NEW s1 \in Sides, NEW s2 \in Sides,
                        T[s1][P[x]] = x, T[s2][P[x]] = x
                 PROVE  s1 = s2
    OBVIOUS
  <2>2. T[s1][P[x]] # Nil /\ T[s1][P[x]] = T[s2][P[x]]
    BY <2>1, <1>6
  <2>3. \A n \in R \cup {Nil} : T[s1][n] # Nil /\ T[s1][n] = T[s2][n] => s1 = s2
    BY OneSide
  <2>4. QED
    BY <2>2, <2>3, <1>1
<1> HIDE DEF y, inner, outer, top
<1>9. ASSUME NEW n \in (R \cup {Nil}) \ {x, y}, NEW s \in Sides
      PROVE  \/ T2[s][n] = y /\ T[s][n] = x
             \/ T2[s][n] = T[s][n] /\ T[s][n] \in (R \cup {Nil}) \ {x, y}
  <2>1. CASE s = top /\ n = P[x]
    BY <2>1, <1>2, <1>4
  <2>2. CASE s # top \/ n # P[x]
    <3>1. T2[s][n] = T[s][n]
      BY <2>2, <1>9, <1>4, <1>6
    <3>2. T[s][n] # x /\ T[s][n] # y
      BY <2>2, <1>9, <1>1, <1>2, <1>6, <1>7, <1>8
    <3>3. QED
      BY <3>1, <3>2, <1>7
  <2>3. QED
    BY <2>1, <2>2
<1>10. /\ T2[side][x] = T[side][x] /\ T2[Opp(side)][x] = inner
       /\ T2[side][y] = x /\ T2[Opp(side)][y] = outer
  BY <1>1, <1>3, <1>4, <1>5, <1>6
<1>11. outer # x /\ outer # y /\ outer \in R \cup {Nil}
  BY <1>1, <1>3, <1>5, <1>6, <1>7
<1>12. T[side][x] # x /\ T[side][x] # y /\ T[side][x] \in R \cup {Nil}
  <2>1. T[side][x] # x
    BY <1>1, <1>6, <1>7
  <2>2. T[side][x] # y
    BY <1>1, <1>3, <1>5, <1>6, OneSide
  <2>3. QED
    BY <2>1, <2>2, <1>7
<1>13. Relinked(T, R, x, side, T2, y, inner, outer)
  BY <1>1, <1>9, <1>10, <1>11, <1>12 DEF Relinked
<1>14. QED
  BY <1>13 DEF y, inner, outer

\* ... and a search tree a search tree: it moves no item to another side of one.
LEMMA TurnSorted ==
  ASSUME NEW R \in SUBSET Socks, NEW T, NEW P, NEW D, Tree(T, P, R), Sorted(T, D, R),
         NEW x \in R, NEW side \in Sides, T[Opp(side)][x] # Nil,
         NEW T2, NEW P2, Turns(T, P, x, side, T2, P2)
  PROVE  Sorted(T2, [D EXCEPT ![T[Opp(side)][x]] = D[x],
                              ![x] = {x} \cup D[T[side][x]] \cup D[T[side][T[Opp(side)][x]]]], R)
<1> DEFINE y == T[Opp(side)][x]
           inner == T[side][y]
           outer == T[Opp(side)][y]
           D2 == [D EXCEPT ![y] = D[x], ![x] = {x} \cup D[T[side][x]] \cup D[inner]]
<1> USE TreeAssumption
<1>1. /\ y \in R /\ y # x /\ P[y] = x
      /\ inner \in R \cup {Nil} /\ inner # x /\ inner # y
      /\ inner # Nil => P[inner] = y
      /\ P[x] \in R \cup {Nil} /\ P[x] # x /\ P[x] # y
      /\ inner # Nil => P[x] # inner
  <2>1. TurnsAt(P, R, x, y, inner)
    BY TurnPlaces
  <2>2. QED
    BY <2>1 DEF TurnsAt
<1>3. /\ Opp(side) \in Sides /\ Opp(side) # side /\ Opp(Opp(side)) = side
      /\ \A s \in Sides : s = side \/ s = Opp(side)
  BY OppFacts
<1>4. /\ T2[side][x] = T[side][x] /\ T2[Opp(side)][x] = inner
      /\ T2[side][y] = x /\ T2[Opp(side)][y] = outer
      /\ T[side][x] \in (R \cup {Nil}) \ {x, y}
      /\ inner \in (R \cup {Nil}) \ {x, y}
      /\ outer \in (R \cup {Nil}) \ {x, y}
      /\ \A n \in (R \cup {Nil}) \ {x, y}, s \in Sides :
            \/ T2[s][n] = y /\ T[s][n] = x
            \/ T2[s][n] = T[s][n] /\ T[s][n] \in (R \cup {Nil}) \ {x, y}
  <2>1. Relinked(T, R, x, side, T2, y, inner, outer)
    BY TurnLinks
  <2>2. QED
    BY <2>1 DEF Relinked
<1>5. T[Opp(side)][x] = y /\ T[side][y] = inner /\ T[Opp(side)][y] = outer
  OBVIOUS
<1>6. /\ D \in [Places -> SUBSET R]
      /\ D[Nil] = {}
      /\ D[T["left"][Nil]] = R
      /\ \A n \in R : D[n] = {n} \cup D[T["left"][n]] \cup D[T["right"][n]]
      /\ \A n \in R, s \in Sides : \A m \in D[T[s][n]] : Before(s, m, n)
  BY DEF Sorted
<1>7. R \subseteq Socks /\ Places = Socks \cup {Nil} /\ Nil \notin Socks
  BY DEF Places
<1>8. \A n \in R \cup {Nil}, s \in Sides :
         /\ T[s][n] \in R \cup {Nil}
         /\ T[s][n] # Nil => P[T[s][n]] = n
  BY DEF Tree
<1>9. \A n \in R : D[n] = {n} \cup D[T[side][n]] \cup D[T[Opp(side)][n]]
  BY <1>6 DEF Opp, Sides
<1> HIDE DEF y, inner, outer
<1>11. /\ D2 \in [Places -> SUBSET R] /\ D2[y] = D[x] 
       /\ D2[x] = {x} \cup D[T[side][x]] \cup D[inner]
       /\ \A n \in Places : n # x /\ n # y => D2[n] = D[n]
  <2>1. {x} \cup D[T[side][x]] \cup D[inner] \in SUBSET R
    BY <1>1, <1>6, <1>7, <1>8
  <2>2. PICK V \in SUBSET R : V = {x} \cup D[T[side][x]] \cup D[inner]
    BY <2>1
  <2>3. PICK W \in SUBSET R : W = D[x]
    BY <1>6, <1>7
  <2>4. D2 = [D EXCEPT ![y] = W, ![x] = V]
    BY <2>2, <2>3
  <2> HIDE DEF D2
  <2>5. x \in Places /\ y \in Places /\ y # x
    BY <1>1, <1>7
  <2>6. D2 \in [Places -> SUBSET R]
    BY <2>4, <1>6
  <2>7. D2[y] = W /\ D2[x] = V
    BY <2>4, <2>5, <1>6
  <2>8. \A n \in Places : n # x /\ n # y => D2[n] = D[n]
    BY <2>4, <1>6
  <2>9. QED
    BY <2>2, <2>3, <2>6, <2>7, <2>8
<1> HIDE DEF D2
<1>12. ASSUME NEW n \in R \cup {Nil}, n # x, n # y, NEW s \in Sides
       PROVE  D2[T2[s][n]] = D[T[s][n]]
  <2>1. \/ T2[s][n] = y /\ T[s][n] = x
        \/ T2[s][n] = T[s][n] /\ T[s][n] \in (R \cup {Nil}) \ {x, y}
    BY <1>4, <1>12
  <2>2. QED
    BY <2>1, <1>7, <1>11
<1>13. D2[Nil] = {} /\ D2[T2["left"][Nil]] = R
  BY <1>1, <1>6, <1>7, <1>11, <1>12 DEF Sides
<1>17. /\ D2[T2[side][x]] = D[T[side][x]] /\ D2[T2[Opp(side)][x]] = D[inner]
       /\ D2[T2[side][y]] = {x} \cup D[T[side][x]] \cup D[inner]
       /\ D2[T2[Opp(side)][y]] = D[outer]
  BY <1>1, <1>4, <1>7, <1>11
<1>18. /\ D[x] = {x} \cup D[T[side][x]] \cup D[y]
       /\ D[y] = {y} \cup D[inner] \cup D[outer]
  BY <1>1, <1>5, <1>9
<1>19. ASSUME NEW n \in R
       PROVE  D2[n] = {n} \cup D2[T2["left"][n]] \cup D2[T2["right"][n]]
  <2>1. D2[n] = {n} \cup D2[T2[side][n]] \cup D2[T2[Opp(side)][n]]
    <3>1. CASE n = x
      BY <3>1, <1>11, <1>17
    <3>2. CASE n = y
      BY <3>2, <1>11, <1>17, <1>18
    <3>3. CASE n # x /\ n # y
      BY <3>3, <1>3, <1>7, <1>9, <1>11, <1>12
    <3>4. QED
      BY <3>1, <3>2, <3>3
  <2>2. QED
    BY <2>1 DEF Opp, Sides
<1>20. ASSUME NEW n \in R, NEW s \in Sides, NEW m \in D2[T2[s][n]]
       PROVE  Before(s, m, n)
  <2>1. CASE n = x
    <3>1. CASE s = side
      BY <2>1, <3>1, <1>20, <1>6, <1>17
    <3>2. CASE s = Opp(side)
      <4>1. m \in D[T[Opp(side)][x]]
        BY <2>1, <3>2, <1>20, <1>5, <1>17, <1>18
      <4>2. QED
        BY <2>1, <3>2, <4>1, <1>3, <1>6
    <3>3. QED
      BY <3>1, <3>2, <1>3
  <2>2. CASE n = y
    <3>1. CASE s = Opp(side)
      BY <2>2, <3>1, <1>20, <1>3, <1>5, <1>6, <1>17
    <3>2. CASE s = side
      <4>1. Before(side, x, y)
        <5>1. y \in D[T[Opp(side)][x]]
          BY <1>5, <1>18
        <5>2. Before(Opp(side), y, x)
          BY <5>1, <1>3, <1>6
        <5>3. QED
          BY <5>2, <1>1, <1>3, <1>7, BeforeFacts
      <4>2. CASE m \in D[inner]
        BY <2>2, <3>2, <4>2, <1>1, <1>5, <1>6
      <4>3. CASE m = x
        BY <2>2, <3>2, <4>1, <4>3
      <4>4. CASE m \in D[T[side][x]]
        <5>1. Before(side, m, x) /\ m \in Socks
          BY <4>4, <1>4, <1>6, <1>7
        <5>2. QED
          BY <2>2, <3>2, <4>1, <5>1, <1>1, <1>7, BeforeTransitive
      <4>5. QED
        BY <2>2, <3>2, <4>2, <4>3, <4>4, <1>20, <1>17
    <3>3. QED
      BY <3>1, <3>2, <1>3
  <2>3. CASE n # x /\ n # y
    BY <2>3, <1>20, <1>6, <1>12
  <2>4. QED
    BY <2>1, <2>2, <2>3
<1>21. Sorted(T2, D2, R)
  BY <1>11, <1>13, <1>19, <1>20 DEF Sorted
<1>22. QED
  BY <1>21 DEF D2, y, inner

(***************************************************************************)
(* An item with one child at most is cut out.                              *)
(***************************************************************************)

\* x, which has no child on one side, is replaced by its other child.
Cuts(T, P, x, T2, P2) ==
    LET c == IF T["left"][x] = Nil THEN T["right"][x] ELSE T["left"][x]
        top == SideIn(T, P, x)
    IN  /\ T2 \in [Sides -> [Places -> Places]]
        /\ T2[top][P[x]] = c
        /\ \A s \in Sides, n \in Places :
              s # top \/ n # P[x] => T2[s][n] = T[s][n]
        /\ P2 = [n \in Socks |-> IF n = c THEN P[x] ELSE P[n]]

\* x hangs below q on that side, and nowhere else.
HangsAt(T, R, x, side, q) ==
    /\ side \in Sides /\ q \in R \cup {Nil} /\ q # x /\ T[side][q] = x
    /\ \A s \in Sides, n \in R \cup {Nil} : T[s][n] = x => s = side /\ n = q

\* In a tree a node hangs at one place: below its parent.
LEMMA TopOf ==
  ASSUME NEW R \in SUBSET Socks, NEW T, NEW P, NEW D, Tree(T, P, R), Sorted(T, D, R),
         NEW x \in R
  PROVE  HangsAt(T, R, x, SideIn(T, P, x), P[x])
<1> USE TreeAssumption
<1> DEFINE top == SideIn(T, P, x)
<1>1. top \in Sides
  BY UpIsDown
<1>2. T[top][P[x]] = x
  BY UpIsDown
<1>3. P[x] \in R \cup {Nil}
  BY UpIsDown
<1> HIDE DEF top
<1>4. P[x] # x
  <2>1. x \notin D[T[top][x]] /\ x \in D[x]
    BY <1>1, BelowItems
  <2>2. QED
    BY <2>1, <1>2
<1>5. ASSUME NEW s \in Sides, NEW n \in R \cup {Nil}, T[s][n] = x
      PROVE  s = top /\ n = P[x]
  <2>1. n = P[x]
    BY <1>5 DEF Tree
  <2>2. T[top][n] = T[s][n] /\ T[s][n] # Nil
    BY <2>1, <1>2, <1>5
  <2>3. s = top
    <3>1. \A s1, s2 \in Sides : T[s1][n] # Nil /\ T[s1][n] = T[s2][n] => s1 = s2
      BY <1>5, OneSide
    <3>2. QED
      BY <2>2, <3>1, <1>1, <1>5
  <2>4. QED
    BY <2>1, <2>3
<1>6. HangsAt(T, R, x, top, P[x])
  BY <1>1, <1>2, <1>3, <1>4, <1>5 DEF HangsAt
<1>7. QED
  BY <1>6 DEF top

\* Cutting an item with one child at most out of a tree leaves a tree ...
LEMMA CutTree ==
  ASSUME NEW R \in SUBSET Socks, NEW T, NEW P, NEW D, Tree(T, P, R), Sorted(T, D, R),
         NEW x \in R, \E s \in Sides : T[s][x] = Nil,
         NEW T2, NEW P2, Cuts(T, P, x, T2, P2)
  PROVE  Tree(T2, P2, R \ {x})
<1> USE TreeAssumption
<1> DEFINE c == IF T["left"][x] = Nil THEN T["right"][x] ELSE T["left"][x]
           top == SideIn(T, P, x)
<1>1. /\ top \in Sides
      /\ P[x] \in R \cup {Nil}
      /\ P[x] # x
      /\ T[top][P[x]] = x
      /\ \A s \in Sides, n \in R \cup {Nil} : T[s][n] = x => s = top /\ n = P[x]
  <2>1. HangsAt(T, R, x, SideIn(T, P, x), P[x])
    BY TopOf
  <2>2. QED
    BY <2>1 DEF HangsAt
<1>2. /\ T2 \in [Sides -> [Places -> Places]]
      /\ T2[top][P[x]] = c
      /\ \A s \in Sides, n \in Places : s # top \/ n # P[x] => T2[s][n] = T[s][n]
      /\ P2 = [n \in Socks |-> IF n = c THEN P[x] ELSE P[n]]
  BY DEF Cuts
<1>3. /\ c \in R \cup {Nil} /\ (c # Nil => P[c] = x)
      /\ \A s \in Sides : T[s][x] = Nil \/ T[s][x] = c
  BY DEF Tree, Sides
<1> HIDE DEF c, top
<1>4. R \subseteq Socks /\ Places = Socks \cup {Nil} /\ Nil \notin Socks
  BY DEF Places
<1>5. T2["right"][Nil] = Nil
  <2>1. "right" # top \/ Nil # P[x]
    BY <1>1, <1>4 DEF Tree
  <2>2. QED
    BY <2>1, <1>2, <1>4 DEF Tree, Sides
<1>6. c # x
  BY <1>1, <1>3, <1>4
<1>7. ASSUME NEW n \in (R \ {x}) \cup {Nil}, NEW s \in Sides, T2[s][n] # Nil
      PROVE  T2[s][n] \in R \ {x} /\ P2[T2[s][n]] = n
  <2>1. CASE s = top /\ n = P[x]
    BY <2>1, <1>7, <1>2, <1>3, <1>4, <1>6
  <2>2. CASE s # top \/ n # P[x]
    <3>1. T2[s][n] = T[s][n] /\ T[s][n] \in R /\ P[T[s][n]] = n
      BY <2>2, <1>2, <1>4, <1>7 DEF Tree
    <3>2. T[s][n] # x /\ T[s][n] # c
      BY <2>2, <1>1, <1>3, <1>4, <1>7, <3>1
    <3>3. QED
      BY <3>1, <3>2, <1>2, <1>4
  <2>3. QED
    BY <2>1, <2>2
<1>8. ASSUME NEW n \in R \ {x}
      PROVE  P2[n] \in (R \ {x}) \cup {Nil} /\ \E s \in Sides : T2[s][P2[n]] = n
  <2>1. CASE n = c
    BY <2>1, <1>1, <1>2, <1>4
  <2>2. CASE n # c
    <3>1. P2[n] = P[n] /\ P[n] \in R \cup {Nil}
      BY <2>2, <1>2, <1>4 DEF Tree
    <3>2. PICK s \in Sides : T[s][P[n]] = n
      BY DEF Tree
    <3>3. P[n] # x
      BY <2>2, <3>2, <1>3, <1>4
    <3>4. T2[s][P[n]] = T[s][P[n]]
      <4>1. s # top \/ P[n] # P[x]
        BY <1>1, <1>8, <3>2
      <4>2. QED
        BY <3>1, <4>1, <1>2, <1>4
    <3>5. QED
      BY <3>1, <3>2, <3>3, <3>4
  <2>3. QED
    BY <2>1, <2>2
<1>9. QED
  BY <1>2, <1>5, <1>7, <1>8 DEF Tree

\* ... and out of a search tree, a search tree of the others.
LEMMA CutSorted ==
  ASSUME NEW R \in SUBSET Socks, NEW T, NEW P, NEW D, Tree(T, P, R), Sorted(T, D, R),
         NEW x \in R, \E s \in Sides : T[s][x] = Nil,
         NEW T2, NEW P2, Cuts(T, P, x, T2, P2)
  PROVE  Sorted(T2, [n \in Places |-> D[n] \ {x}], R \ {x})
<1> USE TreeAssumption
<1> DEFINE c == IF T["left"][x] = Nil THEN T["right"][x] ELSE T["left"][x]
           top == SideIn(T, P, x)
           D2 == [n \in Places |-> D[n] \ {x}]
<1>1. /\ top \in Sides
      /\ P[x] \in R \cup {Nil}
      /\ P[x] # x
      /\ T[top][P[x]] = x
      /\ \A s \in Sides, n \in R \cup {Nil} : T[s][n] = x => s = top /\ n = P[x]
  <2>1. HangsAt(T, R, x, SideIn(T, P, x), P[x])
    BY TopOf
  <2>2. QED
    BY <2>1 DEF HangsAt
<1>2. /\ T2 \in [Sides -> [Places -> Places]]
      /\ T2[top][P[x]] = c
      /\ \A s \in Sides, n \in Places : s # top \/ n # P[x] => T2[s][n] = T[s][n]
  BY DEF Cuts
<1>3. c \in R \cup {Nil} /\ D[x] = {x} \cup D[c]
  BY DEF Tree, Sorted, Sides
<1> HIDE DEF c, top
<1>4. R \subseteq Socks /\ Places = Socks \cup {Nil} /\ Nil \notin Socks
  BY DEF Places
<1>5. /\ D \in [Places -> SUBSET R]
      /\ D[Nil] = {}
      /\ D[T["left"][Nil]] = R
      /\ \A n \in R : D[n] = {n} \cup D[T["left"][n]] \cup D[T["right"][n]]
      /\ \A n \in R, s \in Sides : \A m \in D[T[s][n]] : Before(s, m, n)
  BY DEF Sorted
<1>6. D2 \in [Places -> SUBSET (R \ {x})] /\ \A n \in Places : D2[n] = D[n] \ {x}
  BY <1>5
<1> HIDE DEF D2
<1>7. ASSUME NEW n \in (R \ {x}) \cup {Nil}, NEW s \in Sides
      PROVE  D2[T2[s][n]] = D[T[s][n]] \ {x}
  <2>1. CASE s = top /\ n = P[x]
    BY <2>1, <1>1, <1>2, <1>3, <1>4, <1>6
  <2>2. CASE s # top \/ n # P[x]
    <3>1. T2[s][n] = T[s][n] /\ T[s][n] \in Places
      BY <2>2, <1>2, <1>4 DEF Tree
    <3>2. QED
      BY <3>1, <1>6
  <2>3. QED
    BY <2>1, <2>2
<1>8. D2[Nil] = {} /\ D2[T2["left"][Nil]] = R \ {x}
  <2>1. D2[Nil] = {}
    <3>1. D2[Nil] = D[Nil] \ {x}
      BY <1>4, <1>6
    <3>2. QED
      BY <3>1, <1>5
  <2>2. D2[T2["left"][Nil]] = D[T["left"][Nil]] \ {x}
    BY <1>7 DEF Sides
  <2>3. QED
    BY <2>1, <2>2, <1>5
<1>9. ASSUME NEW n \in R \ {x}
      PROVE  /\ D2[n] = {n} \cup D2[T2["left"][n]] \cup D2[T2["right"][n]]
             /\ \A s \in Sides : \A m \in D2[T2[s][n]] : Before(s, m, n)
  <2>1. D2[n] = D[n] \ {x} /\ \A s \in Sides : D2[T2[s][n]] = D[T[s][n]] \ {x}
    BY <1>4, <1>6, <1>7
  <2>2. D2[n] = {n} \cup D2[T2["left"][n]] \cup D2[T2["right"][n]]
    <3>1. D[n] = {n} \cup D[T["left"][n]] \cup D[T["right"][n]] /\ n # x
      BY <1>5
    <3>2. /\ D2[T2["left"][n]] = D[T["left"][n]] \ {x}
          /\ D2[T2["right"][n]] = D[T["right"][n]] \ {x}
      BY <2>1 DEF Sides
    <3>3. QED
      BY <2>1, <3>1, <3>2
  <2>3. ASSUME NEW s \in Sides, NEW m \in D2[T2[s][n]]
        PROVE  Before(s, m, n)
    <3>1. n \in R /\ m \in D[T[s][n]]
      BY <2>1, <2>3
    <3>2. QED
      BY <3>1, <1>5
  <2>4. QED
    BY <2>2, <2>3
<1>10. Sorted(T2, D2, R \ {x})
  BY <1>6, <1>8, <1>9 DEF Sorted
<1>11. QED
  BY <1>10 DEF D2

(***************************************************************************)
(* An item takes the place of another.                                     *)
(***************************************************************************)

\* A set of numbers that is not empty has a least one.
LEMMA Least ==
  ASSUME NEW S \in SUBSET Nat, S # {}
  PROVE  \E k \in S : \A j \in S : k <= j
<1> DEFINE Less == OpToRel(<, Nat)
<1>1. IsWellFoundedOn(Less, Nat)
  BY NatLessThanWellFounded
<1> HIDE DEF Less
<1>2. PICK k \in S : \A j \in S : ~ (<<j, k>> \in Less)
  BY <1>1, WFMin
<1>3. ASSUME NEW j \in S
      PROVE  k <= j
  <2>1. <<j, k>> \in Less <=> j < k
    BY DEF Less, OpToRel
  <2>2. QED
    BY <1>2, <2>1
<1>4. QED
  BY <1>3

\* Sets of items are finite, and a proper subset has fewer of them.
LEMMA Smaller ==
  ASSUME NEW V \in SUBSET Socks
  PROVE  /\ Cardinality(V) \in Nat
         /\ \A U \in SUBSET V : U # V => Cardinality(U) < Cardinality(V)
<1>1. IsFiniteSet(V)
  BY TreeAssumption, FS_Subset
<1>2. Cardinality(V) \in Nat
  BY <1>1, FS_CardinalityType
<1>3. ASSUME NEW U \in SUBSET V, U # V
      PROVE  Cardinality(U) < Cardinality(V)
  <2>1. /\ IsFiniteSet(U)
        /\ Cardinality(U) <= Cardinality(V)
        /\ Cardinality(V) = Cardinality(U) => V = U
    BY <1>1, FS_Subset
  <2>2. Cardinality(U) \in Nat
    BY <2>1, FS_CardinalityType
  <2>3. QED
    BY <1>2, <1>3, <2>1, <2>2
<1>4. QED
  BY <1>2, <1>3

\* Among some items there is one with nothing of them further down.
LEMMA Lowest ==
  ASSUME NEW D \in [Places -> SUBSET Socks], NEW Q \in SUBSET Places, Q # {}
  PROVE  \E m \in Q : \A n \in Q : D[n] \subseteq D[m] => D[n] = D[m]
<1> DEFINE S == {Cardinality(D[n]) : n \in Q}
<1>1. \A n \in Q : D[n] \in SUBSET Socks
  OBVIOUS
<1>2. S \in SUBSET Nat /\ S # {}
  BY <1>1, Smaller
<1>3. PICK k \in S : \A j \in S : k <= j
  <2> HIDE DEF S
  <2> QED
    BY <1>2, Least
<1>4. PICK m \in Q : k = Cardinality(D[m])
  BY <1>3
<1>5. ASSUME NEW n \in Q, D[n] \subseteq D[m], D[n] # D[m]
      PROVE  FALSE
  <2>1. Cardinality(D[n]) < Cardinality(D[m])
    BY <1>1, <1>5, Smaller
  <2>2. k <= Cardinality(D[n])
    BY <1>3
  <2>3. k \in Nat /\ Cardinality(D[n]) \in Nat
    BY <1>1, <1>2, <1>3, Smaller
  <2>4. QED
    BY <1>4, <2>1, <2>2, <2>3
<1>6. QED
  BY <1>5

\* What is below an item is below everything the item is below.
LEMMA Nested ==
  ASSUME NEW R \in SUBSET Socks, NEW T, NEW P, NEW D, Tree(T, P, R), Sorted(T, D, R),
         NEW x \in R, NEW n \in R \cup {Nil}, x \in D[n]
  PROVE  D[x] \subseteq D[n]
<1> DEFINE Q == {m \in R : x \in D[m] /\ ~(D[x] \subseteq D[m])}
<1>1. SUFFICES ASSUME ~(D[x] \subseteq D[n])
               PROVE  FALSE
  OBVIOUS
<1>2. n \in Q
  BY <1>1 DEF Sorted
<1>3. PICK m \in Q : \A k \in Q : D[k] \subseteq D[m] => D[k] = D[m]
  <2>1. D \in [Places -> SUBSET Socks] /\ Q \in SUBSET Places /\ Q # {}
    BY <1>2 DEF Sorted, Places
  <2> HIDE DEF Q
  <2>2. QED
    BY <2>1, Lowest
<1>4. m # x /\ m \in R /\ x \in D[m] /\ ~(D[x] \subseteq D[m])
  BY <1>3
<1>5. PICK s \in Sides : x \in D[T[s][m]]
  BY <1>4 DEF Sorted, Sides
<1>6. D[T[s][m]] \subseteq D[m] /\ m \notin D[T[s][m]] /\ m \in D[m] /\ T[s][m] \in R \cup {Nil}
  <2>1. D[T[s][m]] \subseteq D[m]
    BY <1>4, <1>5, BelowItems
  <2>2. m \notin D[T[s][m]] /\ m \in D[m]
    BY <1>4, <1>5, BelowItems
  <2>3. T[s][m] \in R \cup {Nil}
    BY <1>4, <1>5, BelowItems
  <2>4. QED
    BY <2>1, <2>2, <2>3
<1>7. T[s][m] \in Q
  BY <1>4, <1>5, <1>6 DEF Sorted
<1>8. QED
  BY <1>3, <1>6, <1>7

\* h, which is not in the tree, takes the place of x.
Takes(T, P, x, h, T2, P2) ==
    LET top == SideIn(T, P, x)
    IN  /\ T2 \in [Sides -> [Places -> Places]]
        /\ T2[top][P[x]] = h
        /\ \A s \in Sides : T2[s][h] = T[s][x]
        /\ \A s \in Sides, n \in Places \ {h, x} :
              s # top \/ n # P[x] => T2[s][n] = T[s][n]
        /\ P2 = [n \in Socks |-> IF n = h THEN P[x] ELSE IF P[n] = x THEN h ELSE P[n]]

\* A new item in the place of an old one: the tree stays a tree ...
LEMMA TakeTree ==
  ASSUME NEW R \in SUBSET Socks, NEW T, NEW P, NEW D, Tree(T, P, R), Sorted(T, D, R),
         NEW x \in R, NEW h \in Socks \ R,
         NEW T2, NEW P2, Takes(T, P, x, h, T2, P2)
  PROVE  Tree(T2, P2, (R \ {x}) \cup {h})
<1> USE TreeAssumption
<1> DEFINE top == SideIn(T, P, x)
<1>1. /\ top \in Sides
      /\ P[x] \in R \cup {Nil}
      /\ P[x] # x
      /\ T[top][P[x]] = x
      /\ \A s \in Sides, n \in R \cup {Nil} : T[s][n] = x => s = top /\ n = P[x]
  <2>1. HangsAt(T, R, x, SideIn(T, P, x), P[x])
    BY TopOf
  <2>2. QED
    BY <2>1 DEF HangsAt
<1>2. /\ T2 \in [Sides -> [Places -> Places]]
      /\ T2[top][P[x]] = h
      /\ \A s \in Sides : T2[s][h] = T[s][x]
      /\ \A s \in Sides, n \in Places \ {h, x} : s # top \/ n # P[x] => T2[s][n] = T[s][n]
      /\ P2 = [n \in Socks |-> IF n = h THEN P[x] ELSE IF P[n] = x THEN h ELSE P[n]]
  BY DEF Takes
<1> HIDE DEF top
<1>3. /\ T["right"][Nil] = Nil
      /\ \A n \in R \cup {Nil}, s \in Sides :
            T[s][n] # Nil => T[s][n] \in R /\ P[T[s][n]] = n
      /\ \A n \in R : P[n] \in R \cup {Nil} /\ \E s \in Sides : T[s][P[n]] = n
  BY DEF Tree
<1>4. R \subseteq Socks /\ Places = Socks \cup {Nil} /\ Nil \notin Socks
  BY DEF Places
<1>5. T2["right"][Nil] = Nil
  <2>1. "right" # top \/ Nil # P[x]
    BY <1>1, <1>3, <1>4
  <2>2. QED
    BY <2>1, <1>2, <1>3, <1>4 DEF Sides
<1>6. ASSUME NEW n \in ((R \ {x}) \cup {h}) \cup {Nil}, NEW s \in Sides, T2[s][n] # Nil
      PROVE  T2[s][n] \in (R \ {x}) \cup {h} /\ P2[T2[s][n]] = n
  <2>1. CASE n = h
    <3>1. T2[s][n] = T[s][x]
      BY <2>1, <1>2
    <3>2. T[s][x] \in R /\ P[T[s][x]] = x /\ T[s][x] # x
      BY <3>1, <1>1, <1>3, <1>6
    <3>3. QED
      BY <2>1, <3>1, <3>2, <1>2, <1>4
  <2>2. CASE s = top /\ n = P[x]
    BY <2>2, <1>2, <1>4
  <2>3. CASE n # h /\ (s # top \/ n # P[x])
    <3>1. T2[s][n] = T[s][n] /\ n \in R \cup {Nil} /\ n # x
      BY <2>3, <1>2, <1>4, <1>6
    <3>2. T[s][n] \in R /\ P[T[s][n]] = n
      BY <3>1, <1>3, <1>6
    <3>3. T[s][n] # x
      BY <2>3, <3>1, <1>1
    <3>4. QED
      BY <3>1, <3>2, <3>3, <1>2, <1>4
  <2>4. QED
    BY <2>1, <2>2, <2>3
<1>7. ASSUME NEW n \in (R \ {x}) \cup {h}
      PROVE  P2[n] \in ((R \ {x}) \cup {h}) \cup {Nil} /\ \E s \in Sides : T2[s][P2[n]] = n
  <2>1. CASE n = h
    BY <2>1, <1>1, <1>2
  <2>2. CASE n # h /\ P[n] = x
    <3>1. P2[n] = h
      BY <2>2, <1>2, <1>4, <1>7
    <3>2. PICK s \in Sides : T[s][x] = n
      BY <2>2, <1>3, <1>7
    <3>3. QED
      BY <3>1, <3>2, <1>2
  <2>3. CASE n # h /\ P[n] # x
    <3>1. n \in R /\ n # x /\ P2[n] = P[n] /\ P[n] \in R \cup {Nil}
      BY <2>3, <1>2, <1>3, <1>4, <1>7
    <3>2. PICK s \in Sides : T[s][P[n]] = n
      BY <1>3, <3>1
    <3>3. s # top \/ P[n] # P[x]
      BY <1>1, <3>1, <3>2
    <3>4. P[n] \in Places \ {h, x}
      BY <2>3, <3>1, <1>4
    <3>5. T2[s][P[n]] = n
      BY <3>2, <3>3, <3>4, <1>2
    <3>6. QED
      BY <2>3, <3>1, <3>5
  <2>4. QED
    BY <2>1, <2>2, <2>3
<1>8. QED
  BY <1>2, <1>5, <1>6, <1>7 DEF Tree

\* ... and a search tree, if the new item comes between those around the old one.
LEMMA TakeSorted ==
  ASSUME NEW R \in SUBSET Socks, NEW T, NEW P, NEW D, Tree(T, P, R), Sorted(T, D, R),
         NEW x \in R, NEW h \in Socks \ R,
         \A s \in Sides : \A m \in D[T[s][x]] : Before(s, m, h),
         \A n \in R, s \in Sides : x \in D[T[s][n]] => Before(s, h, n),
         NEW T2, NEW P2, Takes(T, P, x, h, T2, P2)
  PROVE  Sorted(T2, [n \in Places |-> IF n = h THEN (D[x] \ {x}) \cup {h}
                                      ELSE IF x \in D[n] THEN (D[n] \ {x}) \cup {h}
                                      ELSE D[n]], (R \ {x}) \cup {h})
<1> USE TreeAssumption
<1> DEFINE top == SideIn(T, P, x)
           D2 == [n \in Places |-> IF n = h THEN (D[x] \ {x}) \cup {h}
                                   ELSE IF x \in D[n] THEN (D[n] \ {x}) \cup {h}
                                   ELSE D[n]]
<1>1. /\ top \in Sides
      /\ P[x] \in R \cup {Nil}
      /\ P[x] # x
      /\ T[top][P[x]] = x
      /\ \A s \in Sides, n \in R \cup {Nil} : T[s][n] = x => s = top /\ n = P[x]
  <2>1. HangsAt(T, R, x, SideIn(T, P, x), P[x])
    BY TopOf
  <2>2. QED
    BY <2>1 DEF HangsAt
<1>2. /\ T2[top][P[x]] = h
      /\ \A s \in Sides : T2[s][h] = T[s][x]
      /\ \A s \in Sides, n \in Places \ {h, x} : s # top \/ n # P[x] => T2[s][n] = T[s][n]
  BY DEF Takes
<1> HIDE DEF top
<1>3. R \subseteq Socks /\ Places = Socks \cup {Nil} /\ Nil \notin Socks
  BY DEF Places
<1>4. /\ D \in [Places -> SUBSET R]
      /\ D[Nil] = {}
      /\ D[T["left"][Nil]] = R
      /\ \A n \in R : D[n] = {n} \cup D[T["left"][n]] \cup D[T["right"][n]]
      /\ \A n \in R, s \in Sides : \A m \in D[T[s][n]] : Before(s, m, n)
  BY DEF Sorted
<1>5. \A n \in R \cup {Nil}, s \in Sides : T[s][n] \in R \cup {Nil}
  BY DEF Tree
<1>6. \A n \in R : n \in D[n] /\ \A s \in Sides : n \notin D[T[s][n]]
  BY BelowItems
<1>7. /\ D2[h] = (D[x] \ {x}) \cup {h}
      /\ \A n \in R \cup {Nil} :
            D2[n] = IF x \in D[n] THEN (D[n] \ {x}) \cup {h} ELSE D[n]
      /\ D2 \in [Places -> SUBSET ((R \ {x}) \cup {h})]
  <2>1. D2[h] = (D[x] \ {x}) \cup {h}
    BY <1>3
  <2>2. \A n \in R \cup {Nil} :
            D2[n] = IF x \in D[n] THEN (D[n] \ {x}) \cup {h} ELSE D[n]
    BY <1>3
  <2>3. ASSUME NEW n \in Places
        PROVE  D2[n] \in SUBSET ((R \ {x}) \cup {h})
    <3>1. D[n] \subseteq R /\ D[x] \subseteq R
      BY <1>3, <1>4
    <3>2. QED
      BY <3>1
  <2> HIDE DEF D2
  <2>4. D2 = [n \in Places |-> D2[n]]
    BY DEF D2
  <2>5. QED
    BY <2>1, <2>2, <2>3, <2>4
<1> HIDE DEF D2
<1>8. ASSUME NEW n \in (R \ {x}) \cup {Nil}, NEW s \in Sides
      PROVE  D2[T2[s][n]] = IF x \in D[T[s][n]] THEN (D[T[s][n]] \ {x}) \cup {h}
                            ELSE D[T[s][n]]
  <2>1. CASE s = top /\ n = P[x]
    BY <2>1, <1>1, <1>2, <1>6, <1>7
  <2>2. CASE s # top \/ n # P[x]
    <3>1. T2[s][n] = T[s][n]
      BY <2>2, <1>2, <1>3
    <3>2. PICK c \in R \cup {Nil} : T[s][n] = c
      BY <1>5
    <3>3. D2[c] = IF x \in D[c] THEN (D[c] \ {x}) \cup {h} ELSE D[c]
      BY <1>7
    <3>4. QED
      BY <3>1, <3>2, <3>3
  <2>3. QED
    BY <2>1, <2>2
<1>9. \A s \in Sides : D2[T2[s][h]] = D[T[s][x]]
  <2>1. \A s \in Sides : T[s][x] \in R \cup {Nil} /\ x \notin D[T[s][x]]
    BY <1>5, <1>6
  <2>2. QED
    BY <2>1, <1>2, <1>7
<1>10. D2[Nil] = {}
  BY <1>4, <1>7
<1>11. D2[T2["left"][Nil]] = (R \ {x}) \cup {h}
  <2>1. x \in D[T["left"][Nil]]
    BY <1>4
  <2>2. Nil \in (R \ {x}) \cup {Nil} /\ "left" \in Sides
    BY DEF Sides
  <2>3. D2[T2["left"][Nil]] = (D[T["left"][Nil]] \ {x}) \cup {h}
    BY <2>1, <2>2, <1>8
  <2>4. QED
    BY <2>3, <1>4
<1>12. ASSUME NEW n \in (R \ {x}) \cup {h}
       PROVE  D2[n] = {n} \cup D2[T2["left"][n]] \cup D2[T2["right"][n]]
  <2>1. CASE n = h
    <3>1. D[x] = {x} \cup D[T["left"][x]] \cup D[T["right"][x]]
      BY <1>4
    <3>2. /\ x \notin D[T["left"][x]] /\ x \notin D[T["right"][x]]
          /\ D2[T2["left"][h]] = D[T["left"][x]] /\ D2[T2["right"][h]] = D[T["right"][x]]
      BY <1>6, <1>9 DEF Sides
    <3>3. QED
      BY <2>1, <3>1, <3>2, <1>7
  <2>2. CASE n # h
    <3>1. n \in R /\ n # x
      BY <2>2, <1>12
    <3>2. D[n] = {n} \cup D[T["left"][n]] \cup D[T["right"][n]]
      BY <3>1, <1>4
    <3>3. /\ D2[T2["left"][n]] = IF x \in D[T["left"][n]]
                                 THEN (D[T["left"][n]] \ {x}) \cup {h} ELSE D[T["left"][n]]
          /\ D2[T2["right"][n]] = IF x \in D[T["right"][n]]
                                  THEN (D[T["right"][n]] \ {x}) \cup {h} ELSE D[T["right"][n]]
      BY <3>1, <1>8 DEF Sides
    <3>4. D2[n] = IF x \in D[n] THEN (D[n] \ {x}) \cup {h} ELSE D[n]
      BY <3>1, <1>7
    <3>5. QED
      BY <3>1, <3>2, <3>3, <3>4
  <2>3. QED
    BY <2>1, <2>2
<1>13. ASSUME NEW n \in (R \ {x}) \cup {h}, NEW s \in Sides, NEW m \in D2[T2[s][n]]
       PROVE  Before(s, m, n)
  <2>1. CASE n = h
    BY <2>1, <1>9, <1>13
  <2>2. CASE n # h
    <3>1. n \in R /\ n # x
      BY <2>2, <1>13
    <3>2. D2[T2[s][n]] = IF x \in D[T[s][n]] THEN (D[T[s][n]] \ {x}) \cup {h}
                         ELSE D[T[s][n]]
      BY <3>1, <1>8
    <3>3. CASE m \in D[T[s][n]]
      BY <3>1, <3>3, <1>4
    <3>4. CASE m = h /\ x \in D[T[s][n]]
      BY <3>1, <3>4
    <3>5. QED
      BY <3>2, <3>3, <3>4, <1>13
  <2>3. QED
    BY <2>1, <2>2
<1>14. Sorted(T2, D2, (R \ {x}) \cup {h})
  BY <1>7, <1>10, <1>11, <1>12, <1>13 DEF Sorted
<1>15. QED
  BY <1>14 DEF D2

(***************************************************************************)
(* An item is added at the end of its search.                              *)
(***************************************************************************)

\* x, which is not in the tree, becomes a child of e without children.
Hangs(T, P, x, e, T2, P2) ==
    /\ T2 \in [Sides -> [Places -> Places]]
    /\ T2[Toward(x, e)][e] = x
    /\ \A s \in Sides : T2[s][x] = Nil
    /\ \A s \in Sides, n \in Places \ {x} :
          s # Toward(x, e) \/ n # e => T2[s][n] = T[s][n]
    /\ P2 = [P EXCEPT ![x] = e]

\* V is the way from the head toward k, which ends at e.
Way(T, R, k, V, e) ==
    /\ V \in SUBSET (R \cup {Nil})
    /\ Nil \in V /\ e \in V
    /\ \A n \in V \ {e} : n # k /\ T[Toward(k, n)][n] \in V \ {Nil}
    /\ \A n \in V \ {Nil} : \E q \in V \ {k} : n = T[Toward(k, q)][q]
    /\ e # k => T[Toward(k, e)][e] = Nil

\* Every item is on one side of another, the side the search takes.
LEMMA TowardFacts ==
  ASSUME NEW k \in Socks, NEW n \in Places
  PROVE  /\ Toward(k, n) \in Sides
         /\ n = Nil => Toward(k, n) = "left"
         /\ n # Nil /\ n # k => Before(Toward(k, n), k, n)
BY TreeAssumption DEF Toward, Sides, Before, Places

\* A new item at the end of the way to it: the tree stays a tree ...
LEMMA HangTree ==
  ASSUME NEW R \in SUBSET Socks, NEW T, NEW P \in [Socks -> Places], Tree(T, P, R),
         NEW x \in Socks \ R, NEW e \in R \cup {Nil}, T[Toward(x, e)][e] = Nil,
         NEW T2, NEW P2, Hangs(T, P, x, e, T2, P2)
  PROVE  Tree(T2, P2, R \cup {x})
<1> USE TreeAssumption
<1> DEFINE t == Toward(x, e)
<1>1. R \subseteq Socks /\ Places = Socks \cup {Nil} /\ Nil \notin Socks
  BY DEF Places
<1>2. t \in Sides /\ (e = Nil => t = "left")
  BY <1>1, TowardFacts
<1>3. /\ T2 \in [Sides -> [Places -> Places]]
      /\ T2[t][e] = x
      /\ \A s \in Sides : T2[s][x] = Nil
      /\ \A s \in Sides, n \in Places \ {x} : s # t \/ n # e => T2[s][n] = T[s][n]
      /\ P2 = [P EXCEPT ![x] = e]
  BY DEF Hangs
<1>4. T[t][e] = Nil
  OBVIOUS
<1> HIDE DEF t
<1>5. P2[x] = e /\ \A n \in R : P2[n] = P[n]
  BY <1>1, <1>3
<1>6. T2["right"][Nil] = Nil
  <2>1. "right" # t \/ Nil # e
    BY <1>2
  <2>2. T2["right"][Nil] = T["right"][Nil]
    BY <2>1, <1>1, <1>3 DEF Sides
  <2>3. QED
    BY <2>2 DEF Tree
<1>7. ASSUME NEW n \in (R \cup {x}) \cup {Nil}, NEW s \in Sides, T2[s][n] # Nil
      PROVE  T2[s][n] \in R \cup {x} /\ P2[T2[s][n]] = n
  <2>1. n # x
    BY <1>3, <1>7
  <2>2. CASE s = t /\ n = e
    BY <2>2, <1>3, <1>5
  <2>3. CASE s # t \/ n # e
    <3>1. T2[s][n] = T[s][n] /\ n \in R \cup {Nil}
      BY <2>1, <2>3, <1>1, <1>3, <1>7
    <3>2. T[s][n] \in R /\ P[T[s][n]] = n
      BY <3>1, <1>7 DEF Tree
    <3>3. QED
      BY <3>1, <3>2, <1>5
  <2>4. QED
    BY <2>2, <2>3
<1>8. ASSUME NEW n \in R \cup {x}
      PROVE  P2[n] \in (R \cup {x}) \cup {Nil} /\ \E s \in Sides : T2[s][P2[n]] = n
  <2>1. CASE n = x
    BY <2>1, <1>2, <1>3, <1>5
  <2>2. CASE n # x
    <3>1. n \in R /\ P2[n] = P[n] /\ P[n] \in R \cup {Nil}
      BY <2>2, <1>5, <1>8 DEF Tree
    <3>2. PICK s \in Sides : T[s][P[n]] = n
      BY <3>1 DEF Tree
    <3>3. s # t \/ P[n] # e
      BY <1>1, <1>4, <3>1, <3>2
    <3>4. T2[s][P[n]] = n
      <4>1. P[n] \in Places \ {x}
        BY <3>1, <1>1
      <4>2. T2[s][P[n]] = T[s][P[n]]
        BY <3>3, <4>1, <1>3
      <4>3. QED
        BY <3>2, <4>2
    <3>5. QED
      BY <3>1, <3>4
  <2>3. QED
    BY <2>1, <2>2
<1>9. QED
  BY <1>3, <1>6, <1>7, <1>8 DEF Tree

\* ... and a search tree.
LEMMA HangSorted ==
  ASSUME NEW R \in SUBSET Socks, NEW T, NEW P, NEW D, Tree(T, P, R), Sorted(T, D, R),
         NEW x \in Socks \ R, NEW V, NEW e, Way(T, R, x, V, e),
         NEW T2, NEW P2, Hangs(T, P, x, e, T2, P2)
  PROVE  Sorted(T2, [n \in Places |-> IF n = x THEN {x}
                                      ELSE IF n \in V \ {Nil} THEN D[n] \cup {x}
                                      ELSE D[n]], R \cup {x})
<1> USE TreeAssumption
<1> DEFINE t(n) == Toward(x, n)
           D2 == [n \in Places |-> IF n = x THEN {x}
                                   ELSE IF n \in V \ {Nil} THEN D[n] \cup {x} ELSE D[n]]
<1>1. R \subseteq Socks /\ Places = Socks \cup {Nil} /\ Nil \notin Socks
  BY DEF Places
<1>2. /\ V \in SUBSET (R \cup {Nil})
      /\ Nil \in V /\ e \in V
      /\ \A n \in V \ {e} : T[t(n)][n] \in V \ {Nil}
      /\ \A n \in V \ {Nil} : \E q \in V : n = T[t(q)][q]
      /\ T[t(e)][e] = Nil
  BY <1>1 DEF Way
<1>3. \A n \in R \cup {Nil} :
         /\ t(n) \in Sides
         /\ n = Nil => t(n) = "left"
         /\ n # Nil => Before(t(n), x, n)
  BY <1>1, TowardFacts
<1>4. /\ T2[t(e)][e] = x
      /\ \A s \in Sides : T2[s][x] = Nil
      /\ \A s \in Sides, n \in Places \ {x} : s # t(e) \/ n # e => T2[s][n] = T[s][n]
  BY DEF Hangs
<1> HIDE DEF t
<1>5. /\ D \in [Places -> SUBSET R]
      /\ D[Nil] = {}
      /\ D[T["left"][Nil]] = R
      /\ \A n \in R : D[n] = {n} \cup D[T["left"][n]] \cup D[T["right"][n]]
      /\ \A n \in R, s \in Sides : \A m \in D[T[s][n]] : Before(s, m, n)
  BY DEF Sorted
<1>6. \A n \in R \cup {Nil}, s \in Sides :
         T[s][n] \in R \cup {Nil} /\ (T[s][n] # Nil => P[T[s][n]] = n)
  BY DEF Tree
<1>7. /\ D2[x] = {x} /\ D2[Nil] = {}
      /\ \A n \in R : D2[n] = IF n \in V THEN D[n] \cup {x} ELSE D[n]
      /\ D2 \in [Places -> SUBSET (R \cup {x})]
  <2>1. D2[x] = {x}
    BY <1>1
  <2>2. D2[Nil] = {}
    BY <1>1, <1>5
  <2>3. \A n \in R : D2[n] = IF n \in V THEN D[n] \cup {x} ELSE D[n]
    BY <1>1
  <2>4. D2 \in [Places -> SUBSET (R \cup {x})]
    BY <1>5
  <2>5. QED
    BY <2>1, <2>2, <2>3, <2>4
<1> HIDE DEF D2
<1>8. ASSUME NEW n \in R \cup {Nil}, NEW s \in Sides
      PROVE  D2[T2[s][n]] = IF n \in V /\ s = t(n) THEN D[T[s][n]] \cup {x} ELSE D[T[s][n]]
  <2>1. CASE n = e /\ s = t(n)
    BY <2>1, <1>2, <1>4, <1>5, <1>7
  <2>2. CASE n # e \/ s # t(n)
    <3>1. PICK c \in R \cup {Nil} : T[s][n] = c
      BY <1>6
    <3>2. T2[s][n] = c
      BY <2>2, <3>1, <1>1, <1>4
    <3>3. CASE n \in V /\ s = t(n)
      <4>1. c \in V \ {Nil}
        BY <2>2, <3>1, <3>3, <1>2
      <4>2. c \in R /\ D2[c] = D[c] \cup {x}
        BY <4>1, <1>7
      <4>3. QED
        BY <3>1, <3>2, <3>3, <4>2
    <3>4. CASE n \notin V \/ s # t(n)
      <4>1. c = Nil \/ c \notin V
        <5>1. SUFFICES ASSUME c # Nil, c \in V
                       PROVE  FALSE
          OBVIOUS
        <5>2. PICK q \in V : c = T[t(q)][q]
          BY <5>1, <1>2
        <5>3. q \in R \cup {Nil} /\ t(q) \in Sides
          BY <5>2, <1>2, <1>3
        <5>4. q = n
          <6>1. P[c] = n
            BY <5>1, <3>1, <1>6
          <6>2. P[T[t(q)][q]] = q
            BY <5>1, <5>2, <5>3, <1>6
          <6>3. QED
            BY <5>2, <6>1, <6>2
        <5>5. \A s1, s2 \in Sides : T[s1][n] # Nil /\ T[s1][n] = T[s2][n] => s1 = s2
          BY OneSide
        <5>6. QED
          BY <5>1, <5>2, <5>3, <5>4, <5>5, <3>1, <3>4
      <4>2. D2[c] = D[c]
        BY <4>1, <1>5, <1>7
      <4>3. QED
        BY <3>1, <3>2, <3>4, <4>2
    <3>5. QED
      BY <3>3, <3>4
  <2>3. QED
    BY <2>1, <2>2
<1>9. D2[T2["left"][Nil]] = R \cup {x}
  <2>1. t(Nil) = "left" /\ t(Nil) \in Sides /\ Nil \in V
    BY <1>2, <1>3
  <2>2. D2[T2["left"][Nil]] = D[T["left"][Nil]] \cup {x}
    BY <2>1, <1>8
  <2>3. QED
    BY <2>2, <1>5
<1>10. ASSUME NEW n \in R \cup {x}
       PROVE  D2[n] = {n} \cup D2[T2["left"][n]] \cup D2[T2["right"][n]]
  <2>1. CASE n = x
    BY <2>1, <1>4, <1>7 DEF Sides
  <2>2. CASE n # x
    <3>1. n \in R
      BY <2>2, <1>10
    <3>2. D[n] = {n} \cup D[T["left"][n]] \cup D[T["right"][n]]
      BY <3>1, <1>5
    <3>3. /\ D2[T2["left"][n]] = IF n \in V /\ "left" = t(n)
                                 THEN D[T["left"][n]] \cup {x} ELSE D[T["left"][n]]
          /\ D2[T2["right"][n]] = IF n \in V /\ "right" = t(n)
                                  THEN D[T["right"][n]] \cup {x} ELSE D[T["right"][n]]
      BY <3>1, <1>8 DEF Sides
    <3>4. D2[n] = IF n \in V THEN D[n] \cup {x} ELSE D[n]
      BY <3>1, <1>7
    <3>5. t(n) = "left" \/ t(n) = "right"
      BY <3>1, <1>3 DEF Sides
    <3>6. QED
      BY <3>2, <3>3, <3>4, <3>5
  <2>3. QED
    BY <2>1, <2>2
<1>11. ASSUME NEW n \in R \cup {x}, NEW s \in Sides, NEW m \in D2[T2[s][n]]
       PROVE  Before(s, m, n)
  <2>1. CASE n = x
    BY <2>1, <1>4, <1>7, <1>11
  <2>2. CASE n # x
    <3>1. n \in R
      BY <2>2, <1>11
    <3>2. D2[T2[s][n]] = IF n \in V /\ s = t(n) THEN D[T[s][n]] \cup {x} ELSE D[T[s][n]]
      BY <3>1, <1>8
    <3>3. CASE m \in D[T[s][n]]
      BY <3>1, <3>3, <1>5
    <3>4. CASE m = x /\ s = t(n)
      BY <3>1, <3>4, <1>1, <1>3
    <3>5. QED
      BY <3>2, <3>3, <3>4, <1>11
  <2>3. QED
    BY <2>1, <2>2
<1>12. Sorted(T2, D2, R \cup {x})
  BY <1>7, <1>9, <1>10, <1>11 DEF Sorted
<1>13. QED
  BY <1>12 DEF D2

(***************************************************************************)
(* The writes of a call, to different places.                              *)
(***************************************************************************)

\* Writes to different places can be done, and give what they say.
CanWriteOne(T, s1, n1, v1) ==
    \E T2 : /\ Written(T, <<<<s1, n1, v1>>>>, T2)
            /\ T2[s1][n1] = v1
            /\ \A s \in Sides, n \in Places :
                  (s # s1 \/ n # n1) => T2[s][n] = T[s][n]

\* One write gives what it says.
LEMMA WriteOne ==
  ASSUME NEW T \in [Sides -> [Places -> Places]],
         NEW s1 \in Sides,
         NEW n1 \in Places,
         NEW v1 \in Places
  PROVE  CanWriteOne(T, s1, n1, v1)
<1> DEFINE w == <<<<s1, n1, v1>>>>
           T2 == [s \in Sides |-> [n \in Places |->
                    IF s = s1 /\ n = n1 THEN v1
                    ELSE T[s][n]]]
<1>1. T2 \in [Sides -> [Places -> Places]]
  OBVIOUS
<1>2. T2[s1][n1] = v1
  OBVIOUS
<1>3. \A s \in Sides, n \in Places :
         (s # s1 \/ n # n1) => T2[s][n] = T[s][n]
  OBVIOUS
<1> HIDE DEF T2
<1>4. /\ Len(w) = 1
      /\ w[1][1] = s1 /\ w[1][2] = n1 /\ w[1][3] = v1
  OBVIOUS
<1>5. \A i : i \in 1 .. Len(w) <=> i = 1
  BY <1>4
<1> HIDE DEF w
<1>6. \A i \in 1 .. Len(w) : T2[w[i][1]][w[i][2]] = w[i][3]
  BY <1>2, <1>4, <1>5
<1>7. ASSUME NEW s \in Sides, NEW n \in Places,
             \A i \in 1 .. Len(w) : w[i][1] # s \/ w[i][2] # n
      PROVE  T2[s][n] = T[s][n]
  BY <1>3, <1>4, <1>5, <1>7
<1>8. Written(T, w, T2)
  BY <1>1, <1>6, <1>7 DEF Written
<1>9. Written(T, <<<<s1, n1, v1>>>>, T2)
  BY <1>8 DEF w
<1>10. QED
  BY <1>2, <1>3, <1>9 DEF CanWriteOne

\* Three writes and their outcome.
CanWrite(T, s1, n1, v1, s2, n2, v2, s3, n3, v3) ==
    \E T2 : /\ Written(T, <<<<s1, n1, v1>>, <<s2, n2, v2>>, <<s3, n3, v3>>>>, T2)
            /\ T2[s1][n1] = v1 /\ T2[s2][n2] = v2 /\ T2[s3][n3] = v3
            /\ \A s \in Sides, n \in Places :
                  (s # s1 \/ n # n1) /\ (s # s2 \/ n # n2) /\ (s # s3 \/ n # n3)
                     => T2[s][n] = T[s][n]

\* Three writes to different places give what they say.
LEMMA WriteThree ==
  ASSUME NEW T \in [Sides -> [Places -> Places]],
         NEW s1 \in Sides, NEW s2 \in Sides, NEW s3 \in Sides,
         NEW n1 \in Places, NEW n2 \in Places, NEW n3 \in Places,
         NEW v1 \in Places, NEW v2 \in Places, NEW v3 \in Places,
         s1 # s2 \/ n1 # n2,
         s1 # s3 \/ n1 # n3,
         s2 # s3 \/ n2 # n3
  PROVE  CanWrite(T, s1, n1, v1, s2, n2, v2, s3, n3, v3)
<1> DEFINE w == <<<<s1, n1, v1>>, <<s2, n2, v2>>, <<s3, n3, v3>>>>
           T2 == [s \in Sides |-> [n \in Places |->
                    IF s = s1 /\ n = n1 THEN v1
                    ELSE IF s = s2 /\ n = n2 THEN v2
                    ELSE IF s = s3 /\ n = n3 THEN v3
                    ELSE T[s][n]]]
<1>1. T2 \in [Sides -> [Places -> Places]]
  OBVIOUS
<1>2. T2[s1][n1] = v1 /\ T2[s2][n2] = v2 /\ T2[s3][n3] = v3
  OBVIOUS
<1>3. \A s \in Sides, n \in Places :
         (s # s1 \/ n # n1) /\ (s # s2 \/ n # n2) /\ (s # s3 \/ n # n3) => T2[s][n] = T[s][n]
  OBVIOUS
<1> HIDE DEF T2
<1>4. /\ Len(w) = 3
      /\ w[1][1] = s1 /\ w[1][2] = n1 /\ w[1][3] = v1
      /\ w[2][1] = s2 /\ w[2][2] = n2 /\ w[2][3] = v2
      /\ w[3][1] = s3 /\ w[3][2] = n3 /\ w[3][3] = v3
  OBVIOUS
<1>5. \A i : i \in 1 .. Len(w) <=> i = 1 \/ i = 2 \/ i = 3
  BY <1>4
<1> HIDE DEF w
<1>6. \A i \in 1 .. Len(w) : T2[w[i][1]][w[i][2]] = w[i][3]
  BY <1>2, <1>4, <1>5
<1>7. ASSUME NEW s \in Sides, NEW n \in Places,
             \A i \in 1 .. Len(w) : w[i][1] # s \/ w[i][2] # n
      PROVE  T2[s][n] = T[s][n]
  BY <1>3, <1>4, <1>5, <1>7
<1>8. Written(T, w, T2)
  BY <1>1, <1>6, <1>7 DEF Written
<1>9. Written(T, <<<<s1, n1, v1>>, <<s2, n2, v2>>, <<s3, n3, v3>>>>, T2)
  BY <1>8 DEF w
<1>10. QED
  BY <1>2, <1>3, <1>9 DEF CanWrite

\* Four writes and their outcome.
WroteFour(T, s1, n1, v1, s2, n2, v2, s3, n3, v3, s4, n4, v4, T2) ==
    /\ Written(T, <<<<s1, n1, v1>>, <<s2, n2, v2>>, <<s3, n3, v3>>, <<s4, n4, v4>>>>, T2)
    /\ T2[s1][n1] = v1 /\ T2[s2][n2] = v2 /\ T2[s3][n3] = v3 /\ T2[s4][n4] = v4
    /\ \A s \in Sides, n \in Places :
          (s # s1 \/ n # n1) /\ (s # s2 \/ n # n2) /\ (s # s3 \/ n # n3) /\ (s # s4 \/ n # n4)
             => T2[s][n] = T[s][n]

\* There is an outcome of the four writes.
CanWriteFour(T, s1, n1, v1, s2, n2, v2, s3, n3, v3, s4, n4, v4) ==
    \E T2 : WroteFour(T, s1, n1, v1, s2, n2, v2, s3, n3, v3, s4, n4, v4, T2)

\* Four writes to different places give what they say.
LEMMA WriteFour ==
  ASSUME NEW T \in [Sides -> [Places -> Places]],
         NEW s1 \in Sides, NEW s2 \in Sides, NEW s3 \in Sides, NEW s4 \in Sides,
         NEW n1 \in Places, NEW n2 \in Places, NEW n3 \in Places, NEW n4 \in Places,
         NEW v1 \in Places, NEW v2 \in Places, NEW v3 \in Places, NEW v4 \in Places,
         s1 # s2 \/ n1 # n2,
         s1 # s3 \/ n1 # n3,
         s1 # s4 \/ n1 # n4,
         s2 # s3 \/ n2 # n3,
         s2 # s4 \/ n2 # n4,
         s3 # s4 \/ n3 # n4
  PROVE  CanWriteFour(T, s1, n1, v1, s2, n2, v2, s3, n3, v3, s4, n4, v4)
<1> DEFINE w == <<<<s1, n1, v1>>, <<s2, n2, v2>>, <<s3, n3, v3>>, <<s4, n4, v4>>>>
           T2 == [s \in Sides |-> [n \in Places |->
                    IF s = s1 /\ n = n1 THEN v1
                    ELSE IF s = s2 /\ n = n2 THEN v2
                    ELSE IF s = s3 /\ n = n3 THEN v3
                    ELSE IF s = s4 /\ n = n4 THEN v4
                    ELSE T[s][n]]]
<1>1. T2 \in [Sides -> [Places -> Places]]
  OBVIOUS
<1>2. T2[s1][n1] = v1 /\ T2[s2][n2] = v2 /\ T2[s3][n3] = v3 /\ T2[s4][n4] = v4
  OBVIOUS
<1>3. \A s \in Sides, n \in Places :
         (s # s1 \/ n # n1) /\ (s # s2 \/ n # n2) /\ (s # s3 \/ n # n3) /\ (s # s4 \/ n # n4)
            => T2[s][n] = T[s][n]
  OBVIOUS
<1> HIDE DEF T2
<1>4. /\ Len(w) = 4
      /\ w[1][1] = s1 /\ w[1][2] = n1 /\ w[1][3] = v1
      /\ w[2][1] = s2 /\ w[2][2] = n2 /\ w[2][3] = v2
      /\ w[3][1] = s3 /\ w[3][2] = n3 /\ w[3][3] = v3
      /\ w[4][1] = s4 /\ w[4][2] = n4 /\ w[4][3] = v4
  OBVIOUS
<1>5. \A i : i \in 1 .. Len(w) <=> i = 1 \/ i = 2 \/ i = 3 \/ i = 4
  BY <1>4
<1> HIDE DEF w
<1>6. \A i \in 1 .. Len(w) : T2[w[i][1]][w[i][2]] = w[i][3]
  BY <1>2, <1>4, <1>5
<1>7. ASSUME NEW s \in Sides, NEW n \in Places,
             \A i \in 1 .. Len(w) : w[i][1] # s \/ w[i][2] # n
      PROVE  T2[s][n] = T[s][n]
  BY <1>3, <1>4, <1>5, <1>7
<1>8. Written(T, w, T2)
  BY <1>1, <1>6, <1>7 DEF Written
<1>9. Written(T, <<<<s1, n1, v1>>, <<s2, n2, v2>>, <<s3, n3, v3>>, <<s4, n4, v4>>>>, T2)
  BY <1>8 DEF w
<1>10. WroteFour(T, s1, n1, v1, s2, n2, v2, s3, n3, v3, s4, n4, v4, T2)
  BY <1>2, <1>3, <1>9 DEF WroteFour
<1>11. QED
  BY <1>10 DEF CanWriteFour

\* With nothing left to write the links are what they lead to.
LEMMA WriteNone ==
  ASSUME NEW T \in [Sides -> [Places -> Places]], NEW T2
  PROVE  Written(T, <<>>, T2) <=> T2 = T
<1>1. Written(T, <<>>, T)
  BY DEF Written
<1>2. ASSUME Written(T, <<>>, T2)
      PROVE  T2 = T
  <2>1. /\ T2 \in [Sides -> [Places -> Places]]
        /\ \A s \in Sides, n \in Places : T2[s][n] = T[s][n]
    BY <1>2 DEF Written
  <2>2. \A s \in Sides : T2[s] = T[s]
    BY <2>1
  <2>3. QED
    BY <2>1, <2>2
<1>3. QED
  BY <1>1, <1>2

\* The first write done, the others lead to the same links.
LEMMA WriteFirst ==
  ASSUME NEW T \in [Sides -> [Places -> Places]], NEW w, NEW T2, Written(T, w, T2),
         w \in Seq(Sides \X Places \X Places), w # <<>>
  PROVE  Written([T EXCEPT ![Head(w)[1]][Head(w)[2]] = Head(w)[3]], Tail(w), T2)
<1> DEFINE v == Tail(w)
           T1 == [T EXCEPT ![Head(w)[1]][Head(w)[2]] = Head(w)[3]]
<1>1. Head(w) = w[1] /\ w[1] \in Sides \X Places \X Places /\ Len(w) \in Nat /\ Len(w) >= 1
  OBVIOUS
<1>2. Len(v) = Len(w) - 1 /\ \A i \in 1 .. Len(v) : v[i] = w[i+1]
  OBVIOUS
<1> HIDE DEF v
<1>3. ASSUME NEW i \in 1 .. Len(v)
      PROVE  T2[v[i][1]][v[i][2]] = v[i][3]
  <2>1. i + 1 \in 1 .. Len(w) /\ v[i] = w[i+1]
    BY <1>1, <1>2
  <2>2. QED
    BY <2>1 DEF Written
<1>4. ASSUME NEW s \in Sides, NEW n \in Places,
             \A i \in 1 .. Len(v) : v[i][1] # s \/ v[i][2] # n
      PROVE  T2[s][n] = T1[s][n]
  <2>1. CASE s = w[1][1] /\ n = w[1][2]
    <3>1. T1[s][n] = w[1][3]
      BY <2>1, <1>1
    <3>2. T2[s][n] = w[1][3]
      BY <2>1, <1>1 DEF Written
    <3>3. QED
      BY <3>1, <3>2
  <2>2. CASE s # w[1][1] \/ n # w[1][2]
    <3>1. ASSUME NEW i \in 1 .. Len(w)
          PROVE  w[i][1] # s \/ w[i][2] # n
      <4>1. CASE i = 1
        BY <4>1, <2>2
      <4>2. CASE i # 1
        <5>1. i - 1 \in 1 .. Len(v) /\ v[i-1] = w[i]
          <6>1. i - 1 \in 1 .. Len(v) /\ (i - 1) + 1 = i
            BY <4>2, <1>1, <1>2
          <6>2. QED
            BY <6>1, <1>2
        <5>2. QED
          BY <5>1, <1>4
      <4>3. QED
        BY <4>1, <4>2
    <3>2. T2[s][n] = T[s][n]
      BY <3>1 DEF Written
    <3>3. T1[s][n] = T[s][n]
      BY <2>2, <1>1
    <3>4. QED
      BY <3>2, <3>3
  <2>3. QED
    BY <2>1, <2>2
<1> HIDE DEF T1
<1>5. Written(T1, v, T2)
  BY <1>3, <1>4 DEF Written
<1>6. QED
  BY <1>5 DEF v, T1

(***************************************************************************)
(* What every step of the writer has in common.                            *)
(***************************************************************************)

\* Between the changes the links themselves are the tree.
LEMMA AtRest ==
  ASSUME IInv, writes = <<>>
  PROVE  \E D, B : Shape(child, D, B)
<1>1. PICK T, D, B : Shape(T, D, B)
  BY DEF IInv
<1>2. child \in [Sides -> [Places -> Places]]
  BY DEF IInv, TypeOK
<1>3. T = child
  BY <1>1, <1>2, WriteNone DEF Shape
<1>4. QED
  BY <1>1, <1>3

\* A tree that the writes lead to is all it takes for the invariant.
LEMMA NewIInv ==
  ASSUME Writes, stays \in BOOLEAN, stays' \in BOOLEAN, TypeOK,
         child' \in [Sides -> [Places -> Places]],
         parent' \in [Socks -> Places],
         color' \in [Socks -> {"red", "black"}],
         pc' \in {"idle", "insert_color", "remove_color", "free"},
         {elm', par', old'} \subseteq Places,
         \A i \in 1 .. Len(writes') : writes'[i] \in Sides \X Places \X Places
                                      /\ (writes'[i][2] = Nil => writes'[i][1] = "left"),
         registered' \subseteq Socks,
         Writer',
         NEW T2, NEW D2, NEW B2,
         Written(child', writes', T2), Tree(T2, parent', registered'),
         Sorted(T2, D2, registered'),
         Colored(T2, parent', color', registered', B2, pc', elm', par')
  PROVE  IInv'
<1>1. TypeOK'
  BY DEF TypeOK, Writes
<1>2. Searched(D2)'
  BY DEF Searched, Writes
<1>3. Shape(T2, D2, B2)'
  BY <1>2 DEF Shape
<1>4. QED
  BY <1>1, <1>3 DEF IInv

\* A step that writes no link and moves no item only has colors to account for.
LEMMA RecolorIInv ==
  ASSUME IInv, Repairs, UNCHANGED <<writes, parent>>,
         color' \in [Socks -> {"red", "black"}],
         pc' \in {"idle", "insert_color", "remove_color", "free"},
         {elm', par'} \subseteq Places, Writer',
         NEW D, NEW B, Shape(child, D, B), NEW B2,
         Colored(child, parent, color', registered, B2, pc', elm', par')
  PROVE  IInv'
<1>1. /\ child' = child /\ parent' = parent /\ writes' = writes /\ registered' = registered
      /\ old' = old /\ stays' = stays
  BY DEF Repairs
<1>2. Written(child', writes', child') /\ Tree(child', parent', registered')
      /\ Sorted(child', D, registered')
  BY <1>1 DEF Shape
<1>3. Writes /\ TypeOK
  BY DEF Repairs, IInv
<1>4. Colored(child', parent', color', registered', B2, pc', elm', par')
  BY <1>1
<1>5. QED
  BY <1>1, <1>2, <1>3, <1>4, NewIInv DEF TypeOK

\* n, its parent and its sibling.
IsFamily(T, P, R, n) ==
    LET q == P[n]
        s == SideIn(T, P, n)
        u == T[Opp(s)][q]
    IN  /\ q \in R /\ q # n
        /\ s \in Sides /\ T[s][q] = n
        /\ u \in R \cup {Nil} /\ u # n /\ u # q
        /\ u # Nil => P[u] = q
        /\ \A s2 \in Sides : T[s2][q] = n \/ T[s2][q] = u

\* What a repair looks at from a red item with a parent.
LEMMA Family ==
  ASSUME NEW R \in SUBSET Socks, NEW T, NEW P, NEW D, Tree(T, P, R), Sorted(T, D, R),
         NEW n \in R, P[n] # Nil
  PROVE  IsFamily(T, P, R, n)
<1> USE TreeAssumption
<1> DEFINE q == P[n]
           s == SideIn(T, P, n)
           u == T[Opp(s)][q]
<1>1. /\ s \in Sides
      /\ q \in R \cup {Nil}
      /\ q # n
      /\ T[s][q] = n
      /\ \A s2 \in Sides, m \in R \cup {Nil} : T[s2][m] = n => s2 = s /\ m = q
  <2>1. HangsAt(T, R, n, SideIn(T, P, n), P[n])
    BY TopOf
  <2>2. QED
    BY <2>1 DEF HangsAt
<1>2. q \in R
  BY <1>1
<1> HIDE DEF q, s
<1>3. Opp(s) \in Sides /\ Opp(s) # s /\ \A s2 \in Sides : s2 = s \/ s2 = Opp(s)
  BY <1>1, OppFacts
<1>4. u \in R \cup {Nil} /\ (u # Nil => P[u] = q)
  BY <1>2, <1>3 DEF Tree
<1>5. u # n
  BY <1>1, <1>2, <1>3
<1>6. u # q
  <2>1. q \in D[q] /\ q \notin D[T[Opp(s)][q]]
    BY <1>2, <1>3, BelowItems
  <2>2. QED
    BY <2>1
<1>7. \A s2 \in Sides : T[s2][q] = n \/ T[s2][q] = u
  BY <1>1, <1>3
<1>8. QED
  BY <1>1, <1>2, <1>4, <1>5, <1>6, <1>7 DEF IsFamily, q, s, u

\* An item whose children, color and height did not change is as even as before.
LEMMA EvenKept ==
  ASSUME NEW T, NEW T2, NEW C, NEW C2, NEW B, NEW B2, NEW n,
         \A s \in Sides : B2[T2[s][n]] = B[T[s][n]],
         B2[n] = B[n], C2[n] = C[n], Even(T, C, B, n)
  PROVE  Even(T2, C2, B2, n)
BY DEF Even, Weight, Sides

\* xy_rb_insert_color, red uncle: the red pair moves two levels up.
LEMMA InsertRecolorStep ==
  ASSUME IInv, InsertRecolor
  PROVE  IInv'
<1> USE TreeAssumption
<1> DEFINE p == parent[elm]
           g == parent[p]
           u == child[Opp(SideIn(child, parent, p))][g]
           R == registered
<1>1. /\ writes = <<>> /\ pc = "insert_color" /\ ~Black(p) /\ ~Black(u)
      /\ color' = [color EXCEPT ![u] = "black", ![p] = "black", ![g] = "red"]
      /\ elm' = g
      /\ Repairs
      /\ UNCHANGED <<parent, writes, pc, par>>
  BY DEF InsertRecolor, RedParent, Reached, Uncle, Grandparent, SideOf, SideIn
<1>2. PICK D, B : Shape(child, D, B)
  BY <1>1, AtRest
<1>3. /\ R \in SUBSET Socks /\ Tree(child, parent, R) /\ Sorted(child, D, R)
      /\ B \in [Places -> Nat] /\ B[Nil] = 0
      /\ elm \in R
      /\ color[elm] = "red"
      /\ \A n \in R \ {elm} : color[n] = "red" => parent[n] # Nil /\ color[parent[n]] = "black"
      /\ \A n \in R : Even(child, color, B, n)
      /\ color \in [Socks -> {"red", "black"}]
  BY <1>1, <1>2 DEF Shape, Colored, AllEven, NoRedPair, IInv, TypeOK
<1>4. R \subseteq Socks /\ Places = Socks \cup {Nil} /\ Nil \notin Socks
  BY <1>3 DEF Places
<1> HIDE DEF p, g, u, R
<1>5. p \in R /\ p # elm /\ color[p] = "red"
  <2>1. p # Nil
    BY <1>1 DEF Black
  <2>2. IsFamily(child, parent, R, elm)
    BY <2>1, <1>3, Family DEF p
  <2>3. QED
    BY <2>1, <2>2, <1>1, <1>3, <1>4 DEF Black, IsFamily, p
<1>6. g \in R /\ color[g] = "black"
  <2>1. g # Nil /\ color[g] = "black"
    BY <1>3, <1>5 DEF g
  <2>2. g \in R \cup {Nil}
    BY <1>3, <1>5 DEF g, Tree
  <2>3. QED
    BY <2>1, <2>2
<1>7. /\ g # p /\ u \in R /\ u # p /\ u # g /\ parent[u] = g /\ parent[p] = g
      /\ \A s \in Sides : child[s][g] = p \/ child[s][g] = u
  <2>1. /\ g # p /\ u \in R \cup {Nil} /\ u # p /\ u # g /\ (u # Nil => parent[u] = g)
        /\ \A s \in Sides : child[s][g] = p \/ child[s][g] = u
    <3>1. IsFamily(child, parent, R, p)
      BY <1>3, <1>4, <1>5, <1>6, Family DEF g
    <3>2. QED
      BY <3>1 DEF IsFamily, g, u
  <2>2. u # Nil
    BY <1>1 DEF Black
  <2>3. QED
    BY <2>1, <2>2 DEF g
<1>8. color[u] = "red"
  BY <1>1, <1>3, <1>4, <1>7 DEF Black
<1> DEFINE B2 == [n \in Places |-> IF n \in {p, u} THEN B[n] + 1 ELSE B[n]]
<1>9. /\ B2 \in [Places -> Nat] /\ B2[p] = B[p] + 1 /\ B2[u] = B[u] + 1
      /\ \A n \in Places \ {p, u} : B2[n] = B[n]
  <2>1. B2 \in [Places -> Nat]
    BY <1>3
  <2>2. \A n \in Places : B2[n] = IF n \in {p, u} THEN B[n] + 1 ELSE B[n]
    OBVIOUS
  <2>3. p \in Places /\ u \in Places
    BY <1>4, <1>5, <1>7
  <2> HIDE DEF B2
  <2>4. QED
    BY <2>1, <2>2, <2>3
<1> HIDE DEF B2
<1>10. /\ color' \in [Socks -> {"red", "black"}]
       /\ color'[p] = "black" /\ color'[u] = "black" /\ color'[g] = "red"
       /\ \A n \in R \ {p, u, g} : color'[n] = color[n]
  BY <1>1, <1>3, <1>4, <1>5, <1>6, <1>7
<1>11. ASSUME NEW n \in R \ {g}, NEW s \in Sides
       PROVE  B2[child[s][n]] = B[child[s][n]] /\ B[child[s][n]] \in Nat
  <2>1. /\ child[s][n] \in R \cup {Nil}
        /\ child[s][n] # Nil => parent[child[s][n]] = n
    BY <1>3 DEF Tree
  <2>2. child[s][n] # p /\ child[s][n] # u
    BY <2>1, <1>4, <1>5, <1>7
  <2>3. QED
    BY <2>1, <2>2, <1>3, <1>4, <1>9
<1>12. ASSUME NEW n \in R
       PROVE  Even(child, color', B2, n)
  <2>1. Even(child, color, B, n)
    BY <1>3
  <2>2. CASE n = p \/ n = u
    BY <2>1, <2>2, <1>5, <1>7, <1>8, <1>9, <1>10, <1>11 DEF Even, Weight, Sides
  <2>3. CASE n = g
    <3>1. child["left"][g] # child["right"][g]
      BY <1>3, <1>4, <1>5, <1>6, <1>7, OneSide DEF Sides
    <3>2. \A s \in Sides : B2[child[s][g]] = B[child[s][g]] + 1
      BY <1>7, <1>9
    <3>3. QED
      BY <2>1, <2>3, <3>2, <1>3, <1>4, <1>5, <1>6, <1>7, <1>9, <1>10 DEF Even, Weight, Sides
  <2>4. CASE n \notin {p, u, g}
    BY <2>1, <2>4, <1>4, <1>9, <1>10, <1>11, EvenKept
  <2>5. QED
    BY <2>2, <2>3, <2>4
<1>13. ASSUME NEW n \in R \ {g}, color'[n] = "red"
       PROVE  parent[n] # Nil /\ color'[parent[n]] = "black"
  <2>1. n \notin {p, u, g} /\ color[n] = "red"
    BY <1>10, <1>13
  <2>2. CASE n = elm
    BY <2>2, <1>4, <1>5, <1>10 DEF p
  <2>3. CASE n # elm
    <3>1. parent[n] # Nil /\ color[parent[n]] = "black" /\ parent[n] \in R
      BY <2>1, <2>3, <1>3, UpIsDown
    <3>2. parent[n] # g
      BY <2>1, <1>3, <1>7 DEF Tree
    <3>3. QED
      BY <3>1, <3>2, <1>10
  <2>4. QED
    BY <2>2, <2>3
<1>14. Colored(child, parent, color', R, B2, pc', elm', par')
  <2>1. AllEven(child, color', B2, R)
    BY <1>12 DEF AllEven
  <2>2. NoRedPair(parent, color', R \ {g})
    BY <1>13 DEF NoRedPair
  <2>3. B2[Nil] = 0
    BY <1>3, <1>4, <1>5, <1>7, <1>9
  <2>4. QED
    BY <2>1, <2>2, <2>3, <1>1, <1>6, <1>9, <1>10 DEF Colored
<1>15. QED
  <2>1. Writer'
    BY <1>1 DEF IInv, Writer, Repairs
  <2>2. {elm', par'} \subseteq Places
    BY <1>1, <1>4, <1>6 DEF IInv, TypeOK
  <2>3. QED
    BY <2>1, <2>2, <1>1, <1>2, <1>10, <1>14, RecolorIInv DEF R

\* The empty tree.
LEMMA InitIInv ==
  ASSUME Init
  PROVE  IInv
<1> USE TreeAssumption
<1> DEFINE D == [n \in Places |-> {}]
           B == [n \in Places |-> 0]
<1>1. TypeOK
  <2>1. Nil \in Places /\ Socks \subseteq Places
    BY DEF Places
  <2>2. child \in [Sides -> [Places -> Places]]
    BY <2>1 DEF Init
  <2>3. \A i \in 1 .. Len(writes) : FALSE
    BY DEF Init
  <2>4. QED
    BY <2>1, <2>2, <2>3 DEF Init, TypeOK
<1>2. Writer
  BY DEF Init, Writer
<1>3. child \in [Sides -> [Places -> Places]] /\ \A s \in Sides, n \in Places : child[s][n] = Nil
  BY DEF Init, Places
<1>4. writes = <<>> /\ registered = {} /\ pc = "idle" /\ quiet = FALSE
  BY DEF Init
<1>5. Written(child, writes, child)
  BY <1>3, <1>4, WriteNone
<1>6. Nil \in Places /\ "left" \in Sides /\ "right" \in Sides
  BY DEF Places, Sides
<1>7. Tree(child, parent, registered)
  BY <1>3, <1>4, <1>6 DEF Tree
<1>8. Sorted(child, D, registered)
  BY <1>3, <1>4, <1>6 DEF Sorted
<1>9. Colored(child, parent, color, registered, B, pc, elm, par)
  BY <1>4, <1>6 DEF Colored, NoRedPair, AllEven
<1>10. Searched(D)
  BY <1>4 DEF Searched
<1>11. Shape(child, D, B)
  BY <1>5, <1>7, <1>8, <1>9, <1>10 DEF Shape
<1>12. QED
  BY <1>1, <1>2, <1>11 DEF IInv

\* A step that changes nothing.
LEMMA StutterIInv ==
  ASSUME IInv, UNCHANGED vars
  PROVE  IInv'
<1>1. PICK T, D, B : Shape(T, D, B)
  BY DEF IInv
<1>2. Shape(T, D, B)'
  BY <1>1 DEF Shape, Searched, vars
<1>3. TypeOK' /\ Writer'
  BY DEF IInv, TypeOK, Writer, vars
<1>4. QED
  BY <1>2, <1>3 DEF IInv

\* What a write takes from the list it gives to the links: the tree that the
\* writer is after stays.
LEMMA WriteLinkStep ==
  ASSUME IInv, WriteLink
  PROVE  IInv'
<1>1. PICK T, D, B : Shape(T, D, B)
  BY DEF IInv
<1>2. /\ child \in [Sides -> [Places -> Places]]
      /\ writes \in Seq(Sides \X Places \X Places) /\ writes # <<>>
      /\ child' = [child EXCEPT ![Head(writes)[1]][Head(writes)[2]] = Head(writes)[3]]
      /\ writes' = Tail(writes)
      /\ UNCHANGED <<parent, color, pc, elm, par, old, registered, stays>>
  BY DEF IInv, TypeOK, Writer, WriteLink
<1>3. Written(child', writes', T)
  <2>1. Written(child, writes, T)
    BY <1>1 DEF Shape
  <2>2. QED
    BY <2>1, <1>2, WriteFirst
<1>4. child' \in [Sides -> [Places -> Places]]
  <2>1. Head(writes) \in Sides \X Places \X Places
    BY <1>2
  <2> DEFINE w == Head(writes)
  <2> HIDE DEF w
  <2>2. child' = [child EXCEPT ![w[1]][w[2]] = w[3]] /\ w \in Sides \X Places \X Places
    BY <1>2, <2>1 DEF w
  <2>3. w[1] \in Sides /\ w[2] \in Places /\ w[3] \in Places
    BY <2>2
  <2>4. QED
    BY <1>2, <2>2, <2>3
<1>5. \A i \in 1 .. Len(writes') : writes'[i] \in Sides \X Places \X Places
                                   /\ (writes'[i][2] = Nil => writes'[i][1] = "left")
  <2>1. ASSUME NEW i \in 1 .. Len(writes')
        PROVE  i + 1 \in 1 .. Len(writes) /\ writes'[i] = writes[i+1]
    BY <1>2, <2>1
  <2>2. \A i \in 1 .. Len(writes) : writes[i] \in Sides \X Places \X Places
                                    /\ (writes[i][2] = Nil => writes[i][1] = "left")
    BY DEF IInv, TypeOK
  <2>3. QED
    BY <2>1, <2>2
<1>6. Writer'
  <2>1. writes' \in Seq(Sides \X Places \X Places)
    BY <1>2
  <2>2. pc # "idle"
    BY <1>2 DEF IInv, Writer
  <2>3. QED
    BY <2>1, <2>2, <1>2 DEF IInv, Writer
<1>7. Writes /\ TypeOK
  BY DEF WriteLink, IInv
<1>8. /\ Tree(T, parent', registered') /\ Sorted(T, D, registered')
      /\ Colored(T, parent', color', registered', B, pc', elm', par')
  BY <1>1, <1>2 DEF Shape
<1>9. QED
  BY <1>2, <1>3, <1>4, <1>5, <1>6, <1>7, <1>8, NewIInv DEF TypeOK

(***************************************************************************)
(* The steps of the search.                                                *)
(***************************************************************************)

\* A step of the reader that changes neither the tree nor what is to be written.
LEMMA ReaderIInv ==
  ASSUME IInv, key' \in Places, at' \in Places, stays' \in BOOLEAN, quiet' \in BOOLEAN,
         UNCHANGED <<child, parent, color, writes, pc, elm, par, old, registered>>,
         \A D, B : Shape(child, D, B) /\ writes = <<>> => Searched(D)',
         quiet' => pc = "idle"
  PROVE  IInv'
<1>1. TypeOK' /\ Writer'
  BY DEF IInv, TypeOK, Writer
<1>2. \E T, D, B : Shape(T, D, B) /\ Searched(D)'
  <2>1. CASE quiet'
    <3>1. writes = <<>>
      BY <2>1 DEF IInv, Writer
    <3>2. PICK D, B : Shape(child, D, B)
      BY <3>1, AtRest
    <3>3. QED
      BY <3>1, <3>2
  <2>2. CASE ~quiet'
    <3>1. \A D : Searched(D)'
      BY <2>2 DEF Searched
    <3>2. QED
      BY <3>1 DEF IInv
  <2>3. QED
    BY <2>1, <2>2
<1>3. PICK T, D, B : Shape(T, D, B) /\ Searched(D)'
  BY <1>2
<1>4. Shape(T, D, B)'
  BY <1>3 DEF Shape
<1>5. QED
  BY <1>1, <1>4 DEF IInv

\* A find starts at the root, from which every item can be reached.
LEMMA FindStep ==
  ASSUME IInv, NEW k \in Sought, Find(k)
  PROVE  IInv'
<1> USE TreeAssumption
<1>1. /\ key' = k /\ at' = child["left"][Nil]
      /\ stays' \in BOOLEAN /\ quiet' = (pc = "idle")
      /\ UNCHANGED <<child, parent, color, writes, pc, elm, par, old, registered>>
  BY DEF Find, Root
<1>2. key' \in Places /\ at' \in Places
  BY <1>1 DEF IInv, TypeOK, Places, Sides
<1>3. ASSUME NEW D, NEW B, Shape(child, D, B), writes = <<>>
      PROVE  Searched(D)'
  <2>1. at' \in registered \cup {Nil}
    BY <1>1, <1>3 DEF Shape, Tree, Sides
  <2>2. D[at'] = registered
    BY <1>1, <1>3 DEF Shape, Sorted
  <2>3. QED
    BY <2>1, <2>2, <1>1 DEF Searched
<1>4. QED
  BY <1>1, <1>2, <1>3, ReaderIInv

\* A find follows the link on the side of its key: by the order of the tree the item
\* it looks for stays below.
LEMMA CompareStep ==
  ASSUME IInv, Compare
  PROVE  IInv'
<1> USE TreeAssumption
<1>1. /\ key # Nil /\ at # key /\ at # Nil /\ key \in Places /\ at \in Places
      /\ at' = child[Toward(key, at)][at]
      /\ UNCHANGED <<child, parent, color, writes, pc, elm, par, old, registered, key, stays, quiet>>
      /\ child \in [Sides -> [Places -> Places]]
  BY DEF Compare, Allocated, IInv, TypeOK
<1>2. key \in Socks /\ at \in Socks
  BY <1>1 DEF Places
<1>3. Toward(key, at) \in Sides /\ Before(Toward(key, at), key, at)
  <2>1. Toward(key, at) \in Sides
    BY <1>1, <1>2, TowardFacts
  <2>2. Before(Toward(key, at), key, at)
    BY <1>1, <1>2, TowardFacts
  <2>3. QED
    BY <2>1, <2>2
<1> DEFINE t == Toward(key, at)
<1> HIDE DEF t
<1>4. t \in Sides /\ Before(t, key, at) /\ at' = child[t][at]
  BY <1>1, <1>3 DEF t
<1>5. key' \in Places /\ at' \in Places /\ stays' \in BOOLEAN /\ quiet' \in BOOLEAN
  BY <1>1, <1>4 DEF IInv, TypeOK
<1>6. ASSUME NEW D, NEW B, Shape(child, D, B), writes = <<>>
      PROVE  Searched(D)'
  <2>1. SUFFICES ASSUME quiet
                 PROVE  /\ pc = "idle"
                        /\ at' \in registered \cup {Nil}
                        /\ key \in registered => key \in D[at']
    BY <1>1 DEF Searched
  <2>2. /\ pc = "idle" /\ at \in registered
        /\ key \in registered => key \in D[at]
    BY <2>1, <1>1, <1>6 DEF Shape, Searched
  <2>3. at' \in registered \cup {Nil}
    BY <2>2, <1>4, <1>6 DEF Shape, Tree
  <2>4. ASSUME key \in registered
        PROVE  key \in D[at']
    <3>1. key \in D[at] /\ D[at] = {at} \cup D[child["left"][at]] \cup D[child["right"][at]]
      BY <2>2, <2>4, <1>6 DEF Shape, Sorted
    <3>2. PICK s \in Sides : key \in D[child[s][at]]
      BY <3>1, <1>1 DEF Sides
    <3>3. Before(s, key, at)
      BY <3>2, <2>2, <1>6 DEF Shape, Sorted
    <3>4. s = t
      <4>1. s # Opp(t)
        BY <3>3, <1>2, <1>4, BeforeFacts
      <4>2. QED
        BY <4>1, <1>4, OppFacts
    <3>5. QED
      BY <3>2, <3>4, <1>4
  <2>5. QED
    BY <2>2, <2>3, <2>4
<1>7. quiet' => pc = "idle"
  BY <1>1 DEF IInv, Shape, Searched
<1>8. QED
  BY <1>1, <1>5, <1>6, <1>7, ReaderIInv

\* A find ends.
LEMMA FindEndStep ==
  ASSUME IInv, FindEnd
  PROVE  IInv'
<1>1. /\ key' = Nil /\ at' = Nil /\ stays' = FALSE /\ quiet' = FALSE
      /\ UNCHANGED <<child, parent, color, writes, pc, elm, par, old, registered>>
  BY DEF FindEnd
<1>2. key' \in Places /\ at' \in Places /\ stays' \in BOOLEAN /\ quiet' \in BOOLEAN
  BY <1>1 DEF Places
<1>3. \A D : Searched(D)'
  BY <1>1 DEF Searched
<1>4. QED
  BY <1>1, <1>2, <1>3, ReaderIInv

(***************************************************************************)
(* The steps that only change colors, and the last one of a deletion.      *)
(***************************************************************************)

\* The root hangs on the left of the head, below no item.
LEMMA RootTop ==
  ASSUME NEW R \in SUBSET Socks, NEW T, NEW P, NEW D, Tree(T, P, R), Sorted(T, D, R),
         R # {}
  PROVE  /\ T["left"][Nil] \in R /\ P[T["left"][Nil]] = Nil
         /\ \A n \in R \ {T["left"][Nil]} : P[n] \in R
<1> USE TreeAssumption
<1> DEFINE r == T["left"][Nil]
<1>1. r \in R /\ P[r] = Nil
  <2>1. D[r] = R /\ D[Nil] = {}
    BY DEF Sorted
  <2>2. r # Nil
    BY <2>1
  <2>3. QED
    BY <2>2 DEF Tree, Sides
<1>2. ASSUME NEW n \in R \ {r}
      PROVE  P[n] \in R
  <2>1. P[n] \in R \cup {Nil} /\ \E s \in Sides : T[s][P[n]] = n
    BY DEF Tree
  <2>2. T["right"][Nil] = Nil
    BY DEF Tree
  <2>3. QED
    BY <2>1, <2>2 DEF Sides
<1>3. QED
  BY <1>1, <1>2

\* The root can be made black: every way gets one more, or none does.
LEMMA RootBlack ==
  ASSUME NEW R \in SUBSET Socks, NEW T, NEW P, NEW D, Tree(T, P, R), Sorted(T, D, R),
         R # {}, NEW C, NEW C2, NEW B \in [Places -> Nat], B[Nil] = 0, AllEven(T, C, B, R),
         C2[T["left"][Nil]] = "black",
         \A n \in R \ {T["left"][Nil]} : C2[n] = C[n]
  PROVE  \E B2 : B2 \in [Places -> Nat] /\ B2[Nil] = 0 /\ AllEven(T, C2, B2, R)
<1> USE TreeAssumption
<1> DEFINE r == T["left"][Nil]
           B2 == [B EXCEPT ![r] = B[T["left"][r]] + 1]
<1>1. R \subseteq Socks /\ Places = Socks \cup {Nil} /\ Nil \notin Socks
  BY DEF Places
<1>2. C2[r] = "black" /\ \A n \in R \ {r} : C2[n] = C[n]
  OBVIOUS
<1>3. r \in R /\ P[r] = Nil
  <2>1. r \in R
    BY RootTop
  <2>2. P[r] = Nil
    BY RootTop
  <2>3. QED
    BY <2>1, <2>2
<1> HIDE DEF r
<1>5. \A n \in R, s \in Sides : T[s][n] \in R \cup {Nil} /\ T[s][n] # r
  BY <1>1, <1>3 DEF Tree
<1>6. B2 \in [Places -> Nat] /\ B2[r] = B[T["left"][r]] + 1
      /\ \A n \in Places \ {r} : B2[n] = B[n]
  <2>1. T["left"][r] \in Places
    BY <1>1, <1>3, <1>5 DEF Sides
  <2>2. B[T["left"][r]] \in Nat
    BY <2>1
  <2>3. QED
    BY <2>2, <1>1, <1>3
<1> HIDE DEF B2
<1>7. ASSUME NEW n \in R
      PROVE  Even(T, C2, B2, n)
  <2>1. \A s \in Sides : B2[T[s][n]] = B[T[s][n]]
    BY <1>1, <1>5, <1>6
  <2>2. Even(T, C, B, n)
    BY DEF AllEven
  <2>3. CASE n = r
    BY <2>1, <2>2, <2>3, <1>2, <1>6 DEF Even, Weight, Sides
  <2>4. CASE n # r
    BY <2>1, <2>2, <2>4, <1>1, <1>2, <1>6, EvenKept
  <2>5. QED
    BY <2>3, <2>4
<1>8. B2[Nil] = 0 /\ AllEven(T, C2, B2, R)
  BY <1>1, <1>3, <1>6, <1>7 DEF AllEven
<1>9. QED
  BY <1>6, <1>8

\* xy_rb_insert_color ends: with no red pair left, the root is colored black.
LEMMA InsertEndStep ==
  ASSUME IInv, InsertEnd
  PROVE  IInv'
<1> USE TreeAssumption
<1> DEFINE r == child["left"][Nil]
           R == registered
<1>1. /\ writes = <<>> /\ pc = "insert_color" /\ Black(parent[elm])
      /\ color' = [color EXCEPT ![r] = "black"]
      /\ elm' = Nil /\ pc' = "idle" /\ par' = par
      /\ Repairs
      /\ UNCHANGED <<parent, writes>>
  BY DEF InsertEnd, Reached, Root
<1>2. PICK D, B : Shape(child, D, B)
  BY <1>1, AtRest
<1>3. /\ R \in SUBSET Socks /\ Tree(child, parent, R) /\ Sorted(child, D, R)
      /\ B \in [Places -> Nat] /\ B[Nil] = 0
      /\ elm \in R
      /\ \A n \in R \ {elm} : color[n] = "red" => parent[n] # Nil /\ color[parent[n]] = "black"
      /\ AllEven(child, color, B, R)
      /\ color \in [Socks -> {"red", "black"}] /\ par \in Places
      /\ Writer
  BY <1>1, <1>2 DEF Shape, Colored, NoRedPair, IInv, TypeOK
<1>4. R \subseteq Socks /\ Places = Socks \cup {Nil} /\ Nil \notin Socks
  BY <1>3 DEF Places
<1> HIDE DEF R
<1>5. /\ color' \in [Socks -> {"red", "black"}]
      /\ \A n \in R \ {r} : color'[n] = color[n]
      /\ r \in Socks => color'[r] = "black"
  BY <1>1, <1>3, <1>4
<1>6. r \in R
  <2>1. D[r] = R /\ D[Nil] = {} /\ R # {}
    BY <1>3 DEF Sorted
  <2>2. QED
    BY <2>1, <1>3 DEF Tree, Sides
<1>7. /\ \A n \in R \ {r} : parent[n] \in R
      /\ \E B2 : B2 \in [Places -> Nat] /\ B2[Nil] = 0 /\ AllEven(child, color', B2, R)
  <2> DEFINE C2 == color'
  <2>1. R # {} /\ C2[r] = "black" /\ \A n \in R \ {r} : C2[n] = color[n]
    BY <1>4, <1>5, <1>6
  <2> HIDE DEF C2
  <2>2. \A n \in R \ {r} : parent[n] \in R
    BY <2>1, <1>3, RootTop
  <2>3. \E B2 : B2 \in [Places -> Nat] /\ B2[Nil] = 0 /\ AllEven(child, C2, B2, R)
    BY <2>1, <1>3, RootBlack
  <2>4. QED
    BY <2>2, <2>3 DEF C2
<1>8. PICK B2 : B2 \in [Places -> Nat] /\ B2[Nil] = 0 /\ AllEven(child, color', B2, R)
  BY <1>7
<1>9. ASSUME NEW n \in R, color'[n] = "red"
      PROVE  parent[n] # Nil /\ color'[parent[n]] = "black"
  <2>1. n # r /\ color[n] = "red"
    BY <1>4, <1>5, <1>6, <1>9
  <2>2. parent[n] # Nil /\ parent[n] \in R
    BY <2>1, <1>4, <1>7
  <2>3. color[parent[n]] = "black"
    BY <2>1, <2>2, <1>1, <1>3 DEF Black
  <2>4. QED
    BY <2>2, <2>3, <1>4, <1>5, <1>6
<1>10. Colored(child, parent, color', R, B2, pc', elm', par')
  <2>1. NoRedPair(parent, color', R)
    BY <1>9 DEF NoRedPair
  <2>2. QED
    BY <2>1, <1>1, <1>8 DEF Colored
<1>11. QED
  <2>1. Writer'
    BY <1>1, <1>3 DEF Writer, Repairs
  <2>2. {elm', par'} \subseteq Places
    BY <1>1, <1>3, <1>4
  <2>3. QED
    BY <2>1, <2>2, <1>1, <1>2, <1>5, <1>10, RecolorIInv DEF R

\* What the loop of a deletion has before it: a black node is missing on one
\* side of p, below which e is, and z is the sibling.
IsMissing(T, P, C, R, B, e, p, side, z) ==
    /\ side \in Sides
    /\ p \in R
    /\ e \in R \cup {Nil} /\ e # p
    /\ z \in R /\ z # p /\ z # e
    /\ T[side][p] = e /\ T[Opp(side)][p] = z
    /\ P[z] = p /\ (e # Nil => P[e] = p)
    /\ B[z] = B[e] + 1
    /\ B[p] = B[e] + 1 + Weight(C, p)
    /\ \A n \in R \ {p} : Even(T, C, B, n)
    /\ e # Nil => C[e] = "black"
    /\ \A n \in R \ {e} : C[n] = "red" => P[n] # Nil /\ C[P[n]] = "black"

\* At a missing black item there is a sibling, with one black item more.
LEMMA Missing ==
  ASSUME IInv, MissingBlack, NEW D, NEW B, Shape(child, D, B)
  PROVE  IsMissing(child, parent, color, registered, B, elm, par, Side, Sibling)
<1> USE TreeAssumption
<1> DEFINE R == registered
<1>1. /\ pc = "remove_color" /\ writes = <<>>
      /\ Black(elm) /\ elm # child["left"][Nil]
  BY DEF MissingBlack, Reached, Root
<1>2. /\ R \in SUBSET Socks /\ Tree(child, parent, R) /\ Sorted(child, D, R)
      /\ B \in [Places -> Nat] /\ B[Nil] = 0
      /\ elm \in R \cup {Nil}
      /\ \A n \in R \ {elm} :
            color[n] = "red" => parent[n] # Nil /\ (parent[n] = elm \/ color[parent[n]] = "black")
      /\ par \in R /\ AllEven(child, color, B, R \ {par}) /\ Lacks(child, color, B, par, elm)
  BY <1>1 DEF Shape, Colored, IInv, TypeOK
<1>3. R \subseteq Socks /\ Places = Socks \cup {Nil} /\ Nil \notin Socks
  BY <1>2 DEF Places
<1> HIDE DEF R
<1>4. PICK s \in Sides : /\ child[s][par] = elm
                         /\ B[child[Opp(s)][par]] = B[elm] + 1
                         /\ B[par] = B[elm] + 1 + Weight(color, par)
  BY <1>2 DEF Lacks
<1>5. /\ Opp(s) \in Sides /\ Opp(s) # s
      /\ \A s2 \in Sides : s2 = s \/ s2 = Opp(s)
  BY <1>4, OppFacts
<1>6. PICK z : z = child[Opp(s)][par]
  OBVIOUS
<1>7. B[elm] \in Nat /\ B[z] = B[elm] + 1
  BY <1>2, <1>3, <1>4, <1>6
<1>8. z # elm /\ z # Nil
  BY <1>2, <1>7
<1>9. z \in R /\ parent[z] = par /\ (elm # Nil => parent[elm] = par)
  BY <1>2, <1>4, <1>5, <1>6, <1>8 DEF Tree
<1>10. z # par /\ elm # par
  <2>1. par \in D[par] /\ \A s2 \in Sides : par \notin D[child[s2][par]]
    BY <1>2, BelowItems
  <2>2. QED
    BY <2>1, <1>4, <1>5, <1>6
<1>11. Side = s
  <2>1. s = "left" \/ s = "right"
    BY <1>4 DEF Sides
  <2>2. CASE s = "left"
    BY <2>2, <1>4 DEF Side
  <2>3. CASE s = "right"
    BY <2>3, <1>4, <1>6, <1>8 DEF Side, Opp
  <2>4. QED
    BY <2>1, <2>2, <2>3
<1>12. Sibling = z
  BY <1>6, <1>11 DEF Sibling
<1>13. elm # Nil => color[elm] = "black"
  BY <1>1 DEF Black
<1>14. \A n \in R \ {elm} : color[n] = "red" => parent[n] # Nil /\ color[parent[n]] = "black"
  BY <1>2, <1>13
<1>15. \A n \in R \ {par} : Even(child, color, B, n)
  BY <1>2 DEF AllEven
<1>16. QED
  BY <1>2, <1>4, <1>5, <1>6, <1>7, <1>8, <1>9, <1>10, <1>11, <1>12, <1>13, <1>14, <1>15
     DEF IsMissing, R

\* xy_rb_remove_color, black sibling with black children: the missing item moves up.
LEMMA RemoveRecolorStep ==
  ASSUME IInv, RemoveRecolor
  PROVE  IInv'
<1> USE TreeAssumption
<1> DEFINE R == registered
           z == Sibling
           side == Side
           p == par
           e == elm
           q == parent[p]
<1>1. /\ writes = <<>> /\ pc = "remove_color" /\ MissingBlack
      /\ Black(z) /\ Black(Near) /\ Black(Far)
      /\ color' = [color EXCEPT ![z] = "red"]
      /\ elm' = p /\ par' = q
      /\ Repairs
      /\ UNCHANGED <<parent, writes, pc>>
  BY DEF RemoveRecolor, MissingBlack, Reached
<1>2. PICK D, B : Shape(child, D, B)
  BY <1>1, AtRest
<1>3. /\ R \in SUBSET Socks /\ Tree(child, parent, R) /\ Sorted(child, D, R)
      /\ B \in [Places -> Nat] /\ B[Nil] = 0
      /\ color \in [Socks -> {"red", "black"}]
  BY <1>1, <1>2 DEF Shape, Colored, IInv, TypeOK
<1>4. IsMissing(child, parent, color, R, B, e, p, side, z)
  BY <1>1, <1>2, Missing
<1>5. R \subseteq Socks /\ Places = Socks \cup {Nil} /\ Nil \notin Socks
  BY <1>3 DEF Places
<1>6. \A s \in Sides : child[s][z] # Nil => color[child[s][z]] = "black"
  <2>1. Near = child[side][z] /\ Far = child[Opp(side)][z]
    BY DEF Near, Far
  <2>2. \A s \in Sides : s = side \/ s = Opp(side)
    BY <1>4, OppFacts DEF IsMissing
  <2>3. QED
    BY <2>1, <2>2, <1>1 DEF Black
<1> HIDE DEF R, z, side, p, e, q
<1>7. /\ side \in Sides /\ p \in R /\ e \in R \cup {Nil} /\ e # p
      /\ z \in R /\ z # p /\ z # e
      /\ child[side][p] = e /\ child[Opp(side)][p] = z
      /\ parent[z] = p /\ (e # Nil => parent[e] = p)
      /\ B[z] = B[e] + 1
      /\ B[p] = B[e] + 1 + Weight(color, p)
      /\ \A n \in R \ {p} : Even(child, color, B, n)
      /\ e # Nil => color[e] = "black"
      /\ \A n \in R \ {e} : color[n] = "red" => parent[n] # Nil /\ color[parent[n]] = "black"
  BY <1>4 DEF IsMissing
<1>8. color[z] = "black"
  BY <1>1, <1>5, <1>7 DEF Black
<1>9. /\ color' \in [Socks -> {"red", "black"}]
      /\ color'[z] = "red"
      /\ \A n \in R \ {z} : color'[n] = color[n]
  BY <1>1, <1>3, <1>5, <1>7
<1>10. B[e] \in Nat /\ Weight(color, p) \in Nat
  BY <1>3, <1>5, <1>7 DEF Weight
<1> DEFINE B2 == [B EXCEPT ![z] = B[e], ![p] = B[e] + Weight(color, p)]
<1>11. /\ B2 \in [Places -> Nat] /\ B2[z] = B[e] /\ B2[p] = B[e] + Weight(color, p)
       /\ \A n \in Places \ {z, p} : B2[n] = B[n]
  <2>1. PICK v \in Nat : v = B[e] + Weight(color, p)
    BY <1>10
  <2>2. PICK b \in Nat : b = B[e]
    BY <1>10
  <2>3. B2 = [B EXCEPT ![z] = b, ![p] = v]
    BY <2>1, <2>2
  <2> HIDE DEF B2
  <2>4. QED
    BY <2>1, <2>2, <2>3, <1>3, <1>5, <1>7
<1> HIDE DEF B2
<1>12. \A n \in R, s \in Sides :
          child[s][n] \in R \cup {Nil} /\ (child[s][n] # Nil => parent[child[s][n]] = n)
  BY <1>3 DEF Tree
<1>13. /\ q \in R \cup {Nil} /\ q # p
       /\ SideIn(child, parent, p) \in Sides
       /\ child[SideIn(child, parent, p)][q] = p
       /\ \A s \in Sides, n \in R \cup {Nil} :
             child[s][n] = p => s = SideIn(child, parent, p) /\ n = q
  <2> DEFINE top == SideIn(child, parent, p)
  <2>1. p \in R
    BY <1>7
  <2>2. HangsAt(child, R, p, SideIn(child, parent, p), parent[p])
    BY <2>1, <1>3, TopOf
  <2>3. HangsAt(child, R, p, top, q)
    BY <2>2 DEF q
  <2>4. QED
    BY <2>3 DEF HangsAt
<1>14. ASSUME NEW n \in R \ {p, q}
       PROVE  Even(child, color', B2, n)
  <2>1. Even(child, color, B, n)
    BY <1>7
  <2>2. \A s \in Sides : B2[child[s][n]] = B[child[s][n]]
    <3>1. SUFFICES ASSUME NEW s \in Sides
                   PROVE  B2[child[s][n]] = B[child[s][n]]
      OBVIOUS
    <3>2. child[s][n] # p
      BY <1>13
    <3>3. child[s][n] # z
      BY <1>7, <1>12, <1>5
    <3>4. child[s][n] \in Places \ {z, p}
      BY <3>2, <3>3, <1>5, <1>12
    <3>5. QED
      BY <3>4, <1>11
  <2>3. CASE n = z
    BY <2>1, <2>2, <2>3, <1>3, <1>5, <1>7, <1>8, <1>9, <1>10, <1>11, <1>12
       DEF Even, Weight, Sides
  <2>4. CASE n # z
    BY <2>1, <2>2, <2>4, <1>5, <1>9, <1>11, EvenKept
  <2>5. QED
    BY <2>3, <2>4
<1>15. Even(child, color', B2, p)
  <2>1. B2[e] = B[e]
    BY <1>5, <1>7, <1>11
  <2>2. \A s \in Sides : B2[child[s][p]] = B[e]
    <3>1. \A s \in Sides : s = side \/ s = Opp(side)
      BY <1>7, OppFacts
    <3>2. QED
      BY <3>1, <2>1, <1>7, <1>11
  <2>3. color'[p] = color[p]
    BY <1>7, <1>9
  <2>4. QED
    BY <2>2, <2>3, <1>11 DEF Even, Weight, Sides
<1>16. \/ p = child["left"][Nil] /\ AllEven(child, color', B2, R)
       \/ q \in R /\ AllEven(child, color', B2, R \ {q}) /\ Lacks(child, color', B2, q, p)
  <2>1. CASE q = Nil
    <3>1. child["right"][Nil] = Nil
      BY <1>3 DEF Tree
    <3>2. p = child["left"][Nil]
      BY <2>1, <3>1, <1>5, <1>7, <1>13 DEF Sides
    <3>3. \A n \in R : Even(child, color', B2, n)
      BY <2>1, <1>5, <1>14, <1>15
    <3>4. QED
      BY <3>2, <3>3 DEF AllEven
  <2>2. CASE q # Nil
    <3>1. q \in R
      BY <2>2, <1>13
    <3>2. PICK s : s = SideIn(child, parent, p)
      OBVIOUS
    <3>3. PICK u : u = child[Opp(s)][q]
      OBVIOUS
    <3>4. s \in Sides /\ child[s][q] = p /\ Opp(s) \in Sides
      BY <3>2, <1>13, OppFacts
    <3>5. u # p /\ u \in R \cup {Nil}
      BY <3>1, <3>2, <3>3, <3>4, <1>12, <1>13, OppFacts
    <3>6. u # z
      BY <3>1, <3>3, <3>4, <1>5, <1>7, <1>12, <1>13
    <3>7. B2[u] = B[u] /\ B2[q] = B[q] /\ color'[q] = color[q] /\ B2[p] + 1 = B[p]
      <4>1. q # z
        <5>1. p \in D[p] /\ p \notin D[z]
          <6>1. p \in D[p] /\ \A s2 \in Sides : p \notin D[child[s2][p]]
            BY <1>3, <1>7, BelowItems
          <6>2. Opp(side) \in Sides
            BY <1>7, OppFacts
          <6>3. QED
            BY <6>1, <6>2, <1>7
        <5>2. D[p] \subseteq D[q]
          <6>1. \A s2 \in Sides : D[child[s2][q]] \subseteq D[q]
            BY <1>3, <3>1, BelowItems
          <6>2. QED
            BY <6>1, <3>4
        <5>3. QED
          BY <5>1, <5>2
      <4>2. QED
        BY <4>1, <3>1, <3>5, <3>6, <1>5, <1>7, <1>9, <1>10, <1>11, <1>13
    <3>8. B[u] = B[p] /\ B[q] = B[p] + Weight(color, q)
      <4>1. Even(child, color, B, q)
        BY <3>1, <1>7, <1>13
      <4>2. s = "left" \/ s = "right"
        BY <3>4 DEF Sides
      <4>3. B[child["left"][q]] = B[p] /\ B[child["right"][q]] = B[p]
        BY <4>1, <4>2, <3>4 DEF Even
      <4>4. B[u] = B[p]
        BY <4>3, <3>3, <3>4 DEF Sides
      <4>5. QED
        BY <4>1, <4>3, <4>4 DEF Even
    <3>9. Weight(color', q) = Weight(color, q)
      BY <3>7 DEF Weight
    <3>10. Lacks(child, color', B2, q, p)
      BY <3>3, <3>4, <3>7, <3>8, <3>9 DEF Lacks
    <3>11. \A n \in R \ {q} : Even(child, color', B2, n)
      BY <1>14, <1>15
    <3>12. QED
      BY <3>1, <3>10, <3>11 DEF AllEven
  <2>3. QED
    BY <2>1, <2>2
<1>17. ASSUME NEW n \in R \ {p}, color'[n] = "red"
       PROVE  parent[n] # Nil /\ (parent[n] = p \/ color'[parent[n]] = "black")
  <2>1. CASE n = z
    BY <2>1, <1>5, <1>7
  <2>2. CASE n = e
    BY <2>2, <1>17, <1>5, <1>7
  <2>3. CASE n # z /\ n # e
    <3>1. parent[n] # Nil /\ color[parent[n]] = "black" /\ color[n] = "red"
      BY <2>3, <1>7, <1>9, <1>17
    <3>2. parent[n] \in R /\ \E s \in Sides : child[s][parent[n]] = n
      BY <3>1, <1>3 DEF Tree
    <3>3. parent[n] # z
      BY <3>1, <3>2, <1>5, <1>6
    <3>4. QED
      BY <3>1, <3>2, <3>3, <1>9
  <2>4. QED
    BY <2>1, <2>2, <2>3
<1>18. Colored(child, parent, color', R, B2, pc', elm', par')
  <2>1. B2[Nil] = 0
    BY <1>3, <1>5, <1>7, <1>11
  <2>2. QED
    BY <2>1, <1>1, <1>7, <1>11, <1>16, <1>17 DEF Colored
<1>19. QED
  <2>1. Writer'
    BY <1>1 DEF IInv, Writer, Repairs
  <2>2. {elm', par'} \subseteq Places
    BY <1>1, <1>5, <1>7, <1>13
  <2>3. pc' \in {"idle", "insert_color", "remove_color", "free"}
    BY <1>1
  <2>4. QED
    BY <2>1, <2>2, <2>3, <1>1, <1>2, <1>9, <1>18, RecolorIInv DEF R

\* xy_rb_remove_color ends: the item the repair stops at is colored black.
LEMMA RemoveEndStep ==
  ASSUME IInv, RemoveEnd
  PROVE  IInv'
<1> USE TreeAssumption
<1> DEFINE R == registered
           r == child["left"][Nil]
<1>1. /\ writes = <<>> /\ pc = "remove_color" /\ (~Black(elm) \/ elm = r)
      /\ color' = [n \in Socks |-> IF n = elm THEN "black" ELSE color[n]]
      /\ elm' = elm /\ par' = par /\ pc' = "free"
      /\ Repairs
      /\ UNCHANGED <<parent, writes>>
  BY DEF RemoveEnd, MissingBlack, Reached, Root
<1>2. PICK D, B : Shape(child, D, B)
  BY <1>1, AtRest
<1>3. /\ R \in SUBSET Socks /\ Tree(child, parent, R) /\ Sorted(child, D, R)
      /\ B \in [Places -> Nat] /\ B[Nil] = 0
      /\ elm \in R \cup {Nil}
      /\ \A n \in R \ {elm} :
            color[n] = "red" => parent[n] # Nil /\ (parent[n] = elm \/ color[parent[n]] = "black")
      /\ \/ elm = r /\ AllEven(child, color, B, R)
         \/ par \in R /\ AllEven(child, color, B, R \ {par}) /\ Lacks(child, color, B, par, elm)
      /\ color \in [Socks -> {"red", "black"}]
  BY <1>1, <1>2 DEF Shape, Colored, IInv, TypeOK
<1>4. R \subseteq Socks /\ Places = Socks \cup {Nil} /\ Nil \notin Socks
  BY <1>3 DEF Places
<1>5. /\ color' \in [Socks -> {"red", "black"}]
      /\ elm \in R => color'[elm] = "black"
      /\ \A n \in R \ {elm} : color'[n] = color[n]
  <2>1. color' \in [Socks -> {"red", "black"}]
    BY <1>1, <1>3
  <2>2. QED
    BY <2>1, <1>1, <1>4
<1> HIDE DEF R, r
<1>6. elm = r => AllEven(child, color, B, R)
  <2>1. SUFFICES ASSUME elm = r, par \in R, Lacks(child, color, B, par, elm)
                 PROVE  FALSE
    BY <1>3
  <2>2. r \in R /\ parent[r] = Nil
    <3>1. R # {}
      BY <2>1
    <3>2. child["left"][Nil] \in R
      BY <3>1, <1>3, RootTop
    <3>3. parent[child["left"][Nil]] = Nil
      BY <3>1, <1>3, RootTop
    <3>4. QED
      BY <3>2, <3>3 DEF r
  <2>3. PICK s \in Sides : child[s][par] = r
    BY <2>1 DEF Lacks
  <2>4. parent[r] = par
    BY <2>1, <2>2, <2>3, <1>3, <1>4 DEF Tree
  <2>5. QED
    BY <2>1, <2>2, <2>4, <1>4
<1>7. \E B2 : B2 \in [Places -> Nat] /\ B2[Nil] = 0 /\ AllEven(child, color', B2, R)
  <2>1. CASE elm = Nil
    <3>1. elm = r
      BY <2>1, <1>1 DEF Black
    <3>2. R = {}
      BY <2>1, <3>1, <1>3 DEF Sorted, r
    <3>3. QED
      BY <3>2, <1>3 DEF AllEven
  <2>2. CASE elm # Nil /\ elm = r
    <3> DEFINE C2 == color'
    <3>1. elm \in R /\ R # {}
      BY <2>2, <1>3
    <3>2. C2[child["left"][Nil]] = "black"
      BY <2>2, <3>1, <1>5 DEF r
    <3>3. \A n \in R \ {child["left"][Nil]} : C2[n] = color[n]
      BY <2>2, <1>5 DEF r
    <3> HIDE DEF C2
    <3>4. \E B2 : B2 \in [Places -> Nat] /\ B2[Nil] = 0 /\ AllEven(child, C2, B2, R)
      BY <2>2, <3>1, <3>2, <3>3, <1>3, <1>6, RootBlack
    <3>5. QED
      BY <3>4 DEF C2
  <2>3. CASE elm # Nil /\ elm # r
    <3>1. elm \in R /\ color[elm] = "red" /\ color'[elm] = "black"
      BY <2>3, <1>1, <1>3, <1>4, <1>5 DEF Black
    <3>2. par \in R /\ \A n \in R \ {par} : Even(child, color, B, n)
      BY <2>3, <1>3 DEF AllEven
    <3>3. PICK s \in Sides : /\ child[s][par] = elm
                             /\ B[child[Opp(s)][par]] = B[elm] + 1
                             /\ B[par] = B[elm] + 1 + Weight(color, par)
      BY <2>3, <1>3 DEF Lacks
    <3>4. parent[elm] = par
      BY <2>3, <3>2, <3>3, <1>3 DEF Tree
    <3>5. elm # par
      <4>1. par \in D[par] /\ \A s2 \in Sides : par \notin D[child[s2][par]]
        BY <3>2, <1>3, BelowItems
      <4>2. QED
        BY <4>1, <3>3
    <3>6. B[elm] \in Nat
      BY <3>1, <1>3, <1>4
    <3> DEFINE B2 == [B EXCEPT ![elm] = B[elm] + 1]
    <3>7. /\ B2 \in [Places -> Nat] /\ B2[elm] = B[elm] + 1
          /\ \A n \in Places \ {elm} : B2[n] = B[n]
      BY <3>1, <3>6, <1>3, <1>4
    <3> HIDE DEF B2
    <3>8. ASSUME NEW n \in R \ {par}
          PROVE  Even(child, color', B2, n)
      <4>1. Even(child, color, B, n)
        BY <3>2
      <4>2. \A s2 \in Sides : child[s2][n] \in Places \ {elm}
        BY <3>1, <3>4, <3>8, <1>3, <1>4 DEF Tree
      <4>3. \A s2 \in Sides : B2[child[s2][n]] = B[child[s2][n]]
        BY <4>2, <3>7
      <4>4. CASE n = elm
        <5>1. B[child["left"][elm]] = B[elm] /\ B[child["right"][elm]] = B[elm]
          <6>1. B[child["left"][elm]] \in Nat
            BY <4>2, <4>4, <1>3 DEF Sides
          <6>2. QED
            BY <6>1, <4>1, <4>4, <3>1, <3>6 DEF Even, Weight
        <5>2. QED
          BY <5>1, <4>3, <4>4, <3>1, <3>7 DEF Even, Weight, Sides
      <4>5. CASE n # elm
        BY <4>1, <4>3, <4>5, <3>7, <3>8, <1>4, <1>5, EvenKept
      <4>6. QED
        BY <4>4, <4>5
    <3>9. Even(child, color', B2, par)
      <4>1. child[Opp(s)][par] # elm
        BY <3>3, <3>6
      <4>2. child[Opp(s)][par] \in Places
        BY <3>2, <3>3, <1>3, <1>4, OppFacts DEF Tree
      <4>3. B2[child[s][par]] = B[elm] + 1 /\ B2[child[Opp(s)][par]] = B[elm] + 1
        BY <4>1, <4>2, <3>3, <3>7
      <4>4. \A s2 \in Sides : B2[child[s2][par]] = B[elm] + 1
        BY <4>3, <3>3, OppFacts
      <4>5. B2[par] = B[par] /\ color'[par] = color[par]
        BY <3>2, <3>5, <3>7, <1>4, <1>5
      <4>6. QED
        BY <4>4, <4>5, <3>3 DEF Even, Weight, Sides
    <3>10. B2[Nil] = 0 /\ AllEven(child, color', B2, R)
      BY <3>1, <3>7, <3>8, <3>9, <1>3, <1>4 DEF AllEven
    <3>11. QED
      BY <3>7, <3>10
  <2>4. QED
    BY <2>1, <2>2, <2>3
<1>8. PICK B2 : B2 \in [Places -> Nat] /\ B2[Nil] = 0 /\ AllEven(child, color', B2, R)
  BY <1>7
<1>9. ASSUME NEW n \in R, color'[n] = "red"
      PROVE  parent[n] # Nil /\ color'[parent[n]] = "black"
  <2>1. n # elm /\ color[n] = "red"
    BY <1>5, <1>9
  <2>2. parent[n] # Nil /\ (parent[n] = elm \/ color[parent[n]] = "black")
    BY <2>1, <1>3
  <2>3. parent[n] \in R
    BY <2>2, <1>3 DEF Tree
  <2>4. QED
    BY <2>2, <2>3, <1>5
<1>10. Colored(child, parent, color', R, B2, pc', elm', par')
  <2>1. NoRedPair(parent, color', R)
    BY <1>9 DEF NoRedPair
  <2>2. QED
    BY <2>1, <1>1, <1>8 DEF Colored
<1>11. QED
  <2>1. Writer'
    BY <1>1 DEF IInv, Writer, Repairs
  <2>2. {elm', par'} \subseteq Places
    BY <1>1 DEF IInv, TypeOK
  <2>3. pc' \in {"idle", "insert_color", "remove_color", "free"}
    BY <1>1
  <2>4. QED
    BY <2>1, <2>2, <2>3, <1>1, <1>2, <1>5, <1>10, RecolorIInv DEF R

\* Only what the items in the tree hold counts.
LEMMA SameTree ==
  ASSUME NEW R \in SUBSET Socks, NEW T, NEW P, NEW D, Tree(T, P, R), Sorted(T, D, R),
         NEW T2 \in [Sides -> [Places -> Places]], NEW P2,
         \A s \in Sides, n \in R \cup {Nil} : T2[s][n] = T[s][n],
         \A n \in R : P2[n] = P[n]
  PROVE  Tree(T2, P2, R) /\ Sorted(T2, D, R)
<1>1. Tree(T2, P2, R)
  <2>1. T2["right"][Nil] = Nil
    BY DEF Tree, Sides
  <2>2. ASSUME NEW n \in R \cup {Nil}, NEW s \in Sides, T2[s][n] # Nil
        PROVE  T2[s][n] \in R /\ P2[T2[s][n]] = n
    <3>1. T2[s][n] = T[s][n]
      OBVIOUS
    <3>2. T[s][n] \in R /\ P[T[s][n]] = n
      BY <2>2, <3>1 DEF Tree
    <3>3. QED
      BY <3>1, <3>2
  <2>3. ASSUME NEW n \in R
        PROVE  P2[n] \in R \cup {Nil} /\ \E s \in Sides : T2[s][P2[n]] = n
    <3>1. P2[n] = P[n] /\ P[n] \in R \cup {Nil}
      BY DEF Tree
    <3>2. PICK s \in Sides : T[s][P[n]] = n
      BY DEF Tree
    <3>3. T2[s][P2[n]] = n
      BY <3>1, <3>2
    <3>4. QED
      BY <3>1, <3>3
  <2>4. QED
    BY <2>1, <2>2, <2>3 DEF Tree
<1>2. Sorted(T2, D, R)
  <2>1. T2["left"][Nil] = T["left"][Nil]
    BY DEF Sides
  <2>2. \A n \in R : D[n] = {n} \cup D[T2["left"][n]] \cup D[T2["right"][n]]
    <3>1. \A n \in R : T2["left"][n] = T["left"][n] /\ T2["right"][n] = T["right"][n]
      BY DEF Sides
    <3>2. QED
      BY <3>1 DEF Sorted
  <2>3. \A n \in R, s \in Sides : \A m \in D[T2[s][n]] : Before(s, m, n)
    BY DEF Sorted
  <2>4. QED
    BY <2>1, <2>2, <2>3 DEF Sorted
<1>3. QED
  BY <1>1, <1>2

\* The removed node is freed: no link leads to it.
LEMMA FreeStep ==
  ASSUME IInv, Free
  PROVE  IInv'
<1> USE TreeAssumption
<1> DEFINE R == registered
           T2 == child'
           P2 == parent'
           C2 == color'
<1>1. /\ writes = <<>> /\ pc = "free"
      /\ T2 = [side \in Sides |-> [child[side] EXCEPT ![old] = Nil]]
      /\ P2 = [parent EXCEPT ![old] = Nil]
      /\ C2 = [color EXCEPT ![old] = "black"]
      /\ elm' = Nil /\ par' = Nil /\ old' = Nil /\ pc' = "idle"
      /\ Writes
      /\ UNCHANGED <<writes, registered, stays>>
  BY DEF Free, Reached
<1>2. PICK D, B : Shape(child, D, B)
  BY <1>1, AtRest
<1>3. /\ R \in SUBSET Socks /\ Tree(child, parent, R) /\ Sorted(child, D, R)
      /\ B \in [Places -> Nat] /\ B[Nil] = 0
      /\ NoRedPair(parent, color, R) /\ AllEven(child, color, B, R)
      /\ color \in [Socks -> {"red", "black"}] /\ parent \in [Socks -> Places]
      /\ child \in [Sides -> [Places -> Places]]
      /\ old \in Socks \ R
  BY <1>1, <1>2 DEF Shape, Colored, IInv, TypeOK, Writer
<1>4. R \subseteq Socks /\ Places = Socks \cup {Nil} /\ Nil \notin Socks
  BY <1>3 DEF Places
<1>5. /\ T2 \in [Sides -> [Places -> Places]]
      /\ \A s \in Sides, n \in R \cup {Nil} : T2[s][n] = child[s][n]
  <2>1. \A s \in Sides : child[s] \in [Places -> Places]
    BY <1>3
  <2>2. T2 = [side \in Sides |-> [child[side] EXCEPT ![old] = Nil]]
    BY <1>1
  <2>3. QED
    BY <2>1, <2>2, <1>3, <1>4
<1>6. P2 \in [Socks -> Places] /\ \A n \in R : P2[n] = parent[n]
  BY <1>1, <1>3, <1>4
<1>7. C2 \in [Socks -> {"red", "black"}] /\ \A n \in R : C2[n] = color[n]
  BY <1>1, <1>3, <1>4
<1>8. registered' = R
  BY <1>1
<1>9. Writes /\ TypeOK /\ pc' = "idle" /\ writes' = <<>> /\ writes = <<>> /\ stays' = stays
      /\ elm' = Nil /\ par' = Nil /\ old' = Nil
  BY <1>1 DEF IInv
<1> HIDE DEF R, T2, P2, C2
<1>10. Tree(T2, P2, R)
  BY <1>3, <1>5, <1>6, SameTree
<1>11. Sorted(T2, D, R)
  BY <1>3, <1>5, <1>6, SameTree
<1>12. Colored(T2, P2, C2, R, B, pc', elm', par')
  <2>1. ASSUME NEW n \in R, C2[n] = "red"
        PROVE  P2[n] # Nil /\ C2[P2[n]] = "black"
    <3>1. parent[n] # Nil /\ color[parent[n]] = "black" /\ parent[n] \in R
      BY <2>1, <1>3, <1>7 DEF NoRedPair, Tree
    <3>2. QED
      BY <3>1, <1>6, <1>7
  <2>2. ASSUME NEW n \in R
        PROVE  Even(T2, C2, B, n)
    <3>1. Even(child, color, B, n)
      BY <1>3 DEF AllEven
    <3>2. QED
      BY <3>1, <1>5, <1>7 DEF Even, Weight, Sides
  <2>3. QED
    BY <2>1, <2>2, <1>3, <1>9 DEF Colored, NoRedPair, AllEven
<1>13. Written(T2, <<>>, T2)
  BY <1>5, WriteNone
<1>14. Writer'
  BY <1>9, <1>1 DEF IInv, Writer
<1>15. QED
  <2>1. {elm', par', old'} \subseteq Places
    BY <1>4, <1>9
  <2>2. /\ pc' \in {"idle", "insert_color", "remove_color", "free"}
        /\ \A i \in 1 .. Len(writes') : writes'[i] \in Sides \X Places \X Places
                                      /\ (writes'[i][2] = Nil => writes'[i][1] = "left")
    BY <1>9 DEF TypeOK
  <2>3. /\ T2 = child' /\ P2 = parent' /\ C2 = color' /\ registered' = R
        /\ child' \in [Sides -> [Places -> Places]] /\ parent' \in [Socks -> Places]
        /\ color' \in [Socks -> {"red", "black"}]
    BY <1>5, <1>6, <1>7, <1>8 DEF T2, P2, C2
  <2>4. /\ Written(child', writes', T2) /\ Tree(T2, parent', registered')
        /\ Sorted(T2, D, registered')
        /\ Colored(T2, parent', color', registered', B, pc', elm', par')
    BY <2>3, <1>9, <1>10, <1>11, <1>12, <1>13
  <2>5. stays \in BOOLEAN /\ stays' \in BOOLEAN /\ registered' \subseteq Socks
    BY <2>3, <1>4, <1>9 DEF TypeOK
  <2>6. QED
    BY <2>1, <2>2, <2>3, <2>4, <2>5, <1>9, <1>14, NewIInv

(***************************************************************************)
(* The steps that rotate.                                                  *)
(***************************************************************************)

\* A rotation with the nodes named: y takes the place of x, a stays below x, b
\* goes from y to x, c stays below y.
IsTurn(T, P, R, x, side, T2, P2, y, a, b, c) ==
    /\ x \in R /\ y \in R /\ x # y /\ P[y] = x
    /\ T[side][x] = a /\ T[Opp(side)][x] = y /\ T[side][y] = b /\ T[Opp(side)][y] = c
    /\ {a, b, c, P[x]} \subseteq (R \cup {Nil}) \ {x, y}
    /\ T2[side][x] = a /\ T2[Opp(side)][x] = b /\ T2[side][y] = x /\ T2[Opp(side)][y] = c
    /\ b # Nil => P[b] = y /\ P2[b] = x
    /\ P2[x] = y /\ P2[y] = P[x]
    /\ \A n \in R \ {x, y, b} : P2[n] = P[n]
    /\ \A n \in (R \cup {Nil}) \ {x, y}, s \in Sides :
          \/ T2[s][n] = y /\ T[s][n] = x
          \/ T2[s][n] = T[s][n] /\ T[s][n] \in (R \cup {Nil}) \ {x, y}

\* A rotation, with the nodes named.
LEMMA TurnFacts ==
  ASSUME NEW R \in SUBSET Socks, NEW T, NEW P, NEW D, Tree(T, P, R), Sorted(T, D, R),
         NEW x \in R, NEW side \in Sides, NEW y \in R, y = T[Opp(side)][x],
         NEW T2, NEW P2, Turns(T, P, x, side, T2, P2)
  PROVE  IsTurn(T, P, R, x, side, T2, P2, y, T[side][x], T[side][y], T[Opp(side)][y])
<1> USE TreeAssumption
<1> DEFINE a == T[side][x]
           b == T[side][y]
           c == T[Opp(side)][y]
<1>1. R \subseteq Socks /\ Places = Socks \cup {Nil} /\ Nil \notin Socks
  BY DEF Places
<1>2. T[Opp(side)][x] # Nil
  BY <1>1
<1>3. /\ y \in R /\ y # x /\ P[y] = x
      /\ b # Nil => P[b] = y
      /\ P[x] \in (R \cup {Nil}) \ {x, y}
  <2>1. TurnsAt(P, R, x, T[Opp(side)][x], T[side][T[Opp(side)][x]])
    BY <1>2, TurnPlaces
  <2>2. TurnsAt(P, R, x, y, b)
    BY <2>1
  <2>3. QED
    BY <2>2 DEF TurnsAt
<1>4. /\ T2[side][x] = a /\ T2[Opp(side)][x] = b
      /\ T2[side][y] = x /\ T2[Opp(side)][y] = c
      /\ a \in (R \cup {Nil}) \ {x, y}
      /\ b \in (R \cup {Nil}) \ {x, y}
      /\ c \in (R \cup {Nil}) \ {x, y}
      /\ \A n \in (R \cup {Nil}) \ {x, y}, s \in Sides :
            \/ T2[s][n] = y /\ T[s][n] = x
            \/ T2[s][n] = T[s][n] /\ T[s][n] \in (R \cup {Nil}) \ {x, y}
  <2>1. Relinked(T, R, x, side, T2, T[Opp(side)][x], T[side][T[Opp(side)][x]],
                 T[Opp(side)][T[Opp(side)][x]])
    BY <1>2, TurnLinks
  <2>2. Relinked(T, R, x, side, T2, y, b, c)
    BY <2>1
  <2>3. QED
    BY <2>2 DEF Relinked
<1>5. P2 = Turned(P, x, y, b)
  BY DEF Turns
<1> HIDE DEF a, b, c
<1>6. /\ b # Nil => P2[b] = x
      /\ P2[x] = y /\ P2[y] = P[x]
      /\ \A n \in R \ {x, y, b} : P2[n] = P[n]
  BY <1>1, <1>3, <1>4, <1>5 DEF Turned
<1>7. IsTurn(T, P, R, x, side, T2, P2, y, a, b, c)
  BY <1>3, <1>4, <1>6 DEF IsTurn, a, b, c
<1>8. QED
  BY <1>7 DEF a, b, c

\* Elsewhere a rotation keeps the heights if y gets the one of x.
LEMMA TurnEven ==
  ASSUME NEW R \in SUBSET Socks, NEW T, NEW P, Tree(T, P, R),
         NEW x, NEW side \in Sides, NEW T2, NEW P2, NEW y, NEW a, NEW b, NEW c,
         IsTurn(T, P, R, x, side, T2, P2, y, a, b, c),
         NEW C, NEW C2, NEW B, NEW B2,
         B2[y] = B[x],
         \A m \in (R \cup {Nil}) \ {x, y} : m = Nil \/ P[m] # y => B2[m] = B[m],
         NEW n \in R, n # x, n # y, Even(T, C, B, n), C2[n] = C[n], B2[n] = B[n]
  PROVE  Even(T2, C2, B2, n)
<1>1. ASSUME NEW s \in Sides
      PROVE  B2[T2[s][n]] = B[T[s][n]]
  <2>1. CASE T2[s][n] = y /\ T[s][n] = x
    BY <2>1
  <2>2. CASE T2[s][n] = T[s][n] /\ T[s][n] \in (R \cup {Nil}) \ {x, y}
    <3>1. PICK m \in (R \cup {Nil}) \ {x, y} : T[s][n] = m /\ T2[s][n] = m
      BY <2>2
    <3>2. m = Nil \/ P[m] = n
      BY <3>1 DEF Tree
    <3>3. B2[m] = B[m]
      BY <3>2
    <3>4. QED
      BY <3>1, <3>3
  <2>3. QED
    BY <2>1, <2>2 DEF IsTurn
<1>2. QED
  BY <1>1, EvenKept

\* The writes of a rotation lead to the rotated tree.
LEMMA RotateWrites ==
  ASSUME IInv, NEW R \in SUBSET Socks, NEW D, Tree(child, parent, R), Sorted(child, D, R),
         NEW x \in R, NEW side \in Sides, child[Opp(side)][x] # Nil, Rotate(x, side)
  PROVE  /\ \E T2 : Written(child, writes', T2) /\ Turns(child, parent, x, side, T2, parent')
         /\ writes' \in Seq(Sides \X Places \X Places)
         /\ \A i \in 1 .. Len(writes') : writes'[i] \in Sides \X Places \X Places
                                         /\ (writes'[i][2] = Nil => writes'[i][1] = "left")
<1> USE TreeAssumption
<1> DEFINE y == child[Opp(side)][x]
           inner == child[side][y]
           top == SideIn(child, parent, x)
           q == parent[x]
<1>1. R \subseteq Socks /\ Places = Socks \cup {Nil} /\ Nil \notin Socks
  BY DEF Places
<1>2. /\ y \in R /\ y # x
      /\ inner \in R \cup {Nil}
      /\ q \in R \cup {Nil} /\ q # x /\ q # y
  <2>1. TurnsAt(parent, R, x, child[Opp(side)][x], child[side][child[Opp(side)][x]])
    BY TurnPlaces
  <2>2. QED
    BY <2>1 DEF TurnsAt
<1>3. top \in Sides /\ child[top][q] = x
  <2>1. top \in Sides
    BY UpIsDown
  <2>2. child[top][q] = x
    BY UpIsDown
  <2>3. QED
    BY <2>1, <2>2
<1>4. Opp(side) \in Sides /\ Opp(side) # side
  BY OppFacts
<1>5. q = Nil => top = "left"
  BY <1>1, <1>3 DEF Tree, Sides
<1>6. /\ writes' = <<<<Opp(side), x, inner>>, <<top, q, y>>, <<side, y, x>>>>
      /\ parent' = Turned(parent, x, y, inner)
      /\ child \in [Sides -> [Places -> Places]]
  BY DEF Rotate, Replaced, SideOf, SideIn, Turned, IInv, TypeOK
<1> DEFINE o == Opp(side)
           P2 == parent'
<1>8. \A T2 : Turns(child, parent, x, side, T2, P2) <=>
        /\ T2 \in [Sides -> [Places -> Places]]
        /\ T2[o][x] = inner /\ T2[top][q] = y /\ T2[side][y] = x
        /\ \A s \in Sides, n \in Places :
              (s # o \/ n # x) /\ (s # top \/ n # q) /\ (s # side \/ n # y)
                 => T2[s][n] = child[s][n]
        /\ P2 = Turned(parent, x, y, inner)
  BY DEF Turns
<1>9. o \in Sides /\ o # side
  BY <1>4
<1>10. writes' = <<<<o, x, inner>>, <<top, q, y>>, <<side, y, x>>>> /\ P2 = Turned(parent, x, y, inner)
  BY <1>6
<1> HIDE DEF y, inner, top, q, o, P2
<1>11. x \in Places /\ y \in Places /\ inner \in Places /\ q \in Places
  BY <1>1, <1>2
<1>12. PICK T2 : /\ Written(child, <<<<o, x, inner>>, <<top, q, y>>, <<side, y, x>>>>, T2)
                 /\ T2[o][x] = inner /\ T2[top][q] = y /\ T2[side][y] = x
                 /\ \A s \in Sides, n \in Places :
                      (s # o \/ n # x) /\ (s # top \/ n # q) /\ (s # side \/ n # y)
                         => T2[s][n] = child[s][n]
  <2>1. (o # top \/ x # q) /\ (o # side \/ x # y) /\ (top # side \/ q # y)
    BY <1>2, <1>9
  <2>2. side \in Sides /\ top \in Sides /\ o \in Sides /\ child \in [Sides -> [Places -> Places]]
    BY <1>3, <1>6, <1>9
  <2>3. CanWrite(child, o, x, inner, top, q, y, side, y, x)
    BY <2>1, <2>2, <1>11, WriteThree
  <2>4. QED
    BY <2>3 DEF CanWrite
<1>13. T2 \in [Sides -> [Places -> Places]]
  BY <1>12 DEF Written
<1>14. Written(child, writes', T2) /\ Turns(child, parent, x, side, T2, P2)
  BY <1>8, <1>10, <1>12, <1>13
<1>15. writes' \in Seq(Sides \X Places \X Places)
  BY <1>3, <1>9, <1>10, <1>11
<1>16. \A i \in 1 .. Len(writes') : writes'[i] \in Sides \X Places \X Places
                                    /\ (writes'[i][2] = Nil => writes'[i][1] = "left")
  <2>1. Len(writes') = 3 /\ writes'[1] = <<o, x, inner>> /\ writes'[2] = <<top, q, y>>
        /\ writes'[3] = <<side, y, x>>
    BY <1>10
  <2>2. \A i \in 1 .. Len(writes') : i = 1 \/ i = 2 \/ i = 3
    BY <2>1
  <2>3. x # Nil /\ y # Nil
    BY <1>1, <1>2
  <2>4. QED
    BY <2>1, <2>2, <2>3, <1>3, <1>5, <1>9, <1>11
<1>17. QED
  BY <1>14, <1>15, <1>16 DEF P2

\* A rotation and new colors keep the invariant if they repair the colors.
LEMMA RotateIInv ==
  ASSUME IInv, Repairs, writes = <<>>, pc # "idle", UNCHANGED pc,
         color' \in [Socks -> {"red", "black"}], {elm', par'} \subseteq Places,
         NEW D, NEW B, Shape(child, D, B),
         NEW x \in registered, NEW side \in Sides, child[Opp(side)][x] # Nil,
         Rotate(x, side), NEW B2,
         \A T2 : Turns(child, parent, x, side, T2, parent')
            => Colored(T2, parent', color', registered, B2, pc', elm', par')
  PROVE  IInv'
<1>1. /\ registered \in SUBSET Socks /\ Tree(child, parent, registered)
      /\ Sorted(child, D, registered)
      /\ stays \in BOOLEAN /\ child \in [Sides -> [Places -> Places]] /\ TypeOK
      /\ parent \in [Socks -> Places] /\ old \in Places
      /\ pc \in {"idle", "insert_color", "remove_color", "free"}
  BY DEF Shape, IInv, TypeOK
<1>2. PICK T2 : Written(child, writes', T2) /\ Turns(child, parent, x, side, T2, parent')
  BY <1>1, RotateWrites
<1> DEFINE P2 == parent'
<1>3. Turns(child, parent, x, side, T2, P2)
  BY <1>2
<1> HIDE DEF P2
<1>4. Tree(T2, P2, registered)
  BY <1>1, <1>3, TurnTree
<1>5. \E D2 : Sorted(T2, D2, registered)
  BY <1>1, <1>3, TurnSorted
<1>6. PICK D2 : Sorted(T2, D2, registered)
  BY <1>5
<1>7. P2 \in [Socks -> Places]
  <2>1. child[Opp(side)][x] \in Places /\ parent[x] \in Places /\ x \in Socks
    BY <1>1, OppFacts DEF Places
  <2>2. P2 = Turned(parent, x, child[Opp(side)][x], child[side][child[Opp(side)][x]])
    BY <1>3 DEF Turns
  <2>3. QED
    BY <2>1, <2>2, <1>1 DEF Turned, Places
<1>8. /\ child' = child /\ registered' = registered /\ old' = old /\ stays' = stays /\ pc' = pc
      /\ Writes
  BY DEF Repairs
<1>9. /\ writes' \in Seq(Sides \X Places \X Places)
      /\ \A i \in 1 .. Len(writes') : writes'[i] \in Sides \X Places \X Places
                                      /\ (writes'[i][2] = Nil => writes'[i][1] = "left")
  BY <1>1, RotateWrites
<1>10. Writer'
  BY <1>8, <1>9 DEF IInv, Writer
<1>11. /\ Written(child', writes', T2) /\ Tree(T2, parent', registered')
       /\ Sorted(T2, D2, registered')
       /\ Colored(T2, parent', color', registered', B2, pc', elm', par')
  BY <1>2, <1>4, <1>6, <1>8 DEF P2
<1>12. /\ stays' \in BOOLEAN /\ child' \in [Sides -> [Places -> Places]]
       /\ parent' \in [Socks -> Places] /\ {elm', par', old'} \subseteq Places
       /\ pc' \in {"idle", "insert_color", "remove_color", "free"}
       /\ registered' \subseteq Socks
  BY <1>1, <1>7, <1>8 DEF P2
<1>13. QED
  BY <1>1, <1>8, <1>9, <1>10, <1>11, <1>12, NewIInv

\* What the loop of an insertion has before it: e and its parent p are red, and
\* e hangs on side t of p, p on side s of g.
IsRedPair(T, P, C, R, B, e, p, g, s, t) ==
    /\ e \in R /\ p \in R /\ g \in R /\ e # p /\ p # g
    /\ s \in Sides /\ t \in Sides
    /\ P[e] = p /\ P[p] = g /\ T[t][p] = e /\ T[s][g] = p
    /\ C[e] = "red" /\ C[p] = "red" /\ C[g] = "black"
    /\ \A n \in R \ {e} : C[n] = "red" => P[n] # Nil /\ C[P[n]] = "black"
    /\ \A n \in R : Even(T, C, B, n)

\* A red item below a red parent has a grandparent, which is black.
LEMMA RedPair ==
  ASSUME IInv, RedParent, NEW D, NEW B, Shape(child, D, B)
  PROVE  IsRedPair(child, parent, color, registered, B, elm, parent[elm], Grandparent,
                   SideOf(parent[elm]), SideOf(elm))
<1> USE TreeAssumption
<1> DEFINE R == registered
           p == parent[elm]
           g == parent[p]
           s == SideIn(child, parent, p)
           t == SideIn(child, parent, elm)
<1>1. pc = "insert_color" /\ writes = <<>> /\ ~Black(p)
  BY DEF RedParent, Reached
<1>2. /\ R \in SUBSET Socks /\ Tree(child, parent, R) /\ Sorted(child, D, R)
      /\ elm \in R
      /\ color[elm] = "red"
      /\ \A n \in R \ {elm} : color[n] = "red" => parent[n] # Nil /\ color[parent[n]] = "black"
      /\ \A n \in R : Even(child, color, B, n)
      /\ color \in [Socks -> {"red", "black"}]
  BY <1>1 DEF Shape, Colored, AllEven, NoRedPair, IInv, TypeOK
<1>3. R \subseteq Socks /\ Places = Socks \cup {Nil} /\ Nil \notin Socks
  BY <1>2 DEF Places
<1>4. Grandparent = g /\ SideOf(p) = s /\ SideOf(elm) = t
  BY DEF Grandparent, SideOf, SideIn
<1>5. p # Nil /\ color[p] # "black"
  BY <1>1 DEF Black
<1> HIDE DEF R, p, g, s, t
<1>6. p \in R /\ p # elm /\ t \in Sides /\ child[t][p] = elm
  <2>1. IsFamily(child, parent, R, elm)
    BY <1>2, <1>5, Family DEF p
  <2>2. QED
    BY <2>1 DEF IsFamily, p, t
<1>7. color[p] = "red"
  BY <1>2, <1>3, <1>5, <1>6
<1>8. g # Nil /\ color[g] = "black"
  BY <1>2, <1>6, <1>7 DEF g
<1>9. g \in R /\ g # p /\ s \in Sides /\ child[s][g] = p
  <2>1. IsFamily(child, parent, R, p)
    BY <1>2, <1>6, <1>8, Family DEF g
  <2>2. QED
    BY <2>1 DEF IsFamily, g, s
<1>10. IsRedPair(child, parent, color, R, B, elm, p, g, s, t)
  BY <1>2, <1>6, <1>7, <1>8, <1>9 DEF IsRedPair, p, g
<1>11. QED
  BY <1>4, <1>10 DEF p, R

\* xy_rb_insert_color, inner child: a rotation makes the red pair an outer one.
LEMMA InsertInnerStep ==
  ASSUME IInv, InsertInner
  PROVE  IInv'
<1> USE TreeAssumption
<1> DEFINE R == registered
           e == elm
           p == parent[elm]
           g == Grandparent
           s == SideOf(p)
           t == SideOf(elm)
           P2 == parent'
           a == child[s][p]
           b == child[s][e]
           c == child[Opp(s)][e]
<1>1. /\ writes = <<>> /\ pc = "insert_color" /\ RedParent
      /\ t # s
      /\ Rotate(p, s)
      /\ elm' = p
      /\ Repairs
      /\ UNCHANGED <<color, pc, par>>
  BY DEF InsertInner, RedParent, Reached
<1>2. PICK D, B : Shape(child, D, B)
  BY <1>1, AtRest
<1>3. /\ R \in SUBSET Socks /\ Tree(child, parent, R) /\ Sorted(child, D, R)
      /\ B \in [Places -> Nat] /\ B[Nil] = 0
      /\ color \in [Socks -> {"red", "black"}] /\ par \in Places
  BY <1>1, <1>2 DEF Shape, Colored, IInv, TypeOK
<1>4. IsRedPair(child, parent, color, R, B, e, p, g, s, t)
  BY <1>1, <1>2, RedPair
<1>5. R \subseteq Socks /\ Places = Socks \cup {Nil} /\ Nil \notin Socks
  BY <1>3 DEF Places
<1> HIDE DEF R, p, g, s, t, P2, a, b, c, e
<1>6. /\ e \in R /\ p \in R /\ g \in R /\ e # p /\ p # g
      /\ s \in Sides /\ t \in Sides
      /\ parent[e] = p /\ parent[p] = g /\ child[t][p] = e /\ child[s][g] = p
      /\ color[e] = "red" /\ color[p] = "red" /\ color[g] = "black"
      /\ \A n \in R \ {e} : color[n] = "red" => parent[n] # Nil /\ color[parent[n]] = "black"
      /\ \A n \in R : Even(child, color, B, n)
  BY <1>4 DEF IsRedPair
<1>7. t = Opp(s) /\ child[Opp(s)][p] = e
  BY <1>1, <1>6, OppFacts
<1>8. ASSUME NEW T2, Turns(child, parent, p, s, T2, P2)
      PROVE  Colored(T2, P2, color, R, B, pc, p, par)
  <2>1. IsTurn(child, parent, R, p, s, T2, P2, e, a, b, c)
    BY <1>3, <1>6, <1>7, <1>8, TurnFacts DEF a, b, c
  <2>2. /\ {a, b, c} \subseteq (R \cup {Nil}) \ {p, e}
        /\ child[s][p] = a /\ child[Opp(s)][p] = e /\ child[s][e] = b /\ child[Opp(s)][e] = c
        /\ T2[s][p] = a /\ T2[Opp(s)][p] = b /\ T2[s][e] = p /\ T2[Opp(s)][e] = c
        /\ b # Nil => parent[b] = e /\ P2[b] = p
        /\ P2[p] = e /\ P2[e] = g
        /\ \A n \in R \ {p, e, b} : P2[n] = parent[n]
    BY <2>1, <1>6 DEF IsTurn
  <2>3. \A u \in Sides : u = s \/ u = Opp(s)
    BY <1>6, OppFacts
  <2>4. Opp(s) \in Sides
    BY <1>6, OppFacts
  <2>5. Even(child, color, B, p) /\ Even(child, color, B, e)
    BY <1>6
  <2>6. \A n \in {p, e} : B[n] = B[child[s][n]] /\ B[child[s][n]] = B[child[Opp(s)][n]]
    <3>1. \A n \in {p, e} : B[child["left"][n]] = B[child["right"][n]] /\ B[child["left"][n]] \in Nat
                           /\ B[n] = B[child["left"][n]] + 0
      <4>1. ASSUME NEW n \in {p, e}
            PROVE  B[child["left"][n]] = B[child["right"][n]] /\ B[child["left"][n]] \in Nat
                           /\ B[n] = B[child["left"][n]] + 0
        <5>1. child["left"][n] \in Places
          BY <1>3, <1>5, <1>6 DEF Tree, Sides
        <5>2. QED
          BY <5>1, <2>5, <1>3, <1>6 DEF Even, Weight
      <4>2. QED
        BY <4>1
    <3>2. QED
      BY <3>1, <1>6 DEF Sides, Opp
  <2>7. B[a] = B[e] /\ B[b] = B[e] /\ B[c] = B[e] /\ B[p] = B[e]
    BY <2>2, <2>6
  <2>8. B[e] \in Nat
    BY <1>3, <1>5, <1>6
  <2>9. ASSUME NEW n \in R
        PROVE  Even(T2, color, B, n)
    <3>1. CASE n = p
      <4>1. \A u \in Sides : B[T2[u][p]] = B[p]
        BY <2>2, <2>3, <2>7
      <4>2. QED
        BY <3>1, <4>1, <2>7, <2>8, <1>6 DEF Even, Weight, Sides
    <3>2. CASE n = e
      <4>1. \A u \in Sides : B[T2[u][e]] = B[e]
        BY <2>2, <2>3, <2>7
      <4>2. QED
        BY <3>2, <4>1, <2>8, <1>6 DEF Even, Weight, Sides
    <3>3. CASE n \notin {p, e}
      <4>1. B[e] = B[p] /\ n # p /\ n # e /\ Even(child, color, B, n)
        BY <3>3, <2>7, <1>6
      <4>2. QED
        BY <4>1, <2>1, <1>3, <1>6, TurnEven
    <3>4. QED
      BY <3>1, <3>2, <3>3
  <2>10. ASSUME NEW n \in R \ {p}, color[n] = "red"
         PROVE  P2[n] # Nil /\ color[P2[n]] = "black"
    <3>1. CASE n = e
      BY <3>1, <2>2, <1>5, <1>6
    <3>2. CASE n = b
      BY <3>2, <2>2, <2>10, <1>5, <1>6
    <3>3. CASE n \notin {e, b}
      BY <3>3, <2>2, <2>10, <1>6
    <3>4. QED
      BY <3>1, <3>2, <3>3
  <2>11. QED
    BY <2>9, <2>10, <1>1, <1>3, <1>6 DEF Colored, NoRedPair, AllEven
<1>9. color' = color /\ pc' = pc /\ par' = par /\ elm' = p
  BY <1>1
<1>10. \A T2 : Turns(child, parent, p, s, T2, parent')
          => Colored(T2, parent', color', R, B, pc', elm', par')
  BY <1>8, <1>9 DEF P2
<1>11. child[Opp(s)][p] # Nil
  BY <1>5, <1>6, <1>7
<1>12. QED
  <2>1. {elm', par'} \subseteq Places
    BY <1>3, <1>5, <1>6, <1>9
  <2>2. p \in registered
    BY <1>6 DEF R
  <2>3. \A T2 : Turns(child, parent, p, s, T2, parent')
          => Colored(T2, parent', color', registered, B, pc', elm', par')
    BY <1>10 DEF R
  <2>4. color' \in [Socks -> {"red", "black"}]
    BY <1>3, <1>9
  <2>5. QED
    BY <2>1, <2>2, <2>3, <2>4, <1>1, <1>2, <1>6, <1>11, RotateIInv

\* xy_rb_insert_color, outer child: the rotation ends the repair.
LEMMA InsertOuterStep ==
  ASSUME IInv, InsertOuter
  PROVE  IInv'
<1> USE TreeAssumption
<1> DEFINE R == registered
           e == elm
           p == parent[elm]
           g == Grandparent
           s == SideOf(p)
           t == SideOf(elm)
           o == Opp(s)
           u == child[o][g]
           P2 == parent'
           C2 == color'
           b == child[o][p]
<1>1. /\ writes = <<>> /\ pc = "insert_color" /\ RedParent
      /\ Black(u)
      /\ t = s
      /\ C2 = [color EXCEPT ![p] = "black", ![g] = "red"]
      /\ Rotate(g, Opp(t))
      /\ Repairs
      /\ UNCHANGED <<pc, elm, par>>
  BY DEF InsertOuter, RedParent, Reached, Uncle
<1>2. PICK D, B : Shape(child, D, B)
  BY <1>1, AtRest
<1>3. /\ R \in SUBSET Socks /\ Tree(child, parent, R) /\ Sorted(child, D, R)
      /\ B \in [Places -> Nat] /\ B[Nil] = 0
      /\ color \in [Socks -> {"red", "black"}] /\ par \in Places
  BY <1>1, <1>2 DEF Shape, Colored, IInv, TypeOK
<1>4. IsRedPair(child, parent, color, R, B, e, p, g, s, t)
  BY <1>1, <1>2, RedPair
<1>5. R \subseteq Socks /\ Places = Socks \cup {Nil} /\ Nil \notin Socks
  BY <1>3 DEF Places
<1>6. /\ e \in R /\ p \in R /\ g \in R /\ e # p /\ p # g
      /\ s \in Sides
      /\ parent[e] = p /\ parent[p] = g /\ child[s][p] = e /\ child[s][g] = p
      /\ color[e] = "red" /\ color[p] = "red" /\ color[g] = "black"
      /\ \A n \in R \ {e} : color[n] = "red" => parent[n] # Nil /\ color[parent[n]] = "black"
      /\ \A n \in R : Even(child, color, B, n)
  BY <1>1, <1>4 DEF IsRedPair
<1>7. /\ o \in Sides /\ Opp(o) = s /\ o # s
      /\ \A z \in Sides : z = s \/ z = o
  BY <1>6, OppFacts
<1>8. Opp(t) = o
  BY <1>1
<1>9. child[o][g] = u /\ child[o][p] = b
  OBVIOUS
<1> HIDE DEF R, p, g, s, t, P2, C2, b, u, e, o
<1>10. /\ C2 \in [Socks -> {"red", "black"}] /\ C2[p] = "black" /\ C2[g] = "red"
       /\ \A n \in R \ {p, g} : C2[n] = color[n]
  BY <1>1, <1>3, <1>5, <1>6
<1>11. B[g] \in Nat /\ B[p] \in Nat
  BY <1>3, <1>5, <1>6
<1> DEFINE B2 == [B EXCEPT ![g] = B[p], ![p] = B[g]]
<1>12. /\ B2 \in [Places -> Nat] /\ B2[g] = B[p] /\ B2[p] = B[g] /\ B2[Nil] = 0
       /\ \A n \in Places \ {p, g} : B2[n] = B[n]
  <2>1. PICK v \in Nat, w \in Nat : v = B[g] /\ w = B[p]
    BY <1>3, <1>5, <1>6, <1>11
  <2>2. B2 = [B EXCEPT ![g] = w, ![p] = v]
    BY <2>1
  <2> HIDE DEF B2
  <2>3. QED
    BY <2>1, <2>2, <1>3, <1>5, <1>6, <1>11
<1> HIDE DEF B2
<1>13. /\ B[g] = B[p] + 1 /\ B[u] = B[p]
       /\ B[e] = B[p] /\ B[b] = B[p]
  <2>1. Even(child, color, B, p) /\ Even(child, color, B, g)
    BY <1>6
  <2>2. /\ B[child["left"][p]] = B[child["right"][p]] /\ B[p] = B[child["left"][p]] + 0
        /\ B[child["left"][g]] = B[child["right"][g]] /\ B[g] = B[child["left"][g]] + 1
    BY <2>1, <1>6 DEF Even, Weight
  <2>3. B[child[s][p]] = B[child[o][p]] /\ B[p] = B[child[s][p]] + 0
        /\ B[child[s][g]] = B[child[o][g]] /\ B[g] = B[child[s][g]] + 1
    BY <2>2, <1>6, <1>7 DEF Sides
  <2>4. e \in Places /\ B[e] \in Nat
    BY <1>3, <1>5, <1>6
  <2>5. QED
    BY <2>3, <2>4, <1>6, <1>9, <1>11
<1>14. ASSUME NEW T2, Turns(child, parent, g, o, T2, P2)
       PROVE  Colored(T2, P2, C2, R, B2, pc, e, par)
  <2>0. p = child[Opp(o)][g]
    BY <1>6, <1>7
  <2>1. IsTurn(child, parent, R, g, o, T2, P2, p, u, b, e)
    <3>1. IsTurn(child, parent, R, g, o, T2, P2, p, child[o][g], child[o][p], child[Opp(o)][p])
      BY <2>0, <1>3, <1>6, <1>7, <1>14, TurnFacts
    <3>2. QED
      BY <3>1, <1>6, <1>7, <1>9
  <2>2. /\ {u, b, e} \subseteq (R \cup {Nil}) \ {p, g}
        /\ T2[o][g] = u /\ T2[s][g] = b /\ T2[o][p] = g /\ T2[s][p] = e
        /\ b # Nil => parent[b] = p /\ P2[b] = g
        /\ P2[g] = p /\ P2[p] = parent[g]
        /\ \A n \in R \ {p, g, b} : P2[n] = parent[n]
    BY <2>1, <1>7 DEF IsTurn
  <2>3. B2[u] = B[u] /\ B2[b] = B[b] /\ B2[e] = B[e]
    BY <2>2, <1>5, <1>12
  <2>4. ASSUME NEW n \in R
        PROVE  Even(T2, C2, B2, n)
    <3>1. CASE n = p
      <4>1. \A z \in Sides : B2[T2[z][p]] = B[p]
        BY <2>2, <2>3, <1>7, <1>12, <1>13
      <4>2. QED
        BY <3>1, <4>1, <1>10, <1>11, <1>12, <1>13 DEF Even, Weight, Sides
    <3>2. CASE n = g
      <4>1. \A z \in Sides : B2[T2[z][g]] = B[p]
        BY <2>2, <2>3, <1>7, <1>12, <1>13
      <4>2. QED
        BY <3>2, <4>1, <1>10, <1>11, <1>12, <1>13 DEF Even, Weight, Sides
    <3>3. CASE n \notin {p, g}
      <4>1. /\ B2[p] = B[g] /\ n \in R /\ n # g /\ n # p /\ Even(child, color, B, n)
            /\ C2[n] = color[n] /\ B2[n] = B[n]
        BY <3>3, <1>5, <1>6, <1>10, <1>12
      <4>2. \A m \in (R \cup {Nil}) \ {g, p} : m = Nil \/ parent[m] # p => B2[m] = B[m]
        BY <1>5, <1>12
      <4>3. R \in SUBSET Socks /\ Tree(child, parent, R) /\ o \in Sides
        BY <1>3, <1>7
      <4>4. QED
        BY <4>1, <4>2, <4>3, <2>1, TurnEven
    <3>4. QED
      BY <3>1, <3>2, <3>3
  <2>5. ASSUME NEW n \in R \ {e}, C2[n] = "red"
        PROVE  P2[n] # Nil /\ C2[P2[n]] = "black"
    <3>1. n # p
      BY <2>5, <1>10
    <3>2. CASE n = g
      BY <3>2, <2>2, <1>5, <1>6, <1>10
    <3>3. CASE n = b
      <4>1. color[n] = "red" /\ color[parent[n]] = "black"
        BY <3>3, <2>2, <2>5, <1>6, <1>10
      <4>2. QED
        BY <4>1, <3>3, <2>2, <1>5, <1>6
    <3>4. CASE n \notin {p, g, b}
      <4>1. /\ P2[n] = parent[n] /\ parent[n] # Nil /\ color[parent[n]] = "black"
            /\ color[n] = "red"
        BY <3>4, <2>2, <2>5, <1>6, <1>10
      <4>2. parent[n] \in R /\ \E z \in Sides : child[z][parent[n]] = n
        BY <4>1, <1>3 DEF Tree
      <4>3. parent[n] # g
        <5>1. u = n => FALSE
          BY <4>1, <1>1, <1>5 DEF Black
        <5>2. QED
          BY <5>1, <4>2, <3>4, <1>6, <1>7, <1>9
      <4>4. QED
        BY <4>1, <4>2, <4>3, <1>10
    <3>5. QED
      BY <3>1, <3>2, <3>3, <3>4
  <2>6. C2[e] = "red"
    BY <2>2, <1>6, <1>10
  <2>7. QED
    BY <2>4, <2>5, <2>6, <1>1, <1>3, <1>6, <1>12 DEF Colored, NoRedPair, AllEven
<1>15. color' = C2 /\ pc' = pc /\ par' = par /\ elm' = e
  BY <1>1 DEF C2, e
<1>16. \A T2 : Turns(child, parent, g, o, T2, parent')
          => Colored(T2, parent', color', R, B2, pc', elm', par')
  BY <1>14, <1>15 DEF P2
<1>17. child[Opp(o)][g] # Nil /\ Rotate(g, o)
  BY <1>1, <1>5, <1>6, <1>7, <1>8
<1>18. QED
  <2>1. {elm', par'} \subseteq Places
    BY <1>3, <1>5, <1>6, <1>15
  <2>2. g \in registered
    BY <1>6 DEF R
  <2>3. \A T2 : Turns(child, parent, g, o, T2, parent')
          => Colored(T2, parent', color', registered, B2, pc', elm', par')
    BY <1>16 DEF R
  <2>4. color' \in [Socks -> {"red", "black"}]
    BY <1>10, <1>15
  <2>5. QED
    BY <2>1, <2>2, <2>3, <2>4, <1>1, <1>2, <1>7, <1>17, RotateIInv

\* The height of a node is the one of each child, and 1 if it is black.
LEMMA EvenHeights ==
  ASSUME NEW T, NEW C, NEW B, NEW n, Even(T, C, B, n), NEW side \in Sides
  PROVE  B[T[side][n]] = B[T[Opp(side)][n]] /\ B[n] = B[T[side][n]] + Weight(C, n)
<1>1. CASE side = "left"
  BY <1>1 DEF Even, Opp
<1>2. CASE side = "right"
  BY <1>2 DEF Even, Opp
<1>3. QED
  BY <1>1, <1>2 DEF Sides

\* xy_rb_remove_color, red sibling: the rotation gives a black sibling.
LEMMA RemoveRedSiblingStep ==
  ASSUME IInv, RemoveRedSibling
  PROVE  IInv'
<1> USE TreeAssumption
<1> DEFINE R == registered
           e == elm
           p == par
           z == Sibling
           s == Side
           o == Opp(s)
           P2 == parent'
           C2 == color'
           near == child[s][z]
           far == child[o][z]
<1>1. /\ writes = <<>> /\ pc = "remove_color" /\ MissingBlack
      /\ ~Black(z)
      /\ C2 = [color EXCEPT ![z] = "black", ![p] = "red"]
      /\ Rotate(p, s)
      /\ Repairs
      /\ UNCHANGED <<pc, elm, par>>
  BY DEF RemoveRedSibling, MissingBlack, Reached
<1>2. PICK D, B : Shape(child, D, B)
  BY <1>1, AtRest
<1>3. /\ R \in SUBSET Socks /\ Tree(child, parent, R) /\ Sorted(child, D, R)
      /\ B \in [Places -> Nat] /\ B[Nil] = 0
      /\ color \in [Socks -> {"red", "black"}]
  BY <1>1, <1>2 DEF Shape, Colored, IInv, TypeOK
<1>4. IsMissing(child, parent, color, R, B, e, p, s, z)
  BY <1>1, <1>2, Missing
<1>5. R \subseteq Socks /\ Places = Socks \cup {Nil} /\ Nil \notin Socks
  BY <1>3 DEF Places
<1>6. /\ s \in Sides /\ p \in R /\ e \in R \cup {Nil} /\ e # p
      /\ z \in R /\ z # p /\ z # e
      /\ child[s][p] = e /\ child[o][p] = z
      /\ parent[z] = p /\ (e # Nil => parent[e] = p)
      /\ B[z] = B[e] + 1
      /\ B[p] = B[e] + 1 + Weight(color, p)
      /\ \A n \in R \ {p} : Even(child, color, B, n)
      /\ e # Nil => color[e] = "black"
      /\ \A n \in R \ {e} : color[n] = "red" => parent[n] # Nil /\ color[parent[n]] = "black"
  BY <1>4 DEF IsMissing
<1>7. /\ o \in Sides /\ o # s
      /\ \A i \in Sides : i = s \/ i = o
  BY <1>6, OppFacts
<1>8. child[s][z] = near /\ child[o][z] = far /\ o = Opp(s)
  OBVIOUS
<1> HIDE DEF R, e, p, z, s, o, P2, C2, near, far
<1>9. color[z] = "red" /\ color[p] = "black"
  BY <1>1, <1>3, <1>5, <1>6 DEF Black
<1>10. /\ C2 \in [Socks -> {"red", "black"}] /\ C2[z] = "black" /\ C2[p] = "red"
       /\ \A n \in R \ {z, p} : C2[n] = color[n]
  BY <1>1, <1>3, <1>5, <1>6
<1>11. PICK h \in Nat : h = B[e]
  BY <1>3, <1>5, <1>6
<1>12. /\ near \in R \cup {Nil} /\ far \in R \cup {Nil}
       /\ near # Nil => parent[near] = z
       /\ far # Nil => parent[far] = z
  BY <1>3, <1>6, <1>7, <1>8 DEF Tree
<1>13. B[z] = h + 1 /\ B[p] = h + 2 /\ B[near] = h + 1 /\ B[far] = h + 1
  <2>1. Even(child, color, B, z)
    BY <1>6
  <2>2. B[near] = B[far] /\ B[z] = B[near] + Weight(color, z)
    BY <2>1, <1>6, <1>8, EvenHeights
  <2>3. Weight(color, z) = 0 /\ Weight(color, p) = 1
    BY <1>9 DEF Weight
  <2>4. B[near] \in Nat
    BY <1>3, <1>5, <1>12
  <2>5. QED
    BY <2>2, <2>3, <2>4, <1>6, <1>11
<1> DEFINE B2 == [n \in Places |-> IF n = p THEN h + 1 ELSE IF n = z THEN h + 2 ELSE B[n]]
<1>14. /\ B2 \in [Places -> Nat] /\ B2[p] = h + 1 /\ B2[z] = h + 2 /\ B2[Nil] = 0
       /\ \A n \in Places \ {p, z} : B2[n] = B[n]
  <2>1. B2 \in [Places -> Nat]
    BY <1>3, <1>11
  <2>2. \A n \in Places : B2[n] = IF n = p THEN h + 1 ELSE IF n = z THEN h + 2 ELSE B[n]
    OBVIOUS
  <2>3. p \in Places /\ z \in Places /\ p # z /\ Nil \in Places /\ p # Nil /\ z # Nil
    BY <1>5, <1>6
  <2> HIDE DEF B2
  <2>4. QED
    BY <1>3, <2>1, <2>2, <2>3
<1> HIDE DEF B2
<1>15. ASSUME NEW T2, Turns(child, parent, p, s, T2, P2)
       PROVE  Colored(T2, P2, C2, R, B2, pc, e, p)
  <2>1. IsTurn(child, parent, R, p, s, T2, P2, z, e, near, far)
    <3>1. IsTurn(child, parent, R, p, s, T2, P2, z, child[s][p], child[s][z], child[Opp(s)][z])
      BY <1>3, <1>6, <1>8, <1>15, TurnFacts
    <3>2. QED
      BY <3>1, <1>6, <1>8
  <2>2. /\ {e, near, far} \subseteq (R \cup {Nil}) \ {p, z}
        /\ T2[s][p] = e /\ T2[o][p] = near /\ T2[s][z] = p /\ T2[o][z] = far
        /\ near # Nil => P2[near] = p
        /\ P2[p] = z /\ P2[z] = parent[p]
        /\ \A n \in R \ {p, z, near} : P2[n] = parent[n]
    BY <2>1, <1>8 DEF IsTurn
  <2>3. B2[e] = h /\ B2[near] = h + 1 /\ B2[far] = h + 1
    <3>1. {e, near, far} \subseteq Places \ {p, z}
      BY <2>2, <1>5
    <3>2. QED
      BY <3>1, <1>11, <1>13, <1>14
  <2>4. ASSUME NEW n \in R \ {p}
        PROVE  Even(T2, C2, B2, n)
    <3>1. CASE n = z
      <4>1. \A i \in Sides : B2[T2[i][z]] = h + 1
        BY <2>2, <2>3, <1>7, <1>14
      <4>2. QED
        BY <3>1, <4>1, <1>10, <1>14 DEF Even, Weight, Sides
    <3>2. CASE n # z
      <4>1. /\ B2[z] = B[p] /\ n \in R /\ n # p /\ n # z /\ Even(child, color, B, n)
            /\ C2[n] = color[n] /\ B2[n] = B[n]
        BY <3>2, <2>4, <1>5, <1>6, <1>10, <1>13, <1>14
      <4>2. \A m \in (R \cup {Nil}) \ {p, z} : m = Nil \/ parent[m] # z => B2[m] = B[m]
        BY <1>5, <1>14
      <4>3. R \in SUBSET Socks /\ Tree(child, parent, R) /\ s \in Sides
        BY <1>3, <1>6
      <4>4. QED
        BY <4>1, <4>2, <4>3, <2>1, TurnEven
    <3>3. QED
      BY <3>1, <3>2
  <2>5. Lacks(T2, C2, B2, p, e)
    <3>1. T2[s][p] = e /\ B2[T2[Opp(s)][p]] = B2[e] + 1
      BY <2>2, <2>3, <1>8
    <3>2. B2[p] = B2[e] + 1 + Weight(C2, p)
      BY <2>3, <1>10, <1>14 DEF Weight
    <3>3. QED
      BY <3>1, <3>2, <1>6 DEF Lacks
  <2>6. ASSUME NEW n \in R \ {e}, C2[n] = "red"
        PROVE  P2[n] # Nil /\ C2[P2[n]] = "black"
    <3>1. n # z
      BY <2>6, <1>10
    <3>2. CASE n = p
      BY <3>2, <2>2, <1>5, <1>6, <1>10
    <3>3. CASE n = near
      <4>1. color[n] = "red" /\ color[parent[n]] = "black" /\ parent[n] = z
        BY <3>3, <2>2, <2>6, <1>5, <1>6, <1>10, <1>12
      <4>2. QED
        BY <4>1, <1>9
    <3>4. CASE n \notin {p, z, near}
      <4>1. /\ P2[n] = parent[n] /\ parent[n] # Nil /\ color[parent[n]] = "black"
        BY <3>4, <2>2, <2>6, <1>6, <1>10
      <4>2. parent[n] \in R /\ \E i \in Sides : child[i][parent[n]] = n
        BY <4>1, <1>3 DEF Tree
      <4>3. parent[n] # p
        BY <4>2, <3>4, <2>6, <1>6, <1>7
      <4>4. QED
        BY <4>1, <4>2, <4>3, <1>9, <1>10
    <3>5. QED
      BY <3>1, <3>2, <3>3, <3>4
  <2>7. AllEven(T2, C2, B2, R \ {p})
    BY <2>4 DEF AllEven
  <2>8. QED
    BY <2>5, <2>6, <2>7, <1>1, <1>6, <1>14 DEF Colored
<1>16. color' = C2 /\ pc' = pc /\ par' = p /\ elm' = e
  BY <1>1 DEF C2, e, p
<1>17. \A T2 : Turns(child, parent, p, s, T2, parent')
          => Colored(T2, parent', color', R, B2, pc', elm', par')
  BY <1>15, <1>16 DEF P2
<1>18. child[Opp(s)][p] # Nil
  BY <1>5, <1>6, <1>8
<1>19. QED
  <2>1. {elm', par'} \subseteq Places
    BY <1>3, <1>5, <1>6, <1>16
  <2>2. p \in registered
    BY <1>6 DEF R
  <2>3. \A T2 : Turns(child, parent, p, s, T2, parent')
          => Colored(T2, parent', color', registered, B2, pc', elm', par')
    BY <1>17 DEF R
  <2>4. color' \in [Socks -> {"red", "black"}]
    BY <1>10, <1>16
  <2>5. QED
    BY <2>1, <2>2, <2>3, <2>4, <1>1, <1>2, <1>6, <1>18, RotateIInv

\* xy_rb_remove_color, only the near child of the sibling is red: the rotation of the
\* sibling makes it the far one.
LEMMA RemoveNearStep ==
  ASSUME IInv, RemoveNear
  PROVE  IInv'
<1> USE TreeAssumption
<1> DEFINE R == registered
           e == elm
           p == par
           z == Sibling
           s == Side
           o == Opp(s)
           P2 == parent'
           C2 == color'
           near == child[s][z]
           far == child[o][z]
           b == child[o][near]
           c == child[s][near]
<1>1. /\ writes = <<>> /\ pc = "remove_color" /\ MissingBlack
      /\ Black(z) /\ ~Black(near) /\ Black(far)
      /\ C2 = [color EXCEPT ![near] = "black", ![z] = "red"]
      /\ Rotate(z, o)
      /\ Repairs
      /\ UNCHANGED <<pc, elm, par>>
  BY DEF RemoveNear, MissingBlack, Reached, Near, Far
<1>2. PICK D, B : Shape(child, D, B)
  BY <1>1, AtRest
<1>3. /\ R \in SUBSET Socks /\ Tree(child, parent, R) /\ Sorted(child, D, R)
      /\ B \in [Places -> Nat] /\ B[Nil] = 0
      /\ color \in [Socks -> {"red", "black"}]
  BY <1>1, <1>2 DEF Shape, Colored, IInv, TypeOK
<1>4. IsMissing(child, parent, color, R, B, e, p, s, z)
  BY <1>1, <1>2, Missing
<1>5. R \subseteq Socks /\ Places = Socks \cup {Nil} /\ Nil \notin Socks
  BY <1>3 DEF Places
<1>6. /\ s \in Sides /\ p \in R /\ e \in R \cup {Nil} /\ e # p
      /\ z \in R /\ z # p /\ z # e
      /\ child[s][p] = e /\ child[o][p] = z
      /\ parent[z] = p /\ (e # Nil => parent[e] = p)
      /\ B[z] = B[e] + 1
      /\ B[p] = B[e] + 1 + Weight(color, p)
      /\ \A n \in R \ {p} : Even(child, color, B, n)
      /\ e # Nil => color[e] = "black"
      /\ \A n \in R \ {e} : color[n] = "red" => parent[n] # Nil /\ color[parent[n]] = "black"
  BY <1>4 DEF IsMissing
<1>7. /\ o \in Sides /\ o # s
      /\ \A i \in Sides : i = s \/ i = o
  BY <1>6, OppFacts
<1>8. /\ child[s][z] = near /\ child[o][z] = far /\ o = Opp(s) /\ s = Opp(o)
      /\ child[o][near] = b /\ child[s][near] = c
  BY <1>6, OppFacts
<1> HIDE DEF R, e, p, z, s, o, P2, C2, near, far, b, c
<1>9. /\ near \in R /\ far \in R \cup {Nil}
      /\ parent[near] = z
      /\ far # Nil => parent[far] = z
      /\ near # z
  <2>1. near # Nil
    BY <1>1 DEF Black
  <2>2. near # z
    BY <2>1, <1>3, <1>5, <1>6, <1>8 DEF Tree
  <2>3. QED
    BY <2>1, <2>2, <1>3, <1>6, <1>7, <1>8 DEF Tree
<1>10. /\ color[z] = "black" /\ color[near] = "red"
       /\ far # Nil => color[far] = "black"
  BY <1>1, <1>3, <1>5, <1>6, <1>9 DEF Black
<1>11. /\ C2 \in [Socks -> {"red", "black"}] /\ C2[near] = "black" /\ C2[z] = "red"
       /\ \A n \in R \ {z, near} : C2[n] = color[n]
  BY <1>1, <1>3, <1>5, <1>6, <1>9
<1>12. PICK h \in Nat : h = B[e]
  BY <1>3, <1>5, <1>6
<1>13. /\ B[z] = h + 1 /\ B[near] = h /\ B[far] = h /\ B[b] = h /\ B[c] = h
       /\ b \in R \cup {Nil} /\ (b # Nil => parent[b] = near) /\ near # p
  <2>1. b \in R \cup {Nil} /\ (b # Nil => parent[b] = near)
    BY <1>3, <1>7, <1>8, <1>9 DEF Tree
  <2>2. near # p
    <3>1. \A i \in Sides : p \notin D[child[i][p]]
      BY <1>3, <1>6, BelowItems
    <3>2. near \in D[near] /\ D[near] \subseteq D[z]
      <4>1. near \in D[near]
        BY <1>3, <1>9, BelowItems
      <4>2. \A i \in Sides : D[child[i][z]] \subseteq D[z]
        BY <1>3, <1>6, BelowItems
      <4>3. QED
        BY <4>1, <4>2, <1>6, <1>8
    <3>3. QED
      BY <3>1, <3>2, <1>6, <1>7
  <2>3. Even(child, color, B, z) /\ Even(child, color, B, near)
    BY <2>2, <1>6, <1>9
  <2>4. /\ B[near] = B[far] /\ B[z] = B[near] + Weight(color, z)
        /\ B[b] = B[c] /\ B[near] = B[b] + Weight(color, near)
    <3>1. B[near] = B[far] /\ B[z] = B[near] + Weight(color, z)
      BY <2>3, <1>6, <1>8, EvenHeights
    <3>2. B[b] = B[c] /\ B[near] = B[b] + Weight(color, near)
      BY <2>3, <1>7, <1>8, EvenHeights
    <3>3. QED
      BY <3>1, <3>2
  <2>5. Weight(color, z) = 1 /\ Weight(color, near) = 0
    BY <1>10 DEF Weight
  <2>6. B[near] \in Nat /\ B[b] \in Nat
    BY <2>1, <1>3, <1>5, <1>9
  <2>7. QED
    BY <2>1, <2>2, <2>4, <2>5, <2>6, <1>6, <1>12
<1> DEFINE B2 == [n \in Places |-> IF n = near THEN h + 1 ELSE IF n = z THEN h ELSE B[n]]
<1>14. /\ B2 \in [Places -> Nat] /\ B2[z] = h /\ B2[near] = h + 1 /\ B2[Nil] = 0
       /\ \A n \in Places \ {near, z} : B2[n] = B[n]
  <2>1. B2 \in [Places -> Nat]
    BY <1>3, <1>12
  <2>2. \A n \in Places : B2[n] = IF n = near THEN h + 1 ELSE IF n = z THEN h ELSE B[n]
    OBVIOUS
  <2>3. near \in Places /\ z \in Places /\ near # z /\ Nil \in Places /\ near # Nil /\ z # Nil
    BY <1>5, <1>6, <1>9
  <2> HIDE DEF B2
  <2>4. QED
    BY <1>3, <2>1, <2>2, <2>3
<1> HIDE DEF B2
<1>15. ASSUME NEW T2, Turns(child, parent, z, o, T2, P2)
       PROVE  Colored(T2, P2, C2, R, B2, pc, e, p)
  <2>1. IsTurn(child, parent, R, z, o, T2, P2, near, far, b, c)
    <3>1. IsTurn(child, parent, R, z, o, T2, P2, near, child[o][z], child[o][near],
                 child[Opp(o)][near])
      BY <1>3, <1>6, <1>7, <1>8, <1>9, <1>15, TurnFacts
    <3>2. QED
      BY <3>1, <1>8
  <2>2. /\ {far, b, c, p} \subseteq (R \cup {Nil}) \ {z, near}
        /\ T2[o][z] = far /\ T2[s][z] = b /\ T2[o][near] = z /\ T2[s][near] = c
        /\ b # Nil => P2[b] = z
        /\ P2[z] = near /\ P2[near] = p
        /\ \A n \in R \ {z, near, b} : P2[n] = parent[n]
        /\ \A n \in (R \cup {Nil}) \ {z, near}, i \in Sides :
              \/ T2[i][n] = near /\ child[i][n] = z
              \/ T2[i][n] = child[i][n] /\ child[i][n] \in (R \cup {Nil}) \ {z, near}
    BY <2>1, <1>6, <1>8 DEF IsTurn
  <2>3. T2[s][p] = e /\ T2[o][p] = near /\ e # near
    BY <2>2, <1>6, <1>7, <1>13
  <2>4. B2[e] = h /\ B2[far] = h /\ B2[b] = h /\ B2[c] = h /\ B2[p] = B[p]
    <3>1. e \in Places /\ e # z /\ e # near
      BY <2>3, <1>5, <1>6
    <3>2. {far, b, c, p} \subseteq Places \ {z, near}
      BY <2>2, <1>5
    <3>3. QED
      BY <3>1, <3>2, <1>6, <1>12, <1>13, <1>14
  <2>5. ASSUME NEW n \in R \ {p}
        PROVE  Even(T2, C2, B2, n)
    <3>1. CASE n = z
      <4>1. \A i \in Sides : B2[T2[i][z]] = h
        BY <2>2, <2>4, <1>7
      <4>2. QED
        BY <3>1, <4>1, <1>11, <1>14 DEF Even, Weight, Sides
    <3>2. CASE n = near
      <4>1. \A i \in Sides : B2[T2[i][near]] = h
        BY <2>2, <2>4, <1>7, <1>14
      <4>2. QED
        BY <3>2, <4>1, <1>11, <1>14 DEF Even, Weight, Sides
    <3>3. CASE n \notin {z, near}
      <4>1. /\ B2[near] = B[z] /\ n \in R /\ n # z /\ n # near /\ Even(child, color, B, n)
            /\ C2[n] = color[n] /\ B2[n] = B[n]
        BY <3>3, <2>5, <1>5, <1>6, <1>11, <1>13, <1>14
      <4>2. \A m \in (R \cup {Nil}) \ {z, near} : m = Nil \/ parent[m] # near => B2[m] = B[m]
        BY <1>5, <1>14
      <4>3. R \in SUBSET Socks /\ Tree(child, parent, R) /\ o \in Sides
        BY <1>3, <1>7
      <4>4. QED
        BY <4>1, <4>2, <4>3, <2>1, TurnEven
    <3>4. QED
      BY <3>1, <3>2, <3>3
  <2>6. Lacks(T2, C2, B2, p, e)
    <3>1. T2[s][p] = e /\ B2[T2[Opp(s)][p]] = B2[e] + 1
      BY <2>3, <2>4, <1>8, <1>14
    <3>2. B2[p] = B2[e] + 1 + Weight(C2, p)
      BY <2>4, <1>6, <1>11, <1>12, <1>13 DEF Weight
    <3>3. QED
      BY <3>1, <3>2, <1>6 DEF Lacks
  <2>7. ASSUME NEW n \in R \ {e}, C2[n] = "red"
        PROVE  P2[n] # Nil /\ C2[P2[n]] = "black"
    <3>1. n # near
      BY <2>7, <1>11
    <3>2. CASE n = z
      BY <3>2, <2>2, <1>5, <1>9, <1>11
    <3>3. CASE n = b
      <4>1. color[n] = "red" /\ color[parent[n]] = "black" /\ parent[n] = near
        BY <3>3, <2>2, <2>7, <1>5, <1>6, <1>11, <1>13
      <4>2. QED
        BY <4>1, <1>10
    <3>4. CASE n \notin {z, near, b}
      <4>1. /\ P2[n] = parent[n] /\ parent[n] # Nil /\ color[parent[n]] = "black"
            /\ color[n] = "red"
        BY <3>4, <2>2, <2>7, <1>6, <1>11
      <4>2. parent[n] \in R /\ \E i \in Sides : child[i][parent[n]] = n
        BY <4>1, <1>3 DEF Tree
      <4>3. parent[n] # z
        BY <4>1, <4>2, <3>4, <1>5, <1>7, <1>8, <1>10
      <4>4. QED
        BY <4>1, <4>2, <4>3, <1>11
    <3>5. QED
      BY <3>1, <3>2, <3>3, <3>4
  <2>8. AllEven(T2, C2, B2, R \ {p})
    BY <2>5 DEF AllEven
  <2>9. QED
    BY <2>6, <2>7, <2>8, <1>1, <1>6, <1>14 DEF Colored
<1>16. color' = C2 /\ pc' = pc /\ par' = p /\ elm' = e
  BY <1>1 DEF C2, e, p
<1>17. \A T2 : Turns(child, parent, z, o, T2, parent')
          => Colored(T2, parent', color', R, B2, pc', elm', par')
  BY <1>15, <1>16 DEF P2
<1>18. child[Opp(o)][z] # Nil
  BY <1>5, <1>8, <1>9
<1>19. QED
  <2>1. {elm', par'} \subseteq Places
    BY <1>3, <1>5, <1>6, <1>16
  <2>2. z \in registered
    BY <1>6 DEF R
  <2>3. \A T2 : Turns(child, parent, z, o, T2, parent')
          => Colored(T2, parent', color', registered, B2, pc', elm', par')
    BY <1>17 DEF R
  <2>4. color' \in [Socks -> {"red", "black"}]
    BY <1>11, <1>16
  <2>5. QED
    BY <2>1, <2>2, <2>3, <2>4, <1>1, <1>2, <1>7, <1>18, RotateIInv

\* xy_rb_remove_color, the far child of the sibling is red: the rotation of the parent
\* makes up for the missing black item and ends the repair.
LEMMA RemoveFarStep ==
  ASSUME IInv, RemoveFar
  PROVE  IInv'
<1> USE TreeAssumption
<1> DEFINE R == registered
           e == elm
           p == par
           z == Sibling
           s == Side
           o == Opp(s)
           r == IF parent[p] = Nil THEN z ELSE child["left"][Nil]
           P2 == parent'
           C2 == color'
           near == child[s][z]
           far == child[o][z]
<1>1. /\ writes = <<>> /\ pc = "remove_color" /\ MissingBlack
      /\ Black(z) /\ ~Black(far)
      /\ C2 = [color EXCEPT ![z] = color[p], ![p] = "black", ![far] = "black"]
      /\ Rotate(p, s)
      /\ elm' = r
      /\ Repairs
      /\ UNCHANGED <<pc, par>>
  BY DEF RemoveFar, MissingBlack, Reached, Far, Root
<1>2. PICK D, B : Shape(child, D, B)
  BY <1>1, AtRest
<1>3. /\ R \in SUBSET Socks /\ Tree(child, parent, R) /\ Sorted(child, D, R)
      /\ B \in [Places -> Nat] /\ B[Nil] = 0
      /\ color \in [Socks -> {"red", "black"}]
  BY <1>1, <1>2 DEF Shape, Colored, IInv, TypeOK
<1>4. IsMissing(child, parent, color, R, B, e, p, s, z)
  BY <1>1, <1>2, Missing
<1>5. R \subseteq Socks /\ Places = Socks \cup {Nil} /\ Nil \notin Socks
  BY <1>3 DEF Places
<1>6. /\ s \in Sides /\ p \in R /\ e \in R \cup {Nil} /\ e # p
      /\ z \in R /\ z # p /\ z # e
      /\ child[s][p] = e /\ child[o][p] = z
      /\ parent[z] = p /\ (e # Nil => parent[e] = p)
      /\ B[z] = B[e] + 1
      /\ B[p] = B[e] + 1 + Weight(color, p)
      /\ \A n \in R \ {p} : Even(child, color, B, n)
      /\ e # Nil => color[e] = "black"
      /\ \A n \in R \ {e} : color[n] = "red" => parent[n] # Nil /\ color[parent[n]] = "black"
  BY <1>4 DEF IsMissing
<1>7. /\ o \in Sides /\ o # s
      /\ \A i \in Sides : i = s \/ i = o
  BY <1>6, OppFacts
<1>8. child[s][z] = near /\ child[o][z] = far /\ o = Opp(s)
  OBVIOUS
<1>9. r = IF parent[p] = Nil THEN z ELSE child["left"][Nil]
  OBVIOUS
<1> HIDE DEF R, e, p, z, s, o, r, P2, C2, near, far
<1>10. /\ far \in R /\ near \in R \cup {Nil}
       /\ parent[far] = z
       /\ near # Nil => parent[near] = z
       /\ far # z /\ far # p
  <2>1. far # Nil
    BY <1>1 DEF Black
  <2>2. /\ far \in R /\ near \in R \cup {Nil}
        /\ parent[far] = z
        /\ near # Nil => parent[near] = z
    BY <2>1, <1>3, <1>6, <1>7, <1>8 DEF Tree
  <2>3. far # z
    BY <2>2, <1>6
  <2>4. far # p
    <3>1. \A i \in Sides : p \notin D[child[i][p]]
      BY <1>3, <1>6, BelowItems
    <3>2. far \in D[far]
      BY <2>2, <1>3, BelowItems
    <3>3. \A i \in Sides : D[child[i][z]] \subseteq D[z]
      BY <1>3, <1>6, BelowItems
    <3>4. QED
      BY <3>1, <3>2, <3>3, <1>6, <1>7, <1>8
  <2>5. QED
    BY <2>2, <2>3, <2>4
<1>11. color[z] = "black" /\ color[far] = "red" /\ color[p] \in {"red", "black"}
  BY <1>1, <1>3, <1>5, <1>6, <1>10 DEF Black
<1>12. /\ C2 \in [Socks -> {"red", "black"}]
       /\ C2[z] = color[p] /\ C2[p] = "black" /\ C2[far] = "black"
       /\ \A n \in R \ {z, p, far} : C2[n] = color[n]
  BY <1>1, <1>3, <1>5, <1>6, <1>10, <1>11
<1>13. PICK h \in Nat : h = B[e]
  BY <1>3, <1>5, <1>6
<1>14. /\ B[z] = h + 1 /\ B[near] = h /\ B[far] = h /\ B[p] = h + 1 + Weight(color, p)
       /\ Weight(color, p) \in Nat
  <2>1. Even(child, color, B, z)
    BY <1>6
  <2>2. B[near] = B[far] /\ B[z] = B[near] + Weight(color, z)
    BY <2>1, <1>6, <1>8, EvenHeights
  <2>3. Weight(color, z) = 1 /\ Weight(color, p) \in Nat
    BY <1>11 DEF Weight
  <2>4. B[near] \in Nat
    BY <1>3, <1>5, <1>10
  <2>5. QED
    BY <2>2, <2>3, <2>4, <1>6, <1>13
<1>15. PICK v \in Nat : v = h + 1 + Weight(color, p)
  BY <1>14
<1> DEFINE B2 == [n \in Places |-> IF n = z THEN v ELSE IF n \in {p, far} THEN h + 1 ELSE B[n]]
<1>16. /\ B2 \in [Places -> Nat] /\ B2[p] = h + 1 /\ B2[far] = h + 1 /\ B2[z] = v
       /\ B2[Nil] = 0
       /\ \A n \in Places \ {p, far, z} : B2[n] = B[n]
  <2>1. B2 \in [Places -> Nat]
    BY <1>3, <1>13, <1>15
  <2>2. \A n \in Places : B2[n] = IF n = z THEN v ELSE IF n \in {p, far} THEN h + 1 ELSE B[n]
    OBVIOUS
  <2>3. {p, far, z} \subseteq Places \ {Nil} /\ p # z /\ far # z /\ Nil \in Places
    BY <1>5, <1>6, <1>10
  <2> HIDE DEF B2
  <2>4. QED
    BY <1>3, <2>1, <2>2, <2>3
<1> HIDE DEF B2
<1>17. ASSUME NEW T2, Turns(child, parent, p, s, T2, P2)
       PROVE  Colored(T2, P2, C2, R, B2, pc, r, p)
  <2>1. IsTurn(child, parent, R, p, s, T2, P2, z, e, near, far)
    <3>1. IsTurn(child, parent, R, p, s, T2, P2, z, child[s][p], child[s][z], child[Opp(s)][z])
      BY <1>3, <1>6, <1>8, <1>17, TurnFacts
    <3>2. QED
      BY <3>1, <1>6, <1>8
  <2>2. /\ {e, near, far, parent[p]} \subseteq (R \cup {Nil}) \ {p, z}
        /\ T2[s][p] = e /\ T2[o][p] = near /\ T2[s][z] = p /\ T2[o][z] = far
        /\ near # Nil => P2[near] = p
        /\ P2[p] = z /\ P2[z] = parent[p]
        /\ \A n \in R \ {p, z, near} : P2[n] = parent[n]
        /\ \A n \in (R \cup {Nil}) \ {p, z}, i \in Sides :
              \/ T2[i][n] = z /\ child[i][n] = p
              \/ T2[i][n] = child[i][n] /\ child[i][n] \in (R \cup {Nil}) \ {p, z}
    BY <2>1, <1>8 DEF IsTurn
  <2>3. e # far /\ near # far
    <3>1. e # far
      BY <1>5, <1>6, <1>10
    <3>2. near # far
      <4>1. \A n \in R \cup {Nil} : \A s1, s2 \in Sides :
               child[s1][n] # Nil /\ child[s1][n] = child[s2][n] => s1 = s2
        BY <1>3, OneSide
      <4>2. QED
        BY <4>1, <1>5, <1>6, <1>7, <1>8, <1>10
    <3>3. QED
      BY <3>1, <3>2
  <2>4. B2[e] = h /\ B2[near] = h
    <3>1. e \in Places \ {p, far, z} /\ near \in Places \ {p, far, z}
      BY <2>2, <2>3, <1>5
    <3>2. QED
      BY <3>1, <1>13, <1>14, <1>16
  <2>5. ASSUME NEW n \in R
        PROVE  Even(T2, C2, B2, n)
    <3>1. CASE n = z
      <4>1. \A i \in Sides : B2[T2[i][z]] = h + 1
        BY <2>2, <1>7, <1>16
      <4>2. Weight(C2, z) = Weight(color, p)
        BY <1>12 DEF Weight
      <4>3. QED
        BY <3>1, <4>1, <4>2, <1>15, <1>16 DEF Even, Sides
    <3>2. CASE n = p
      <4>1. \A i \in Sides : B2[T2[i][p]] = h
        BY <2>2, <2>4, <1>7
      <4>2. QED
        BY <3>2, <4>1, <1>12, <1>16 DEF Even, Weight, Sides
    <3>3. CASE n = far
      <4>1. Even(child, color, B, far) /\ Weight(color, far) = 0 /\ Weight(C2, far) = 1
        BY <1>6, <1>10, <1>11, <1>12 DEF Weight
      <4>2. \A i \in Sides : child[i][far] \in R \cup {Nil}
        BY <1>3, <1>10 DEF Tree
      <4>3. B[child["left"][far]] = h /\ B[child["right"][far]] = h
        <5>1. B[child["left"][far]] \in Nat
          BY <4>2, <1>3, <1>5 DEF Sides
        <5>2. QED
          BY <4>1, <5>1, <1>14 DEF Even
      <4>4. \A i \in Sides : B2[T2[i][far]] = h
        <5>1. ASSUME NEW i \in Sides
              PROVE  T2[i][far] = child[i][far] /\ child[i][far] \in Places \ {p, z, far}
          <6>1. child[i][far] # p /\ child[i][far] # far
            <7>1. child[i][far] # Nil => parent[child[i][far]] = far
              BY <1>3, <1>10 DEF Tree
            <7>2. p # Nil /\ far # Nil /\ parent[p] # far
              <8>1. far \in D[far] /\ far \in D[p] /\ D[z] \subseteq D[p]
                <9>1. \A i2 \in Sides : D[child[i2][p]] \subseteq D[p]
                  BY <1>3, <1>6, BelowItems
                <9>2. \A i2 \in Sides : D[child[i2][z]] \subseteq D[z]
                  BY <1>3, <1>6, BelowItems
                <9>3. far \in D[far]
                  BY <1>3, <1>10, BelowItems
                <9>4. QED
                  BY <9>1, <9>2, <9>3, <1>6, <1>7, <1>8
              <8>2. \A i2 \in Sides : far \notin D[child[i2][far]]
                BY <1>3, <1>10, BelowItems
              <8>3. parent[p] = far => \E i2 \in Sides : child[i2][far] = p
                BY <1>3, <1>6 DEF Tree
              <8>4. QED
                BY <8>1, <8>2, <8>3, <1>5, <1>6, <1>10
            <7>3. parent[far] = z /\ far # z
              BY <1>10
            <7>4. QED
              BY <7>1, <7>2, <7>3
          <6>2. far \in (R \cup {Nil}) \ {p, z}
            BY <2>2
          <6>3. \/ T2[i][far] = z /\ child[i][far] = p
                \/ T2[i][far] = child[i][far] /\ child[i][far] \in (R \cup {Nil}) \ {p, z}
            BY <6>2, <2>2
          <6>4. QED
            BY <6>1, <6>3, <1>5
        <5>2. QED
          BY <4>3, <5>1, <1>16 DEF Sides
      <4>5. QED
        BY <3>3, <4>1, <4>4, <1>16 DEF Even, Sides
    <3>4. CASE n \notin {p, z, far}
      <4>1. /\ B2[z] = B[p] /\ n \in R /\ n # p /\ n # z /\ Even(child, color, B, n)
            /\ C2[n] = color[n] /\ B2[n] = B[n]
        BY <3>4, <2>5, <1>5, <1>6, <1>12, <1>14, <1>15, <1>16
      <4>2. \A m \in (R \cup {Nil}) \ {p, z} : m = Nil \/ parent[m] # z => B2[m] = B[m]
        BY <1>5, <1>10, <1>16
      <4>3. R \in SUBSET Socks /\ Tree(child, parent, R) /\ s \in Sides
        BY <1>3, <1>6
      <4>4. QED
        BY <4>1, <4>2, <4>3, <2>1, TurnEven
    <3>5. QED
      BY <3>1, <3>2, <3>3, <3>4
  <2>6. r = T2["left"][Nil] /\ r \in R
    <3>1. /\ "left" \in Sides /\ Nil \in (R \cup {Nil}) \ {p, z}
          /\ child["right"][Nil] = Nil
          /\ child["left"][Nil] # Nil => parent[child["left"][Nil]] = Nil
      <4>1. "left" \in Sides /\ Nil \in (R \cup {Nil}) \ {p, z}
        BY <1>5, <1>6 DEF Sides
      <4>2. QED
        BY <4>1, <1>3 DEF Tree
    <3>2. CASE parent[p] = Nil
      <4>1. \E i \in Sides : child[i][Nil] = p
        BY <3>2, <1>3, <1>6 DEF Tree
      <4>2. child["left"][Nil] = p
        BY <4>1, <3>1, <1>5, <1>6 DEF Sides
      <4>3. QED
        BY <3>1, <3>2, <4>2, <2>2, <1>6, <1>9
    <3>3. CASE parent[p] # Nil
      <4>1. child["left"][Nil] # p
        BY <3>1, <3>3, <1>5, <1>6
      <4>2. T2["left"][Nil] = child["left"][Nil]
        BY <3>1, <4>1, <2>2
      <4>3. child["left"][Nil] \in R
        BY <1>3, <1>6, RootTop
      <4>4. QED
        BY <3>3, <4>2, <4>3, <1>9
    <3>4. QED
      BY <3>2, <3>3
  <2>7. ASSUME NEW n \in R, C2[n] = "red"
        PROVE  P2[n] # Nil /\ C2[P2[n]] = "black"
    <3>1. n # p /\ n # far
      BY <2>7, <1>12
    <3>2. CASE n = z
      <4>1. color[p] = "red" /\ p # e
        BY <3>2, <2>7, <1>6, <1>12
      <4>2. parent[p] # Nil /\ color[parent[p]] = "black"
        BY <4>1, <1>6
      <4>3. parent[p] \in R \ {p, z, far}
        BY <4>2, <2>2, <1>11
      <4>4. QED
        BY <3>2, <4>2, <4>3, <2>2, <1>12
    <3>3. CASE n = near
      BY <3>3, <2>2, <1>5, <1>6, <1>12
    <3>4. CASE n \notin {p, z, near, far}
      <4>1. color[n] = "red" /\ n # e
        BY <3>4, <2>7, <1>5, <1>6, <1>12
      <4>2. /\ P2[n] = parent[n] /\ parent[n] # Nil /\ color[parent[n]] = "black"
        BY <3>4, <4>1, <2>2, <1>6
      <4>3. parent[n] \in R /\ \E i \in Sides : child[i][parent[n]] = n
        BY <4>2, <1>3 DEF Tree
      <4>4. parent[n] # z
        BY <3>4, <4>3, <1>7, <1>8
      <4>5. QED
        BY <4>2, <4>3, <4>4, <1>12
    <3>5. QED
      BY <3>1, <3>2, <3>3, <3>4
  <2>8. AllEven(T2, C2, B2, R)
    BY <2>5 DEF AllEven
  <2>9. QED
    BY <2>6, <2>7, <2>8, <1>1, <1>16 DEF Colored
<1>18. color' = C2 /\ pc' = pc /\ par' = p /\ elm' = r
  BY <1>1 DEF C2, p
<1>19. \A T2 : Turns(child, parent, p, s, T2, parent')
          => Colored(T2, parent', color', R, B2, pc', elm', par')
  BY <1>17, <1>18 DEF P2
<1>20. child[Opp(s)][p] # Nil
  BY <1>5, <1>6, <1>8
<1>21. QED
  <2>1. {elm', par'} \subseteq Places
    <3>1. child["left"][Nil] \in R
      BY <1>3, <1>6, RootTop
    <3>2. QED
      BY <3>1, <1>5, <1>6, <1>9, <1>18
  <2>2. p \in registered
    BY <1>6 DEF R
  <2>3. \A T2 : Turns(child, parent, p, s, T2, parent')
          => Colored(T2, parent', color', registered, B2, pc', elm', par')
    BY <1>19 DEF R
  <2>4. color' \in [Socks -> {"red", "black"}]
    BY <1>12, <1>18
  <2>5. QED
    BY <2>1, <2>2, <2>3, <2>4, <1>1, <1>2, <1>6, <1>20, RotateIInv

(***************************************************************************)
(* The ways that the search and the look for the next larger item take.    *)
(***************************************************************************)

\* Steps up to N that begin in S and stay there.
LEMMA UpTo ==
  ASSUME NEW N \in Nat, NEW S, 0 \in S, \A i \in Nat : i < N /\ i \in S => i + 1 \in S
  PROVE  \A i \in 0 .. N : i \in S
<1> DEFINE Q == {i \in 0 .. N : i \notin S}
<1>1. SUFFICES ASSUME Q # {}
               PROVE  FALSE
  OBVIOUS
<1>2. PICK k \in Q : \A j \in Q : k <= j
  <2>1. Q \in SUBSET Nat
    OBVIOUS
  <2> HIDE DEF Q
  <2>2. QED
    BY <1>1, <2>1, Least
<1>3. k # 0 /\ k - 1 \in Nat /\ k - 1 < N /\ (k - 1) + 1 = k
  BY <1>2
<1>4. k - 1 \notin S
  BY <1>3, <1>2
<1>5. QED
  BY <1>2, <1>3, <1>4

\* w goes from n along G until G is Nil, in at most N steps.
IsWalk(w, N, n, G) ==
    /\ w \in [0 .. N -> Places]
    /\ w[0] = n
    /\ \A i \in 1 .. N : w[i] = IF G[w[i-1]] = Nil THEN w[i-1] ELSE G[w[i-1]]

\* From every place that has a way down, there is a walk of each length.
LEMMA WalkExists ==
  ASSUME NEW N \in Nat, NEW G \in [Places -> Places], NEW n \in Places
  PROVE  \E w : IsWalk(w, N, n, G)
<1> DEFINE S == {k \in Nat : \E w : IsWalk(w, k, n, G)}
<1>1. 0 \in S
  <2>1. IsWalk([i \in 0 .. 0 |-> n], 0, n, G)
    BY DEF IsWalk
  <2>2. QED
    BY <2>1
<1>2. ASSUME NEW k \in Nat, k \in S
      PROVE  k + 1 \in S
  <2>1. PICK w : IsWalk(w, k, n, G)
    BY <1>2
  <2>2. w[k] \in Places
    BY <2>1 DEF IsWalk
  <2> DEFINE m == IF G[w[k]] = Nil THEN w[k] ELSE G[w[k]]
             v == [i \in 0 .. (k+1) |-> IF i = k + 1 THEN m ELSE w[i]]
  <2>3. m \in Places
    BY <2>2
  <2> HIDE DEF m
  <2>4. v \in [0 .. (k+1) -> Places] /\ v[k+1] = m /\ \A i \in 0 .. k : v[i] = w[i]
    BY <2>1, <2>3 DEF IsWalk
  <2> HIDE DEF v
  <2>5. ASSUME NEW i \in 1 .. (k+1)
        PROVE  v[i] = IF G[v[i-1]] = Nil THEN v[i-1] ELSE G[v[i-1]]
    <3>1. CASE i = k + 1
      <4>1. v[i-1] = w[k] /\ v[i] = m
        BY <3>1, <2>4
      <4>2. QED
        BY <4>1 DEF m
    <3>2. CASE i # k + 1
      <4>1. i \in 1 .. k /\ i - 1 \in 0 .. k /\ i \in 0 .. k
        BY <3>2
      <4>2. v[i] = w[i] /\ v[i-1] = w[i-1]
        BY <4>1, <2>4
      <4>3. QED
        BY <4>1, <4>2, <2>1 DEF IsWalk
    <3>3. QED
      BY <3>1, <3>2
  <2>6. v[0] = n
    <3>1. 0 \in 0 .. k
      OBVIOUS
    <3>2. QED
      BY <3>1, <2>1, <2>4 DEF IsWalk
  <2>7. IsWalk(v, k + 1, n, G)
    BY <2>4, <2>5, <2>6 DEF IsWalk
  <2>8. QED
    BY <2>7
<1> HIDE DEF S
<1>3. \A i \in 0 .. N : i \in S
  BY <1>1, <1>2, UpTo
<1>4. QED
  BY <1>3 DEF S

\* A walk on which a weight goes down at every step ends where G is Nil.
LEMMA WalkEnds ==
  ASSUME NEW N \in Nat, NEW G \in [Places -> Places], NEW n, NEW w, IsWalk(w, N, n, G),
         NEW U \in SUBSET Places, n \in U, NEW f \in [Places -> Nat],
         f[n] <= N + 1,
         \A m \in U : f[m] >= 1 /\ (G[m] # Nil => G[m] \in U /\ f[G[m]] < f[m])
  PROVE  /\ \A i \in 0 .. N : w[i] \in U
         /\ G[w[N]] = Nil
         /\ \A i \in 0 .. N : w[i] # w[N] => G[w[i]] # Nil /\ \E j \in 0 .. N : G[w[i]] = w[j]
         /\ \A i \in 0 .. N : w[i] # n => \E j \in 0 .. N : G[w[j]] # Nil /\ G[w[j]] = w[i]
<1>1. /\ w \in [0 .. N -> Places]
      /\ w[0] = n
      /\ \A i \in 1 .. N : w[i] = IF G[w[i-1]] = Nil THEN w[i-1] ELSE G[w[i-1]]
  BY DEF IsWalk
<1>2. \A i \in Nat : i < N =>
         w[i+1] = IF G[w[i]] = Nil THEN w[i] ELSE G[w[i]]
  <2>1. ASSUME NEW i \in Nat, i < N
        PROVE  w[i+1] = IF G[w[i]] = Nil THEN w[i] ELSE G[w[i]]
    <3>1. i + 1 \in 1 .. N /\ (i + 1) - 1 = i
      BY <2>1
    <3>2. QED
      BY <3>1, <1>1
  <2>2. QED
    BY <2>1
<1>3. \A i \in 0 .. N : w[i] \in U /\ (G[w[i]] = Nil \/ f[w[i]] + i <= N + 1)
  <2> DEFINE S == {i \in 0 .. N : w[i] \in U /\ (G[w[i]] = Nil \/ f[w[i]] + i <= N + 1)}
  <2>1. 0 \in S
    <3>1. f[n] \in Nat
      OBVIOUS
    <3>2. QED
      BY <3>1, <1>1
  <2>2. ASSUME NEW i \in Nat, i < N, i \in S
        PROVE  i + 1 \in S
    <3>1. w[i] \in U /\ w[i] \in Places /\ f[w[i]] \in Nat
      BY <2>2
    <3>2. CASE G[w[i]] = Nil
      <4>1. w[i+1] = w[i]
        BY <3>2, <2>2, <1>2
      <4>2. QED
        BY <4>1, <3>1, <3>2, <2>2
    <3>3. CASE G[w[i]] # Nil
      <4>1. w[i+1] = G[w[i]] /\ G[w[i]] \in U /\ f[G[w[i]]] < f[w[i]]
        BY <3>1, <3>3, <2>2, <1>2
      <4>2. f[w[i+1]] \in Nat
        BY <4>1
      <4>3. f[w[i+1]] < f[w[i]] /\ f[w[i]] + i <= N + 1
        BY <4>1, <3>3, <2>2
      <4>4. f[w[i+1]] + (i + 1) <= N + 1
        BY <4>2, <4>3, <3>1
      <4>5. QED
        BY <4>1, <4>4, <2>2
    <3>4. QED
      BY <3>2, <3>3
  <2> HIDE DEF S
  <2>3. \A i \in 0 .. N : i \in S
    BY <2>1, <2>2, UpTo
  <2>4. QED
    BY <2>3 DEF S
<1>4. G[w[N]] = Nil
  <2>1. SUFFICES ASSUME G[w[N]] # Nil
                 PROVE  FALSE
    OBVIOUS
  <2>2. N \in 0 .. N
    OBVIOUS
  <2>3. w[N] \in U /\ f[w[N]] + N <= N + 1
    BY <2>1, <2>2, <1>3
  <2>4. G[w[N]] \in U /\ f[G[w[N]]] < f[w[N]] /\ f[G[w[N]]] >= 1
    BY <2>1, <2>3
  <2>5. f[w[N]] \in Nat /\ f[G[w[N]]] \in Nat
    BY <2>3, <2>4
  <2>6. QED
    BY <2>3, <2>4, <2>5
<1>5. ASSUME NEW i \in 0 .. N, G[w[i]] = Nil
      PROVE  w[N] = w[i]
  <2> DEFINE S == {j \in 0 .. N : j <= i \/ w[j] = w[i]}
  <2>1. 0 \in S
    OBVIOUS
  <2>2. ASSUME NEW j \in Nat, j < N, j \in S
        PROVE  j + 1 \in S
    <3>1. CASE j + 1 <= i
      BY <3>1, <2>2
    <3>2. CASE j + 1 > i
      <4>1. w[j] = w[i]
        <5>1. j = i \/ w[j] = w[i]
          BY <3>2, <2>2
        <5>2. QED
          BY <5>1
      <4>2. w[j+1] = w[j]
        BY <4>1, <2>2, <1>2, <1>5
      <4>3. QED
        BY <4>1, <4>2, <2>2
    <3>3. QED
      BY <3>1, <3>2
  <2> HIDE DEF S
  <2>3. \A j \in 0 .. N : j \in S
    BY <2>1, <2>2, UpTo
  <2>4. N \in S
    BY <2>3
  <2>5. QED
    BY <2>4 DEF S
<1>6. ASSUME NEW i \in 0 .. N, w[i] # w[N]
      PROVE  G[w[i]] # Nil /\ \E j \in 0 .. N : G[w[i]] = w[j]
  <2>1. G[w[i]] # Nil
    BY <1>5, <1>6
  <2>2. i # N /\ i \in Nat
    BY <1>6
  <2>3. i < N /\ i + 1 \in 0 .. N
    BY <2>2
  <2>4. w[i+1] = G[w[i]]
    BY <2>1, <2>3, <1>2
  <2>5. QED
    BY <2>1, <2>3, <2>4
<1>7. ASSUME NEW i \in 0 .. N, w[i] # n
      PROVE  \E j \in 0 .. N : G[w[j]] # Nil /\ G[w[j]] = w[i]
  <2> DEFINE S == {k \in 0 .. N : w[k] = w[i]}
  <2>1. S \in SUBSET Nat /\ S # {}
    OBVIOUS
  <2>2. PICK k \in S : \A j \in S : k <= j
    <3> HIDE DEF S
    <3>1. QED
      BY <2>1, Least
  <2>3. k # 0 /\ k \in 0 .. N /\ w[k] = w[i]
    BY <2>2, <1>1, <1>7
  <2>4. k - 1 \in Nat /\ k - 1 < N /\ (k - 1) + 1 = k /\ k - 1 \in 0 .. N
    BY <2>3
  <2>5. w[k-1] # w[i]
    BY <2>2, <2>4
  <2>6. w[k] = IF G[w[k-1]] = Nil THEN w[k-1] ELSE G[w[k-1]]
    BY <2>4, <1>2
  <2>7. QED
    BY <2>3, <2>4, <2>5, <2>6
<1>8. QED
  BY <1>3, <1>4, <1>6, <1>7

\* What the search for x reads at n, and nothing when it has found x.
SearchNext(T, x) == [n \in Places |-> IF n = x THEN Nil ELSE T[Toward(x, n)][n]]

\* A function that is defined as the one of Walk is a walk.
LEMMA WalkOf ==
  ASSUME NEW N \in Nat, NEW G \in [Places -> Places], NEW n \in Places, NEW w,
         w = [i \in 0 .. N |-> IF i = 0 THEN n
                               ELSE IF G[w[i-1]] = Nil THEN w[i-1] ELSE G[w[i-1]]]
  PROVE  IsWalk(w, N, n, G)
<1>1. \A i \in 0 .. N : w[i] = IF i = 0 THEN n
                               ELSE IF G[w[i-1]] = Nil THEN w[i-1] ELSE G[w[i-1]]
  OBVIOUS
<1>2. \A i \in 0 .. N : w[i] \in Places
  <2> DEFINE S == {i \in 0 .. N : w[i] \in Places}
  <2>1. 0 \in S
    BY <1>1
  <2>2. ASSUME NEW i \in Nat, i < N, i \in S
        PROVE  i + 1 \in S
    <3>1. i + 1 \in 0 .. N /\ i + 1 # 0 /\ (i + 1) - 1 = i
      BY <2>2
    <3>2. w[i+1] = IF G[w[i]] = Nil THEN w[i] ELSE G[w[i]]
      BY <3>1, <1>1
    <3>3. QED
      BY <3>1, <3>2, <2>2
  <2> HIDE DEF S
  <2>3. \A i \in 0 .. N : i \in S
    BY <2>1, <2>2, UpTo
  <2>4. QED
    BY <2>3 DEF S
<1>3. w \in [0 .. N -> Places]
  <2>1. w = [i \in 0 .. N |-> w[i]]
    OBVIOUS
  <2>2. QED
    BY <2>1, <1>2
<1>4. w[0] = n
  BY <1>1
<1>5. \A i \in 1 .. N : w[i] = IF G[w[i-1]] = Nil THEN w[i-1] ELSE G[w[i-1]]
  BY <1>1
<1>6. QED
  BY <1>3, <1>4, <1>5 DEF IsWalk

\* The search of the code is a walk toward the item.
LEMMA SearchIsWalk ==
  ASSUME NEW x \in Socks, child \in [Sides -> [Places -> Places]]
  PROVE  \E w : /\ IsWalk(w, Cardinality(Socks), Nil, SearchNext(child, x))
               /\ SearchEnd(x) = w[Cardinality(Socks)]
<1> DEFINE N == Cardinality(Socks)
           G == SearchNext(child, x)
           Same(way) ==
              way = [i \in 0 .. N |->
                 IF i = 0 THEN Nil
                 ELSE LET m == way[i-1]
                          next == IF m = x THEN Nil ELSE child[Toward(x, m)][m]
                      IN  IF next = Nil THEN m ELSE next]
           w == CHOOSE way : Same(way)
<1>1. SearchEnd(x) = w[N]
  BY DEF SearchEnd, Walk
<1>2. N \in Nat
  BY TreeAssumption, FS_CardinalityType
<1>3. Nil \in Places
  BY DEF Places
<1>4. G \in [Places -> Places]
  <2>1. \A n \in Places : Toward(x, n) \in Sides
    BY DEF Toward, Sides
  <2>2. QED
    BY <2>1, <1>3 DEF SearchNext
<1>5. \A m \in Places : G[m] = IF m = x THEN Nil ELSE child[Toward(x, m)][m]
  BY DEF SearchNext
<1> HIDE DEF N, G
<1>6. \E way : Same(way)
  <2>1. PICK v : IsWalk(v, N, Nil, G)
    BY <1>2, <1>3, <1>4, WalkExists
  <2>2. /\ v \in [0 .. N -> Places] /\ v[0] = Nil
        /\ \A i \in 1 .. N : v[i] = IF G[v[i-1]] = Nil THEN v[i-1] ELSE G[v[i-1]]
    BY <2>1 DEF IsWalk
  <2>3. ASSUME NEW i \in 0 .. N
        PROVE  v[i] = IF i = 0 THEN Nil
                      ELSE LET m == v[i-1]
                               next == IF m = x THEN Nil ELSE child[Toward(x, m)][m]
                           IN  IF next = Nil THEN m ELSE next
    <3>1. CASE i = 0
      BY <3>1, <2>2
    <3>2. CASE i # 0
      <4>1. i \in 1 .. N /\ i - 1 \in 0 .. N
        BY <3>2, <1>2
      <4>2. v[i-1] \in Places
        BY <4>1, <2>2
      <4>3. G[v[i-1]] = IF v[i-1] = x THEN Nil ELSE child[Toward(x, v[i-1])][v[i-1]]
        BY <4>2, <1>5
      <4>4. QED
        BY <3>2, <4>1, <4>3, <2>2
    <3>3. QED
      BY <3>1, <3>2
  <2>4. v = [i \in 0 .. N |-> v[i]]
    BY <2>2
  <2>5. Same(v)
    BY <2>3, <2>4, Zenon
  <2>6. QED
    BY <2>5
<1>7. Same(w)
  BY <1>6
<1> HIDE DEF w
<1>8. \A i \in 0 .. N : w[i] =
         IF i = 0 THEN Nil
         ELSE LET m == w[i-1]
                  next == IF m = x THEN Nil ELSE child[Toward(x, m)][m]
              IN  IF next = Nil THEN m ELSE next
  BY <1>7
<1>9. \A i \in 0 .. N : w[i] \in Places
  <2> DEFINE S == {i \in 0 .. N : w[i] \in Places}
  <2>1. 0 \in S
    BY <1>2, <1>3, <1>8
  <2>2. ASSUME NEW i \in Nat, i < N, i \in S
        PROVE  i + 1 \in S
    <3>1. i + 1 \in 0 .. N /\ i + 1 # 0 /\ (i + 1) - 1 = i
      BY <2>2, <1>2
    <3>2. w[i] \in Places
      BY <2>2
    <3>3. w[i+1] = IF G[w[i]] = Nil THEN w[i] ELSE G[w[i]]
      BY <3>1, <3>2, <1>5, <1>8
    <3>4. QED
      BY <3>1, <3>2, <3>3, <1>4
  <2> HIDE DEF S
  <2>3. \A i \in 0 .. N : i \in S
    BY <2>1, <2>2, <1>2, UpTo
  <2>4. QED
    BY <2>3 DEF S
<1>10. IsWalk(w, N, Nil, G)
  <2>1. w = [i \in 0 .. N |-> w[i]]
    BY <1>7
  <2>2. w \in [0 .. N -> Places]
    BY <2>1, <1>9
  <2>3. w[0] = Nil
    BY <1>2, <1>8
  <2>4. ASSUME NEW i \in 1 .. N
        PROVE  w[i] = IF G[w[i-1]] = Nil THEN w[i-1] ELSE G[w[i-1]]
    <3>1. i \in 0 .. N /\ i - 1 \in 0 .. N /\ i # 0
      BY <1>2
    <3>2. w[i-1] \in Places
      BY <3>1, <1>9
    <3>3. QED
      BY <3>1, <3>2, <1>5, <1>8
  <2>5. QED
    BY <2>2, <2>3, <2>4 DEF IsWalk
<1>11. QED
  BY <1>1, <1>10 DEF N, G

\* So is the way to the leftmost item.
LEMMA LeftmostIsWalk ==
  ASSUME NEW n \in Places, child \in [Sides -> [Places -> Places]]
  PROVE  \E w : /\ IsWalk(w, Cardinality(Socks), n, child["left"])
               /\ Leftmost(n) = w[Cardinality(Socks)]
<1> DEFINE N == Cardinality(Socks)
           G == child["left"]
           Same(way) ==
              way = [i \in 0 .. N |->
                 IF i = 0 THEN n
                 ELSE LET m == way[i-1]
                          next == child["left"][m]
                      IN  IF next = Nil THEN m ELSE next]
           w == CHOOSE way : Same(way)
<1>1. Leftmost(n) = w[N]
  BY DEF Leftmost, Walk
<1>2. N \in Nat
  BY TreeAssumption, FS_CardinalityType
<1>3. G \in [Places -> Places]
  BY DEF Sides
<1>4. \A way : Same(way) <=>
         way = [i \in 0 .. N |-> IF i = 0 THEN n
                                 ELSE IF G[way[i-1]] = Nil THEN way[i-1] ELSE G[way[i-1]]]
  OBVIOUS
<1> HIDE DEF N, G, Same
<1>5. \E way : Same(way)
  <2>1. PICK v : IsWalk(v, N, n, G)
    BY <1>2, <1>3, WalkExists
  <2>2. /\ v \in [0 .. N -> Places] /\ v[0] = n
        /\ \A i \in 1 .. N : v[i] = IF G[v[i-1]] = Nil THEN v[i-1] ELSE G[v[i-1]]
    BY <2>1 DEF IsWalk
  <2>3. \A i \in 0 .. N : v[i] = IF i = 0 THEN n
                                 ELSE IF G[v[i-1]] = Nil THEN v[i-1] ELSE G[v[i-1]]
    <3>1. \A i \in 0 .. N : i # 0 => i \in 1 .. N
      BY <1>2
    <3>2. QED
      BY <3>1, <2>2
  <2>4. v = [i \in 0 .. N |-> IF i = 0 THEN n
                              ELSE IF G[v[i-1]] = Nil THEN v[i-1] ELSE G[v[i-1]]]
    BY <2>2, <2>3
  <2>5. QED
    BY <1>4, <2>4
<1>6. Same(w)
  BY <1>5
<1> HIDE DEF w
<1>7. IsWalk(w, N, n, G)
  <2>1. w = [i \in 0 .. N |-> IF i = 0 THEN n
                              ELSE IF G[w[i-1]] = Nil THEN w[i-1] ELSE G[w[i-1]]]
    BY <1>4, <1>6
  <2>2. QED
    BY <2>1, <1>2, <1>3, WalkOf
<1>8. QED
  BY <1>1, <1>7 DEF N, G

\* Sizes of what is below a place: they go down on every way down.
LEMMA Sizes ==
  ASSUME NEW R \in SUBSET Socks, NEW T, NEW P, NEW D, Tree(T, P, R), Sorted(T, D, R)
  PROVE  \E f \in [Places -> Nat] :
            /\ \A m \in R \cup {Nil} : f[m] >= 1 /\ f[m] <= Cardinality(Socks) + 1
            /\ \A m \in R : f[m] <= Cardinality(Socks)
            /\ \A m \in R \cup {Nil}, s \in Sides : T[s][m] # Nil => f[T[s][m]] < f[m]
<1> USE TreeAssumption
<1> DEFINE f == [m \in Places |-> IF m = Nil THEN Cardinality(R) + 1 ELSE Cardinality(D[m])]
           N == Cardinality(Socks)
<1>1. R \subseteq Socks /\ Places = Socks \cup {Nil} /\ Nil \notin Socks
  BY DEF Places
<1>2. /\ D \in [Places -> SUBSET R]
      /\ \A m \in R : m \in D[m]
      /\ D[Nil] = {}
  <2>1. \A m \in R : m \in D[m]
    BY BelowItems
  <2>2. QED
    BY <2>1 DEF Sorted
<1>3. N \in Nat /\ Cardinality(R) \in Nat /\ Cardinality(R) <= N
  <2>1. \A V \in SUBSET Socks : Cardinality(V) \in Nat
    BY Smaller
  <2>2. \A U \in SUBSET Socks : U # Socks => Cardinality(U) < Cardinality(Socks)
    BY Smaller
  <2>3. QED
    BY <2>1, <2>2
<1>4. \A m \in Places : Cardinality(D[m]) \in Nat /\ Cardinality(D[m]) <= Cardinality(R)
  <2>1. SUFFICES ASSUME NEW m \in Places
                 PROVE  Cardinality(D[m]) \in Nat /\ Cardinality(D[m]) <= Cardinality(R)
    OBVIOUS
  <2>2. PICK U \in SUBSET R : U = D[m]
    BY <1>2
  <2>3. U \in SUBSET Socks
    BY <2>2, <1>1
  <2>4. Cardinality(U) \in Nat
    BY <2>3, Smaller
  <2>5. U # R => Cardinality(U) < Cardinality(R)
    BY Smaller
  <2>6. QED
    BY <2>2, <2>4, <2>5, <1>3
<1>5. \A m \in R : Cardinality(D[m]) >= 1
  <2>1. SUFFICES ASSUME NEW m \in R
                 PROVE  Cardinality(D[m]) >= 1
    OBVIOUS
  <2>2. PICK U \in SUBSET Socks : U = D[m]
    BY <1>1, <1>2
  <2>3. {} # U
    BY <2>2, <1>2
  <2>4. Cardinality({}) < Cardinality(U)
    BY <2>3, Smaller
  <2>5. Cardinality({}) \in Nat /\ Cardinality(U) \in Nat
    BY Smaller
  <2>6. QED
    BY <2>2, <2>4, <2>5
<1>6. f \in [Places -> Nat] /\ f[Nil] = Cardinality(R) + 1
      /\ \A m \in R : f[m] = Cardinality(D[m])
  <2>1. \A m \in Places : (IF m = Nil THEN Cardinality(R) + 1 ELSE Cardinality(D[m])) \in Nat
    <3>1. Cardinality(R) + 1 \in Nat
      BY <1>3
    <3>2. \A m \in Places : Cardinality(D[m]) \in Nat
      BY <1>4
    <3>3. QED
      BY <3>1, <3>2
  <2>2. f \in [Places -> Nat]
    BY <2>1
  <2>3. \A m \in Places : f[m] = IF m = Nil THEN Cardinality(R) + 1 ELSE Cardinality(D[m])
    OBVIOUS
  <2>4. \A m \in R : m \in Places /\ m # Nil
    BY <1>1
  <2>5. Nil \in Places
    BY <1>1
  <2> HIDE DEF f
  <2>6. QED
    BY <2>2, <2>3, <2>4, <2>5
<1> HIDE DEF f, N
<1>7. \A m \in R \cup {Nil} : f[m] >= 1 /\ f[m] <= N + 1
  BY <1>1, <1>3, <1>4, <1>5, <1>6
<1>8. \A m \in R : f[m] <= N
  BY <1>1, <1>3, <1>4, <1>5, <1>6
<1>9. ASSUME NEW m \in R \cup {Nil}, NEW s \in Sides, T[s][m] # Nil
      PROVE  f[T[s][m]] < f[m]
  <2>1. PICK c \in R : c = T[s][m]
    BY <1>9 DEF Tree
  <2>2. CASE m = Nil
    BY <2>1, <2>2, <1>1, <1>3, <1>4, <1>6
  <2>3. CASE m # Nil
    <3>1. m \in R /\ D[c] \subseteq D[m] /\ m \notin D[c] /\ m \in D[m]
      <4>1. m \in R
        BY <2>3
      <4>2. \A s2 \in Sides : D[T[s2][m]] \subseteq D[m] /\ m \notin D[T[s2][m]]
        BY <4>1, BelowItems
      <4>3. QED
        BY <4>1, <4>2, <2>1, <1>2
    <3>2. PICK V \in SUBSET Socks : V = D[m]
      BY <3>1, <1>1, <1>2
    <3>3. PICK U \in SUBSET V : U = D[c]
      BY <3>1, <3>2
    <3>4. U # V
      BY <3>1, <3>2, <3>3
    <3>5. Cardinality(U) < Cardinality(V)
      BY <3>4, Smaller
    <3>6. QED
      BY <3>1, <3>2, <3>3, <3>5, <2>1, <1>6
  <2>4. QED
    BY <2>2, <2>3
<1>10. QED
  BY <1>6, <1>7, <1>8, <1>9 DEF N

\* The search goes to the side on which x is.
LEMMA SearchDown ==
  ASSUME NEW R \in SUBSET Socks, NEW T, NEW D, Sorted(T, D, R),
         NEW x \in Socks, NEW m \in R, m # x, x \in D[m]
  PROVE  x \in D[T[Toward(x, m)][m]]
<1> USE TreeAssumption
<1>1. D[m] = {m} \cup D[T["left"][m]] \cup D[T["right"][m]]
      /\ \A side \in Sides : \A n \in D[T[side][m]] : Before(side, n, m)
  BY DEF Sorted
<1>2. m # Nil /\ m \in Nat /\ x \in Nat
  OBVIOUS
<1>3. x \in D[T["left"][m]] \/ x \in D[T["right"][m]]
  BY <1>1
<1>4. x \in D[T["left"][m]] => x < m
  BY <1>1 DEF Before, Sides
<1>5. x \in D[T["right"][m]] => m < x
  BY <1>1 DEF Before, Sides
<1>6. QED
  BY <1>2, <1>3, <1>4, <1>5 DEF Toward

\* The search ends at the item, or below an item where there is room for it.
LEMMA SearchFacts ==
  ASSUME NEW R \in SUBSET Socks, NEW P, NEW D, Tree(child, P, R), Sorted(child, D, R),
         NEW x \in Socks
  PROVE  /\ \E V : Way(child, R, x, V, SearchEnd(x))
         /\ SearchEnd(x) = x <=> x \in R
<1> USE TreeAssumption
<1> DEFINE N == Cardinality(Socks)
           G == SearchNext(child, x)
           U == R \cup {Nil}
           e == SearchEnd(x)
<1>1. child \in [Sides -> [Places -> Places]]
  BY DEF Tree
<1>2. PICK w : IsWalk(w, N, Nil, G) /\ e = w[N]
  BY <1>1, SearchIsWalk
<1>3. N \in Nat
  BY FS_CardinalityType
<1>4. R \subseteq Socks /\ Places = Socks \cup {Nil} /\ Nil \notin Socks /\ U \in SUBSET Places
  BY DEF Places
<1>5. \A n \in Places : G[n] = IF n = x THEN Nil ELSE child[Toward(x, n)][n]
  BY DEF SearchNext
<1>6. \A n \in Places : Toward(x, n) \in Sides
  BY TowardFacts
<1>7. G \in [Places -> Places]
  <2>1. \A n \in Places : (IF n = x THEN Nil ELSE child[Toward(x, n)][n]) \in Places
    BY <1>1, <1>4, <1>6
  <2>2. QED
    BY <2>1 DEF SearchNext
<1>8. PICK f \in [Places -> Nat] :
            /\ \A m \in R \cup {Nil} : f[m] >= 1 /\ f[m] <= N + 1
            /\ \A m \in R : f[m] <= N
            /\ \A m \in R \cup {Nil}, s \in Sides : child[s][m] # Nil => f[child[s][m]] < f[m]
  BY Sizes
<1> HIDE DEF N, G, e
<1>9. \A m \in U : f[m] >= 1 /\ (G[m] # Nil => G[m] \in U /\ f[G[m]] < f[m])
  <2>1. SUFFICES ASSUME NEW m \in R \cup {Nil}, G[m] # Nil
                 PROVE  G[m] \in R \cup {Nil} /\ f[G[m]] < f[m]
    BY <1>8
  <2>2. m \in Places
    BY <1>4
  <2>3. G[m] = child[Toward(x, m)][m] /\ Toward(x, m) \in Sides
    BY <2>1, <2>2, <1>5, <1>6
  <2>4. PICK s \in Sides : s = Toward(x, m)
    BY <2>3
  <2>5. child[s][m] # Nil
    BY <2>1, <2>3, <2>4
  <2>6. child[s][m] \in R
    BY <2>5 DEF Tree
  <2>7. f[child[s][m]] < f[m]
    BY <2>5, <1>8
  <2>8. QED
    BY <2>3, <2>4, <2>6, <2>7
<1>10. /\ \A i \in 0 .. N : w[i] \in U
       /\ G[w[N]] = Nil
       /\ \A i \in 0 .. N : w[i] # w[N] => G[w[i]] # Nil /\ \E j \in 0 .. N : G[w[i]] = w[j]
       /\ \A i \in 0 .. N : w[i] # Nil => \E j \in 0 .. N : G[w[j]] # Nil /\ G[w[j]] = w[i]
  <2>1. Nil \in U /\ f[Nil] <= N + 1
    BY <1>8
  <2>2. U \in SUBSET Places /\ IsWalk(w, N, Nil, G)
    BY <1>2, <1>4
  <2> HIDE DEF U
  <2>3. QED
    BY <1>3, <1>7, <2>1, <2>2, <1>8, <1>9, WalkEnds
<1>11. /\ w[0] = Nil /\ w[N] = e /\ 0 \in 0 .. N /\ N \in 0 .. N
       /\ \A i \in 1 .. N : w[i] = IF G[w[i-1]] = Nil THEN w[i-1] ELSE G[w[i-1]]
  BY <1>2, <1>3 DEF IsWalk
<1>12. \E V : Way(child, R, x, V, e)
  <2> DEFINE V == {w[i] : i \in 0 .. N}
  <2>1. V \in SUBSET (R \cup {Nil}) /\ Nil \in V /\ e \in V
    BY <1>10, <1>11
  <2>2. \A n \in V \ {e} : n # x /\ child[Toward(x, n)][n] \in V \ {Nil}
    <3>1. SUFFICES ASSUME NEW i \in 0 .. N, w[i] # e
                   PROVE  w[i] # x /\ child[Toward(x, w[i])][w[i]] \in V \ {Nil}
      OBVIOUS
    <3>2. PICK j \in 0 .. N : G[w[i]] # Nil /\ G[w[i]] = w[j]
      BY <3>1, <1>10, <1>11
    <3>3. PICK n \in Places : n = w[i]
      BY <1>10, <1>4
    <3>4. n # x /\ G[n] = child[Toward(x, n)][n]
      BY <3>2, <3>3, <1>5
    <3>5. QED
      BY <3>2, <3>3, <3>4
  <2>3. \A n \in V \ {Nil} : \E q \in V \ {x} : n = child[Toward(x, q)][q]
    <3>1. SUFFICES ASSUME NEW i \in 0 .. N, w[i] # Nil
                   PROVE  \E q \in V \ {x} : w[i] = child[Toward(x, q)][q]
      OBVIOUS
    <3>2. PICK j \in 0 .. N : G[w[j]] # Nil /\ G[w[j]] = w[i]
      BY <3>1, <1>10
    <3>3. PICK q \in Places : q = w[j]
      BY <1>10, <1>4
    <3>4. q # x /\ G[q] = child[Toward(x, q)][q]
      BY <3>2, <3>3, <1>5
    <3>5. q \in V \ {x}
      BY <3>3, <3>4
    <3>6. QED
      BY <3>2, <3>3, <3>4, <3>5
  <2>4. e # x => child[Toward(x, e)][e] = Nil
    <3>1. e \in Places /\ G[e] = Nil
      BY <1>10, <1>11, <1>4
    <3>2. QED
      BY <3>1, <1>5
  <2> HIDE DEF V
  <2>5. Way(child, R, x, V, e)
    BY <2>1, <2>2, <2>3, <2>4 DEF Way
  <2>6. QED
    BY <2>5
<1>13. e = x => x \in R
  BY <1>10, <1>11, <1>4
<1>14. ASSUME x \in R
       PROVE  e = x
  <2> DEFINE S == {i \in 0 .. N : w[i] = Nil \/ x \in D[w[i]]}
  <2>1. 0 \in S
    BY <1>11
  <2>2. ASSUME NEW i \in Nat, i < N, i \in S
        PROVE  i + 1 \in S
    <3>1. /\ i + 1 \in 1 .. N /\ i + 1 \in 0 .. N /\ i \in 0 .. N
          /\ (i + 1) - 1 = i
      BY <2>2, <1>3
    <3>2. PICK m \in U : m = w[i]
      BY <3>1, <1>10
    <3>3. w[i+1] = IF G[m] = Nil THEN m ELSE G[m]
      BY <3>1, <3>2, <1>11
    <3>4. m = Nil \/ x \in D[m]
      BY <2>2, <3>2
    <3>5. CASE G[m] = Nil
      BY <3>5, <3>1, <3>3, <3>4
    <3>6. CASE m = Nil /\ G[m] # Nil
      <4>1. G[Nil] = child["left"][Nil]
        BY <1>4, <1>5 DEF Toward
      <4>2. D[child["left"][Nil]] = R
        BY DEF Sorted
      <4>3. QED
        BY <4>1, <4>2, <3>1, <3>3, <3>6, <1>14
    <3>7. CASE m # Nil /\ G[m] # Nil
      <4>1. m \in R /\ m \in Places /\ x \in D[m]
        BY <3>7, <3>4, <1>4
      <4>2. m # x /\ G[m] = child[Toward(x, m)][m]
        BY <4>1, <3>7, <1>5
      <4>3. x \in D[child[Toward(x, m)][m]]
        BY <4>1, <4>2, SearchDown
      <4>4. QED
        BY <4>2, <4>3, <3>1, <3>3, <3>7
    <3>8. QED
      BY <3>5, <3>6, <3>7
  <2>3. N \in S
    <3> HIDE DEF S
    <3>1. \A i \in 0 .. N : i \in S
      BY <2>1, <2>2, <1>3, UpTo
    <3>2. QED
      BY <3>1, <1>11
  <2>4. e = Nil \/ x \in D[e]
    BY <2>3, <1>11
  <2>5. e \in U /\ G[e] = Nil
    BY <1>10, <1>11
  <2>6. D[Nil] = {} /\ D[child["left"][Nil]] = R
    BY DEF Sorted
  <2>7. e # Nil
    <3>1. G[Nil] = child["left"][Nil]
      BY <1>4, <1>5 DEF Toward
    <3>2. QED
      BY <3>1, <2>5, <2>6, <1>14
  <2>8. e \in R /\ e \in Places
    BY <2>5, <2>7, <1>4
  <2>9. e # x => G[e] = child[Toward(x, e)][e]
    BY <2>8, <1>5
  <2>10. e # x => x \in D[child[Toward(x, e)][e]]
    BY <2>4, <2>7, <2>8, SearchDown
  <2>11. QED
    BY <2>5, <2>6, <2>9, <2>10
<1>15. QED
  BY <1>12, <1>13, <1>14 DEF e

\* The way to the left ends at the least item.
LEMMA LeftmostFacts ==
  ASSUME NEW R \in SUBSET Socks, NEW P, NEW D, Tree(child, P, R), Sorted(child, D, R),
         NEW a \in R
  PROVE  /\ Leftmost(a) \in D[a] /\ Leftmost(a) \in R
         /\ child["left"][Leftmost(a)] = Nil
         /\ \A m \in D[a] : m = Leftmost(a) \/ Leftmost(a) < m
<1> USE TreeAssumption
<1> DEFINE N == Cardinality(Socks)
           G == child["left"]
           U == D[a]
           h == Leftmost(a)
<1>1. child \in [Sides -> [Places -> Places]] /\ a \in Places
  BY DEF Tree, Places
<1>2. PICK w : IsWalk(w, N, a, G) /\ h = w[N]
  BY <1>1, LeftmostIsWalk
<1>3. N \in Nat
  BY FS_CardinalityType
<1>4. R \subseteq Socks /\ Places = Socks \cup {Nil} /\ Nil \notin Socks /\ Socks \subseteq Nat
  BY DEF Places
<1>5. D \in [Places -> SUBSET R] /\ D[Nil] = {}
  BY DEF Sorted
<1>6. G \in [Places -> Places]
  BY <1>1 DEF Sides
<1>7. PICK f \in [Places -> Nat] :
            /\ \A m \in R \cup {Nil} : f[m] >= 1 /\ f[m] <= N + 1
            /\ \A m \in R : f[m] <= N
            /\ \A m \in R \cup {Nil}, s \in Sides : child[s][m] # Nil => f[child[s][m]] < f[m]
  BY Sizes
<1>8. \A m \in R : m \in D[m]
  BY BelowItems
<1>9. a \in U /\ U \in SUBSET R /\ U \in SUBSET Places
  BY <1>4, <1>5, <1>8, <1>1
<1>10. \A m \in R : /\ D[m] = {m} \cup D[G[m]] \cup D[child["right"][m]]
                    /\ \A n \in D[G[m]] : n < m
                    /\ \A n \in D[child["right"][m]] : m < n
  <2>1. "left" \in Sides /\ "right" \in Sides
    BY DEF Sides
  <2>2. QED
    BY <2>1 DEF Sorted, Before
<1>11. \A m \in R : G[m] # Nil => G[m] \in R /\ f[G[m]] < f[m]
  <2>1. "left" \in Sides
    BY DEF Sides
  <2>2. QED
    BY <2>1, <1>7 DEF Tree
<1> HIDE DEF N, G, h
<1>12. \A m \in U : f[m] >= 1 /\ (G[m] # Nil => G[m] \in U /\ f[G[m]] < f[m])
  <2>1. SUFFICES ASSUME NEW m \in U, G[m] # Nil
                 PROVE  G[m] \in U /\ f[G[m]] < f[m]
    BY <1>7, <1>9
  <2>2. m \in R /\ G[m] \in R /\ f[G[m]] < f[m]
    BY <2>1, <1>9, <1>11
  <2>3. D[m] \subseteq D[a]
    BY <2>1, <2>2, Nested
  <2>4. G[m] \in D[m]
    <3>1. PICK g \in R : g = G[m]
      BY <2>2
    <3>2. g \in D[g]
      BY <1>8
    <3>3. D[m] = {m} \cup D[G[m]] \cup D[child["right"][m]]
      BY <2>2, <1>10
    <3>4. QED
      BY <3>1, <3>2, <3>3
  <2>5. QED
    BY <2>2, <2>3, <2>4
<1>13. (\A i \in 0 .. N : w[i] \in U) /\ G[w[N]] = Nil
  <2>1. a \in U /\ f[a] <= N + 1
    BY <1>7, <1>9
  <2>2. U \in SUBSET Places /\ IsWalk(w, N, a, G)
    BY <1>2, <1>9
  <2> HIDE DEF U
  <2>3. QED
    BY <1>3, <1>6, <2>1, <2>2, <1>7, <1>12, WalkEnds
<1>14. /\ w[0] = a /\ 0 \in 0 .. N /\ N \in 0 .. N
       /\ \A i \in 1 .. N : w[i] = IF G[w[i-1]] = Nil THEN w[i-1] ELSE G[w[i-1]]
  BY <1>2, <1>3 DEF IsWalk
<1>15. h \in D[a] /\ h \in R /\ G[h] = Nil
  BY <1>2, <1>9, <1>13, <1>14
<1>16. \A m \in D[a] : m \in D[h] \/ h < m
  <2> DEFINE S == {i \in 0 .. N : \A m \in D[a] : m \in D[w[i]] \/ w[i] < m}
  <2>1. 0 \in S
    BY <1>14
  <2>2. ASSUME NEW i \in Nat, i < N, i \in S
        PROVE  i + 1 \in S
    <3>1. /\ i + 1 \in 1 .. N /\ i + 1 \in 0 .. N /\ i \in 0 .. N
          /\ (i + 1) - 1 = i
      BY <2>2, <1>3
    <3>2. PICK k \in R : k = w[i]
      BY <3>1, <1>9, <1>13
    <3>3. w[i+1] = IF G[k] = Nil THEN k ELSE G[k]
      BY <3>1, <3>2, <1>14
    <3>4. \A m \in D[a] : m \in D[k] \/ k < m
      BY <2>2, <3>2
    <3>5. CASE G[k] = Nil
      BY <3>5, <3>1, <3>3, <3>4
    <3>6. CASE G[k] # Nil
      <4>1. PICK g \in R : g = G[k]
        BY <3>6, <1>11
      <4>2. g \in D[g] /\ g < k
        BY <4>1, <1>8, <1>10
      <4>3. ASSUME NEW m \in D[a]
            PROVE  m \in D[g] \/ g < m
        <5>1. m \in Nat /\ g \in Nat /\ k \in Nat
          BY <1>4, <1>9
        <5>2. m \in D[g] \/ m = k \/ k < m
          BY <3>4, <4>1, <1>10
        <5>3. QED
          BY <5>1, <5>2, <4>2
      <4>4. QED
        BY <4>1, <4>3, <3>1, <3>3, <3>6
    <3>7. QED
      BY <3>5, <3>6
  <2>3. N \in S
    <3> HIDE DEF S
    <3>1. \A i \in 0 .. N : i \in S
      BY <2>1, <2>2, <1>3, UpTo
    <3>2. QED
      BY <3>1, <1>14
  <2>4. QED
    BY <2>3, <1>2
<1>17. \A m \in D[a] : m = h \/ h < m
  BY <1>5, <1>10, <1>15, <1>16
<1>18. QED
  BY <1>15, <1>17 DEF h, G

\* xy_rb_insert: the new item is red and hangs at the end of its search.
LEMMA InsertStep ==
  ASSUME IInv, NEW x \in Socks, Insert(x)
  PROVE  IInv'
<1> USE TreeAssumption
<1> DEFINE R == registered
           R2 == registered'
           T == child'
           P2 == parent'
           C2 == color'
           e == SearchEnd(x)
           t == Toward(x, e)
<1>1. /\ writes = <<>> /\ pc = "idle" /\ e # x
      /\ T = [side \in Sides |-> [child[side] EXCEPT ![x] = Nil]]
      /\ P2 = [parent EXCEPT ![x] = e]
      /\ C2 = [color EXCEPT ![x] = "red"]
      /\ writes' = << <<t, e, x>> >>
      /\ elm' = x /\ pc' = "insert_color" /\ R2 = R \cup {x}
      /\ Writes
      /\ UNCHANGED <<par, old, stays>>
  BY DEF Insert, Reached
<1>2. PICK D, B : Shape(child, D, B)
  BY <1>1, AtRest
<1>3. /\ R \in SUBSET Socks /\ Tree(child, parent, R) /\ Sorted(child, D, R)
      /\ B \in [Places -> Nat] /\ B[Nil] = 0
      /\ NoRedPair(parent, color, R) /\ AllEven(child, color, B, R)
      /\ color \in [Socks -> {"red", "black"}] /\ parent \in [Socks -> Places]
      /\ child \in [Sides -> [Places -> Places]]
      /\ old = Nil /\ par \in Places
  BY <1>1, <1>2 DEF Shape, Colored, IInv, TypeOK, Writer
<1>4. R \subseteq Socks /\ Places = Socks \cup {Nil} /\ Nil \notin Socks
  BY <1>3 DEF Places
<1>5. (\E V : Way(child, R, x, V, e)) /\ (e = x <=> x \in R)
  BY <1>3, SearchFacts
<1>6. PICK V : Way(child, R, x, V, e)
  BY <1>5
<1>7. /\ T \in [Sides -> [Places -> Places]]
      /\ \A s \in Sides : T[s][x] = Nil
      /\ \A s \in Sides, n \in Places \ {x} : T[s][n] = child[s][n]
  <2>1. \A s \in Sides : child[s] \in [Places -> Places]
    BY <1>3
  <2>2. T = [side \in Sides |-> [child[side] EXCEPT ![x] = Nil]]
    BY <1>1
  <2>3. QED
    BY <2>1, <2>2, <1>4
<1> HIDE DEF R, R2, T, P2, C2, e, t
<1>8. x \notin R /\ e \in R \cup {Nil} /\ e # x /\ child[Toward(x, e)][e] = Nil
  BY <1>1, <1>5, <1>6 DEF Way
<1>9. e \in Places /\ t \in Sides /\ (e = Nil => t = "left")
  <2>1. e \in Places
    BY <1>4, <1>8
  <2>2. QED
    BY <2>1, TowardFacts DEF t
<1>10. PICK T2 : /\ Written(T, <<<<t, e, x>>>>, T2)
                 /\ T2[t][e] = x
                 /\ \A s \in Sides, n \in Places : (s # t \/ n # e) => T2[s][n] = T[s][n]
  <2>1. x \in Places
    BY <1>4
  <2>2. T \in [Sides -> [Places -> Places]]
    BY <1>7
  <2>3. t \in Sides
    BY <1>9
  <2>4. e \in Places
    BY <1>9
  <2>5. CanWriteOne(T, t, e, x)
    BY <2>1, <2>2, <2>3, <2>4, WriteOne
  <2>6. QED
    BY <2>5 DEF CanWriteOne
<1>11. /\ T2 \in [Sides -> [Places -> Places]]
       /\ \A s \in Sides : T2[s][x] = Nil
       /\ \A s \in Sides, n \in Places \ {x} : (s # t \/ n # e) => T2[s][n] = child[s][n]
  <2>1. T2 \in [Sides -> [Places -> Places]]
    BY <1>10 DEF Written
  <2>2. \A s \in Sides : T2[s][x] = Nil
    <3>1. x \in Places
      BY <1>4
    <3>2. QED
      BY <3>1, <1>7, <1>8, <1>10
  <2>3. QED
    BY <2>1, <2>2, <1>7, <1>10
<1>12. P2 \in [Socks -> Places] /\ P2[x] = e /\ \A n \in Socks \ {x} : P2[n] = parent[n]
  BY <1>1, <1>3, <1>9
<1>13. C2 \in [Socks -> {"red", "black"}] /\ C2[x] = "red" /\ \A n \in Socks \ {x} : C2[n] = color[n]
  BY <1>1, <1>3
<1>14. Hangs(child, parent, x, e, T2, P2)
  <2>1. T2[Toward(x, e)][e] = x
    BY <1>10 DEF t
  <2>2. \A s \in Sides, n \in Places \ {x} : s # Toward(x, e) \/ n # e => T2[s][n] = child[s][n]
    BY <1>11 DEF t
  <2>3. QED
    BY <2>1, <2>2, <1>1, <1>11 DEF Hangs
<1>15. Tree(T2, P2, R \cup {x})
  <2>1. x \in Socks \ R
    BY <1>8
  <2>2. QED
    BY <2>1, <1>3, <1>8, <1>14, HangTree
<1>16. \E D2 : Sorted(T2, D2, R \cup {x})
  <2>1. x \in Socks \ R
    BY <1>8
  <2>2. Sorted(T2, [n \in Places |-> IF n = x THEN {x}
                                     ELSE IF n \in V \ {Nil} THEN D[n] \cup {x}
                                     ELSE D[n]], R \cup {x})
    BY <2>1, <1>3, <1>6, <1>14, HangSorted
  <2>3. QED
    BY <2>2
<1> DEFINE B2 == [B EXCEPT ![x] = 0]
<1>17. /\ B2 \in [Places -> Nat] /\ B2[x] = 0 /\ B2[Nil] = 0
       /\ \A n \in Places \ {x} : B2[n] = B[n]
  BY <1>3, <1>4
<1> HIDE DEF B2
<1>18. AllEven(T2, C2, B2, R \cup {x})
  <2>1. Even(T2, C2, B2, x)
    <3>1. T2["left"][x] = Nil /\ T2["right"][x] = Nil
      BY <1>11 DEF Sides
    <3>2. QED
      BY <3>1, <1>13, <1>17 DEF Even, Weight
  <2>2. ASSUME NEW n \in R
        PROVE  Even(T2, C2, B2, n)
    <3>1. n # x /\ n \in Places /\ n \in Socks
      BY <1>4, <1>8
    <3>2. \A s \in Sides : B2[T2[s][n]] = B[child[s][n]]
      <4>1. SUFFICES ASSUME NEW s \in Sides
                     PROVE  B2[T2[s][n]] = B[child[s][n]]
        OBVIOUS
      <4>2. CASE s = t /\ n = e
        <5>1. T2[s][n] = x /\ child[s][n] = Nil
          BY <4>2, <1>8, <1>10 DEF t
        <5>2. QED
          BY <5>1, <1>3, <1>17
      <4>3. CASE s # t \/ n # e
        <5>1. T2[s][n] = child[s][n]
          BY <4>3, <3>1, <1>11
        <5>2. child[s][n] \in R \cup {Nil}
          BY <1>3 DEF Tree
        <5>3. child[s][n] \in Places \ {x}
          BY <5>2, <1>4, <1>8
        <5>4. QED
          BY <5>1, <5>3, <1>17
      <4>4. QED
        BY <4>2, <4>3
    <3>3. B2[n] = B[n] /\ C2[n] = color[n]
      BY <3>1, <1>13, <1>17
    <3>4. Even(child, color, B, n)
      BY <1>3 DEF AllEven
    <3>5. QED
      BY <3>2, <3>3, <3>4, EvenKept
  <2>3. QED
    BY <2>1, <2>2 DEF AllEven
<1>19. NoRedPair(P2, C2, (R \cup {x}) \ {x})
  <2>1. SUFFICES ASSUME NEW n \in R, C2[n] = "red"
                 PROVE  P2[n] # Nil /\ C2[P2[n]] = "black"
    BY DEF NoRedPair
  <2>2. n # x /\ n \in Socks
    BY <1>4, <1>8
  <2>3. color[n] = "red" /\ P2[n] = parent[n]
    BY <2>1, <2>2, <1>12, <1>13
  <2>4. parent[n] # Nil /\ color[parent[n]] = "black"
    BY <2>3, <1>3 DEF NoRedPair
  <2>5. parent[n] \in R
    BY <2>4, <1>3 DEF Tree
  <2>6. parent[n] \in Socks \ {x}
    BY <2>5, <1>4, <1>8
  <2>7. QED
    BY <2>3, <2>4, <2>6, <1>13
<1>20. Colored(T2, P2, C2, R \cup {x}, B2, "insert_color", x, par')
  BY <1>13, <1>17, <1>18, <1>19 DEF Colored
<1>21. QED
  <2>1. /\ T = child' /\ P2 = parent' /\ C2 = color' /\ registered' = R \cup {x}
        /\ child' \in [Sides -> [Places -> Places]] /\ parent' \in [Socks -> Places]
        /\ color' \in [Socks -> {"red", "black"}]
    BY <1>1, <1>7, <1>12, <1>13 DEF T, P2, C2, R2
  <2>2. writes' = << <<t, e, x>> >> /\ elm' = x /\ pc' = "insert_color" /\ par' = par /\ old' = Nil
    BY <1>1, <1>3
  <2>3. /\ Written(child', writes', T2) /\ Tree(T2, parent', registered')
        /\ \E D2 : Sorted(T2, D2, registered')
        /\ Colored(T2, parent', color', registered', B2, pc', elm', par')
    BY <2>1, <2>2, <1>10, <1>15, <1>16, <1>20
  <2>4. PICK D2 : Sorted(T2, D2, registered')
    BY <2>3
  <2>5. <<t, e, x>> \in Sides \X Places \X Places
    BY <1>4, <1>9
  <2>6. Writer'
    BY <2>2, <2>5 DEF Writer
  <2>7. \A i \in 1 .. Len(writes') : writes'[i] \in Sides \X Places \X Places
                                      /\ (writes'[i][2] = Nil => writes'[i][1] = "left")
    BY <2>2, <2>5, <1>9
  <2>8. stays \in BOOLEAN /\ stays' \in BOOLEAN /\ TypeOK /\ Writes
    BY <1>1 DEF IInv, TypeOK
  <2>9. {elm', par', old'} \subseteq Places /\ registered' \subseteq Socks
    BY <2>1, <2>2, <1>3, <1>4
  <2>10. pc' \in {"idle", "insert_color", "remove_color", "free"}
    BY <2>2
  <2>11. QED
    BY <2>1, <2>3, <2>4, <2>6, <2>7, <2>8, <2>9, <2>10, NewIInv

\* What the steps that take an item out of the tree have in common.
LEMMA RemoveIInv ==
  ASSUME TypeOK, NEW x \in Socks, NEW c \in Places, NEW q \in Places,
         Writes, UNCHANGED child, stays' = (stays /\ key # x),
         parent' \in [Socks -> Places], color' \in [Socks -> {"red", "black"}],
         registered' = registered \ {x}, old' = x, elm' = c, par' = q,
         pc' \in {"remove_color", "free"},
         writes' \in Seq(Sides \X Places \X Places),
         \A i \in 1 .. Len(writes') : writes'[i][2] = Nil => writes'[i][1] = "left",
         NEW T2, NEW D2, NEW B2,
         Written(child, writes', T2), Tree(T2, parent', registered'),
         Sorted(T2, D2, registered'),
         Colored(T2, parent', color', registered', B2, pc', c, q)
  PROVE  IInv'
<1> USE TreeAssumption
<1>1. stays \in BOOLEAN /\ stays' \in BOOLEAN
  BY DEF TypeOK
<1>2. child' \in [Sides -> [Places -> Places]]
  BY DEF TypeOK
<1>3. pc' \in {"idle", "insert_color", "remove_color", "free"}
  OBVIOUS
<1>4. {elm', par', old'} \subseteq Places
  BY DEF Places
<1>5. \A i \in 1 .. Len(writes') : writes'[i] \in Sides \X Places \X Places
                                   /\ (writes'[i][2] = Nil => writes'[i][1] = "left")
  OBVIOUS
<1>6. registered' \subseteq Socks
  BY DEF TypeOK
<1>7. Writer'
  <2>1. x \notin registered'
    OBVIOUS
  <2>2. pc' # "idle" /\ pc' # "insert_color"
    OBVIOUS
  <2>3. QED
    BY <2>1, <2>2 DEF Writer
<1>8. Written(child', writes', T2)
  OBVIOUS
<1>9. Colored(T2, parent', color', registered', B2, pc', elm', par')
  OBVIOUS
<1>10. QED
  BY <1>1, <1>2, <1>3, <1>4, <1>5, <1>6, <1>7, <1>8, <1>9, NewIInv

\* xy_rb_remove of an item with one child at most: the child takes its place.
LEMMA RemoveOneStep ==
  ASSUME IInv, NEW x \in Socks, RemoveOne(x)
  PROVE  IInv'
<1> USE TreeAssumption
<1> DEFINE R == registered
           R2 == registered'
           P2 == parent'
           c == IF child["left"][x] = Nil THEN child["right"][x] ELSE child["left"][x]
           q == parent[x]
           t == SideIn(child, parent, x)
<1>1. /\ writes = <<>> /\ pc = "idle" /\ SearchEnd(x) = x
      /\ \E s \in Sides : child[s][x] = Nil
      /\ P2 = [n \in Socks |-> IF n = c THEN q ELSE parent[n]]
      /\ writes' = << <<t, q, c>> >>
      /\ elm' = c /\ par' = q
      /\ R2 = R \ {x} /\ old' = x
      /\ pc' = IF color[x] = "black" THEN "remove_color" ELSE "free"
      /\ stays' = (stays /\ key # x)
      /\ Writes
      /\ UNCHANGED <<child, color>>
  BY DEF RemoveOne, Reached, Removes, Replaced, SideOf, SideIn
<1>2. PICK D, B : Shape(child, D, B)
  BY <1>1, AtRest
<1>3. /\ R \in SUBSET Socks /\ Tree(child, parent, R) /\ Sorted(child, D, R)
      /\ B \in [Places -> Nat] /\ B[Nil] = 0
      /\ NoRedPair(parent, color, R) /\ AllEven(child, color, B, R)
      /\ color \in [Socks -> {"red", "black"}] /\ parent \in [Socks -> Places]
      /\ child \in [Sides -> [Places -> Places]]
      /\ TypeOK
  BY <1>1, <1>2 DEF Shape, Colored, IInv, TypeOK, Writer
<1>4. R \subseteq Socks /\ Places = Socks \cup {Nil} /\ Nil \notin Socks
  BY <1>3 DEF Places
<1>5. x \in R
  BY <1>1, <1>3, SearchFacts
<1>6. /\ t \in Sides /\ q \in R \cup {Nil} /\ q # x /\ child[t][q] = x
  <2> HIDE DEF R
  <2>1. HangsAt(child, R, x, SideIn(child, parent, x), parent[x])
    BY <1>3, <1>5, TopOf
  <2>2. QED
    BY <2>1 DEF HangsAt
<1>7. c \in (R \cup {Nil}) \ {x} /\ (c # Nil => parent[c] = x)
  <2>1. \A s \in Sides : child[s][x] \in (R \cup {Nil}) \ {x}
    <3>1. \A s \in Sides : child[s][x] \in R \cup {Nil} /\ x \notin D[child[s][x]]
      BY <1>3, <1>5, BelowItems
    <3>2. x \in D[x]
      BY <1>3, <1>5, BelowItems
    <3>3. QED
      BY <3>1, <3>2
  <2>2. \A s \in Sides : child[s][x] # Nil => parent[child[s][x]] = x
    BY <1>3, <1>5 DEF Tree
  <2>3. \E s \in Sides : c = child[s][x]
    BY DEF Sides
  <2>4. QED
    BY <2>1, <2>2, <2>3
<1>8. B[x] = B[c] + Weight(color, x)
  <2>1. Even(child, color, B, x)
    BY <1>3, <1>5 DEF AllEven
  <2>2. QED
    BY <2>1 DEF Even
<1> HIDE DEF R, R2, P2, t
<1>10. q = Nil => t = "left"
  BY <1>3, <1>4, <1>5, <1>6 DEF Tree, Sides
<1>11. q \in Places /\ c \in Places
  BY <1>4, <1>6, <1>7
<1>12. PICK T2 : /\ Written(child, <<<<t, q, c>>>>, T2)
                 /\ T2[t][q] = c
                 /\ \A s \in Sides, n \in Places : (s # t \/ n # q) => T2[s][n] = child[s][n]
  <2>1. child \in [Sides -> [Places -> Places]]
    BY <1>3
  <2>2. t \in Sides
    BY <1>6
  <2> HIDE DEF q, c
  <2>3. CanWriteOne(child, t, q, c)
    BY <2>1, <2>2, <1>11, WriteOne
  <2>4. QED
    BY <2>3 DEF CanWriteOne
<1>13. T2 \in [Sides -> [Places -> Places]]
  BY <1>12 DEF Written
<1>14. Cuts(child, parent, x, T2, P2)
  BY <1>1, <1>12, <1>13 DEF Cuts, t
<1>15. Tree(T2, P2, R \ {x})
  BY <1>1, <1>3, <1>5, <1>14, CutTree
<1>16. \E D2 : Sorted(T2, D2, R \ {x})
  <2>1. /\ R \in SUBSET Socks /\ Tree(child, parent, R) /\ Sorted(child, D, R)
        /\ \E s \in Sides : child[s][x] = Nil
    BY <1>1, <1>3
  <2>2. Sorted(T2, [n \in Places |-> D[n] \ {x}], R \ {x})
    BY <2>1, <1>5, <1>14, CutSorted
  <2>3. QED
    BY <2>2
<1> HIDE DEF c, q
<1>17. /\ P2 \in [Socks -> Places]
       /\ \A n \in Socks \ {c} : P2[n] = parent[n]
       /\ c # Nil => P2[c] = q
  BY <1>1, <1>3, <1>4, <1>7, <1>11
<1>18. \A n \in R, s \in Sides : child[s][n] \in Places /\ B[child[s][n]] \in Nat
  <2>1. \A n \in R, s \in Sides : child[s][n] \in Places
    BY <1>3, <1>4
  <2>2. QED
    BY <2>1, <1>3
<1>19. ASSUME NEW n \in R \ {x}, n # q
       PROVE  Even(T2, color, B, n)
  <2>1. \A s \in Sides : T2[s][n] = child[s][n]
    BY <1>4, <1>12, <1>19
  <2>2. \A s \in Sides : B[T2[s][n]] = B[child[s][n]]
    BY <2>1
  <2>3. Even(child, color, B, n)
    BY <1>3, <1>19 DEF AllEven
  <2>4. QED
    BY <2>2, <2>3, EvenKept
<1>20. \A n \in R \ {x, c} : color[n] = "red" => P2[n] # Nil /\ color[P2[n]] = "black"
  <2>1. \A n \in R \ {x, c} : P2[n] = parent[n]
    BY <1>4, <1>17
  <2>2. QED
    BY <2>1, <1>3 DEF NoRedPair
<1>21. CASE color[x] = "red"
  <2>1. pc' = "free" /\ B[x] = B[c]
    <3>1. Weight(color, x) = 0
      BY <1>21 DEF Weight
    <3>2. B[c] \in Nat
      BY <1>3, <1>11
    <3>3. QED
      BY <3>1, <3>2, <1>1, <1>8, <1>21
  <2>2. ASSUME q # Nil
        PROVE  Even(T2, color, B, q)
    <3>1. q \in R /\ q \in Places
      BY <2>2, <1>4, <1>6
    <3>2. \A s \in Sides : B[T2[s][q]] = B[child[s][q]]
      <4>1. B[T2[t][q]] = B[child[t][q]]
        BY <2>1, <1>6, <1>12
      <4>2. \A s \in Sides \ {t} : T2[s][q] = child[s][q]
        BY <3>1, <1>12
      <4>3. QED
        BY <4>1, <4>2
    <3>3. Even(child, color, B, q)
      BY <3>1, <1>3 DEF AllEven
    <3>4. QED
      BY <3>2, <3>3, EvenKept
  <2>3. AllEven(T2, color, B, R \ {x})
    <3>1. \A n \in R \ {x} : n # Nil
      BY <1>4
    <3>2. QED
      BY <3>1, <2>2, <1>19 DEF AllEven
  <2>4. NoRedPair(P2, color, R \ {x})
    <3>1. c \in R => color[c] # "red"
      <4>1. c \in R => c # Nil
        BY <1>4
      <4>2. QED
        BY <4>1, <1>3, <1>7, <1>21 DEF NoRedPair
    <3>2. QED
      BY <3>1, <1>20 DEF NoRedPair
  <2>5. Colored(T2, P2, color, R \ {x}, B, "free", c, q)
    BY <2>3, <2>4, <1>3 DEF Colored
  <2>6. Colored(T2, parent', color', registered', B, pc', c, q)
    BY <2>1, <2>5, <1>1 DEF P2, R2
  <2>7. /\ <<t, q, c>> \in Sides \X Places \X Places
    BY <1>6, <1>11
  <2>8. writes' \in Seq(Sides \X Places \X Places)
        /\ \A i \in 1 .. Len(writes') : writes'[i][2] = Nil => writes'[i][1] = "left"
    BY <2>7, <1>1, <1>10
  <2>9. PICK D2 : Sorted(T2, D2, R \ {x})
    BY <1>16
  <2>10. /\ Written(child, writes', T2) /\ Tree(T2, parent', registered')
         /\ Sorted(T2, D2, registered')
    BY <2>9, <1>1, <1>12, <1>15 DEF P2, R2
  <2>11. /\ Writes /\ UNCHANGED child /\ stays' = (stays /\ key # x)
         /\ parent' \in [Socks -> Places] /\ color' \in [Socks -> {"red", "black"}]
         /\ registered' = registered \ {x} /\ old' = x /\ elm' = c /\ par' = q
         /\ pc' \in {"remove_color", "free"}
    BY <2>1, <1>1, <1>3, <1>17 DEF P2, R2, R
  <2>12. QED
    BY <2>6, <2>8, <2>10, <2>11, <1>3, <1>11, RemoveIInv
<1>22. CASE color[x] = "black"
  <2>1. pc' = "remove_color" /\ B[x] = B[c] + 1 /\ B[c] \in Nat
    <3>1. Weight(color, x) = 1
      BY <1>22 DEF Weight
    <3>2. B[c] \in Nat
      BY <1>3, <1>11
    <3>3. QED
      BY <3>1, <3>2, <1>1, <1>8, <1>22
  <2>2. \A n \in (R \ {x}) \ {c} :
           color[n] = "red" => P2[n] # Nil /\ (P2[n] = c \/ color[P2[n]] = "black")
    BY <1>20
  <2>3. \/ c = T2["left"][Nil] /\ AllEven(T2, color, B, R \ {x})
        \/ q \in R \ {x} /\ AllEven(T2, color, B, (R \ {x}) \ {q}) /\ Lacks(T2, color, B, q, c)
    <3>1. CASE q = Nil
      <4>1. c = T2["left"][Nil]
        BY <3>1, <1>10, <1>12
      <4>2. \A n \in R \ {x} : n # q
        BY <3>1, <1>4
      <4>3. QED
        BY <4>1, <4>2, <1>19 DEF AllEven
    <3>2. CASE q # Nil
      <4>1. q \in R \ {x} /\ q \in Places
        BY <3>2, <1>4, <1>6
      <4>2. AllEven(T2, color, B, (R \ {x}) \ {q})
        BY <1>19 DEF AllEven
      <4>3. Opp(t) \in Sides /\ Opp(t) # t /\ \A s \in Sides : s = t \/ s = Opp(t)
        BY <1>6, OppFacts
      <4>4. T2[Opp(t)][q] = child[Opp(t)][q]
        BY <4>1, <4>3, <1>12
      <4>5. Even(child, color, B, q)
        BY <4>1, <1>3 DEF AllEven
      <4>6. B[child[Opp(t)][q]] = B[x] /\ B[q] = B[x] + Weight(color, q)
        <5>1. \A s \in Sides : B[child[s][q]] = B[child["left"][q]]
          BY <4>5 DEF Even, Sides
        <5>2. B[child["left"][q]] = B[x]
          BY <5>1, <1>6
        <5>3. QED
          BY <5>1, <5>2, <4>3, <4>5 DEF Even
      <4>7. B[T2[Opp(t)][q]] = B[c] + 1 /\ B[q] = B[c] + 1 + Weight(color, q)
        BY <4>4, <4>6, <2>1
      <4>8. Lacks(T2, color, B, q, c)
        BY <4>7, <1>6, <1>12 DEF Lacks
      <4>9. QED
        BY <4>1, <4>2, <4>8
    <3>3. QED
      BY <3>1, <3>2
  <2>4. c \in (R \ {x}) \cup {Nil}
    BY <1>7
  <2>5. Colored(T2, P2, color, R \ {x}, B, "remove_color", c, q)
    BY <2>2, <2>3, <2>4, <1>3 DEF Colored
  <2>6. Colored(T2, parent', color', registered', B, pc', c, q)
    BY <2>1, <2>5, <1>1 DEF P2, R2
  <2>7. /\ <<t, q, c>> \in Sides \X Places \X Places
    BY <1>6, <1>11
  <2>8. writes' \in Seq(Sides \X Places \X Places)
        /\ \A i \in 1 .. Len(writes') : writes'[i][2] = Nil => writes'[i][1] = "left"
    BY <2>7, <1>1, <1>10
  <2>9. PICK D2 : Sorted(T2, D2, R \ {x})
    BY <1>16
  <2>10. /\ Written(child, writes', T2) /\ Tree(T2, parent', registered')
         /\ Sorted(T2, D2, registered')
    BY <2>9, <1>1, <1>12, <1>15 DEF P2, R2
  <2>11. /\ Writes /\ UNCHANGED child /\ stays' = (stays /\ key # x)
         /\ parent' \in [Socks -> Places] /\ color' \in [Socks -> {"red", "black"}]
         /\ registered' = registered \ {x} /\ old' = x /\ elm' = c /\ par' = q
         /\ pc' \in {"remove_color", "free"}
    BY <2>1, <1>1, <1>3, <1>17 DEF P2, R2, R
  <2>12. QED
    BY <2>6, <2>8, <2>10, <2>11, <1>3, <1>11, RemoveIInv
<1>23. QED
  <2>1. color[x] \in {"red", "black"}
    BY <1>3
  <2>2. QED
    BY <2>1, <1>21, <1>22

(***************************************************************************)
(* The removal of an item with two children.                               *)
(***************************************************************************)

\* h is the next larger item below x, which has two children.
Inherits(T, D, R, x, h) ==
    /\ x \in R /\ h \in D[T["right"][x]]
    /\ \A s \in Sides : T[s][x] # Nil
    /\ T["left"][h] = Nil
    /\ \A m \in D[T["right"][x]] : m = h \/ h < m

\* What there is to know of the places around h and x.
IsHeir(T, P, D, R, x, h) ==
    LET q == P[h]
        p == P[x]
        c == T["right"][h]
        sh == SideIn(T, P, h)
        sx == SideIn(T, P, x)
    IN  /\ h \in R /\ h # x /\ x \notin D[h] /\ x < h
        /\ sh \in Sides /\ q \in R /\ q # h /\ T[sh][q] = h /\ (q = x => sh = "right")
        /\ sx \in Sides /\ p \in R \cup {Nil} /\ p # x /\ p # h /\ T[sx][p] = x
        /\ p = Nil => sx = "left"
        /\ c \in R \cup {Nil} /\ c # h /\ c # x /\ (c # Nil => P[c] = h)
        /\ \A s \in Sides, n \in R \cup {Nil} : T[s][n] = h => s = sh /\ n = q
        /\ \A s \in Sides, n \in R \cup {Nil} : T[s][n] = x => s = sx /\ n = p
        /\ T["left"][x] # h

\* Where the heir hangs: below the item it follows, and to the left of all on its right.
LEMMA HeirPlaces ==
  ASSUME NEW R \in SUBSET Socks, NEW T, NEW P, NEW D, Tree(T, P, R), Sorted(T, D, R),
         NEW x, NEW h, Inherits(T, D, R, x, h)
  PROVE  IsHeir(T, P, D, R, x, h)
<1> USE TreeAssumption
<1> DEFINE r == T["right"][x]
<1>1. /\ x \in R /\ h \in D[r] /\ T["left"][h] = Nil /\ r # Nil
  BY DEF Inherits, Sides
<1>2. r \in R /\ r \in Places /\ Nil \notin R /\ R \subseteq Nat
  BY <1>1 DEF Tree, Sides, Places
<1>3. h \in R
  BY <1>1, <1>2 DEF Sorted
<1>4. /\ x \in D[x]
      /\ \A s \in Sides : x \notin D[T[s][x]]
  BY <1>1, BelowItems
<1>5. h # x
  BY <1>1, <1>4 DEF Sides
<1>6. x < h /\ \A m \in D[T["left"][x]] : m < x
  BY <1>1 DEF Sorted, Before, Sides
<1>7. D[h] \subseteq D[r]
  <2>1. r \in R \cup {Nil} /\ h \in D[r]
    BY <1>1, <1>2
  <2> HIDE DEF r
  <2>2. QED
    BY <2>1, <1>3, Nested
<1>8. x \notin D[h]
  BY <1>4, <1>7 DEF Sides
<1>9. h \in D[h]
  BY <1>3, BelowItems
<1>10. T["left"][x] # h
  BY <1>1, <1>2, <1>3, <1>6, <1>9
<1> DEFINE q == P[h]
           p == P[x]
           c == T["right"][h]
           sh == SideIn(T, P, h)
           sx == SideIn(T, P, x)
<1>11. sh \in Sides /\ q \in R \cup {Nil} /\ q # h /\ T[sh][q] = h
       /\ \A s \in Sides, n \in R \cup {Nil} : T[s][n] = h => s = sh /\ n = q
  <2>1. HangsAt(T, R, h, SideIn(T, P, h), P[h])
    BY <1>3, TopOf
  <2>2. QED
    BY <2>1 DEF HangsAt
<1>12. sx \in Sides /\ p \in R \cup {Nil} /\ p # x /\ T[sx][p] = x
       /\ \A s \in Sides, n \in R \cup {Nil} : T[s][n] = x => s = sx /\ n = p
  <2>1. HangsAt(T, R, x, SideIn(T, P, x), P[x])
    BY <1>1, TopOf
  <2>2. QED
    BY <2>1 DEF HangsAt
<1> HIDE DEF q, p, sh, sx
<1>13. T["right"][Nil] = Nil /\ D[T["left"][Nil]] = R
  BY DEF Tree, Sorted
<1>14. q # Nil
  <2>1. T["left"][Nil] # h
    BY <1>1, <1>8, <1>13
  <2>2. QED
    BY <2>1, <1>2, <1>3, <1>11, <1>13 DEF Sides
<1>15. q = x => sh = "right"
  BY <1>10, <1>11 DEF Sides
<1>16. p = Nil => sx = "left"
  BY <1>1, <1>2, <1>12, <1>13 DEF Sides
<1>17. c \in R \cup {Nil} /\ (c # Nil => P[c] = h) /\ c # h
  <2>1. "right" \in Sides
    BY DEF Sides
  <2>2. c \in R \cup {Nil} /\ (c # Nil => P[c] = h)
    BY <2>1, <1>3 DEF Tree
  <2>3. h \notin D[c]
    BY <2>1, <1>3, BelowItems
  <2>4. QED
    BY <2>2, <2>3, <1>9
<1>18. p # h /\ c # x
  <2>1. \A s \in Sides : T[s][h] # x
    <3>1. \A s \in Sides : D[T[s][h]] \subseteq D[h]
      BY <1>3, BelowItems
    <3>2. QED
      BY <3>1, <1>4, <1>8
  <2>2. QED
    BY <2>1, <1>12 DEF Sides
<1>19. QED
  BY <1>3, <1>5, <1>6, <1>8, <1>10, <1>11, <1>12, <1>14, <1>15, <1>16, <1>17, <1>18
     DEF IsHeir, q, p, sh, sx

\* The links and the upward links after h has taken the place of x.
Moves(T, P, x, h, T2, P2) ==
    LET q == P[h]
        p == P[x]
        c == T["right"][h]
        sh == SideIn(T, P, h)
        sx == SideIn(T, P, x)
    IN  /\ T2 \in [Sides -> [Places -> Places]]
        /\ T2[sh][q] = c
        /\ T2["left"][h] = T["left"][x]
        /\ T2["right"][h] = IF q = x THEN c ELSE T["right"][x]
        /\ T2[sx][p] = h
        /\ \A s \in Sides, n \in Places \ {h} :
              (s # sh \/ n # q) /\ (s # sx \/ n # p) => T2[s][n] = T[s][n]
        /\ P2 = [n \in Socks |->
              CASE n = h -> p
                [] n = c -> IF q = x THEN h ELSE q
                [] n # h /\ n # c /\ P[n] = x -> h
                [] OTHER -> P[n]]

\* The heir in the place of the item: a search tree of the others.
LEMMA MoveTree ==
  ASSUME NEW R \in SUBSET Socks, NEW T, NEW P, NEW D, Tree(T, P, R), Sorted(T, D, R),
         NEW x, NEW h, Inherits(T, D, R, x, h),
         NEW T2, NEW P2, Moves(T, P, x, h, T2, P2)
  PROVE  Tree(T2, P2, R \ {x}) /\ \E D2 : Sorted(T2, D2, R \ {x})
<1> USE TreeAssumption
<1> DEFINE q == P[h]
           p == P[x]
           c == T["right"][h]
           r == T["right"][x]
           sh == SideIn(T, P, h)
           sx == SideIn(T, P, x)
           R1 == R \ {h}
           P1 == [n \in Socks |-> IF n = c THEN q ELSE P[n]]
           D1 == [n \in Places |-> D[n] \ {h}]
<1>1. /\ x \in R /\ h \in D[r] /\ T["left"][h] = Nil
      /\ \A m \in D[r] : m = h \/ h < m
  BY DEF Inherits
<1>2. IsHeir(T, P, D, R, x, h)
  BY HeirPlaces
<1>3. /\ h \in R /\ h # x /\ x \notin D[h] /\ x < h
      /\ sh \in Sides /\ q \in R /\ q # h /\ T[sh][q] = h /\ (q = x => sh = "right")
      /\ sx \in Sides /\ p \in R \cup {Nil} /\ p # x /\ p # h /\ T[sx][p] = x
      /\ c \in R \cup {Nil} /\ c # h /\ c # x /\ (c # Nil => P[c] = h)
      /\ \A s \in Sides, n \in R \cup {Nil} : T[s][n] = h => s = sh /\ n = q
      /\ \A s \in Sides, n \in R \cup {Nil} : T[s][n] = x => s = sx /\ n = p
  BY <1>2 DEF IsHeir
<1>4. /\ T2 \in [Sides -> [Places -> Places]]
      /\ T2[sh][q] = c
      /\ T2["left"][h] = T["left"][x]
      /\ T2["right"][h] = IF q = x THEN c ELSE r
      /\ T2[sx][p] = h
      /\ \A s \in Sides, n \in Places \ {h} :
            (s # sh \/ n # q) /\ (s # sx \/ n # p) => T2[s][n] = T[s][n]
      /\ P2 = [n \in Socks |->
            CASE n = h -> p
              [] n = c -> IF q = x THEN h ELSE q
              [] n # h /\ n # c /\ P[n] = x -> h
              [] OTHER -> P[n]]
  BY DEF Moves
<1>5. Places = Socks \cup {Nil} /\ Nil \notin Socks /\ R \subseteq Socks
  BY DEF Places
<1>6. P1[x] = p /\ \A n \in Socks : P1[n] = IF n = c THEN q ELSE P[n]
  BY <1>1, <1>3
<1>7. \A n \in Places : D1[n] = D[n] \ {h}
  OBVIOUS
<1>8. T \in [Sides -> [Places -> Places]]
  BY DEF Tree
<1> HIDE DEF q, p, c, r, sh, sx, P1, D1
<1>9. PICK T1 : /\ T1[sh][q] = c
                /\ \A s \in Sides, n \in Places : (s # sh \/ n # q) => T1[s][n] = T[s][n]
                /\ T1 \in [Sides -> [Places -> Places]]
  <2>1. sh \in Sides
    BY <1>3
  <2>2. q \in Places
    BY <1>3, <1>5
  <2>3. c \in Places
    BY <1>3, <1>5
  <2>4. CanWriteOne(T, sh, q, c)
    BY <1>8, <2>1, <2>2, <2>3, WriteOne
  <2>5. QED
    BY <2>4 DEF CanWriteOne, Written
<1>10. Cuts(T, P, h, T1, P1)
  BY <1>1, <1>9 DEF Cuts, P1, c, q, sh
<1>11. (\E s \in Sides : T[s][h] = Nil) /\ h \in R
  BY <1>1, <1>3 DEF Sides
<1>12. Tree(T1, P1, R1)
  BY <1>10, <1>11, CutTree
<1>13. Sorted(T1, D1, R1)
  BY <1>10, <1>11, CutSorted DEF D1
<1>14. SideIn(T1, P1, x) = sx
  <2>1. T1["left"][p] = x <=> T["left"][p] = x
    <3>1. p \in Places /\ "left" \in Sides
      BY <1>3, <1>5 DEF Sides
    <3>2. CASE p = q /\ sh = "left"
      BY <3>2, <1>3, <1>9
    <3>3. CASE ~(p = q /\ sh = "left")
      BY <3>1, <3>3, <1>9
    <3>4. QED
      BY <3>2, <3>3
  <2>2. QED
    BY <2>1, <1>6 DEF SideIn, sx, p
<1>15. T1["left"][x] = T["left"][x] /\ T1["right"][x] = IF q = x THEN c ELSE r
  BY <1>1, <1>3, <1>5, <1>9 DEF Sides, r
<1>16. Takes(T1, P1, x, h, T2, P2)
  <2>1. \A s \in Sides : T2[s][h] = T1[s][x]
    BY <1>4, <1>15 DEF Sides
  <2>2. ASSUME NEW s \in Sides, NEW n \in Places \ {h, x}, s # sx \/ n # p
        PROVE  T2[s][n] = T1[s][n]
    BY <2>2, <1>4, <1>9
  <2>3. P2 = [n \in Socks |-> IF n = h THEN p ELSE IF P1[n] = x THEN h ELSE P1[n]]
    <3>1. ASSUME NEW n \in Socks
          PROVE  (CASE n = h -> p
                    [] n = c -> IF q = x THEN h ELSE q
                    [] n # h /\ n # c /\ P[n] = x -> h
                    [] OTHER -> P[n])
                 = IF n = h THEN p ELSE IF P1[n] = x THEN h ELSE P1[n]
      <4>1. P1[n] = IF n = c THEN q ELSE P[n]
        BY <1>6
      <4>2. QED
        BY <4>1, <1>3
    <3>2. QED
      BY <3>1, <1>4
  <2>4. QED
    BY <2>1, <2>2, <2>3, <1>4, <1>6, <1>14 DEF Takes
<1>17. x \in R1 /\ h \in Socks \ R1 /\ R1 \in SUBSET Socks
  BY <1>1, <1>3, <1>5
<1>18. (R1 \ {x}) \cup {h} = R \ {x}
  BY <1>3
<1> HIDE DEF R1
<1>19. Tree(T2, P2, (R1 \ {x}) \cup {h})
  BY <1>12, <1>13, <1>16, <1>17, TakeTree
<1>20. \A s \in Sides : \A m \in D1[T1[s][x]] : Before(s, m, h)
  <2>1. D1[T1["left"][x]] \subseteq D[T["left"][x]]
    <3>1. T["left"][x] \in Places
      BY <1>1, <1>5, <1>8 DEF Sides
    <3>2. QED
      BY <3>1, <1>7, <1>15
  <2>2. \A m \in D[T["left"][x]] : m \in Nat /\ m < x
    <3>1. \A m \in D[T["left"][x]] : m < x
      BY <1>1 DEF Sorted, Before, Sides
    <3>2. T["left"][x] \in Places
      BY <1>1, <1>5, <1>8 DEF Sides
    <3>3. D[T["left"][x]] \subseteq R
      BY <3>2 DEF Sorted
    <3>4. QED
      BY <3>1, <3>3
  <2>3. x \in Nat /\ h \in Nat /\ x < h
    BY <1>1, <1>3, <1>5
  <2>4. \A m \in D1[T1["left"][x]] : m < h
    BY <2>1, <2>2, <2>3
  <2>5. D1[T1["right"][x]] \subseteq D[r] \ {h}
    <3>1. r \in Places /\ c \in Places
      BY <1>1, <1>3, <1>5, <1>8 DEF Sides, r
    <3>2. D[c] \subseteq D[r]
      <4>1. D[c] \subseteq D[h]
        BY <1>3 DEF Sorted, c
      <4>2. r \in R \cup {Nil}
        BY <1>1 DEF r, Tree, Sides
      <4>3. D[h] \subseteq D[r]
        BY <1>1, <1>3, <4>2, Nested
      <4>4. QED
        BY <4>1, <4>3
    <3>3. QED
      BY <3>1, <3>2, <1>7, <1>15
  <2>6. \A m \in D1[T1["right"][x]] : h < m
    BY <2>5, <1>1
  <2>7. QED
    BY <2>4, <2>6 DEF Before, Sides
<1>21. ASSUME NEW n \in R1, NEW s \in Sides, x \in D1[T1[s][n]]
       PROVE  Before(s, h, n)
  <2>1. n \in R /\ n \in Places /\ T1[s][n] \in Places
    BY <1>5, <1>9 DEF R1
  <2>2. x \in D[T1[s][n]]
    BY <2>1, <1>7, <1>21
  <2>3. ~(s = sh /\ n = q)
    <3>1. x \notin D[c]
      <4>1. D[c] \subseteq D[h]
        BY <1>3 DEF Sorted, c
      <4>2. QED
        BY <4>1, <1>3
    <3>2. QED
      BY <3>1, <2>2, <1>9
  <2>4. T1[s][n] = T[s][n]
    BY <2>1, <2>3, <1>9
  <2>5. PICK k \in R \cup {Nil} : k = T[s][n]
    BY <2>1 DEF Tree
  <2>6. x \in D[k]
    BY <2>2, <2>4, <2>5
  <2>7. D[x] \subseteq D[k]
    BY <2>6, <1>1, Nested
  <2>8. h \in D[x]
    <3>1. x \in R /\ h \in D[r]
      BY <1>1
    <3>2. D[x] = {x} \cup D[T["left"][x]] \cup D[T["right"][x]]
      BY <3>1 DEF Sorted
    <3>3. QED
      BY <3>1, <3>2 DEF r
  <2>9. \A m \in D[T[s][n]] : Before(s, m, n)
    BY <2>1 DEF Sorted
  <2>10. QED
    BY <2>5, <2>7, <2>8, <2>9
<1>22. \E D2 : Sorted(T2, D2, (R1 \ {x}) \cup {h})
  <2>1. \A n \in R1, s \in Sides : x \in D1[T1[s][n]] => Before(s, h, n)
    BY <1>21
  <2>2. Sorted(T2, [n \in Places |-> IF n = h THEN (D1[x] \ {x}) \cup {h}
                                     ELSE IF x \in D1[n] THEN (D1[n] \ {x}) \cup {h}
                                     ELSE D1[n]], (R1 \ {x}) \cup {h})
    BY <2>1, <1>12, <1>13, <1>16, <1>17, <1>20, TakeSorted
  <2>3. QED
    BY <2>2
<1>23. QED
  BY <1>18, <1>19, <1>22

\* The heights after that: one black item is missing where h was if h was black.
LEMMA MoveColors ==
  ASSUME NEW R \in SUBSET Socks, NEW T, NEW P, NEW D, Tree(T, P, R), Sorted(T, D, R),
         NEW x, NEW h, Inherits(T, D, R, x, h),
         NEW T2, NEW P2, Moves(T, P, x, h, T2, P2),
         NEW C \in [Socks -> {"red", "black"}], NEW C2, C2 = [C EXCEPT ![h] = C[x]],
         NEW B \in [Places -> Nat], B[Nil] = 0, AllEven(T, C, B, R), NoRedPair(P, C, R)
  PROVE  \E B2 : Colored(T2, P2, C2, R \ {x}, B2,
                         IF C[h] = "black" THEN "remove_color" ELSE "free",
                         T["right"][h], IF P[h] = x THEN h ELSE P[h])
<1> USE TreeAssumption
<1> DEFINE q == P[h]
           p == P[x]
           c == T["right"][h]
           sh == SideIn(T, P, h)
           sx == SideIn(T, P, x)
           Hole == IF q = x THEN h ELSE q
           Orig(n) == IF n = h THEN x ELSE n
           B2 == [n \in Places |-> IF n = h THEN B[x] ELSE B[n]]
<1>1. x \in R /\ T["left"][h] = Nil
  BY DEF Inherits
<1>2. IsHeir(T, P, D, R, x, h)
  BY HeirPlaces
<1>3. /\ h \in R /\ h # x /\ x \notin D[h] /\ x < h
      /\ sh \in Sides /\ q \in R /\ q # h /\ T[sh][q] = h /\ (q = x => sh = "right")
      /\ sx \in Sides /\ p \in R \cup {Nil} /\ p # x /\ p # h /\ T[sx][p] = x
      /\ c \in R \cup {Nil} /\ c # h /\ c # x /\ (c # Nil => P[c] = h)
      /\ \A s \in Sides, n \in R \cup {Nil} : T[s][n] = h => s = sh /\ n = q
      /\ \A s \in Sides, n \in R \cup {Nil} : T[s][n] = x => s = sx /\ n = p
      /\ T["left"][x] # h
  BY <1>2 DEF IsHeir
<1>4. /\ T2[sh][q] = c
      /\ T2["left"][h] = T["left"][x]
      /\ T2["right"][h] = IF q = x THEN c ELSE T["right"][x]
      /\ T2[sx][p] = h
      /\ \A s \in Sides, n \in Places \ {h} :
            (s # sh \/ n # q) /\ (s # sx \/ n # p) => T2[s][n] = T[s][n]
      /\ \A n \in Socks : P2[n] =
            CASE n = h -> p
              [] n = c -> IF q = x THEN h ELSE q
              [] n # h /\ n # c /\ P[n] = x -> h
              [] OTHER -> P[n]
  BY DEF Moves
<1>5. Places = Socks \cup {Nil} /\ Nil \notin Socks /\ R \subseteq Socks
  BY DEF Places
<1>6. \A s \in Sides, n \in R : T[s][n] \in R \cup {Nil} /\ (T[s][n] # Nil => P[T[s][n]] = n)
  BY DEF Tree
<1>7. C2[h] = C[x] /\ \A n \in Socks \ {h} : C2[n] = C[n]
  BY <1>3, <1>5
<1>8. B2 \in [Places -> Nat] /\ B2[h] = B[x] /\ B2[Nil] = 0 /\ \A n \in Places \ {h} : B2[n] = B[n]
  <2>1. \A n \in Places : B2[n] = IF n = h THEN B[x] ELSE B[n]
    OBVIOUS
  <2>2. h \in Places \ {Nil} /\ x \in Places /\ Nil \in Places
    BY <1>1, <1>3, <1>5
  <2>3. B2 \in [Places -> Nat]
    BY <2>2
  <2> HIDE DEF B2
  <2>4. QED
    BY <2>1, <2>2, <2>3
<1>9. T["right"][x] = h <=> q = x
  BY <1>1, <1>3, <1>6 DEF Sides
<1>10. /\ Hole \in R \ {x} /\ Orig(Hole) = q
       /\ \A n \in R \ {x} : Orig(n) \in R
  BY <1>1, <1>3
<1> HIDE DEF q, p, c, sh, sx, B2
<1>11. ASSUME NEW n \in R \ {x}
       PROVE  B2[n] = B[Orig(n)] /\ C2[n] = C[Orig(n)]
  BY <1>5, <1>7, <1>8
<1>12. ASSUME NEW n \in R \ {x}, NEW s \in Sides, n # Hole \/ s # sh
       PROVE  B2[T2[s][n]] = B[T[s][Orig(n)]]
  <2>1. CASE n = h
    <3>1. T2[s][h] = T[s][x]
      <4>1. s = "right" => q # x
        BY <2>1, <1>3, <1>12
      <4>2. QED
        BY <4>1, <1>4 DEF Sides
    <3>2. T[s][x] # h
      <4>1. s = "right" => q # x
        BY <2>1, <1>3, <1>12
      <4>2. QED
        BY <4>1, <1>3, <1>9 DEF Sides
    <3>3. T[s][x] \in Places \ {h}
      BY <3>2, <1>1, <1>5, <1>6
    <3>4. QED
      BY <2>1, <3>1, <3>3, <1>8
  <2>2. CASE n # h /\ s = sx /\ n = p
    BY <2>2, <1>3, <1>4, <1>8
  <2>3. CASE n # h /\ (s # sx \/ n # p)
    <3>1. s # sh \/ n # q
      BY <2>3, <1>12
    <3>2. T2[s][n] = T[s][n]
      BY <2>3, <3>1, <1>4, <1>5
    <3>3. T[s][n] # h
      BY <3>1, <1>3
    <3>4. T[s][n] \in Places \ {h}
      BY <3>3, <1>5, <1>6
    <3>5. QED
      BY <2>3, <3>2, <3>4, <1>8
  <2>4. QED
    BY <2>1, <2>2, <2>3
<1>13. T2[sh][Hole] = c /\ T[sh][Orig(Hole)] = h
  <2>1. CASE q = x
    BY <2>1, <1>3, <1>4, <1>10
  <2>2. CASE q # x
    BY <2>2, <1>3, <1>4, <1>10
  <2>3. QED
    BY <2>1, <2>2
<1>14. B[h] = B[c] + Weight(C, h) /\ B[c] \in Nat /\ B2[c] = B[c]
  <2>1. Even(T, C, B, h)
    BY <1>3 DEF AllEven
  <2>2. B[h] = B[c] + Weight(C, h)
    BY <2>1 DEF Even, c
  <2>3. c \in Places \ {h}
    BY <1>3, <1>5
  <2>4. QED
    BY <2>2, <2>3, <1>8
<1>15. ASSUME NEW n \in R \ {x}
       PROVE  Even(T, C, B, Orig(n))
  BY <1>10 DEF AllEven
<1>16. ASSUME NEW n \in (R \ {x}) \ {Hole}
       PROVE  Even(T2, C2, B2, n)
  <2> DEFINE o == Orig(n)
  <2>1. \A s \in Sides : B2[T2[s][n]] = B[T[s][o]]
    BY <1>12
  <2>2. B2[n] = B[o] /\ C2[n] = C[o] /\ Even(T, C, B, o)
    BY <1>11, <1>15
  <2> HIDE DEF o
  <2>3. QED
    BY <2>1, <2>2 DEF Even, Weight, Sides
<1>17. ASSUME NEW n \in (R \ {x}) \ {c}, C2[n] = "red"
       PROVE  P2[n] # Nil /\ C2[P2[n]] = "black"
  <2>1. CASE n = h
    <3>1. C[x] = "red" /\ P2[n] = p
      BY <2>1, <1>3, <1>4, <1>5, <1>7, <1>17
    <3>2. p # Nil /\ C[p] = "black"
      BY <3>1, <1>1 DEF NoRedPair, p
    <3>3. p \in Socks \ {h}
      BY <3>2, <1>3, <1>5
    <3>4. QED
      BY <3>1, <3>2, <3>3, <1>7
  <2>2. CASE n # h
    <3>1. n \in Socks \ {h} /\ C[n] = "red"
      BY <2>2, <1>5, <1>7, <1>17
    <3>2. P[n] # Nil /\ C[P[n]] = "black" /\ P[n] \in R
      BY <3>1, <1>17 DEF NoRedPair, Tree
    <3>3. CASE P[n] = x
      <4>1. P2[n] = h
        BY <2>2, <3>1, <3>3, <1>4, <1>17
      <4>2. QED
        BY <4>1, <3>2, <3>3, <1>3, <1>5, <1>7
    <3>4. CASE P[n] # x
      <4>1. P2[n] = P[n]
        BY <2>2, <3>1, <3>4, <1>4, <1>17
      <4>2. P[n] # h
        <5>1. PICK s \in Sides : T[s][P[n]] = n
          BY <1>17 DEF Tree
        <5>2. n # Nil
          BY <3>1, <1>5
        <5>3. QED
          BY <5>1, <5>2, <1>1, <1>17 DEF Sides, c
      <4>3. P[n] \in Socks \ {h}
        BY <4>2, <3>2, <1>5
      <4>4. QED
        BY <4>1, <4>3, <3>2, <1>7
    <3>5. QED
      BY <3>3, <3>4
  <2>3. QED
    BY <2>1, <2>2
<1>18. CASE C[h] = "black"
  <2>1. B[h] = B[c] + 1
    BY <1>14, <1>18 DEF Weight
  <2>2. Lacks(T2, C2, B2, Hole, c)
    <3> DEFINE o == Orig(Hole)
    <3>1. Even(T, C, B, o) /\ B2[Hole] = B[o] /\ C2[Hole] = C[o]
      BY <1>10, <1>11, <1>15
    <3>2. T2[sh][Hole] = c /\ T[sh][o] = h
      BY <1>13
    <3>3. Opp(sh) \in Sides /\ Opp(sh) # sh
      BY <1>3, OppFacts
    <3>4. B2[T2[Opp(sh)][Hole]] = B[T[Opp(sh)][o]]
      BY <3>3, <1>10, <1>12
    <3> HIDE DEF o, Hole
    <3>5. \A s \in Sides : B[T[s][o]] = B[T["left"][o]]
      BY <3>1 DEF Even, Sides
    <3>6. B[T["left"][o]] = B[h]
      BY <3>2, <3>5, <1>3
    <3>7. B2[T2[Opp(sh)][Hole]] = B2[c] + 1
      BY <2>1, <3>3, <3>4, <3>5, <3>6, <1>14
    <3>8. B2[Hole] = B2[c] + 1 + Weight(C2, Hole)
      BY <2>1, <3>1, <3>6, <1>14 DEF Even, Weight
    <3>9. QED
      BY <3>2, <3>7, <3>8, <1>3 DEF Lacks
  <2>3. AllEven(T2, C2, B2, (R \ {x}) \ {Hole})
    BY <1>16 DEF AllEven
  <2>4. c \in (R \ {x}) \cup {Nil}
    BY <1>3
  <2>5. Colored(T2, P2, C2, R \ {x}, B2, "remove_color", c, Hole)
    <3> HIDE DEF Hole
    <3>1. QED
      BY <2>2, <2>3, <2>4, <1>8, <1>10, <1>17 DEF Colored
  <2>6. QED
    BY <2>5, <1>18 DEF c, q
<1>19. CASE C[h] = "red"
  <2>1. B[h] = B[c]
    BY <1>14, <1>19 DEF Weight
  <2>2. Even(T2, C2, B2, Hole)
    <3> DEFINE o == Orig(Hole)
    <3>1. Even(T, C, B, o) /\ B2[Hole] = B[o] /\ C2[Hole] = C[o]
      BY <1>10, <1>11, <1>15
    <3>2. \A s \in Sides : B2[T2[s][Hole]] = B[T[s][o]]
      <4>1. B2[T2[sh][Hole]] = B[T[sh][o]]
        BY <2>1, <1>13, <1>14
      <4>2. \A s \in Sides \ {sh} : B2[T2[s][Hole]] = B[T[s][o]]
        BY <1>10, <1>12
      <4>3. QED
        BY <4>1, <4>2
    <3> HIDE DEF o, Hole
    <3>3. QED
      BY <3>1, <3>2 DEF Even, Weight, Sides
  <2>3. AllEven(T2, C2, B2, R \ {x})
    BY <2>2, <1>16 DEF AllEven
  <2>4. NoRedPair(P2, C2, R \ {x})
    <3>1. c \in R => C2[c] # "red"
      <4>1. c \in R => c # Nil /\ c \in Socks \ {h}
        BY <1>3, <1>5
      <4>2. c \in R => C[c] # "red"
        BY <4>1, <1>3, <1>19 DEF NoRedPair
      <4>3. QED
        BY <4>1, <4>2, <1>7
    <3>2. QED
      BY <3>1, <1>17 DEF NoRedPair
  <2>5. Colored(T2, P2, C2, R \ {x}, B2, "free", c, Hole)
    <3> HIDE DEF Hole
    <3>1. QED
      BY <2>3, <2>4, <1>8 DEF Colored
  <2>6. QED
    BY <2>5, <1>19 DEF c, q
<1>20. QED
  <2>1. C[h] \in {"red", "black"}
    BY <1>3, <1>5
  <2>2. QED
    BY <2>1, <1>18, <1>19

\* xy_rb_remove of an item with two children: the next item takes its place.
LEMMA RemoveTwoStep ==
  ASSUME IInv, NEW x \in Socks, RemoveTwo(x)
  PROVE  IInv'
<1> USE TreeAssumption
<1> DEFINE R == registered
           R2 == registered'
           P2 == parent'
           C2 == color'
           h == Leftmost(child["right"][x])
           c == child["right"][h]
           q == parent[h]
           p == parent[x]
           sh == SideIn(child, parent, h)
           sx == SideIn(child, parent, x)
           l == child["left"][x]
           v == IF q = x THEN c ELSE child["right"][x]
           hole == IF q = x THEN h ELSE q
<1>1. /\ writes = <<>> /\ pc = "idle" /\ SearchEnd(x) = x
      /\ \A s \in Sides : child[s][x] # Nil
      /\ P2 = [n \in Socks |->
            CASE n = h -> p
              [] n = c -> hole
              [] n # h /\ n # c /\ parent[n] = x -> h
              [] OTHER -> parent[n]]
      /\ C2 = [color EXCEPT ![h] = color[x]]
      /\ writes' = << <<sh, q, c>>, <<"left", h, l>>, <<"right", h, v>>, <<sx, p, h>> >>
      /\ elm' = c /\ par' = hole
      /\ R2 = R \ {x} /\ old' = x
      /\ pc' = IF color[h] = "black" THEN "remove_color" ELSE "free"
      /\ stays' = (stays /\ key # x)
      /\ Writes
      /\ UNCHANGED child
  <2>1. /\ writes = <<>> /\ pc = "idle" /\ SearchEnd(x) = x
        /\ \A s \in Sides : child[s][x] # Nil
    BY DEF RemoveTwo, Reached
  <2>2. elm' = c /\ par' = hole
    BY DEF RemoveTwo
  <2>3. writes' = << <<sh, q, c>>, <<"left", h, l>>, <<"right", h, v>>, <<sx, p, h>> >>
    BY <2>2 DEF RemoveTwo, Replaced, SideOf, SideIn
  <2>4. P2 = [n \in Socks |->
            CASE n = h -> p
              [] n = c -> hole
              [] n # h /\ n # c /\ parent[n] = x -> h
              [] OTHER -> parent[n]]
    BY <2>2 DEF RemoveTwo
  <2>5. C2 = [color EXCEPT ![h] = color[x]]
    BY DEF RemoveTwo
  <2>6. Removes(x, color[h])
    BY DEF RemoveTwo
  <2> HIDE DEF h
  <2>7. QED
    BY <2>1, <2>2, <2>3, <2>4, <2>5, <2>6 DEF Removes
<1>2. PICK D, B : Shape(child, D, B)
  BY <1>1, AtRest
<1>3. /\ R \in SUBSET Socks /\ Tree(child, parent, R) /\ Sorted(child, D, R)
      /\ B \in [Places -> Nat] /\ B[Nil] = 0
      /\ NoRedPair(parent, color, R) /\ AllEven(child, color, B, R)
      /\ color \in [Socks -> {"red", "black"}] /\ parent \in [Socks -> Places]
      /\ child \in [Sides -> [Places -> Places]]
      /\ TypeOK
  BY <1>1, <1>2 DEF Shape, Colored, IInv, TypeOK, Writer
<1>4. R \subseteq Socks /\ Places = Socks \cup {Nil} /\ Nil \notin Socks
  BY <1>3 DEF Places
<1>5. x \in R
  BY <1>1, <1>3, SearchFacts
<1> HIDE DEF R, R2, P2, C2
<1>6. Inherits(child, D, R, x, h)
  <2> DEFINE r == child["right"][x]
  <2>1. r \in R
    BY <1>1, <1>3, <1>5 DEF Tree, Sides
  <2> HIDE DEF r
  <2>2. /\ Leftmost(r) \in D[r] /\ Leftmost(r) \in R
        /\ child["left"][Leftmost(r)] = Nil
        /\ \A m \in D[r] : m = Leftmost(r) \/ Leftmost(r) < m
    BY <2>1, <1>3, LeftmostFacts
  <2>3. QED
    BY <2>2, <1>1, <1>5 DEF r, Inherits
<1> HIDE DEF h
<1>7. IsHeir(child, parent, D, R, x, h)
  BY <1>3, <1>6, HeirPlaces
<1>8. /\ h \in R /\ h # x
      /\ sh \in Sides /\ q \in R /\ q # h /\ child[sh][q] = h /\ (q = x => sh = "right")
      /\ sx \in Sides /\ p \in R \cup {Nil} /\ p # x /\ p # h /\ child[sx][p] = x
      /\ p = Nil => sx = "left"
      /\ c \in R \cup {Nil} /\ c # h /\ c # x
  BY <1>7 DEF IsHeir
<1>9. l \in Places /\ v \in Places
  <2>1. \A s \in Sides : child[s][x] \in Places
    BY <1>3, <1>4, <1>5
  <2>2. QED
    BY <2>1, <1>4, <1>8 DEF Sides
<1> HIDE DEF c, q, p, sh, sx, l, v, hole
<1>10. "left" \in Sides /\ "right" \in Sides
  BY DEF Sides
<1>11. /\ h \in Places /\ c \in Places /\ q \in Places /\ p \in Places
       /\ hole \in Places
  BY <1>4, <1>8 DEF hole
<1>12. /\ sh # "left" \/ q # h
       /\ sh # "right" \/ q # h
       /\ sh # sx \/ q # p
       /\ "left" # "right" \/ h # h
       /\ "left" # sx \/ h # p
       /\ "right" # sx \/ h # p
  BY <1>8
<1>13. PICK s2 \in Sides, s3 \in Sides : s2 = "left" /\ s3 = "right"
  BY <1>10
<1>14. PICK T2 :
       /\ Written(child, << <<sh, q, c>>, <<"left", h, l>>, <<"right", h, v>>, <<sx, p, h>> >>, T2)
       /\ T2 \in [Sides -> [Places -> Places]]
       /\ T2[sh][q] = c /\ T2["left"][h] = l /\ T2["right"][h] = v /\ T2[sx][p] = h
       /\ \A s \in Sides, n \in Places :
            (s # sh \/ n # q) /\ (s # "left" \/ n # h) /\ (s # "right" \/ n # h) /\ (s # sx \/ n # p)
               => T2[s][n] = child[s][n]
  <2>1. /\ sh # s2 \/ q # h
        /\ sh # s3 \/ q # h
        /\ sh # sx \/ q # p
        /\ s2 # s3 \/ h # h
        /\ s2 # sx \/ h # p
        /\ s3 # sx \/ h # p
    BY <1>12, <1>13
  <2>2. sh \in Sides /\ sx \in Sides
    BY <1>8
  <2>3. CanWriteFour(child, sh, q, c, s2, h, l, s3, h, v, sx, p, h)
    BY <2>1, <2>2, <1>3, <1>9, <1>11, WriteFour
  <2>4. PICK T2 :
       /\ Written(child, << <<sh, q, c>>, <<s2, h, l>>, <<s3, h, v>>, <<sx, p, h>> >>, T2)
       /\ T2[sh][q] = c /\ T2[s2][h] = l /\ T2[s3][h] = v /\ T2[sx][p] = h
       /\ \A s \in Sides, n \in Places :
            (s # sh \/ n # q) /\ (s # s2 \/ n # h) /\ (s # s3 \/ n # h) /\ (s # sx \/ n # p)
               => T2[s][n] = child[s][n]
    BY <2>3, Zenon DEF CanWriteFour, WroteFour
  <2>5. T2 \in [Sides -> [Places -> Places]]
    BY <2>4 DEF Written
  <2>6. Written(child, << <<sh, q, c>>, <<"left", h, l>>, <<"right", h, v>>, <<sx, p, h>> >>, T2)
    BY <2>4, <1>13
  <2>7. QED
    BY <2>4, <2>5, <2>6, <1>13
<1>15. Moves(child, parent, x, h, T2, P2)
  <2>1. \A s \in Sides, n \in Places \ {h} :
            (s # sh \/ n # q) /\ (s # sx \/ n # p) => T2[s][n] = child[s][n]
    BY <1>14
  <2>2. P2 = [n \in Socks |->
            CASE n = h -> p
              [] n = c -> IF q = x THEN h ELSE q
              [] n # h /\ n # c /\ parent[n] = x -> h
              [] OTHER -> parent[n]]
    BY <1>1 DEF hole
  <2>3. T2["left"][h] = child["left"][x]
        /\ T2["right"][h] = IF q = x THEN c ELSE child["right"][x]
    BY <1>14 DEF l, v
  <2>4. QED
    BY <2>1, <2>2, <2>3, <1>14 DEF Moves, c, q, p, sh, sx
<1>16. Tree(T2, P2, R \ {x}) /\ \E D2 : Sorted(T2, D2, R \ {x})
  BY <1>3, <1>6, <1>15, MoveTree
<1>17. PICK D2 : Sorted(T2, D2, R \ {x})
  BY <1>16
<1>18. \E B2 : Colored(T2, P2, C2, R \ {x}, B2,
                       IF color[h] = "black" THEN "remove_color" ELSE "free",
                       child["right"][h], IF parent[h] = x THEN h ELSE parent[h])
  BY <1>1, <1>3, <1>6, <1>15, MoveColors
<1>19. PICK B2 : Colored(T2, P2, C2, R \ {x}, B2, pc', c, hole)
  BY <1>1, <1>18 DEF c, hole, q
<1>20. P2 \in [Socks -> Places]
  BY <1>1, <1>3, <1>11
<1>21. C2 \in [Socks -> {"red", "black"}]
  <2>1. color[x] \in {"red", "black"}
    BY <1>3
  <2>2. QED
    BY <2>1, <1>1, <1>3
<1>22. /\ <<sh, q, c>> \in Sides \X Places \X Places
       /\ <<"left", h, l>> \in Sides \X Places \X Places
       /\ <<"right", h, v>> \in Sides \X Places \X Places
       /\ <<sx, p, h>> \in Sides \X Places \X Places
  BY <1>8, <1>9, <1>10, <1>11
<1>23. writes' \in Seq(Sides \X Places \X Places)
  BY <1>1, <1>22
<1>24. \A i \in 1 .. Len(writes') : writes'[i][2] = Nil => writes'[i][1] = "left"
  <2>1. q # Nil /\ h # Nil
    BY <1>4, <1>8
  <2>2. /\ Len(writes') = 4
        /\ writes'[1] = <<sh, q, c>> /\ writes'[2] = <<"left", h, l>>
        /\ writes'[3] = <<"right", h, v>> /\ writes'[4] = <<sx, p, h>>
    BY <1>1
  <2>3. \A i : i \in 1 .. Len(writes') => i = 1 \/ i = 2 \/ i = 3 \/ i = 4
    BY <2>2
  <2>4. QED
    BY <2>1, <2>2, <2>3, <1>8
<1>25. /\ Writes /\ UNCHANGED child /\ stays' = (stays /\ key # x)
       /\ parent' \in [Socks -> Places] /\ color' \in [Socks -> {"red", "black"}]
       /\ registered' = registered \ {x} /\ old' = x /\ elm' = c /\ par' = hole
       /\ pc' \in {"remove_color", "free"}
  BY <1>1, <1>20, <1>21 DEF P2, C2, R2, R
<1>26. /\ Written(child, writes', T2) /\ Tree(T2, parent', registered')
       /\ Sorted(T2, D2, registered')
       /\ Colored(T2, parent', color', registered', B2, pc', c, hole)
  BY <1>1, <1>14, <1>16, <1>17, <1>19 DEF P2, C2, R2
<1>27. QED
  BY <1>3, <1>11, <1>23, <1>24, <1>25, <1>26, RemoveIInv

(***************************************************************************)
(* The invariant, and what follows from it at once.                        *)
(***************************************************************************)

\* Every step keeps the invariant.
LEMMA NextIInv ==
  ASSUME IInv, [Next]_vars
  PROVE  IInv'
<1>1. ASSUME NEW x \in Socks, Insert(x)
      PROVE  IInv'
  BY <1>1, InsertStep
<1>2. ASSUME NEW x \in Socks, RemoveOne(x)
      PROVE  IInv'
  BY <1>2, RemoveOneStep
<1>3. ASSUME NEW x \in Socks, RemoveTwo(x)
      PROVE  IInv'
  BY <1>3, RemoveTwoStep
<1>4. CASE WriteLink
  BY <1>4, WriteLinkStep
<1>5. CASE InsertRecolor
  BY <1>5, InsertRecolorStep
<1>6. CASE InsertInner
  BY <1>6, InsertInnerStep
<1>7. CASE InsertOuter
  BY <1>7, InsertOuterStep
<1>8. CASE InsertEnd
  BY <1>8, InsertEndStep
<1>9. CASE RemoveRedSibling
  BY <1>9, RemoveRedSiblingStep
<1>10. CASE RemoveRecolor
  BY <1>10, RemoveRecolorStep
<1>11. CASE RemoveNear
  BY <1>11, RemoveNearStep
<1>12. CASE RemoveFar
  BY <1>12, RemoveFarStep
<1>13. CASE RemoveEnd
  BY <1>13, RemoveEndStep
<1>14. CASE Free
  BY <1>14, FreeStep
<1>15. ASSUME NEW k \in Sought, Find(k)
       PROVE  IInv'
  BY <1>15, FindStep
<1>16. CASE Compare
  BY <1>16, CompareStep
<1>17. CASE FindEnd
  BY <1>17, FindEndStep
<1>18. CASE UNCHANGED vars
  BY <1>18, StutterIInv
<1>19. QED
  BY <1>1, <1>2, <1>3, <1>4, <1>5, <1>6, <1>7, <1>8, <1>9, <1>10, <1>11, <1>12, <1>13,
     <1>14, <1>15, <1>16, <1>17, <1>18 DEF Next

\* Whatever items are inserted, removed and looked for, in whatever order their steps
\* fall, the links and the pending writes make a search tree that is balanced but for
\* the one place xy_rb_insert_color or xy_rb_remove_color is repairing.
THEOREM Invariance == Spec => []IInv
<1>1. Init => IInv
  BY InitIInv
<1>2. IInv /\ [Next]_vars => IInv'
  BY NextIInv
<1>3. QED
  BY <1>1, <1>2, PTL DEF Spec

\* The links, the colors and the places of the code have their types: no link of the
\* tree leads to what is no node.
THEOREM TypeCorrect == Spec => []TypeOK
<1>1. IInv => TypeOK
  BY DEF IInv
<1>2. QED
  BY <1>1, Invariance, PTL

\* The repair after an insertion or a removal follows only links that exist: there is
\* a grandparent above a red parent and a sibling beside a missing black item, which
\* the code dereferences without a test.
THEOREM RepairPointersExist == Spec => []PointersExist
<1>1. ASSUME IInv
      PROVE  PointersExist
  <2>1. ASSUME RedParent
        PROVE  Grandparent # Nil
    <3>1. PICK D, B : Shape(child, D, B)
      BY <1>1, <2>1, AtRest DEF RedParent, Reached
    <3>2. IsRedPair(child, parent, color, registered, B, elm, parent[elm], Grandparent,
                    SideOf(parent[elm]), SideOf(elm))
      BY <1>1, <2>1, <3>1, RedPair
    <3>3. Grandparent \in registered /\ registered \subseteq Socks
      BY <1>1, <3>2 DEF IsRedPair, IInv, TypeOK
    <3>4. QED
      BY <3>3, TreeAssumption
  <2>2. ASSUME MissingBlack
        PROVE  par # Nil /\ Sibling # Nil
    <3>1. PICK D, B : Shape(child, D, B)
      BY <1>1, <2>2, AtRest DEF MissingBlack, Reached
    <3>2. IsMissing(child, parent, color, registered, B, elm, par, Side, Sibling)
      BY <1>1, <2>2, <3>1, Missing
    <3>3. par \in registered /\ Sibling \in registered /\ registered \subseteq Socks
      BY <1>1, <3>2 DEF IsMissing, IInv, TypeOK
    <3>4. QED
      BY <3>3, TreeAssumption
  <2>3. QED
    BY <2>1, <2>2 DEF PointersExist
<1>2. IInv => PointersExist
  BY <1>1
<1>3. QED
  BY <1>2, Invariance, PTL

\* A find that no change has met finds its item if and only if it is registered.
THEOREM QuietFindIsCorrect == Spec => []QuietFindIsRight
<1>1. ASSUME IInv
      PROVE  QuietFindIsRight
  <2>1. PICK T, D, B : Shape(T, D, B)
    BY <1>1 DEF IInv
  <2>2. SUFFICES ASSUME quiet
                 PROVE  (Missed => key \notin registered) /\ (Found => key \in registered)
    BY DEF QuietFindIsRight
  <2>3. /\ at \in registered \cup {Nil}
        /\ key \in registered => key \in D[at]
        /\ D[Nil] = {}
    BY <2>1, <2>2 DEF Shape, Searched, Sorted
  <2>4. Missed => key \notin registered
    BY <2>3 DEF Missed
  <2>5. Found => key \in registered
    BY <2>3 DEF Found
  <2>6. QED
    BY <2>4, <2>5
<1>2. IInv => QuietFindIsRight
  BY <1>1
<1>3. QED
  BY <1>2, Invariance, PTL

(***************************************************************************)
(* The items below a place, as the properties count them.                  *)
(***************************************************************************)

\* f is what N steps of F make of u.
Iterates(f, N, u, F) ==
    /\ f \in [0 .. N -> SUBSET Places]
    /\ f[0] = u
    /\ \A i \in 1 .. N : f[i] = F[f[i-1]]

\* A step from sets to sets can be iterated.
LEMMA IterateExists ==
  ASSUME NEW N \in Nat, NEW F \in [SUBSET Places -> SUBSET Places], NEW u \in SUBSET Places
  PROVE  \E f : Iterates(f, N, u, F)
<1> DEFINE S == {k \in Nat : \E f : Iterates(f, k, u, F)}
<1>1. 0 \in S
  <2>1. Iterates([i \in 0 .. 0 |-> u], 0, u, F)
    BY DEF Iterates
  <2>2. QED
    BY <2>1
<1>2. ASSUME NEW k \in Nat, k \in S
      PROVE  k + 1 \in S
  <2>1. PICK f : Iterates(f, k, u, F)
    BY <1>2
  <2>2. f[k] \in SUBSET Places
    BY <2>1 DEF Iterates
  <2> DEFINE m == F[f[k]]
             v == [i \in 0 .. (k+1) |-> IF i = k + 1 THEN m ELSE f[i]]
  <2>3. m \in SUBSET Places
    BY <2>2
  <2> HIDE DEF m
  <2>4. v \in [0 .. (k+1) -> SUBSET Places] /\ v[k+1] = m /\ \A i \in 0 .. k : v[i] = f[i]
    BY <2>1, <2>3 DEF Iterates
  <2> HIDE DEF v
  <2>5. ASSUME NEW i \in 1 .. (k+1)
        PROVE  v[i] = F[v[i-1]]
    <3>1. CASE i = k + 1
      <4>1. v[i-1] = f[k] /\ v[i] = m
        BY <3>1, <2>4
      <4>2. QED
        BY <4>1 DEF m
    <3>2. CASE i # k + 1
      <4>1. i \in 1 .. k /\ i - 1 \in 0 .. k /\ i \in 0 .. k
        BY <3>2
      <4>2. v[i] = f[i] /\ v[i-1] = f[i-1]
        BY <4>1, <2>4
      <4>3. QED
        BY <4>1, <4>2, <2>1 DEF Iterates
    <3>3. QED
      BY <3>1, <3>2
  <2>6. v[0] = u
    <3>1. 0 \in 0 .. k
      OBVIOUS
    <3>2. QED
      BY <3>1, <2>1, <2>4 DEF Iterates
  <2>7. Iterates(v, k + 1, u, F)
    BY <2>4, <2>5, <2>6 DEF Iterates
  <2>8. QED
    BY <2>7
<1> HIDE DEF S
<1>3. \A i \in 0 .. N : i \in S
  BY <1>1, <1>2, UpTo
<1>4. QED
  BY <1>3 DEF S

\* A function that is defined by recursion is one of them.
LEMMA IterateOf ==
  ASSUME NEW N \in Nat, NEW F \in [SUBSET Places -> SUBSET Places], NEW u \in SUBSET Places,
         NEW V, NEW f \in [0 .. N -> V], f[0] = u,
         \A i \in 1 .. N : f[i-1] \in SUBSET Places => f[i] = F[f[i-1]]
  PROVE  Iterates(f, N, u, F)
<1>1. \A i \in 0 .. N : f[i] \in SUBSET Places
  <2> DEFINE S == {i \in 0 .. N : f[i] \in SUBSET Places}
  <2>1. 0 \in S
    OBVIOUS
  <2>2. ASSUME NEW i \in Nat, i < N, i \in S
        PROVE  i + 1 \in S
    <3>1. i + 1 \in 1 .. N /\ i + 1 \in 0 .. N /\ (i + 1) - 1 = i
      BY <2>2
    <3>2. f[i] \in SUBSET Places
      BY <2>2
    <3>3. f[i+1] = F[f[i]]
      BY <3>1, <3>2
    <3>4. QED
      BY <3>1, <3>2, <3>3
  <2> HIDE DEF S
  <2>3. \A i \in 0 .. N : i \in S
    BY <2>1, <2>2, UpTo
  <2>4. QED
    BY <2>3 DEF S
<1>2. f \in [0 .. N -> SUBSET Places]
  BY <1>1
<1>3. \A i \in 1 .. N : f[i] = F[f[i-1]]
  <2>1. \A i \in 1 .. N : i - 1 \in 0 .. N
    OBVIOUS
  <2>2. QED
    BY <2>1, <1>1
<1>4. QED
  BY <1>2, <1>3 DEF Iterates

\* What the links from the items of V lead to.
Downward(T) == [V \in SUBSET Places |-> {T[side][m] : side \in Sides, m \in V \ {Nil}}]

\* Subtree is the union of those iterates.
LEMMA SubtreeIterates ==
  ASSUME NEW n \in Places, child \in [Sides -> [Places -> Places]]
  PROVE  \E f : /\ Iterates(f, Cardinality(Socks), {n}, Downward(child))
               /\ Subtree(n) = (UNION {f[i] : i \in 0 .. Cardinality(Socks)}) \ {Nil}
<1> DEFINE N == Cardinality(Socks)
           F == Downward(child)
           Step(V) == {child[side][m] : side \in Sides, m \in V \ {Nil}}
           Same(w) == w = [i \in 0 .. N |-> IF i = 0 THEN {n} ELSE Step(w[i-1])]
           f == CHOOSE w : Same(w)
<1>1. Subtree(n) = (UNION {f[i] : i \in DOMAIN f}) \ {Nil}
  BY DEF Subtree
<1>2. N \in Nat
  BY TreeAssumption, FS_CardinalityType
<1>3. F \in [SUBSET Places -> SUBSET Places]
  BY TreeAssumption DEF Downward, Places
<1>4. \A V \in SUBSET Places : F[V] = Step(V)
  BY DEF Downward
<1>5. {n} \in SUBSET Places
  OBVIOUS
<1> HIDE DEF N, F, Step
<1>6. \E w : Same(w)
  <2>1. PICK v : Iterates(v, N, {n}, F)
    BY <1>2, <1>3, <1>5, IterateExists
  <2>2. /\ v \in [0 .. N -> SUBSET Places] /\ v[0] = {n}
        /\ \A i \in 1 .. N : v[i] = F[v[i-1]]
    BY <2>1 DEF Iterates
  <2>3. ASSUME NEW i \in 0 .. N
        PROVE  v[i] = IF i = 0 THEN {n} ELSE Step(v[i-1])
    <3>1. CASE i = 0
      BY <3>1, <2>2
    <3>2. CASE i # 0
      <4>1. i \in 1 .. N /\ i - 1 \in 0 .. N
        BY <3>2, <1>2
      <4>2. v[i-1] \in SUBSET Places
        BY <4>1, <2>2
      <4>3. QED
        BY <3>2, <4>1, <4>2, <1>4, <2>2
    <3>3. QED
      BY <3>1, <3>2
  <2>4. v = [i \in 0 .. N |-> v[i]]
    BY <2>2
  <2>5. v = [i \in 0 .. N |-> IF i = 0 THEN {n} ELSE Step(v[i-1])]
    BY <2>3, <2>4, Zenon
  <2>6. QED
    BY <2>5, Zenon
<1>7. Same(f)
  BY <1>6, Zenon
<1> HIDE DEF f
<1>8. DOMAIN f = 0 .. N /\ f \in [0 .. N -> {f[i] : i \in 0 .. N}]
  BY <1>7
<1>9. \A i \in 0 .. N : f[i] = IF i = 0 THEN {n} ELSE Step(f[i-1])
  BY <1>7
<1> HIDE DEF Same
<1>10. Iterates(f, N, {n}, F)
  <2>1. f[0] = {n}
    <3>1. 0 \in 0 .. N
      BY <1>2
    <3>2. QED
      BY <3>1, <1>9
  <2>2. ASSUME NEW i \in 1 .. N, f[i-1] \in SUBSET Places
        PROVE  f[i] = F[f[i-1]]
    <3>1. i \in 0 .. N /\ i # 0
      BY <1>2
    <3>2. f[i] = Step(f[i-1])
      BY <3>1, <1>9
    <3>3. QED
      BY <2>2, <3>2, <1>4
  <2>3. PICK W : f \in [0 .. N -> W]
    BY <1>8
  <2>4. QED
    BY <2>1, <2>2, <2>3, <1>2, <1>3, <1>5, IterateOf
<1>11. QED
  BY <1>1, <1>8, <1>10 DEF N, F

\* The items that Subtree finds below a place are those that the invariant says are
\* there.
LEMMA SubtreeFacts ==
  ASSUME NEW R \in SUBSET Socks, NEW P, NEW D, Tree(child, P, R), Sorted(child, D, R),
         NEW n \in R \cup {Nil}
  PROVE  Subtree(n) = D[n]
<1> USE TreeAssumption
<1> DEFINE N == Cardinality(Socks)
           F == Downward(child)
<1>1. child \in [Sides -> [Places -> Places]] /\ n \in Places
  BY DEF Tree, Places
<1>2. PICK f : Iterates(f, N, {n}, F)
               /\ Subtree(n) = (UNION {f[i] : i \in 0 .. N}) \ {Nil}
  BY <1>1, SubtreeIterates
<1>3. N \in Nat
  BY FS_CardinalityType
<1>4. R \subseteq Socks /\ Places = Socks \cup {Nil} /\ Nil \notin Socks
  BY DEF Places
<1>5. D \in [Places -> SUBSET R] /\ D[Nil] = {} /\ \A m \in R : m \in D[m]
  BY BelowItems DEF Sorted
<1>6. \A V \in SUBSET Places : F[V] = {child[side][m] : side \in Sides, m \in V \ {Nil}}
  BY DEF Downward
<1>7. PICK g \in [Places -> Nat] :
            /\ \A m \in R \cup {Nil} : g[m] >= 1 /\ g[m] <= N + 1
            /\ \A m \in R : g[m] <= N
            /\ \A m \in R \cup {Nil}, s \in Sides : child[s][m] # Nil => g[child[s][m]] < g[m]
  BY Sizes
<1>8. \A m \in R : /\ D[m] = {m} \cup D[child["left"][m]] \cup D[child["right"][m]]
                   /\ \A s \in Sides : child[s][m] # Nil => child[s][m] \in R
                   /\ \A s \in Sides : D[child[s][m]] \subseteq D[m]
  <2>1. \A m \in R : D[m] = {m} \cup D[child["left"][m]] \cup D[child["right"][m]]
    BY DEF Sorted
  <2>2. \A m \in R : \A s \in Sides : child[s][m] # Nil => child[s][m] \in R
    BY DEF Tree
  <2>3. \A m \in R : \A s \in Sides : D[child[s][m]] \subseteq D[m]
    BY <2>1 DEF Sides
  <2>4. QED
    BY <2>1, <2>2, <2>3
<1> HIDE DEF N, F
<1>9. /\ f \in [0 .. N -> SUBSET Places] /\ f[0] = {n}
      /\ \A i \in 1 .. N : f[i] = F[f[i-1]]
  BY <1>2 DEF Iterates
<1>10. ASSUME NEW i \in Nat, i < N
       PROVE  /\ i \in 0 .. N /\ i + 1 \in 0 .. N
              /\ \A k : k \in f[i+1] <=> \E s \in Sides, m \in f[i] \ {Nil} : k = child[s][m]
  <2>1. i \in 0 .. N /\ i + 1 \in 0 .. N /\ i + 1 \in 1 .. N /\ (i + 1) - 1 = i
    BY <1>3, <1>10
  <2>2. f[i+1] = F[f[i]] /\ f[i] \in SUBSET Places
    BY <2>1, <1>9
  <2>3. f[i+1] = {child[s][m] : s \in Sides, m \in f[i] \ {Nil}}
    BY <2>2, <1>6
  <2>4. QED
    BY <2>1, <2>3
<1>11. \A k : k \in Subtree(n) <=> k # Nil /\ \E i \in 0 .. N : k \in f[i]
  <2> DEFINE U == UNION {f[i] : i \in 0 .. N}
  <2>1. Subtree(n) = U \ {Nil}
    BY <1>2
  <2>2. \A k : k \in U <=> \E i \in 0 .. N : k \in f[i]
    OBVIOUS
  <2> HIDE DEF U
  <2>3. QED
    BY <2>1, <2>2
<1>12. CASE n = Nil
  <2> DEFINE S == {i \in 0 .. N : f[i] \subseteq {Nil}}
  <2>1. 0 \in S
    BY <1>3, <1>9, <1>12
  <2>2. ASSUME NEW i \in Nat, i < N, i \in S
        PROVE  i + 1 \in S
    BY <2>2, <1>10
  <2> HIDE DEF S
  <2>3. \A i \in 0 .. N : i \in S
    BY <2>1, <2>2, <1>3, UpTo
  <2>4. \A i \in 0 .. N : f[i] \subseteq {Nil}
    BY <2>3 DEF S
  <2>5. QED
    BY <2>4, <1>11, <1>5, <1>12
<1>13. CASE n \in R
  <2>1. ASSUME NEW i \in 0 .. N
        PROVE  f[i] \ {Nil} \subseteq D[n]
    <3> DEFINE S == {j \in 0 .. N : f[j] \ {Nil} \subseteq D[n]}
    <3>1. 0 \in S
      BY <1>3, <1>5, <1>9, <1>13
    <3>2. ASSUME NEW j \in Nat, j < N, j \in S
          PROVE  j + 1 \in S
      <4>1. SUFFICES ASSUME NEW k \in f[j+1], k # Nil
                     PROVE  k \in D[n]
        BY <3>2, <1>10
      <4>2. PICK s \in Sides, m \in f[j] \ {Nil} : k = child[s][m]
        BY <3>2, <4>1, <1>10
      <4>3. m \in D[n] /\ m \in R
        BY <3>2, <4>2, <1>5, <1>4
      <4>4. k \in R /\ k \in D[k] /\ D[k] \subseteq D[m]
        BY <4>1, <4>2, <4>3, <1>5, <1>8
      <4>5. D[m] \subseteq D[n]
        BY <4>3, Nested
      <4>6. QED
        BY <4>4, <4>5
    <3> HIDE DEF S
    <3>3. \A j \in 0 .. N : j \in S
      BY <3>1, <3>2, <1>3, UpTo
    <3>4. QED
      BY <3>3 DEF S
  <2>2. ASSUME NEW k \in D[n]
        PROVE  \E i \in 0 .. N : k \in f[i]
    <3> DEFINE Met == \E i \in 0 .. N : k \in f[i]
               S == {j \in 0 .. N : Met \/ \E m \in f[j] : m \in R /\ k \in D[m] /\ g[m] + j <= N}
    <3>1. 0 \in S
      <4>1. 0 \in 0 .. N /\ n \in f[0] /\ g[n] \in Nat
        BY <1>3, <1>9, <1>7, <1>1
      <4>2. g[n] + 0 <= N
        BY <4>1, <1>3, <1>7, <1>13
      <4>3. QED
        BY <4>1, <4>2, <2>2, <1>13
    <3>2. ASSUME NEW j \in Nat, j < N, j \in S
          PROVE  j + 1 \in S
      <4>1. CASE Met
        BY <4>1, <3>2, <1>10
      <4>2. CASE ~Met
        <5>1. PICK m \in f[j] : m \in R /\ k \in D[m] /\ g[m] + j <= N
          BY <3>2, <4>2
        <5>2. k # m
          BY <3>2, <4>2, <5>1, <1>10
        <5>3. PICK s \in Sides : k \in D[child[s][m]]
          BY <5>1, <5>2, <1>8 DEF Sides
        <5>4. PICK c : c = child[s][m]
          OBVIOUS
        <5>5. c # Nil /\ c \in R
          BY <5>1, <5>3, <5>4, <1>5, <1>8
        <5>6. c \in f[j+1]
          <6>1. m # Nil
            BY <5>1, <1>4
          <6>2. QED
            BY <5>1, <5>4, <6>1, <3>2, <1>10
        <5>7. g[c] < g[m] /\ g[c] \in Nat /\ g[m] \in Nat
          BY <5>1, <5>4, <5>5, <1>4, <1>7
        <5>8. g[c] + (j + 1) <= N
          BY <5>1, <5>7, <1>3
        <5>9. QED
          BY <5>3, <5>4, <5>5, <5>6, <5>8, <3>2, <1>10
      <4>3. QED
        BY <4>1, <4>2
    <3>3. N \in S
      <4> HIDE DEF S
      <4>1. \A j \in 0 .. N : j \in S
        BY <3>1, <3>2, <1>3, UpTo
      <4>2. QED
        BY <4>1, <1>3
    <3>4. \A m \in R : ~(g[m] + N <= N)
      <4>1. \A m \in R : g[m] \in Nat /\ g[m] >= 1
        BY <1>4, <1>7
      <4>2. QED
        BY <4>1, <1>3
    <3>5. QED
      BY <3>3, <3>4
  <2>3. Nil \notin D[n]
    BY <1>4, <1>5, <1>1
  <2>4. QED
    BY <2>1, <2>2, <2>3, <1>11
<1>14. QED
  BY <1>12, <1>13

\* Between the changes the tree holds the registered items, every one of them once, in
\* their order, with upward links that lead back: xy_rb_insert and xy_rb_remove lose no
\* socket and leave none behind.
THEOREM TreeHoldsRegistered == Spec => []HoldsRegistered
<1>1. ASSUME IInv
      PROVE  HoldsRegistered
  <2> DEFINE R == registered
  <2>1. SUFFICES ASSUME pc = "idle"
                 PROVE  /\ Subtree(Root) = R
                        /\ \A n \in R :
                              /\ \A m \in Subtree(child["left"][n]) : m < n
                              /\ \A m \in Subtree(child["right"][n]) : n < m
                              /\ n = child[SideOf(n)][parent[n]]
    BY DEF HoldsRegistered
  <2>2. PICK D, B : Shape(child, D, B)
    BY <1>1, <2>1, AtRest DEF IInv, Writer
  <2>3. R \in SUBSET Socks /\ Tree(child, parent, R) /\ Sorted(child, D, R)
    BY <1>1, <2>2 DEF Shape, IInv, TypeOK
  <2> HIDE DEF R
  <2>4. \A n \in R \cup {Nil}, s \in Sides : child[s][n] \in R \cup {Nil}
    BY <2>3 DEF Tree
  <2>5. \A n \in R \cup {Nil} : Subtree(n) = D[n]
    BY <2>3, SubtreeFacts
  <2>6. Subtree(Root) = R
    <3>1. Root \in R \cup {Nil} /\ D[Root] = R
      BY <2>3, <2>4 DEF Root, Sorted, Sides
    <3>2. QED
      BY <3>1, <2>5
  <2>7. ASSUME NEW n \in R
        PROVE  /\ \A m \in Subtree(child["left"][n]) : m < n
               /\ \A m \in Subtree(child["right"][n]) : n < m
    <3>1. \A s \in Sides : Subtree(child[s][n]) = D[child[s][n]]
      BY <2>4, <2>5
    <3>2. \A s \in Sides : \A m \in D[child[s][n]] : Before(s, m, n)
      BY <2>3 DEF Sorted
    <3>3. QED
      BY <3>1, <3>2 DEF Before, Sides
  <2>8. ASSUME NEW n \in R
        PROVE  n = child[SideOf(n)][parent[n]]
    BY <2>3 DEF Tree, SideOf, Sides
  <2>9. QED
    BY <2>6, <2>7, <2>8
<1>2. IInv => HoldsRegistered
  BY <1>1
<1>3. QED
  BY <1>2, Invariance, PTL

(***************************************************************************)
(* The black items above a place.                                          *)
(***************************************************************************)

\* What the upward links of the items of V lead to.
Upward(P) == [V \in SUBSET Places |-> {P[m] : m \in V \ {Nil}}]

\* Blacks counts what a way up passes.
LEMMA BlacksIterates ==
  ASSUME NEW n \in Socks, parent \in [Socks -> Places]
  PROVE  \E f : /\ Iterates(f, Cardinality(Socks), {n}, Upward(parent))
               /\ Blacks(n) = Cardinality({m \in (UNION {f[i] : i \in 0 .. Cardinality(Socks)}) \ {Nil} :
                                              color[m] = "black"})
<1> DEFINE N == Cardinality(Socks)
           F == Upward(parent)
           Step(V) == {parent[m] : m \in V \ {Nil}}
           Same(w) == w = [i \in 0 .. N |-> IF i = 0 THEN {n} ELSE Step(w[i-1])]
           f == CHOOSE w : Same(w)
<1>1. Blacks(n) = Cardinality({m \in (UNION {f[i] : i \in DOMAIN f}) \ {Nil} : color[m] = "black"})
  BY DEF Blacks
<1>2. N \in Nat
  BY TreeAssumption, FS_CardinalityType
<1>3. F \in [SUBSET Places -> SUBSET Places]
  BY TreeAssumption DEF Upward, Places
<1>4. \A V \in SUBSET Places : F[V] = Step(V)
  BY DEF Upward
<1>5. {n} \in SUBSET Places
  BY DEF Places
<1> HIDE DEF N, F, Step
<1>6. \E w : Same(w)
  <2>1. PICK v : Iterates(v, N, {n}, F)
    BY <1>2, <1>3, <1>5, IterateExists
  <2>2. /\ v \in [0 .. N -> SUBSET Places] /\ v[0] = {n}
        /\ \A i \in 1 .. N : v[i] = F[v[i-1]]
    BY <2>1 DEF Iterates
  <2>3. ASSUME NEW i \in 0 .. N
        PROVE  v[i] = IF i = 0 THEN {n} ELSE Step(v[i-1])
    <3>1. CASE i = 0
      BY <3>1, <2>2
    <3>2. CASE i # 0
      <4>1. i \in 1 .. N /\ i - 1 \in 0 .. N
        BY <3>2, <1>2
      <4>2. v[i-1] \in SUBSET Places
        BY <4>1, <2>2
      <4>3. QED
        BY <3>2, <4>1, <4>2, <1>4, <2>2
    <3>3. QED
      BY <3>1, <3>2
  <2>4. v = [i \in 0 .. N |-> v[i]]
    BY <2>2
  <2>5. v = [i \in 0 .. N |-> IF i = 0 THEN {n} ELSE Step(v[i-1])]
    BY <2>3, <2>4, Zenon
  <2>6. QED
    BY <2>5, Zenon
<1>7. Same(f)
  BY <1>6, Zenon
<1> HIDE DEF f
<1>8. DOMAIN f = 0 .. N /\ f \in [0 .. N -> {f[i] : i \in 0 .. N}]
  BY <1>7
<1>9. \A i \in 0 .. N : f[i] = IF i = 0 THEN {n} ELSE Step(f[i-1])
  BY <1>7
<1> HIDE DEF Same
<1>10. Iterates(f, N, {n}, F)
  <2>1. f[0] = {n}
    <3>1. 0 \in 0 .. N
      BY <1>2
    <3>2. QED
      BY <3>1, <1>9
  <2>2. ASSUME NEW i \in 1 .. N, f[i-1] \in SUBSET Places
        PROVE  f[i] = F[f[i-1]]
    <3>1. i \in 0 .. N /\ i # 0
      BY <1>2
    <3>2. f[i] = Step(f[i-1])
      BY <3>1, <1>9
    <3>3. QED
      BY <2>2, <3>2, <1>4
  <2>3. PICK W : f \in [0 .. N -> W]
    BY <1>8
  <2>4. QED
    BY <2>1, <2>2, <2>3, <1>2, <1>3, <1>5, IterateOf
<1>11. QED
  BY <1>1, <1>8, <1>10 DEF N, F

\* What is above an item below m is m, or below m.
LEMMA ParentBelow ==
  ASSUME NEW R \in SUBSET Socks, NEW T, NEW P, NEW D, Tree(T, P, R), Sorted(T, D, R),
         NEW m \in R, NEW k \in D[m], k # m
  PROVE  P[k] \in R /\ P[k] \in D[m] /\ P[k] # Nil
<1> USE TreeAssumption
<1> DEFINE Q == {o \in D[m] : k \in D[o] /\ o # k}
<1>1. R \subseteq Socks /\ Places = Socks \cup {Nil} /\ Nil \notin Socks
  BY DEF Places
<1>2. /\ D \in [Places -> SUBSET R] /\ D[Nil] = {}
      /\ \A o \in R : o \in D[o] /\ D[o] = {o} \cup D[T["left"][o]] \cup D[T["right"][o]]
  BY BelowItems DEF Sorted
<1>3. \A o \in R, s \in Sides : o \notin D[T[s][o]]
  BY BelowItems
<1>4. D \in [Places -> SUBSET Socks]
  BY <1>1, <1>2
<1>5. m \in Q /\ Q \in SUBSET R /\ k \in R
  BY <1>1, <1>2
<1>6. PICK o \in Q : \A j \in Q : D[j] \subseteq D[o] => D[j] = D[o]
  <2>1. Q \in SUBSET Places /\ Q # {}
    BY <1>1, <1>5
  <2> HIDE DEF Q
  <2>2. QED
    BY <1>4, <2>1, Lowest
<1>7. o \in R /\ o \in D[m] /\ k \in D[o] /\ o # k
  BY <1>5, <1>6
<1>8. PICK s \in Sides : k \in D[T[s][o]]
  BY <1>2, <1>7 DEF Sides
<1>9. PICK c : c = T[s][o]
  OBVIOUS
<1>10. c \in R /\ P[c] = o
  <2>1. c # Nil
    BY <1>2, <1>8, <1>9
  <2>2. QED
    BY <2>1, <1>7, <1>9 DEF Tree
<1>11. D[c] \subseteq D[o]
  BY <1>2, <1>7, <1>9 DEF Sides
<1>12. c = k
  <2>1. SUFFICES ASSUME c # k
                 PROVE  FALSE
    OBVIOUS
  <2>2. D[o] \subseteq D[m]
    BY <1>7, Nested
  <2>3. c \in D[m]
    BY <2>2, <1>2, <1>10, <1>11
  <2>4. c \in Q
    BY <2>1, <2>3, <1>8, <1>9
  <2>5. D[c] = D[o]
    BY <2>4, <1>6, <1>11
  <2>6. o \notin D[c]
    BY <1>3, <1>7, <1>9
  <2>7. QED
    BY <2>5, <2>6, <1>2, <1>7
<1>13. QED
  BY <1>1, <1>7, <1>10, <1>12

\* The items above n, and n.
Above(D, R, n) == {m \in R : n \in D[m]}

\* Below a place the black items above it are those of its parent and itself.
LEMMA BlacksFacts ==
  ASSUME NEW R \in SUBSET Socks, NEW T, NEW D, Tree(T, parent, R), Sorted(T, D, R),
         parent \in [Socks -> Places], NEW n \in R
  PROVE  Blacks(n) = Cardinality({m \in Above(D, R, n) : color[m] = "black"})
<1> USE TreeAssumption
<1> DEFINE N == Cardinality(Socks)
           F == Upward(parent)
           P == parent
<1>1. n \in Socks
  OBVIOUS
<1>2. PICK f : /\ Iterates(f, N, {n}, F)
               /\ Blacks(n) = Cardinality({m \in (UNION {f[i] : i \in 0 .. N}) \ {Nil} :
                                              color[m] = "black"})
  BY <1>1, BlacksIterates
<1>3. N \in Nat
  BY FS_CardinalityType
<1>4. R \subseteq Socks /\ Places = Socks \cup {Nil} /\ Nil \notin Socks
  BY DEF Places
<1>5. D \in [Places -> SUBSET R] /\ D[Nil] = {} /\ \A m \in R : m \in D[m]
  BY BelowItems DEF Sorted
<1>6. \A V \in SUBSET Places : F[V] = {P[m] : m \in V \ {Nil}}
  BY DEF Upward
<1>7. PICK g \in [Places -> Nat] :
            /\ \A m \in R \cup {Nil} : g[m] >= 1 /\ g[m] <= N + 1
            /\ \A m \in R : g[m] <= N
            /\ \A m \in R \cup {Nil}, s \in Sides : T[s][m] # Nil => g[T[s][m]] < g[m]
  BY Sizes
<1>8. \A m \in R : P[m] # Nil => P[m] \in R /\ D[m] \subseteq D[P[m]] /\ g[m] < g[P[m]]
  <2>1. SUFFICES ASSUME NEW m \in R, P[m] # Nil
                 PROVE  P[m] \in R /\ D[m] \subseteq D[P[m]] /\ g[m] < g[P[m]]
    OBVIOUS
  <2>2. PICK q \in R : q = P[m]
    BY <2>1 DEF Tree
  <2>3. PICK s \in Sides : T[s][q] = m
    BY <2>2 DEF Tree
  <2>4. D[q] = {q} \cup D[T["left"][q]] \cup D[T["right"][q]]
    BY DEF Sorted
  <2>5. D[m] \subseteq D[q]
    BY <2>3, <2>4 DEF Sides
  <2>6. g[m] < g[q]
    BY <2>3, <1>4, <1>7
  <2>7. QED
    BY <2>2, <2>5, <2>6
<1> HIDE DEF N, F, P
<1>9. /\ f \in [0 .. N -> SUBSET Places] /\ f[0] = {n}
      /\ \A i \in 1 .. N : f[i] = F[f[i-1]]
  BY <1>2 DEF Iterates
<1>10. ASSUME NEW i \in Nat, i < N
       PROVE  /\ i \in 0 .. N /\ i + 1 \in 0 .. N
              /\ \A k : k \in f[i+1] <=> \E m \in f[i] \ {Nil} : k = P[m]
  <2>1. i \in 0 .. N /\ i + 1 \in 0 .. N /\ i + 1 \in 1 .. N /\ (i + 1) - 1 = i
    BY <1>3, <1>10
  <2>2. f[i+1] = F[f[i]] /\ f[i] \in SUBSET Places
    BY <2>1, <1>9
  <2>3. f[i+1] = {P[m] : m \in f[i] \ {Nil}}
    BY <2>2, <1>6
  <2>4. QED
    BY <2>1, <2>3
<1>11. ASSUME NEW i \in 0 .. N
       PROVE  f[i] \ {Nil} \subseteq Above(D, R, n)
  <2> DEFINE S == {j \in 0 .. N : \A k \in f[j] : k = Nil \/ (k \in R /\ n \in D[k])}
  <2>1. 0 \in S
    BY <1>3, <1>5, <1>9
  <2>2. ASSUME NEW j \in Nat, j < N, j \in S
        PROVE  j + 1 \in S
    <3>1. SUFFICES ASSUME NEW k \in f[j+1], k # Nil
                   PROVE  k \in R /\ n \in D[k]
      BY <2>2, <1>10
    <3>2. PICK m \in f[j] \ {Nil} : k = P[m]
      BY <2>2, <3>1, <1>10
    <3>3. m \in R /\ n \in D[m]
      BY <2>2, <3>2
    <3>4. QED
      BY <3>1, <3>2, <3>3, <1>8
  <2> HIDE DEF S
  <2>3. \A j \in 0 .. N : j \in S
    BY <2>1, <2>2, <1>3, UpTo
  <2>4. QED
    BY <2>3 DEF S, Above
<1>12. ASSUME NEW k \in Above(D, R, n)
       PROVE  \E i \in 0 .. N : k \in f[i]
  <2> DEFINE Met == \E i \in 0 .. N : k \in f[i]
             S == {j \in 0 .. N : Met \/ \E m \in f[j] : m \in R /\ m \in D[k] /\ j + 1 <= g[m]}
  <2>1. k \in R /\ n \in D[k]
    BY <1>12 DEF Above
  <2>2. 0 \in S
    <3>1. 0 \in 0 .. N /\ n \in f[0]
      BY <1>3, <1>9
    <3>2. 0 + 1 <= g[n]
      BY <1>4, <1>7
    <3>3. QED
      BY <3>1, <3>2, <2>1
  <2>3. ASSUME NEW j \in Nat, j < N, j \in S
        PROVE  j + 1 \in S
    <3>1. CASE Met
      BY <3>1, <2>3, <1>10
    <3>2. CASE ~Met
      <4>1. PICK m \in f[j] : m \in R /\ m \in D[k] /\ j + 1 <= g[m]
        BY <2>3, <3>2
      <4>2. k # m
        BY <2>3, <3>2, <4>1, <1>10
      <4>3. PICK c : c = P[m]
        OBVIOUS
      <4>4. c \in R /\ c \in D[k] /\ c # Nil
        <5>1. \A i \in R : \A j2 \in D[i] : j2 # i => P[j2] \in R /\ P[j2] \in D[i] /\ P[j2] # Nil
          BY ParentBelow DEF P
        <5>2. QED
          BY <2>1, <4>1, <4>2, <4>3, <5>1
      <4>5. c \in f[j+1]
        <5>1. m # Nil
          BY <4>1, <1>4
        <5>2. QED
          BY <4>1, <4>3, <5>1, <2>3, <1>10
      <4>6. g[m] < g[c] /\ g[c] \in Nat /\ g[m] \in Nat
        BY <4>1, <4>3, <4>4, <1>4, <1>7, <1>8
      <4>7. (j + 1) + 1 <= g[c]
        BY <4>1, <4>6
      <4>8. QED
        BY <4>4, <4>5, <4>7, <2>3, <1>10
    <3>3. QED
      BY <3>1, <3>2
  <2>4. N \in S
    <3> HIDE DEF S
    <3>1. \A j \in 0 .. N : j \in S
      BY <2>2, <2>3, <1>3, UpTo
    <3>2. QED
      BY <3>1, <1>3
  <2>5. \A m \in R : ~(N + 1 <= g[m])
    <3>1. \A m \in R : g[m] \in Nat /\ g[m] <= N
      BY <1>4, <1>7
    <3>2. QED
      BY <3>1, <1>3
  <2>6. QED
    BY <2>4, <2>5
<1>13. {m \in (UNION {f[i] : i \in 0 .. N}) \ {Nil} : color[m] = "black"}
         = {m \in Above(D, R, n) : color[m] = "black"}
  <2> DEFINE U == UNION {f[i] : i \in 0 .. N}
  <2>1. \A k : k \in U <=> \E i \in 0 .. N : k \in f[i]
    OBVIOUS
  <2> HIDE DEF U
  <2>2. \A k \in Above(D, R, n) : k # Nil
    BY <1>4 DEF Above
  <2>3. U \ {Nil} = Above(D, R, n)
    BY <2>1, <2>2, <1>11, <1>12
  <2>4. {m \in U \ {Nil} : color[m] = "black"} = {m \in Above(D, R, n) : color[m] = "black"}
    BY <2>3
  <2>5. QED
    BY <2>4 DEF U
<1>14. QED
  BY <1>2, <1>13

\* From n up there are as many black items as the root is high above the ways
\* below n.
LEMMA BlacksAbove ==
  ASSUME NEW R \in SUBSET Socks, NEW T, NEW P, NEW D, Tree(T, P, R), Sorted(T, D, R),
         NEW C, NEW B \in [Places -> Nat], AllEven(T, C, B, R)
  PROVE  \A n \in R : Cardinality({m \in Above(D, R, n) : C[m] = "black"}) + B[T["left"][n]]
                         = B[T["left"][Nil]]
<1> USE TreeAssumption
<1> DEFINE r == T["left"][Nil]
           A(n) == {m \in Above(D, R, n) : C[m] = "black"}
           K(n) == Cardinality(A(n))
           Good(n) == K(n) + B[T["left"][n]] = B[r]
           N == Cardinality(Socks)
           Q == {n \in R : ~Good(n)}
<1>1. R \subseteq Socks /\ Places = Socks \cup {Nil} /\ Nil \notin Socks
  BY DEF Places
<1>2. /\ D \in [Places -> SUBSET R] /\ D[Nil] = {} /\ D[r] = R
      /\ \A o \in R : o \in D[o] /\ D[o] = {o} \cup D[T["left"][o]] \cup D[T["right"][o]]
  BY BelowItems DEF Sorted
<1>3. \A o \in R, s \in Sides : o \notin D[T[s][o]] /\ T[s][o] \in R \cup {Nil}
  BY BelowItems
<1>4. PICK g \in [Places -> Nat] :
            /\ \A m \in R \cup {Nil} : g[m] >= 1 /\ g[m] <= N + 1
            /\ \A m \in R : g[m] <= N
            /\ \A m \in R \cup {Nil}, s \in Sides : T[s][m] # Nil => g[T[s][m]] < g[m]
  BY Sizes
<1>5. N \in Nat
  BY FS_CardinalityType
<1>6. \A n \in R : /\ B[n] \in Nat /\ B[T["left"][n]] \in Nat
                   /\ \A s \in Sides : B[T[s][n]] = B[T["left"][n]]
                   /\ B[n] = B[T["left"][n]] + Weight(C, n)
  <2>1. \A n \in R : Even(T, C, B, n) /\ n \in Places /\ T["left"][n] \in Places
    BY <1>1, <1>3 DEF AllEven, Sides
  <2>2. QED
    BY <2>1 DEF Even, Sides
<1>7. \A n \in R : A(n) \in SUBSET Socks /\ IsFiniteSet(A(n)) /\ K(n) \in Nat
  <2>1. SUFFICES ASSUME NEW n \in R
                 PROVE  A(n) \in SUBSET Socks /\ IsFiniteSet(A(n)) /\ K(n) \in Nat
    OBVIOUS
  <2>2. A(n) \in SUBSET Socks
    BY <1>1 DEF Above
  <2> HIDE DEF A
  <2>3. IsFiniteSet(A(n))
    BY <2>2, FS_Subset
  <2>4. QED
    BY <2>2, <2>3, FS_CardinalityType
<1> HIDE DEF N
\* One item more counts by its color.
<1>8. ASSUME NEW n \in R, NEW U \in SUBSET Socks, n \notin U,
             A(n) = IF C[n] = "black" THEN U \cup {n} ELSE U
      PROVE  Cardinality(U) \in Nat /\ K(n) = Cardinality(U) + Weight(C, n)
  <2> HIDE DEF A
  <2>1. IsFiniteSet(U) /\ Cardinality(U) \in Nat
    BY FS_Subset, FS_CardinalityType
  <2>2. Cardinality(U \cup {n}) = Cardinality(U) + 1
    BY <2>1, <1>8, FS_AddElement
  <2>3. QED
    BY <2>1, <2>2, <1>8 DEF Weight
<1>9. ASSUME NEW n \in R, n = r
      PROVE  Good(n)
  <2>1. \A m \in R : n \in D[m] => m = n
    <3>1. SUFFICES ASSUME NEW m \in R, n \in D[m], m # n
                   PROVE  FALSE
      OBVIOUS
    <3>2. D[n] \subseteq D[m]
      BY <3>1, Nested
    <3>3. m \in D[n]
      BY <1>2, <1>9
    <3>4. PICK s \in Sides : n \in D[T[s][m]]
      BY <3>1, <1>2 DEF Sides
    <3>5. T[s][m] \in R
      BY <3>4, <1>2, <1>3
    <3>6. PICK k \in R : k = T[s][m]
      BY <3>5
    <3>7. D[n] \subseteq D[k]
      BY <3>4, <3>6, Nested
    <3>8. m \notin D[k]
      BY <3>6, <1>3
    <3>9. QED
      BY <3>3, <3>7, <3>8
  <2>2. Above(D, R, n) = {n}
    <3>1. \A m : m \in Above(D, R, n) <=> m \in R /\ n \in D[m]
      BY DEF Above
    <3>2. n \in D[n]
      BY <1>2
    <3>3. QED
      BY <2>1, <3>1, <3>2
  <2>3. A(n) = IF C[n] = "black" THEN {} \cup {n} ELSE {}
    BY <2>2
  <2>4. K(n) = Cardinality({}) + Weight(C, n)
    <3>1. {} \in SUBSET Socks /\ n \notin {}
      OBVIOUS
    <3> HIDE DEF A
    <3>2. QED
      BY <2>3, <3>1, <1>8
  <2>5. Cardinality({}) = 0
    BY FS_EmptySet
  <2>6. Weight(C, n) \in Nat
    BY DEF Weight
  <2>7. QED
    BY <2>4, <2>5, <2>6, <1>6, <1>9
<1>10. ASSUME NEW n \in R, NEW q \in R, NEW s \in Sides, T[s][q] = n, P[n] = q, Good(q)
       PROVE  Good(n)
  <2>1. Above(D, R, n) = Above(D, R, q) \cup {n}
    <3>1. ASSUME NEW m \in R, n \in D[m], m # n
          PROVE  q \in D[m]
      <4>1. \A i \in R : \A j \in D[i] : j # i => P[j] \in R /\ P[j] \in D[i] /\ P[j] # Nil
        BY ParentBelow
      <4>2. QED
        BY <3>1, <4>1, <1>10
    <3>2. ASSUME NEW m \in R, q \in D[m]
          PROVE  n \in D[m]
      <4>1. D[q] \subseteq D[m]
        BY <3>2, Nested
      <4>2. n \in D[q]
        BY <1>2, <1>10 DEF Sides
      <4>3. QED
        BY <4>1, <4>2
    <3>3. QED
      BY <3>1, <3>2, <1>2 DEF Above
  <2>2. n \notin Above(D, R, q)
    BY <1>3, <1>10 DEF Above
  <2>3. A(n) = IF C[n] = "black" THEN A(q) \cup {n} ELSE A(q)
    BY <2>1
  <2>4. n \notin A(q) /\ A(q) \in SUBSET Socks
    BY <2>2, <1>7
  <2>5. K(n) = K(q) + Weight(C, n) /\ K(q) \in Nat
    <3> HIDE DEF A
    <3>1. PICK U \in SUBSET Socks : U = A(q)
      BY <2>4
    <3>2. n \notin U /\ A(n) = IF C[n] = "black" THEN U \cup {n} ELSE U
      BY <2>3, <2>4, <3>1
    <3>3. K(n) = Cardinality(U) + Weight(C, n)
      BY <3>2, <1>8
    <3>4. QED
      BY <3>1, <3>3, <1>7
  <2> HIDE DEF K
  <2>6. B[T["left"][q]] = B[n]
    BY <1>6, <1>10
  <2>7. Weight(C, n) \in Nat
    BY DEF Weight
  <2>8. K(q) + B[n] = B[r]
    BY <2>6, <1>10
  <2>9. B[n] = B[T["left"][n]] + Weight(C, n) /\ B[T["left"][n]] \in Nat
    BY <1>6
  <2>10. QED
    BY <2>5, <2>7, <2>8, <2>9
<1> HIDE DEF Good, r
<1>11. Q = {}
  <2>1. SUFFICES ASSUME Q # {}
                 PROVE  FALSE
    OBVIOUS
  <2> DEFINE W == {N + 1 - g[n] : n \in Q}
  <2>2. \A n \in R : g[n] \in Nat /\ g[n] <= N /\ N + 1 - g[n] \in Nat
    <3>1. \A n \in R : g[n] \in Nat /\ g[n] <= N
      BY <1>1, <1>4
    <3>2. QED
      BY <3>1, <1>5
  <2>3. W \in SUBSET Nat /\ W # {}
    BY <2>1, <2>2
  <2>4. \E k \in W : \A j \in W : k <= j
    <3> HIDE DEF W
    <3>1. QED
      BY <2>3, Least
  <2>5. PICK n \in Q : \A m \in Q : N + 1 - g[n] <= N + 1 - g[m]
    BY <2>4
  <2>6. \A m \in Q : g[m] <= g[n]
    BY <2>2, <2>5, <1>5
  <2>7. n \in R /\ ~Good(n) /\ n # r
    BY <2>5, <1>9
  <2>8. PICK q : q = P[n]
    OBVIOUS
  <2>9. PICK s \in Sides : T[s][q] = n
    BY <2>7, <2>8 DEF Tree
  <2>10. q \in R \cup {Nil}
    BY <2>7, <2>8 DEF Tree
  <2>11. q \in R
    <3>1. T["right"][Nil] = Nil
      BY DEF Tree
    <3>2. q # Nil
      BY <2>7, <2>9, <3>1, <1>1 DEF Sides, r
    <3>3. QED
      BY <2>10, <3>2
  <2>12. g[n] < g[q]
    <3>1. n # Nil
      BY <2>7, <1>1
    <3>2. QED
      BY <2>9, <2>11, <3>1, <1>4
  <2>13. q \notin Q
    BY <2>2, <2>6, <2>7, <2>11, <2>12
  <2>14. Good(q)
    BY <2>11, <2>13
  <2>15. QED
    BY <2>7, <2>8, <2>9, <2>11, <2>14, <1>10
<1>12. \A n \in R : Good(n)
  BY <1>11
<1>13. QED
  BY <1>12 DEF Good, r

\* Between the changes no red item has a red parent and every way down passes as many
\* black items: the repair of xy_rb_insert_color and xy_rb_remove_color is complete,
\* which is what keeps the ways of the next searches short.
THEOREM TreeIsBalanced == Spec => []Balanced
<1>1. ASSUME IInv
      PROVE  Balanced
  <2> USE TreeAssumption
  <2> DEFINE R == registered
             Ends == {k \in R : \E side \in Sides : child[side][k] = Nil}
  <2>1. SUFFICES ASSUME pc = "idle"
                 PROVE  /\ \A n \in R : color[n] = "red" => parent[n] # Nil /\ Black(parent[n])
                        /\ \A n, m \in Ends : Blacks(n) = Blacks(m)
    BY DEF Balanced
  <2>2. PICK D, B : Shape(child, D, B)
    BY <1>1, <2>1, AtRest DEF IInv, Writer
  <2>3. /\ R \in SUBSET Socks /\ Tree(child, parent, R) /\ Sorted(child, D, R)
        /\ B \in [Places -> Nat] /\ B[Nil] = 0
        /\ NoRedPair(parent, color, R) /\ AllEven(child, color, B, R)
        /\ parent \in [Socks -> Places]
    BY <1>1, <2>1, <2>2 DEF Shape, Colored, IInv, TypeOK
  <2> HIDE DEF R
  <2>4. \A n \in R : color[n] = "red" => parent[n] # Nil /\ Black(parent[n])
    BY <2>3 DEF NoRedPair, Black
  <2>5. ASSUME NEW n \in Ends
        PROVE  Blacks(n) = B[child["left"][Nil]]
    <3>1. n \in R
      OBVIOUS
    <3>2. Blacks(n) = Cardinality({m \in Above(D, R, n) : color[m] = "black"})
      BY <2>3, <3>1, BlacksFacts
    <3>3. \A k \in R : Cardinality({m \in Above(D, R, k) : color[m] = "black"}) + B[child["left"][k]]
                          = B[child["left"][Nil]]
      BY <2>3, BlacksAbove
    <3>4. PICK s \in Sides : child[s][n] = Nil
      OBVIOUS
    <3>5. Even(child, color, B, n)
      BY <2>3, <3>1 DEF AllEven
    <3>6. B[child["left"][n]] = 0
      BY <2>3, <3>4, <3>5 DEF Even, Sides
    <3>7. {m \in Above(D, R, n) : color[m] = "black"} \in SUBSET Socks
      BY <2>3 DEF Above
    <3>8. Cardinality({m \in Above(D, R, n) : color[m] = "black"}) \in Nat
      BY <3>7, Smaller
    <3>9. QED
      BY <3>1, <3>2, <3>3, <3>6, <3>8
  <2>6. QED
    BY <2>4, <2>5
<1>2. IInv => Balanced
  BY <1>1
<1>3. QED
  BY <1>2, Invariance, PTL

=============================================================================
