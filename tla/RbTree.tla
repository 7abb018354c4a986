------------------------------- MODULE RbTree -------------------------------
(***************************************************************************)
(* The red-black tree of an event poll (xy_rbtree.h), keyed by sock_id.    *)
(* Application threads add and delete items under ep->mtx, which makes     *)
(* them one writer; the DPDK thread in epoll_event_callback, and           *)
(* xy_epoll_ctl's MOD, search the tree without a lock while they do.       *)
(*                                                                         *)
(* A search reads the root and the links downward, one in a step, and a    *)
(* step of the writer writes one of them.  Upward links and colors are     *)
(* known to the writer only: the step that decides on a change writes them *)
(* at once and leaves the links downward in "writes", in the order of the  *)
(* code.  The mirror images in the code are one action with a side, and    *)
(* what a turn of a loop does after its first rotation is the next turn.   *)
(* An item that is added again has the memory it had before; a search that *)
(* would read freed memory ends there.                                     *)
(***************************************************************************)
EXTENDS Naturals, Sequences, FiniteSets

CONSTANTS
    Socks,   \* sock_id of the items, and the items themselves
    Sought,  \* bound: the ones the reader looks for
    Nil

ASSUME TreeAssumption ==
    /\ Socks \subseteq Nat
    /\ IsFiniteSet(Socks)
    /\ Sought \subseteq Socks
    /\ Nil \notin Socks

VARIABLES
    child,       \* "left", "right" -> item -> rbe_left, rbe_right
    parent,      \* rbe_parent
    color,       \* rbe_color
    writes,      \* links downward that are still to be written
    pc,          \* the writer: what it does next
    elm, par,    \* elm and parent of the two loops
    old,         \* the item that is being removed
    registered,  \* what has been added and not deleted
    key, at,     \* what the reader looks for, or Nil, and where it is
    stays,       \* key is linked, and registered ever since the search began
    quiet        \* nothing has been written since the search began

vars == <<child, parent, color, writes, pc, elm, par, old, registered, key, at, stays, quiet>>

Sides == {"left", "right"}

Places == Socks \cup {Nil}

Opp(side) == IF side = "left" THEN "right" ELSE "left"

\* rbh_root.  The head stands above the root, as the place Nil.
Root == child["left"][Nil]

Black(n) == n # Nil => color[n] = "black"

Init ==
    /\ child = [side \in Sides |-> [n \in Places |-> Nil]]
    /\ parent = [n \in Socks |-> Nil]
    /\ color = [n \in Socks |-> "black"]
    /\ writes = <<>>
    /\ pc = "idle"
    /\ elm = Nil /\ par = Nil /\ old = Nil
    /\ registered = {}
    /\ key = Nil /\ at = Nil
    /\ stays = FALSE /\ quiet = FALSE

\* sock_cmp decides on which side of n the search for k goes on.
Toward(k, n) == IF n = Nil \/ k < n THEN "left" ELSE "right"

SideOf(n) == IF child["left"][parent[n]] = n THEN "left" ELSE "right"

\* Where the way that starts at n and goes on with Step ends.
Walk(n, Step(_)) ==
    LET way[i \in 0 .. Cardinality(Socks)] ==
            IF i = 0 THEN n
            ELSE LET m == way[i-1]
                     next == Step(m)
                 IN  IF next = Nil THEN m ELSE next
    IN  way[Cardinality(Socks)]

\* The search for x ends at x, or at the node that can get x as its child.
SearchEnd(x) ==
    LET Step(n) == IF n = x THEN Nil ELSE child[Toward(x, n)][n]
    IN  Walk(Nil, Step)

Leftmost(n) ==
    LET Step(m) == child["left"][m]
    IN  Walk(n, Step)

\* The writer has come to a place in the code.
Reached(place) == pc = place /\ writes = <<>>

\* The write that replaces n, as a child of its parent or as the root.
Replaced(n, new) == <<SideOf(n), parent[n], new>>

\* What no step of the writer changes: the reader's place.
Writes == quiet' = FALSE /\ UNCHANGED <<key, at>>

\* The same in a step of the two loops.
Repairs == Writes /\ UNCHANGED <<child, old, registered, stays>>

WriteLink ==
    /\ writes # <<>>
    /\ LET w == Head(writes) IN child' = [child EXCEPT ![w[1]][w[2]] = w[3]]
    /\ writes' = Tail(writes)
    /\ Writes
    /\ UNCHANGED <<parent, color, pc, elm, par, old, registered, stays>>

\* Faulty variant: x does not learn its new parent.
RotateOrphan(x, side) ==
    LET y == child[Opp(side)][x]
        inner == child[side][y]
    IN  /\ writes' = << <<Opp(side), x, inner>>, Replaced(x, y), <<side, y, x>> >>
        /\ parent' = [n \in Socks |->
              CASE n = y -> parent[x] [] n = inner -> x [] OTHER -> parent[n]]

\* RB_ROTATE_LEFT, RB_ROTATE_RIGHT: the child y takes the place of x.
Rotate(x, side) ==
    LET y == child[Opp(side)][x]
        inner == child[side][y]
    IN  /\ writes' = << <<Opp(side), x, inner>>, Replaced(x, y), <<side, y, x>> >>
        /\ parent' = [n \in Socks |->
              CASE n = x -> y [] n = y -> parent[x] [] n = inner -> x [] OTHER -> parent[n]]

-----------------------------------------------------------------------------
(***************************************************************************)
(* xy_epoll_ctl ADD: RB_INSERT puts the item below the last node on its    *)
(* way, in red, and RB_INSERT_COLOR goes up from it.                       *)
(***************************************************************************)

Insert(x) ==
    /\ Reached("idle")
    /\ SearchEnd(x) # x
    /\ child' = [side \in Sides |-> [child[side] EXCEPT ![x] = Nil]]
    /\ parent' = [parent EXCEPT ![x] = SearchEnd(x)]
    /\ color' = [color EXCEPT ![x] = "red"]
    /\ writes' = << <<Toward(x, SearchEnd(x)), SearchEnd(x), x>> >>
    /\ elm' = x
    /\ pc' = "insert_color"
    /\ registered' = registered \cup {x}
    /\ Writes
    /\ UNCHANGED <<par, old, stays>>

RedParent == Reached("insert_color") /\ ~Black(parent[elm])
Grandparent == parent[parent[elm]]
Uncle == child[Opp(SideOf(parent[elm]))][Grandparent]

\* Faulty variant: the grandparent keeps its color.
InsertRecolorUp ==
    /\ RedParent
    /\ ~Black(Uncle)
    /\ color' = [color EXCEPT ![Uncle] = "black", ![parent[elm]] = "black"]
    /\ elm' = Grandparent
    /\ Repairs
    /\ UNCHANGED <<parent, writes, pc, par>>

\* A red uncle: parent and uncle become black and the loop goes on above them.
InsertRecolor ==
    /\ RedParent
    /\ ~Black(Uncle)
    /\ color' = [color EXCEPT ![Uncle] = "black", ![parent[elm]] = "black",
                              ![Grandparent] = "red"]
    /\ elm' = Grandparent
    /\ Repairs
    /\ UNCHANGED <<parent, writes, pc, par>>

\* elm is an inner grandchild: a rotation makes it the parent.
InsertInner ==
    /\ RedParent
    /\ Black(Uncle)
    /\ SideOf(elm) # SideOf(parent[elm])
    /\ Rotate(parent[elm], SideOf(parent[elm]))
    /\ elm' = parent[elm]
    /\ Repairs
    /\ UNCHANGED <<color, pc, par>>

InsertOuter ==
    /\ RedParent
    /\ Black(Uncle)
    /\ SideOf(elm) = SideOf(parent[elm])
    /\ color' = [color EXCEPT ![parent[elm]] = "black", ![Grandparent] = "red"]
    /\ Rotate(Grandparent, Opp(SideOf(elm)))
    /\ Repairs
    /\ UNCHANGED <<pc, elm, par>>

InsertEnd ==
    /\ Reached("insert_color")
    /\ Black(parent[elm])
    /\ color' = [color EXCEPT ![Root] = "black"]
    /\ elm' = Nil
    /\ pc' = "idle"
    /\ Repairs
    /\ UNCHANGED <<parent, writes, par>>

-----------------------------------------------------------------------------
(***************************************************************************)
(* xy_epoll_ctl DEL: RB_REMOVE takes x out.  If x has two children, the    *)
(* next larger item takes its place.                                       *)
(***************************************************************************)

\* A node of color c is gone from below par, where elm is now.
Removes(x, c) ==
    /\ old' = x
    /\ pc' = IF c = "black" THEN "remove_color" ELSE "free"
    /\ registered' = registered \ {x}
    /\ stays' = (stays /\ key # x)
    /\ UNCHANGED child
    /\ Writes

RemoveOne(x) ==
    /\ Reached("idle")
    /\ SearchEnd(x) = x
    /\ \E side \in Sides : child[side][x] = Nil
    /\ elm' = IF child["left"][x] = Nil THEN child["right"][x] ELSE child["left"][x]
    /\ par' = parent[x]
    /\ writes' = <<Replaced(x, elm')>>
    /\ parent' = [n \in Socks |-> IF n = elm' THEN parent[x] ELSE parent[n]]
    /\ Removes(x, color[x])
    /\ UNCHANGED color

\* Faulty variant: par is the node that is removed.
RemoveTwoStaleParent(x) ==
    /\ Reached("idle")
    /\ SearchEnd(x) = x
    /\ \A side \in Sides : child[side][x] # Nil
    /\ LET heir == Leftmost(child["right"][x]) IN
          /\ elm' = child["right"][heir]
          /\ par' = parent[heir]
          /\ writes' = << Replaced(heir, elm'), <<"left", heir, child["left"][x]>>,
                <<"right", heir, IF parent[heir] = x THEN elm' ELSE child["right"][x]>>,
                Replaced(x, heir) >>
          /\ parent' = [n \in Socks |->
                CASE n = heir -> parent[x]
                  [] n = elm' -> par'
                  [] n # heir /\ n # elm' /\ parent[n] = x -> heir
                  [] OTHER -> parent[n]]
          /\ color' = [color EXCEPT ![heir] = color[x]]
          /\ Removes(x, color[heir])

\* The heir leaves its place, copies the links and the color of x and takes the
\* place of x.
RemoveTwo(x) ==
    /\ Reached("idle")
    /\ SearchEnd(x) = x
    /\ \A side \in Sides : child[side][x] # Nil
    /\ LET heir == Leftmost(child["right"][x]) IN
          /\ elm' = child["right"][heir]
          /\ par' = IF parent[heir] = x THEN heir ELSE parent[heir]
          /\ writes' = << Replaced(heir, elm'), <<"left", heir, child["left"][x]>>,
                <<"right", heir, IF parent[heir] = x THEN elm' ELSE child["right"][x]>>,
                Replaced(x, heir) >>
          /\ parent' = [n \in Socks |->
                CASE n = heir -> parent[x]
                  [] n = elm' -> par'
                  [] n # heir /\ n # elm' /\ parent[n] = x -> heir
                  [] OTHER -> parent[n]]
          /\ color' = [color EXCEPT ![heir] = color[x]]
          /\ Removes(x, color[heir])

\* RB_REMOVE_COLOR: below par, on the side of elm, a black node is missing.
MissingBlack == Reached("remove_color") /\ Black(elm) /\ elm # Root
Side == IF child["left"][par] = elm THEN "left" ELSE "right"
Sibling == child[Opp(Side)][par]
Near == child[Side][Sibling]
Far == child[Opp(Side)][Sibling]

RemoveRedSibling ==
    /\ MissingBlack
    /\ ~Black(Sibling)
    /\ color' = [color EXCEPT ![Sibling] = "black", ![par] = "red"]
    /\ Rotate(par, Side)
    /\ Repairs
    /\ UNCHANGED <<pc, elm, par>>

\* The sibling becomes red and the black node is missing one level up.
RemoveRecolor ==
    /\ MissingBlack
    /\ Black(Sibling) /\ Black(Near) /\ Black(Far)
    /\ color' = [color EXCEPT ![Sibling] = "red"]
    /\ elm' = par
    /\ par' = parent[par]
    /\ Repairs
    /\ UNCHANGED <<parent, writes, pc>>

RemoveNear ==
    /\ MissingBlack
    /\ Black(Sibling) /\ ~Black(Near) /\ Black(Far)
    /\ color' = [color EXCEPT ![Near] = "black", ![Sibling] = "red"]
    /\ Rotate(Sibling, Opp(Side))
    /\ Repairs
    /\ UNCHANGED <<pc, elm, par>>

\* After this rotation elm is the root, which ends the loop.
RemoveFar ==
    /\ MissingBlack
    /\ Black(Sibling) /\ ~Black(Far)
    /\ color' = [color EXCEPT ![Sibling] = color[par], ![par] = "black", ![Far] = "black"]
    /\ Rotate(par, Side)
    /\ elm' = IF parent[par] = Nil THEN Sibling ELSE Root
    /\ Repairs
    /\ UNCHANGED <<pc, par>>

RemoveEnd ==
    /\ Reached("remove_color")
    /\ ~MissingBlack
    /\ color' = [n \in Socks |-> IF n = elm THEN "black" ELSE color[n]]
    /\ pc' = "free"
    /\ Repairs
    /\ UNCHANGED <<parent, writes, elm, par>>

\* free(epi).  What the memory holds after that is not read: RB_SET writes every
\* field.
Free ==
    /\ Reached("free")
    /\ child' = [side \in Sides |-> [child[side] EXCEPT ![old] = Nil]]
    /\ parent' = [parent EXCEPT ![old] = Nil]
    /\ color' = [color EXCEPT ![old] = "black"]
    /\ elm' = Nil /\ par' = Nil /\ old' = Nil
    /\ pc' = "idle"
    /\ Writes
    /\ UNCHANGED <<writes, registered, stays>>

-----------------------------------------------------------------------------
(***************************************************************************)
(* RB_FIND, without mtx: epoll_event_callback and xy_epoll_ctl MOD.        *)
(***************************************************************************)

\* The call, and the first read.
Find(k) ==
    /\ key = Nil
    /\ key' = k
    /\ at' = Root
    /\ stays' = (k \in registered /\ (pc = "insert_color" => k # elm))
    /\ quiet' = (pc = "idle")
    /\ UNCHANGED <<child, parent, color, writes, pc, elm, par, old, registered>>

\* Memory that the search may still read.
Allocated(n) == n # Nil /\ (n \in registered \/ n = old)

\* Faulty variant: the search goes to the other side.
CompareTurned ==
    /\ key # Nil /\ at # key /\ Allocated(at)
    /\ at' = child[Opp(Toward(key, at))][at]
    /\ UNCHANGED <<child, parent, color, writes, pc, elm, par, old, registered, key, stays, quiet>>

Compare ==
    /\ key # Nil /\ at # key /\ Allocated(at)
    /\ at' = child[Toward(key, at)][at]
    /\ UNCHANGED <<child, parent, color, writes, pc, elm, par, old, registered, key, stays, quiet>>

Missed == key # Nil /\ at = Nil
Found == key # Nil /\ at = key /\ Allocated(at)

\* Without an item the callback fails its assertion, xy_epoll_ctl returns -1.
FindEnd ==
    /\ Missed \/ Found
    /\ key' = Nil
    /\ at' = Nil
    /\ stays' = FALSE
    /\ quiet' = FALSE
    /\ UNCHANGED <<child, parent, color, writes, pc, elm, par, old, registered>>

Next ==
    \/ \E x \in Socks : Insert(x) \/ RemoveOne(x) \/ RemoveTwo(x)
    \/ WriteLink
    \/ InsertRecolor \/ InsertInner \/ InsertOuter \/ InsertEnd
    \/ RemoveRedSibling \/ RemoveRecolor \/ RemoveNear \/ RemoveFar
    \/ RemoveEnd \/ Free
    \/ \E k \in Sought : Find(k)
    \/ Compare \/ FindEnd

Spec == Init /\ [][Next]_vars

-----------------------------------------------------------------------------
(***************************************************************************)
(* Properties.                                                             *)
(***************************************************************************)

\* Type invariant.
TypeOK ==
    /\ child \in [Sides -> [Places -> Places]]
    /\ parent \in [Socks -> Places]
    /\ color \in [Socks -> {"red", "black"}]
    /\ pc \in {"idle", "insert_color", "remove_color", "free"}
    /\ {elm, par, old, key, at} \subseteq Places
    /\ \A i \in 1 .. Len(writes) :
          /\ writes[i] \in Sides \X Places \X Places
          /\ writes[i][2] = Nil => writes[i][1] = "left"
    /\ registered \subseteq Socks
    /\ {stays, quiet} \subseteq BOOLEAN

\* The items below n, and n.
Subtree(n) ==
    LET level[i \in 0 .. Cardinality(Socks)] ==
            IF i = 0 THEN {n} ELSE {child[side][m] : side \in Sides, m \in level[i-1] \ {Nil}}
    IN  (UNION {level[i] : i \in DOMAIN level}) \ {Nil}

\* Between two calls the tree holds what was added and not deleted, in order,
\* and its upward links, on which the next call relies, are right.
HoldsRegistered ==
    pc = "idle" =>
        /\ Subtree(Root) = registered
        /\ \A n \in registered :
              /\ \A m \in Subtree(child["left"][n]) : m < n
              /\ \A m \in Subtree(child["right"][n]) : n < m
              /\ n = child[SideOf(n)][parent[n]]

\* The number of black items from n up to the root.
Blacks(n) ==
    LET way[i \in 0 .. Cardinality(Socks)] ==
            IF i = 0 THEN {n} ELSE {parent[m] : m \in way[i-1] \ {Nil}}
    IN  Cardinality({m \in (UNION {way[i] : i \in DOMAIN way}) \ {Nil} : color[m] = "black"})

\* Between two calls the tree is balanced: no red item has a red parent, and on
\* all ways down there are equally many black items.
Balanced ==
    pc = "idle" =>
        /\ \A n \in registered : color[n] = "red" => parent[n] # Nil /\ Black(parent[n])
        /\ \A n, m \in {k \in registered : \E side \in Sides : child[side][k] = Nil} :
              Blacks(n) = Blacks(m)

\* The repair follows pointers that it does not test for NULL, because in a
\* tree that was balanced before they are not: the grandparent of an item whose
\* parent is red, and the sibling of a node below which a black one is missing.
PointersExist ==
    /\ RedParent => Grandparent # Nil
    /\ MissingBlack => par # Nil /\ Sibling # Nil

\* A search during which nothing is written finds the item exactly if it is
\* registered.
QuietFindIsRight ==
    quiet => (Missed => key \notin registered) /\ (Found => key \in registered)

\* "if (!epi) { assert(0); }": the callback takes a registered item to be found.
RegisteredIsFound == Missed => ~stays

=============================================================================
