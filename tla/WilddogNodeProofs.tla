-------------------------- MODULE WilddogNodeProofs --------------------------
(***************************************************************************)
(* What holds of the nodes however many there are, with any keys and       *)
(* values, as long as the application leaves out the calls that the code   *)
(* gets wrong and a trigger shows a tree to one listener: that the nodes   *)
(* are sound (Invariance and what follows from it), and that every call    *)
(* does to the trees of data what DataTrees promises (TreesAreKept).       *)
(***************************************************************************)
EXTENDS WilddogNodeTrees, SetInduction, SequenceTheorems, FiniteSetTheorems

-----------------------------------------------------------------------------
(* Lists and what lies under them.                                           *)

LEMMA ListLeast ==
  ASSUME NEW h, NEW c, NEW S \in SUBSET Nodes, c \in S \cup {Null},
         \A m \in S : h[m].next \in S \cup {Null}
  PROVE  List(h, c) \subseteq S
BY DEF List

LEMMA ListHas ==
  ASSUME NEW h, NEW c
  PROVE  /\ List(h, c) \subseteq Nodes
         /\ c \in Nodes => c \in List(h, c)
         /\ \A m \in List(h, c) : h[m].next \in Nodes => h[m].next \in List(h, c)
BY NodeAssumption DEF List

LEMMA UnderLeast ==
  ASSUME NEW h, NEW c, NEW S \in SUBSET Nodes, c \in S \cup {Null},
         \A m \in S : h[m].child \in S \cup {Null} /\ h[m].next \in S \cup {Null}
  PROVE  Under(h, c) \subseteq S
BY DEF Under

LEMMA UnderHas ==
  ASSUME NEW h, NEW c
  PROVE  /\ Under(h, c) \subseteq Nodes
         /\ c \in Nodes => c \in Under(h, c)
         /\ \A m \in Under(h, c) :
              /\ h[m].next \in Nodes => h[m].next \in Under(h, c)
              /\ h[m].child \in Nodes => h[m].child \in Under(h, c)
BY NodeAssumption DEF Under

-----------------------------------------------------------------------------
(* The invariant of the heap.                                                *)

NodeType ==
  [used : BOOLEAN, next : Nodes \cup {Null}, prev : Nodes \cup {Null},
   child : Nodes \cup {Null}, parent : Nodes \cup {Null},
   key : Keys \cup {NoKey}, val : Contents]

Heaps == [Nodes -> NodeType]

\* A node that is not allocated has no links.
Clean(h) == \A n \in Nodes : ~h[n].used => h[n] = Freed

\* The links lead to nodes that are allocated and whose links answer them.
Joined(h) ==
  \A n \in Nodes :
    /\ h[n].child # Null => /\ h[n].child \in Used(h) /\ h[h[n].child].parent = n
                            /\ h[n].val = "object"
    /\ h[n].next # Null => /\ h[n].next \in Used(h) /\ h[n].parent # Null
                           /\ h[h[n].next].parent = h[n].parent
                           /\ h[h[n].next].prev # Null
    /\ h[n].parent = Null => h[n].next = Null /\ h[n].prev = Null
    /\ h[n].parent # Null =>
         /\ h[n].parent \in Used(h) /\ h[n].key # NoKey
         /\ h[h[n].parent].child = n \/ \E x \in Nodes : h[x].next = n

\* One link leads to a node, and one key to a child.
Apart(h) ==
  \A m, n \in Nodes :
    /\ h[m].next = h[n].next /\ h[m].next # Null => m = n
    /\ h[m].child = h[n].next => h[m].child = Null
    /\ h[m].parent = h[n].parent /\ h[m].parent # Null /\ h[m].key = h[n].key => m = n

\* Neither the brothers nor the parents of a node come back to it.
Grounded(h) ==
  \A S \in SUBSET Nodes : S # {} =>
    /\ \E n \in S : h[n].parent \notin S
    /\ \E n \in S : \A m \in S : h[m].next # n

Sound(h) == h \in Heaps /\ Clean(h) /\ Joined(h) /\ Apart(h) /\ Grounded(h)

LEMMA KidsByParent ==
  ASSUME NEW h, Sound(h), NEW p \in Nodes
  PROVE  Kids(h, p) = {n \in Nodes : h[n].parent = p}
<1> DEFINE S == {n \in Nodes : h[n].parent = p}
<1>0. p # Null /\ Null \notin Nodes
  BY NodeAssumption
<1>1. Kids(h, p) \subseteq S
  <2>1. h[p].child \in S \cup {Null}
    BY DEF Sound, Joined, Used
  <2>2. \A m \in S : h[m].next \in S \cup {Null}
    BY DEF Sound, Joined, Used
  <2>3. QED
    BY <2>1, <2>2, ListLeast DEF Kids
<1>2. SUFFICES ASSUME S \ Kids(h, p) # {}
               PROVE  FALSE
  BY <1>1
<1>3. PICK n \in S \ Kids(h, p) : \A m \in S \ Kids(h, p) : h[m].next # n
  BY <1>2 DEF Sound, Grounded
<1>4. n \in Nodes /\ h[n].parent = p /\ n \notin Kids(h, p)
  BY <1>3
<1>5. h[p].child # n
  BY <1>4, ListHas DEF Kids
<1>6. PICK x \in Nodes : h[x].next = n
  BY <1>0, <1>4, <1>5 DEF Sound, Joined
<1>7. h[x].parent = p
  BY <1>0, <1>4, <1>6 DEF Sound, Joined
<1>8. x \notin Kids(h, p)
  BY <1>4, <1>6, ListHas DEF Kids
<1>9. QED
  BY <1>3, <1>6, <1>7, <1>8

\* The tree of n is what its parents lead back to n from.
LEMMA TreeByParent ==
  ASSUME NEW h, Sound(h), NEW n \in Used(h)
  PROVE  /\ n \in Tree(h, n) /\ Tree(h, n) \subseteq Used(h)
         /\ \A m \in Tree(h, n) : m # n => h[m].parent \in Tree(h, n)
         /\ \A m \in Nodes : h[m].parent \in Tree(h, n) => m \in Tree(h, n) /\ m # n
         /\ h[n].parent \notin Tree(h, n)
         /\ n \notin Under(h, h[n].child)
<1> DEFINE t == Tree(h, n)
           U == Under(h, h[n].child)
           S == {m \in U : h[m].parent \in t /\ m \in Used(h)}
<1>0. n \in Nodes /\ Null \notin Nodes /\ t = {n} \cup U /\ U \subseteq Nodes
  BY NodeAssumption, UnderHas DEF Used, Tree
<1>1. U \subseteq S
  <2>1. h[n].child \in S \cup {Null}
    BY <1>0, UnderHas DEF Sound, Joined, Used
  <2>2. ASSUME NEW m \in S
        PROVE  h[m].child \in S \cup {Null} /\ h[m].next \in S \cup {Null}
    <3>1. m \in U /\ m \in Nodes /\ h[m].parent \in t /\ m \in t
      BY <1>0, <2>2
    <3>2. h[m].child # Null => h[m].child \in Used(h) /\ h[h[m].child].parent = m
      BY <3>1 DEF Sound, Joined
    <3>3. h[m].next # Null => h[m].next \in Used(h) /\ h[h[m].next].parent = h[m].parent
      BY <3>1 DEF Sound, Joined
    <3>4. QED
      BY <3>1, <3>2, <3>3, UnderHas DEF Used
  <2>3. S \in SUBSET Nodes
    BY <1>0
  <2> HIDE DEF S
  <2>4. QED
    BY <2>1, <2>2, <2>3, UnderLeast
<1>2. t \subseteq Used(h) /\ \A m \in t : m # n => h[m].parent \in t
  BY <1>0, <1>1
<1>3. h[n].parent \notin t
  <2>1. PICK m \in t : h[m].parent \notin t
    BY <1>0, <1>2 DEF Sound, Grounded
  <2>2. QED
    BY <1>2, <2>1
<1>4. ASSUME NEW m \in Nodes, h[m].parent \in t
      PROVE  m \in t /\ m # n
  <2> DEFINE p == h[m].parent
  <2>1. p \in Nodes /\ m \in Kids(h, p)
    BY <1>0, <1>4, KidsByParent
  <2>2. h[p].child \in U \cup {Null}
    <3>1. h[p].child \in Nodes \cup {Null}
      BY <2>1 DEF Sound, Heaps, NodeType
    <3>2. QED
      BY <1>0, <1>4, <3>1, UnderHas
  <2>3. \A x \in U : h[x].next \in U \cup {Null}
    <3>1. \A x \in U : h[x].next \in Nodes \cup {Null}
      BY <1>0 DEF Sound, Heaps, NodeType
    <3>2. QED
      BY <3>1, UnderHas
  <2>4. Kids(h, p) \subseteq U
    BY <1>0, <2>2, <2>3, ListLeast DEF Kids
  <2>5. QED
    BY <1>0, <1>3, <1>4, <2>1, <2>4
<1>5. n \notin U
  BY <1>1, <1>3
<1>6. QED
  BY <1>0, <1>2, <1>3, <1>4, <1>5

LEMMA TreesAreTrees ==
  ASSUME NEW h, Sound(h), NEW n \in Used(h)
  PROVE  IsTree(h, n)
<1> DEFINE t == Tree(h, n)
<1>1. /\ n \in t /\ t \subseteq Used(h) /\ t \subseteq Nodes /\ Null \notin Nodes
      /\ \A m \in t : m # n => h[m].parent \in t
      /\ h[n].parent \notin t
  BY NodeAssumption, TreeByParent DEF Used
<1>2. ASSUME NEW x \in t
      PROVE  h[x].child # n
  BY <1>1 DEF Sound, Joined
<1>3. ASSUME NEW x \in t \ {n}
      PROVE  h[x].next # n
  BY <1>1 DEF Sound, Joined
<1>4. \A x, y \in t : h[x].child = h[y].child => x = y \/ h[x].child = Null
  BY <1>1 DEF Sound, Joined
<1>5. \A x, y \in t \ {n} : h[x].next = h[y].next => x = y \/ h[x].next = Null
  BY <1>1 DEF Sound, Apart
<1>6. \A x \in t, y \in t \ {n} : h[x].child = h[y].next => h[x].child = Null
  BY <1>1 DEF Sound, Apart
<1>7. QED
  BY <1>1, <1>2, <1>3, <1>4, <1>5, <1>6 DEF IsTree

\* No list comes back to where it was.
LEMMA ListEnds ==
  ASSUME NEW h, Sound(h), NEW n \in Nodes
  PROVE  n \notin List(h, h[n].next)
<1> DEFINE L == List(h, h[n].next)
<1>1. SUFFICES ASSUME n \in L
               PROVE  FALSE
  OBVIOUS
<1>2. Null \notin Nodes /\ \A m \in Nodes : h[m].next \in Nodes \cup {Null}
  BY NodeAssumption DEF Sound, Heaps, NodeType
<1>3. L \subseteq Nodes /\ \A m \in L : h[m].next \in L \cup {Null}
  BY <1>2, ListHas
<1>4. \A m \in L : \E x \in L : h[x].next = m
  <2> DEFINE S == {m \in L : \E x \in L : h[x].next = m}
             c == h[n].next
  <2>1. c \in S \cup {Null} /\ \A m \in S : h[m].next \in S \cup {Null}
    BY <1>1, <1>3
  <2>2. S \in SUBSET Nodes /\ L = List(h, c)
    BY <1>3
  <2> HIDE DEF S, c, L
  <2>3. L \subseteq S
    BY <2>1, <2>2, ListLeast
  <2>4. QED
    BY <2>3 DEF S
<1> HIDE DEF L
<1>5. QED
  BY <1>1, <1>3, <1>4 DEF Sound, Grounded

LEMMA EmptyList ==
  ASSUME NEW h
  PROVE  List(h, Null) = {}
<1> DEFINE S == {}
<1>1. S \in SUBSET Nodes /\ Null \in S \cup {Null} /\ \A m \in S : h[m].next \in S \cup {Null}
  OBVIOUS
<1> HIDE DEF S
<1>2. List(h, Null) \subseteq S
  BY <1>1, ListLeast
<1>3. QED
  BY <1>2 DEF S

LEMMA SoundLists ==
  ASSUME Sound(heap)
  PROVE  ListsRight /\ ChildIsFound
<1>0. Null \notin Nodes /\ heap \in Heaps /\ Joined(heap)
  BY NodeAssumption DEF Sound
<1>1. ASSUME NEW p \in Used(heap)
      PROVE  LET kids == Kids(heap, p)
             IN  /\ kids # {} => heap[p].val = "object"
                 /\ heap[p].parent = Null => heap[p].prev = Null /\ heap[p].next = Null
                 /\ \A n \in kids :
                      /\ n \in Used(heap) /\ heap[n].parent = p
                      /\ n \notin List(heap, heap[n].next)
                      /\ \A m \in kids \ {n} : heap[m].key # heap[n].key
                      /\ \/ Stale(heap, n)
                         \/ n = heap[p].child /\ heap[n].prev = Null
                         \/ heap[n].prev \in kids /\ heap[heap[n].prev].next = n
  <2> DEFINE kids == Kids(heap, p)
  <2>1. p \in Nodes /\ p # Null /\ kids = {n \in Nodes : heap[n].parent = p}
    BY <1>0, KidsByParent DEF Used
  <2>2. kids # {} => heap[p].child # Null
    BY EmptyList DEF Kids
  <2>3. kids # {} => heap[p].val = "object"
    BY <1>0, <2>1, <2>2 DEF Joined
  <2>4. heap[p].parent = Null => heap[p].prev = Null /\ heap[p].next = Null
    BY <1>0, <2>1 DEF Joined
  <2>5. ASSUME NEW n \in kids
        PROVE  /\ n \in Used(heap) /\ heap[n].parent = p
               /\ n \notin List(heap, heap[n].next)
               /\ \A m \in kids \ {n} : heap[m].key # heap[n].key
               /\ \/ Stale(heap, n)
                  \/ n = heap[p].child /\ heap[n].prev = Null
                  \/ heap[n].prev \in kids /\ heap[heap[n].prev].next = n
    <3>1. n \in Nodes /\ heap[n].parent = p
      BY <2>1
    <3>2. n \in Used(heap)
      BY <2>1, <3>1 DEF Sound, Clean, Freed, Blank, Used
    <3>3. n \notin List(heap, heap[n].next)
      BY <3>1, ListEnds
    <3>4. \A m \in kids \ {n} : heap[m].key # heap[n].key
      BY <2>1, <3>1 DEF Sound, Apart
    <3>5. ASSUME ~Stale(heap, n), heap[n].prev = Null
          PROVE  n = heap[p].child
      BY <1>0, <2>1, <3>1, <3>5 DEF Joined
    <3>6. ASSUME ~Stale(heap, n), heap[n].prev # Null
          PROVE  heap[n].prev \in kids /\ heap[heap[n].prev].next = n
      <4>1. heap[n].prev \in Nodes /\ heap[heap[n].prev].next = n
        BY <1>0, <3>1, <3>6 DEF Stale, Heaps, NodeType
      <4>2. heap[heap[n].prev].parent = p
        BY <1>0, <3>1, <4>1 DEF Joined
      <4>3. QED
        BY <2>1, <4>1, <4>2
    <3>7. QED
      BY <3>1, <3>2, <3>3, <3>4, <3>5, <3>6
  <2>6. QED
    BY <2>3, <2>4, <2>5
<1>2. ListsRight
  BY <1>1 DEF ListsRight
<1>3. ChildIsFound
  <2>1. ASSUME NEW n \in Used(heap), heap[n].parent # Null
        PROVE  n \in Kids(heap, heap[n].parent)
    <3>1. n \in Nodes /\ heap[n].parent \in Nodes
      BY <1>0, <2>1 DEF Used, Joined
    <3>2. QED
      BY <3>1, KidsByParent
  <2>2. QED
    BY <2>1 DEF ChildIsFound
<1>4. QED
  BY <1>2, <1>3

-----------------------------------------------------------------------------
(* The operations.                                                           *)

LEMMA SameLinks ==
  ASSUME NEW h, Sound(h), NEW k \in Heaps,
         \A n \in Nodes :
           /\ k[n].used = h[n].used /\ k[n].next = h[n].next /\ k[n].prev = h[n].prev
           /\ k[n].child = h[n].child /\ k[n].parent = h[n].parent
           /\ ~h[n].used => k[n] = h[n]
           /\ h[n].parent # Null => k[n].key = h[n].key
           /\ h[n].child # Null => k[n].val = h[n].val
  PROVE  Sound(k)
<1>1. Used(k) = Used(h) /\ Null \notin Nodes
  BY NodeAssumption DEF Used
<1>2. Clean(k)
  BY DEF Sound, Clean
<1>3. Joined(k)
  <2>1. ASSUME NEW n \in Nodes
        PROVE  /\ k[n].child # Null => k[n].child \in Used(k) /\ k[n].val = "object"
               /\ k[n].next # Null => k[n].next \in Used(k) /\ k[n].parent # Null
               /\ k[n].parent = Null => k[n].next = Null /\ k[n].prev = Null
               /\ k[n].parent # Null => k[n].parent \in Used(k) /\ k[n].key # NoKey
    BY <1>1 DEF Sound, Joined
  <2>2. ASSUME NEW n \in Nodes
        PROVE  /\ k[n].child # Null => k[k[n].child].parent = n
               /\ k[n].next # Null => k[k[n].next].parent = k[n].parent
                                      /\ k[k[n].next].prev # Null
               /\ k[n].parent # Null =>
                    k[k[n].parent].child = n \/ \E x \in Nodes : k[x].next = n
    BY <1>1 DEF Sound, Joined, Used
  <2>3. QED
    BY <2>1, <2>2 DEF Joined
<1>4. Apart(k)
  BY DEF Sound, Apart
<1>5. Grounded(k)
  BY DEF Sound, Grounded
<1>6. QED
  BY <1>2, <1>3, <1>4, <1>5 DEF Sound

\* Only the links along the parent's list lead into the tree of n, and only to n.
LEMMA IntoTree ==
  ASSUME NEW h, Sound(h), NEW n \in Used(h), NEW m \in Nodes, m \notin Tree(h, n)
  PROVE  /\ h[m].parent \notin Tree(h, n)
         /\ h[m].child \in Tree(h, n) => h[m].child = n
         /\ h[m].next \in Tree(h, n) => h[m].next = n
<1> DEFINE t == Tree(h, n)
<1>1. /\ n \in t /\ t \subseteq Nodes /\ Null \notin Nodes
      /\ \A x \in t : x # n => h[x].parent \in t
      /\ \A x \in Nodes : h[x].parent \in t => x \in t
  BY NodeAssumption, TreeByParent DEF Used
<1> HIDE DEF t
<1>2. m \notin t
  BY DEF t
<1>3. h[m].parent \notin t
  BY <1>1, <1>2
<1>4. h[m].child \in t => h[m].child = n
  <2>1. SUFFICES ASSUME h[m].child \in t, h[m].child # n
                 PROVE  FALSE
    OBVIOUS
  <2>2. h[h[m].child].parent = m
    BY <1>1, <2>1 DEF Sound, Joined
  <2>3. QED
    BY <1>1, <1>2, <2>1, <2>2
<1>5. h[m].next \in t => h[m].next = n
  <2>1. SUFFICES ASSUME h[m].next \in t, h[m].next # n
                 PROVE  FALSE
    OBVIOUS
  <2>2. h[h[m].next].parent = h[m].parent
    BY <1>1, <2>1 DEF Sound, Joined
  <2>3. QED
    BY <1>1, <1>3, <2>1, <2>2
<1>6. QED
  BY <1>3, <1>4, <1>5 DEF t

\* The list that n is on leads around its tree.
LEMMA OutOfTree ==
  ASSUME NEW h, Sound(h), NEW n \in Used(h)
  PROVE  /\ h[n].next \notin Tree(h, n) /\ h[n].parent \notin Tree(h, n)
         /\ \A x \in Tree(h, n) : h[x].next \in Nodes \ Tree(h, n) => x = n
         /\ \A x \in Nodes : h[x].next = n => x \notin Tree(h, n)
         /\ \A x \in Nodes : h[x].child = n => x \notin Tree(h, n)
<1> DEFINE t == Tree(h, n)
<1>1. /\ n \in t /\ t \subseteq Nodes /\ n \in Nodes /\ Null \notin Nodes
      /\ \A x \in t : x # n => h[x].parent \in t
      /\ \A x \in Nodes : h[x].parent \in t => x \in t
      /\ h[n].parent \notin t
  BY NodeAssumption, TreeByParent DEF Used
<1> HIDE DEF t
<1>2. h[n].next # n
  <2>1. {n} \in SUBSET Nodes /\ {n} # {}
    BY <1>1
  <2>2. \E x \in {n} : \A y \in {n} : h[y].next # x
    BY <2>1 DEF Sound, Grounded
  <2>3. QED
    BY <2>2
<1>3. h[n].next \notin t
  <2>1. SUFFICES ASSUME h[n].next \in t
                 PROVE  FALSE
    OBVIOUS
  <2>2. h[h[n].next].parent = h[n].parent
    BY <1>1, <2>1 DEF Sound, Joined
  <2>3. QED
    BY <1>1, <1>2, <2>1, <2>2
<1>4. ASSUME NEW x \in t, h[x].next \in Nodes \ t
      PROVE  x = n
  <2>1. h[h[x].next].parent = h[x].parent
    BY <1>1, <1>4 DEF Sound, Joined
  <2>2. QED
    BY <1>1, <1>4, <2>1
<1>5. ASSUME NEW x \in Nodes, h[x].next = n
      PROVE  x \notin t
  <2>1. h[n].parent = h[x].parent
    BY <1>1, <1>5 DEF Sound, Joined
  <2>2. QED
    BY <1>1, <1>2, <1>5, <2>1
<1>6. ASSUME NEW x \in Nodes, h[x].child = n
      PROVE  x \notin t
  <2>1. h[n].parent = x
    BY <1>1, <1>6 DEF Sound, Joined
  <2>2. QED
    BY <1>1, <2>1
<1>7. QED
  BY <1>1, <1>3, <1>4, <1>5, <1>6 DEF t

\* The tree of n is freed and its list closed behind it.
LEMMA Pruned ==
  ASSUME NEW h, Sound(h), NEW n \in Used(h), NEW k \in Heaps,
         \A m \in Tree(h, n) : k[m] = Freed,
         \A m \in Nodes \ Tree(h, n) :
           /\ k[m].used = h[m].used /\ k[m].parent = h[m].parent
           /\ k[m].key = h[m].key /\ k[m].val = h[m].val
           /\ k[m].child = IF h[m].child = n THEN h[n].next ELSE h[m].child
           /\ k[m].next = IF h[m].next = n THEN h[n].next ELSE h[m].next
           /\ k[m].prev = Null <=> h[m].prev = Null
           /\ ~h[m].used => k[m] = h[m]
  PROVE  Sound(k)
<1> DEFINE t == Tree(h, n)
<1>0. n \in Nodes /\ n \in t /\ t \subseteq Nodes /\ t \subseteq Used(h) /\ Null \notin Nodes
  BY NodeAssumption, TreeByParent DEF Used
<1>1. \A m \in Nodes \ t : /\ h[m].parent \notin t
                           /\ h[m].child \in t => h[m].child = n
                           /\ h[m].next \in t => h[m].next = n
  BY IntoTree
<1>2. /\ h[n].next \notin t /\ h[n].parent \notin t
      /\ \A x \in t : h[x].next \in Nodes \ t => x = n
      /\ \A x \in Nodes : h[x].next = n => x \notin t
      /\ \A x \in Nodes : h[x].child = n => x \notin t
  BY OutOfTree
<1> HIDE DEF t
<1>3. \A m \in t : /\ ~k[m].used /\ k[m] = Freed /\ k[m].next = Null /\ k[m].prev = Null
                   /\ k[m].child = Null /\ k[m].parent = Null
  <2>1. \A m \in t : k[m] = Freed
    BY DEF t
  <2>2. /\ Freed.used = FALSE /\ Freed.next = Null /\ Freed.prev = Null
        /\ Freed.child = Null /\ Freed.parent = Null
    BY DEF Freed, Blank
  <2>3. QED
    BY <2>1, <2>2
<1>4. \A m \in Nodes \ t :
        /\ k[m].used = h[m].used /\ k[m].parent = h[m].parent
        /\ k[m].key = h[m].key /\ k[m].val = h[m].val
        /\ k[m].child = IF h[m].child = n THEN h[n].next ELSE h[m].child
        /\ k[m].next = IF h[m].next = n THEN h[n].next ELSE h[m].next
        /\ k[m].prev = Null <=> h[m].prev = Null
        /\ ~h[m].used => k[m] = h[m]
  BY DEF t
<1>5. Used(k) = Used(h) \ t
  BY <1>0, <1>3, <1>4 DEF Used
<1>6. Clean(k)
  BY <1>3, <1>4 DEF Sound, Clean
<1>7. \A m \in Nodes \ t : /\ k[m].next \notin t /\ k[m].child \notin t
                           /\ k[m].next \in Nodes \cup {Null} /\ k[m].child \in Nodes \cup {Null}
  BY <1>0, <1>1, <1>2, <1>4 DEF Heaps, NodeType
<1>8. Joined(k)
  <2> SUFFICES ASSUME NEW m \in Nodes \ t
               PROVE  /\ k[m].child # Null => /\ k[m].child \in Used(k)
                                              /\ k[k[m].child].parent = m
                                              /\ k[m].val = "object"
                      /\ k[m].next # Null => /\ k[m].next \in Used(k) /\ k[m].parent # Null
                                             /\ k[k[m].next].parent = k[m].parent
                                             /\ k[k[m].next].prev # Null
                      /\ k[m].parent = Null => k[m].next = Null /\ k[m].prev = Null
                      /\ k[m].parent # Null =>
                           /\ k[m].parent \in Used(k) /\ k[m].key # NoKey
                           /\ k[k[m].parent].child = m \/ \E x \in Nodes : k[x].next = m
    BY <1>3 DEF Joined
  <2>1. ASSUME k[m].child # Null
        PROVE  k[m].child \in Used(k) /\ k[k[m].child].parent = m /\ k[m].val = "object"
    <3>1. h[m].child # Null
      BY <1>0, <1>4, <2>1
    <3>2. CASE h[m].child = n
      <4>1. k[m].child = h[n].next /\ h[n].next # Null /\ h[n].parent = m
        BY <1>0, <1>4, <2>1, <3>2 DEF Sound, Joined
      <4>2. h[n].next \in Used(h) /\ h[h[n].next].parent = m
        BY <1>0, <4>1 DEF Sound, Joined
      <4>3. h[m].val = "object"
        BY <1>0, <3>1 DEF Sound, Joined
      <4>4. QED
        BY <1>2, <1>4, <1>5, <4>1, <4>2, <4>3 DEF Used
    <3>3. CASE h[m].child # n
      <4>1. k[m].child = h[m].child
        BY <1>4, <3>3
      <4>2. h[m].child \in Used(h) /\ h[h[m].child].parent = m /\ h[m].val = "object"
        BY <3>1 DEF Sound, Joined
      <4>3. QED
        BY <1>4, <1>5, <1>7, <4>1, <4>2 DEF Used
    <3>4. QED
      BY <3>2, <3>3
  <2>2. ASSUME k[m].next # Null
        PROVE  /\ k[m].next \in Used(k) /\ k[m].parent # Null
               /\ k[k[m].next].parent = k[m].parent
               /\ k[k[m].next].prev # Null
    <3>1. h[m].next # Null
      BY <1>0, <1>4, <2>2
    <3>2. h[h[m].next].parent = h[m].parent /\ h[m].parent # Null
      BY <3>1 DEF Sound, Joined
    <3>3. CASE h[m].next = n
      <4>1. k[m].next = h[n].next /\ h[n].next # Null /\ h[n].parent = h[m].parent
        BY <1>4, <2>2, <3>2, <3>3
      <4>2. h[n].next \in Used(h) /\ h[h[n].next].parent = h[m].parent
            /\ h[h[n].next].prev # Null
        BY <1>0, <4>1 DEF Sound, Joined
      <4>3. QED
        BY <1>2, <1>4, <1>5, <3>2, <4>1, <4>2 DEF Used
    <3>4. CASE h[m].next # n
      <4>1. k[m].next = h[m].next
        BY <1>4, <3>4
      <4>2. h[m].next \in Used(h) /\ h[h[m].next].prev # Null
        BY <3>1 DEF Sound, Joined
      <4>3. QED
        BY <1>4, <1>5, <1>7, <3>2, <4>1, <4>2 DEF Used
    <3>5. QED
      BY <3>3, <3>4
  <2>3. k[m].parent = Null => k[m].next = Null /\ k[m].prev = Null
    BY <1>0, <1>4, <2>2 DEF Sound, Joined
  <2>4. ASSUME k[m].parent # Null
        PROVE  /\ k[m].parent \in Used(k) /\ k[m].key # NoKey
               /\ k[k[m].parent].child = m \/ \E x \in Nodes : k[x].next = m
    <3> DEFINE p == h[m].parent
    <3>1. k[m].parent = p /\ p # Null /\ p \notin t
      BY <1>1, <1>4, <2>4
    <3>2. p \in Used(h) /\ p \in Nodes /\ h[m].key # NoKey
      BY <3>1 DEF Sound, Joined, Used
    <3>3. k[p].child = m \/ \E x \in Nodes : k[x].next = m
      <4>1. CASE h[p].child = m
        BY <1>0, <1>4, <3>1, <3>2, <4>1
      <4>2. CASE \E x \in Nodes : h[x].next = m
        <5>1. PICK x \in Nodes : h[x].next = m
          BY <4>2
        <5>2. CASE x \notin t
          BY <1>0, <1>4, <5>1, <5>2
        <5>3. CASE x \in t
          <6>1. x = n /\ h[n].next = m /\ h[n].parent = p
            BY <1>0, <1>2, <5>1, <5>3 DEF Sound, Joined
          <6>2. h[p].child = n \/ \E y \in Nodes : h[y].next = n
            BY <1>0, <3>1, <6>1 DEF Sound, Joined
          <6>3. QED
            BY <1>2, <1>4, <3>1, <3>2, <6>1, <6>2
        <5>4. QED
          BY <5>2, <5>3
      <4>3. QED
        BY <3>1, <4>1, <4>2 DEF Sound, Joined
    <3>4. QED
      BY <1>4, <1>5, <3>1, <3>2, <3>3
  <2>5. QED
    BY <2>1, <2>2, <2>3, <2>4
<1>9. Apart(k)
  <2>1. ASSUME NEW x \in Nodes, NEW y \in Nodes, k[x].next = k[y].next, k[x].next # Null
        PROVE  x = y
    <3>1. x \notin t /\ y \notin t
      BY <1>3, <2>1
    <3>2. k[x].next = (IF h[x].next = n THEN h[n].next ELSE h[x].next)
          /\ k[y].next = (IF h[y].next = n THEN h[n].next ELSE h[y].next)
      BY <1>4, <3>1
    <3>3. \A v, w \in Nodes : h[v].next = h[w].next /\ h[v].next # Null => v = w
      BY DEF Sound, Apart
    <3>4. n # Null /\ x # n /\ y # n
      BY <1>0, <3>1
    <3>5. CASE h[x].next = n /\ h[y].next = n
      BY <3>3, <3>4, <3>5
    <3>6. CASE h[x].next = n /\ h[y].next # n
      <4>1. h[n].next = h[y].next /\ h[n].next # Null
        BY <2>1, <3>2, <3>6
      <4>2. QED
        BY <1>0, <3>3, <3>4, <4>1
    <3>7. CASE h[x].next # n /\ h[y].next = n
      <4>1. h[n].next = h[x].next /\ h[n].next # Null
        BY <2>1, <3>2, <3>7
      <4>2. QED
        BY <1>0, <3>3, <3>4, <4>1
    <3>8. CASE h[x].next # n /\ h[y].next # n
      <4>1. h[x].next = h[y].next /\ h[x].next # Null
        BY <2>1, <3>2, <3>8
      <4>2. QED
        BY <3>3, <4>1
    <3>9. QED
      BY <3>5, <3>6, <3>7, <3>8
  <2>2. ASSUME NEW x \in Nodes, NEW y \in Nodes, k[x].child = k[y].next, k[x].child # Null
        PROVE  FALSE
    <3>1. x \notin t /\ y \notin t
      BY <1>3, <2>2
    <3>2. k[x].child = (IF h[x].child = n THEN h[n].next ELSE h[x].child)
          /\ k[y].next = (IF h[y].next = n THEN h[n].next ELSE h[y].next)
      BY <1>4, <3>1
    <3>3. h[x].child = h[y].next => h[x].child = Null
      BY DEF Sound, Apart
    <3>4. CASE h[x].child = n
      <4>0. n # Null /\ h[y].next # n
        BY <1>0, <3>3, <3>4
      <4>1. h[y].next # n /\ h[n].next = h[y].next /\ h[n].next # Null
        BY <2>2, <3>2, <3>4, <4>0
      <4>2. y = n
        BY <1>0, <4>1 DEF Sound, Apart
      <4>3. QED
        BY <1>0, <3>1, <4>2
    <3>5. CASE h[x].child # n
      <4>1. h[y].next = n /\ h[x].child = h[n].next
        BY <2>2, <3>2, <3>3, <3>5
      <4>2. QED
        BY <1>0, <2>2, <3>2, <3>5, <4>1 DEF Sound, Apart
    <3>6. QED
      BY <3>4, <3>5
  <2>3. ASSUME NEW x \in Nodes, NEW y \in Nodes,
               k[x].parent = k[y].parent, k[x].parent # Null, k[x].key = k[y].key
        PROVE  x = y
    <3>1. x \notin t /\ y \notin t
      BY <1>3, <2>3
    <3>2. QED
      BY <1>4, <2>3, <3>1 DEF Sound, Apart
  <2>4. QED
    BY <2>1, <2>2, <2>3 DEF Apart
<1>10. Grounded(k)
  <2> SUFFICES ASSUME NEW S \in SUBSET Nodes, S # {}
               PROVE  /\ \E x \in S : k[x].parent \notin S
                      /\ \E x \in S : \A y \in S : k[y].next # x
    BY DEF Grounded
  <2>1. \E x \in S : k[x].parent \notin S
    <3>1. CASE \E x \in S : x \in t
      BY <1>0, <1>3, <3>1
    <3>2. CASE \A x \in S : x \notin t
      <4>1. PICK x \in S : h[x].parent \notin S
        BY DEF Sound, Grounded
      <4>2. QED
        BY <1>4, <3>2, <4>1
    <3>3. QED
      BY <3>1, <3>2
  <2>2. \E x \in S : \A y \in S : k[y].next # x
    <3>1. CASE \E x \in S : x \in t
      <4>1. PICK x \in S : x \in t
        BY <3>1
      <4>2. \A y \in S : k[y].next # x
        BY <1>0, <1>3, <1>7, <4>1
      <4>3. QED
        BY <4>2
    <3>2. CASE \A x \in S : x \notin t
      <4>1. CASE \A y \in S : h[y].next # n
        <5>1. PICK x \in S : \A y \in S : h[y].next # x
          BY DEF Sound, Grounded
        <5>2. \A y \in S : k[y].next # x
          BY <1>4, <3>2, <4>1, <5>1
        <5>3. QED
          BY <5>2
      <4>2. CASE \E y \in S : h[y].next = n
        <5>1. PICK x \in S \cup {n} : \A y \in S \cup {n} : h[y].next # x
          BY <1>0 DEF Sound, Grounded
        <5>2. x \in S
          BY <4>2, <5>1
        <5>3. \A y \in S : k[y].next # x
          BY <1>4, <3>2, <5>1, <5>2
        <5>4. QED
          BY <5>2, <5>3
      <4>3. QED
        BY <4>1, <4>2
    <3>3. QED
      BY <3>1, <3>2
  <2>3. QED
    BY <2>1, <2>2
<1>11. QED
  BY <1>6, <1>8, <1>9, <1>10 DEF Sound

\* The root n becomes the first child of p.
LEMMA Prepended ==
  ASSUME NEW h, Sound(h), NEW p \in Used(h), NEW n \in Used(h), NEW k \in Heaps,
         h[n].parent = Null, h[n].key # NoKey, p \notin Tree(h, n),
         \A m \in Nodes : h[m].parent = p => h[m].key # h[n].key,
         \A m \in Nodes :
           /\ k[m].used = h[m].used /\ k[m].key = h[m].key
           /\ k[m].val = IF m = p THEN "object" ELSE h[m].val
           /\ k[m].parent = IF m = n THEN p ELSE h[m].parent
           /\ k[m].child = IF m = p THEN n ELSE h[m].child
           /\ k[m].next = IF m = n THEN h[p].child ELSE h[m].next
           /\ k[m].prev = IF m = h[p].child THEN n ELSE h[m].prev
           /\ ~h[m].used => k[m] = h[m]
  PROVE  Sound(k)
<1> DEFINE t == Tree(h, n)
           f == h[p].child
<1>0. /\ n \in Nodes /\ p \in Nodes /\ Null \notin Nodes /\ n # Null /\ p # Null /\ n # p
      /\ n \in t /\ t \subseteq Nodes /\ Used(h) \subseteq Nodes
      /\ f \in Nodes \cup {Null}
  BY NodeAssumption, TreeByParent DEF Used, Sound, Heaps, NodeType
<1>1. /\ \A x \in Nodes : h[x].next # n /\ h[x].child # n
      /\ h[n].next = Null /\ h[n].prev = Null
  BY <1>0 DEF Sound, Joined
<1>2. f # Null => f \in Used(h) /\ h[f].parent = p /\ f # n
  BY <1>0 DEF Sound, Joined
<1>3. Used(k) = Used(h)
  BY DEF Used
<1>4. Clean(k)
  BY DEF Sound, Clean
<1>5. \A x \in Nodes : h[x].next = f => f = Null
  BY <1>0, <1>2 DEF Sound, Apart
<1>6. Joined(k)
  <2>1. ASSUME NEW m \in Nodes, k[m].child # Null
        PROVE  k[m].child \in Used(k) /\ k[k[m].child].parent = m /\ k[m].val = "object"
    <3>1. CASE m = p
      BY <1>0, <1>3, <3>1
    <3>2. CASE m # p
      <4>1. h[m].child # Null /\ k[m].child = h[m].child
        BY <2>1, <3>2
      <4>2. h[m].child \in Used(h) /\ h[h[m].child].parent = m /\ h[m].val = "object"
        BY <4>1 DEF Sound, Joined
      <4>3. QED
        BY <1>0, <1>1, <1>3, <3>2, <4>1, <4>2
    <3>3. QED
      BY <3>1, <3>2
  <2>2. ASSUME NEW m \in Nodes, k[m].next # Null
        PROVE  /\ k[m].next \in Used(k) /\ k[m].parent # Null
               /\ k[k[m].next].parent = k[m].parent
               /\ k[k[m].next].prev # Null
    <3>1. CASE m = n
      <4>1. k[m].next = f /\ f # Null /\ k[m].parent = p
        BY <2>2, <3>1
      <4>2. f \in Nodes /\ k[f].parent = p /\ k[f].prev = n
        BY <1>0, <1>2, <4>1
      <4>3. QED
        BY <1>0, <1>2, <1>3, <4>1, <4>2
    <3>2. CASE m # n
      <4>1. h[m].next # Null /\ k[m].next = h[m].next /\ k[m].parent = h[m].parent
        BY <2>2, <3>2
      <4>2. /\ h[m].next \in Used(h) /\ h[h[m].next].parent = h[m].parent
            /\ h[m].parent # Null /\ h[h[m].next].prev # Null
        BY <4>1 DEF Sound, Joined
      <4>3. k[h[m].next].parent = h[m].parent /\ k[h[m].next].prev # Null
        BY <1>0, <1>1, <4>2
      <4>4. QED
        BY <1>3, <4>1, <4>2, <4>3
    <3>3. QED
      BY <3>1, <3>2
  <2>3. ASSUME NEW m \in Nodes, k[m].parent = Null
        PROVE  k[m].next = Null /\ k[m].prev = Null
    <3>1. m # n /\ h[m].parent = Null
      BY <1>0, <2>3
    <3>2. h[m].next = Null /\ h[m].prev = Null
      BY <3>1 DEF Sound, Joined
    <3>3. m # f
      BY <1>0, <1>2, <3>1
    <3>4. QED
      BY <3>1, <3>2, <3>3
  <2>4. ASSUME NEW m \in Nodes, k[m].parent # Null
        PROVE  /\ k[m].parent \in Used(k) /\ k[m].key # NoKey
               /\ k[k[m].parent].child = m \/ \E x \in Nodes : k[x].next = m
    <3>1. CASE m = n
      BY <1>0, <1>3, <3>1
    <3>2. CASE m # n
      <4>1. h[m].parent # Null /\ k[m].parent = h[m].parent /\ k[m].key = h[m].key
        BY <2>4, <3>2
      <4>2. /\ h[m].parent \in Used(h) /\ h[m].key # NoKey
            /\ h[h[m].parent].child = m \/ \E x \in Nodes : h[x].next = m
        BY <4>1 DEF Sound, Joined
      <4>3. CASE \E x \in Nodes : h[x].next = m
        <5>1. PICK x \in Nodes : h[x].next = m
          BY <4>3
        <5>2. x # n
          BY <1>0, <1>1, <5>1
        <5>3. k[x].next = m
          BY <5>1, <5>2
        <5>4. QED
          BY <1>3, <4>1, <4>2, <5>3
      <4>4. CASE h[h[m].parent].child = m
        <5>1. CASE h[m].parent = p
          <6>1. k[n].next = m
            BY <1>0, <4>4, <5>1
          <6>2. QED
            BY <1>0, <1>3, <4>1, <4>2, <6>1
        <5>2. CASE h[m].parent # p
          BY <1>0, <1>3, <4>1, <4>2, <4>4, <5>2
        <5>3. QED
          BY <5>1, <5>2
      <4>5. QED
        BY <4>2, <4>3, <4>4
    <3>3. QED
      BY <3>1, <3>2
  <2>5. QED
    BY <2>1, <2>2, <2>3, <2>4 DEF Joined
<1>7. Apart(k)
  <2>0. \A v, w \in Nodes :
          /\ h[v].next = h[w].next /\ h[v].next # Null => v = w
          /\ h[v].child = h[w].next => h[v].child = Null
          /\ h[v].parent = h[w].parent /\ h[v].parent # Null /\ h[v].key = h[w].key => v = w
    BY DEF Sound, Apart
  <2>1. ASSUME NEW x \in Nodes, NEW y \in Nodes, k[x].next = k[y].next, k[x].next # Null
        PROVE  x = y
    <3>1. CASE x = n /\ y # n
      BY <1>5, <2>1, <3>1
    <3>2. CASE y = n /\ x # n
      BY <1>5, <2>1, <3>2
    <3>3. CASE x # n /\ y # n
      BY <2>0, <2>1, <3>3
    <3>4. QED
      BY <3>1, <3>2, <3>3
  <2>2. ASSUME NEW x \in Nodes, NEW y \in Nodes, k[x].child = k[y].next, k[x].child # Null
        PROVE  FALSE
    <3>1. CASE x = p
      <4>1. k[y].next = n
        BY <2>2, <3>1
      <4>2. QED
        BY <1>1, <1>2, <4>1, <1>0
    <3>2. CASE x # p /\ y = n
      <4>1. h[x].child = f /\ f # Null
        BY <2>2, <3>2
      <4>2. h[f].parent = x
        BY <4>1 DEF Sound, Joined
      <4>3. QED
        BY <1>2, <3>2, <4>1, <4>2
    <3>3. CASE x # p /\ y # n
      BY <2>0, <2>2, <3>3
    <3>4. QED
      BY <3>1, <3>2, <3>3
  <2>3. ASSUME NEW x \in Nodes, NEW y \in Nodes,
               k[x].parent = k[y].parent, k[x].parent # Null, k[x].key = k[y].key
        PROVE  x = y
    <3>1. CASE x = n /\ y # n
      BY <2>3, <3>1
    <3>2. CASE y = n /\ x # n
      BY <2>3, <3>2
    <3>3. CASE x # n /\ y # n
      BY <2>0, <2>3, <3>3
    <3>4. QED
      BY <3>1, <3>2, <3>3
  <2>4. QED
    BY <2>1, <2>2, <2>3 DEF Apart
<1>8. Grounded(k)
  <2> SUFFICES ASSUME NEW S \in SUBSET Nodes, S # {}
               PROVE  /\ \E x \in S : k[x].parent \notin S
                      /\ \E x \in S : \A y \in S : k[y].next # x
    BY DEF Grounded
  <2>1. \E x \in S : k[x].parent \notin S
    <3>1. CASE n \notin S
      <4>1. PICK x \in S : h[x].parent \notin S
        BY DEF Sound, Grounded
      <4>2. QED
        BY <3>1, <4>1
    <3>2. CASE n \in S /\ p \notin S
      BY <1>0, <3>2
    <3>3. CASE n \in S /\ p \in S
      <4> DEFINE T == S \ t
      <4>1. T \in SUBSET Nodes /\ p \in T
        BY <3>3
      <4>2. PICK x \in T : h[x].parent \notin T
        BY <4>1 DEF Sound, Grounded
      <4>3. h[x].parent \notin t
        BY <4>1, <4>2, TreeByParent
      <4>4. x # n /\ x \in S /\ h[x].parent \notin S
        BY <1>0, <4>2, <4>3
      <4>5. QED
        BY <4>4, <3>3
    <3>4. QED
      BY <3>1, <3>2, <3>3
  <2>2. \E x \in S : \A y \in S : k[y].next # x
    <3>1. CASE n \in S
      <4>1. \A y \in S : k[y].next # n
        BY <1>0, <1>1, <1>2
      <4>2. QED
        BY <3>1, <4>1
    <3>2. CASE n \notin S
      <4>1. PICK x \in S : \A y \in S : h[y].next # x
        BY DEF Sound, Grounded
      <4>2. \A y \in S : k[y].next # x
        BY <3>2, <4>1
      <4>3. QED
        BY <4>2
    <3>3. QED
      BY <3>1, <3>2
  <2>3. QED
    BY <2>1, <2>2
<1>9. QED
  BY <1>4, <1>6, <1>7, <1>8 DEF Sound

\* The root n takes the place of the child q of p, whose tree is freed.
LEMMA Swapped ==
  ASSUME NEW h, Sound(h), NEW p \in Used(h), NEW n \in Used(h), NEW q \in Used(h),
         NEW k \in Heaps,
         h[n].parent = Null, h[n].key # NoKey, p \notin Tree(h, n),
         h[q].parent = p, h[q].key = h[n].key,
         \A m \in Tree(h, q) : k[m] = Freed,
         \A m \in Nodes \ Tree(h, q) :
           /\ k[m].used = h[m].used /\ k[m].key = h[m].key /\ k[m].val = h[m].val
           /\ k[m].parent = IF m = n THEN p ELSE h[m].parent
           /\ k[m].child = IF h[m].child = q THEN n ELSE h[m].child
           /\ k[m].next = IF m = n THEN h[q].next ELSE IF h[m].next = q THEN n ELSE h[m].next
           /\ m = n => k[m].prev = h[q].prev
           /\ m # n => (k[m].prev = Null <=> h[m].prev = Null)
           /\ ~h[m].used => k[m] = h[m]
  PROVE  Sound(k)
<1> DEFINE t == Tree(h, q)
           u == Tree(h, n)
<1>0. /\ n \in Nodes /\ p \in Nodes /\ q \in Nodes /\ Null \notin Nodes
      /\ n # Null /\ p # Null /\ q # Null /\ n # p /\ n # q
      /\ q \in t /\ t \subseteq Nodes /\ Used(h) \subseteq Nodes
      /\ n \in u /\ u \subseteq Nodes /\ p \notin u
  BY NodeAssumption, TreeByParent DEF Used
<1>1. \A m \in Nodes \ t : /\ h[m].parent \notin t
                           /\ h[m].child \in t => h[m].child = q
                           /\ h[m].next \in t => h[m].next = q
  BY IntoTree
<1>2. /\ h[q].next \notin t /\ p \notin t
      /\ \A x \in t : h[x].next \in Nodes \ t => x = q
      /\ \A x \in Nodes : h[x].next = q => x \notin t
      /\ \A x \in Nodes : h[x].child = q => x \notin t
  BY OutOfTree
<1>3. /\ \A x \in Nodes : h[x].next # n /\ h[x].child # n
      /\ h[n].next = Null /\ h[n].prev = Null
  BY <1>0 DEF Sound, Joined
<1>4. n \notin t
  BY <1>0, TreeByParent
<1>5. \A x \in u : x # n => h[x].parent \in u
  BY TreeByParent
<1>6. \A x \in Nodes : h[x].parent \in u => x \in u
  BY TreeByParent
<1> HIDE DEF t, u
<1>7. \A m \in t : /\ ~k[m].used /\ k[m] = Freed /\ k[m].next = Null /\ k[m].prev = Null
                   /\ k[m].child = Null /\ k[m].parent = Null
  <2>1. \A m \in t : k[m] = Freed
    BY DEF t
  <2>2. /\ Freed.used = FALSE /\ Freed.next = Null /\ Freed.prev = Null
        /\ Freed.child = Null /\ Freed.parent = Null
    BY DEF Freed, Blank
  <2>3. QED
    BY <2>1, <2>2
<1>8. \A m \in Nodes \ t :
        /\ k[m].used = h[m].used /\ k[m].key = h[m].key /\ k[m].val = h[m].val
        /\ k[m].parent = IF m = n THEN p ELSE h[m].parent
        /\ k[m].child = IF h[m].child = q THEN n ELSE h[m].child
        /\ k[m].next = IF m = n THEN h[q].next ELSE IF h[m].next = q THEN n ELSE h[m].next
        /\ m = n => k[m].prev = h[q].prev
        /\ m # n => (k[m].prev = Null <=> h[m].prev = Null)
        /\ ~h[m].used => k[m] = h[m]
  BY DEF t
<1>9. Used(k) = Used(h) \ t
  BY <1>0, <1>7, <1>8 DEF Used
<1>10. Clean(k)
  BY <1>7, <1>8 DEF Sound, Clean
<1>11. \A m \in Nodes \ t : /\ k[m].next \notin t /\ k[m].child \notin t
                            /\ k[m].next \in Nodes \cup {Null}
                            /\ k[m].child \in Nodes \cup {Null}
  <2>1. \A m \in Nodes : h[m].next \in Nodes \cup {Null} /\ h[m].child \in Nodes \cup {Null}
    BY DEF Sound, Heaps, NodeType
  <2>2. QED
    BY <1>0, <1>1, <1>2, <1>4, <1>8, <2>1
<1>12. \A v, w \in Nodes :
         /\ h[v].next = h[w].next /\ h[v].next # Null => v = w
         /\ h[v].child = h[w].next => h[v].child = Null
         /\ h[v].parent = h[w].parent /\ h[v].parent # Null /\ h[v].key = h[w].key => v = w
  BY DEF Sound, Apart
<1>13. Joined(k)
  <2> SUFFICES ASSUME NEW m \in Nodes \ t
               PROVE  /\ k[m].child # Null => /\ k[m].child \in Used(k)
                                              /\ k[k[m].child].parent = m
                                              /\ k[m].val = "object"
                      /\ k[m].next # Null => /\ k[m].next \in Used(k) /\ k[m].parent # Null
                                             /\ k[k[m].next].parent = k[m].parent
                                             /\ k[k[m].next].prev # Null
                      /\ k[m].parent = Null => k[m].next = Null /\ k[m].prev = Null
                      /\ k[m].parent # Null =>
                           /\ k[m].parent \in Used(k) /\ k[m].key # NoKey
                           /\ k[k[m].parent].child = m \/ \E x \in Nodes : k[x].next = m
    BY <1>7 DEF Joined
  <2>1. ASSUME k[m].child # Null
        PROVE  k[m].child \in Used(k) /\ k[k[m].child].parent = m /\ k[m].val = "object"
    <3>1. CASE h[m].child = q
      <4>1. m = p /\ k[m].child = n /\ h[m].val = "object"
        BY <1>0, <1>8, <3>1 DEF Sound, Joined
      <4>2. QED
        BY <1>0, <1>4, <1>8, <1>9, <4>1
    <3>2. CASE h[m].child # q
      <4>1. k[m].child = h[m].child /\ h[m].child # Null
        BY <1>8, <2>1, <3>2
      <4>2. h[m].child \in Used(h) /\ h[h[m].child].parent = m /\ h[m].val = "object"
        BY <4>1 DEF Sound, Joined
      <4>3. h[m].child # n
        BY <1>3
      <4>4. QED
        BY <1>0, <1>8, <1>9, <1>11, <4>1, <4>2, <4>3
    <3>3. QED
      BY <3>1, <3>2
  <2>2. ASSUME k[m].next # Null
        PROVE  /\ k[m].next \in Used(k) /\ k[m].parent # Null
               /\ k[k[m].next].parent = k[m].parent
               /\ k[k[m].next].prev # Null
    <3>1. CASE m = n
      <4>1. k[m].next = h[q].next /\ h[q].next # Null /\ k[m].parent = p
        BY <1>8, <2>2, <3>1
      <4>2. /\ h[q].next \in Used(h) /\ h[h[q].next].parent = p
            /\ h[h[q].next].prev # Null
        BY <1>0, <4>1 DEF Sound, Joined
      <4>3. h[q].next # n
        BY <1>0, <1>3
      <4>4. QED
        BY <1>0, <1>2, <1>8, <1>9, <4>1, <4>2, <4>3
    <3>2. CASE m # n /\ h[m].next = q
      <4>1. k[m].next = n /\ k[m].parent = h[m].parent
        BY <1>8, <3>2
      <4>2. h[m].parent = p /\ h[q].prev # Null
        BY <1>0, <3>2 DEF Sound, Joined
      <4>3. QED
        BY <1>0, <1>4, <1>8, <1>9, <4>1, <4>2
    <3>3. CASE m # n /\ h[m].next # q
      <4>1. k[m].next = h[m].next /\ h[m].next # Null /\ k[m].parent = h[m].parent
        BY <1>8, <2>2, <3>3
      <4>2. /\ h[m].next \in Used(h) /\ h[h[m].next].parent = h[m].parent
            /\ h[m].parent # Null /\ h[h[m].next].prev # Null
        BY <4>1 DEF Sound, Joined
      <4>3. h[m].next # n
        BY <1>3
      <4>4. QED
        BY <1>0, <1>8, <1>9, <1>11, <4>1, <4>2, <4>3
    <3>4. QED
      BY <3>1, <3>2, <3>3
  <2>3. ASSUME k[m].parent = Null
        PROVE  k[m].next = Null /\ k[m].prev = Null
    <3>1. m # n /\ h[m].parent = Null
      BY <1>0, <1>8, <2>3
    <3>2. h[m].next = Null /\ h[m].prev = Null
      BY <3>1 DEF Sound, Joined
    <3>3. QED
      BY <1>0, <1>8, <3>1, <3>2
  <2>4. ASSUME k[m].parent # Null
        PROVE  /\ k[m].parent \in Used(k) /\ k[m].key # NoKey
               /\ k[k[m].parent].child = m \/ \E x \in Nodes : k[x].next = m
    <3>1. CASE m = n
      <4>1. k[m].parent = p /\ k[m].key # NoKey /\ p \in Used(k)
        BY <1>0, <1>2, <1>8, <1>9, <3>1
      <4>2. h[p].child = q \/ \E x \in Nodes : h[x].next = q
        BY <1>0 DEF Sound, Joined
      <4>3. CASE h[p].child = q
        BY <1>0, <1>2, <1>8, <3>1, <4>1, <4>3
      <4>4. CASE \E x \in Nodes : h[x].next = q
        <5>1. PICK x \in Nodes : h[x].next = q
          BY <4>4
        <5>2. x \notin t /\ x # n
          BY <1>0, <1>2, <1>3, <5>1
        <5>3. k[x].next = n
          BY <1>8, <5>1, <5>2
        <5>4. QED
          BY <3>1, <4>1, <5>3
      <4>5. QED
        BY <4>2, <4>3, <4>4
    <3>2. CASE m # n
      <4>1. k[m].parent = h[m].parent /\ h[m].parent # Null /\ k[m].key = h[m].key
        BY <1>8, <2>4, <3>2
      <4>2. /\ h[m].parent \in Used(h) /\ h[m].key # NoKey /\ h[m].parent \notin t
            /\ h[h[m].parent].child = m \/ \E x \in Nodes : h[x].next = m
        BY <1>1, <4>1 DEF Sound, Joined
      <4>3. m # q /\ m # Null
        BY <1>0
      <4>4. CASE h[h[m].parent].child = m
        <5>1. k[h[m].parent].child = m
          BY <1>0, <1>8, <4>2, <4>3, <4>4
        <5>2. QED
          BY <1>9, <4>1, <4>2, <5>1
      <4>5. CASE \E x \in Nodes : h[x].next = m
        <5>1. PICK x \in Nodes : h[x].next = m
          BY <4>5
        <5>2. CASE x \notin t
          <6>1. x # n
            BY <1>0, <1>3, <5>1
          <6>2. k[x].next = m
            BY <1>8, <4>3, <5>1, <5>2, <6>1
          <6>3. QED
            BY <1>9, <4>1, <4>2, <6>2
        <5>3. CASE x \in t
          <6>1. h[q].next = m
            BY <1>2, <5>1, <5>3
          <6>2. k[n].next = m
            BY <1>0, <1>4, <1>8, <6>1
          <6>3. QED
            BY <1>0, <1>9, <4>1, <4>2, <6>2
        <5>4. QED
          BY <5>2, <5>3
      <4>6. QED
        BY <4>2, <4>4, <4>5
    <3>3. QED
      BY <3>1, <3>2
  <2>5. QED
    BY <2>1, <2>2, <2>3, <2>4
<1>14. Apart(k)
  <2>1. ASSUME NEW x \in Nodes, NEW y \in Nodes, k[x].next = k[y].next, k[x].next # Null
        PROVE  x = y
    <3>1. x \notin t /\ y \notin t
      BY <1>7, <2>1
    <3>2. \A v \in {x, y} : \/ v = n /\ k[v].next = h[q].next
                            \/ v # n /\ h[v].next = q /\ k[v].next = n
                            \/ v # n /\ h[v].next # q /\ k[v].next = h[v].next
      BY <1>8, <3>1
    <3>3. h[q].next # n /\ x # q /\ y # q
      BY <1>0, <1>3, <3>1
    <3>4. QED
      BY <1>0, <1>3, <1>12, <2>1, <3>2, <3>3
  <2>2. ASSUME NEW x \in Nodes, NEW y \in Nodes, k[x].child = k[y].next, k[x].child # Null
        PROVE  FALSE
    <3>1. x \notin t /\ y \notin t
      BY <1>7, <2>2
    <3>2. \/ h[x].child = q /\ k[x].child = n
          \/ h[x].child # q /\ k[x].child = h[x].child
      BY <1>8, <3>1
    <3>3. \/ y = n /\ k[y].next = h[q].next
          \/ y # n /\ h[y].next = q /\ k[y].next = n
          \/ y # n /\ h[y].next # q /\ k[y].next = h[y].next
      BY <1>8, <3>1
    <3>4. h[q].next # n /\ h[y].next # n /\ h[x].child # n
      BY <1>0, <1>3
    <3>5. QED
      BY <1>0, <1>12, <2>2, <3>2, <3>3, <3>4
  <2>3. ASSUME NEW x \in Nodes, NEW y \in Nodes,
               k[x].parent = k[y].parent, k[x].parent # Null, k[x].key = k[y].key
        PROVE  x = y
    <3>1. x \notin t /\ y \notin t
      BY <1>7, <2>3
    <3>2. k[x].key = h[x].key /\ k[y].key = h[y].key /\ x # q /\ y # q
      BY <1>0, <1>8, <3>1
    <3>3. CASE x = n /\ y # n
      <4>1. h[y].parent = p /\ h[y].key = h[q].key
        BY <1>8, <2>3, <3>1, <3>2, <3>3
      <4>2. QED
        BY <1>0, <1>12, <3>2, <4>1
    <3>4. CASE y = n /\ x # n
      <4>1. h[x].parent = p /\ h[x].key = h[q].key
        BY <1>8, <2>3, <3>1, <3>2, <3>4
      <4>2. QED
        BY <1>0, <1>12, <3>2, <4>1
    <3>5. CASE x # n /\ y # n
      <4>1. h[x].parent = h[y].parent /\ h[x].parent # Null /\ h[x].key = h[y].key
        BY <1>8, <2>3, <3>1, <3>2, <3>5
      <4>2. QED
        BY <1>12, <4>1
    <3>6. QED
      BY <3>3, <3>4, <3>5
  <2>4. QED
    BY <2>1, <2>2, <2>3 DEF Apart
<1>15. Grounded(k)
  <2> SUFFICES ASSUME NEW S \in SUBSET Nodes, S # {}
               PROVE  /\ \E x \in S : k[x].parent \notin S
                      /\ \E x \in S : \A y \in S : k[y].next # x
    BY DEF Grounded
  <2>1. \E x \in S : k[x].parent \notin S
    <3>1. CASE \E x \in S : x \in t
      BY <1>0, <1>7, <3>1
    <3>2. CASE (\A x \in S : x \notin t) /\ (n \notin S \/ p \notin S)
      <4>1. CASE n \in S
        BY <1>8, <3>2, <4>1
      <4>2. CASE n \notin S
        <5>1. PICK x \in S : h[x].parent \notin S
          BY DEF Sound, Grounded
        <5>2. QED
          BY <1>8, <3>2, <4>2, <5>1
      <4>3. QED
        BY <4>1, <4>2
    <3>3. CASE (\A x \in S : x \notin t) /\ n \in S /\ p \in S
      <4> DEFINE T == S \ u
      <4>1. T \in SUBSET Nodes /\ p \in T
        BY <1>0, <3>3
      <4>2. PICK x \in T : h[x].parent \notin T
        BY <4>1 DEF Sound, Grounded
      <4>3. h[x].parent \notin u
        BY <1>6, <4>1, <4>2
      <4>4. x # n /\ x \in S /\ h[x].parent \notin S
        BY <1>0, <4>2, <4>3
      <4>5. k[x].parent = h[x].parent
        BY <1>8, <3>3, <4>4
      <4>6. QED
        BY <4>4, <4>5
    <3>4. QED
      BY <3>1, <3>2, <3>3
  <2>2. \E x \in S : \A y \in S : k[y].next # x
    <3>1. CASE \E x \in S : x \in t
      <4>1. PICK x \in S : x \in t
        BY <3>1
      <4>2. \A y \in S : k[y].next # x
        BY <1>0, <1>7, <1>11, <4>1
      <4>3. QED
        BY <4>2
    <3>2. CASE (\A x \in S : x \notin t) /\ n \notin S
      <4>1. PICK x \in S : \A y \in S : h[y].next # x
        BY DEF Sound, Grounded
      <4>2. \A y \in S : k[y].next # x
        BY <1>8, <3>2, <4>1
      <4>3. QED
        BY <4>2
    <3>3. CASE (\A x \in S : x \notin t) /\ n \in S
      <4> DEFINE T == (S \ {n}) \cup {q}
      <4>1. T \in SUBSET Nodes /\ T # {}
        BY <1>0
      <4>2. PICK x \in T : \A y \in T : h[y].next # x
        BY <4>1 DEF Sound, Grounded
      <4>3. CASE x = q
        <5>1. \A y \in S : k[y].next # n
          BY <1>0, <1>3, <1>8, <3>3, <4>2, <4>3
        <5>2. QED
          BY <3>3, <5>1
      <4>4. CASE x # q
        <5>1. x \in S /\ x # n /\ h[q].next # x
          BY <4>2, <4>4
        <5>2. \A y \in S : k[y].next # x
          BY <1>8, <3>3, <4>2, <5>1
        <5>3. QED
          BY <5>1, <5>2
      <4>5. QED
        BY <4>3, <4>4
    <3>4. QED
      BY <3>1, <3>2, <3>3
  <2>3. QED
    BY <2>1, <2>2
<1>16. QED
  BY <1>10, <1>13, <1>14, <1>15 DEF Sound

\* The tree of n depends on the links in it alone.
LEMMA SameTree ==
  ASSUME NEW h, Sound(h), NEW n \in Used(h), NEW g,
         \A m \in Tree(h, n) : /\ g[m].child = h[m].child
                               /\ m # n => g[m].next = h[m].next
  PROVE  Tree(g, n) = Tree(h, n)
<1> DEFINE c == h[n].child
           U == Under(h, c)
           W == Under(g, c)
<1>1. Tree(h, n) = {n} \cup U /\ n \notin U /\ U \subseteq Nodes /\ W \subseteq Nodes
  BY TreeByParent, UnderHas DEF Tree
<1>2. c \in Nodes \cup {Null} /\ g[n].child = c
      /\ \A m \in Nodes : h[m].child \in Nodes \cup {Null} /\ h[m].next \in Nodes \cup {Null}
  BY <1>1 DEF Sound, Heaps, NodeType, Used
<1>3. \A m \in U : g[m].child = h[m].child /\ g[m].next = h[m].next
  BY <1>1
<1>4. c \in U \cup {Null} /\ \A m \in U : /\ g[m].child \in U \cup {Null}
                                          /\ g[m].next \in U \cup {Null}
  BY <1>1, <1>2, <1>3, UnderHas
<1>5. W \subseteq U
  <2> HIDE DEF U
  <2>1. U \in SUBSET Nodes
    BY <1>1
  <2>2. QED
    BY <1>4, <2>1, UnderLeast
<1>6. c \in W \cup {Null} /\ \A m \in W : /\ h[m].child \in W \cup {Null}
                                          /\ h[m].next \in W \cup {Null}
  BY <1>1, <1>2, <1>3, <1>5, UnderHas
<1>7. U \subseteq W
  <2> HIDE DEF W
  <2>1. W \in SUBSET Nodes
    BY <1>1
  <2>2. QED
    BY <1>6, <2>1, UnderLeast
<1>8. QED
  BY <1>1, <1>2, <1>5, <1>7 DEF Tree

\* g is h with the link next of n led to x, where n is allocated.
NextIs(h, n, x, g) ==
  /\ g \in Heaps
  /\ \A m \in Nodes :
       /\ g[m].used = h[m].used
       /\ g[m].next = IF m = n /\ n \in Used(h) THEN x ELSE h[m].next
       /\ g[m].prev = h[m].prev
       /\ g[m].child = h[m].child
       /\ g[m].parent = h[m].parent
       /\ g[m].key = h[m].key
       /\ g[m].val = h[m].val
       /\ ~h[m].used => g[m] = h[m]

LEMMA SetNextFields ==
  ASSUME NEW h \in Heaps, NEW n \in Nodes \cup {Null}, NEW x \in Nodes \cup {Null},
         NEW g, g = SetNext(h, n, x)
  PROVE  NextIs(h, n, x, g)
BY DEF NextIs, SetNext, Heaps, NodeType, Used

\* g is h with the link prev of n led to x, where n is allocated.
PrevIs(h, n, x, g) ==
  /\ g \in Heaps
  /\ \A m \in Nodes :
       /\ g[m].used = h[m].used
       /\ g[m].next = h[m].next
       /\ g[m].prev = IF m = n /\ n \in Used(h) THEN x ELSE h[m].prev
       /\ g[m].child = h[m].child
       /\ g[m].parent = h[m].parent
       /\ g[m].key = h[m].key
       /\ g[m].val = h[m].val
       /\ ~h[m].used => g[m] = h[m]

LEMMA SetPrevFields ==
  ASSUME NEW h \in Heaps, NEW n \in Nodes \cup {Null}, NEW x \in Nodes \cup {Null},
         NEW g, g = SetPrev(h, n, x)
  PROVE  PrevIs(h, n, x, g)
BY DEF PrevIs, SetPrev, Heaps, NodeType, Used

LEMMA FreeFields ==
  ASSUME NEW h \in Heaps, NEW n, NEW k, k = Free(h, n)
  PROVE  k \in Heaps /\ \A m \in Nodes : k[m] = IF m \in Tree(h, n) THEN Freed ELSE h[m]
<1>1. Freed \in NodeType
  BY DEF Freed, Blank, NodeType, Contents
<1>2. QED
  BY <1>1 DEF Free, Heaps

\* k is h without the tree n.
Removed(h, n, k) ==
  /\ \A m \in Tree(h, n) : ~k[m].used
  /\ \A m \in Nodes \ Tree(h, n) :
       /\ k[m].used = h[m].used /\ k[m].parent = h[m].parent
       /\ k[m].key = h[m].key /\ k[m].val = h[m].val

LEMMA DeleteIsSound ==
  ASSUME NEW h, Sound(h), NEW n \in Used(h), ~OnlyChild(h, n), ~Stale(h, n)
  PROVE  Sound(DeleteNode(h, n)) /\ DeleteIsSafe(h, n) /\ Removed(h, n, DeleteNode(h, n))
<1> DEFINE p == h[n].parent
           x == h[n].prev
           y == h[n].next
           g == Unlinked(h, n)
           k == Free(g, n)
           t == Tree(h, n)
<1>0. /\ n \in Nodes /\ n # Null /\ Null \notin Nodes /\ h \in Heaps
      /\ n \in t /\ t \subseteq Nodes /\ Used(h) \subseteq Nodes
      /\ x \in Nodes \cup {Null} /\ y \in Nodes \cup {Null} /\ p \in Nodes \cup {Null}
  BY NodeAssumption, TreeByParent DEF Used, Sound, Heaps, NodeType
<1>1. /\ y # Null => y \in Used(h)
      /\ x # Null => h[x].next = n /\ x \in Used(h)
      /\ p # Null /\ x = Null => h[p].child = n
  <2>1. y # Null => y \in Used(h)
    BY <1>0 DEF Sound, Joined
  <2>2. x # Null => h[x].next = n
    BY DEF Stale
  <2>3. x # Null => x \in Used(h)
    BY <1>0, <2>2 DEF Sound, Clean, Freed, Blank, Used
  <2>4. p # Null /\ x = Null => h[p].child = n
    BY <1>0 DEF Sound, Joined
  <2>5. QED
    BY <2>1, <2>2, <2>3, <2>4
<1>2. p # Null => p \in Used(h)
  BY <1>0 DEF Sound, Joined
<1>3. DeleteIsSafe(h, n)
  BY <1>1, TreesAreTrees DEF DeleteIsSafe
<1>4. /\ y \notin t /\ p \notin t
      /\ \A m \in Nodes : h[m].next = n => m \notin t
      /\ \A m \in Nodes : h[m].child = n => m \notin t
  BY OutOfTree
<1>5. /\ \A v, w \in Nodes : h[v].next = n /\ h[w].next = n => v = w
      /\ \A v \in Nodes : h[v].child = n => v = p
      /\ \A v \in Nodes : h[v].next = n => x # Null /\ h[v].parent = p
  BY <1>0 DEF Sound, Apart, Joined
<1>6. /\ g \in Heaps
      /\ \A m \in Nodes :
           /\ g[m].used = h[m].used /\ g[m].parent = h[m].parent
           /\ g[m].key = h[m].key /\ g[m].val = h[m].val
           /\ g[m].child = IF h[m].child = n THEN h[n].next ELSE h[m].child
           /\ g[m].next = IF h[m].next = n THEN h[n].next ELSE h[m].next
           /\ g[m].prev = Null <=> h[m].prev = Null
           /\ ~h[m].used => g[m] = h[m]
  <2>1. CASE p = Null
    <3>1. g = h
      BY <2>1 DEF Unlinked
    <3>2. \A m \in Nodes : h[m].child # n /\ h[m].next # n
      BY <1>0, <1>5, <2>1 DEF Sound, Joined
    <3>3. QED
      BY <1>0, <3>1, <3>2
  <2>2. CASE p # Null /\ x # Null
    <3> DEFINE f == SetPrev(h, y, x)
    <3>1. g = SetNext(f, x, y)
      BY <2>2 DEF Unlinked
    <3> HIDE DEF g
    <3>2. PrevIs(h, y, x, f)
      <4> HIDE DEF g, k, t, p, x, y
      <4>1. QED
        BY <1>0, SetPrevFields
    <3> HIDE DEF f
    <3>3. NextIs(f, x, y, g)
      <4> HIDE DEF k, t, p, x, y
      <4>1. f \in Heaps
        BY <3>2 DEF PrevIs
      <4>2. QED
        BY <1>0, <3>1, <4>1, SetNextFields
    <3>4. x \in Used(f)
      BY <1>0, <1>1, <2>2, <3>2 DEF Used, PrevIs
    <3>5. y \in Nodes => h[y].prev # Null
      BY <1>0 DEF Sound, Joined
    <3>6. \A m \in Nodes : h[m].child # n
      BY <1>0, <1>1, <2>2 DEF Sound, Apart
    <3>7. \A m \in Nodes : h[m].next = n <=> m = x
      BY <1>0, <1>1, <1>5, <2>2
    <3>8. QED
      BY <2>2, <3>2, <3>3, <3>4, <3>5, <3>6, <3>7 DEF NextIs, PrevIs
  <2>3. CASE p # Null /\ x = Null
    <3>1. g = [h EXCEPT ![p].child = y]
      BY <2>3 DEF Unlinked
    <3>2. p \in Nodes /\ \A m \in Nodes : h[m].child = n <=> m = p
      BY <1>0, <1>1, <1>5, <2>3
    <3>3. \A m \in Nodes : h[m].next # n
      BY <1>5, <2>3
    <3>4. h[p].used
      BY <1>2, <2>3 DEF Used
    <3> HIDE DEF g
    <3>5. g \in Heaps
      BY <1>0, <3>1, <3>2 DEF Heaps, NodeType
    <3>6. \A m \in Nodes :
           /\ g[m].used = h[m].used /\ g[m].parent = h[m].parent
           /\ g[m].key = h[m].key /\ g[m].val = h[m].val
           /\ g[m].child = IF m = p THEN y ELSE h[m].child
           /\ g[m].next = h[m].next
           /\ g[m].prev = h[m].prev
           /\ m # p => g[m] = h[m]
      BY <1>0, <3>1, <3>2 DEF Heaps, NodeType
    <3>7. QED
      BY <3>2, <3>3, <3>4, <3>5, <3>6
  <2>4. QED
    BY <2>1, <2>2, <2>3
<1>7. Tree(g, n) = t
  <2>1. \A m \in t : g[m].child = h[m].child /\ g[m].next = h[m].next
    BY <1>0, <1>4, <1>6
  <2> HIDE DEF g
  <2>2. QED
    BY <2>1, SameTree
<1>8. k \in Heaps /\ \A m \in Nodes : k[m] = IF m \in t THEN Freed ELSE g[m]
  BY <1>6, <1>7, FreeFields
<1> HIDE DEF g, k
<1>9. /\ \A m \in t : k[m] = Freed
      /\ \A m \in Nodes \ t :
           /\ k[m].used = h[m].used /\ k[m].parent = h[m].parent
           /\ k[m].key = h[m].key /\ k[m].val = h[m].val
           /\ k[m].child = IF h[m].child = n THEN h[n].next ELSE h[m].child
           /\ k[m].next = IF h[m].next = n THEN h[n].next ELSE h[m].next
           /\ k[m].prev = Null <=> h[m].prev = Null
           /\ ~h[m].used => k[m] = h[m]
  BY <1>0, <1>6, <1>8
<1>10. Sound(k)
  BY <1>8, <1>9, Pruned
<1>11. DeleteNode(h, n) = k
  BY DEF DeleteNode, k, g
<1>12. Removed(h, n, k)
  BY <1>9 DEF Removed, Freed, Blank
<1>13. QED
  BY <1>3, <1>10, <1>11, <1>12

LEMMA NamesakeIs ==
  ASSUME NEW h, Sound(h), NEW p \in Nodes, NEW n, NEW q, q = Namesake(h, p, n)
  PROVE  \/ q = Null /\ \A m \in Nodes : h[m].parent = p => h[m].key # h[n].key
         \/ q # Null /\ q \in Used(h) /\ h[q].parent = p /\ h[q].key = h[n].key
<1> DEFINE found == {m \in Kids(h, p) : h[m].key = h[n].key}
<1>0. Null \notin Nodes /\ p # Null
  BY NodeAssumption
<1>1. found = {m \in Nodes : h[m].parent = p /\ h[m].key = h[n].key}
  BY KidsByParent
<1>2. q = IF found = {} THEN Null ELSE CHOOSE m \in found : found \subseteq List(h, m)
  BY DEF Namesake, First
<1>3. CASE found = {}
  BY <1>1, <1>2, <1>3
<1>4. CASE found # {}
  <2>1. PICK m \in found : TRUE
    BY <1>4
  <2>2. \A x \in found : x = m
    BY <1>0, <1>1, <2>1 DEF Sound, Apart
  <2>3. found \subseteq List(h, m)
    BY <1>1, <2>1, <2>2, ListHas
  <2>4. q \in found
    BY <1>2, <1>4, <2>1, <2>3
  <2>5. q \in Nodes /\ h[q].parent = p /\ h[q].key = h[n].key
    BY <1>1, <2>4
  <2>6. q \in Used(h)
    BY <1>0, <2>5 DEF Sound, Clean, Freed, Blank, Used
  <2>7. QED
    BY <1>0, <2>5, <2>6
<1>5. QED
  BY <1>3, <1>4

\* k is h with the root n a child of p, and the nodes F gone.
Joins(h, p, n, F, k) ==
  /\ \A m \in F : ~k[m].used
  /\ \A m \in Nodes \ F :
       /\ k[m].used = h[m].used /\ k[m].key = h[m].key
       /\ k[m].val = IF m = p THEN "object" ELSE h[m].val
       /\ k[m].parent = IF m = n THEN p ELSE h[m].parent

LEMMA PrependIsSound ==
  ASSUME NEW h, Sound(h), NEW p \in Used(h), NEW n \in Used(h),
         h[n].parent = Null, h[n].key # NoKey, p \notin Tree(h, n),
         \A m \in Nodes : h[m].parent = p => h[m].key # h[n].key,
         NEW k, k = Prepend(h, p, n)
  PROVE  Sound(k) /\ Joins(h, p, n, {}, k)
<1> DEFINE f == h[p].child
<1>0. /\ n \in Nodes /\ p \in Nodes /\ n # p /\ Null \notin Nodes /\ h \in Heaps
      /\ f \in Nodes \cup {Null} /\ h[n].used /\ h[p].used
  BY NodeAssumption, TreeByParent DEF Used, Sound, Heaps, NodeType
<1>1. f # Null => /\ f \in Used(h) /\ f # n /\ f # p /\ h[p].val = "object"
  <2>1. f # Null => f \in Used(h) /\ h[f].parent = p /\ h[p].val = "object"
    BY <1>0 DEF Sound, Joined
  <2>2. {p} \in SUBSET Nodes /\ {p} # {}
    BY <1>0
  <2>3. \E x \in {p} : h[x].parent \notin {p}
    BY <2>2 DEF Sound, Grounded
  <2>4. QED
    BY <1>0, <2>1, <2>3
<1>2. h[n].next = Null
  BY <1>0 DEF Sound, Joined
<1> HIDE DEF f
<1>3. /\ k \in Heaps
      /\ \A m \in Nodes :
           /\ k[m].used = h[m].used /\ k[m].key = h[m].key
           /\ k[m].val = IF m = p THEN "object" ELSE h[m].val
           /\ k[m].parent = IF m = n THEN p ELSE h[m].parent
           /\ k[m].child = IF m = p THEN n ELSE h[m].child
           /\ k[m].next = IF m = n THEN f ELSE h[m].next
           /\ k[m].prev = IF m = f THEN n ELSE h[m].prev
           /\ m # n /\ m # p /\ m # f => k[m] = h[m]
  <2>1. CASE f = Null
    <3>1. k = [h EXCEPT ![p].val = "object", ![p].child = n, ![n].parent = p]
      BY <2>1 DEF Prepend, f
    <3>2. k \in Heaps
      BY <1>0, <3>1 DEF Heaps, NodeType, Contents
    <3>3. QED
      BY <1>0, <1>2, <2>1, <3>1, <3>2 DEF Heaps, NodeType
  <2>2. CASE f # Null
    <3>1. k = [h EXCEPT ![f].prev = n, ![n].next = f, ![n].parent = p, ![p].child = n]
      BY <2>2 DEF Prepend, f
    <3>2. k \in Heaps
      BY <1>0, <1>1, <2>2, <3>1 DEF Heaps, NodeType
    <3>3. k[f] = [h[f] EXCEPT !.prev = n]
      BY <1>0, <1>1, <2>2, <3>1 DEF Heaps
    <3>4. k[p] = [h[p] EXCEPT !.child = n]
      BY <1>0, <1>1, <2>2, <3>1 DEF Heaps
    <3>5. k[n] = [h[n] EXCEPT !.next = f, !.parent = p]
      BY <1>0, <1>1, <2>2, <3>1 DEF Heaps
    <3>6. \A m \in Nodes : m # n /\ m # p /\ m # f => k[m] = h[m]
      BY <1>0, <3>1 DEF Heaps
    <3>7. h[f] \in NodeType /\ h[p] \in NodeType /\ h[n] \in NodeType
      BY <1>0, <2>2 DEF Heaps
    <3>8. ASSUME NEW m \in Nodes
          PROVE  /\ k[m].used = h[m].used /\ k[m].key = h[m].key
                 /\ k[m].val = IF m = p THEN "object" ELSE h[m].val
                 /\ k[m].parent = IF m = n THEN p ELSE h[m].parent
                 /\ k[m].child = IF m = p THEN n ELSE h[m].child
                 /\ k[m].next = IF m = n THEN f ELSE h[m].next
                 /\ k[m].prev = IF m = f THEN n ELSE h[m].prev
      <4>1. CASE m = f
        BY <1>1, <2>2, <3>3, <3>7, <4>1 DEF NodeType
      <4>2. CASE m = p
        BY <1>0, <1>1, <2>2, <3>4, <3>7, <4>2 DEF NodeType
      <4>3. CASE m = n
        BY <1>0, <1>1, <2>2, <3>5, <3>7, <4>3 DEF NodeType
      <4>4. CASE m # n /\ m # p /\ m # f
        BY <3>6, <4>4
      <4>5. QED
        BY <4>1, <4>2, <4>3, <4>4
    <3>9. QED
      BY <3>2, <3>6, <3>8
  <2>3. QED
    BY <2>1, <2>2
<1>4. \A m \in Nodes : ~h[m].used => k[m] = h[m]
  BY <1>0, <1>1, <1>3 DEF Used
<1>5. Joins(h, p, n, {}, k)
  BY <1>3 DEF Joins
<1>6. QED
  BY <1>3, <1>4, <1>5, Prepended DEF f

LEMMA ReplaceIsSound ==
  ASSUME NEW h, Sound(h), NEW p \in Used(h), NEW n \in Used(h), NEW q \in Used(h),
         h[n].parent = Null, h[n].key # NoKey, p \notin Tree(h, n),
         h[q].parent = p, h[q].key = h[n].key, ~Stale(h, q),
         NEW k, k = Replace(h, p, n, q)
  PROVE  /\ Sound(k) /\ {h[q].prev, h[q].next} \subseteq Used(h) \cup {Null}
         /\ Joins(h, p, n, Tree(h, q), k)
<1> DEFINE t == Tree(h, q)
           x == h[q].prev
           y == h[q].next
           tied == IF x = Null THEN [h EXCEPT ![p].child = n]
                   ELSE SetPrev(SetNext(h, x, n), y, n)
           g == [tied EXCEPT ![n].prev = x, ![n].parent = p,
                             ![n].next = IF y # Null THEN y ELSE @, ![q].next = Null]
<1>0. /\ n \in Nodes /\ p \in Nodes /\ q \in Nodes /\ Null \notin Nodes /\ h \in Heaps
      /\ x \in Nodes \cup {Null} /\ y \in Nodes \cup {Null} /\ p # Null
      /\ h[n].used /\ h[p].used /\ h[q].used /\ t \subseteq Nodes /\ q \in t
  BY NodeAssumption, TreeByParent DEF Used, Sound, Heaps, NodeType
<1>1. /\ y # Null => y \in Used(h) /\ h[y].parent = p /\ h[y].prev # Null
      /\ x # Null => h[x].next = q /\ x \in Used(h) /\ h[x].parent = p
      /\ x = Null => h[p].child = q
      /\ h[n].next = Null /\ h[n].prev = Null
  <2>1. y # Null => y \in Used(h) /\ h[y].parent = p /\ h[y].prev # Null
    BY <1>0 DEF Sound, Joined
  <2>2. x # Null => h[x].next = q
    BY DEF Stale
  <2>3. x # Null => x \in Used(h)
    BY <1>0, <2>2 DEF Sound, Clean, Freed, Blank, Used
  <2>4. x # Null => h[x].parent = p
    BY <1>0, <2>2 DEF Sound, Joined
  <2>5. x = Null => h[p].child = q
    BY <1>0 DEF Sound, Joined
  <2>6. h[n].next = Null /\ h[n].prev = Null
    BY <1>0 DEF Sound, Joined
  <2>7. QED
    BY <2>1, <2>2, <2>3, <2>4, <2>5, <2>6
<1>2. /\ y \notin t /\ p \notin t /\ n \notin t
      /\ \A m \in Nodes : h[m].next = q => m \notin t
  <2>1. n \notin t
    BY <1>0, TreeByParent
  <2>2. QED
    BY <2>1, OutOfTree
<1>3. /\ \A m \in Nodes : h[m].next = q => m = x
      /\ \A m \in Nodes : h[m].child = q => m = p /\ x = Null
  <2>1. ASSUME NEW m \in Nodes, h[m].next = q
        PROVE  m = x
    <3>1. x # Null
      BY <1>0, <2>1 DEF Sound, Joined
    <3>2. QED
      BY <1>0, <1>1, <2>1, <3>1 DEF Sound, Apart
  <2>2. ASSUME NEW m \in Nodes, h[m].child = q
        PROVE  m = p /\ x = Null
    <3>1. m = p
      BY <1>0, <2>2 DEF Sound, Joined
    <3>2. x # Null => FALSE
      BY <1>0, <1>1, <2>2 DEF Sound, Apart
    <3>3. QED
      BY <3>1, <3>2
  <2>3. QED
    BY <2>1, <2>2
<1>4. n # p /\ n # q /\ p # q /\ x # n /\ y # n /\ x # q /\ y # q
  BY <1>0, <1>1, <1>2, TreeByParent
<1>5. /\ tied \in Heaps
      /\ \A m \in Nodes :
           /\ tied[m].used = h[m].used /\ tied[m].key = h[m].key /\ tied[m].val = h[m].val
           /\ tied[m].parent = h[m].parent
           /\ tied[m].child = IF h[m].child = q THEN n ELSE h[m].child
           /\ tied[m].next = IF h[m].next = q THEN n ELSE h[m].next
           /\ tied[m].prev = Null <=> h[m].prev = Null
           /\ ~h[m].used => tied[m] = h[m]
  <2> HIDE DEF t, g
  <2>1. CASE x = Null
    <3>1. tied = [h EXCEPT ![p].child = n]
      BY <2>1
    <3> HIDE DEF tied, x, y
    <3>2. tied \in Heaps
      BY <1>0, <3>1 DEF Heaps, NodeType
    <3>3. \A m \in Nodes :
           /\ tied[m].used = h[m].used /\ tied[m].key = h[m].key /\ tied[m].val = h[m].val
           /\ tied[m].parent = h[m].parent
           /\ tied[m].child = IF m = p THEN n ELSE h[m].child
           /\ tied[m].next = h[m].next /\ tied[m].prev = h[m].prev
           /\ m # p => tied[m] = h[m]
      BY <1>0, <3>1 DEF Heaps, NodeType
    <3>4. \A m \in Nodes : h[m].next # q /\ (h[m].child = q <=> m = p)
      BY <1>0, <1>1, <1>3, <2>1
    <3>5. QED
      BY <1>0, <3>2, <3>3, <3>4
  <2>2. CASE x # Null
    <3> DEFINE e == SetNext(h, x, n)
    <3>1. tied = SetPrev(e, y, n)
      BY <2>2
    <3> HIDE DEF tied, x, y
    <3>2. NextIs(h, x, n, e)
      BY <1>0, SetNextFields
    <3> HIDE DEF e
    <3>3. PrevIs(e, y, n, tied)
      <4>1. e \in Heaps
        BY <3>2 DEF NextIs
      <4>2. QED
        BY <1>0, <3>1, <4>1, SetPrevFields
    <3>4. \A m \in Nodes : h[m].child # q /\ (h[m].next = q <=> m = x)
      BY <1>0, <1>1, <1>3, <2>2
    <3>5. x \in Used(h) /\ n # Null
      BY <1>0, <1>1, <2>2
    <3>6. \A m \in Nodes : m = y => h[m].prev # Null
      BY <1>0, <1>1
    <3>7. QED
      BY <3>2, <3>3, <3>4, <3>5, <3>6 DEF NextIs, PrevIs
  <2>3. QED
    BY <2>1, <2>2
<1> HIDE DEF tied
<1>6. tied[n].next = Null
  BY <1>0, <1>1, <1>5
<1>7. /\ g \in Heaps
      /\ \A m \in Nodes :
           /\ m # n /\ m # q => g[m] = tied[m]
           /\ g[m].used = tied[m].used /\ g[m].key = tied[m].key /\ g[m].val = tied[m].val
           /\ g[m].child = tied[m].child
           /\ g[n].parent = p /\ g[n].next = y /\ g[n].prev = x
           /\ g[q].parent = tied[q].parent
  <2> DEFINE z == IF y # Null THEN y ELSE tied[n].next
  <2>1. z = y
    BY <1>6
  <2>2. g = [tied EXCEPT ![n].prev = x, ![n].parent = p, ![n].next = y, ![q].next = Null]
    BY <1>0, <1>4, <1>5, <2>1 DEF Heaps, NodeType
  <2> HIDE DEF g, x, y, z
  <2>3. g \in Heaps
    BY <1>0, <1>5, <2>2 DEF Heaps, NodeType
  <2>4. QED
    BY <1>0, <1>4, <1>5, <2>2, <2>3 DEF Heaps, NodeType
<1>8. Tree(g, q) = t
  <2> HIDE DEF g
  <2>1. \A m \in t : g[m].child = h[m].child /\ (m # q => g[m].next = h[m].next)
    <3>1. \A m \in t : m \in Nodes /\ m # n /\ h[m].child # q /\ h[m].next # q
      BY <1>0, <1>2, <1>3
    <3>2. \A m \in t : tied[m].child = h[m].child /\ tied[m].next = h[m].next
      BY <1>5, <3>1
    <3>3. QED
      BY <1>7, <3>1, <3>2
  <2>2. QED
    BY <2>1, SameTree
<1>9. k = Free(g, q)
  BY DEF Replace, g, tied
<1> HIDE DEF g
<1>10. k \in Heaps /\ \A m \in Nodes : k[m] = IF m \in t THEN Freed ELSE g[m]
  BY <1>7, <1>8, <1>9, FreeFields
<1>11. /\ \A m \in t : k[m] = Freed
       /\ \A m \in Nodes \ t :
            /\ k[m].used = h[m].used /\ k[m].key = h[m].key /\ k[m].val = h[m].val
            /\ k[m].parent = IF m = n THEN p ELSE h[m].parent
            /\ k[m].child = IF h[m].child = q THEN n ELSE h[m].child
            /\ k[m].next = IF m = n THEN h[q].next ELSE IF h[m].next = q THEN n ELSE h[m].next
            /\ m = n => k[m].prev = h[q].prev
            /\ m # n => (k[m].prev = Null <=> h[m].prev = Null)
            /\ ~h[m].used => k[m] = h[m]
  BY <1>0, <1>5, <1>7, <1>10
<1>12. Sound(k)
  BY <1>10, <1>11, Swapped
<1>13. h[p].val = "object"
  <2>1. q \in Kids(h, p)
    BY <1>0, KidsByParent
  <2>2. h[p].child # Null
    BY <2>1, EmptyList DEF Kids
  <2>3. QED
    BY <1>0, <2>2 DEF Sound, Joined
<1>14. Joins(h, p, n, t, k)
  BY <1>11, <1>13 DEF Joins, Freed, Blank
<1>15. QED
  BY <1>1, <1>12, <1>14

LEMMA AddIsSound ==
  ASSUME NEW h, Sound(h), NEW p \in Used(h), NEW n \in Used(h),
         h[n].parent = Null, h[n].key # NoKey, p \notin Tree(h, n),
         NEW q, q = Namesake(h, p, n), q # Null => ~Stale(h, q)
  PROVE  /\ Sound(AddChild(h, p, n)) /\ AddIsSafe(h, p, n)
         /\ Joins(h, p, n, IF q = Null THEN {} ELSE Tree(h, q), AddChild(h, p, n))
<1>1. \/ q = Null /\ \A m \in Nodes : h[m].parent = p => h[m].key # h[n].key
      \/ q # Null /\ q \in Used(h) /\ h[q].parent = p /\ h[q].key = h[n].key
  BY NamesakeIs DEF Used
<1>2. Kids(h, p) \subseteq Used(h)
  <2>1. p \in Nodes /\ p # Null /\ Kids(h, p) = {m \in Nodes : h[m].parent = p}
    BY NodeAssumption, KidsByParent DEF Used
  <2>2. QED
    BY <2>1 DEF Sound, Clean, Freed, Blank, Used
<1>3. CASE q = Null
  <2>1. AddChild(h, p, n) = Prepend(h, p, n)
    BY <1>3 DEF AddChild
  <2>2. AddIsSafe(h, p, n)
    BY <1>2, <1>3 DEF AddIsSafe
  <2>3. QED
    BY <1>1, <1>3, <2>1, <2>2, PrependIsSound
<1>4. CASE q # Null
  <2>1. AddChild(h, p, n) = Replace(h, p, n, q)
    BY <1>4 DEF AddChild
  <2>2. /\ Sound(Replace(h, p, n, q)) /\ {h[q].prev, h[q].next} \subseteq Used(h) \cup {Null}
        /\ Joins(h, p, n, Tree(h, q), Replace(h, p, n, q))
    BY <1>1, <1>4, ReplaceIsSound
  <2>3. IsTree(h, q)
    BY <1>1, <1>4, TreesAreTrees
  <2>4. AddIsSafe(h, p, n)
    BY <1>2, <2>2, <2>3 DEF AddIsSafe
  <2>5. QED
    BY <1>4, <2>1, <2>2, <2>4
<1>5. QED
  BY <1>3, <1>4

\* The nodes in F and what is between them, nothing leading out.
Part(k, F) ==
  /\ \A n \in F :
       /\ k[n].used
       /\ k[n].child \in F \cup {Null}
       /\ k[n].next \in F \cup {Null}
       /\ k[n].parent \in F \cup {Null}
       /\ k[n].child # Null => k[k[n].child].parent = n /\ k[n].val = "object"
       /\ k[n].next # Null => /\ k[n].parent # Null /\ k[k[n].next].parent = k[n].parent
                              /\ k[k[n].next].prev # Null
       /\ k[n].parent = Null => k[n].next = Null /\ k[n].prev = Null
       /\ k[n].parent # Null =>
            k[n].key # NoKey /\ (k[k[n].parent].child = n \/ \E x \in F : k[x].next = n)
  /\ \A m, n \in F :
       /\ k[m].next = k[n].next /\ k[m].next # Null => m = n
       /\ k[m].child = k[n].next => k[m].child = Null
       /\ k[m].parent = k[n].parent /\ k[m].parent # Null /\ k[m].key = k[n].key => m = n
  /\ \A S \in SUBSET F : S # {} =>
       /\ \E n \in S : k[n].parent \notin S
       /\ \E n \in S : \A m \in S : k[m].next # n

\* Trees are made of nodes that were not allocated.
LEMMA Grown ==
  ASSUME NEW h, Sound(h), NEW F \in SUBSET Unused(h), NEW k \in Heaps,
         \A m \in Nodes \ F : k[m] = h[m], Part(k, F)
  PROVE  Sound(k)
<1>0. /\ F \subseteq Nodes /\ Null \notin Nodes /\ Used(h) \subseteq Nodes
      /\ \A m \in F : m \notin Used(h)
  BY NodeAssumption DEF Unused, Used
<1>1. \A m \in Nodes \ F : /\ h[m].child \in Used(h) \cup {Null}
                           /\ h[m].next \in Used(h) \cup {Null}
                           /\ h[m].parent \in Used(h) \cup {Null}
  BY <1>0 DEF Sound, Joined
<1>2. Used(k) = Used(h) \cup F
  BY <1>0 DEF Used, Part
<1>3. Clean(k)
  BY DEF Sound, Clean, Part
<1>4. ASSUME NEW m \in Nodes \ F
      PROVE  /\ k[m].child # Null => /\ k[m].child \in Used(k)
                                     /\ k[k[m].child].parent = m
                                     /\ k[m].val = "object"
             /\ k[m].next # Null => /\ k[m].next \in Used(k) /\ k[m].parent # Null
                                    /\ k[k[m].next].parent = k[m].parent
                                    /\ k[k[m].next].prev # Null
             /\ k[m].parent = Null => k[m].next = Null /\ k[m].prev = Null
             /\ k[m].parent # Null =>
                  /\ k[m].parent \in Used(k) /\ k[m].key # NoKey
                  /\ k[k[m].parent].child = m \/ \E x \in Nodes : k[x].next = m
  <2>0. k[m] = h[m] /\ m \in Nodes
    OBVIOUS
  <2>1. \A x \in Used(h) : k[x] = h[x]
    BY <1>0
  <2>2. k[m].child # Null => /\ k[m].child \in Used(k) /\ k[k[m].child].parent = m
                             /\ k[m].val = "object"
    BY <1>1, <1>2, <2>0, <2>1 DEF Sound, Joined
  <2>3. k[m].next # Null => /\ k[m].next \in Used(k) /\ k[m].parent # Null
                            /\ k[k[m].next].parent = k[m].parent
                            /\ k[k[m].next].prev # Null
    BY <1>1, <1>2, <2>0, <2>1 DEF Sound, Joined
  <2>4. k[m].parent = Null => k[m].next = Null /\ k[m].prev = Null
    BY <2>0 DEF Sound, Joined
  <2>5. ASSUME k[m].parent # Null
        PROVE  /\ k[m].parent \in Used(k) /\ k[m].key # NoKey
               /\ k[k[m].parent].child = m \/ \E x \in Nodes : k[x].next = m
    <3>1. /\ h[m].parent \in Used(h) /\ h[m].key # NoKey
          /\ h[h[m].parent].child = m \/ \E x \in Nodes : h[x].next = m
      BY <2>0, <2>5 DEF Sound, Joined
    <3>2. ASSUME NEW x \in Nodes, h[x].next = m
          PROVE  k[x].next = m
      <4>1. x \in Used(h)
        BY <1>0, <3>2 DEF Sound, Clean, Freed, Blank, Used
      <4>2. QED
        BY <2>1, <3>2, <4>1
    <3>3. QED
      BY <1>2, <2>0, <2>1, <3>1, <3>2
  <2>6. QED
    BY <2>2, <2>3, <2>4, <2>5
<1>5. ASSUME NEW m \in F
      PROVE  /\ k[m].child # Null => /\ k[m].child \in Used(k)
                                     /\ k[k[m].child].parent = m
                                     /\ k[m].val = "object"
             /\ k[m].next # Null => /\ k[m].next \in Used(k) /\ k[m].parent # Null
                                    /\ k[k[m].next].parent = k[m].parent
                                    /\ k[k[m].next].prev # Null
             /\ k[m].parent = Null => k[m].next = Null /\ k[m].prev = Null
             /\ k[m].parent # Null =>
                  /\ k[m].parent \in Used(k) /\ k[m].key # NoKey
                  /\ k[k[m].parent].child = m \/ \E x \in Nodes : k[x].next = m
  BY <1>0, <1>2 DEF Part
<1>6. Joined(k)
  <2>1. ASSUME NEW m \in Nodes
        PROVE  m \in F \/ m \in Nodes \ F
    OBVIOUS
  <2>2. QED
    BY <1>4, <1>5, <2>1 DEF Joined
<1>7. \A m \in F : /\ k[m].child \in F \cup {Null} /\ k[m].next \in F \cup {Null}
                   /\ k[m].parent \in F \cup {Null}
  BY DEF Part
<1>8. Apart(k)
  <2>1. ASSUME NEW m \in Nodes, NEW n \in Nodes
        PROVE  /\ k[m].next = k[n].next /\ k[m].next # Null => m = n
               /\ k[m].child = k[n].next => k[m].child = Null
               /\ k[m].parent = k[n].parent /\ k[m].parent # Null /\ k[m].key = k[n].key
                    => m = n
    <3>1. CASE m \in F /\ n \in F
      BY <3>1 DEF Part
    <3>2. CASE m \in F /\ n \notin F
      BY <1>0, <1>1, <1>7, <3>2
    <3>3. CASE m \notin F /\ n \in F
      BY <1>0, <1>1, <1>7, <3>3
    <3>4. CASE m \notin F /\ n \notin F
      BY <3>4 DEF Sound, Apart
    <3>5. QED
      BY <3>1, <3>2, <3>3, <3>4
  <2>2. QED
    BY <2>1 DEF Apart
<1>9. Grounded(k)
  <2> SUFFICES ASSUME NEW S \in SUBSET Nodes, S # {}
               PROVE  /\ \E x \in S : k[x].parent \notin S
                      /\ \E x \in S : \A y \in S : k[y].next # x
    BY DEF Grounded
  <2>1. CASE S \cap F = {}
    <3>1. /\ \E x \in S : h[x].parent \notin S
          /\ \E x \in S : \A y \in S : h[y].next # x
      BY DEF Sound, Grounded
    <3>2. \A x \in S : k[x] = h[x]
      BY <2>1
    <3>3. QED
      BY <3>1, <3>2
  <2>2. CASE S \cap F # {}
    <3> DEFINE T == S \cap F
    <3>1. T \in SUBSET F /\ T # {}
      BY <2>2
    <3>2. PICK x \in T : k[x].parent \notin T
      BY <3>1 DEF Part
    <3>3. PICK z \in T : \A y \in T : k[y].next # z
      BY <3>1 DEF Part
    <3>4. x \in S /\ k[x].parent \notin S
      BY <1>0, <1>7, <3>2
    <3>5. z \in S /\ \A y \in S : k[y].next # z
      BY <1>0, <1>1, <3>3
    <3>6. QED
      BY <3>4, <3>5
  <2>3. QED
    BY <2>1, <2>2
<1>10. QED
  BY <1>3, <1>6, <1>8, <1>9 DEF Sound

\* k is h with a node or a chain of nodes more.
Single(h, k, n, c) ==
  /\ n \in Unused(h) /\ \A m \in Nodes \ {n} : k[m] = h[m]
  /\ k[n].used /\ k[n].parent = Null /\ k[n].key = NoKey /\ k[n].val = c

Chained(h, k, s, f, c) ==
  /\ f \in [1 .. Len(s) -> Unused(h)]
  /\ \A i, j \in 1 .. Len(s) : f[i] = f[j] => i = j
  /\ \A m \in Nodes \ {f[i] : i \in 1 .. Len(s)} : k[m] = h[m]
  /\ \A i \in 1 .. Len(s) :
       /\ k[f[i]].used /\ k[f[i]].key = s[i]
       /\ k[f[i]].val = IF i = Len(s) THEN c ELSE "object"
       /\ k[f[i]].parent = IF i = 1 THEN Null ELSE f[i - 1]

LEMMA CreateIsSound ==
  ASSUME Sound(heap), NEW c \in Contents, Create(c)
  PROVE  /\ Sound(heap')
         /\ \/ \E n \in Nodes : Single(heap, heap', n, c)
            \/ \E s \in Chains : \E f : Chained(heap, heap', s, f, c)
<1>0. Null \notin Nodes /\ heap \in Heaps
  BY NodeAssumption DEF Sound
<1>1. ASSUME NEW n \in Unused(heap), heap' = [heap EXCEPT ![n] = Blank(TRUE, NoKey, c)]
      PROVE  Sound(heap') /\ n \in Nodes /\ Single(heap, heap', n, c)
  <2>0. n \in Nodes
    BY DEF Unused
  <2>1. Blank(TRUE, NoKey, c) \in NodeType
    BY DEF Blank, NodeType
  <2>2. heap' \in Heaps /\ \A m \in Nodes \ {n} : heap'[m] = heap[m]
    BY <1>0, <1>1, <2>0, <2>1 DEF Heaps
  <2>3. /\ heap'[n].used = TRUE /\ heap'[n].next = Null /\ heap'[n].prev = Null
        /\ heap'[n].child = Null /\ heap'[n].parent = Null
        /\ heap'[n].key = NoKey /\ heap'[n].val = c
    BY <1>0, <1>1, <2>0 DEF Blank, Heaps
  <2>4. Part(heap', {n})
    <3>1. \A S \in SUBSET {n} : S # {} => S = {n}
      OBVIOUS
    <3>2. n # Null
      BY <1>0, <2>0
    <3>3. QED
      BY <2>3, <3>1, <3>2 DEF Part
  <2>5. Single(heap, heap', n, c)
    BY <2>0, <2>2, <2>3 DEF Single
  <2>6. QED
    BY <2>0, <2>2, <2>4, <2>5, Grown
<1>2. ASSUME NEW s \in Chains, NEW f \in Injection(DOMAIN s, Unused(heap)),
             heap' = [n \in Nodes |->
                    IF \E i \in DOMAIN s : f[i] = n
                    THEN LET i == CHOOSE j \in DOMAIN s : f[j] = n
                         IN  [Blank(TRUE, s[i], IF i = Len(s) THEN c ELSE "object") EXCEPT
                                !.child = IF i = Len(s) THEN Null ELSE f[i + 1],
                                !.parent = IF i = 1 THEN Null ELSE f[i - 1]]
                    ELSE heap[n]]
      PROVE  Sound(heap') /\ Chained(heap, heap', s, f, c)
  <2> DEFINE k == heap'
             D == 1 .. Len(s)
             F == {f[i] : i \in D}
  <2>0. /\ s \in Seq(Keys) /\ s # <<>> /\ Len(s) \in Nat /\ DOMAIN s = D
        /\ \A i \in D : s[i] \in Keys /\ s[i] # NoKey
    BY NodeAssumption
  <2>1. /\ f \in [D -> Unused(heap)] /\ \A i, j \in D : f[i] = f[j] => i = j
        /\ \A i \in D : f[i] \in Nodes /\ f[i] \notin Used(heap) /\ f[i] # Null
    <3>1. f \in [D -> Unused(heap)] /\ \A i, j \in D : f[i] = f[j] => i = j
      BY <2>0 DEF Injection, IsInjective
    <3>2. \A i \in D : f[i] \in Unused(heap)
      BY <3>1
    <3>3. QED
      BY <1>0, <3>1, <3>2 DEF Unused
  <2>2. ASSUME NEW n \in Nodes
        PROVE  /\ k[n] \in NodeType
               /\ IF \E i \in DOMAIN s : f[i] = n
                  THEN \E i \in DOMAIN s :
                         /\ f[i] = n /\ k[n].used /\ k[n].next = Null /\ k[n].prev = Null
                         /\ k[n].key = s[i] /\ k[n].val = IF i = Len(s) THEN c ELSE "object"
                         /\ k[n].child = IF i = Len(s) THEN Null ELSE f[i + 1]
                         /\ k[n].parent = IF i = 1 THEN Null ELSE f[i - 1]
                  ELSE k[n] = heap[n]
    <3>1. CASE \E i \in DOMAIN s : f[i] = n
      <4> DEFINE i == CHOOSE j \in DOMAIN s : f[j] = n
                 v == IF i = Len(s) THEN c ELSE "object"
                 ch == IF i = Len(s) THEN Null ELSE f[i + 1]
                 pa == IF i = 1 THEN Null ELSE f[i - 1]
      <4>1. i \in DOMAIN s /\ f[i] = n
        BY <3>1
      <4>2. k[n] = [Blank(TRUE, s[i], v) EXCEPT !.child = ch, !.parent = pa]
        BY <1>2, <3>1
      <4> HIDE DEF i
      <4>3. v \in Contents /\ ch \in Nodes \cup {Null} /\ pa \in Nodes \cup {Null}
            /\ s[i] \in Keys \cup {NoKey}
        BY <2>0, <2>1, <4>1 DEF Contents
      <4> HIDE DEF v, ch, pa, k
      <4>4. k[n] = [used |-> TRUE, next |-> Null, prev |-> Null, child |-> ch, parent |-> pa,
                    key |-> s[i], val |-> v]
        BY <4>2 DEF Blank
      <4>5. k[n] \in NodeType
        BY <4>3, <4>4 DEF NodeType
      <4>6. /\ k[n].used = TRUE /\ k[n].next = Null /\ k[n].prev = Null
            /\ k[n].key = s[i] /\ k[n].val = v /\ k[n].child = ch /\ k[n].parent = pa
        BY <4>4
      <4>7. QED
        BY <3>1, <4>1, <4>5, <4>6 DEF v, ch, pa
    <3>2. CASE ~\E i \in DOMAIN s : f[i] = n
      <4>1. k[n] = heap[n]
        BY <1>2, <3>2
      <4>2. QED
        BY <1>0, <3>2, <4>1 DEF Heaps
    <3>3. QED
      BY <3>1, <3>2
  <2>3. k \in Heaps
    <3>1. k = [n \in Nodes |-> k[n]]
      BY <1>2
    <3> HIDE DEF k
    <3>2. QED
      BY <2>2, <3>1 DEF Heaps
  <2>4. ASSUME NEW i \in D
        PROVE  /\ k[f[i]].used /\ k[f[i]].next = Null /\ k[f[i]].prev = Null
               /\ k[f[i]].key = s[i] /\ k[f[i]].val = IF i = Len(s) THEN c ELSE "object"
               /\ k[f[i]].child = IF i = Len(s) THEN Null ELSE f[i + 1]
               /\ k[f[i]].parent = IF i = 1 THEN Null ELSE f[i - 1]
    <3> HIDE DEF k
    <3>1. \E j \in DOMAIN s :
             /\ f[j] = f[i] /\ k[f[i]].used /\ k[f[i]].next = Null /\ k[f[i]].prev = Null
             /\ k[f[i]].key = s[j] /\ k[f[i]].val = IF j = Len(s) THEN c ELSE "object"
             /\ k[f[i]].child = IF j = Len(s) THEN Null ELSE f[j + 1]
             /\ k[f[i]].parent = IF j = 1 THEN Null ELSE f[j - 1]
      BY <2>0, <2>1, <2>2
    <3>2. \A j \in D : f[j] = f[i] => j = i
      BY <2>1
    <3>3. QED
      BY <2>0, <3>1, <3>2
  <2>5. \A m \in Nodes \ F : k[m] = heap[m]
    BY <2>0, <2>2
  <2> HIDE DEF k
  <2>6. Part(k, F)
    <3>1. ASSUME NEW n \in F
          PROVE  /\ k[n].used
                 /\ k[n].child \in F \cup {Null}
                 /\ k[n].next \in F \cup {Null}
                 /\ k[n].parent \in F \cup {Null}
                 /\ k[n].child # Null => k[k[n].child].parent = n /\ k[n].val = "object"
                 /\ k[n].next = Null /\ k[n].prev = Null
                 /\ k[n].parent # Null =>
                      k[n].key # NoKey /\ k[k[n].parent].child = n
      <4>1. PICK i \in D : n = f[i]
        OBVIOUS
      <4>2. /\ k[n].used /\ k[n].next = Null /\ k[n].prev = Null
            /\ k[n].key = s[i] /\ k[n].val = IF i = Len(s) THEN c ELSE "object"
            /\ k[n].child = IF i = Len(s) THEN Null ELSE f[i + 1]
            /\ k[n].parent = IF i = 1 THEN Null ELSE f[i - 1]
        BY <2>4, <4>1
      <4> DEFINE l == Len(s)
      <4>0. i \in Nat /\ l \in Nat /\ 1 <= i /\ i <= l /\ \A j \in Nat : j \in D <=> 1 <= j /\ j <= l
        BY <2>0
      <4> HIDE DEF l, D
      <4>7. i # 1 => i - 1 \in D /\ i - 1 # l /\ (i - 1) + 1 = i
        BY <4>0
      <4>8. i # l => i + 1 \in D /\ i + 1 # 1 /\ (i + 1) - 1 = i
        BY <4>0
      <4> USE DEF l
      <4>3. CASE i # Len(s)
        <5>1. i + 1 \in D /\ i + 1 # 1 /\ (i + 1) - 1 = i
          BY <4>3, <4>8
        <5>2. k[f[i + 1]].parent = f[i] /\ f[i + 1] \in F
          BY <2>4, <5>1
        <5>3. k[n].child = f[i + 1] /\ k[n].val = "object"
          BY <4>2, <4>3
        <5>4. i # 1 => i - 1 \in D /\ i - 1 # Len(s) /\ (i - 1) + 1 = i
          BY <4>7
        <5>5. i # 1 => k[f[i - 1]].child = f[i] /\ f[i - 1] \in F
          BY <2>4, <5>4
        <5>6. QED
          BY <2>0, <4>1, <4>2, <5>2, <5>3, <5>5
      <4>4. CASE i = Len(s)
        <5>1. k[n].child = Null
          BY <4>2, <4>4
        <5>2. i # 1 => i - 1 \in D /\ i - 1 # Len(s) /\ (i - 1) + 1 = i
          BY <4>7
        <5>3. i # 1 => k[f[i - 1]].child = f[i] /\ f[i - 1] \in F
          BY <2>4, <5>2
        <5>4. QED
          BY <2>0, <4>1, <4>2, <5>1, <5>3
      <4>5. QED
        BY <4>3, <4>4
    <3>2. ASSUME NEW m \in F, NEW n \in F,
                 k[m].parent = k[n].parent, k[m].parent # Null
          PROVE  m = n
      BY <3>1, <3>2
    <3>3. ASSUME NEW S \in SUBSET F, S # {}
          PROVE  \E n \in S : k[n].parent \notin S
      <4> DEFINE I == {i \in D : f[i] \in S}
      <4>1. I \in SUBSET Nat /\ I # {}
        BY <2>0, <3>3
      <4>2. PICK i \in I : \A j \in I : i <= j
        BY <4>1, Least
      <4>3. k[f[i]].parent = IF i = 1 THEN Null ELSE f[i - 1]
        BY <2>4
      <4>4. CASE i = 1
        <5>1. \A n \in S : n # Null
          BY <2>1
        <5>2. QED
          BY <4>2, <4>3, <4>4, <5>1
      <4>5. CASE i # 1
        <5>1. i - 1 \in D /\ ~(i <= i - 1)
          BY <2>0, <4>5
        <5>2. f[i - 1] \notin S
          BY <4>2, <5>1
        <5>3. QED
          BY <4>2, <4>3, <4>5, <5>2
      <4>6. QED
        BY <4>4, <4>5
    <3>4. \A n \in F : n # Null
      BY <2>1
    <3> HIDE DEF F, D
    <3>5. /\ \A n \in F :
               /\ k[n].used
               /\ k[n].child \in F \cup {Null}
               /\ k[n].next \in F \cup {Null}
               /\ k[n].parent \in F \cup {Null}
               /\ k[n].child # Null => k[k[n].child].parent = n /\ k[n].val = "object"
               /\ k[n].next = Null /\ k[n].prev = Null
               /\ k[n].parent # Null => k[n].key # NoKey /\ k[k[n].parent].child = n
      BY <3>1
    <3>6. ASSUME NEW S \in SUBSET F, S # {}
          PROVE  \E n \in S : \A m \in S : k[m].next # n
      BY <3>4, <3>5, <3>6
    <3>7. QED
      BY <3>2, <3>3, <3>4, <3>5, <3>6 DEF Part
  <2>7. F \in SUBSET Unused(heap)
    BY <2>1
  <2>8. Sound(k)
    <3> HIDE DEF F
    <3>1. QED
      BY <2>3, <2>5, <2>6, <2>7, Grown
  <2>9. Chained(heap, k, s, f, c)
    BY <2>1, <2>4, <2>5 DEF Chained
  <2>10. QED
    BY <2>8, <2>9 DEF k
<1>3. QED
  BY <1>1, <1>2 DEF Create

\* What wilddog_node_clone makes of m.
Copied(h, n, f, m, r) ==
  LET image(x) == IF x = Null THEN Null ELSE f[x]
  IN  /\ r.used = TRUE /\ r.key = h[m].key /\ r.val = h[m].val
      /\ r.child = image(h[m].child)
      /\ r.next = IF m = n THEN Null ELSE image(h[m].next)
      /\ r.parent = IF m = n THEN Null ELSE f[h[m].parent]
      /\ m = n => r.prev = Null
      /\ r.prev \in {f[x] : x \in DOMAIN f} \cup {Null}
      /\ m # n /\ (\E x \in DOMAIN f \ {n} : h[x].next = m) => r.prev # Null

LEMMA CopyFields ==
  ASSUME NEW h, Sound(h), NEW n \in Used(h),
         NEW f \in Injection(Tree(h, n), Unused(h))
  PROVE  /\ \A m \in Tree(h, n) : Copied(h, n, f, m, Copy(h, n, f)[f[m]])
         /\ Copy(h, n, f) \in Heaps
         /\ \A x \in Nodes \ {f[m] : m \in Tree(h, n)} : Copy(h, n, f)[x] = h[x]
<1> DEFINE t == Tree(h, n)
           image(x) == IF x = Null THEN Null ELSE f[x]
           parent(m) == CHOOSE x \in DOMAIN f : m \in Kids(h, x)
           left(m) == {x \in DOMAIN f \ {n} : h[x].next = m}
           prev(m) == IF m = n \/ left(m) = {} THEN Null ELSE f[CHOOSE x \in left(m) : TRUE]
           copy(m) ==
             [used |-> TRUE, key |-> h[m].key, val |-> h[m].val, child |-> image(h[m].child),
              next |-> IF m = n THEN Null ELSE image(h[m].next),
              prev |-> prev(m),
              parent |-> IF m = n THEN Null ELSE f[parent(m)]]
           k == Copy(h, n, f)
<1>1. /\ f \in [t -> Unused(h)] /\ DOMAIN f = t
      /\ \A x, y \in t : f[x] = f[y] => x = y
      /\ \A x \in t : f[x] \in Nodes /\ f[x] # Null
  <2>1. f \in [t -> Unused(h)] /\ DOMAIN f = t /\ \A x, y \in t : f[x] = f[y] => x = y
    BY DEF Injection, IsInjective
  <2>2. \A x \in t : f[x] \in Unused(h)
    BY <2>1
  <2>3. QED
    BY <2>1, <2>2, NodeAssumption DEF Unused
<1>2. /\ n \in t /\ t \subseteq Nodes /\ Null \notin Nodes /\ h \in Heaps
      /\ \A m \in t : m # n => h[m].parent \in t
      /\ \A m \in Nodes : h[m].parent \in t => m \in t /\ m # n
  BY NodeAssumption, TreeByParent DEF Used, Sound
<1>3. ASSUME NEW m \in t
      PROVE  /\ h[m].child \in t \cup {Null}
             /\ m # n => h[m].next \in t \cup {Null}
             /\ m # n => parent(m) = h[m].parent
             /\ prev(m) \in {f[x] : x \in DOMAIN f} \cup {Null}
             /\ m # n /\ left(m) # {} => prev(m) # Null
  <2>1. h[m].child \in t \cup {Null}
    BY <1>2 DEF Sound, Joined, Used
  <2>2. m # n => h[m].next \in t \cup {Null}
    BY <1>2 DEF Sound, Joined, Used
  <2>3. ASSUME m # n
        PROVE  parent(m) = h[m].parent
    <3>1. \A x \in t : m \in Kids(h, x) <=> x = h[m].parent
      BY <1>2, KidsByParent
    <3>2. h[m].parent \in t
      BY <1>2, <2>3
    <3>3. QED
      BY <1>1, <3>1, <3>2
  <2>4. left(m) # {} => (CHOOSE x \in left(m) : TRUE) \in left(m)
    OBVIOUS
  <2>5. prev(m) \in {f[x] : x \in DOMAIN f} \cup {Null}
    BY <2>4
  <2>6. m # n /\ left(m) # {} => prev(m) # Null
    BY <1>1, <2>4
  <2>7. QED
    BY <2>1, <2>2, <2>3, <2>5, <2>6
<1>4. k = [x \in Nodes |-> IF \E m \in DOMAIN f : f[m] = x
                           THEN copy(CHOOSE m \in DOMAIN f : f[m] = x) ELSE h[x]]
  BY DEF Copy
<1> HIDE DEF k, t
<1>5. ASSUME NEW m \in t
      PROVE  k[f[m]] = copy(m)
  <2>1. (CHOOSE x \in DOMAIN f : f[x] = f[m]) = m
    BY <1>1
  <2>2. f[m] \in Nodes /\ \E x \in DOMAIN f : f[x] = f[m]
    BY <1>1
  <2>3. k[f[m]] = copy(CHOOSE x \in DOMAIN f : f[x] = f[m])
    <3> HIDE DEF copy
    <3>1. QED
      BY <1>4, <2>2
  <2> HIDE DEF copy
  <2>4. QED
    BY <2>1, <2>3
<1>6. ASSUME NEW m \in t
      PROVE  Copied(h, n, f, m, k[f[m]]) /\ k[f[m]] \in NodeType
  <2> DEFINE ne == IF m = n THEN Null ELSE image(h[m].next)
             pa == IF m = n THEN Null ELSE f[parent(m)]
             ch == image(h[m].child)
             pr == prev(m)
  <2>1. k[f[m]] = [used |-> TRUE, key |-> h[m].key, val |-> h[m].val, child |-> ch,
                   next |-> ne, prev |-> pr, parent |-> pa]
    BY <1>5
  <2>2. pa = IF m = n THEN Null ELSE f[h[m].parent]
    <3>1. m # n => parent(m) = h[m].parent
      BY <1>3
    <3> HIDE DEF parent
    <3>2. QED
      BY <3>1
  <2>3. /\ ch \in Nodes \cup {Null} /\ ne \in Nodes \cup {Null}
        /\ pr \in Nodes \cup {Null} /\ pa \in Nodes \cup {Null}
    <3>1. h[m].child \in t \cup {Null} /\ (m # n => h[m].next \in t \cup {Null})
      BY <1>3
    <3>2. pr \in {f[x] : x \in DOMAIN f} \cup {Null}
      BY <1>3
    <3> HIDE DEF pr, pa
    <3>3. pa \in Nodes \cup {Null}
      BY <1>1, <1>2, <2>2
    <3>4. pr \in Nodes \cup {Null}
      BY <1>1, <3>2
    <3>5. QED
      BY <1>1, <3>1, <3>3, <3>4
  <2>4. h[m].key \in Keys \cup {NoKey} /\ h[m].val \in Contents
    BY <1>2 DEF Heaps, NodeType
  <2>5. m = n => pr = Null
    OBVIOUS
  <2>6. pr \in {f[x] : x \in DOMAIN f} \cup {Null}
    BY <1>3
  <2>7. m # n /\ (\E x \in DOMAIN f \ {n} : h[x].next = m) => pr # Null
    BY <1>3
  <2>8. ne = IF m = n THEN Null ELSE image(h[m].next)
    OBVIOUS
  <2> HIDE DEF ne, pa, pr
  <2>9. k[f[m]] \in NodeType
    BY <2>1, <2>3, <2>4 DEF NodeType
  <2>10. Copied(h, n, f, m, k[f[m]])
    BY <2>1, <2>2, <2>5, <2>6, <2>7, <2>8 DEF Copied
  <2>11. QED
    BY <2>9, <2>10
<1>7. ASSUME NEW x \in Nodes, x \notin {f[m] : m \in t}
      PROVE  k[x] = h[x]
  <2>1. ~\E m \in DOMAIN f : f[m] = x
    BY <1>1, <1>7
  <2> HIDE DEF copy
  <2>2. QED
    BY <1>4, <2>1
<1>8. k \in Heaps
  <2>1. \A x \in Nodes : k[x] \in NodeType
    BY <1>2, <1>6, <1>7 DEF Heaps
  <2>2. k = [x \in Nodes |-> k[x]]
    <3> HIDE DEF copy
    <3>1. QED
      BY <1>4
  <2>3. QED
    BY <2>1, <2>2 DEF Heaps
<1>9. QED
  BY <1>6, <1>7, <1>8 DEF k, t

LEMMA CopyIsSound ==
  ASSUME NEW h, Sound(h), NEW n \in Used(h),
         NEW f \in Injection(Tree(h, n), Unused(h))
  PROVE  Sound(Copy(h, n, f))
<1> DEFINE t == Tree(h, n)
           k == Copy(h, n, f)
           F == {f[m] : m \in t}
<1>1. /\ f \in [t -> Unused(h)] /\ DOMAIN f = t
      /\ \A x, y \in t : f[x] = f[y] => x = y
      /\ \A x \in t : f[x] \in Nodes /\ f[x] # Null
  <2>1. f \in [t -> Unused(h)] /\ DOMAIN f = t /\ \A x, y \in t : f[x] = f[y] => x = y
    BY DEF Injection, IsInjective
  <2>2. \A x \in t : f[x] \in Unused(h)
    BY <2>1
  <2>3. QED
    BY <2>1, <2>2, NodeAssumption DEF Unused
<1>2. /\ n \in t /\ t \subseteq Nodes /\ Null \notin Nodes /\ h \in Heaps
      /\ \A m \in t : m # n => h[m].parent \in t
      /\ \A m \in Nodes : h[m].parent \in t => m \in t /\ m # n
  BY NodeAssumption, TreeByParent DEF Used, Sound
<1>3. /\ \A m \in t : Copied(h, n, f, m, k[f[m]])
      /\ k \in Heaps /\ \A x \in Nodes \ F : k[x] = h[x]
  BY CopyFields
<1>4. F \in SUBSET Unused(h)
  BY <1>1
<1>5. \A m \in t :
        /\ h[m].child # Null => /\ h[m].child \in t /\ h[m].child # n
                                /\ h[h[m].child].parent = m /\ h[m].val = "object"
        /\ m # n /\ h[m].next # Null => /\ h[m].next \in t /\ h[m].next # n
                                        /\ h[h[m].next].parent = h[m].parent
        /\ m # n => /\ h[m].parent \in t /\ h[m].key # NoKey
                    /\ h[h[m].parent].child = m \/ \E x \in t \ {n} : h[x].next = m
  <2>1. ASSUME NEW m \in t, h[m].child # Null
        PROVE  /\ h[m].child \in t /\ h[m].child # n
               /\ h[h[m].child].parent = m /\ h[m].val = "object"
    BY <1>2, <2>1 DEF Sound, Joined, Used
  <2>2. ASSUME NEW m \in t, m # n, h[m].next # Null
        PROVE  /\ h[m].next \in t /\ h[m].next # n
               /\ h[h[m].next].parent = h[m].parent
    BY <1>2, <2>2 DEF Sound, Joined, Used
  <2>3. ASSUME NEW m \in t, m # n
        PROVE  /\ h[m].parent \in t /\ h[m].key # NoKey
               /\ h[h[m].parent].child = m \/ \E x \in t \ {n} : h[x].next = m
    <3>1. /\ h[m].parent \in t /\ h[m].parent # Null /\ m \in Nodes
      BY <1>2, <2>3
    <3>2. /\ h[m].key # NoKey
          /\ h[h[m].parent].child = m \/ \E x \in Nodes : h[x].next = m
      BY <3>1 DEF Sound, Joined
    <3>3. ASSUME NEW x \in Nodes, h[x].next = m
          PROVE  x \in t /\ x # n
      <4>1. h[m].parent = h[x].parent
        BY <1>2, <3>1, <3>3 DEF Sound, Joined
      <4>2. QED
        BY <1>2, <3>1, <4>1
    <3>4. QED
      BY <3>1, <3>2, <3>3
  <2>4. QED
    BY <2>1, <2>2, <2>3
<1>6. \A m \in t :
        /\ k[f[m]].used = TRUE
        /\ k[f[m]].key = h[m].key /\ k[f[m]].val = h[m].val
        /\ h[m].child = Null => k[f[m]].child = Null
        /\ h[m].child # Null => k[f[m]].child = f[h[m].child]
        /\ m = n \/ h[m].next = Null => k[f[m]].next = Null
        /\ m # n /\ h[m].next # Null => k[f[m]].next = f[h[m].next]
        /\ m = n => k[f[m]].parent = Null /\ k[f[m]].prev = Null
        /\ m # n => k[f[m]].parent = f[h[m].parent]
        /\ m # n /\ (\E x \in t \ {n} : h[x].next = m) => k[f[m]].prev # Null
  BY <1>1, <1>3 DEF Copied
<1> HIDE DEF k, t
<1>7. ASSUME NEW m \in t
      PROVE  /\ k[f[m]].used
             /\ k[f[m]].child \in F \cup {Null}
             /\ k[f[m]].next \in F \cup {Null}
             /\ k[f[m]].parent \in F \cup {Null}
             /\ k[f[m]].child # Null =>
                  k[k[f[m]].child].parent = f[m] /\ k[f[m]].val = "object"
             /\ k[f[m]].next # Null =>
                  /\ k[f[m]].parent # Null /\ k[k[f[m]].next].parent = k[f[m]].parent
                  /\ k[k[f[m]].next].prev # Null
             /\ k[f[m]].parent = Null => k[f[m]].next = Null /\ k[f[m]].prev = Null
             /\ k[f[m]].parent # Null =>
                  /\ k[f[m]].key # NoKey
                  /\ k[k[f[m]].parent].child = f[m] \/ \E x \in F : k[x].next = f[m]
  <2>1. /\ k[f[m]].used
        /\ k[f[m]].child \in F \cup {Null}
        /\ k[f[m]].next \in F \cup {Null}
        /\ k[f[m]].parent \in F \cup {Null}
    BY <1>5, <1>6
  <2>2. ASSUME k[f[m]].child # Null
        PROVE  k[k[f[m]].child].parent = f[m] /\ k[f[m]].val = "object"
    <3>1. h[m].child # Null
      BY <1>6, <2>2
    <3>2. /\ h[m].child \in t /\ h[m].child # n
          /\ h[h[m].child].parent = m /\ h[m].val = "object"
      BY <1>5, <3>1
    <3>3. k[f[m]].child = f[h[m].child]
      BY <1>6, <3>1
    <3>4. QED
      BY <1>6, <3>2, <3>3
  <2>3. ASSUME k[f[m]].next # Null
        PROVE  /\ k[f[m]].parent # Null /\ k[k[f[m]].next].parent = k[f[m]].parent
               /\ k[k[f[m]].next].prev # Null
    <3>1. m # n /\ h[m].next # Null
      BY <1>6, <2>3
    <3>2. /\ h[m].next \in t /\ h[m].next # n
          /\ h[h[m].next].parent = h[m].parent /\ h[m].parent \in t
      BY <1>5, <3>1
    <3>3. k[f[m]].next = f[h[m].next] /\ k[f[m]].parent = f[h[m].parent]
      BY <1>6, <3>1
    <3>4. k[f[h[m].next]].parent = f[h[m].parent] /\ k[f[h[m].next]].prev # Null
      BY <1>6, <3>1, <3>2
    <3>5. QED
      BY <1>1, <3>2, <3>3, <3>4
  <2>4. k[f[m]].parent = Null => k[f[m]].next = Null /\ k[f[m]].prev = Null
    BY <1>1, <1>5, <1>6
  <2>5. ASSUME k[f[m]].parent # Null
        PROVE  /\ k[f[m]].key # NoKey
               /\ k[k[f[m]].parent].child = f[m] \/ \E x \in F : k[x].next = f[m]
    <3>1. m # n
      BY <1>6, <2>5
    <3>2. /\ h[m].parent \in t /\ h[m].key # NoKey
          /\ h[h[m].parent].child = m \/ \E x \in t \ {n} : h[x].next = m
      BY <1>5, <3>1
    <3>3. k[f[m]].key # NoKey /\ k[f[m]].parent = f[h[m].parent]
      BY <1>6, <3>1, <3>2
    <3>4. CASE h[h[m].parent].child = m
      <4>1. k[f[h[m].parent]].child = f[m]
        BY <1>2, <1>6, <3>2, <3>4
      <4>2. QED
        BY <3>3, <4>1
    <3>5. CASE \E x \in t \ {n} : h[x].next = m
      <4>1. PICK x \in t \ {n} : h[x].next = m
        BY <3>5
      <4>2. k[f[x]].next = f[m] /\ f[x] \in F
        BY <1>2, <1>6, <4>1
      <4>3. QED
        BY <3>3, <4>2
    <3>6. QED
      BY <3>2, <3>4, <3>5
  <2>6. QED
    BY <2>1, <2>2, <2>3, <2>4, <2>5
<1>8. ASSUME NEW x \in t, NEW y \in t
      PROVE  /\ k[f[x]].next = k[f[y]].next /\ k[f[x]].next # Null => f[x] = f[y]
             /\ k[f[x]].child = k[f[y]].next => k[f[x]].child = Null
             /\ k[f[x]].parent = k[f[y]].parent /\ k[f[x]].parent # Null
                  /\ k[f[x]].key = k[f[y]].key => f[x] = f[y]
  <2>0. x \in Nodes /\ y \in Nodes
    BY <1>2
  <2>1. ASSUME k[f[x]].next = k[f[y]].next, k[f[x]].next # Null
        PROVE  x = y
    <3>1. x # n /\ h[x].next # Null /\ y # n /\ h[y].next # Null
      BY <1>6, <2>1
    <3>2. f[h[x].next] = f[h[y].next] /\ h[x].next \in t /\ h[y].next \in t
      BY <1>5, <1>6, <2>1, <3>1
    <3>3. h[x].next = h[y].next
      BY <1>1, <3>2
    <3>4. QED
      BY <2>0, <3>1, <3>3 DEF Sound, Apart
  <2>2. ASSUME k[f[x]].child = k[f[y]].next, k[f[x]].child # Null
        PROVE  FALSE
    <3>1. h[x].child # Null /\ y # n /\ h[y].next # Null
      BY <1>6, <2>2
    <3>2. f[h[x].child] = f[h[y].next] /\ h[x].child \in t /\ h[y].next \in t
      BY <1>5, <1>6, <2>2, <3>1
    <3>3. h[x].child = h[y].next
      BY <1>1, <3>2
    <3>4. QED
      BY <2>0, <3>1, <3>3 DEF Sound, Apart
  <2>3. ASSUME k[f[x]].parent = k[f[y]].parent, k[f[x]].parent # Null,
               k[f[x]].key = k[f[y]].key
        PROVE  x = y
    <3>1. x # n /\ y # n
      BY <1>6, <2>3
    <3>2. f[h[x].parent] = f[h[y].parent] /\ h[x].parent \in t /\ h[y].parent \in t
          /\ h[x].key = h[y].key
      BY <1>5, <1>6, <2>3, <3>1
    <3>3. h[x].parent = h[y].parent /\ h[x].parent # Null
      BY <1>1, <1>2, <3>2
    <3>4. QED
      BY <2>0, <3>2, <3>3 DEF Sound, Apart
  <2>4. QED
    BY <2>1, <2>2, <2>3
<1>9. ASSUME NEW S \in SUBSET F, S # {}
      PROVE  /\ \E z \in S : k[z].parent \notin S
             /\ \E z \in S : \A y \in S : k[y].next # z
  <2> DEFINE T == {m \in t : f[m] \in S}
  <2>1. T \in SUBSET Nodes /\ T # {}
    BY <1>2, <1>9
  <2>2. PICK x \in T : h[x].parent \notin T
    <3> HIDE DEF T
    <3>1. QED
      BY <2>1 DEF Sound, Grounded
  <2>3. PICK z \in T : \A y \in T : h[y].next # z
    <3> HIDE DEF T
    <3>1. QED
      BY <2>1 DEF Sound, Grounded
  <2>4. k[f[x]].parent \notin S /\ f[x] \in S
    <3>1. CASE x = n
      <4>1. k[f[x]].parent = Null
        BY <1>6, <3>1
      <4>2. Null \notin S
        BY <1>1
      <4>3. QED
        BY <4>1, <4>2
    <3>2. CASE x # n
      <4>1. k[f[x]].parent = f[h[x].parent] /\ h[x].parent \in t
        BY <1>5, <1>6, <3>2
      <4>2. QED
        BY <2>2, <4>1
    <3>3. QED
      BY <3>1, <3>2
  <2>5. f[z] \in S /\ \A y \in S : k[y].next # f[z]
    <3>1. ASSUME NEW y \in t, f[y] \in S
          PROVE  k[f[y]].next # f[z]
      <4>1. CASE y = n \/ h[y].next = Null
        BY <1>1, <1>6, <4>1
      <4>2. CASE y # n /\ h[y].next # Null
        <5>1. k[f[y]].next = f[h[y].next] /\ h[y].next \in t
          BY <1>5, <1>6, <4>2
        <5>2. h[y].next # z
          BY <2>3, <3>1
        <5>3. QED
          BY <1>1, <5>1, <5>2
      <4>3. QED
        BY <4>1, <4>2
    <3>2. QED
      BY <3>1
  <2>6. QED
    BY <2>4, <2>5
<1>10. Part(k, F)
  <2>1. \A y \in F : \E m \in t : y = f[m]
    OBVIOUS
  <2> HIDE DEF F
  <2>2. ASSUME NEW y \in F
        PROVE  /\ k[y].used
               /\ k[y].child \in F \cup {Null}
               /\ k[y].next \in F \cup {Null}
               /\ k[y].parent \in F \cup {Null}
               /\ k[y].child # Null => k[k[y].child].parent = y /\ k[y].val = "object"
               /\ k[y].next # Null => /\ k[y].parent # Null
                                      /\ k[k[y].next].parent = k[y].parent
                                      /\ k[k[y].next].prev # Null
               /\ k[y].parent = Null => k[y].next = Null /\ k[y].prev = Null
               /\ k[y].parent # Null =>
                    /\ k[y].key # NoKey
                    /\ k[k[y].parent].child = y \/ \E x \in F : k[x].next = y
    <3>1. PICK m \in t : y = f[m]
      BY <2>1
    <3>2. QED
      BY <1>7, <3>1
  <2>3. ASSUME NEW x \in F, NEW y \in F
        PROVE  /\ k[x].next = k[y].next /\ k[x].next # Null => x = y
               /\ k[x].child = k[y].next => k[x].child = Null
               /\ k[x].parent = k[y].parent /\ k[x].parent # Null /\ k[x].key = k[y].key
                    => x = y
    <3>1. PICK m \in t : x = f[m]
      BY <2>1
    <3>2. PICK l \in t : y = f[l]
      BY <2>1
    <3>3. QED
      BY <1>8, <3>1, <3>2
  <2>4. QED
    BY <1>9, <2>2, <2>3 DEF Part
<1>11. Sound(k)
  <2> HIDE DEF F
  <2>1. QED
    BY <1>3, <1>4, <1>10, Grown
<1>12. QED
  BY <1>11 DEF k

-----------------------------------------------------------------------------
(* A trigger that shows a tree to one listener puts it back.                  *)

\* An answer before a listener is shown it.
Whole(h) == [h |-> h, prev |-> Null, next |-> Null]

LEMMA UnhookedIsBack ==
  ASSUME NEW h \in Heaps, NEW r, NEW p
  PROVE  Unhook(Whole(h), r, p).h = h
<1> DEFINE n == Find(h, r, p)
           v == IF h[n].prev # Null THEN h[n].prev ELSE Null
           x == IF h[n].next # Null THEN h[n].next ELSE Null
           g == [h EXCEPT ![n].prev = v, ![n].next = x]
<1>1. CASE n = Null
  <2>1. Whole(h).h = h
    BY DEF Whole
  <2>2. Unhook(Whole(h), r, p) = Whole(h)
    BY <1>1, <2>1 DEF Unhook
  <2>3. QED
    BY <2>1, <2>2
<1>2. CASE n # Null
  <2>1. Unhook(Whole(h), r, p).h = g
    BY <1>2 DEF Unhook, Whole
  <2>2. v = h[n].prev /\ x = h[n].next
    OBVIOUS
  <2> HIDE DEF n, v, x
  <2>3. h = [m \in Nodes |-> h[m]] /\ \A m \in Nodes : h[m] \in NodeType
    BY DEF Heaps
  <2>4. g = h
    <3>1. CASE n \notin Nodes
      BY <2>3, <3>1
    <3>2. CASE n \in Nodes
      <4>1. [h[n] EXCEPT !.prev = h[n].prev, !.next = h[n].next] = h[n]
        BY <2>3, <3>2 DEF NodeType
      <4>2. g = [h EXCEPT ![n] = [h[n] EXCEPT !.prev = h[n].prev, !.next = h[n].next]]
        BY <2>2, <2>3, <3>2
      <4>3. QED
        BY <2>3, <4>1, <4>2
    <3>3. QED
      BY <3>1, <3>2
  <2>5. QED
    BY <2>1, <2>4
<1>3. QED
  BY <1>1, <1>2

\* The function of the listeners that have been shown their part.
IsShown(s, h, r, L) ==
  s = [i \in 0 .. Len(L) |-> IF i = 0 THEN Whole(h) ELSE Unhook(s[i - 1], r, L[i])]

LEMMA OneListener ==
  ASSUME NEW h \in Heaps, NEW r, NEW L \in Seq(Seq(Keys)), Len(L) <= 1
  PROVE  Shown(h, r, L) = h
<1> DEFINE w == [i \in 0 .. Len(L) |-> IF i = 0 THEN Whole(h) ELSE Unhook(Whole(h), r, L[1])]
<1>1. Len(L) = 0 \/ Len(L) = 1
  <2>1. Len(L) \in Nat
    OBVIOUS
  <2>2. \A l \in Nat : l <= 1 => l = 0 \/ l = 1
    OBVIOUS
  <2>3. QED
    BY <2>1, <2>2
<1>2. IsShown(w, h, r, L)
  <2>1. ASSUME NEW i \in 0 .. Len(L)
        PROVE  w[i] = IF i = 0 THEN Whole(h) ELSE Unhook(w[i - 1], r, L[i])
    <3>1. CASE i = 0
      BY <3>1
    <3>2. CASE i # 0
      <4>1. i = 1 /\ i - 1 = 0 /\ 0 \in 0 .. Len(L)
        BY <1>1, <3>2
      <4>2. w[i] = Unhook(Whole(h), r, L[1]) /\ w[0] = Whole(h)
        BY <3>2, <4>1
      <4> HIDE DEF w
      <4>3. QED
        BY <3>2, <4>1, <4>2
    <3>3. QED
      BY <3>1, <3>2
  <2>2. w = [i \in 0 .. Len(L) |-> w[i]]
    OBVIOUS
  <2> HIDE DEF w
  <2>3. QED
    BY <2>1, <2>2 DEF IsShown
<1>3. ASSUME NEW s, IsShown(s, h, r, L)
      PROVE  s[Len(L)].h = h
  <2>1. \A i \in 0 .. Len(L) :
          s[i] = IF i = 0 THEN Whole(h) ELSE Unhook(s[i - 1], r, L[i])
    BY <1>3 DEF IsShown
  <2>2. 0 \in 0 .. Len(L) /\ s[0] = Whole(h)
    BY <2>1
  <2>3. CASE Len(L) = 0
    BY <2>2, <2>3 DEF Whole
  <2>4. CASE Len(L) = 1
    <3>1. s[1] = Unhook(s[0], r, L[1])
      BY <2>1, <2>4
    <3>2. QED
      BY <2>2, <2>4, <3>1, UnhookedIsBack
  <2>5. QED
    BY <1>1, <2>3, <2>4
<1> HIDE DEF w
<1>4. \E s : IsShown(s, h, r, L)
  BY <1>2
<1> DEFINE c == CHOOSE s : IsShown(s, h, r, L)
<1>5. c[Len(L)].h = h
  BY <1>3, <1>4
<1>6. Shown(h, r, L) = c[Len(L)].h
  BY DEF Shown, IsShown, Whole
<1>7. QED
  BY <1>5, <1>6

LEMMA ShowIsSound ==
  ASSUME NEW h, Sound(h), NEW r \in Used(h), h[r].parent = Null
  PROVE  Sound(Free(h, r)) /\ IsTree(h, r)
<1>1. ~OnlyChild(h, r) /\ ~Stale(h, r)
  BY DEF OnlyChild, Stale, Sound, Joined, Used
<1>2. DeleteNode(h, r) = Free(h, r)
  BY <1>1 DEF DeleteNode, Unlinked
<1>3. QED
  BY <1>1, <1>2, DeleteIsSound, TreesAreTrees

-----------------------------------------------------------------------------
(* The invariant.                                                             *)

IInv == Sound(heap) /\ broken = FALSE

\* What a behaviour of this module leaves out: the calls that the code gets wrong,
\* and triggers with several listeners.
Proper == CAREFUL /\ \A L \in Listeners : Len(L) <= 1

LEMMA InitIsSound == Init => IInv
<1> SUFFICES ASSUME Init
             PROVE  IInv
  OBVIOUS
<1>1. heap = [n \in Nodes |-> Freed] /\ broken = FALSE
  BY DEF Init
<1>2. Freed \in NodeType /\ Null \notin Nodes
  BY NodeAssumption DEF Freed, Blank, NodeType, Contents
<1>3. /\ Freed.used = FALSE /\ Freed.next = Null /\ Freed.prev = Null
      /\ Freed.child = Null /\ Freed.parent = Null
  BY DEF Freed, Blank
<1>4. heap \in Heaps /\ \A n \in Nodes : heap[n] = Freed
  BY <1>1, <1>2 DEF Heaps
<1>5. Clean(heap)
  BY <1>4 DEF Clean
<1>6. Joined(heap)
  BY <1>3, <1>4 DEF Joined
<1>7. Apart(heap)
  BY <1>3, <1>4 DEF Apart
<1>8. Grounded(heap)
  BY <1>2, <1>3, <1>4 DEF Grounded
<1>9. QED
  BY <1>1, <1>4, <1>5, <1>6, <1>7, <1>8 DEF IInv, Sound

LEMMA KeyIsSound ==
  ASSUME Sound(heap), NEW n \in Used(heap), NEW k \in Keys, SetKey(n, k)
  PROVE  Sound(heap')
<1>1. n \in Nodes /\ heap \in Heaps /\ heap[n].used /\ heap[n].parent = Null
  BY DEF Used, Sound, SetKey, Roots
<1>2. heap' = [heap EXCEPT ![n].key = k]
  BY DEF SetKey
<1>3. heap' \in Heaps
  BY <1>1, <1>2 DEF Heaps, NodeType
<1>4. \A m \in Nodes :
           /\ heap'[m].used = heap[m].used /\ heap'[m].next = heap[m].next
           /\ heap'[m].prev = heap[m].prev
           /\ heap'[m].child = heap[m].child /\ heap'[m].parent = heap[m].parent
           /\ ~heap[m].used => heap'[m] = heap[m]
           /\ heap[m].parent # Null => heap'[m].key = heap[m].key
           /\ heap[m].child # Null => heap'[m].val = heap[m].val
  BY <1>1, <1>2 DEF Heaps, NodeType
<1>5. QED
  BY <1>3, <1>4, SameLinks

LEMMA ValueIsSound ==
  ASSUME Sound(heap), NEW n \in Used(heap), NEW v \in Values, SetValue(n, v)
  PROVE  Sound(heap')
<1>1. n \in Nodes /\ heap \in Heaps /\ heap[n].used /\ heap[n].val # "object"
  BY NodeAssumption DEF Used, Sound, SetValue
<1>2. heap' = [heap EXCEPT ![n].val = v]
  BY DEF SetValue
<1>3. heap[n].child = Null
  BY <1>1 DEF Sound, Joined
<1>4. heap' \in Heaps
  BY <1>1, <1>2 DEF Heaps, NodeType, Contents
<1>5. \A m \in Nodes :
           /\ heap'[m].used = heap[m].used /\ heap'[m].next = heap[m].next
           /\ heap'[m].prev = heap[m].prev
           /\ heap'[m].child = heap[m].child /\ heap'[m].parent = heap[m].parent
           /\ ~heap[m].used => heap'[m] = heap[m]
           /\ heap[m].parent # Null => heap'[m].key = heap[m].key
           /\ heap[m].child # Null => heap'[m].val = heap[m].val
  BY <1>1, <1>2, <1>3 DEF Heaps, NodeType
<1>6. QED
  BY <1>4, <1>5, SameLinks

LEMMA StepIsSound ==
  ASSUME Proper, IInv, [Next]_vars
  PROVE  IInv'
<1>0. Sound(heap) /\ broken = FALSE /\ CAREFUL /\ Used(heap) \subseteq Nodes
  BY DEF IInv, Proper, Used
<1>1. ASSUME NEW c \in Contents, Create(c), UNCHANGED broken
      PROVE  IInv'
  BY <1>0, <1>1, CreateIsSound DEF IInv
<1>2. ASSUME NEW n \in Used(heap), NEW p \in Used(heap), Add(p, n)
      PROVE  IInv'
  <2> DEFINE q == Namesake(heap, p, n)
  <2>1. heap[n].parent = Null /\ heap[n].key # NoKey /\ p \notin Tree(heap, n)
    BY <1>2 DEF Add, Roots
  <2>2. q # Null => ~Stale(heap, q)
    BY <1>0, <1>2 DEF Add
  <2>3. heap' = AddChild(heap, p, n) /\ broken' = ~AddIsSafe(heap, p, n)
    BY <1>2 DEF Add
  <2> HIDE DEF q
  <2>4. Sound(AddChild(heap, p, n)) /\ AddIsSafe(heap, p, n)
    BY <1>0, <2>1, <2>2, AddIsSound DEF q
  <2>5. QED
    BY <2>3, <2>4 DEF IInv
<1>3. ASSUME NEW n \in Used(heap), Delete(n)
      PROVE  IInv'
  <2>1. ~Stale(heap, n) /\ ~OnlyChild(heap, n)
    BY <1>0, <1>3 DEF Delete
  <2>2. Sound(DeleteNode(heap, n)) /\ DeleteIsSafe(heap, n)
    BY <1>0, <2>1, DeleteIsSound
  <2>3. QED
    BY <1>3, <2>2 DEF Delete, IInv
<1>4. ASSUME NEW n \in Used(heap), Clone(n)
      PROVE  IInv'
  <2>1. broken' = FALSE
    BY <1>0, <1>4, TreesAreTrees DEF Clone
  <2>2. PICK f \in Injection(Tree(heap, n), Unused(heap)) : heap' = Copy(heap, n, f)
    BY <1>4, <2>1 DEF Clone
  <2>3. Sound(Copy(heap, n, f))
    BY <1>0, CopyIsSound
  <2>4. QED
    BY <2>1, <2>2, <2>3 DEF IInv
<1>5. ASSUME NEW n \in Used(heap), NEW k \in Keys, SetKey(n, k), UNCHANGED broken
      PROVE  IInv'
  BY <1>0, <1>5, KeyIsSound DEF IInv
<1>6. ASSUME NEW n \in Used(heap), NEW v \in Values, SetValue(n, v), UNCHANGED broken
      PROVE  IInv'
  BY <1>0, <1>6, ValueIsSound DEF IInv
<1>7. ASSUME NEW n \in Used(heap), NEW L \in Listeners, Show(n, L)
      PROVE  IInv'
  <2>1. L \in Seq(Seq(Keys)) /\ Len(L) <= 1
    BY NodeAssumption DEF Proper
  <2>2. Shown(heap, n, L) = heap
    BY <1>0, <2>1, OneListener DEF Sound
  <2>3. heap[n].parent = Null /\ heap' = Free(heap, n) /\ broken' = ~IsTree(heap, n)
    BY <1>7, <2>2 DEF Show, Roots
  <2>4. QED
    BY <1>0, <2>3, ShowIsSound DEF IInv
<1>8. CASE UNCHANGED vars
  BY <1>8 DEF vars, IInv, Sound, Heaps, Clean, Joined, Apart, Grounded, Used
<1>9. QED
  BY <1>1, <1>2, <1>3, <1>4, <1>5, <1>6, <1>7, <1>8 DEF Next

\* Whatever trees are built, replaced, copied, shown to a listener and deleted,
\* the links of the nodes answer one another, no two lead to the same node, and
\* none leads round.
THEOREM Invariance ==
  ASSUME Proper
  PROVE  Spec => []IInv
<1>1. Init => IInv
  BY InitIsSound
<1>2. IInv /\ [Next]_vars => IInv'
  BY StepIsSound
<1>3. QED
  BY <1>1, <1>2, PTL DEF Spec

\* _wilddog_node_free, wilddog_node_clone, wilddog_node_delete and
\* wilddog_node_addChild touch no freed memory, free no node twice and return.
THEOREM NeverTouchesFreed ==
  ASSUME Proper
  PROVE  Spec => []NeverBroken
<1>1. IInv => NeverBroken
  BY DEF IInv, NeverBroken
<1>2. QED
  BY <1>1, Invariance, PTL

\* The loops over brothers, the deletion by prev and the clone take the same
\* nodes for the tree.
THEOREM LinksAgree ==
  ASSUME Proper
  PROVE  Spec => []ListsRight
<1>1. IInv => ListsRight
  BY SoundLists DEF IInv
<1>2. QED
  BY <1>1, Invariance, PTL

\* Every child is found from its parent through p_wn_child and p_wn_next.
THEOREM ChildrenAreFound ==
  ASSUME Proper
  PROVE  Spec => []ChildIsFound
<1>1. IInv => ChildIsFound
  BY SoundLists DEF IInv
<1>2. QED
  BY <1>1, Invariance, PTL

-----------------------------------------------------------------------------
(* wilddog_node_find, level by level.                                         *)

\* The kids of x with the key k.
Named(h, x, k) == {m \in Kids(h, x) : h[m].key = k}

LEMMA NamedIsOne ==
  ASSUME NEW h, Sound(h), NEW x \in Nodes, NEW k
  PROVE  \A m, n \in Named(h, x, k) : m = n
BY KidsByParent, NodeAssumption DEF Named, Sound, Apart

LEMMA MatchingIs ==
  ASSUME NEW h, Sound(h), NEW x \in Nodes, NEW k \in Keys,
         \A m \in Kids(h, x) : ~IsStrictPrefix(h[m].key, k)
  PROVE  /\ Named(h, x, k) = {} => Matching(h, h[x].child, k) = Null
         /\ Named(h, x, k) # {} => Matching(h, h[x].child, k) \in Named(h, x, k)
<1> DEFINE found == {m \in List(h, h[x].child) : IsPrefix(h[m].key, k)}
<1>1. found = Named(h, x, k)
  <2>1. Len(k) \in Nat
    BY NodeAssumption
  <2>2. \A s : s = k => IsPrefix(s, k)
    BY <2>1 DEF IsPrefix
  <2>3. \A m \in Kids(h, x) : IsPrefix(h[m].key, k) <=> h[m].key = k
    BY <2>2 DEF IsStrictPrefix
  <2>4. QED
    BY <2>3 DEF Kids, Named
<1>2. Matching(h, h[x].child, k) =
        IF found = {} THEN Null ELSE CHOOSE n \in found : found \subseteq List(h, n)
  BY DEF Matching, First
<1> HIDE DEF found
<1>3. CASE found = {}
  BY <1>1, <1>2, <1>3
<1>4. CASE found # {}
  <2>1. PICK m \in found : TRUE
    BY <1>4
  <2>2. \A y \in found : y = m
    BY <1>1, <2>1, NamedIsOne
  <2>3. m \in Nodes
    BY <1>1, <2>1, KidsByParent DEF Named
  <2>4. found \subseteq List(h, m)
    BY <2>2, <2>3, ListHas
  <2>5. QED
    BY <1>1, <1>2, <1>4, <2>1, <2>4
<1>5. QED
  BY <1>3, <1>4

\* The nodes at each level of the path p.
IsAt(s, h, r, p) ==
  s = [i \in 0 .. Len(p) |->
         IF i = 0 THEN {r} ELSE UNION {Named(h, n, p[i]) : n \in s[i - 1]}]

Levels(f, h, r, p) ==
  /\ f \in [Nat -> SUBSET Nodes] /\ f[0] = {r}
  /\ \A i \in Nat : f[i + 1] = UNION {Named(h, n, p[i + 1]) : n \in f[i]}

LEMMA LevelsExist ==
  ASSUME NEW h, NEW r \in Nodes, NEW p
  PROVE  \E f : Levels(f, h, r, p)
<1> DEFINE V == SUBSET Nodes
           next(i, S) == UNION {Named(h, n, p[i + 1]) : n \in S}
           step == [i \in Nat |-> [S \in V |-> next(i, S)]]
<1>1. ASSUME NEW i \in Nat, NEW S \in V
      PROVE  next(i, S) \in V
  <2>1. ASSUME NEW n
        PROVE  Named(h, n, p[i + 1]) \subseteq Nodes
    BY ListHas DEF Named, Kids
  <2>2. QED
    BY <2>1
<1>2. step \in Steppers(V)
  <2> HIDE DEF next, V
  <2>1. QED
    BY <1>1 DEF Steppers
<1>3. PICK f \in [Nat -> V] : Repeats(f, {r}, step)
  <2>1. {r} \in V
    OBVIOUS
  <2> HIDE DEF step, V
  <2>2. QED
    BY <1>2, <2>1, NatRecursion
<1>4. ASSUME NEW i \in Nat
      PROVE  f[i + 1] = next(i, f[i])
  <2>1. f[i + 1] = step[i][f[i]] /\ f[i] \in V
    BY <1>3 DEF Repeats
  <2> HIDE DEF next, V
  <2>2. QED
    BY <2>1
<1>5. Levels(f, h, r, p)
  BY <1>3, <1>4 DEF Levels, Repeats
<1>6. QED
  BY <1>5

LEMMA AtIsLevel ==
  ASSUME NEW h, NEW r, NEW p \in Seq(Keys), NEW f, Levels(f, h, r, p),
         NEW q \in Seq(Keys), Len(q) <= Len(p), \A i \in 1 .. Len(q) : q[i] = p[i]
  PROVE  At(h, r, q) = f[Len(q)]
<1> DEFINE l == Len(q)
           g == [i \in 0 .. l |-> f[i]]
<1>0. l \in Nat /\ f[0] = {r}
      /\ \A i \in Nat : f[i + 1] = UNION {Named(h, n, p[i + 1]) : n \in f[i]}
  <2>1. l \in Nat
    OBVIOUS
  <2>2. f[0] = {r} /\ \A i \in Nat : f[i + 1] = UNION {Named(h, n, p[i + 1]) : n \in f[i]}
    BY DEF Levels
  <2>3. QED
    BY <2>1, <2>2
<1>1. ASSUME NEW i \in 1 .. l
      PROVE  f[i] = UNION {Named(h, n, q[i]) : n \in f[i - 1]}
  <2>1. i - 1 \in Nat /\ (i - 1) + 1 = i
    BY <1>0
  <2>2. f[(i - 1) + 1] = UNION {Named(h, n, p[(i - 1) + 1]) : n \in f[i - 1]}
    BY <1>0, <2>1
  <2>3. QED
    BY <2>1, <2>2
<1>2. IsAt(g, h, r, q)
  <2>1. ASSUME NEW i \in 0 .. l
        PROVE  g[i] = IF i = 0 THEN {r} ELSE UNION {Named(h, n, q[i]) : n \in g[i - 1]}
    <3>1. CASE i = 0
      BY <1>0, <3>1
    <3>2. CASE i # 0
      <4>1. i \in 1 .. l /\ i - 1 \in 0 .. l
        BY <1>0, <3>2
      <4>2. g[i] = f[i] /\ g[i - 1] = f[i - 1]
        BY <4>1
      <4> HIDE DEF g
      <4>3. QED
        BY <1>1, <3>2, <4>1, <4>2
    <3>3. QED
      BY <3>1, <3>2
  <2>2. g = [i \in 0 .. l |-> g[i]]
    OBVIOUS
  <2> HIDE DEF g
  <2>3. QED
    BY <2>1, <2>2 DEF IsAt
<1>3. ASSUME NEW s, IsAt(s, h, r, q)
      PROVE  s[l] = f[l]
  <2> DEFINE S == {i \in Nat : i <= l => s[i] = f[i]}
  <2>1. \A i \in 0 .. l :
          s[i] = IF i = 0 THEN {r} ELSE UNION {Named(h, n, q[i]) : n \in s[i - 1]}
    BY <1>3 DEF IsAt
  <2>2. 0 \in S
    <3>1. 0 \in 0 .. l
      BY <1>0
    <3>2. s[0] = {r}
      BY <2>1, <3>1
    <3>3. QED
      BY <1>0, <3>2
  <2>3. ASSUME NEW i \in S
        PROVE  i + 1 \in S
    <3>1. CASE i + 1 <= l
      <4> DEFINE j == i + 1
      <4>1. i \in Nat /\ j \in 1 .. l /\ j \in 0 .. l /\ j # 0 /\ j - 1 = i
        BY <1>0, <3>1
      <4>2. s[i] = f[i]
        BY <1>0, <3>1, <4>1
      <4> HIDE DEF j
      <4>3. s[j] = UNION {Named(h, n, q[j]) : n \in s[i]}
        BY <2>1, <4>1
      <4>4. f[j] = UNION {Named(h, n, q[j]) : n \in f[i]}
        BY <1>1, <4>1
      <4>5. s[j] = f[j]
        BY <4>2, <4>3, <4>4
      <4>6. QED
        BY <4>1, <4>5 DEF j
    <3>2. CASE ~(i + 1 <= l)
      BY <3>2
    <3>3. QED
      BY <3>1, <3>2
  <2> HIDE DEF S
  <2>4. S = Nat
    <3>1. S \subseteq Nat
      BY DEF S
    <3>2. QED
      BY <2>2, <2>3, <3>1, NatSetInduction
  <2>5. QED
    BY <1>0, <2>4 DEF S
<1> HIDE DEF g
<1> DEFINE c == CHOOSE s : IsAt(s, h, r, q)
<1>4. IsAt(c, h, r, q)
  BY <1>2
<1>5. At(h, r, q) = c[l]
  BY DEF At, IsAt, Named
<1> HIDE DEF c
<1>6. QED
  BY <1>3, <1>4, <1>5

\* What wilddog_node_find finds at each level.
IsFound(s, h, r, p) ==
  s = [i \in 0 .. Len(p) |->
         IF i = 0 THEN r
         ELSE IF s[i - 1] = Null \/ (i > 1 /\ h[s[i - 1]].key # p[i - 1]) THEN s[i - 1]
         ELSE Matching(h, h[s[i - 1]].child, p[i])]

LEMMA FoundByLevel ==
  ASSUME NEW h, Sound(h), NEW r \in Nodes, NEW p \in Seq(Keys), Unambiguous(h, r, p)
  PROVE  IF At(h, r, p) = {} THEN Find(h, r, p) = Null
         ELSE At(h, r, p) = {Find(h, r, p)}
<1> DEFINE l == Len(p)
<1>0. l \in Nat /\ DOMAIN p = 1 .. l /\ \A i \in 1 .. l : p[i] \in Keys
  OBVIOUS
<1>1. PICK f : Levels(f, h, r, p)
  BY LevelsExist
<1>2. /\ f \in [Nat -> SUBSET Nodes] /\ f[0] = {r}
      /\ \A i \in Nat : f[i + 1] = UNION {Named(h, n, p[i + 1]) : n \in f[i]}
  BY <1>1 DEF Levels
<1>3. At(h, r, p) = f[l]
  BY <1>0, <1>1, AtIsLevel
<1>4. ASSUME NEW i \in 1 .. l, NEW n \in f[i - 1], NEW m \in Kids(h, n)
      PROVE  ~IsStrictPrefix(h[m].key, p[i])
  <2> DEFINE q == SubSeq(p, 1, i - 1)
  <2>1. q \in Seq(Keys) /\ Len(q) = i - 1 /\ Len(q) <= Len(p)
        /\ \A j \in 1 .. Len(q) : q[j] = p[j]
    BY <1>0
  <2> HIDE DEF q
  <2>2. At(h, r, q) = f[i - 1]
    BY <1>1, <2>1, AtIsLevel
  <2>3. QED
    BY <1>0, <1>4, <2>2 DEF Unambiguous, q
<1> DEFINE One == {i \in Nat : \A m, n \in f[i] : m = n}
<1>5. One = Nat
  <2>1. 0 \in One
    BY <1>2
  <2>2. ASSUME NEW i \in One
        PROVE  i + 1 \in One
    <3>1. i \in Nat /\ f[i] \subseteq Nodes /\ \A m, n \in f[i] : m = n
      BY <1>2
    <3>2. f[i + 1] = UNION {Named(h, n, p[i + 1]) : n \in f[i]}
      BY <1>2, <3>1
    <3>3. ASSUME NEW a \in f[i + 1], NEW b \in f[i + 1]
          PROVE  a = b
      <4>1. PICK m \in f[i] : a \in Named(h, m, p[i + 1])
        BY <3>2, <3>3
      <4>2. PICK n \in f[i] : b \in Named(h, n, p[i + 1])
        BY <3>2, <3>3
      <4>3. m = n /\ m \in Nodes
        BY <3>1, <4>1, <4>2
      <4>4. QED
        BY <4>1, <4>2, <4>3, NamedIsOne
    <3>4. QED
      BY <3>1, <3>3
  <2> HIDE DEF One
  <2>3. One \subseteq Nat
    BY DEF One
  <2>4. QED
    BY <2>1, <2>2, <2>3, NatSetInduction
<1>6. ASSUME NEW i \in Nat
      PROVE  \A m, n \in f[i] : m = n
  BY <1>5
<1> HIDE DEF One
<1> DEFINE w == [i \in 0 .. l |-> IF f[i] = {} THEN Null ELSE CHOOSE n \in f[i] : TRUE]
<1>7. ASSUME NEW i \in 0 .. l
      PROVE  /\ f[i] = {} => w[i] = Null
             /\ f[i] # {} => /\ w[i] \in f[i] /\ w[i] \in Nodes /\ w[i] # Null
                             /\ f[i] = {w[i]}
  <2>1. i \in Nat /\ f[i] \subseteq Nodes /\ Null \notin Nodes
    BY <1>0, <1>2, NodeAssumption
  <2>2. w[i] = IF f[i] = {} THEN Null ELSE CHOOSE n \in f[i] : TRUE
    OBVIOUS
  <2> HIDE DEF w
  <2>3. f[i] # {} => w[i] \in f[i]
    BY <2>2
  <2>4. QED
    BY <1>6, <2>1, <2>2, <2>3
<1>8. ASSUME NEW i \in 1 .. l
      PROVE  w[i] = IF w[i - 1] = Null \/ (i > 1 /\ h[w[i - 1]].key # p[i - 1]) THEN w[i - 1]
                    ELSE Matching(h, h[w[i - 1]].child, p[i])
  <2>0. /\ i - 1 \in Nat /\ (i - 1) + 1 = i /\ i - 1 \in 0 .. l /\ i \in 0 .. l
        /\ p[i] \in Keys
    BY <1>0
  <2>1. f[i] = UNION {Named(h, n, p[i]) : n \in f[i - 1]}
    <3>1. f[(i - 1) + 1] = UNION {Named(h, n, p[(i - 1) + 1]) : n \in f[i - 1]}
      BY <1>2, <2>0
    <3>2. QED
      BY <2>0, <3>1
  <2>2. CASE f[i - 1] = {}
    <3>1. w[i - 1] = Null /\ w[i] = Null
      BY <1>7, <2>0, <2>1, <2>2
    <3> HIDE DEF w
    <3>2. QED
      BY <3>1
  <2>3. CASE f[i - 1] # {}
    <3> DEFINE x == w[i - 1]
    <3>1. x \in f[i - 1] /\ x \in Nodes /\ x # Null /\ f[i - 1] = {x}
      BY <1>7, <2>0, <2>3
    <3> HIDE DEF w, x
    <3>2. f[i] = Named(h, x, p[i])
      BY <2>1, <3>1
    <3>3. i > 1 => h[x].key = p[i - 1]
      <4>1. ASSUME i > 1
            PROVE  h[x].key = p[i - 1]
        <5> DEFINE j == (i - 1) - 1
        <5>1. j \in Nat /\ j + 1 = i - 1
          BY <1>0, <4>1
        <5> HIDE DEF j
        <5>2. f[j + 1] = UNION {Named(h, n, p[j + 1]) : n \in f[j]}
          BY <1>2, <5>1
        <5>3. x \in UNION {Named(h, n, p[i - 1]) : n \in f[j]}
          BY <3>1, <5>1, <5>2
        <5>4. PICK n \in f[j] : x \in Named(h, n, p[i - 1])
          BY <5>3
        <5>5. QED
          BY <5>4 DEF Named
      <4>2. QED
        BY <4>1
    <3>4. \A m \in Kids(h, x) : ~IsStrictPrefix(h[m].key, p[i])
      BY <1>4, <3>1
    <3>5. /\ f[i] = {} => Matching(h, h[x].child, p[i]) = Null
          /\ f[i] # {} => Matching(h, h[x].child, p[i]) \in f[i]
      BY <2>0, <3>1, <3>2, <3>4, MatchingIs
    <3>6. w[i] = Matching(h, h[x].child, p[i])
      <4>1. /\ f[i] = {} => w[i] = Null
            /\ f[i] # {} => f[i] = {w[i]}
        BY <1>7, <2>0
      <4>2. QED
        BY <3>5, <4>1
    <3>7. w[i] = IF x = Null \/ (i > 1 /\ h[x].key # p[i - 1]) THEN x
                 ELSE Matching(h, h[x].child, p[i])
      BY <3>1, <3>3, <3>6
    <3>8. QED
      BY <3>7 DEF x
  <2>4. QED
    BY <2>2, <2>3
<1>9. w[0] = r
  <2>1. 0 \in 0 .. l /\ f[0] = {r}
    BY <1>0, <1>2
  <2>2. QED
    BY <1>7, <2>1
<1>10. w = [i \in 0 .. l |-> w[i]]
  OBVIOUS
<1>11. /\ f[l] = {} => w[l] = Null
       /\ f[l] # {} => f[l] = {w[l]}
  BY <1>0, <1>7
<1> HIDE DEF w
<1>12. IsFound(w, h, r, p)
  <2>1. ASSUME NEW i \in 0 .. l
        PROVE  w[i] =
                 IF i = 0 THEN r
                 ELSE IF w[i - 1] = Null \/ (i > 1 /\ h[w[i - 1]].key # p[i - 1])
                      THEN w[i - 1]
                 ELSE Matching(h, h[w[i - 1]].child, p[i])
    <3>1. i # 0 => i \in 1 .. l
      BY <1>0
    <3>2. QED
      BY <1>8, <1>9, <3>1
  <2>2. QED
    BY <1>10, <2>1 DEF IsFound
<1>13. ASSUME NEW s, IsFound(s, h, r, p)
       PROVE  s[l] = w[l]
  <2> DEFINE S == {i \in Nat : i <= l => s[i] = w[i]}
  <2>1. \A i \in 0 .. l :
          s[i] = IF i = 0 THEN r
                 ELSE IF s[i - 1] = Null \/ (i > 1 /\ h[s[i - 1]].key # p[i - 1])
                      THEN s[i - 1]
                 ELSE Matching(h, h[s[i - 1]].child, p[i])
    BY <1>13 DEF IsFound
  <2>2. 0 \in S
    <3>1. 0 \in 0 .. l
      BY <1>0
    <3>2. s[0] = r
      BY <2>1, <3>1
    <3>3. QED
      BY <1>9, <3>2
  <2>3. ASSUME NEW i \in S
        PROVE  i + 1 \in S
    <3>1. CASE i + 1 <= l
      <4> DEFINE j == i + 1
      <4>1. i \in Nat /\ j \in 1 .. l /\ j \in 0 .. l /\ j # 0 /\ j - 1 = i
        BY <1>0, <3>1
      <4>2. s[i] = w[i]
        BY <1>0, <3>1, <4>1
      <4> HIDE DEF j
      <4>3. s[j] = IF s[i] = Null \/ (j > 1 /\ h[s[i]].key # p[i]) THEN s[i]
                   ELSE Matching(h, h[s[i]].child, p[j])
        BY <2>1, <4>1
      <4>4. w[j] = IF w[i] = Null \/ (j > 1 /\ h[w[i]].key # p[i]) THEN w[i]
                   ELSE Matching(h, h[w[i]].child, p[j])
        BY <1>8, <4>1
      <4>5. s[j] = w[j]
        BY <4>2, <4>3, <4>4
      <4>6. QED
        BY <4>1, <4>5 DEF j
    <3>2. CASE ~(i + 1 <= l)
      BY <3>2
    <3>3. QED
      BY <3>1, <3>2
  <2> HIDE DEF S
  <2>4. S = Nat
    <3>1. S \subseteq Nat
      BY DEF S
    <3>2. QED
      BY <2>2, <2>3, <3>1, NatSetInduction
  <2>5. QED
    BY <1>0, <2>4 DEF S
<1> DEFINE c == CHOOSE s : IsFound(s, h, r, p)
<1>14. IsFound(c, h, r, p)
  BY <1>12
<1>15. Find(h, r, p) = c[l]
  BY DEF Find, IsFound
<1> HIDE DEF c
<1>16. QED
  BY <1>3, <1>11, <1>13, <1>14, <1>15

\* wilddog_node_find returns the node at the path and none where there is none,
\* unless a key is the beginning of a name that is looked for: on paths of any
\* length (FoundByLevel), and so on those the runs look for.
THEOREM FindsTheNode ==
  ASSUME Proper
  PROVE  Spec => []FindIsRight
<1>1. ASSUME IInv
      PROVE  FindIsRight
  <2>1. ASSUME NEW r \in Roots(heap), NEW p \in BoundedSeq(Keys, 2)
        PROVE  r \in Nodes /\ p \in Seq(Keys)
    <3>1. PICK m \in 0 .. 2 : p \in [1 .. m -> Keys]
      BY DEF BoundedSeq, SeqOf
    <3>2. m \in Nat
      OBVIOUS
    <3>3. p \in Seq(Keys)
      BY <3>1, <3>2
    <3>4. QED
      BY <3>3 DEF Roots, Used
  <2>2. Sound(heap)
    BY <1>1 DEF IInv
  <2>3. QED
    BY <2>1, <2>2, FoundByLevel DEF FindIsRight
<1>2. IInv => FindIsRight
  BY <1>1
<1>3. QED
  BY <1>2, Invariance, PTL

-----------------------------------------------------------------------------
(* Paths.                                                                    *)

Paths == Seq(Keys)

LEMMA PrefixIs ==
  ASSUME NEW p \in Paths, NEW q \in Paths
  PROVE  IsPrefix(p, q) <=> Len(p) <= Len(q) /\ \A i \in 1 .. Len(p) : p[i] = q[i]
<1>1. Len(p) \in Nat /\ Len(q) \in Nat /\ p \in Seq(Keys) /\ q \in Seq(Keys)
  BY DEF Paths
<1>2. CASE Len(p) > Len(q)
  BY <1>1, <1>2 DEF IsPrefix
<1>3. CASE Len(p) <= Len(q)
  <2>1. SubSeq(p, 1, Len(p)) = [i \in 1 .. Len(p) |-> p[i]]
    BY <1>1
  <2>2. SubSeq(q, 1, Len(p)) = [i \in 1 .. Len(p) |-> q[i]]
    BY <1>1, <1>3
  <2>3. [i \in 1 .. Len(p) |-> p[i]] = [i \in 1 .. Len(p) |-> q[i]]
          <=> \A i \in 1 .. Len(p) : p[i] = q[i]
    OBVIOUS
  <2>4. QED
    BY <1>3, <2>1, <2>2, <2>3 DEF IsPrefix
<1>4. QED
  BY <1>1, <1>2, <1>3

LEMMA EmptyPrefix ==
  ASSUME NEW q \in Paths
  PROVE  <<>> \in Paths /\ IsPrefix(<<>>, q) /\ IsPrefix(q, q)
         /\ (IsPrefix(q, <<>>) => q = <<>>)
<1>1. <<>> \in Paths /\ Len(<<>>) = 0 /\ Len(q) \in Nat
      /\ (q # <<>> => Len(q) > 0)
  BY EmptySeq DEF Paths
<1>2. IsPrefix(<<>>, q) /\ IsPrefix(q, q)
  BY <1>1, PrefixIs
<1>3. IsPrefix(q, <<>>) => Len(q) <= 0
  BY <1>1, PrefixIs
<1>4. QED
  BY <1>1, <1>2, <1>3

LEMMA SamePath ==
  ASSUME NEW p \in Paths, NEW q \in Paths, Len(p) = Len(q), IsPrefix(p, q)
  PROVE  p = q
BY PrefixIs, SeqEqual DEF Paths

LEMMA AppendIs ==
  ASSUME NEW p \in Paths, NEW k \in Keys
  PROVE  /\ Append(p, k) \in Paths /\ Append(p, k) # <<>>
         /\ Len(Append(p, k)) = Len(p) + 1 /\ Len(p) \in Nat
         /\ Last(Append(p, k)) = k
<1>1. /\ Append(p, k) \in Seq(Keys) /\ Append(p, k) # << >>
      /\ Len(Append(p, k)) = Len(p) + 1 /\ Append(p, k)[Len(p) + 1] = k
  BY AppendProperties DEF Paths
<1>2. QED
  BY <1>1 DEF Last, Paths

LEMMA SameStep ==
  ASSUME NEW p \in Paths, NEW k \in Keys, NEW q \in Paths, NEW l \in Keys,
         Append(p, k) = Append(q, l)
  PROVE  p = q /\ k = l
BY AppendInjective DEF Paths

LEMMA PrefixOfAppend ==
  ASSUME NEW p \in Paths, NEW q \in Paths, NEW k \in Keys
  PROVE  IsPrefix(p, Append(q, k)) <=> p = Append(q, k) \/ IsPrefix(p, q)
<1> DEFINE a == Append(q, k)
<1>1. /\ a \in Paths /\ Len(a) = Len(q) + 1 /\ Len(q) \in Nat /\ Len(p) \in Nat
      /\ \A i \in 1 .. Len(q) : a[i] = q[i]
  BY AppendProperties DEF Paths
<1> HIDE DEF a
<1>2. IsPrefix(p, a) => p = a \/ IsPrefix(p, q)
  <2> SUFFICES ASSUME IsPrefix(p, a)
               PROVE  p = a \/ IsPrefix(p, q)
    OBVIOUS
  <2>1. Len(p) <= Len(a) /\ \A i \in 1 .. Len(p) : p[i] = a[i]
    BY <1>1, PrefixIs
  <2>2. CASE Len(p) = Len(a)
    BY <1>1, <2>2, SamePath
  <2>3. CASE Len(p) # Len(a)
    <3>1. Len(p) <= Len(q) /\ \A i \in 1 .. Len(p) : p[i] = q[i]
      BY <1>1, <2>1, <2>3
    <3>2. QED
      BY <3>1, PrefixIs
  <2>4. QED
    BY <2>2, <2>3
<1>3. IsPrefix(p, q) => IsPrefix(p, a)
  <2> SUFFICES ASSUME IsPrefix(p, q)
               PROVE  IsPrefix(p, a)
    OBVIOUS
  <2>1. Len(p) <= Len(q) /\ \A i \in 1 .. Len(p) : p[i] = q[i]
    BY PrefixIs
  <2>2. Len(p) <= Len(a) /\ \A i \in 1 .. Len(p) : p[i] = a[i]
    BY <1>1, <2>1
  <2>3. QED
    BY <1>1, <2>2, PrefixIs
<1>4. p = a => IsPrefix(p, a)
  BY EmptyPrefix
<1>5. QED
  BY <1>2, <1>3, <1>4 DEF a

LEMMA RestIs ==
  ASSUME NEW p \in Paths, NEW u \in Paths
  PROVE  SubSeq(p \o u, Len(p) + 1, Len(p \o u)) = u
<1> DEFINE c == p \o u
<1>1. /\ c \in Seq(Keys) /\ Len(c) = Len(p) + Len(u) /\ Len(p) \in Nat /\ Len(u) \in Nat
      /\ \A i \in 1 .. Len(p) + Len(u) : c[i] = IF i <= Len(p) THEN p[i] ELSE u[i - Len(p)]
  BY ConcatProperties DEF Paths
<1> HIDE DEF c
<1> DEFINE s == SubSeq(c, Len(p) + 1, Len(c))
           m == Len(p) + 1
           n == Len(c)
<1>2. \A i \in m .. n : c[i] \in Keys
  BY <1>1
<1>3. m \in Int /\ n \in Int /\ n - m + 1 = Len(u)
  BY <1>1
<1>4. /\ s \in Seq(Keys) /\ Len(s) = IF m <= n THEN n - m + 1 ELSE 0
      /\ \A i \in 1 .. n - m + 1 : s[i] = c[m + i - 1]
  <2> HIDE DEF m, n
  <2>1. QED
    BY <1>2, <1>3, SubSeqProperties DEF m, n
<1>5. Len(s) = Len(u)
  BY <1>1, <1>3, <1>4
<1>6. ASSUME NEW i \in 1 .. Len(s)
      PROVE  s[i] = u[i]
  <2>1. m + i - 1 \in 1 .. Len(p) + Len(u) /\ ~(m + i - 1 <= Len(p)) /\ (m + i - 1) - Len(p) = i
    BY <1>1, <1>5
  <2>2. c[m + i - 1] = u[(m + i - 1) - Len(p)]
    BY <1>1, <2>1
  <2>3. s[i] = c[m + i - 1]
    BY <1>3, <1>4, <1>5
  <2>4. QED
    BY <2>1, <2>2, <2>3
<1> HIDE DEF s
<1>7. s = u
  BY <1>4, <1>5, <1>6, SeqEqual DEF Paths
<1>8. QED
  BY <1>7 DEF s, c

LEMMA ConcatIs ==
  ASSUME NEW p \in Paths, NEW u \in Paths
  PROVE  /\ p \o u \in Paths /\ Len(p \o u) = Len(p) + Len(u)
         /\ IsPrefix(p, p \o u)
         /\ SubSeq(p \o u, Len(p) + 1, Len(p \o u)) = u
         /\ \A k \in Keys : p \o Append(u, k) = Append(p \o u, k)
         /\ \A v \in Paths : p \o u = p \o v => u = v
         /\ p \o <<>> = p /\ <<>> \o p = p
<1> DEFINE c == p \o u
<1>1. /\ c \in Seq(Keys) /\ Len(c) = Len(p) + Len(u) /\ Len(p) \in Nat /\ Len(u) \in Nat
      /\ \A i \in 1 .. Len(p) + Len(u) : c[i] = IF i <= Len(p) THEN p[i] ELSE u[i - Len(p)]
  BY ConcatProperties DEF Paths
<1>2. IsPrefix(p, c)
  <2> HIDE DEF c
  <2>1. Len(p) <= Len(c) /\ \A i \in 1 .. Len(p) : p[i] = c[i]
    BY <1>1
  <2>2. QED
    BY <1>1, <2>1, PrefixIs DEF Paths
<1>3. SubSeq(c, Len(p) + 1, Len(c)) = u
  BY RestIs
<1>4. ASSUME NEW k \in Keys
      PROVE  p \o Append(u, k) = Append(c, k)
  <2>1. <<k>> \in Seq(Keys) /\ Append(u, k) = u \o <<k>> /\ Append(c, k) = c \o <<k>>
    BY <1>1, AppendIsConcat DEF Paths
  <2>2. (p \o u) \o <<k>> = p \o (u \o <<k>>)
    BY <2>1, ConcatAssociative DEF Paths
  <2>3. QED
    BY <2>1, <2>2
<1>5. ASSUME NEW v \in Paths, p \o u = p \o v
      PROVE  u = v
  BY <1>5, RestIs
<1>6. p \o <<>> = p /\ <<>> \o p = p
  BY ConcatEmptySeq DEF Paths
<1>7. QED
  BY <1>1, <1>2, <1>3, <1>4, <1>5, <1>6 DEF Paths

\* What a prefix leaves.
LEMMA PrefixRest ==
  ASSUME NEW p \in Paths, NEW q \in Paths, IsPrefix(p, q)
  PROVE  \E u \in Paths : q = p \o u
<1>1. Len(p) \in Nat /\ Len(q) \in Nat /\ Len(p) <= Len(q) /\ SubSeq(q, 1, Len(p)) = p
  <2>1. Len(p) \in Nat /\ Len(q) \in Nat /\ SubSeq(p, 1, Len(p)) = p
    BY SubSeqFull DEF Paths
  <2>2. QED
    BY <2>1 DEF IsPrefix
<1> DEFINE u == SubSeq(q, Len(p) + 1, Len(q))
<1>2. SubSeq(q, 1, Len(p)) \o u = SubSeq(q, 1, Len(q))
  <2> DEFINE m == 1
             k == Len(p)
             n == Len(q)
  <2>1. m \in 1 .. Len(q) + 1 /\ k \in m - 1 .. Len(q) /\ n \in k .. Len(q)
    BY <1>1
  <2> HIDE DEF m, k, n
  <2>2. SubSeq(q, m, k) \o SubSeq(q, k + 1, n) = SubSeq(q, m, n)
    BY <2>1, ConcatAdjacentSubSeq DEF Paths
  <2>3. QED
    BY <2>2 DEF m, k, n
<1>3. SubSeq(q, 1, Len(q)) = q
  BY SubSeqFull DEF Paths
<1>4. u \in Paths
  <2>1. \A i \in Len(p) + 1 .. Len(q) : q[i] \in Keys
    BY <1>1 DEF Paths
  <2>2. Len(p) + 1 \in Int /\ Len(q) \in Int
    BY <1>1
  <2>3. QED
    BY <2>1, <2>2, SubSeqProperties DEF Paths
<1>5. QED
  BY <1>1, <1>2, <1>3, <1>4

-----------------------------------------------------------------------------
(* Where the nodes are: in which tree, and at which path.                    *)

\* P gives the path of each node, and R the root of its tree.
Read(h, P, R) ==
  /\ P \in [Nodes -> Paths] /\ R \in [Nodes -> Nodes]
  /\ \A n \in Used(h) :
       /\ h[n].parent = Null => P[n] = <<>> /\ R[n] = n
       /\ h[n].parent # Null => /\ P[n] = Append(P[h[n].parent], h[n].key)
                                /\ R[n] = R[h[n].parent]

LEMMA ReadStep ==
  ASSUME NEW h, Sound(h), NEW P, NEW R, Read(h, P, R), NEW n \in Used(h)
  PROVE  /\ n \in Nodes /\ P[n] \in Paths /\ R[n] \in Nodes /\ Len(P[n]) \in Nat
         /\ h[n].parent = Null => P[n] = <<>> /\ R[n] = n /\ Len(P[n]) = 0
         /\ h[n].parent # Null =>
              /\ h[n].parent \in Used(h) /\ h[n].key \in Keys
              /\ P[h[n].parent] \in Paths
              /\ P[n] = Append(P[h[n].parent], h[n].key) /\ R[n] = R[h[n].parent]
              /\ P[n] # <<>> /\ Len(P[n]) = Len(P[h[n].parent]) + 1
<1>1. n \in Nodes /\ P[n] \in Paths /\ R[n] \in Nodes /\ Len(P[n]) \in Nat
  BY DEF Read, Used, Paths
<1>2. h[n].parent = Null => P[n] = <<>> /\ R[n] = n /\ Len(P[n]) = 0
  BY EmptySeq DEF Read
<1>3. ASSUME h[n].parent # Null
      PROVE  /\ h[n].parent \in Used(h) /\ h[n].key \in Keys
             /\ P[h[n].parent] \in Paths
             /\ P[n] = Append(P[h[n].parent], h[n].key) /\ R[n] = R[h[n].parent]
             /\ P[n] # <<>> /\ Len(P[n]) = Len(P[h[n].parent]) + 1
  <2>1. h[n].parent \in Used(h) /\ h[n].key \in Keys
    BY <1>1, <1>3 DEF Sound, Joined, Heaps, NodeType
  <2>2. P[h[n].parent] \in Paths
    BY <2>1 DEF Read, Used
  <2>3. P[n] = Append(P[h[n].parent], h[n].key) /\ R[n] = R[h[n].parent]
    BY <1>3 DEF Read
  <2>4. P[n] # <<>> /\ Len(P[n]) = Len(P[h[n].parent]) + 1
    <3> DEFINE p == P[h[n].parent]
               k == h[n].key
    <3>1. p \in Paths /\ k \in Keys /\ P[n] = Append(p, k)
      BY <2>1, <2>2, <2>3
    <3> HIDE DEF p, k
    <3>2. P[n] # <<>> /\ Len(P[n]) = Len(p) + 1
      BY <3>1, AppendIs
    <3>3. QED
      BY <3>2 DEF p
  <2>5. QED
    BY <2>1, <2>2, <2>3, <2>4
<1>4. QED
  BY <1>1, <1>2, <1>3

\* Induction from the roots down.
LEMMA FromRoots ==
  ASSUME NEW h, Sound(h), NEW S,
         \A n \in Used(h) : h[n].parent = Null \/ h[n].parent \in S => n \in S
  PROVE  Used(h) \subseteq S
<1> SUFFICES ASSUME Used(h) \ S # {}
             PROVE  FALSE
  OBVIOUS
<1>1. Used(h) \ S \in SUBSET Nodes
  BY DEF Used
<1>2. PICK n \in Used(h) \ S : h[n].parent \notin Used(h) \ S
  BY <1>1 DEF Sound, Grounded
<1>3. h[n].parent = Null \/ h[n].parent \in Used(h)
  BY DEF Sound, Joined, Used
<1>4. QED
  BY <1>2, <1>3

LEMMA RootOf ==
  ASSUME NEW h, Sound(h), NEW P, NEW R, Read(h, P, R), NEW n \in Used(h)
  PROVE  R[n] \in Roots(h)
<1> DEFINE S == {m \in Nodes : R[m] \in Roots(h)}
<1>1. ASSUME NEW m \in Used(h), h[m].parent = Null \/ h[m].parent \in S
      PROVE  m \in S
  <2>1. CASE h[m].parent = Null
    BY <2>1, ReadStep DEF Roots
  <2>2. CASE h[m].parent # Null
    BY <1>1, <2>2, ReadStep
  <2>3. QED
    BY <2>1, <2>2
<1> HIDE DEF S
<1>2. Used(h) \subseteq S
  BY <1>1, FromRoots
<1>3. QED
  BY <1>2 DEF S

LEMMA OneAt ==
  ASSUME NEW h, Sound(h), NEW P, NEW R, Read(h, P, R),
         NEW m \in Used(h), NEW n \in Used(h), R[m] = R[n], P[m] = P[n]
  PROVE  m = n
<1> DEFINE S == {x \in Nodes : \A y \in Used(h) : R[x] = R[y] /\ P[x] = P[y] => x = y}
<1>1. ASSUME NEW x \in Used(h), h[x].parent = Null \/ h[x].parent \in S,
             NEW y \in Used(h), R[x] = R[y], P[x] = P[y]
      PROVE  x = y
  <2>1. CASE h[x].parent = Null
    BY <1>1, <2>1, ReadStep
  <2>2. CASE h[x].parent # Null
    <3>1. h[y].parent # Null
      BY <1>1, <2>2, ReadStep
    <3> DEFINE a == P[h[x].parent]
               b == P[h[y].parent]
               k == h[x].key
               l == h[y].key
    <3>2. /\ a \in Paths /\ k \in Keys /\ P[x] = Append(a, k) /\ R[x] = R[h[x].parent]
      BY <2>2, ReadStep
    <3>3. /\ b \in Paths /\ l \in Keys /\ P[y] = Append(b, l) /\ R[y] = R[h[y].parent]
          /\ h[y].parent \in Used(h)
      BY <3>1, ReadStep
    <3>4. a = b /\ k = l
      <4> HIDE DEF a, b, k, l
      <4>1. Append(a, k) = Append(b, l)
        BY <1>1, <3>2, <3>3
      <4>2. QED
        BY <3>2, <3>3, <4>1, SameStep
    <3>5. h[x].parent = h[y].parent
      BY <1>1, <2>2, <3>2, <3>3, <3>4
    <3>6. QED
      BY <2>2, <3>4, <3>5 DEF Sound, Apart, Used
  <2>3. QED
    BY <2>1, <2>2
<1>2. \A x \in Used(h) : h[x].parent = Null \/ h[x].parent \in S => x \in S
  BY <1>1 DEF Used
<1> HIDE DEF S
<1>3. Used(h) \subseteq S
  BY <1>2, FromRoots
<1>4. QED
  BY <1>3 DEF S

\* The nodes on the way to a node.
LEMMA OnTheWay ==
  ASSUME NEW h, Sound(h), NEW P, NEW R, Read(h, P, R), NEW n \in Used(h),
         NEW q \in Paths, IsPrefix(q, P[n])
  PROVE  \E m \in Used(h) : R[m] = R[n] /\ P[m] = q
<1> DEFINE S == {x \in Nodes : IsPrefix(q, P[x]) =>
                                 \E m \in Used(h) : R[m] = R[x] /\ P[m] = q}
<1>1. ASSUME NEW x \in Used(h), h[x].parent = Null \/ h[x].parent \in S, IsPrefix(q, P[x])
      PROVE  \E m \in Used(h) : R[m] = R[x] /\ P[m] = q
  <2>1. CASE h[x].parent = Null
    <3>1. P[x] = <<>>
      BY <2>1, ReadStep
    <3>2. q = <<>>
      BY <1>1, <3>1, EmptyPrefix
    <3>3. QED
      BY <3>1, <3>2
  <2>2. CASE h[x].parent # Null
    <3>1. q = P[x] \/ IsPrefix(q, P[h[x].parent])
      <4> DEFINE p == P[h[x].parent]
                 k == h[x].key
      <4>1. p \in Paths /\ k \in Keys /\ P[x] = Append(p, k)
        BY <2>2, ReadStep
      <4> HIDE DEF p, k
      <4>2. q = P[x] \/ IsPrefix(q, p)
        BY <1>1, <4>1, PrefixOfAppend
      <4>3. QED
        BY <4>2 DEF p
    <3>2. CASE IsPrefix(q, P[h[x].parent])
      BY <1>1, <2>2, <3>2, ReadStep
    <3>3. QED
      BY <3>1, <3>2
  <2>3. QED
    BY <2>1, <2>2
<1>2. \A x \in Used(h) : h[x].parent = Null \/ h[x].parent \in S => x \in S
  BY <1>1 DEF Used
<1> HIDE DEF S
<1>3. Used(h) \subseteq S
  BY <1>2, FromRoots
<1>4. QED
  BY <1>3 DEF S

\* The tree of a node: those that its path leads to, and goes on from.
LEMMA TreeByPath ==
  ASSUME NEW h, Sound(h), NEW P, NEW R, Read(h, P, R), NEW n \in Used(h)
  PROVE  Tree(h, n) = {m \in Used(h) : R[m] = R[n] /\ IsPrefix(P[n], P[m])}
<1> DEFINE t == Tree(h, n)
           S == {x \in Nodes : x \in t <=> R[x] = R[n] /\ IsPrefix(P[n], P[x])}
<1>1. /\ n \in t /\ t \subseteq Used(h) /\ P[n] \in Paths /\ n \in Nodes
      /\ \A m \in t : m # n => h[m].parent \in t
      /\ \A m \in Nodes : h[m].parent \in t => m \in t
      /\ Null \notin Nodes
  BY TreeByParent, ReadStep, NodeAssumption
<1> HIDE DEF t
<1>2. ASSUME NEW x \in Used(h), h[x].parent = Null \/ h[x].parent \in S
      PROVE  x \in S
  <2>1. x \in Nodes /\ P[x] \in Paths
    BY ReadStep
  <2>2. CASE x = n
    BY <1>1, <2>1, <2>2, EmptyPrefix
  <2>3. CASE x # n /\ h[x].parent = Null
    <3>1. x \notin t
      BY <1>1, <2>3 DEF Used
    <3>2. ASSUME R[x] = R[n], IsPrefix(P[n], P[x])
          PROVE  FALSE
      <4>1. P[x] = <<>>
        BY <2>3, ReadStep
      <4>2. P[n] = P[x]
        BY <1>1, <3>2, <4>1, EmptyPrefix
      <4>3. QED
        BY <2>3, <3>2, <4>2, OneAt
    <3>3. QED
      BY <2>1, <3>1, <3>2
  <2>4. CASE x # n /\ h[x].parent # Null
    <3> DEFINE p == h[x].parent
    <3>1. /\ p \in Used(h) /\ P[p] \in Paths /\ h[x].key \in Keys
          /\ P[x] = Append(P[p], h[x].key) /\ R[x] = R[p]
      BY <2>4, ReadStep
    <3>2. x \in t <=> p \in t
      BY <1>1, <2>1, <2>4
    <3>3. p \in t <=> R[p] = R[n] /\ IsPrefix(P[n], P[p])
      BY <1>2, <2>4
    <3> HIDE DEF p
    <3>4. IsPrefix(P[n], P[x]) <=> P[n] = P[x] \/ IsPrefix(P[n], P[p])
      BY <1>1, <3>1, PrefixOfAppend
    <3>5. R[x] = R[n] => P[n] # P[x]
      BY <2>4, OneAt
    <3>6. QED
      BY <2>1, <3>1, <3>2, <3>3, <3>4, <3>5
  <2>5. QED
    BY <2>2, <2>3, <2>4
<1> HIDE DEF S
<1>3. Used(h) \subseteq S
  BY <1>2, FromRoots
<1>4. QED
  BY <1>1, <1>3 DEF S, t

\* A part of the nodes is read, with the parents of each.
PartRead(h, S, P, R) ==
  /\ S \in SUBSET Used(h) /\ P \in [Nodes -> Paths] /\ R \in [Nodes -> Nodes]
  /\ \A n \in S :
       /\ h[n].parent = Null => P[n] = <<>> /\ R[n] = n
       /\ h[n].parent # Null => /\ h[n].parent \in S
                                /\ P[n] = Append(P[h[n].parent], h[n].key)
                                /\ R[n] = R[h[n].parent]

LEMMA ReadOneMore ==
  ASSUME NEW h, Sound(h), NEW S, NEW P, NEW R, PartRead(h, S, P, R), NEW n \in Used(h) \ S,
         h[n].parent = Null \/ h[n].parent \in S
  PROVE  \E P1, R1 : PartRead(h, S \cup {n}, P1, R1)
<1> DEFINE a == IF h[n].parent = Null THEN <<>> ELSE Append(P[h[n].parent], h[n].key)
           b == IF h[n].parent = Null THEN n ELSE R[h[n].parent]
           P1 == [P EXCEPT ![n] = a]
           R1 == [R EXCEPT ![n] = b]
<1>1. a \in Paths /\ b \in Nodes /\ n \in Nodes
  <2>1. CASE h[n].parent = Null
    BY <2>1, EmptySeq DEF Paths, Used
  <2>2. CASE h[n].parent # Null
    <3>1. h[n].parent \in Nodes /\ n \in Nodes /\ h[n].key \in Keys
      BY <2>2 DEF PartRead, Used, Sound, Joined, Heaps, NodeType
    <3>2. P[h[n].parent] \in Paths /\ b \in Nodes
      BY <2>2, <3>1 DEF PartRead
    <3>3. Append(P[h[n].parent], h[n].key) \in Paths
      BY <3>1, <3>2, AppendIs
    <3>4. QED
      BY <2>2, <3>1, <3>2, <3>3
  <2>3. QED
    BY <2>1, <2>2
<1>2. /\ h[n].parent = Null => a = <<>> /\ b = n
      /\ h[n].parent # Null => a = Append(P[h[n].parent], h[n].key) /\ b = R[h[n].parent]
  OBVIOUS
<1> HIDE DEF a, b
<1>3. /\ P1 \in [Nodes -> Paths] /\ R1 \in [Nodes -> Nodes] /\ P1[n] = a /\ R1[n] = b
      /\ \A m \in S : P1[m] = P[m] /\ R1[m] = R[m]
  BY <1>1 DEF PartRead, Used
<1> HIDE DEF P1, R1
<1>4. ASSUME NEW m \in S \cup {n}
      PROVE  /\ h[m].parent = Null => P1[m] = <<>> /\ R1[m] = m
             /\ h[m].parent # Null => /\ h[m].parent \in S \cup {n}
                                      /\ P1[m] = Append(P1[h[m].parent], h[m].key)
                                      /\ R1[m] = R1[h[m].parent]
  <2>1. CASE m = n
    BY <1>2, <1>3, <2>1
  <2>2. CASE m # n
    <3>1. m \in S
      BY <2>2
    <3>2. P1[m] = P[m] /\ R1[m] = R[m]
      BY <1>3, <3>1
    <3>3. CASE h[m].parent = Null
      BY <3>1, <3>2, <3>3 DEF PartRead
    <3>4. CASE h[m].parent # Null
      <4>1. /\ h[m].parent \in S /\ P[m] = Append(P[h[m].parent], h[m].key)
            /\ R[m] = R[h[m].parent]
        BY <3>1, <3>4 DEF PartRead
      <4>2. P1[h[m].parent] = P[h[m].parent] /\ R1[h[m].parent] = R[h[m].parent]
        BY <1>3, <4>1
      <4>3. QED
        BY <3>2, <3>4, <4>1, <4>2
    <3>5. QED
      BY <3>3, <3>4
  <2>3. QED
    BY <2>1, <2>2
<1>5. S \cup {n} \in SUBSET Used(h)
  BY DEF PartRead
<1>6. PartRead(h, S \cup {n}, P1, R1)
  BY <1>3, <1>4, <1>5 DEF PartRead
<1>7. QED
  BY <1>6

LEMMA ReadExists ==
  ASSUME NEW h, Sound(h)
  PROVE  \E P, R : Read(h, P, R)
<1> DEFINE K == {k \in Nat : \/ \E P, R : Read(h, P, R)
                             \/ \E S, P, R : PartRead(h, S, P, R) /\ Cardinality(S) = k}
<1>1. IsFiniteSet(Nodes) /\ Cardinality(Nodes) \in Nat
  BY NodeAssumption, FS_CardinalityType
<1>2. \A S : S \in SUBSET Nodes => IsFiniteSet(S) /\ Cardinality(S) <= Cardinality(Nodes)
  BY <1>1, FS_Subset
<1>3. 0 \in K
  <2> DEFINE P == [n \in Nodes |-> <<>>]
             R == [n \in Nodes |-> n]
  <2>1. P \in [Nodes -> Paths] /\ R \in [Nodes -> Nodes]
    BY EmptySeq DEF Paths
  <2> HIDE DEF P, R
  <2>2. PartRead(h, {}, P, R)
    BY <2>1 DEF PartRead
  <2>3. QED
    BY <2>2, FS_EmptySet
<1>4. ASSUME NEW k \in K
      PROVE  k + 1 \in K
  <2>1. CASE \E P, R : Read(h, P, R)
    BY <2>1
  <2>2. CASE \E S, P, R : PartRead(h, S, P, R) /\ Cardinality(S) = k
    <3>1. PICK S, P, R : PartRead(h, S, P, R) /\ Cardinality(S) = k
      BY <2>2
    <3>2. S \in SUBSET Used(h) /\ S \in SUBSET Nodes
      BY <3>1 DEF PartRead, Used
    <3>3. CASE S = Used(h)
      <4>1. Read(h, P, R)
        BY <3>1, <3>3 DEF PartRead, Read
      <4>2. QED
        BY <4>1
    <3>4. CASE S # Used(h)
      <4>1. Used(h) \ S \in SUBSET Nodes /\ Used(h) \ S # {}
        BY <3>2, <3>4 DEF Used
      <4>2. PICK n \in Used(h) \ S : h[n].parent \notin Used(h) \ S
        BY <4>1 DEF Sound, Grounded
      <4>3. h[n].parent = Null \/ h[n].parent \in S
        BY <4>2 DEF Sound, Joined, Used
      <4>4. \E P1, R1 : PartRead(h, S \cup {n}, P1, R1)
        BY <3>1, <4>2, <4>3, ReadOneMore
      <4>5. Cardinality(S \cup {n}) = k + 1
        BY <1>2, <3>1, <3>2, <4>2, FS_AddElement
      <4>6. QED
        BY <4>4, <4>5
    <3>5. QED
      BY <3>3, <3>4
  <2>3. QED
    BY <2>1, <2>2
<1> DEFINE N == Cardinality(Nodes)
<1>5. K = Nat
  <2>1. K \subseteq Nat
    OBVIOUS
  <2> HIDE DEF K
  <2>2. QED
    BY <1>3, <1>4, <2>1, NatSetInduction
<1>6. N + 1 \in K
  BY <1>1, <1>5
<1>7. ASSUME NEW S, NEW P, NEW R, PartRead(h, S, P, R), Cardinality(S) = N + 1
      PROVE  FALSE
  <2>1. S \in SUBSET Nodes
    BY <1>7 DEF PartRead, Used
  <2>2. Cardinality(S) <= N
    BY <1>2, <2>1
  <2>3. QED
    BY <1>1, <1>7, <2>2
<1>8. QED
  BY <1>6, <1>7

\* No path is longer than there are nodes.
LEMMA PathsAreShort ==
  ASSUME NEW h, Sound(h), NEW P, NEW R, Read(h, P, R), NEW n \in Used(h)
  PROVE  Len(P[n]) \in 0 .. Cardinality(Nodes)
<1> DEFINE N == Cardinality(Nodes)
           l == Len(P[n])
           g == [j \in 0 .. l |-> CHOOSE m \in Nodes : Len(P[m]) = j]
<1>1. IsFiniteSet(Nodes) /\ N \in Nat /\ l \in Nat /\ P[n] \in Paths
  BY NodeAssumption, FS_CardinalityType, ReadStep
<1>2. ASSUME NEW j \in 0 .. l
      PROVE  \E m \in Nodes : Len(P[m]) = j
  <2> DEFINE q == SubSeq(P[n], 1, j)
  <2>1. q \in Paths /\ Len(q) = j /\ \A i \in 1 .. j : q[i] = P[n][i]
    <3> DEFINE p == P[n]
    <3>1. p \in Seq(Keys) /\ j \in 0 .. Len(p)
      BY <1>1, <1>2 DEF Paths
    <3> HIDE DEF p
    <3>2. \A i \in 1 .. j : p[i] \in Keys
      BY <3>1
    <3>3. /\ SubSeq(p, 1, j) \in Seq(Keys) /\ Len(SubSeq(p, 1, j)) = j
          /\ \A i \in 1 .. j : SubSeq(p, 1, j)[i] = p[i]
      BY <3>1, <3>2
    <3>4. QED
      BY <3>3 DEF p, Paths
  <2> HIDE DEF q
  <2>2. IsPrefix(q, P[n])
    BY <1>1, <2>1, PrefixIs
  <2>3. PICK m \in Used(h) : P[m] = q
    BY <2>1, <2>2, OnTheWay
  <2>4. QED
    BY <2>1, <2>3 DEF Used
<1>3. \A j \in 0 .. l : g[j] \in Nodes /\ Len(P[g[j]]) = j
  BY <1>2
<1>4. g \in Injection(0 .. l, Nodes)
  <2>1. g \in [0 .. l -> Nodes]
    BY <1>2
  <2> HIDE DEF g
  <2>2. \A i, j \in 0 .. l : g[i] = g[j] => i = j
    BY <1>3
  <2>3. QED
    BY <2>1, <2>2 DEF Injection, IsInjective
<1>5. Cardinality(0 .. l) <= N
  BY <1>1, <1>4, FS_Injection
<1>6. Cardinality(0 .. l) = l + 1
  <2>1. 0 \in Int /\ l \in Int /\ ~(0 > l)
    BY <1>1
  <2>2. Cardinality(0 .. l) = IF 0 > l THEN 0 ELSE l - 0 + 1
    BY <2>1, FS_Interval
  <2>3. QED
    BY <1>1, <2>1, <2>2
<1>7. QED
  BY <1>1, <1>5, <1>6

-----------------------------------------------------------------------------
(* The trees of data, by the paths and roots of the nodes.                   *)

Of(h, R, r) == {n \in Used(h) : R[n] = r}

\* d is the data of the tree r, and t all the trees.
IsData(d, h, P, R, r) ==
  /\ d = [p \in {P[n] : n \in Of(h, R, r)} |-> d[p]]
  /\ \A n \in Of(h, R, r) : d[P[n]] = h[n].val

IsTrees(t, h, P, R) ==
  /\ t = [r \in Roots(h) |-> [key |-> h[r].key, data |-> t[r].data]]
  /\ \A r \in Roots(h) : IsData(t[r].data, h, P, R, r)

LEMMA OneData ==
  ASSUME NEW h, NEW P, NEW R, NEW r, NEW d, NEW e,
         IsData(d, h, P, R, r), IsData(e, h, P, R, r)
  PROVE  d = e
<1> DEFINE D == {P[n] : n \in Of(h, R, r)}
<1>1. d = [p \in D |-> d[p]] /\ e = [p \in D |-> e[p]]
  BY DEF IsData
<1>2. \A p \in D : d[p] = e[p]
  BY DEF IsData
<1> HIDE DEF D
<1>3. [p \in D |-> d[p]] = [p \in D |-> e[p]]
  BY <1>2
<1>4. QED
  BY <1>1, <1>3

LEMMA OneTrees ==
  ASSUME NEW h, NEW P, NEW R, NEW t, NEW u, IsTrees(t, h, P, R), IsTrees(u, h, P, R)
  PROVE  t = u
<1>1. \A r \in Roots(h) : t[r].data = u[r].data
  BY OneData DEF IsTrees
<1>2. [r \in Roots(h) |-> [key |-> h[r].key, data |-> t[r].data]]
        = [r \in Roots(h) |-> [key |-> h[r].key, data |-> u[r].data]]
  BY <1>1
<1>3. QED
  BY <1>2 DEF IsTrees

\* The nodes of the tree r at a depth, and those one further down.
Level(h, P, R, r, i) == {<<P[n], n>> : n \in {m \in Of(h, R, r) : Len(P[m]) = i}}

Onward(h, A) ==
  UNION {{<<Append(x[1], h[m].key), m>> : m \in Kids(h, x[2])} : x \in A}

LEMMA FirstLevel ==
  ASSUME NEW h, Sound(h), NEW P, NEW R, Read(h, P, R), NEW r \in Roots(h)
  PROVE  Level(h, P, R, r, 0) = {<<<<>>, r>>}
<1>1. r \in Used(h) /\ P[r] = <<>> /\ R[r] = r /\ Len(P[r]) = 0
  BY ReadStep DEF Roots
<1>2. ASSUME NEW n \in Of(h, R, r), Len(P[n]) = 0
      PROVE  n = r
  <2>1. n \in Used(h) /\ R[n] = r /\ P[n] \in Paths
    BY ReadStep DEF Of
  <2>2. P[n] = <<>>
    BY <1>2, <2>1, EmptySeq DEF Paths
  <2>3. QED
    BY <1>1, <2>1, <2>2, OneAt
<1>3. r \in Of(h, R, r)
  BY <1>1 DEF Of
<1>4. {m \in Of(h, R, r) : Len(P[m]) = 0} = {r}
  BY <1>1, <1>2, <1>3
<1>5. QED
  BY <1>1, <1>4 DEF Level

LEMMA NextLevel ==
  ASSUME NEW h, Sound(h), NEW P, NEW R, Read(h, P, R), NEW r \in Roots(h), NEW i \in Nat
  PROVE  Onward(h, Level(h, P, R, r, i)) = Level(h, P, R, r, i + 1)
<1> DEFINE A == {m \in Of(h, R, r) : Len(P[m]) = i}
           B == {m \in Of(h, R, r) : Len(P[m]) = i + 1}
<1>1. Onward(h, Level(h, P, R, r, i)) =
        UNION {{<<Append(P[n], h[m].key), m>> : m \in Kids(h, n)} : n \in A}
  <2> DEFINE s(n) == <<P[n], n>>
             q(x) == {<<Append(x[1], h[m].key), m>> : m \in Kids(h, x[2])}
             g(n) == {<<Append(P[n], h[m].key), m>> : m \in Kids(h, n)}
  <2>1. Level(h, P, R, r, i) = {s(n) : n \in A}
    BY DEF Level
  <2>2. \A n \in A : q(s(n)) = g(n)
    OBVIOUS
  <2>3. Onward(h, Level(h, P, R, r, i)) = UNION {q(x) : x \in Level(h, P, R, r, i)}
    BY DEF Onward
  <2> HIDE DEF s, q, g, A
  <2>4. UNION {q(x) : x \in {s(n) : n \in A}} = UNION {g(n) : n \in A}
    BY <2>2
  <2>5. QED
    BY <2>1, <2>3, <2>4 DEF g
<1>2. ASSUME NEW n \in A, NEW m \in Kids(h, n)
      PROVE  m \in B /\ P[m] = Append(P[n], h[m].key)
  <2>1. n \in Used(h) /\ n \in Nodes /\ R[n] = r /\ Len(P[n]) = i
    BY DEF Of, Used
  <2>2. m \in Nodes /\ h[m].parent = n
    BY <2>1, KidsByParent
  <2>3. h[m].parent # Null
    BY <2>1, <2>2, NodeAssumption
  <2>4. m \in Used(h)
    BY <2>2, <2>3 DEF Sound, Clean, Freed, Blank, Used
  <2>5. P[m] = Append(P[n], h[m].key) /\ R[m] = R[n] /\ Len(P[m]) = Len(P[n]) + 1
    BY <2>2, <2>3, <2>4, ReadStep
  <2>6. QED
    BY <2>1, <2>4, <2>5 DEF Of
<1>3. ASSUME NEW m \in B
      PROVE  \E n \in A : m \in Kids(h, n)
  <2>1. m \in Used(h) /\ m \in Nodes /\ R[m] = r /\ Len(P[m]) = i + 1
    BY DEF Of, Used
  <2>2. h[m].parent # Null
    BY <2>1, ReadStep
  <2> DEFINE n == h[m].parent
  <2>3. n \in Used(h) /\ n \in Nodes /\ R[n] = r /\ Len(P[m]) = Len(P[n]) + 1 /\ Len(P[n]) \in Nat
    <3>1. n \in Used(h) /\ R[m] = R[n] /\ Len(P[m]) = Len(P[n]) + 1
      BY <2>1, <2>2, ReadStep
    <3>2. n \in Nodes /\ Len(P[n]) \in Nat
      BY <3>1, ReadStep
    <3>3. QED
      BY <2>1, <3>1, <3>2
  <2>4. m \in Kids(h, n)
    BY <2>1, <2>3, KidsByParent
  <2> HIDE DEF n
  <2>5. Len(P[n]) = i
    BY <2>1, <2>3
  <2>6. QED
    BY <2>3, <2>4, <2>5 DEF Of
<1> HIDE DEF A, B
<1>4. UNION {{<<Append(P[n], h[m].key), m>> : m \in Kids(h, n)} : n \in A}
        = {<<P[m], m>> : m \in B}
  <2>1. ASSUME NEW n \in A, NEW m \in Kids(h, n)
        PROVE  <<Append(P[n], h[m].key), m>> \in {<<P[x], x>> : x \in B}
    <3>1. m \in B /\ <<Append(P[n], h[m].key), m>> = <<P[m], m>>
      BY <1>2
    <3>2. QED
      BY <3>1
  <2>2. ASSUME NEW m \in B
        PROVE  \E n \in A : \E x \in Kids(h, n) : <<P[m], m>> = <<Append(P[n], h[x].key), x>>
    <3>1. PICK n \in A : m \in Kids(h, n)
      BY <1>3
    <3>2. <<P[m], m>> = <<Append(P[n], h[m].key), m>>
      BY <1>2, <3>1
    <3>3. QED
      BY <3>1, <3>2
  <2> DEFINE q(n, m) == <<Append(P[n], h[m].key), m>>
             s(m) == <<P[m], m>>
  <2>3. \A n \in A : \A m \in Kids(h, n) : q(n, m) \in {s(x) : x \in B}
    BY <2>1
  <2>4. \A m \in B : \E n \in A : \E x \in Kids(h, n) : s(m) = q(n, x)
    BY <2>2
  <2> HIDE DEF q, s
  <2>5. UNION {{q(n, m) : m \in Kids(h, n)} : n \in A} = {s(m) : m \in B}
    BY <2>3, <2>4
  <2>6. QED
    BY <2>5 DEF q, s
<1>5. QED
  BY <1>1, <1>4 DEF Level, B

\* Placed, level by level.
IsPlaced(s, h, r) ==
  s = [i \in 0 .. Cardinality(Nodes) |->
         IF i = 0 THEN {<<<<>>, r>>} ELSE Onward(h, s[i - 1])]

LEMMA PlacedIs ==
  ASSUME NEW h, Sound(h), NEW P, NEW R, Read(h, P, R), NEW r \in Roots(h)
  PROVE  Placed(h, r) = {<<P[n], n>> : n \in Of(h, R, r)}
<1> DEFINE N == Cardinality(Nodes)
           w == [i \in 0 .. N |-> Level(h, P, R, r, i)]
<1>1. N \in Nat
  BY NodeAssumption, FS_CardinalityType
<1>2. w[0] = {<<<<>>, r>>} /\ \A i \in 1 .. N : w[i] = Onward(h, w[i - 1])
  <2>1. w[0] = {<<<<>>, r>>}
    BY <1>1, FirstLevel
  <2>2. ASSUME NEW i \in 1 .. N
        PROVE  w[i] = Onward(h, w[i - 1])
    <3> DEFINE j == i - 1
    <3>1. j \in Nat /\ j \in 0 .. N /\ j + 1 = i /\ i \in 0 .. N
      BY <1>1
    <3>2. Onward(h, Level(h, P, R, r, j)) = Level(h, P, R, r, j + 1)
      <4> HIDE DEF j
      <4>1. QED
        BY <3>1, NextLevel
    <3>3. w[i] = Level(h, P, R, r, i) /\ w[j] = Level(h, P, R, r, j)
      BY <3>1
    <3>4. QED
      BY <3>1, <3>2, <3>3
  <2>3. QED
    BY <2>1, <2>2
<1>3. IsPlaced(w, h, r)
  <2>1. \A i \in 0 .. N : w[i] = IF i = 0 THEN {<<<<>>, r>>} ELSE Onward(h, w[i - 1])
    <3> HIDE DEF w
    <3>1. ASSUME NEW i \in 0 .. N
          PROVE  w[i] = IF i = 0 THEN {<<<<>>, r>>} ELSE Onward(h, w[i - 1])
      <4>1. i = 0 \/ (i # 0 /\ i \in 1 .. N)
        BY <1>1
      <4>2. QED
        BY <1>2, <4>1
    <3>2. QED
      BY <3>1
  <2>2. w = [i \in 0 .. N |-> w[i]]
    OBVIOUS
  <2> HIDE DEF w
  <2>3. [i \in 0 .. N |-> w[i]]
          = [i \in 0 .. N |-> IF i = 0 THEN {<<<<>>, r>>} ELSE Onward(h, w[i - 1])]
    BY <2>1
  <2>4. QED
    BY <2>2, <2>3 DEF IsPlaced
<1>4. ASSUME NEW s, IsPlaced(s, h, r)
      PROVE  \A i \in 0 .. N : s[i] = Level(h, P, R, r, i)
  <2> DEFINE K == {i \in Nat : i \in 0 .. N => s[i] = Level(h, P, R, r, i)}
  <2>1. \A i \in 0 .. N : s[i] = IF i = 0 THEN {<<<<>>, r>>} ELSE Onward(h, s[i - 1])
    BY <1>4 DEF IsPlaced
  <2>2. 0 \in K
    BY <1>1, <2>1, FirstLevel
  <2>3. ASSUME NEW i \in K
        PROVE  i + 1 \in K
    <3> DEFINE j == i + 1
    <3>1. j \in Nat /\ j # 0 /\ j - 1 = i /\ i \in Nat
      OBVIOUS
    <3>2. ASSUME j \in 0 .. N
          PROVE  s[j] = Level(h, P, R, r, j)
      <4>1. s[i] = Level(h, P, R, r, i)
        BY <1>1, <3>1, <3>2
      <4>2. s[j] = Onward(h, s[i])
        <5> HIDE DEF j
        <5>1. QED
          BY <2>1, <3>1, <3>2
      <4>3. QED
        BY <3>1, <4>1, <4>2, NextLevel
    <3>3. QED
      BY <3>1, <3>2
  <2>4. K = Nat
    <3>1. K \subseteq Nat
      OBVIOUS
    <3> HIDE DEF K
    <3>2. QED
      BY <2>2, <2>3, <3>1, NatSetInduction
  <2>5. QED
    BY <1>1, <2>4
<1> HIDE DEF w
<1> DEFINE c == CHOOSE s : IsPlaced(s, h, r)
<1>5. \A i \in 0 .. N : c[i] = Level(h, P, R, r, i)
  <2>1. IsPlaced(c, h, r)
    BY <1>3
  <2> HIDE DEF c
  <2>2. QED
    BY <1>4, <2>1
<1>6. Placed(h, r) = UNION {c[i] : i \in 0 .. N}
  BY DEF Placed, IsPlaced, Onward
<1> HIDE DEF c
<1>7. UNION {c[i] : i \in 0 .. N} = UNION {Level(h, P, R, r, i) : i \in 0 .. N}
  BY <1>5
<1>8. \A n \in Of(h, R, r) : Len(P[n]) \in 0 .. N
  BY PathsAreShort DEF Of
<1>9. UNION {Level(h, P, R, r, i) : i \in 0 .. N} = {<<P[n], n>> : n \in Of(h, R, r)}
  <2> DEFINE s(n) == <<P[n], n>>
             l(n) == Len(P[n])
  <2>1. \A i \in 0 .. N : Level(h, P, R, r, i) = {s(n) : n \in {m \in Of(h, R, r) : l(m) = i}}
    BY DEF Level
  <2>2. \A n \in Of(h, R, r) : l(n) \in 0 .. N
    BY <1>8
  <2> HIDE DEF s, l
  <2>3. UNION {Level(h, P, R, r, i) : i \in 0 .. N} = {s(n) : n \in Of(h, R, r)}
    BY <2>1, <2>2
  <2>4. QED
    BY <2>3 DEF s
<1>10. QED
  BY <1>6, <1>7, <1>9

LEMMA TreesAre ==
  ASSUME NEW h, Sound(h), NEW P, NEW R, Read(h, P, R)
  PROVE  IsTrees(TreesOf(h), h, P, R)
<1> DEFINE placed(r) == Placed(h, r)
           data(r) == [p \in {x[1] : x \in placed(r)} |->
                         h[(CHOOSE x \in placed(r) : x[1] = p)[2]].val]
           t == TreesOf(h)
<1>1. t = [r \in Roots(h) |-> [key |-> h[r].key, data |-> data(r)]]
  BY DEF TreesOf
<1>2. ASSUME NEW r \in Roots(h)
      PROVE  IsData(data(r), h, P, R, r)
  <2> DEFINE D == {P[n] : n \in Of(h, R, r)}
  <2>1. placed(r) = {<<P[n], n>> : n \in Of(h, R, r)}
    BY PlacedIs
  <2> HIDE DEF placed
  <2>2. {x[1] : x \in placed(r)} = D
    <3>1. ASSUME NEW x \in placed(r)
          PROVE  x[1] \in D
      <4>1. PICK n \in Of(h, R, r) : x = <<P[n], n>>
        BY <2>1
      <4>2. x[1] = P[n]
        BY <4>1
      <4>3. QED
        BY <4>2
    <3>2. ASSUME NEW n \in Of(h, R, r)
          PROVE  \E x \in placed(r) : P[n] = x[1]
      <4>1. <<P[n], n>> \in placed(r) /\ <<P[n], n>>[1] = P[n]
        BY <2>1
      <4>2. QED
        BY <4>1
    <3>3. QED
      BY <3>1, <3>2
  <2>3. ASSUME NEW n \in Of(h, R, r)
        PROVE  (CHOOSE x \in placed(r) : x[1] = P[n]) = <<P[n], n>>
    <3>1. <<P[n], n>> \in placed(r)
      BY <2>1
    <3>2. ASSUME NEW x \in placed(r), x[1] = P[n]
          PROVE  x = <<P[n], n>>
      <4>1. PICK m \in Of(h, R, r) : x = <<P[m], m>>
        BY <2>1
      <4>2. m = n
        BY <3>2, <4>1, OneAt DEF Of
      <4>3. QED
        BY <4>1, <4>2
    <3>3. QED
      BY <3>1, <3>2
  <2>4. ASSUME NEW n \in Of(h, R, r)
        PROVE  data(r)[P[n]] = h[n].val
    <3> DEFINE c(p) == CHOOSE x \in placed(r) : x[1] = p
               v(p) == h[c(p)[2]].val
    <3>1. P[n] \in D /\ c(P[n]) = <<P[n], n>>
      BY <2>3
    <3> HIDE DEF D
    <3>2. data(r) = [p \in {x[1] : x \in placed(r)} |-> v(p)]
      OBVIOUS
    <3> HIDE DEF data
    <3>3. data(r) = [p \in D |-> v(p)]
      <4> HIDE DEF v
      <4>1. QED
        BY <2>2, <3>2
    <3>4. data(r)[P[n]] = v(P[n])
      <4> HIDE DEF v, c
      <4>1. QED
        BY <3>1, <3>3
    <3>5. v(P[n]) = h[c(P[n])[2]].val
      OBVIOUS
    <3> HIDE DEF c, v
    <3>6. QED
      BY <3>1, <3>4, <3>5
  <2>5. data(r) = [p \in D |-> data(r)[p]]
    <3> DEFINE v(p) == h[(CHOOSE x \in placed(r) : x[1] = p)[2]].val
    <3> HIDE DEF D
    <3>1. data(r) = [p \in {x[1] : x \in placed(r)} |-> v(p)]
      OBVIOUS
    <3> HIDE DEF data, v
    <3>2. data(r) = [p \in D |-> v(p)]
      BY <2>2, <3>1
    <3>3. QED
      BY <3>2
  <2> HIDE DEF data
  <2>6. QED
    BY <2>4, <2>5 DEF IsData
<1> HIDE DEF data, t
<1>3. \A r \in Roots(h) : t[r].data = data(r)
  BY <1>1
<1>4. t = [r \in Roots(h) |-> [key |-> h[r].key, data |-> t[r].data]]
  BY <1>1, <1>3
<1>5. \A r \in Roots(h) : IsData(t[r].data, h, P, R, r)
  BY <1>2, <1>3
<1>6. IsTrees(t, h, P, R)
  BY <1>4, <1>5 DEF IsTrees
<1>7. QED
  BY <1>6 DEF t

LEMMA DataIs ==
  ASSUME NEW h, NEW P, NEW R, NEW t, IsTrees(t, h, P, R)
  PROVE  /\ DOMAIN t = Roots(h)
         /\ \A r \in Roots(h) :
              /\ t[r] = [key |-> h[r].key, data |-> t[r].data] /\ t[r].key = h[r].key
              /\ IsData(t[r].data, h, P, R, r)
              /\ DOMAIN t[r].data = {P[n] : n \in Of(h, R, r)}
<1>1. t = [r \in Roots(h) |-> [key |-> h[r].key, data |-> t[r].data]]
  BY DEF IsTrees
<1>2. DOMAIN t = Roots(h)
  BY <1>1
<1>3. ASSUME NEW r \in Roots(h)
      PROVE  /\ t[r] = [key |-> h[r].key, data |-> t[r].data]
             /\ IsData(t[r].data, h, P, R, r)
  BY <1>1 DEF IsTrees
<1>4. ASSUME NEW r \in Roots(h)
      PROVE  t[r].key = h[r].key
  <2>1. ASSUME NEW a, NEW b, NEW c, a = [key |-> b, data |-> c]
        PROVE  a.key = b
    BY <2>1
  <2> DEFINE d == t[r].data
  <2>2. t[r] = [key |-> h[r].key, data |-> d]
    BY <1>3
  <2> HIDE DEF d
  <2>3. QED
    BY <2>1, <2>2
<1>5. ASSUME NEW d, NEW r, IsData(d, h, P, R, r)
      PROVE  DOMAIN d = {P[n] : n \in Of(h, R, r)}
  <2> DEFINE D == {P[n] : n \in Of(h, R, r)}
  <2>1. d = [p \in D |-> d[p]]
    BY <1>5 DEF IsData
  <2> HIDE DEF D
  <2>2. DOMAIN d = D
    BY <2>1
  <2>3. QED
    BY <2>2 DEF D
<1>6. QED
  BY <1>2, <1>3, <1>4, <1>5

Held(k, d) == [key |-> k, data |-> d]

LEMMA DataOf ==
  ASSUME NEW h, NEW P, NEW R, NEW t, IsTrees(t, h, P, R), NEW r \in Roots(h)
  PROVE  /\ t[r] = Held(h[r].key, t[r].data)
         /\ IsData(t[r].data, h, P, R, r)
         /\ DOMAIN t[r].data = {P[n] : n \in Of(h, R, r)}
BY DataIs DEF Held

LEMMA KeyOf ==
  ASSUME NEW h, NEW P, NEW R, NEW t, IsTrees(t, h, P, R), NEW r \in Roots(h)
  PROVE  t[r].key = h[r].key
<1>1. ASSUME NEW a, NEW x, NEW d, a = Held(x, d)
      PROVE  a.key = x
  BY <1>1 DEF Held
<1>2. QED
  BY <1>1, DataOf

LEMMA MakeTrees ==
  ASSUME NEW h, NEW P, NEW R, NEW t, t = [r \in Roots(h) |-> t[r]],
         \A r \in Roots(h) :
           \E d : t[r] = [key |-> h[r].key, data |-> d] /\ IsData(d, h, P, R, r)
  PROVE  IsTrees(t, h, P, R)
<1> DEFINE f(r) == [key |-> h[r].key, data |-> t[r].data]
<1>1. ASSUME NEW r \in Roots(h)
      PROVE  /\ t[r] = f(r)
             /\ IsData(t[r].data, h, P, R, r)
  <2>1. PICK d : t[r] = [key |-> h[r].key, data |-> d] /\ IsData(d, h, P, R, r)
    OBVIOUS
  <2>2. t[r].data = d
    BY <2>1
  <2>3. QED
    BY <2>1, <2>2
<1>2. t = [r \in Roots(h) |-> f(r)]
  <2> HIDE DEF f
  <2>1. [r \in Roots(h) |-> t[r]] = [r \in Roots(h) |-> f(r)]
    BY <1>1
  <2>2. QED
    BY <2>1
<1>3. QED
  BY <1>1, <1>2 DEF IsTrees

\* A tree whose nodes stay where they are keeps its data.
LEMMA SameData ==
  ASSUME NEW h, NEW P, NEW R, NEW k, NEW P1, NEW R1, NEW r, NEW d, IsData(d, h, P, R, r),
         Of(k, R1, r) = Of(h, R, r),
         \A n \in Of(h, R, r) : P1[n] = P[n] /\ k[n].val = h[n].val
  PROVE  IsData(d, k, P1, R1, r)
<1> DEFINE D == {P[n] : n \in Of(h, R, r)}
           D1 == {P1[n] : n \in Of(k, R1, r)}
<1>1. D1 = D
  OBVIOUS
<1>2. d = [p \in D |-> d[p]]
  BY DEF IsData
<1> HIDE DEF D, D1
<1>3. d = [p \in D1 |-> d[p]]
  BY <1>1, <1>2
<1>4. QED
  BY <1>3 DEF IsData, D1

\* The nodes F are a tree of their own, which Q and d read from its root r.
Own(k, F, r, Q, d) ==
  /\ \A m \in F : k[m].used
  /\ r \in F /\ k[r].parent = Null
  /\ Q \in [F -> Paths] /\ Q[r] = <<>>
  /\ \A m \in F \ {r} : k[m].parent \in F /\ Q[m] = Append(Q[k[m].parent], k[m].key)
  /\ d = [p \in {Q[m] : m \in F} |-> d[p]]
  /\ \A m \in F : d[Q[m]] = k[m].val

\* The trees t with one more.
With(t, r, x) == [s \in DOMAIN t \cup {r} |-> IF s = r THEN x ELSE t[s]]

LEMMA OneMore ==
  ASSUME NEW h, Sound(h), NEW k, Sound(k), NEW F \in SUBSET Unused(h),
         \A m \in Nodes \ F : k[m] = h[m], NEW r, NEW Q, NEW d, Own(k, F, r, Q, d),
         NEW l, l = k[r].key, NEW t, t = TreesOf(h)
  PROVE  r \in Nodes /\ r \notin DOMAIN t /\ TreesOf(k) = With(t, r, Held(l, d))
<1>0. /\ r \in F /\ (\A m \in F : k[m].used) /\ k[r].parent = Null
      /\ Q \in [F -> Paths] /\ Q[r] = <<>>
      /\ \A m \in F \ {r} : k[m].parent \in F /\ Q[m] = Append(Q[k[m].parent], k[m].key)
      /\ d = [p \in {Q[m] : m \in F} |-> d[p]]
      /\ \A m \in F : d[Q[m]] = k[m].val
  BY DEF Own
<1>1. PICK P, R : Read(h, P, R)
  BY ReadExists
<1> DEFINE P1 == [m \in Nodes |-> IF m \in F THEN Q[m] ELSE P[m]]
           R1 == [m \in Nodes |-> IF m \in F THEN r ELSE R[m]]
           u == [s \in Roots(h) \cup {r} |-> IF s = r THEN Held(l, d) ELSE t[s]]
<1>2. /\ F \subseteq Nodes /\ r \in Nodes /\ r \notin Used(h) /\ Null \notin F
      /\ Used(h) \cap F = {} /\ Used(k) = Used(h) \cup F
  BY <1>0, NodeAssumption DEF Used, Unused
<1>3. /\ P1 \in [Nodes -> Paths] /\ R1 \in [Nodes -> Nodes]
      /\ \A m \in F : P1[m] = Q[m] /\ R1[m] = r
      /\ \A m \in Nodes \ F : P1[m] = P[m] /\ R1[m] = R[m]
  BY <1>0, <1>1, <1>2 DEF Read
<1> HIDE DEF P1, R1
<1>4. Read(k, P1, R1)
  <2>1. ASSUME NEW m \in Used(k)
        PROVE  /\ k[m].parent = Null => P1[m] = <<>> /\ R1[m] = m
               /\ k[m].parent # Null => /\ P1[m] = Append(P1[k[m].parent], k[m].key)
                                        /\ R1[m] = R1[k[m].parent]
    <3>1. CASE m \in F
      <4>1. CASE m = r
        BY <1>0, <1>3, <4>1
      <4>2. CASE m # r
        <5>1. k[m].parent \in F /\ k[m].parent # Null /\ Q[m] = Append(Q[k[m].parent], k[m].key)
          BY <1>0, <1>2, <3>1, <4>2
        <5>2. QED
          BY <1>3, <3>1, <5>1
      <4>3. QED
        BY <4>1, <4>2
    <3>2. CASE m \notin F
      <4>1. m \in Used(h) /\ m \in Nodes \ F /\ k[m] = h[m] /\ P1[m] = P[m] /\ R1[m] = R[m]
        BY <1>2, <1>3, <3>2 DEF Used
      <4>2. CASE h[m].parent = Null
        BY <1>1, <4>1, <4>2 DEF Read
      <4>3. CASE h[m].parent # Null
        <5>1. h[m].parent \in Used(h) /\ P[m] = Append(P[h[m].parent], h[m].key)
              /\ R[m] = R[h[m].parent]
          BY <1>1, <4>1, <4>3, ReadStep
        <5>2. h[m].parent \in Nodes \ F
          BY <1>2, <5>1 DEF Used
        <5>3. P1[h[m].parent] = P[h[m].parent] /\ R1[h[m].parent] = R[h[m].parent]
          BY <1>3, <5>2
        <5>4. QED
          BY <4>1, <4>3, <5>1, <5>3
      <4>4. QED
        BY <4>2, <4>3
    <3>3. QED
      BY <3>1, <3>2
  <2>2. QED
    BY <1>3, <2>1 DEF Read
<1>5. Roots(k) = Roots(h) \cup {r} /\ r \notin Roots(h)
  <2>1. \A m \in F \ {r} : k[m].parent # Null
    BY <1>0, <1>2
  <2>2. QED
    BY <1>0, <1>2, <2>1 DEF Roots, Used
<1>6. Of(k, R1, r) = F
  <2>1. ASSUME NEW m \in Used(h)
        PROVE  R1[m] # r
    BY <1>1, <1>2, <1>3, <1>5, RootOf DEF Used
  <2>2. QED
    BY <1>2, <1>3, <2>1 DEF Of
<1>7. ASSUME NEW s \in Roots(h)
      PROVE  /\ Of(k, R1, s) = Of(h, R, s)
             /\ \A m \in Of(h, R, s) : P1[m] = P[m] /\ k[m].val = h[m].val
  <2>1. s # r
    BY <1>5
  <2>2. \A m \in F : R1[m] # s
    BY <1>3, <2>1
  <2>3. \A m \in Used(h) : R1[m] = R[m] /\ P1[m] = P[m] /\ k[m] = h[m]
    BY <1>2, <1>3 DEF Used
  <2>4. QED
    BY <1>2, <2>2, <2>3 DEF Of
<1>8. IsTrees(t, h, P, R)
  BY <1>1, TreesAre
<1>9. IsData(d, k, P1, R1, r)
  <2> DEFINE D == {Q[m] : m \in F}
             D1 == {P1[m] : m \in F}
  <2>1. D = D1
    BY <1>3
  <2>2. d = [p \in D |-> d[p]]
    BY <1>0
  <2> HIDE DEF D, D1
  <2>3. d = [p \in D1 |-> d[p]]
    BY <2>1, <2>2
  <2>4. \A m \in F : d[P1[m]] = k[m].val
    BY <1>0, <1>3
  <2>5. QED
    BY <1>6, <2>3, <2>4 DEF IsData, D1
<1>10. IsTrees(u, k, P1, R1)
  <2>1. ASSUME NEW s \in Roots(k)
        PROVE  \E e : u[s] = [key |-> k[s].key, data |-> e] /\ IsData(e, k, P1, R1, s)
    <3>1. CASE s = r
      <4>1. u[s] = [key |-> k[s].key, data |-> d]
        BY <1>5, <3>1 DEF Held
      <4>2. QED
        BY <1>9, <3>1, <4>1
    <3>2. CASE s # r
      <4>1. s \in Roots(h) /\ u[s] = t[s]
        BY <1>5, <3>2
      <4>2. k[s].key = h[s].key
        BY <1>2, <4>1 DEF Roots, Used
      <4>3. t[s] = [key |-> h[s].key, data |-> t[s].data] /\ IsData(t[s].data, h, P, R, s)
        BY <1>8, <4>1, DataIs
      <4>4. IsData(t[s].data, k, P1, R1, s)
        BY <1>7, <4>1, <4>3, SameData
      <4> HIDE DEF u
      <4>5. u[s] = [key |-> k[s].key, data |-> t[s].data]
        BY <4>1, <4>2, <4>3
      <4>6. QED
        BY <4>4, <4>5
    <3>3. QED
      BY <3>1, <3>2
  <2>2. u = [s \in Roots(k) |-> u[s]]
    BY <1>5
  <2> HIDE DEF u
  <2>3. QED
    BY <2>1, <2>2, MakeTrees
<1> HIDE DEF u
<1>11. IsTrees(TreesOf(k), k, P1, R1)
  BY <1>4, TreesAre
<1>12. TreesOf(k) = u
  BY <1>10, <1>11, OneTrees
<1>13. QED
  <2>1. DOMAIN t = Roots(h)
    BY <1>8, DataIs
  <2>2. u = With(t, r, Held(l, d))
    BY <2>1 DEF u, With
  <2>3. QED
    BY <1>2, <1>5, <1>12, <2>1, <2>2

\* One of the trees gets other data.
LEMMA OneChanged ==
  ASSUME NEW h, Sound(h), NEW P, NEW R, Read(h, P, R),
         NEW k, Sound(k), NEW P1, NEW R1, Read(k, P1, R1),
         Roots(k) \subseteq Roots(h), \A s \in Roots(k) : k[s].key = h[s].key,
         NEW r \in Roots(k), NEW e, IsData(e, k, P1, R1, r),
         \A s \in Roots(k) \ {r} :
           /\ Of(k, R1, s) = Of(h, R, s)
           /\ \A m \in Of(h, R, s) : P1[m] = P[m] /\ k[m].val = h[m].val,
         NEW t, t = TreesOf(h)
  PROVE  TreesOf(k) = [s \in Roots(k) |-> IF s = r THEN [t[r] EXCEPT !.data = e] ELSE t[s]]
<1> DEFINE u == [s \in Roots(k) |-> IF s = r THEN [t[r] EXCEPT !.data = e] ELSE t[s]]
<1>1. IsTrees(t, h, P, R)
  BY TreesAre
<1>2. ASSUME NEW s \in Roots(k)
      PROVE  \E d : u[s] = [key |-> k[s].key, data |-> d] /\ IsData(d, k, P1, R1, s)
  <2> DEFINE d == t[s].data
  <2>1. s \in Roots(h) /\ t[s] = [key |-> k[s].key, data |-> d] /\ IsData(d, h, P, R, s)
    BY <1>1, DataIs
  <2> HIDE DEF d
  <2>2. CASE s = r
    <3>1. u[s] = [t[s] EXCEPT !.data = e]
      BY <2>2
    <3> HIDE DEF u
    <3>2. u[s] = [key |-> k[s].key, data |-> e]
      BY <2>1, <3>1
    <3>3. QED
      BY <2>2, <3>2
  <2>3. CASE s # r
    <3>1. u[s] = t[s]
      BY <2>3
    <3>2. IsData(d, k, P1, R1, s)
      BY <2>1, <2>3, SameData
    <3>3. QED
      BY <2>1, <3>1, <3>2
  <2>4. QED
    BY <2>2, <2>3
<1>3. u = [s \in Roots(k) |-> u[s]]
  OBVIOUS
<1> HIDE DEF u
<1>4. IsTrees(u, k, P1, R1)
  BY <1>2, <1>3, MakeTrees
<1>5. IsTrees(TreesOf(k), k, P1, R1)
  BY TreesAre
<1>6. TreesOf(k) = u
  BY <1>4, <1>5, OneTrees
<1>7. QED
  BY <1>6 DEF u

\* The same, written as the change of a function of records.
LEMMA DataPut ==
  ASSUME NEW h, Sound(h), NEW t, t = TreesOf(h), NEW r \in Roots(h), NEW e
  PROVE  [s \in Roots(h) |-> IF s = r THEN [t[r] EXCEPT !.data = e] ELSE t[s]]
           = [t EXCEPT ![r].data = e]
<1>1. t = [s \in Roots(h) |-> t[s]]
  <2> DEFINE f(s) == [key |-> h[s].key,
                      data |-> LET placed == Placed(h, s)
                               IN  [p \in {x[1] : x \in placed} |->
                                      h[(CHOOSE x \in placed : x[1] = p)[2]].val]]
  <2>1. t = [s \in Roots(h) |-> f(s)]
    BY DEF TreesOf
  <2> HIDE DEF f
  <2>2. QED
    BY <2>1
<1>2. QED
  BY <1>1

LEMMA ReadKept ==
  ASSUME NEW h, Sound(h), NEW P, NEW R, Read(h, P, R), NEW n \in Used(h),
         NEW k, Removed(h, n, k)
  PROVE  Read(k, P, R) /\ Used(k) = Used(h) \ Tree(h, n)
<1>1. Used(k) = Used(h) \ Tree(h, n)
  BY TreeByParent DEF Removed, Used
<1>2. \A m \in Used(k) : m \in Used(h) /\ k[m].parent = h[m].parent /\ k[m].key = h[m].key
  BY <1>1 DEF Removed, Used
<1>3. QED
  BY <1>1, <1>2 DEF Read

LEMMA RootRemoved ==
  ASSUME NEW h, Sound(h), NEW n \in Roots(h), NEW k, Sound(k), Removed(h, n, k),
         NEW t, t = TreesOf(h)
  PROVE  TreesOf(k) = Restrict(t, DOMAIN t \ {n})
<1>1. PICK P, R : Read(h, P, R)
  BY ReadExists
<1> DEFINE u == Restrict(t, DOMAIN t \ {n})
<1>2. n \in Used(h) /\ P[n] = <<>> /\ R[n] = n /\ n \in Nodes
  BY <1>1, ReadStep DEF Roots
<1>3. Read(k, P, R) /\ Used(k) = Used(h) \ Tree(h, n)
  BY <1>1, <1>2, ReadKept
<1>4. Tree(h, n) = Of(h, R, n)
  <2>1. \A m \in Used(h) : IsPrefix(P[n], P[m])
    BY <1>1, <1>2, ReadStep, EmptyPrefix
  <2>2. QED
    BY <1>1, <1>2, <2>1, TreeByPath DEF Of
<1>5. IsTrees(t, h, P, R) /\ DOMAIN t = Roots(h)
  BY <1>1, TreesAre, DataIs
<1>6. \A m \in Used(k) : /\ m \in Used(h) /\ m \notin Tree(h, n) /\ k[m].parent = h[m].parent
                         /\ k[m].key = h[m].key /\ k[m].val = h[m].val
  BY <1>3 DEF Removed, Used
<1>7. Roots(k) = Roots(h) \ {n}
  <2>1. \A m \in Roots(h) \ {n} : m \in Used(h) /\ m \notin Tree(h, n)
    <3>1. \A m \in Roots(h) : m \in Used(h) /\ R[m] = m
      BY <1>1, ReadStep DEF Roots
    <3>2. QED
      BY <1>4, <3>1 DEF Of
  <2>2. n \in Tree(h, n)
    BY <1>2, TreeByParent
  <2>3. QED
    BY <1>3, <1>6, <2>1, <2>2 DEF Roots
<1>8. u = [s \in Roots(k) |-> t[s]]
  BY <1>5, <1>7 DEF Restrict
<1> HIDE DEF u
<1>9. ASSUME NEW s \in Roots(k)
      PROVE  \E d : u[s] = [key |-> k[s].key, data |-> d] /\ IsData(d, k, P, R, s)
  <2> DEFINE d == t[s].data
  <2>1. s \in Roots(h) /\ s # n /\ s \in Used(k)
    BY <1>7 DEF Roots
  <2>2. t[s] = Held(h[s].key, d) /\ IsData(d, h, P, R, s)
    BY <1>5, <2>1, DataOf
  <2> HIDE DEF d
  <2>3. Of(k, R, s) = Of(h, R, s) /\ \A m \in Of(h, R, s) : k[m].val = h[m].val
    BY <1>3, <1>4, <1>6, <2>1 DEF Of
  <2>4. IsData(d, k, P, R, s)
    BY <2>2, <2>3, SameData
  <2>5. u[s] = [key |-> k[s].key, data |-> d]
    BY <1>6, <1>8, <2>1, <2>2 DEF Held
  <2>6. QED
    BY <2>4, <2>5
<1>10. IsTrees(u, k, P, R)
  <2>1. u = [s \in Roots(k) |-> u[s]]
    BY <1>8
  <2>2. QED
    BY <1>9, <2>1, MakeTrees
<1>11. TreesOf(k) = u
  BY <1>3, <1>10, TreesAre, OneTrees
<1>12. QED
  BY <1>11 DEF u

\* The data d but for what is at the path p and below it.
Pruning(d, p) == Restrict(d, {q \in DOMAIN d : ~IsPrefix(p, q)})

LEMMA PartRemoved ==
  ASSUME NEW h, Sound(h), NEW P, NEW R, Read(h, P, R),
         NEW n \in Used(h), h[n].parent # Null, NEW k, Sound(k), Removed(h, n, k),
         NEW t, t = TreesOf(h), NEW d, d = t[R[n]].data
  PROVE  TreesOf(k) = [t EXCEPT ![R[n]].data = Pruning(d, P[n])]
<1> DEFINE r == R[n]
           D == {q \in DOMAIN d : ~IsPrefix(P[n], q)}
           e == Restrict(d, D)
<1>1. Read(k, P, R) /\ Used(k) = Used(h) \ Tree(h, n)
  BY ReadKept
<1>2. Tree(h, n) = {m \in Used(h) : R[m] = R[n] /\ IsPrefix(P[n], P[m])}
  BY TreeByPath
<1>3. r \in Roots(h)
  BY RootOf
<1>4. \A m \in Used(k) : /\ m \in Used(h) /\ m \notin Tree(h, n) /\ k[m].parent = h[m].parent
                         /\ k[m].key = h[m].key /\ k[m].val = h[m].val
  BY <1>1 DEF Removed, Used
<1>5. Roots(k) = Roots(h)
  <2>1. ASSUME NEW m \in Roots(h)
        PROVE  m \notin Tree(h, n)
    <3>1. m \in Nodes /\ m # n /\ h[m].parent = Null /\ Tree(h, n) \subseteq Used(h) /\ Null \notin Used(h)
      BY TreeByParent, NodeAssumption DEF Roots, Used
    <3>2. QED
      BY <3>1, TreeByParent
  <2>2. QED
    BY <1>1, <1>4, <2>1 DEF Roots
<1>6. IsTrees(t, h, P, R) /\ IsData(d, h, P, R, r) /\ DOMAIN d = {P[m] : m \in Of(h, R, r)}
  <2>1. IsTrees(t, h, P, R)
    BY TreesAre
  <2>2. IsData(t[r].data, h, P, R, r) /\ DOMAIN t[r].data = {P[m] : m \in Of(h, R, r)}
    BY <1>3, <2>1, DataOf
  <2>3. d = t[r].data
    OBVIOUS
  <2>4. QED
    BY <2>1, <2>2, <2>3
<1>7. Of(k, R, r) = {m \in Of(h, R, r) : ~IsPrefix(P[n], P[m])}
  BY <1>1, <1>2 DEF Of
<1>8. D = {P[m] : m \in Of(k, R, r)}
  BY <1>6, <1>7
<1>9. IsData(e, k, P, R, r)
  <2>1. \A m \in Of(h, R, r) : d[P[m]] = h[m].val
    BY <1>6 DEF IsData
  <2>2. \A m \in Of(k, R, r) : P[m] \in D /\ m \in Of(h, R, r) /\ k[m].val = h[m].val
    BY <1>4, <1>7, <1>8 DEF Of
  <2>3. e = [q \in D |-> d[q]]
    BY DEF Restrict
  <2> HIDE DEF e, D
  <2>4. \A m \in Of(k, R, r) : e[P[m]] = k[m].val
    BY <2>1, <2>2, <2>3
  <2>5. e = [q \in D |-> e[q]]
    BY <2>3
  <2>6. QED
    BY <1>8, <2>4, <2>5 DEF IsData
<1>10. \A s \in Roots(k) \ {r} :
         /\ Of(k, R, s) = Of(h, R, s)
         /\ \A m \in Of(h, R, s) : P[m] = P[m] /\ k[m].val = h[m].val
  BY <1>1, <1>2, <1>4 DEF Of
<1>11. \A s \in Roots(k) : k[s].key = h[s].key
  BY <1>4 DEF Roots
<1> HIDE DEF e, D, r
<1>12. TreesOf(k) = [s \in Roots(k) |-> IF s = r THEN [t[r] EXCEPT !.data = e] ELSE t[s]]
  BY <1>1, <1>3, <1>5, <1>9, <1>10, <1>11, OneChanged
<1>13. TreesOf(k) = [t EXCEPT ![r].data = e]
  <2>1. TreesOf(k) = [s \in Roots(h) |-> IF s = r THEN [t[r] EXCEPT !.data = e] ELSE t[s]]
    BY <1>5, <1>12
  <2>2. [s \in Roots(h) |-> IF s = r THEN [t[r] EXCEPT !.data = e] ELSE t[s]]
          = [t EXCEPT ![r].data = e]
    BY <1>3, DataPut
  <2>3. QED
    BY <2>1, <2>2, Zenon
<1>14. e = Pruning(d, P[n])
  BY DEF e, D, Pruning
<1>15. QED
  BY <1>13, <1>14 DEF r

\* The data d with the data c put at the path a, whatever was there.
Graft(d, a, c) ==
  LET under == {a \o q : q \in DOMAIN c}
  IN  [q \in {x \in DOMAIN d : ~IsPrefix(a, x)} \cup under |->
         IF q \in under THEN c[SubSeq(q, Len(a) + 1, Len(q))] ELSE d[q]]

\* The data b when the node at p gets a child.
Put(b, p) == [b EXCEPT ![p] = "object"]

\* The paths and roots when the root n became a child: its tree is moved to a
\* in the tree r.
Moved(h, P, R, n, a, r, P1, R1) ==
  /\ P1 \in [Nodes -> Paths] /\ R1 \in [Nodes -> Nodes]
  /\ \A m \in Nodes : /\ R[m] = n => P1[m] = a \o P[m] /\ R1[m] = r
                      /\ R[m] # n => P1[m] = P[m] /\ R1[m] = R[m]

LEMMA MovedExists ==
  ASSUME NEW h, Sound(h), NEW P, NEW R, Read(h, P, R), NEW n, NEW a \in Paths, NEW r \in Nodes
  PROVE  \E P1, R1 : Moved(h, P, R, n, a, r, P1, R1)
<1> DEFINE P1 == [m \in Nodes |-> IF R[m] = n THEN a \o P[m] ELSE P[m]]
           R1 == [m \in Nodes |-> IF R[m] = n THEN r ELSE R[m]]
<1>1. \A m \in Nodes : P[m] \in Paths /\ R[m] \in Nodes
  BY DEF Read
<1>2. \A m \in Nodes : a \o P[m] \in Paths
  BY <1>1, ConcatIs
<1>3. P1 \in [Nodes -> Paths] /\ R1 \in [Nodes -> Nodes]
  BY <1>1, <1>2
<1>4. Moved(h, P, R, n, a, r, P1, R1)
  BY <1>3 DEF Moved
<1>5. QED
  BY <1>4

\* How the nodes and the paths lie when n is to become a child of p.
Joining(h, P, R, p, n, F, k, a) ==
  /\ Sound(h) /\ Read(h, P, R) /\ Sound(k)
  /\ p \in Used(h) /\ n \in Roots(h) /\ h[n].key # NoKey /\ p \notin Tree(h, n)
  /\ a = Append(P[p], h[n].key)
  /\ F = {m \in Used(h) : R[m] = R[p] /\ IsPrefix(a, P[m])}
  /\ Joins(h, p, n, F, k)

LEMMA JoiningIs ==
  ASSUME NEW h, NEW P, NEW R, NEW p, NEW n, NEW F, NEW k, NEW a, Joining(h, P, R, p, n, F, k, a)
  PROVE  /\ a \in Paths /\ P[p] \in Paths /\ h[n].key \in Keys /\ n \in Nodes /\ p \in Nodes
         /\ n \in Used(h) /\ P[n] = <<>> /\ R[n] = n /\ h[n].parent = Null
         /\ R[p] # n /\ R[p] \in Roots(h) /\ n # p
         /\ p \notin F /\ n \notin F /\ F \cap Roots(h) = {}
         /\ Used(k) = Used(h) \ F
         /\ \A m \in Used(h) : R[m] = n => m \notin F
         /\ Roots(k) = Roots(h) \ {n}
<1> USE DEF Joining
<1>1. n \in Nodes /\ p \in Nodes /\ n \in Used(h) /\ P[n] = <<>> /\ R[n] = n
      /\ P[p] \in Paths /\ h[n].parent = Null /\ Len(P[p]) \in Nat
  BY ReadStep DEF Used, Roots
<1>2. h[n].key \in Keys
  BY <1>1 DEF Sound, Heaps, NodeType
<1>3. a \in Paths /\ a # <<>> /\ Len(a) = Len(P[p]) + 1
  <2> DEFINE q == P[p]
             l == h[n].key
  <2>1. q \in Paths /\ l \in Keys /\ a = Append(q, l)
    BY <1>1, <1>2
  <2> HIDE DEF q, l
  <2>2. a \in Paths /\ a # <<>> /\ Len(a) = Len(q) + 1
    BY <2>1, AppendIs
  <2>3. QED
    BY <2>2 DEF q
<1>4. R[p] # n /\ n # p
  <2>1. Tree(h, n) = {m \in Used(h) : R[m] = n /\ IsPrefix(<<>>, P[m])}
    BY <1>1, TreeByPath
  <2>2. IsPrefix(<<>>, P[p])
    BY <1>1, EmptyPrefix
  <2>3. R[p] # n
    BY <2>1, <2>2
  <2>4. QED
    BY <1>1, <2>3
<1>5. R[p] \in Roots(h)
  BY RootOf
<1>6. p \notin F
  <2>1. ~IsPrefix(a, P[p])
    <3>1. ~(Len(a) <= Len(P[p]))
      BY <1>1, <1>3
    <3>2. QED
      BY <1>1, <1>3, <3>1, PrefixIs
  <2>2. QED
    BY <2>1
<1>7. \A m \in Roots(h) : ~IsPrefix(a, P[m])
  <2>1. \A m \in Roots(h) : P[m] = <<>>
    BY ReadStep DEF Roots
  <2>2. ~IsPrefix(a, <<>>)
    BY <1>3, EmptyPrefix
  <2>3. QED
    BY <2>1, <2>2
<1>8. F \cap Roots(h) = {} /\ n \notin F
  BY <1>7
<1>9. \A m \in Used(h) : R[m] = n => m \notin F
  BY <1>4
<1>10. Used(k) = Used(h) \ F
  BY DEF Joins, Used
<1>11. Roots(k) = Roots(h) \ {n}
  <2>1. p # Null
    BY <1>1, NodeAssumption
  <2>2. \A m \in Used(k) : k[m].parent = IF m = n THEN p ELSE h[m].parent
    BY <1>10 DEF Joins, Used
  <2>3. QED
    BY <1>8, <1>10, <2>1, <2>2 DEF Roots
<1>12. QED
  BY <1>1, <1>2, <1>3, <1>4, <1>5, <1>6, <1>8, <1>9, <1>10, <1>11

LEMMA ReadMoved ==
  ASSUME NEW h, NEW P, NEW R, NEW p, NEW n, NEW F, NEW k, NEW a, Joining(h, P, R, p, n, F, k, a),
         NEW P1, NEW R1, Moved(h, P, R, n, a, R[p], P1, R1)
  PROVE  Read(k, P1, R1)
<1>1. /\ Sound(h) /\ Read(h, P, R) /\ p \in Used(h) /\ n \in Used(h) /\ a \in Paths
      /\ P[p] \in Paths /\ n \in Nodes /\ p \in Nodes /\ p # Null
      /\ P[n] = <<>> /\ R[n] = n /\ R[p] # n /\ Used(k) = Used(h) \ F
      /\ a = Append(P[p], h[n].key)
  <2>1. /\ p \in Used(h) /\ Sound(h) /\ Read(h, P, R) /\ a = Append(P[p], h[n].key)
    BY DEF Joining
  <2>2. /\ n \in Used(h) /\ a \in Paths /\ P[p] \in Paths /\ n \in Nodes /\ p \in Nodes
        /\ P[n] = <<>> /\ R[n] = n /\ R[p] # n /\ Used(k) = Used(h) \ F
    BY JoiningIs
  <2>3. p # Null
    BY <2>2, NodeAssumption
  <2>4. QED
    BY <2>1, <2>2, <2>3
<1>2. \A m \in Used(k) : /\ m \in Nodes /\ m \in Used(h)
                         /\ k[m].parent = IF m = n THEN p ELSE h[m].parent
                         /\ k[m].key = h[m].key
  BY <1>1 DEF Joining, Joins, Used
<1>3. ASSUME NEW m \in Used(k)
      PROVE  /\ k[m].parent = Null => P1[m] = <<>> /\ R1[m] = m
             /\ k[m].parent # Null => /\ P1[m] = Append(P1[k[m].parent], k[m].key)
                                      /\ R1[m] = R1[k[m].parent]
  <2>1. CASE m = n
    <3>1. k[m].parent = p /\ k[m].key = h[n].key
      BY <1>2, <2>1
    <3>2. P1[m] = a \o <<>> /\ R1[m] = R[p]
      BY <1>1, <2>1 DEF Moved
    <3>3. P1[p] = P[p] /\ R1[p] = R[p]
      BY <1>1 DEF Moved
    <3>4. a \o <<>> = a
      BY <1>1, ConcatIs
    <3>5. QED
      BY <1>1, <3>1, <3>2, <3>3, <3>4
  <2>2. CASE m # n /\ h[m].parent = Null
    <3>1. P[m] = <<>> /\ R[m] = m /\ m \in Nodes
      BY <1>1, <1>2, <2>2, ReadStep
    <3>2. P1[m] = <<>> /\ R1[m] = m
      BY <2>2, <3>1 DEF Moved
    <3>3. QED
      BY <1>2, <2>2, <3>2
  <2>3. CASE m # n /\ h[m].parent # Null
    <3> DEFINE x == h[m].parent
               l == h[m].key
    <3>1. /\ x \in Used(h) /\ l \in Keys /\ P[x] \in Paths
          /\ P[m] = Append(P[x], l) /\ R[m] = R[x]
      BY <1>1, <1>2, <2>3, ReadStep
    <3>2. k[m].parent = x /\ k[m].key = l /\ x # Null /\ m \in Nodes /\ x \in Nodes
      BY <1>2, <2>3, <3>1 DEF Used
    <3> HIDE DEF x, l
    <3>3. CASE R[m] = n
      <4>1. P1[m] = a \o Append(P[x], l) /\ P1[x] = a \o P[x] /\ R1[m] = R1[x]
        BY <3>1, <3>2, <3>3 DEF Moved
      <4>2. a \o Append(P[x], l) = Append(a \o P[x], l)
        <5> DEFINE y == P[x]
        <5>1. a \in Paths /\ y \in Paths /\ l \in Keys
          BY <1>1, <3>1
        <5> HIDE DEF y
        <5>2. a \o Append(y, l) = Append(a \o y, l)
          BY <5>1, ConcatIs
        <5>3. QED
          BY <5>2 DEF y
      <4>3. QED
        BY <3>2, <4>1, <4>2
    <3>4. CASE R[m] # n
      <4>1. P1[m] = P[m] /\ P1[x] = P[x] /\ R1[m] = R[m] /\ R1[x] = R[x]
        BY <3>1, <3>2, <3>4 DEF Moved
      <4>2. QED
        BY <3>1, <3>2, <4>1
    <3>5. QED
      BY <3>3, <3>4
  <2>4. QED
    BY <2>1, <2>2, <2>3
<1>4. QED
  BY <1>3 DEF Read, Moved

LEMMA DataMoved ==
  ASSUME NEW h, NEW P, NEW R, NEW p, NEW n, NEW F, NEW k, NEW a, Joining(h, P, R, p, n, F, k, a),
         NEW P1, NEW R1, Moved(h, P, R, n, a, R[p], P1, R1),
         NEW b, IsData(b, h, P, R, R[p]), NEW c, IsData(c, h, P, R, n),
         NEW d, d = Put(b, P[p])
  PROVE  IsData(Graft(d, a, c), k, P1, R1, R[p])
<1> DEFINE r == R[p]
           N == Of(h, R, n)
           B == Of(h, R, r)
           U == {a \o q : q \in DOMAIN c}
           D == {x \in DOMAIN d : ~IsPrefix(a, x)}
           e == Graft(d, a, c)
<1>1. /\ Sound(h) /\ Read(h, P, R) /\ p \in Used(h) /\ n \in Used(h) /\ a \in Paths
      /\ P[p] \in Paths /\ n \in Nodes /\ p \in Nodes /\ n # p
      /\ R[n] = n /\ r # n /\ Used(k) = Used(h) \ F /\ p \in B
      /\ F = {m \in Used(h) : R[m] = r /\ IsPrefix(a, P[m])}
  <2>1. /\ Sound(h) /\ Read(h, P, R) /\ p \in Used(h)
        /\ F = {m \in Used(h) : R[m] = r /\ IsPrefix(a, P[m])}
    BY DEF Joining
  <2>2. /\ n \in Used(h) /\ a \in Paths /\ P[p] \in Paths /\ n \in Nodes /\ p \in Nodes
        /\ n # p /\ R[n] = n /\ R[p] # n /\ Used(k) = Used(h) \ F
    BY JoiningIs
  <2>3. QED
    BY <2>1, <2>2 DEF Of
<1>2. \A m \in Used(h) : m \in Nodes /\ P[m] \in Paths
  BY <1>1, ReadStep
<1>3. N \subseteq Used(h) /\ B \subseteq Used(h) /\ B \cap N = {}
  BY <1>1 DEF Of
<1>4. Of(k, R1, r) = {m \in B : ~IsPrefix(a, P[m])} \cup N
  BY <1>1, <1>2 DEF Of, Moved
<1>5. /\ DOMAIN c = {P[m] : m \in N} /\ \A m \in N : c[P[m]] = h[m].val
      /\ DOMAIN b = {P[m] : m \in B} /\ \A m \in B : b[P[m]] = h[m].val
      /\ b = [q \in DOMAIN b |-> b[q]]
  <2> DEFINE X == {P[m] : m \in N}
             Y == {P[m] : m \in B}
  <2>1. c = [q \in X |-> c[q]] /\ b = [q \in Y |-> b[q]]
    BY DEF IsData
  <2>2. (\A m \in N : c[P[m]] = h[m].val) /\ \A m \in B : b[P[m]] = h[m].val
    BY DEF IsData
  <2> HIDE DEF X, Y
  <2>3. DOMAIN c = X /\ DOMAIN b = Y
    BY <2>1
  <2>4. QED
    BY <2>1, <2>2, <2>3 DEF X, Y
<1>6. DOMAIN d = DOMAIN b /\ \A m \in B : d[P[m]] = IF m = p THEN "object" ELSE h[m].val
  <2>1. \A m \in B : P[m] \in DOMAIN b
    BY <1>5
  <2>2. \A m \in B : P[m] = P[p] => m = p
    BY <1>1, <1>3, OneAt DEF Of
  <2>3. QED
    BY <1>1, <1>5, <2>1, <2>2 DEF Put
<1>7. ASSUME NEW m \in N
      PROVE  a \o P[m] \in U /\ SubSeq(a \o P[m], Len(a) + 1, Len(a \o P[m])) = P[m]
  <2> DEFINE y == P[m]
  <2>1. y \in Paths /\ y \in DOMAIN c
    BY <1>2, <1>3, <1>5
  <2> HIDE DEF y
  <2>2. a \o y \in U /\ SubSeq(a \o y, Len(a) + 1, Len(a \o y)) = y
    BY <1>1, <2>1, RestIs
  <2>3. QED
    BY <2>2 DEF y
<1>8. U = {a \o P[m] : m \in N}
  <2> DEFINE g(q) == a \o q
  <2>1. DOMAIN c = {P[m] : m \in N}
    BY <1>5
  <2> HIDE DEF g, N
  <2>2. {g(q) : q \in DOMAIN c} = {g(P[m]) : m \in N}
    BY <2>1
  <2>3. QED
    BY <2>2 DEF g
<1>9. D = {P[m] : m \in {x \in B : ~IsPrefix(a, P[x])}}
  BY <1>5, <1>6
<1>10. ASSUME NEW m \in B, ~IsPrefix(a, P[m])
       PROVE  P[m] \notin U
  <2>1. \A x \in N : IsPrefix(a, a \o P[x])
    BY <1>1, <1>2, <1>3, ConcatIs
  <2>2. QED
    BY <1>8, <1>10, <2>1
<1>11. e = [q \in D \cup U |-> IF q \in U THEN c[SubSeq(q, Len(a) + 1, Len(q))] ELSE d[q]]
  BY DEF Graft
<1> HIDE DEF e, D, U, N, B, r
<1>12. ASSUME NEW m \in Of(k, R1, r)
       PROVE  P1[m] \in D \cup U /\ e[P1[m]] = k[m].val
  <2>1. CASE m \in N
    <3>1. R[m] = n /\ m \in Nodes /\ m \in Used(h)
      BY <1>2, <1>3, <2>1 DEF N, Of
    <3>2. P1[m] = a \o P[m]
      BY <3>1 DEF Moved
    <3>3. a \o P[m] \in U /\ SubSeq(a \o P[m], Len(a) + 1, Len(a \o P[m])) = P[m]
      BY <1>7, <2>1
    <3>4. e[a \o P[m]] = c[P[m]]
      BY <1>11, <3>3
    <3>5. m # p /\ k[m].val = h[m].val
      <4>1. m # p
        BY <1>1, <1>3, <2>1
      <4>2. m \in Nodes \ F
        BY <1>1, <3>1 DEF r
      <4>3. QED
        BY <4>1, <4>2 DEF Joining, Joins
    <3>6. QED
      BY <1>5, <2>1, <3>2, <3>3, <3>4, <3>5
  <2>2. CASE m \notin N
    <3>1. m \in B /\ ~IsPrefix(a, P[m])
      BY <1>4, <2>2
    <3>2. m \in Used(h) /\ m \in Nodes /\ R[m] = r
      BY <1>2, <1>3, <3>1 DEF B, Of
    <3>3. P1[m] = P[m]
      BY <1>1, <3>2 DEF Moved
    <3>4. P[m] \in D /\ P[m] \notin U
      BY <1>9, <1>10, <3>1
    <3>5. e[P[m]] = d[P[m]]
      BY <1>11, <3>4
    <3>6. k[m].val = IF m = p THEN "object" ELSE h[m].val
      <4>1. m \in Nodes \ F
        BY <1>1, <3>1, <3>2
      <4>2. QED
        BY <4>1 DEF Joining, Joins
    <3>7. QED
      BY <1>6, <3>1, <3>3, <3>4, <3>5, <3>6
  <2>3. QED
    BY <2>1, <2>2
<1>13. D \cup U = {P1[m] : m \in Of(k, R1, r)}
  <2>1. ASSUME NEW q \in U
        PROVE  \E m \in Of(k, R1, r) : q = P1[m]
    <3>1. PICK m \in N : q = a \o P[m]
      BY <1>8
    <3>2. R[m] = n /\ m \in Nodes
      BY <1>2, <1>3, <3>1 DEF N, Of
    <3>3. P1[m] = a \o P[m]
      BY <3>2 DEF Moved
    <3>4. QED
      BY <1>4, <3>1, <3>3
  <2>2. ASSUME NEW q \in D
        PROVE  \E m \in Of(k, R1, r) : q = P1[m]
    <3>1. PICK m \in B : q = P[m] /\ ~IsPrefix(a, P[m])
      BY <1>9
    <3>2. R[m] = r /\ m \in Nodes
      BY <1>2, <1>3, <3>1 DEF B, Of
    <3>3. P1[m] = P[m]
      BY <1>1, <3>2 DEF Moved
    <3>4. QED
      BY <1>4, <3>1, <3>3
  <2>3. QED
    BY <1>12, <2>1, <2>2
<1>14. e = [q \in D \cup U |-> e[q]]
  BY <1>11
<1>15. IsData(e, k, P1, R1, r)
  BY <1>12, <1>13, <1>14 DEF IsData
<1>16. QED
  BY <1>15 DEF e, r

\* The trees t, of which n goes into r, whose data becomes e.
Added(t, n, r, e) ==
  [s \in DOMAIN t \ {n} |-> IF s = r THEN [t[r] EXCEPT !.data = e] ELSE t[s]]

LEMMA Grafted ==
  ASSUME NEW h, NEW P, NEW R, NEW p, NEW n, NEW F, NEW k, NEW a, Joining(h, P, R, p, n, F, k, a),
         NEW t, t = TreesOf(h), NEW b, b = t[R[p]].data, NEW d, d = Put(b, P[p]),
         NEW c, c = t[n].data
  PROVE  R[p] \in Roots(h) /\ R[p] # n /\ TreesOf(k) = Added(t, n, R[p], Graft(d, a, c))
<1> DEFINE r == R[p]
           e == Graft(d, a, c)
<1>1. /\ Sound(h) /\ Read(h, P, R) /\ Sound(k) /\ n \in Roots(h) /\ r \in Roots(h) /\ r # n
      /\ a \in Paths /\ r \in Nodes /\ Roots(k) = Roots(h) \ {n} /\ Used(k) = Used(h) \ F
      /\ F = {m \in Used(h) : R[m] = r /\ IsPrefix(a, P[m])}
  <2>1. /\ Sound(h) /\ Read(h, P, R) /\ Sound(k) /\ n \in Roots(h)
        /\ F = {m \in Used(h) : R[m] = r /\ IsPrefix(a, P[m])}
    BY DEF Joining
  <2>2. /\ r \in Roots(h) /\ r # n /\ a \in Paths /\ Roots(k) = Roots(h) \ {n}
        /\ Used(k) = Used(h) \ F
    BY JoiningIs
  <2>3. r \in Nodes
    BY <2>2 DEF Roots, Used
  <2>4. QED
    BY <2>1, <2>2, <2>3
<1>2. PICK P1, R1 : Moved(h, P, R, n, a, r, P1, R1)
  BY <1>1, MovedExists
<1>3. Read(k, P1, R1)
  BY <1>2, ReadMoved
<1>4. IsTrees(t, h, P, R)
  BY <1>1, TreesAre
<1>5. IsData(b, h, P, R, r) /\ IsData(c, h, P, R, n)
  BY <1>1, <1>4, DataOf
<1>6. IsData(e, k, P1, R1, r)
  BY <1>2, <1>5, DataMoved
<1>7. ASSUME NEW s \in Roots(k) \ {r}
      PROVE  /\ Of(k, R1, s) = Of(h, R, s)
             /\ \A m \in Of(h, R, s) : P1[m] = P[m] /\ k[m].val = h[m].val
  <2>1. s # n /\ s # r
    BY <1>1
  <2>2. \A m \in Used(h) : m \in Nodes /\ (R1[m] = s <=> R[m] = s)
    BY <1>2, <2>1 DEF Moved, Used
  <2>3. Of(k, R1, s) = Of(h, R, s)
    BY <1>1, <2>1, <2>2 DEF Of
  <2>4. ASSUME NEW m \in Of(h, R, s)
        PROVE  P1[m] = P[m] /\ k[m].val = h[m].val
    <3>1. m \in Nodes \ F /\ m # p /\ R[m] # n
      BY <1>1, <2>1 DEF Of, Used
    <3>2. QED
      BY <1>2, <3>1 DEF Moved, Joining, Joins
  <2>5. QED
    BY <2>3, <2>4
<1>8. \A s \in Roots(k) : k[s].key = h[s].key
  BY <1>1 DEF Joining, Joins, Roots, Used
<1>9. r \in Roots(k) /\ Roots(k) \subseteq Roots(h)
  BY <1>1
<1>10. TreesOf(k) = [s \in Roots(k) |-> IF s = r THEN [t[r] EXCEPT !.data = e] ELSE t[s]]
  <2>1. ASSUME NEW x, x = r, NEW g, g = e
        PROVE  TreesOf(k) = [s \in Roots(k) |-> IF s = x THEN [t[x] EXCEPT !.data = g] ELSE t[s]]
    <3>1. IsData(g, k, P1, R1, x) /\ x \in Roots(k)
      BY <1>6, <1>9, <2>1
    <3>2. \A s \in Roots(k) \ {x} :
            /\ Of(k, R1, s) = Of(h, R, s)
            /\ \A m \in Of(h, R, s) : P1[m] = P[m] /\ k[m].val = h[m].val
      BY <1>7, <2>1
    <3>3. Sound(h) /\ Read(h, P, R) /\ Sound(k)
      BY <1>1
    <3> HIDE DEF e, r
    <3>4. QED
      BY <1>3, <1>8, <1>9, <3>1, <3>2, <3>3, OneChanged
  <2> HIDE DEF e, r
  <2>2. QED
    BY <2>1
<1>11. DOMAIN t = Roots(h)
  BY <1>4, DataIs
<1>12. TreesOf(k) = Added(t, n, r, e)
  <2> HIDE DEF e, r
  <2>1. QED
    BY <1>1, <1>10, <1>11 DEF Added
<1>13. QED
  BY <1>1, <1>12 DEF e, r

\* k is h with another key, or another value, of n.
Rekeyed(h, k, n, l) ==
  \A m \in Nodes :
    /\ k[m].used = h[m].used /\ k[m].parent = h[m].parent /\ k[m].val = h[m].val
    /\ k[m].key = IF m = n THEN l ELSE h[m].key

Revalued(h, k, n, v) ==
  \A m \in Nodes :
    /\ k[m].used = h[m].used /\ k[m].parent = h[m].parent /\ k[m].key = h[m].key
    /\ k[m].val = IF m = n THEN v ELSE h[m].val

LEMMA KeyChanged ==
  ASSUME NEW h, Sound(h), NEW n \in Roots(h), NEW l \in Keys,
         NEW k, Sound(k), Rekeyed(h, k, n, l), NEW t, t = TreesOf(h)
  PROVE  n \in DOMAIN t /\ TreesOf(k) = [t EXCEPT ![n].key = l]
<1>1. PICK P, R : Read(h, P, R)
  BY ReadExists
<1> DEFINE u == [t EXCEPT ![n].key = l]
<1>2. IsTrees(t, h, P, R) /\ DOMAIN t = Roots(h) /\ n \in Nodes
  <2>1. IsTrees(t, h, P, R)
    BY <1>1, TreesAre
  <2>2. DOMAIN t = Roots(h)
    BY <2>1, DataIs
  <2>3. QED
    BY <2>1, <2>2 DEF Roots, Used
<1>3. \A m \in Nodes : /\ k[m].used = h[m].used /\ k[m].parent = h[m].parent
                       /\ k[m].val = h[m].val /\ k[m].key = IF m = n THEN l ELSE h[m].key
  BY DEF Rekeyed
<1>4. Used(k) = Used(h) /\ Roots(k) = Roots(h) /\ \A r : Of(k, R, r) = Of(h, R, r)
  BY <1>3 DEF Used, Roots, Of
<1>5. Read(k, P, R)
  <2>1. ASSUME NEW m \in Used(k)
        PROVE  /\ m \in Used(h) /\ k[m].parent = h[m].parent
               /\ k[m].parent # Null => k[m].key = h[m].key
    <3>1. m \in Nodes /\ m \in Used(h) /\ h[n].parent = Null
      BY <1>4 DEF Used, Roots
    <3>2. QED
      BY <1>3, <3>1
  <2>2. ASSUME NEW m \in Used(k)
        PROVE  /\ k[m].parent = Null => P[m] = <<>> /\ R[m] = m
               /\ k[m].parent # Null => /\ P[m] = Append(P[k[m].parent], k[m].key)
                                        /\ R[m] = R[k[m].parent]
    <3>1. m \in Used(h) /\ k[m].parent = h[m].parent
          /\ (k[m].parent # Null => k[m].key = h[m].key)
      BY <2>1
    <3>2. QED
      BY <1>1, <3>1 DEF Read
  <2>3. P \in [Nodes -> Paths] /\ R \in [Nodes -> Nodes]
    BY <1>1 DEF Read
  <2>4. QED
    BY <2>2, <2>3 DEF Read
<1>6. ASSUME NEW s \in Roots(k)
      PROVE  \E d : u[s] = [key |-> k[s].key, data |-> d] /\ IsData(d, k, P, R, s)
  <2> DEFINE d == t[s].data
  <2>1. s \in Roots(h) /\ s \in Nodes
    BY <1>4 DEF Roots, Used
  <2>2. t[s] = Held(h[s].key, d) /\ IsData(d, h, P, R, s)
    BY <1>2, <2>1, DataOf
  <2>3. u[s] = IF s = n THEN [t[s] EXCEPT !.key = l] ELSE t[s]
    BY <1>2, <2>1
  <2> HIDE DEF d, u
  <2>4. u[s] = [key |-> k[s].key, data |-> d]
    <3>1. ASSUME NEW a, NEW x, a = [key |-> x, data |-> d]
          PROVE  [a EXCEPT !.key = l] = [key |-> l, data |-> d]
      BY <3>1
    <3>2. t[s] = [key |-> h[s].key, data |-> d]
      BY <2>2 DEF Held
    <3>3. k[s].key = IF s = n THEN l ELSE h[s].key
      BY <1>3, <2>1
    <3>4. [t[s] EXCEPT !.key = l] = [key |-> l, data |-> d]
      BY <3>1, <3>2
    <3>5. CASE s = n
      <4>1. k[s].key = l /\ u[s] = [t[s] EXCEPT !.key = l]
        BY <2>3, <3>3, <3>5
      <4>2. QED
        BY <3>4, <4>1
    <3>6. CASE s # n
      <4>1. k[s].key = h[s].key /\ u[s] = t[s]
        BY <2>3, <3>3, <3>6
      <4>2. QED
        BY <3>2, <4>1
    <3>7. QED
      BY <3>5, <3>6
  <2>5. \A m \in Of(h, R, s) : k[m].val = h[m].val
    BY <1>3 DEF Of, Used
  <2>6. IsData(d, k, P, R, s)
    BY <1>4, <2>2, <2>5, SameData
  <2>7. QED
    BY <2>4, <2>6
<1>7. u = [s \in Roots(k) |-> u[s]]
  BY <1>2, <1>4
<1> HIDE DEF u
<1>8. IsTrees(u, k, P, R)
  BY <1>6, <1>7, MakeTrees
<1>9. TreesOf(k) = u
  BY <1>5, <1>8, TreesAre, OneTrees
<1>10. QED
  BY <1>2, <1>9 DEF u

LEMMA ValueChanged ==
  ASSUME NEW h, Sound(h), NEW P, NEW R, Read(h, P, R), NEW n \in Used(h), NEW v,
         NEW k, Sound(k), Revalued(h, k, n, v),
         NEW t, t = TreesOf(h), NEW d, d = t[R[n]].data
  PROVE  /\ R[n] \in Roots(h) /\ P[n] \in DOMAIN d /\ d[P[n]] = h[n].val
         /\ TreesOf(k) = [t EXCEPT ![R[n]].data = [d EXCEPT ![P[n]] = v]]
<1> DEFINE r == R[n]
           e == [d EXCEPT ![P[n]] = v]
<1>1. IsTrees(t, h, P, R) /\ n \in Nodes /\ r \in Roots(h)
  BY TreesAre, RootOf DEF Used
<1>2. IsData(d, h, P, R, r) /\ DOMAIN d = {P[m] : m \in Of(h, R, r)}
  BY <1>1, DataOf
<1>3. n \in Of(h, R, r) /\ \A m \in Of(h, R, r) : P[m] \in DOMAIN d /\ d[P[m]] = h[m].val
  BY <1>2 DEF Of, IsData
<1>4. \A m \in Nodes : /\ k[m].used = h[m].used /\ k[m].parent = h[m].parent
                       /\ k[m].key = h[m].key /\ k[m].val = IF m = n THEN v ELSE h[m].val
  BY DEF Revalued
<1>5. Used(k) = Used(h) /\ Roots(k) = Roots(h) /\ \A s : Of(k, R, s) = Of(h, R, s)
  BY <1>4 DEF Used, Roots, Of
<1>6. Read(k, P, R)
  <2>1. \A m \in Used(k) : /\ m \in Used(h) /\ k[m].parent = h[m].parent
                           /\ k[m].key = h[m].key
    BY <1>4, <1>5 DEF Used
  <2>2. QED
    BY <1>5, <2>1 DEF Read
<1>7. IsData(e, k, P, R, r)
  <2>1. \A m \in Of(h, R, r) : P[m] = P[n] => m = n
    BY <1>3, OneAt DEF Of
  <2>2. \A m \in Of(h, R, r) : e[P[m]] = IF m = n THEN v ELSE h[m].val
    BY <1>3, <2>1
  <2>3. e = [q \in DOMAIN d |-> e[q]]
    OBVIOUS
  <2> HIDE DEF e
  <2>4. \A m \in Of(h, R, r) : e[P[m]] = k[m].val
    BY <1>4, <2>2 DEF Of, Used
  <2>5. QED
    BY <1>2, <1>5, <2>3, <2>4 DEF IsData
<1>8. \A s \in Roots(k) \ {r} :
        /\ Of(k, R, s) = Of(h, R, s)
        /\ \A m \in Of(h, R, s) : P[m] = P[m] /\ k[m].val = h[m].val
  BY <1>4, <1>5 DEF Of, Used
<1>9. \A s \in Roots(k) : k[s].key = h[s].key
  BY <1>4 DEF Roots, Used
<1> HIDE DEF e, r
<1>10. TreesOf(k) = [s \in Roots(k) |-> IF s = r THEN [t[r] EXCEPT !.data = e] ELSE t[s]]
  <2>1. Roots(k) \subseteq Roots(h) /\ r \in Roots(k)
    BY <1>1, <1>5
  <2>2. QED
    BY <1>6, <1>7, <1>8, <1>9, <2>1, OneChanged
<1>11. TreesOf(k) = [t EXCEPT ![r].data = e]
  <2>1. TreesOf(k) = [s \in Roots(h) |-> IF s = r THEN [t[r] EXCEPT !.data = e] ELSE t[s]]
    BY <1>5, <1>10
  <2>2. [s \in Roots(h) |-> IF s = r THEN [t[r] EXCEPT !.data = e] ELSE t[s]]
          = [t EXCEPT ![r].data = e]
    BY <1>1, DataPut
  <2>3. QED
    BY <2>1, <2>2, Zenon
<1>12. QED
  BY <1>1, <1>3, <1>11 DEF e, r

\* The data of a node alone.
Lone(c) == [q \in {<<>>} |-> c]

LEMMA SingleMade ==
  ASSUME NEW h, Sound(h), NEW k, Sound(k), NEW n, NEW c, Single(h, k, n, c),
         NEW t, t = TreesOf(h)
  PROVE  /\ n \in Nodes /\ n \notin DOMAIN t
         /\ TreesOf(k) = With(t, n, Held(NoKey, Lone(c)))
<1> DEFINE F == {n}
           Q == [m \in F |-> <<>>]
           d == [q \in {<<>>} |-> c]
<1>1. /\ F \in SUBSET Unused(h) /\ n \in F /\ n \in Nodes
      /\ \A m \in Nodes \ F : k[m] = h[m]
      /\ \A m \in F : k[m].used
      /\ k[n].parent = Null /\ k[n].key = NoKey /\ k[n].val = c
  BY DEF Single, Unused
<1>2. Q \in [F -> Paths] /\ Q[n] = <<>>
  BY EmptySeq DEF Paths
<1>3. {Q[m] : m \in F} = {<<>>}
  OBVIOUS
<1>4. d = [q \in {Q[m] : m \in F} |-> d[q]] /\ \A m \in F : d[Q[m]] = k[m].val
  <2>1. d = [q \in {<<>>} |-> d[q]] /\ d[<<>>] = c
    OBVIOUS
  <2>2. \A m \in F : Q[m] = <<>> /\ k[m].val = c
    BY <1>1
  <2> HIDE DEF d, Q, F
  <2>3. QED
    BY <1>3, <2>1, <2>2
<1>5. \A m \in F \ {n} : k[m].parent \in F /\ Q[m] = Append(Q[k[m].parent], k[m].key)
  OBVIOUS
<1> HIDE DEF F, Q, d
<1>6. Own(k, F, n, Q, d)
  BY <1>1, <1>2, <1>4, <1>5 DEF Own
<1>7. n \notin DOMAIN t /\ TreesOf(k) = With(t, n, Held(NoKey, d))
  <2>1. ASSUME NEW e, e = d, NEW G, G = F, NEW g, g = Q
        PROVE  n \notin DOMAIN t /\ TreesOf(k) = With(t, n, Held(NoKey, e))
    <3>1. Own(k, G, n, g, e)
      BY <1>6, <2>1
    <3>2. /\ G \in SUBSET Unused(h) /\ \A m \in Nodes \ G : k[m] = h[m]
          /\ NoKey = k[n].key
      BY <1>1, <2>1
    <3>3. QED
      BY <3>1, <3>2, OneMore
  <2>2. QED
    BY <2>1
<1>8. QED
  BY <1>1, <1>7 DEF d, Lone

\* The beginnings of a path.
Beginning(z, j) == SubSeq(z, 1, j)

LEMMA BeginningIs ==
  ASSUME NEW z \in Paths, NEW j \in 0 .. Len(z), NEW p, p = Beginning(z, j)
  PROVE  /\ p \in Paths /\ Len(p) = j /\ Len(z) \in Nat
         /\ \A i \in 1 .. j : p[i] = z[i]
         /\ j = 0 => p = <<>>
         /\ p = z <=> j = Len(z)
<1>1. z \in Seq(Keys) /\ Len(z) \in Nat /\ j \in Nat /\ \A i \in 1 .. j : z[i] \in Keys
  BY DEF Paths
<1>2. p \in Seq(Keys) /\ Len(p) = j /\ \A i \in 1 .. j : p[i] = z[i]
  <2>1. p = [i \in 1 .. j |-> z[i]]
    BY <1>1 DEF Beginning
  <2>2. QED
    BY <1>1, <2>1
<1>3. j = 0 => p = <<>>
  BY <1>2, EmptySeq
<1>4. j = Len(z) => p = z
  BY <1>1, <1>2, SeqEqual
<1>5. QED
  BY <1>1, <1>2, <1>3, <1>4 DEF Paths

LEMMA BeginningStep ==
  ASSUME NEW z \in Paths, NEW j \in 1 .. Len(z)
  PROVE  /\ z[j] \in Keys
         /\ Beginning(z, j) = Append(Beginning(z, j - 1), z[j])
<1> DEFINE i == j - 1
           p == Beginning(z, i)
           q == Beginning(z, j)
           k == z[j]
           a == Append(p, k)
<1>1. i \in 0 .. Len(z) /\ j \in 0 .. Len(z) /\ j = i + 1 /\ z[j] \in Keys /\ i \in Nat
  BY DEF Paths
<1> HIDE DEF i, k
<1>2. /\ p \in Paths /\ Len(p) = i /\ \A x \in 1 .. i : p[x] = z[x]
      /\ q \in Paths /\ Len(q) = j /\ \A x \in 1 .. j : q[x] = z[x]
  <2>1. p = Beginning(z, i) /\ q = Beginning(z, j)
    OBVIOUS
  <2> HIDE DEF p, q
  <2>2. p \in Paths /\ Len(p) = i /\ \A x \in 1 .. i : p[x] = z[x]
    BY <1>1, <2>1, BeginningIs
  <2>3. q \in Paths /\ Len(q) = j /\ \A x \in 1 .. j : q[x] = z[x]
    BY <1>1, <2>1, BeginningIs
  <2>4. QED
    BY <2>2, <2>3
<1> HIDE DEF p, q
<1>3. /\ a \in Seq(Keys) /\ Len(a) = i + 1 /\ (\A x \in 1 .. i : a[x] = p[x]) /\ a[i + 1] = k
  BY <1>1, <1>2, AppendProperties DEF Paths, k
<1> HIDE DEF a
<1>4. \A x \in 1 .. j : a[x] = q[x]
  BY <1>1, <1>2, <1>3 DEF k
<1>5. a = q
  BY <1>1, <1>2, <1>3, <1>4, SeqEqual DEF Paths
<1>6. QED
  BY <1>1, <1>5 DEF a, p, q, k, i

\* The data of a chain of nodes.
Line(z, c) ==
  [q \in {Beginning(z, n) : n \in 0 .. Len(z)} |-> IF q = z THEN c ELSE "object"]

LEMMA ChainMade ==
  ASSUME NEW h, Sound(h), NEW k, Sound(k), NEW s \in Chains, NEW f, NEW c, Chained(h, k, s, f, c),
         NEW t, t = TreesOf(h)
  PROVE  \E r \in Nodes : /\ r \notin DOMAIN t
                          /\ TreesOf(k) = With(t, r, Held(Head(s), Line(Tail(s), c)))
<1> DEFINE z == Tail(s)
           d == Line(z, c)
<1>0. z = Tail(s) /\ d = Line(z, c)
  OBVIOUS
<1> HIDE DEF z, d
<1> DEFINE F == {f[i] : i \in 1 .. Len(s)}
           at(m) == CHOOSE i \in 1 .. Len(s) : f[i] = m
           p(j) == Beginning(z, j)
           Q == [m \in F |-> p(at(m) - 1)]
           r == f[1]
<1>1. /\ s \in Seq(Keys) /\ s # <<>> /\ Len(s) \in Nat /\ Len(s) >= 1 /\ 1 \in 1 .. Len(s)
      /\ z \in Paths /\ Len(z) = Len(s) - 1 /\ Len(z) \in Nat
      /\ \A j \in 1 .. Len(z) : z[j] = s[j + 1]
      /\ Head(s) = s[1]
  <2>1. s \in Seq(Keys) /\ s # <<>>
    BY NodeAssumption
  <2>2. /\ Len(s) \in Nat /\ Len(s) >= 1 /\ z \in Seq(Keys) /\ Len(z) = Len(s) - 1
        /\ \A j \in 1 .. Len(z) : z[j] = s[j + 1]
    BY <1>0, <2>1, EmptySeq, HeadTailProperties
  <2>3. QED
    BY <2>1, <2>2 DEF Paths
<1>2. /\ \A i \in 1 .. Len(s) : f[i] \in Unused(h)
      /\ \A i, j \in 1 .. Len(s) : f[i] = f[j] => i = j
      /\ \A m \in Nodes \ F : k[m] = h[m]
      /\ \A i \in 1 .. Len(s) :
           /\ k[f[i]].used /\ k[f[i]].key = s[i]
           /\ k[f[i]].val = IF i = Len(s) THEN c ELSE "object"
           /\ k[f[i]].parent = IF i = 1 THEN Null ELSE f[i - 1]
  BY DEF Chained
<1>3. \A i \in 1 .. Len(s) : at(f[i]) = i
  BY <1>2
<1>4. \A i \in 1 .. Len(s) : f[i] \in F /\ Q[f[i]] = p(i - 1)
  BY <1>3
<1>5. \A i \in 1 .. Len(s) : i - 1 \in 0 .. Len(z)
  BY <1>1
<1>6. \A j \in 0 .. Len(z) : p(j) \in Paths /\ (j = 0 => p(j) = <<>>) /\ (p(j) = z <=> j = Len(z))
  BY <1>1, BeginningIs
<1>7. \A j \in 1 .. Len(z) : p(j) = Append(p(j - 1), z[j])
  BY <1>1, BeginningStep
<1>8. Q \in [F -> Paths]
  <2>1. \A m \in F : p(at(m) - 1) \in Paths
    <3> HIDE DEF p, at
    <3>1. QED
      BY <1>3, <1>5, <1>6
  <2> HIDE DEF p, at
  <2>2. QED
    BY <2>1
<1> HIDE DEF Q, at
<1>9. {Q[m] : m \in F} = {p(n) : n \in 0 .. Len(z)}
  <2> HIDE DEF p
  <2>1. ASSUME NEW n \in 0 .. Len(z)
        PROVE  \E m \in F : p(n) = Q[m]
    <3> DEFINE i == n + 1
    <3>1. i \in 1 .. Len(s) /\ i - 1 = n
      BY <1>1
    <3> HIDE DEF i
    <3>2. f[i] \in F /\ Q[f[i]] = p(n)
      BY <1>4, <3>1
    <3>3. QED
      BY <3>2
  <2>2. \A m \in F : Q[m] \in {p(n) : n \in 0 .. Len(z)}
    BY <1>4, <1>5
  <2> HIDE DEF F
  <2>3. QED
    BY <2>1, <2>2
<1>10. d = [q \in {Q[m] : m \in F} |-> d[q]]
  <2> DEFINE D == {p(n) : n \in 0 .. Len(z)}
  <2>1. d = [q \in D |-> d[q]]
    BY <1>0 DEF Line
  <2>2. {Q[m] : m \in F} = D
    BY <1>9
  <2> HIDE DEF D
  <2>3. QED
    BY <2>1, <2>2
<1>11. \A n \in 0 .. Len(z) : d[p(n)] = IF n = Len(z) THEN c ELSE "object"
  <2> DEFINE D == {p(n) : n \in 0 .. Len(z)}
  <2>1. d = [q \in D |-> IF q = z THEN c ELSE "object"]
    BY <1>0 DEF Line
  <2>2. \A n \in 0 .. Len(z) : p(n) \in D
    OBVIOUS
  <2> HIDE DEF D, p
  <2>3. QED
    BY <1>6, <2>1, <2>2
<1> HIDE DEF p
<1>12. r \in F /\ k[r].parent = Null /\ k[r].key = Head(s) /\ Q[r] = <<>>
  <2>1. Q[f[1]] = p(1 - 1) /\ 1 - 1 = 0
    BY <1>1, <1>4
  <2>2. p(0) = <<>>
    <3>1. 0 \in 0 .. Len(z)
      BY <1>1
    <3>2. QED
      BY <1>6, <3>1
  <2>3. Q[r] = <<>>
    BY <2>1, <2>2
  <2>4. r \in F
    BY <1>1
  <2>5. k[r].parent = Null /\ k[r].key = s[1]
    BY <1>1, <1>2
  <2>6. QED
    BY <1>1, <2>3, <2>4, <2>5
<1>13. ASSUME NEW i \in 1 .. Len(s), i # 1
       PROVE  /\ k[f[i]].parent \in F
              /\ Q[f[i]] = Append(Q[k[f[i]].parent], k[f[i]].key)
  <2> DEFINE j == i - 1
  <2>1. j \in 1 .. Len(s) /\ j \in 1 .. Len(z) /\ j + 1 = i
    BY <1>1, <1>13
  <2>2. k[f[i]].parent = f[j] /\ k[f[i]].key = s[i]
    BY <1>2, <1>13
  <2>3. Q[f[i]] = p(j)
    BY <1>4
  <2> HIDE DEF j
  <2>4. f[j] \in F /\ Q[f[j]] = p(j - 1)
    BY <1>4, <2>1
  <2>5. p(j) = Append(p(j - 1), z[j]) /\ z[j] = s[i]
    BY <1>1, <1>7, <2>1
  <2>6. QED
    BY <2>2, <2>3, <2>4, <2>5
<1>14. \A m \in F \ {r} : k[m].parent \in F /\ Q[m] = Append(Q[k[m].parent], k[m].key)
  BY <1>13
<1>15. \A m \in F : d[Q[m]] = k[m].val
  <2>1. ASSUME NEW i \in 1 .. Len(s)
        PROVE  d[Q[f[i]]] = k[f[i]].val
    <3> DEFINE j == i - 1
    <3>1. j \in 0 .. Len(z) /\ (j = Len(z) <=> i = Len(s)) /\ Q[f[i]] = p(j)
      BY <1>1, <1>4
    <3> HIDE DEF j
    <3>2. d[p(j)] = IF i = Len(s) THEN c ELSE "object"
      BY <1>11, <3>1
    <3>3. QED
      BY <1>2, <3>1, <3>2
  <2>2. QED
    BY <2>1
<1>16. F \in SUBSET Unused(h) /\ \A m \in F : k[m].used
  BY <1>2
<1> HIDE DEF F, r
<1>17. Own(k, F, r, Q, d)
  BY <1>8, <1>10, <1>12, <1>14, <1>15, <1>16 DEF Own
<1>18. r \in Nodes /\ r \notin DOMAIN t /\ TreesOf(k) = With(t, r, Held(Head(s), d))
  <2>1. ASSUME NEW x, x = r, NEW G, G = F, NEW g, g = Q
        PROVE  x \in Nodes /\ x \notin DOMAIN t /\ TreesOf(k) = With(t, x, Held(Head(s), d))
    <3>1. Own(k, G, x, g, d)
      BY <1>17, <2>1
    <3>2. /\ G \in SUBSET Unused(h) /\ \A m \in Nodes \ G : k[m] = h[m]
          /\ Head(s) = k[x].key
      BY <1>2, <1>12, <1>16, <2>1
    <3>3. QED
      BY <3>1, <3>2, OneMore
  <2>2. QED
    BY <2>1
<1>19. QED
  BY <1>0, <1>18

\* What of a path comes after the beginning p.
Rest(p, q) == SubSeq(q, Len(p) + 1, Len(q))

LEMMA RestOf ==
  ASSUME NEW p \in Paths, NEW q \in Paths, IsPrefix(p, q)
  PROVE  /\ Rest(p, q) \in Paths /\ p \o Rest(p, q) = q
         /\ p = q => Rest(p, q) = <<>>
         /\ \A k \in Keys : Rest(p, Append(q, k)) = Append(Rest(p, q), k)
<1>1. PICK u \in Paths : q = p \o u
  BY PrefixRest
<1>2. Rest(p, q) = u
  BY <1>1, RestIs DEF Rest
<1>3. ASSUME p = q
      PROVE  u = <<>>
  <2>1. <<>> \in Paths /\ p \o <<>> = p
    BY EmptySeq, ConcatIs DEF Paths
  <2>2. p \o u = p \o <<>>
    BY <1>1, <1>3, <2>1
  <2>3. QED
    BY <2>1, <2>2, ConcatIs
<1>4. ASSUME NEW k \in Keys
      PROVE  Rest(p, Append(q, k)) = Append(u, k)
  <2> DEFINE v == Append(u, k)
  <2>1. v \in Paths /\ p \o v = Append(p \o u, k)
    <3>1. v \in Paths
      BY AppendIs
    <3>2. \A a \in Keys : p \o Append(u, a) = Append(p \o u, a)
      BY ConcatIs
    <3>3. QED
      BY <3>1, <3>2
  <2> HIDE DEF v
  <2>2. Append(q, k) = p \o v
    BY <1>1, <2>1
  <2>3. Rest(p, p \o v) = v
    BY <2>1, RestIs DEF Rest
  <2>4. QED
    BY <2>2, <2>3 DEF v
<1>5. QED
  BY <1>1, <1>2, <1>3, <1>4

\* The data at and below the path p.
Cutting(b, p) ==
  [q \in {Rest(p, x) : x \in {y \in DOMAIN b : IsPrefix(p, y)}} |-> b[p \o q]]

LEMMA CloneMade ==
  ASSUME NEW h, Sound(h), NEW P, NEW R, Read(h, P, R), NEW n \in Used(h),
         NEW f \in Injection(Tree(h, n), Unused(h)), NEW k, Sound(k), k = Copy(h, n, f),
         NEW t, t = TreesOf(h), NEW b, b = t[R[n]].data, NEW d, d = Cutting(b, P[n])
  PROVE  \E r \in Nodes :
           /\ r \notin DOMAIN t
           /\ TreesOf(k) = With(t, r, Held(IF P[n] = <<>> THEN t[R[n]].key ELSE Last(P[n]), d))
<1> DEFINE T == Tree(h, n)
           F == {f[m] : m \in T}
           from(x) == CHOOSE m \in T : f[m] = x
           Q == [x \in F |-> Rest(P[n], P[from(x)])]
           r == f[n]
           l == IF P[n] = <<>> THEN t[R[n]].key ELSE Last(P[n])
<1>1. /\ n \in T /\ T \subseteq Used(h) /\ n \in Nodes
      /\ \A m \in T : m # n => h[m].parent \in T
      /\ T = {m \in Used(h) : R[m] = R[n] /\ IsPrefix(P[n], P[m])}
  BY TreeByParent, TreeByPath DEF Used
<1>2. /\ \A m \in T : f[m] \in Unused(h)
      /\ \A m, x \in T : f[m] = f[x] => m = x
  BY DEF Injection, IsInjective
<1>3. /\ \A x \in Nodes \ F : k[x] = h[x]
      /\ \A m \in T : Copied(h, n, f, m, k[f[m]])
  <2>1. /\ \A m \in Tree(h, n) : Copied(h, n, f, m, Copy(h, n, f)[f[m]])
        /\ \A x \in Nodes \ {f[m] : m \in Tree(h, n)} : Copy(h, n, f)[x] = h[x]
    BY CopyFields
  <2>2. QED
    BY <2>1
<1>4. \A m \in T : /\ k[f[m]].used /\ k[f[m]].key = h[m].key /\ k[f[m]].val = h[m].val
                   /\ k[f[m]].parent = IF m = n THEN Null ELSE f[h[m].parent]
  BY <1>3 DEF Copied
<1> HIDE DEF T
<1>5. \A m \in T : from(f[m]) = m
  BY <1>2
<1>6. \A m \in T : f[m] \in F /\ Q[f[m]] = Rest(P[n], P[m])
  BY <1>5
<1>7. P[n] \in Paths /\ \A m \in T : P[m] \in Paths /\ IsPrefix(P[n], P[m])
  BY <1>1, ReadStep
<1>8. \A m \in T : /\ Rest(P[n], P[m]) \in Paths /\ P[n] \o Rest(P[n], P[m]) = P[m]
                   /\ \A a \in Keys : Rest(P[n], Append(P[m], a)) = Append(Rest(P[n], P[m]), a)
  BY <1>7, RestOf
<1>9. Q \in [F -> Paths]
  <2>1. \A x \in F : Rest(P[n], P[from(x)]) \in Paths
    <3> HIDE DEF from
    <3>1. QED
      BY <1>5, <1>8
  <2> HIDE DEF from
  <2>2. QED
    BY <2>1
<1> HIDE DEF Q, from
<1>10. {Q[x] : x \in F} = {Rest(P[n], P[m]) : m \in T}
  BY <1>6
<1>11. R[n] \in Roots(h) /\ IsTrees(t, h, P, R)
  BY TreesAre, RootOf
<1>12. /\ DOMAIN b = {P[m] : m \in Of(h, R, R[n])}
       /\ \A m \in Of(h, R, R[n]) : b[P[m]] = h[m].val
  <2>1. IsData(t[R[n]].data, h, P, R, R[n])
        /\ DOMAIN t[R[n]].data = {P[m] : m \in Of(h, R, R[n])}
    BY <1>11, DataOf
  <2>2. QED
    BY <2>1 DEF IsData
<1>13. \A m \in T : m \in Of(h, R, R[n])
  BY <1>1 DEF Of
<1>14. {y \in DOMAIN b : IsPrefix(P[n], y)} = {P[m] : m \in T}
  <2>1. {m \in Of(h, R, R[n]) : IsPrefix(P[n], P[m])} = T
    BY <1>1 DEF Of
  <2>2. {y \in DOMAIN b : IsPrefix(P[n], y)}
          = {P[m] : m \in {x \in Of(h, R, R[n]) : IsPrefix(P[n], P[x])}}
    BY <1>12
  <2>3. QED
    BY <2>1, <2>2
<1> DEFINE D == {Rest(P[n], P[m]) : m \in T}
<1>15. d = [q \in D |-> b[P[n] \o q]]
  <2> DEFINE g(x) == Rest(P[n], x)
             B == {y \in DOMAIN b : IsPrefix(P[n], y)}
  <2>1. d = [q \in {g(x) : x \in B} |-> b[P[n] \o q]]
    BY DEF Cutting
  <2>2. B = {P[m] : m \in T}
    BY <1>14
  <2>3. D = {g(P[m]) : m \in T}
    OBVIOUS
  <2> HIDE DEF g, B, D
  <2>4. {g(x) : x \in B} = D
    BY <2>2, <2>3
  <2>5. QED
    BY <2>1, <2>4
<1>16. d = [q \in {Q[x] : x \in F} |-> d[q]]
  <2>1. {Q[x] : x \in F} = D
    BY <1>10
  <2> HIDE DEF D
  <2>2. d = [q \in D |-> d[q]]
    BY <1>15
  <2>3. QED
    BY <2>1, <2>2
<1>17. \A m \in T : d[Q[f[m]]] = k[f[m]].val
  <2>1. ASSUME NEW m \in T
        PROVE  d[Q[f[m]]] = k[f[m]].val
    <3> DEFINE u == Rest(P[n], P[m])
    <3>1. u \in D /\ P[n] \o u = P[m] /\ Q[f[m]] = u
      BY <1>6, <1>8
    <3> HIDE DEF u, D
    <3>2. d[u] = b[P[m]]
      BY <1>15, <3>1
    <3>3. b[P[m]] = h[m].val
      BY <1>12, <1>13
    <3>4. QED
      BY <1>4, <3>1, <3>2, <3>3
  <2>2. QED
    BY <2>1
<1>18. r \in F /\ k[r].parent = Null /\ k[r].key = h[n].key /\ Q[r] = <<>>
  <2>1. Rest(P[n], P[n]) = <<>>
    BY <1>1, <1>7, RestOf
  <2>2. QED
    BY <1>1, <1>4, <1>6, <2>1
<1>19. ASSUME NEW m \in T, m # n
       PROVE  /\ k[f[m]].parent \in F
              /\ Q[f[m]] = Append(Q[k[f[m]].parent], k[f[m]].key)
  <2> DEFINE x == h[m].parent
  <2>1. x \in T /\ m \in Used(h) /\ x \in Used(h)
    BY <1>1, <1>19
  <2>2. x # Null
    BY <2>1, NodeAssumption DEF Used
  <2>3. P[m] = Append(P[x], h[m].key) /\ h[m].key \in Keys
    BY <2>1, <2>2, ReadStep
  <2> HIDE DEF x
  <2>4. Rest(P[n], P[m]) = Append(Rest(P[n], P[x]), h[m].key)
    BY <1>8, <2>1, <2>3
  <2>5. k[f[m]].parent = f[x] /\ k[f[m]].key = h[m].key
    BY <1>4, <1>19 DEF x
  <2>6. f[x] \in F /\ Q[f[x]] = Rest(P[n], P[x]) /\ Q[f[m]] = Rest(P[n], P[m])
    BY <1>6, <2>1
  <2>7. QED
    BY <2>4, <2>5, <2>6
<1>20. l = h[n].key
  <2>1. CASE h[n].parent = Null
    <3>1. P[n] = <<>> /\ R[n] = n
      BY <2>1, ReadStep
    <3>2. t[R[n]].key = h[R[n]].key
      <4> DEFINE x == R[n]
      <4>1. x \in Roots(h)
        BY <1>11
      <4> HIDE DEF x
      <4>2. t[x].key = h[x].key
        BY <1>11, <4>1, KeyOf
      <4>3. QED
        BY <4>2 DEF x
    <3>3. QED
      BY <3>1, <3>2
  <2>2. CASE h[n].parent # Null
    <3> DEFINE p == P[h[n].parent]
               a == h[n].key
    <3>1. P[n] # <<>> /\ P[n] = Append(p, a) /\ p \in Paths /\ a \in Keys
      BY <2>2, ReadStep
    <3> HIDE DEF p, a
    <3>2. Last(Append(p, a)) = a
      BY <3>1, AppendIs
    <3>3. l = a
      BY <3>1, <3>2
    <3>4. QED
      BY <3>3 DEF a
  <2>3. QED
    BY <2>1, <2>2
<1>21. F \in SUBSET Unused(h) /\ \A x \in F : k[x].used
  BY <1>2, <1>4
<1>22. \A x \in F \ {r} : k[x].parent \in F /\ Q[x] = Append(Q[k[x].parent], k[x].key)
  BY <1>19
<1>23. \A x \in F : d[Q[x]] = k[x].val
  BY <1>17
<1> HIDE DEF F, r, l
<1>24. Own(k, F, r, Q, d)
  BY <1>9, <1>16, <1>18, <1>21, <1>22, <1>23 DEF Own
<1>25. r \in Nodes /\ r \notin DOMAIN t /\ TreesOf(k) = With(t, r, Held(l, d))
  <2>1. ASSUME NEW x, x = r, NEW G, G = F, NEW g, g = Q, NEW a, a = l
        PROVE  x \in Nodes /\ x \notin DOMAIN t /\ TreesOf(k) = With(t, x, Held(a, d))
    <3>1. Own(k, G, x, g, d)
      BY <1>24, <2>1
    <3>2. /\ G \in SUBSET Unused(h) /\ \A m \in Nodes \ G : k[m] = h[m]
          /\ a = k[x].key
      BY <1>3, <1>18, <1>20, <1>21, <2>1
    <3>3. QED
      BY <3>1, <3>2, OneMore
  <2>2. QED
    BY <2>1
<1>26. QED
  BY <1>25 DEF l

-----------------------------------------------------------------------------
(* What the calls do to the nodes is what DataTrees promises.                *)

\* The operators of DataTrees, in the terms of these lemmas.
LEMMA SamePrefix ==
  ASSUME NEW p, NEW q
  PROVE  Promise!IsPrefix(p, q) <=> IsPrefix(p, q)
BY DEF Promise!IsPrefix, IsPrefix

LEMMA SameOutside ==
  ASSUME NEW d, NEW p
  PROVE  Promise!Outside(d, p) = {q \in DOMAIN d : ~IsPrefix(p, q)}
BY SamePrefix DEF Promise!Outside

LEMMA SameRestrict ==
  ASSUME NEW t, NEW S
  PROVE  Promise!Restrict(t, S) = Restrict(t, S)
BY DEF Promise!Restrict, Restrict

LEMMA SameSubtree ==
  ASSUME NEW b, NEW p
  PROVE  Promise!Subtree(b, p) = Cutting(b, p)
<1> DEFINE B == {y \in DOMAIN b : IsPrefix(p, y)}
           g(x) == SubSeq(x, Len(p) + 1, Len(x))
<1>1. Promise!Inside(b, p) = B
  BY SamePrefix DEF Promise!Inside
<1>2. Promise!Subtree(b, p) = [q \in {g(x) : x \in Promise!Inside(b, p)} |-> b[p \o q]]
  BY DEF Promise!Subtree
<1>3. Cutting(b, p) = [q \in {g(x) : x \in B} |-> b[p \o q]]
  BY DEF Cutting, Rest
<1> HIDE DEF B, g
<1>4. QED
  BY <1>1, <1>2, <1>3

LEMMA SameGraft ==
  ASSUME NEW d, NEW p, NEW c
  PROVE  Promise!Grafted(d, p, c) = Graft(d, p, c)
<1> DEFINE U == {p \o q : q \in DOMAIN c}
           O == Promise!Outside(d, p)
           D == {q \in DOMAIN d : ~IsPrefix(p, q)}
           g(q) == IF q \in U THEN c[SubSeq(q, Len(p) + 1, Len(q))] ELSE d[q]
<1>1. O = D
  BY SameOutside
<1>2. Promise!Grafted(d, p, c) = [q \in O \cup U |-> g(q)]
  BY DEF Promise!Grafted
<1>3. Graft(d, p, c) = [q \in D \cup U |-> g(q)]
  BY DEF Graft
<1> HIDE DEF D, U, O, g
<1>4. QED
  BY <1>1, <1>2, <1>3

LEMMA SameKeyAt ==
  ASSUME NEW t, NEW p
  PROVE  Promise!KeyAt(t, p) = IF p = <<>> THEN t.key ELSE Last(p)
BY DEF Promise!KeyAt, Promise!Last, Last

LEMMA SameNew ==
  ASSUME NEW r, NEW k, NEW s, NEW c
  PROVE  Promise!New(r, k, s, c) <=> trees' = With(trees, r, Held(k, Line(s, c)))
<1> DEFINE g(n) == SubSeq(s, 1, n)
           e == [q \in {g(n) : n \in 0 .. Len(s)} |-> IF q = s THEN c ELSE "object"]
<1>1. \A n : Beginning(s, n) = g(n)
  BY DEF Beginning
<1>2. Line(s, c) = e
  BY <1>1 DEF Line
<1>3. Promise!New(r, k, s, c)
        <=> trees' = [x \in DOMAIN trees \cup {r} |->
                        IF x = r THEN [key |-> k, data |-> e] ELSE trees[x]]
  BY DEF Promise!New
<1> HIDE DEF e
<1>4. QED
  BY <1>2, <1>3 DEF With, Held

LEMMA LineOfNone ==
  ASSUME NEW c
  PROVE  Line(<<>>, c) = Lone(c)
<1> DEFINE z == <<>>
           E == {Beginning(z, i) : i \in 0 .. Len(z)}
<1>1. z \in Paths /\ Len(z) = 0
  BY EmptySeq DEF Paths
<1>2. E = {z}
  <2> HIDE DEF z
  <2>1. \A i \in 0 .. Len(z) : Beginning(z, i) = z /\ i = 0
    BY <1>1, BeginningIs
  <2>2. 0 \in 0 .. Len(z)
    BY <1>1
  <2>3. QED
    BY <2>1, <2>2
<1>3. Line(z, c) = [q \in E |-> IF q = z THEN c ELSE "object"]
  BY DEF Line
<1> HIDE DEF E, z
<1>4. Line(z, c) = [q \in {z} |-> c]
  BY <1>2, <1>3
<1>5. QED
  BY <1>4 DEF z, Lone

\* The trees are those that the nodes are, before and after.
Followed ==
  Sound(heap) /\ Sound(heap') /\ trees = TreesOf(heap) /\ trees' = TreesOf(heap')

\* A node is in a tree of data at its path.
LEMMA InItsTree ==
  ASSUME NEW h, Sound(h), NEW P, NEW R, Read(h, P, R), NEW n \in Used(h), NEW t, t = TreesOf(h)
  PROVE  /\ R[n] \in DOMAIN t /\ P[n] \in DOMAIN t[R[n]].data
         /\ h[n].parent = Null => n \in DOMAIN t /\ t[n].key = h[n].key
<1>1. IsTrees(t, h, P, R) /\ R[n] \in Roots(h)
  BY TreesAre, RootOf
<1>2. DOMAIN t = Roots(h)
  BY <1>1, DataIs
<1>3. DOMAIN t[R[n]].data = {P[m] : m \in Of(h, R, R[n])}
  BY <1>1, DataOf
<1>4. n \in Of(h, R, R[n])
  BY DEF Of
<1>5. h[n].parent = Null => n \in Roots(h)
  BY DEF Roots
<1>6. n \in Roots(h) => t[n].key = h[n].key
  BY <1>1, KeyOf
<1>7. QED
  BY <1>1, <1>2, <1>3, <1>4, <1>5, <1>6

LEMMA CreateIsNew ==
  ASSUME Followed, NEW c \in Contents, Create(c)
  PROVE  Promise!Next
<1>1. Sound(heap) /\ Sound(heap') /\ trees = TreesOf(heap) /\ trees' = TreesOf(heap')
  BY DEF Followed
<1>2. c \in Promise!Contents
  BY DEF Contents, Promise!Contents
<1>3. ASSUME NEW n \in Nodes, Single(heap, heap', n, c)
      PROVE  n \in Nodes \ DOMAIN trees /\ Promise!New(n, NoKey, <<>>, c)
  <2>1. n \notin DOMAIN trees /\ trees' = With(trees, n, Held(NoKey, Lone(c)))
    BY <1>1, <1>3, SingleMade
  <2>2. QED
    BY <2>1, LineOfNone, SameNew
<1>4. ASSUME NEW s \in Chains, NEW f, Chained(heap, heap', s, f, c)
      PROVE  \E r \in Nodes \ DOMAIN trees : Promise!New(r, Head(s), Tail(s), c)
  <2>1. \E r \in Nodes : /\ r \notin DOMAIN trees
                         /\ trees' = With(trees, r, Held(Head(s), Line(Tail(s), c)))
    BY <1>1, <1>4, ChainMade
  <2>2. QED
    BY <2>1, SameNew
<1>5. CASE \E n \in Nodes : Single(heap, heap', n, c)
  BY <1>2, <1>3, <1>5 DEF Promise!Next
<1>6. CASE \E s \in Chains : \E f : Chained(heap, heap', s, f, c)
  BY <1>2, <1>4, <1>6 DEF Promise!Next
<1>7. QED
  BY <1>1, <1>5, <1>6, CreateIsSound

\* What lies at the path a of the tree that p is in, by the paths and by the links.
Taken(h, P, R, p, a) == {m \in Used(h) : R[m] = R[p] /\ IsPrefix(a, P[m])}
Gone(h, q) == IF q = Null THEN {} ELSE Tree(h, q)

LEMMA Replaced ==
  ASSUME NEW h, Sound(h), NEW P, NEW R, Read(h, P, R), NEW p \in Used(h), NEW n \in Used(h),
         h[n].key # NoKey
  PROVE  Gone(h, Namesake(h, p, n)) = Taken(h, P, R, p, Append(P[p], h[n].key))
<1> DEFINE q == Namesake(h, p, n)
           a == Append(P[p], h[n].key)
           l == h[n].key
           b == P[p]
<1>1. l \in Keys /\ b \in Paths /\ p \in Nodes /\ p # Null
  BY ReadStep, NodeAssumption DEF Sound, Heaps, NodeType, Used
<1>2. a = Append(b, l)
  OBVIOUS
<1> HIDE DEF a
<1>3. \/ q = Null /\ \A m \in Nodes : h[m].parent = p => h[m].key # l
      \/ q # Null /\ q \in Used(h) /\ h[q].parent = p /\ h[q].key = l
  <2>1. q = Namesake(h, p, n)
    OBVIOUS
  <2> HIDE DEF q
  <2>2. QED
    BY <1>1, <2>1, NamesakeIs
<1> HIDE DEF l, q
<1>4. ASSUME q = Null
      PROVE  Gone(h, q) = Taken(h, P, R, p, a)
  <2>1. ASSUME NEW m \in Used(h), R[m] = R[p], IsPrefix(a, P[m])
        PROVE  FALSE
    <3>1. a \in Paths /\ a # <<>>
      <4> HIDE DEF b
      <4>1. Append(b, l) \in Paths /\ Append(b, l) # <<>>
        BY <1>1, AppendIs
      <4>2. QED
        BY <1>2, <4>1
    <3>2. PICK x \in Used(h) : R[x] = R[m] /\ P[x] = a
      <4>1. \A y \in Used(h) : \A z \in Paths : IsPrefix(z, P[y]) =>
              \E x \in Used(h) : R[x] = R[y] /\ P[x] = z
        BY OnTheWay
      <4>2. QED
        BY <2>1, <3>1, <4>1
    <3>3. h[x].parent # Null
      BY <3>1, <3>2, ReadStep
    <3> DEFINE y == h[x].parent
               c == P[y]
               j == h[x].key
    <3>4. y \in Used(h) /\ c \in Paths /\ j \in Keys /\ P[x] = Append(c, j) /\ R[x] = R[y]
      BY <3>3, ReadStep
    <3>5. b = c /\ l = j
      <4> HIDE DEF b, c, j
      <4>1. Append(b, l) = Append(c, j)
        BY <1>2, <3>2, <3>4
      <4>2. QED
        BY <1>1, <3>4, <4>1, SameStep
    <3>6. y = p
      <4> HIDE DEF y
      <4>1. R[y] = R[p] /\ P[y] = P[p]
        BY <2>1, <3>2, <3>4, <3>5
      <4>2. QED
        BY <3>4, <4>1, OneAt
    <3>7. x \in Nodes /\ h[x].parent = p /\ h[x].key = l
      BY <3>5, <3>6 DEF Used
    <3>8. QED
      BY <1>3, <1>4, <3>7
  <2>2. QED
    BY <1>4, <2>1 DEF Gone, Taken
<1>5. ASSUME q # Null
      PROVE  Gone(h, q) = Taken(h, P, R, p, a)
  <2>1. q \in Used(h) /\ h[q].parent = p /\ h[q].key = l
    BY <1>3, <1>5
  <2>2. P[q] = a /\ R[q] = R[p]
    BY <1>1, <1>2, <2>1, ReadStep
  <2>3. Tree(h, q) = {m \in Used(h) : R[m] = R[q] /\ IsPrefix(P[q], P[m])}
    BY <2>1, TreeByPath
  <2>4. QED
    BY <1>5, <2>2, <2>3 DEF Gone, Taken
<1>6. Gone(h, q) = Taken(h, P, R, p, a)
  BY <1>4, <1>5
<1>7. QED
  BY <1>6 DEF a, q

LEMMA AddIsAdd ==
  ASSUME Followed, CAREFUL, NEW n \in Used(heap), NEW p \in Used(heap), Add(p, n)
  PROVE  Promise!Next
<1>1. Sound(heap) /\ Sound(heap') /\ trees = TreesOf(heap) /\ trees' = TreesOf(heap')
  BY DEF Followed
<1>2. PICK P, R : Read(heap, P, R)
  BY <1>1, ReadExists
<1> DEFINE q == Namesake(heap, p, n)
           a == Append(P[p], heap[n].key)
           F == Taken(heap, P, R, p, a)
           r == R[p]
           d == Put(trees[r].data, P[p])
           c == trees[n].data
<1>3. /\ heap[n].parent = Null /\ heap[n].key # NoKey /\ p \notin Tree(heap, n)
      /\ n \in Roots(heap) /\ heap' = AddChild(heap, p, n) /\ (q # Null => ~Stale(heap, q))
  BY DEF Add, Roots
<1>4. Joins(heap, p, n, Gone(heap, q), heap')
  <2> HIDE DEF q
  <2>1. Joins(heap, p, n, IF q = Null THEN {} ELSE Tree(heap, q), AddChild(heap, p, n))
    BY <1>1, <1>3, AddIsSound DEF q
  <2>2. QED
    BY <1>3, <2>1 DEF Gone
<1>5. Gone(heap, q) = F
  BY <1>1, <1>2, <1>3, Replaced
<1>6. Joining(heap, P, R, p, n, F, heap', a)
  <2>1. Joins(heap, p, n, F, heap')
    BY <1>4, <1>5
  <2> HIDE DEF q
  <2>2. F = {m \in Used(heap) : R[m] = R[p] /\ IsPrefix(a, P[m])} /\ a = Append(P[p], heap[n].key)
    BY DEF Taken
  <2> HIDE DEF F, a
  <2>3. QED
    BY <1>1, <1>2, <1>3, <2>1, <2>2 DEF Joining
<1> HIDE DEF F, a, q
<1>7. r \in Roots(heap) /\ r # n /\ trees' = Added(trees, n, r, Graft(d, a, c))
  <2>1. R[p] = r /\ d = Put(trees[R[p]].data, P[p]) /\ c = trees[n].data
    OBVIOUS
  <2> HIDE DEF r, d, c
  <2>2. R[p] \in Roots(heap) /\ R[p] # n /\ TreesOf(heap') = Added(trees, n, R[p], Graft(d, a, c))
    BY <1>1, <1>6, <2>1, Grafted
  <2>3. QED
    BY <1>1, <2>1, <2>2
<1>8. /\ r \in DOMAIN trees /\ P[p] \in DOMAIN trees[r].data
      /\ n \in DOMAIN trees /\ trees[n].key = heap[n].key
  BY <1>1, <1>2, <1>3, InItsTree
<1>10. Promise!Add(r, P[p], n)
  <2>1. a = Append(P[p], trees[n].key)
    BY <1>8 DEF a
  <2>2. Promise!Grafted(d, a, c) = Graft(d, a, c)
    BY SameGraft
  <2>3. d = [trees[r].data EXCEPT ![P[p]] = "object"]
    BY DEF Put
  <2> HIDE DEF r, c, d
  <2>4. trees' = [s \in DOMAIN trees \ {n} |->
                    IF s = r THEN [trees[r] EXCEPT !.data = Promise!Grafted(d, a, c)]
                    ELSE trees[s]]
    BY <1>7, <2>2 DEF Added
  <2>5. trees[n].key # NoKey
    BY <1>3, <1>8
  <2>6. QED
    BY <1>7, <2>1, <2>3, <2>4, <2>5 DEF Promise!Add, c
<1>11. QED
  BY <1>8, <1>10 DEF Promise!Next

LEMMA DeleteIsDelete ==
  ASSUME Followed, CAREFUL, NEW n \in Used(heap), Delete(n)
  PROVE  Promise!Next
<1>1. Sound(heap) /\ Sound(heap') /\ trees = TreesOf(heap) /\ trees' = TreesOf(heap')
  BY DEF Followed
<1>2. PICK P, R : Read(heap, P, R)
  BY <1>1, ReadExists
<1>3. Removed(heap, n, heap')
  <2>1. ~Stale(heap, n) /\ ~OnlyChild(heap, n) /\ heap' = DeleteNode(heap, n)
    BY DEF Delete
  <2>2. QED
    BY <1>1, <2>1, DeleteIsSound
<1>4. R[n] \in DOMAIN trees /\ P[n] \in DOMAIN trees[R[n]].data
  BY <1>1, <1>2, InItsTree
<1>5. Promise!Delete(R[n], P[n])
  <2>1. CASE heap[n].parent = Null
    <3>1. P[n] = <<>> /\ R[n] = n /\ n \in Roots(heap)
      BY <1>1, <1>2, <2>1, ReadStep DEF Roots
    <3>2. trees' = Restrict(trees, DOMAIN trees \ {n})
      BY <1>1, <1>3, <3>1, RootRemoved
    <3>3. QED
      BY <3>1, <3>2, SameRestrict DEF Promise!Delete
  <2>2. CASE heap[n].parent # Null
    <3> DEFINE r == R[n]
               p == P[n]
               d == trees[R[n]].data
               e == Pruning(d, P[n])
    <3>1. p # <<>>
      BY <1>1, <1>2, <2>2, ReadStep
    <3>2. trees' = [trees EXCEPT ![r].data = e]
      <4>1. d = trees[R[n]].data
        OBVIOUS
      <4> HIDE DEF d
      <4>2. QED
        BY <1>1, <1>2, <1>3, <2>2, <4>1, PartRemoved
    <3>3. Promise!Restrict(d, Promise!Outside(d, p)) = e
      <4> HIDE DEF d
      <4>1. QED
        BY SameRestrict, SameOutside DEF Pruning
    <3>4. trees[r].data = d
      OBVIOUS
    <3> HIDE DEF r, p, d, e
    <3>5. trees' = [trees EXCEPT ![r].data = Promise!Restrict(trees[r].data,
                                                              Promise!Outside(trees[r].data, p))]
      BY <3>2, <3>3, <3>4
    <3>6. Promise!Delete(r, p)
      BY <3>1, <3>5 DEF Promise!Delete
    <3>7. QED
      BY <3>6 DEF r, p
  <2>3. QED
    BY <2>1, <2>2
<1>6. QED
  BY <1>4, <1>5 DEF Promise!Next

LEMMA CloneIsClone ==
  ASSUME Followed, broken = FALSE, NEW n \in Used(heap), Clone(n)
  PROVE  Promise!Next
<1>1. Sound(heap) /\ Sound(heap') /\ trees = TreesOf(heap) /\ trees' = TreesOf(heap')
  BY DEF Followed
<1>2. PICK P, R : Read(heap, P, R)
  BY <1>1, ReadExists
<1>3. PICK f \in Injection(Tree(heap, n), Unused(heap)) : heap' = Copy(heap, n, f)
  BY <1>1, TreesAreTrees DEF Clone
<1> DEFINE r == R[n]
           p == P[n]
           b == trees[R[n]].data
           l == IF P[n] = <<>> THEN trees[R[n]].key ELSE Last(P[n])
           d == Cutting(b, p)
<1>4. R[n] \in DOMAIN trees /\ P[n] \in DOMAIN trees[R[n]].data
  BY <1>1, <1>2, InItsTree
<1>5. \E u \in Nodes : u \notin DOMAIN trees /\ trees' = With(trees, u, Held(l, d))
  <2>1. b = trees[R[n]].data /\ d = Cutting(b, P[n])
    OBVIOUS
  <2> HIDE DEF b, d
  <2>2. QED
    BY <1>1, <1>2, <1>3, <2>1, CloneMade
<1>6. PICK u \in Nodes : u \notin DOMAIN trees /\ trees' = With(trees, u, Held(l, d))
  BY <1>5
<1>7. Promise!KeyAt(trees[r], p) = l
  BY SameKeyAt
<1>8. Promise!Subtree(trees[r].data, p) = d
  BY SameSubtree
<1> HIDE DEF r, p, b, l, d
<1>9. Promise!Clone(r, p, u)
  BY <1>6, <1>7, <1>8 DEF Promise!Clone, With, Held
<1>10. QED
  BY <1>4, <1>9 DEF Promise!Next, r, p

LEMMA KeyIsKey ==
  ASSUME Followed, NEW n \in Used(heap), NEW l \in Keys, SetKey(n, l)
  PROVE  Promise!Next
<1>1. Sound(heap) /\ Sound(heap') /\ trees = TreesOf(heap) /\ trees' = TreesOf(heap')
  BY DEF Followed
<1>2. n \in Roots(heap) /\ n \in Nodes /\ heap' = [heap EXCEPT ![n].key = l] /\ heap \in Heaps
  BY <1>1 DEF SetKey, Sound, Used
<1>3. Rekeyed(heap, heap', n, l)
  BY <1>2 DEF Rekeyed, Heaps, NodeType
<1>4. n \in DOMAIN trees /\ trees' = [trees EXCEPT ![n].key = l]
  BY <1>1, <1>2, <1>3, KeyChanged
<1>5. QED
  BY <1>4 DEF Promise!Next, Promise!SetKey

LEMMA ValueIsValue ==
  ASSUME Followed, NEW n \in Used(heap), NEW v \in Values, SetValue(n, v)
  PROVE  Promise!Next
<1>1. Sound(heap) /\ Sound(heap') /\ trees = TreesOf(heap) /\ trees' = TreesOf(heap')
  BY DEF Followed
<1>2. PICK P, R : Read(heap, P, R)
  BY <1>1, ReadExists
<1>3. n \in Nodes /\ heap' = [heap EXCEPT ![n].val = v] /\ heap \in Heaps /\ heap[n].val \in Values
  BY <1>1 DEF SetValue, Sound, Used
<1>4. Revalued(heap, heap', n, v)
  BY <1>3 DEF Revalued, Heaps, NodeType
<1>5. R[n] \in DOMAIN trees /\ P[n] \in DOMAIN trees[R[n]].data
  BY <1>1, <1>2, InItsTree
<1> DEFINE r == R[n]
           p == P[n]
           d == trees[R[n]].data
<1>6. d[p] = heap[n].val /\ trees' = [trees EXCEPT ![r].data = [d EXCEPT ![p] = v]]
  <2>1. d = trees[R[n]].data
    OBVIOUS
  <2> HIDE DEF d
  <2>2. QED
    BY <1>1, <1>2, <1>4, <2>1, ValueChanged
<1>7. Promise!SetValue(r, p, v)
  <2>1. trees[r].data = d
    OBVIOUS
  <2> HIDE DEF r, p, d
  <2>2. [trees EXCEPT ![r].data = [d EXCEPT ![p] = v]] = [trees EXCEPT ![r].data[p] = v]
    BY <2>1
  <2>3. QED
    BY <1>3, <1>6, <2>1, <2>2 DEF Promise!SetValue
<1>8. QED
  BY <1>5, <1>7 DEF Promise!Next

LEMMA ShowIsDelete ==
  ASSUME Followed, Proper, NEW n \in Used(heap), NEW L \in Listeners, Show(n, L)
  PROVE  Promise!Next
<1>1. Sound(heap) /\ Sound(heap') /\ trees = TreesOf(heap) /\ trees' = TreesOf(heap')
  BY DEF Followed
<1>2. PICK P, R : Read(heap, P, R)
  BY <1>1, ReadExists
<1>3. L \in Seq(Seq(Keys)) /\ Len(L) <= 1
  BY NodeAssumption DEF Proper
<1>4. Shown(heap, n, L) = heap
  BY <1>1, <1>3, OneListener DEF Sound
<1>5. n \in Roots(heap) /\ heap[n].parent = Null /\ heap' = Free(heap, n)
  BY <1>4 DEF Show, Roots
<1>6. Removed(heap, n, heap')
  <2>1. \A m \in Nodes : heap'[m] = IF m \in Tree(heap, n) THEN Freed ELSE heap[m]
    BY <1>1, <1>5, FreeFields DEF Sound
  <2>2. Tree(heap, n) \subseteq Nodes /\ ~Freed.used
    BY <1>1, TreeByParent DEF Used, Freed, Blank
  <2>3. QED
    BY <2>1, <2>2 DEF Removed
<1>7. trees' = Restrict(trees, DOMAIN trees \ {n})
  BY <1>1, <1>5, <1>6, RootRemoved
<1>8. P[n] = <<>> /\ R[n] = n
  BY <1>1, <1>2, <1>5, ReadStep
<1>9. n \in DOMAIN trees /\ <<>> \in DOMAIN trees[n].data
  BY <1>1, <1>2, <1>8, InItsTree
<1>10. Promise!Delete(n, <<>>)
  BY <1>7, SameRestrict DEF Promise!Delete
<1>11. QED
  BY <1>9, <1>10 DEF Promise!Next

LEMMA StepIsPromised ==
  ASSUME Proper, IInv, IInv', trees = TreesOf(heap), trees' = TreesOf(heap'), [Next]_vars
  PROVE  [Promise!Next]_trees
<1>1. Followed /\ CAREFUL /\ broken = FALSE
  BY DEF Followed, IInv, Proper
<1>2. CASE UNCHANGED vars
  BY <1>2 DEF vars
<1>3. ASSUME NEW c \in Contents, Create(c)
      PROVE  Promise!Next
  BY <1>1, <1>3, CreateIsNew
<1>4. ASSUME NEW n \in Used(heap), NEW p \in Used(heap), Add(p, n)
      PROVE  Promise!Next
  BY <1>1, <1>4, AddIsAdd
<1>5. ASSUME NEW n \in Used(heap), Delete(n)
      PROVE  Promise!Next
  BY <1>1, <1>5, DeleteIsDelete
<1>6. ASSUME NEW n \in Used(heap), Clone(n)
      PROVE  Promise!Next
  BY <1>1, <1>6, CloneIsClone
<1>7. ASSUME NEW n \in Used(heap), NEW l \in Keys, SetKey(n, l)
      PROVE  Promise!Next
  BY <1>1, <1>7, KeyIsKey
<1>8. ASSUME NEW n \in Used(heap), NEW v \in Values, SetValue(n, v)
      PROVE  Promise!Next
  BY <1>1, <1>8, ValueIsValue
<1>9. ASSUME NEW n \in Used(heap), NEW L \in Listeners, Show(n, L)
      PROVE  Promise!Next
  BY <1>1, <1>9, ShowIsDelete
<1>10. CASE Next
  BY <1>3, <1>4, <1>5, <1>6, <1>7, <1>8, <1>9, <1>10 DEF Next
<1>11. QED
  BY <1>2, <1>10

LEMMA NoTrees ==
  ASSUME TreesInit
  PROVE  Promise!Init
<1>1. Roots(heap) = {}
  BY DEF TreesInit, Init, Roots, Used, Freed, Blank
<1>2. DOMAIN trees = {} /\ trees = [r \in DOMAIN trees |-> trees[r]]
  BY <1>1 DEF TreesInit, TreesOf
<1>3. QED
  BY <1>2 DEF Promise!Init

\* Every call does to the trees of nodes what DataTrees promises of it.
THEOREM TreesAreKept ==
  ASSUME Proper
  PROVE  TreesSpec => TreesKept
<1> DEFINE I == IInv /\ trees = TreesOf(heap)
<1>1. TreesInit => I /\ Promise!Init
  BY InitIsSound, NoTrees DEF TreesInit
<1>2. I /\ [TreesNext]_<<vars, trees>> => I' /\ [Promise!Next]_trees
  <2> SUFFICES ASSUME I, [TreesNext]_<<vars, trees>>
               PROVE  I' /\ [Promise!Next]_trees
    OBVIOUS
  <2>1. [Next]_vars /\ trees' = TreesOf(heap')
    <3>1. CASE TreesNext
      BY <3>1 DEF TreesNext
    <3>2. CASE UNCHANGED <<vars, trees>>
      BY <3>2 DEF vars
    <3>3. QED
      BY <3>1, <3>2
  <2>2. IInv'
    BY <2>1, StepIsSound
  <2>3. [Promise!Next]_trees
    BY <2>1, <2>2, StepIsPromised
  <2>4. QED
    BY <2>1, <2>2, <2>3
<1> HIDE DEF I
<1>3. QED
  BY <1>1, <1>2, PTL DEF TreesSpec, TreesKept, Promise!Spec
=============================================================================
