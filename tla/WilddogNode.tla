----------------------------- MODULE WilddogNode -----------------------------
(***************************************************************************)
(* The node tree (src/wilddog_node.c) in memory: nodes linked to their     *)
(* parent, first child and brothers, which application and SDK build, copy *)
(* and delete, and whose links the event layer rearranges while it shows a *)
(* tree to its listeners (_wilddog_event_trigger).                         *)
(*                                                                         *)
(* A key is the sequence of its characters.  Allocation does not fail, and *)
(* may return memory that was freed.  The application adds roots, and not  *)
(* below themselves; a child has a key; a key is set on roots only, as     *)
(* wilddog_conn.c does.                                                    *)
(***************************************************************************)
EXTENDS EventPaths, FiniteSets

CONSTANTS
  Nodes, Null,
  Keys, NoKey,
  Values,     \* of the types that have one: number, float, strings
  Chains,     \* the keys a node is created with, split at their slashes
  Listeners,  \* the paths listened on in a trigger, from the observer's path
              \* and in the order of the list
  CAREFUL     \* are the calls left out that the code gets wrong?

\* A path as a string, from the observer's.
Text(p) == FoldLeft(LAMBDA t, k : t \o <<Slash>> \o k, <<>>, p)

ASSUME NodeAssumption ==
  /\ IsFiniteSet(Nodes)
  /\ Null \notin Nodes /\ NoKey \notin Keys
  /\ Keys \subseteq Seq(Nat \ {Slash})
  /\ Chains \subseteq Seq(Keys) \ {<<>>}
  /\ Listeners \subseteq Seq(Seq(Keys))
  /\ \A L \in Listeners : \A i, j \in DOMAIN L : i < j => Before(Text(L[i]), Text(L[j]))
  /\ {"null", "object"} \cap Values = {}
  /\ CAREFUL \in BOOLEAN

VARIABLES
  heap,   \* the nodes; one that is not allocated has used = FALSE
  broken  \* freed memory was used, or a call did not return

vars == <<heap, broken>>

Contents == Values \cup {"null", "object"}

\* Wilddog_Node_T, its type and value in one: as _wilddog_node_new makes it, and
\* as _wilddog_node_free leaves it.
Blank(used, k, c) ==
  [used |-> used, next |-> Null, prev |-> Null, child |-> Null, parent |-> Null,
   key |-> k, val |-> c]
Freed == Blank(FALSE, NoKey, "null")

Used(h)   == {n \in Nodes : h[n].used}
Unused(h) == Nodes \ Used(h)
Roots(h)  == {n \in Used(h) : h[n].parent = Null}

\* Writes through a link.  One to freed memory changes no node.
SetNext(h, n, x) == IF n \in Used(h) THEN [h EXCEPT ![n].next = x] ELSE h
SetPrev(h, n, x) == IF n \in Used(h) THEN [h EXCEPT ![n].prev = x] ELSE h

\* The nodes that a walk along next visits from c on: the least set that holds c
\* and is not left along next.
List(h, c) ==
  LET whole == {S \in SUBSET Nodes :
                  c \in S \cup {Null} /\ \A m \in S : h[m].next \in S \cup {Null}}
  IN  {n \in Nodes : \A S \in whole : n \in S}

Kids(h, n) == List(h, h[n].child)

\* The nodes that lie under the list c, as wilddog_node_clone and
\* _wilddog_node_free visit them: along next and child.
Under(h, c) ==
  LET whole == {S \in SUBSET Nodes :
                  /\ c \in S \cup {Null}
                  /\ \A m \in S : {h[m].child, h[m].next} \subseteq S \cup {Null}}
  IN  {n \in Nodes : \A S \in whole : n \in S}

\* The brothers of n itself are not visited.
Tree(h, n) == {n} \cup Under(h, h[n].child)

\* No node is visited twice, nor one that is not allocated: one link leads to
\* each, and none to n.
IsTree(h, n) ==
  LET t == Tree(h, n)
      u == t \ {n}
  IN  /\ t \subseteq Used(h)
      /\ \A x \in t : h[x].child # n
      /\ \A x \in u : h[x].next # n
      /\ \A x, y \in t : h[x].child = h[y].child => x = y \/ h[x].child = Null
      /\ \A x, y \in u : h[x].next = h[y].next => x = y \/ h[x].next = Null
      /\ \A x \in t, y \in u : h[x].child = h[y].next => h[x].child = Null

\* The brother before n was deleted or replaced when it was the first, and n
\* still leads to it.
Stale(h, n) == h[n].prev # Null /\ h[h[n].prev].next # n

\* An only child, as wilddog_node_delete takes it.  The parent is made a null
\* node first, which deletes its children, which makes it a null node first:
\* the call does not return.
OnlyChild(h, n) == h[n].parent # Null /\ h[n].next = Null /\ h[n].prev = Null
-------------------------------------------------------------------------------
\* The first of the nodes in found, which are on one list: the others come
\* after it.
First(h, found) ==
  IF found = {} THEN Null ELSE CHOOSE n \in found : found \subseteq List(h, n)

\* Mutant of Matching: the brothers are not searched.
MatchingFirst(h, c, k) == IF c # Null /\ IsPrefix(h[c].key, k) THEN c ELSE Null

\* _wilddog_node_findInner on one level: a key matches where the rest of the
\* path begins with it.
Matching(h, c, k) == First(h, {n \in List(h, c) : IsPrefix(h[n].key, k)})

\* wilddog_node_find.  It goes down where a slash follows the key, and ends at
\* the node otherwise, whatever follows.
Find(h, r, p) ==
  LET at[i \in 0..Len(p)] ==
        IF i = 0 THEN r
        ELSE LET n == at[i - 1]
             IN  IF n = Null \/ (i > 1 /\ h[n].key # p[i - 1]) THEN n
                 ELSE Matching(h, h[n].child, p[i])
  IN  at[Len(p)]

\* _wilddog_node_free, of a node that is linked from nowhere.
Free(h, n) ==
  LET freed == Tree(h, n) IN [m \in Nodes |-> IF m \in freed THEN Freed ELSE h[m]]

\* The child of p that has the key of n.
Namesake(h, p, n) == First(h, {m \in Kids(h, p) : h[m].key = h[n].key})

\* Mutant of Prepend: the brother does not lead back.
PrependOneWay(h, p, n) ==
  LET f == h[p].child
  IN  IF f = Null THEN [h EXCEPT ![p].val = "object", ![p].child = n, ![n].parent = p]
      ELSE [h EXCEPT ![n].next = f, ![n].parent = p, ![p].child = n]

\* wilddog_node_addChild: n becomes the first child, or takes the place of the
\* child that has its key.
Prepend(h, p, n) ==
  LET f == h[p].child
  IN  IF f = Null THEN [h EXCEPT ![p].val = "object", ![p].child = n, ![n].parent = p]
      ELSE [h EXCEPT ![f].prev = n, ![n].next = f, ![n].parent = p, ![p].child = n]

\* Mutant of Replace: n is not led on to the brothers after it.
ReplaceLast(h, p, n, q) ==
  LET old  == h[q]
      tied == IF old.prev = Null THEN [h EXCEPT ![p].child = n]
              ELSE SetPrev(SetNext(h, old.prev, n), old.next, n)
  IN  Free([tied EXCEPT ![n].prev = old.prev, ![n].parent = p, ![q].next = Null], q)

\* The prev of the brother after a first child is left as it is.
Replace(h, p, n, q) ==
  LET old  == h[q]
      tied == IF old.prev = Null THEN [h EXCEPT ![p].child = n]
              ELSE SetPrev(SetNext(h, old.prev, n), old.next, n)
  IN  Free([tied EXCEPT ![n].prev = old.prev, ![n].parent = p,
                        ![n].next = IF old.next # Null THEN old.next ELSE @,
                        ![q].next = Null], q)

AddChild(h, p, n) ==
  LET q == Namesake(h, p, n) IN IF q = Null THEN Prepend(h, p, n) ELSE Replace(h, p, n, q)

\* The nodes it reads, writes and frees, and whether it can.
AddIsSafe(h, p, n) ==
  LET q == Namesake(h, p, n)
  IN  /\ Kids(h, p) \subseteq Used(h)
      /\ q # Null => IsTree(h, q) /\ {h[q].prev, h[q].next} \subseteq Used(h) \cup {Null}

\* wilddog_node_delete, of a node that is not an only child.
Unlinked(h, n) ==
  LET old == h[n]
  IN  CASE old.parent = Null -> h
        [] old.parent # Null /\ old.prev # Null ->
             SetNext(SetPrev(h, old.next, old.prev), old.prev, old.next)
        [] old.parent # Null /\ old.prev = Null -> [h EXCEPT ![old.parent].child = old.next]

DeleteIsSafe(h, n) ==
  /\ ~OnlyChild(h, n) /\ IsTree(h, n)
  /\ h[n].parent = Null \/ {h[n].prev, h[n].next} \subseteq Used(h) \cup {Null}

DeleteNode(h, n) == IF OnlyChild(h, n) THEN h ELSE Free(Unlinked(h, n), n)

\* wilddog_node_clone of the tree n into the nodes f.  The links back are made
\* from the links forth.
Copy(h, n, f) ==
  LET image(x)  == IF x = Null THEN Null ELSE f[x]
      parent(m) == CHOOSE x \in DOMAIN f : m \in Kids(h, x)
      left(m)   == {x \in DOMAIN f \ {n} : h[x].next = m}
      copy(m)   ==
        [used |-> TRUE, key |-> h[m].key, val |-> h[m].val, child |-> image(h[m].child),
         next |-> IF m = n THEN Null ELSE image(h[m].next),
         prev |-> IF m = n \/ left(m) = {} THEN Null ELSE f[CHOOSE x \in left(m) : TRUE],
         parent |-> IF m = n THEN Null ELSE f[parent(m)]]
  IN  [x \in Nodes |-> IF \E m \in DOMAIN f : f[m] = x
                       THEN copy(CHOOSE m \in DOMAIN f : f[m] = x) ELSE h[x]]

\* Mutant of Unhook: put back the wrong way round.
UnhookSwapped(s, r, p) ==
  LET n    == Find(s.h, r, p)
      prev == IF s.h[n].prev # Null THEN s.h[n].prev ELSE s.prev
      next == IF s.h[n].next # Null THEN s.h[n].next ELSE s.next
  IN  IF n = Null THEN s
      ELSE [h |-> [s.h EXCEPT ![n].prev = next, ![n].next = prev], prev |-> prev, next |-> next]

\* A listener on p gets its part of the tree r, which has no brothers while it
\* does: the links to them are kept aside, in variables that last for the loop.
Unhook(s, r, p) ==
  LET n    == Find(s.h, r, p)
      prev == IF s.h[n].prev # Null THEN s.h[n].prev ELSE s.prev
      next == IF s.h[n].next # Null THEN s.h[n].next ELSE s.next
  IN  IF n = Null THEN s   \* it is shown a null node made for it
      ELSE [h |-> [s.h EXCEPT ![n].prev = prev, ![n].next = next], prev |-> prev, next |-> next]

\* _wilddog_event_trigger: the tree r as it is after the listeners L.
Shown(h, r, L) ==
  LET s[i \in 0..Len(L)] ==
        IF i = 0 THEN [h |-> h, prev |-> Null, next |-> Null] ELSE Unhook(s[i - 1], r, L[i])
  IN  s[Len(L)].h
-------------------------------------------------------------------------------
\* The wilddog_node_create functions: a node without a key, or the chain that a
\* path leads through, whose last node gets the type and value.
Create(c) ==
  \/ \E n \in Unused(heap) : heap' = [heap EXCEPT ![n] = Blank(TRUE, NoKey, c)]
  \/ \E s \in Chains :
       \E f \in Injection(DOMAIN s, Unused(heap)) :
         heap' = [n \in Nodes |->
                    IF \E i \in DOMAIN s : f[i] = n
                    THEN LET i == CHOOSE j \in DOMAIN s : f[j] = n
                         IN  [Blank(TRUE, s[i], IF i = Len(s) THEN c ELSE "object") EXCEPT
                                !.child = IF i = Len(s) THEN Null ELSE f[i + 1],
                                !.parent = IF i = 1 THEN Null ELSE f[i - 1]]
                    ELSE heap[n]]

Add(p, n) ==
  LET q == Namesake(heap, p, n)
  IN  /\ n \in Roots(heap) /\ heap[n].key # NoKey /\ p \notin Tree(heap, n)
      /\ (CAREFUL /\ q # Null) => ~Stale(heap, q)
      /\ heap' = AddChild(heap, p, n)
      /\ broken' = ~AddIsSafe(heap, p, n)

Delete(n) ==
  /\ CAREFUL => ~Stale(heap, n) /\ ~OnlyChild(heap, n)
  /\ heap' = DeleteNode(heap, n)
  /\ broken' = ~DeleteIsSafe(heap, n)

Clone(n) ==
  /\ broken' = ~IsTree(heap, n)
  /\ IF broken' THEN heap' = heap
     ELSE \E f \in Injection(Tree(heap, n), Unused(heap)) : heap' = Copy(heap, n, f)

\* _wilddog_node_setKey, of a root.
SetKey(n, k) == n \in Roots(heap) /\ heap' = [heap EXCEPT ![n].key = k]

\* Mutant of SetValue: of a null node, too.
SetValueOnNull(n, v) == heap[n].val # "object" /\ heap' = [heap EXCEPT ![n].val = v]

\* wilddog_node_setValue: done only where the type has a value.
SetValue(n, v) == heap[n].val \in Values /\ heap' = [heap EXCEPT ![n].val = v]

\* _wilddog_conn_cb_getCallback: the answer r is shown and deleted.
Show(r, L) ==
  LET h == Shown(heap, r, L)
  IN  /\ r \in Roots(heap)
      /\ heap' = Free(h, r)
      /\ broken' = ~IsTree(h, r)

Init == heap = [n \in Nodes |-> Freed] /\ broken = FALSE

Next ==
  /\ broken = FALSE
  /\ \/ \E c \in Contents : Create(c) /\ UNCHANGED broken
     \/ \E n \in Used(heap) :
          \/ \E p \in Used(heap) : Add(p, n)
          \/ Delete(n)
          \/ Clone(n)
          \/ \E k \in Keys : SetKey(n, k) /\ UNCHANGED broken
          \/ \E v \in Values : SetValue(n, v) /\ UNCHANGED broken
          \/ \E L \in Listeners : Show(n, L)

Spec == Init /\ [][Next]_vars
-------------------------------------------------------------------------------
\* API manual, wilddog_node_addChild: a child is found from its parent, through
\* p_wn_child and p_wn_next.
ChildIsFound == \A n \in Used(heap) : heap[n].parent # Null => n \in Kids(heap, heap[n].parent)

\* No call uses freed memory, frees a node twice or fails to return: the
\* listeners of a trigger get their part of the tree and the tree back whole.
NeverBroken == ~broken

\* The links agree: what the loops over brothers, the deletion by prev and the
\* clone each take for the tree is the same tree.  A prev leads to the brother
\* before, Null at the first, unless it is stale.
ListsRight ==
  \A p \in Used(heap) :
    LET kids == Kids(heap, p)
    IN  /\ kids # {} => heap[p].val = "object"
        /\ heap[p].parent = Null => heap[p].prev = Null /\ heap[p].next = Null
        /\ \A n \in kids :
             /\ n \in Used(heap) /\ heap[n].parent = p
             /\ n \notin List(heap, heap[n].next)
             /\ \A m \in kids \ {n} : heap[m].key # heap[n].key
             /\ \/ Stale(heap, n)
                \/ n = heap[p].child /\ heap[n].prev = Null
                \/ heap[n].prev \in kids /\ heap[heap[n].prev].next = n

\* The nodes at the path p of the tree r.
At(h, r, p) ==
  LET at[i \in 0..Len(p)] ==
        IF i = 0 THEN {r}
        ELSE UNION {{m \in Kids(h, n) : h[m].key = p[i]} : n \in at[i - 1]}
  IN  at[Len(p)]

\* No node that the path leads past has a key that a name of the path only
\* begins with.
Unambiguous(h, r, p) ==
  \A i \in DOMAIN p : \A n \in At(h, r, SubSeq(p, 1, i - 1)) :
    \A m \in Kids(h, n) : ~IsStrictPrefix(h[m].key, p[i])

\* wilddog_node_find returns the node at the path, or none if there is none,
\* unless a key is the beginning of a name that is looked for.
FindIsRight ==
  \A r \in Roots(heap), p \in BoundedSeq(Keys, 2) :
    Unambiguous(heap, r, p) =>
      IF At(heap, r, p) = {} THEN Find(heap, r, p) = Null
      ELSE At(heap, r, p) = {Find(heap, r, p)}
===============================================================================
