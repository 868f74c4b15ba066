------------------------ MODULE WilddogClientProofs ------------------------
(***************************************************************************)
(* The client tree, for every set of hosts, paths, tokens and references:  *)
(* whatever is created, destroyed and called, in whatever order and between *)
(* which steps of the loop.                                                *)
(***************************************************************************)
EXTENDS WilddogClient, FiniteSetTheorems, SequenceTheorems, TLAPS

Statuses == {"INIT", "NOTAUTHED", "AUTHING", "AUTHED"}

Repos ==
  [status : Statuses, offline : BOOLEAN,
   auth : [on : BOOLEAN, token : Tokens \cup {None}],
   as : Tokens \cup {None}, stored : Tokens \cup {None},
   listens : BOOLEAN, told : BOOLEAN]

TypeOK ==
  /\ container \in [started : BOOLEAN, online : BOOLEAN, forced : BOOLEAN]
  /\ repos \in Seq(Hosts)
  /\ repo \in [Hosts -> Repos]
  /\ ref \in [Refs -> [used : BOOLEAN, host : Hosts \cup {None}, path : Paths \cup {None}]]
  /\ loop \in [on : BOOLEAN, rest : Seq(Hosts), total : Nat, offline : Nat, moved : BOOLEAN]

\* A host is in the list once.
Once(s) == \A i, j \in 1 .. Len(s) : s[i] = s[j] => i = j

\* What the list of the repos and the references know of each other.
Tree ==
  /\ Once(repos)
  /\ \A r \in Used : ref[r].host \in Hosts /\ ref[r].path \in Paths
  /\ \A r, s \in Used : ref[r] = ref[s] => r = s
  /\ Live = {ref[r].host : r \in Used}
  /\ container.started = (repos # <<>>)

\* What is on its way is nobody's or in the name of what is stored, as the
\* session is.
Mine(c) ==
  /\ c.auth.on => c.auth.token \in {None, c.stored}
  /\ c.status = "AUTHED" => c.as \in {None, c.stored}

\* How far the loop has come, and what it has counted.  A repo that a callback
\* creates in the meantime makes its counts those of another list.
Visited ==
  /\ loop.on => \A i \in 1 .. Len(loop.rest) : loop.rest[i] \in Live
  /\ loop.on /\ ~loop.moved =>
       /\ loop.total <= Len(repos)
       /\ loop.rest = SubSeq(repos, loop.total + 1, Len(repos))
       /\ loop.offline = Cardinality({i \in 1 .. loop.total : repo[repos[i]].offline})

IInv == /\ TypeOK /\ Tree /\ ListenersKnow /\ Visited
        /\ \A h \in Hosts : Mine(repo[h])
-----------------------------------------------------------------------------
(* The list of the repos.                                                    *)

LEMMA RemoveAtElements ==
  ASSUME NEW S, NEW s \in Seq(S), NEW i \in 1 .. Len(s)
  PROVE  /\ RemoveAt(s, i) \in Seq(S)
         /\ Len(RemoveAt(s, i)) = Len(s) - 1
         /\ \A j \in 1 .. Len(s) - 1 :
              RemoveAt(s, i)[j] = IF j < i THEN s[j] ELSE s[j + 1]
<1> DEFINE a == SubSeq(s, 1, i - 1)
           b == SubSeq(s, i + 1, Len(s))
<1>1. /\ a \in Seq(S) /\ Len(a) = i - 1
      /\ \A j \in 1 .. i - 1 : a[j] = s[j]
  BY SubSeqProperties, ElementOfSeq, LenProperties
<1>2. /\ b \in Seq(S) /\ Len(b) = Len(s) - i
      /\ \A j \in 1 .. Len(s) - i : b[j] = s[i + j]
  BY SubSeqProperties, ElementOfSeq, LenProperties
<1>3. RemoveAt(s, i) = a \o b
  BY DEF RemoveAt
<1> HIDE DEF a, b
<1>4. /\ a \o b \in Seq(S) /\ Len(a \o b) = Len(s) - 1
      /\ \A j \in 1 .. Len(s) - 1 : (a \o b)[j] = IF j < i THEN a[j] ELSE b[j - i + 1]
  BY <1>1, <1>2, ConcatProperties, LenProperties
<1>5. QED
  BY <1>1, <1>2, <1>3, <1>4, LenProperties

\* What has been removed from a list that has it once is no longer in it; the
\* others stay.
LEMMA RemoveFirstOnce ==
  ASSUME NEW S, NEW s \in Seq(S), Once(s), NEW h, Contains(s, h)
  PROVE  /\ RemoveFirst(s, h) \in Seq(S)
         /\ Once(RemoveFirst(s, h))
         /\ \A g : Contains(RemoveFirst(s, h), g) <=> g # h /\ Contains(s, g)
<1>1. PICK i \in 1 .. Len(s) : s[i] = h
  BY DEF Contains
<1>2. {j \in 1 .. Len(s) : s[j] = h} = {i}
  BY <1>1 DEF Once
<1>3. Min({i}) = i
  BY <1>1, LenProperties DEF Min
<1>4. RemoveFirst(s, h) = RemoveAt(s, i)
  BY <1>1, <1>2, <1>3 DEF RemoveFirst, SelectInSeq
<1> DEFINE q == RemoveAt(s, i)
<1>5. /\ q \in Seq(S) /\ Len(q) = Len(s) - 1
      /\ \A j \in 1 .. Len(s) - 1 : q[j] = IF j < i THEN s[j] ELSE s[j + 1]
  BY RemoveAtElements
<1> HIDE DEF q
<1>6. Len(s) \in Nat
  BY LenProperties
<1>7. Once(q)
  BY <1>1, <1>5, <1>6 DEF Once
<1>8. ASSUME NEW g
      PROVE  Contains(q, g) <=> g # h /\ Contains(s, g)
  <2>1. ASSUME Contains(q, g)
        PROVE  g # h /\ Contains(s, g)
    BY <1>1, <1>5, <1>6, <2>1 DEF Contains, Once
  <2>2. ASSUME g # h, Contains(s, g)
        PROVE  Contains(q, g)
    <3>1. PICK j \in 1 .. Len(s) : s[j] = g
      BY <2>2 DEF Contains
    <3>2. CASE j < i
      BY <1>1, <1>5, <1>6, <3>1, <3>2 DEF Contains
    <3>3. CASE j > i
      <4>1. j - 1 \in 1 .. Len(q) /\ q[j - 1] = g
        BY <1>1, <1>5, <1>6, <3>1, <3>3
      <4>2. QED
        BY <4>1 DEF Contains
    <3>4. QED
      BY <1>1, <2>2, <3>1, <3>2, <3>3
  <2>3. QED
    BY <2>1, <2>2
<1>9. QED
  BY <1>4, <1>5, <1>7, <1>8 DEF q

LEMMA AppendOnce ==
  ASSUME NEW S, NEW s \in Seq(S), Once(s), NEW h \in S, ~Contains(s, h)
  PROVE  /\ Append(s, h) \in Seq(S)
         /\ Once(Append(s, h))
         /\ \A g : Contains(Append(s, h), g) <=> g = h \/ Contains(s, g)
<1> DEFINE q == Append(s, h)
<1>1. /\ q \in Seq(S) /\ Len(q) = Len(s) + 1 /\ q[Len(s) + 1] = h
      /\ \A i \in 1 .. Len(s) : q[i] = s[i]
  BY AppendProperties
<1>2. Len(s) \in Nat
  BY LenProperties
<1> HIDE DEF q
<1>3. Once(q)
  BY <1>1, <1>2 DEF Once, Contains
<1>4. ASSUME NEW g
      PROVE  Contains(q, g) <=> g = h \/ Contains(s, g)
  <2>1. Len(s) + 1 \in 1 .. Len(q)
    BY <1>1, <1>2
  <2>2. \A i \in 1 .. Len(q) : i \in 1 .. Len(s) \/ i = Len(s) + 1
    BY <1>1, <1>2
  <2>3. \A i \in 1 .. Len(s) : i \in 1 .. Len(q)
    BY <1>1, <1>2
  <2>4. QED
    BY <1>1, <2>1, <2>2, <2>3 DEF Contains
<1>5. QED
  BY <1>1, <1>3, <1>4 DEF q

\* Whoever is in a list once is counted once.
LEMMA CountOnce ==
  ASSUME NEW S, NEW s \in Seq(S), Once(s),
         NEW L, L = {h \in S : Contains(s, h)}
  PROVE  Cardinality(L) = Len(s)
<1>1. Len(s) \in Nat /\ s \in [1 .. Len(s) -> S]
  BY LenProperties
<1>2. s \in [1 .. Len(s) -> L]
  BY <1>1 DEF Contains
<1>3. s \in Bijection(1 .. Len(s), L)
  <2>1. IsInjective(s)
    BY <1>1 DEF Once, IsInjective
  <2>2. \A h \in L : \E i \in 1 .. Len(s) : s[i] = h
    BY DEF Contains
  <2>3. QED
    BY <1>2, <2>1, <2>2 DEF Bijection, Injection, Surjection
<1>4. QED
  BY <1>1, <1>3, FS_CountingElements DEF ExistsBijection
-----------------------------------------------------------------------------
(* The steps.  What a step leaves alone keeps the part about it.             *)

LEMMA InitialRepo == NewRepo \in Repos /\ Mine(NewRepo)
  BY DEF NewRepo, Repos, Statuses, Mine

LEMMA SameTree ==
  ASSUME Tree, UNCHANGED <<repos, ref>>, container'.started = container.started
  PROVE  Tree'
  BY DEF Tree, Live, Used, Once, Contains

LEMMA SameVisited ==
  ASSUME TypeOK, Visited, UNCHANGED <<repos, loop>>,
         \A h \in Hosts : repo'[h].offline = repo[h].offline
  PROVE  Visited'
<1>1. Live' = Live
  BY DEF Live, Contains
<1>2. loop.on /\ ~loop.moved =>
        {i \in 1 .. loop.total : repo'[repos[i]].offline}
          = {i \in 1 .. loop.total : repo[repos[i]].offline}
  <2> SUFFICES ASSUME loop.on, ~loop.moved, NEW i \in 1 .. loop.total
               PROVE  repos[i] \in Hosts
    OBVIOUS
  <2>1. i \in 1 .. Len(repos)
    BY LenProperties DEF Visited, TypeOK
  <2>2. QED
    BY <2>1, ElementOfSeq DEF TypeOK
<1>3. QED
  BY <1>1, <1>2 DEF Visited

LEMMA AuthenticatedRepo ==
  ASSUME NEW c \in Repos, NEW t \in Tokens \cup {None}
  PROVE  LET d == Authenticated(c, t)
         IN  /\ d \in Repos /\ d.status = "AUTHING" /\ d.auth.on /\ d.auth.token = t
             /\ d.stored = c.stored /\ d.offline = c.offline
             /\ d.listens = c.listens /\ d.told = c.told
  BY DEF Authenticated, Repos, Statuses

\* What trySync does to a repo.
LEMMA TrySyncRepo ==
  ASSUME NEW c \in Repos, Mine(c), NEW d \in TrySync(c)
  PROVE  d \in Repos /\ Mine(d) /\ d.listens = c.listens /\ d.told = c.told
<1> DEFINE Fine(e) == e \in Repos /\ Mine(e) /\ e.listens = c.listens /\ e.told = c.told
<1>1. ASSUME NEW e \in AuthEnds(c), c.auth.on
      PROVE  Fine(e)
  <2> DEFINE done == [c EXCEPT !.auth.on = FALSE]
  <2>1. /\ done \in Repos /\ ~done.auth.on /\ done.stored = c.stored
        /\ done.listens = c.listens /\ done.told = c.told
    BY DEF Repos
  <2>2. c.auth.token \in {None, c.stored} /\ c.auth.token \in Tokens \cup {None}
    BY <1>1 DEF Mine, Repos
  <2>3. \/ e = [done EXCEPT !.status = "AUTHED", !.as = c.auth.token, !.offline = FALSE]
        \/ e = [done EXCEPT !.status = "NOTAUTHED", !.stored = None]
        \/ \E s \in {"INIT", "NOTAUTHED"} :
             \/ e = [done EXCEPT !.status = s]
             \/ e = [done EXCEPT !.status = s, !.offline = TRUE]
    BY DEF AuthEnds
  <2> HIDE DEF done
  <2>4. CASE e = [done EXCEPT !.status = "AUTHED", !.as = c.auth.token, !.offline = FALSE]
    <3>1. e \in Repos
      BY <2>1, <2>2, <2>4 DEF Repos, Statuses
    <3>2. /\ e.auth = done.auth /\ e.as = c.auth.token /\ e.stored = done.stored
          /\ e.listens = done.listens /\ e.told = done.told
      BY <2>1, <2>4 DEF Repos
    <3>3. QED
      BY <2>1, <2>2, <3>1, <3>2 DEF Mine
  <2>5. ASSUME NEW s \in {"INIT", "NOTAUTHED"}, NEW t \in Tokens \cup {None},
               NEW o \in BOOLEAN,
               e = [done EXCEPT !.status = s, !.stored = t, !.offline = o]
        PROVE  Fine(e)
    <3>1. e \in Repos
      BY <2>1, <2>5 DEF Repos, Statuses
    <3>2. /\ e.auth = done.auth /\ e.status = s
          /\ e.listens = done.listens /\ e.told = done.told
      BY <2>1, <2>5 DEF Repos
    <3>3. QED
      BY <2>1, <3>1, <3>2 DEF Mine
  <2>6. \A s \in {"INIT", "NOTAUTHED"} :
          /\ [done EXCEPT !.status = s, !.stored = None]
               = [done EXCEPT !.status = s, !.stored = None, !.offline = done.offline]
          /\ [done EXCEPT !.status = s]
               = [done EXCEPT !.status = s, !.stored = done.stored, !.offline = done.offline]
          /\ [done EXCEPT !.status = s, !.offline = TRUE]
               = [done EXCEPT !.status = s, !.stored = done.stored, !.offline = TRUE]
    BY <2>1 DEF Repos
  <2>7. done.stored \in Tokens \cup {None} /\ done.offline \in BOOLEAN
    BY <2>1 DEF Repos
  <2>8. \/ e = [done EXCEPT !.status = "AUTHED", !.as = c.auth.token, !.offline = FALSE]
        \/ \E s \in {"INIT", "NOTAUTHED"}, t \in Tokens \cup {None}, o \in BOOLEAN :
             e = [done EXCEPT !.status = s, !.stored = t, !.offline = o]
    <3>1. CASE e = [done EXCEPT !.status = "NOTAUTHED", !.stored = None]
      BY <2>6, <2>7, <3>1
    <3>2. ASSUME NEW s \in {"INIT", "NOTAUTHED"},
                 \/ e = [done EXCEPT !.status = s]
                 \/ e = [done EXCEPT !.status = s, !.offline = TRUE]
          PROVE  \E t \in Tokens \cup {None}, o \in BOOLEAN :
                   e = [done EXCEPT !.status = s, !.stored = t, !.offline = o]
      BY <2>6, <2>7, <3>2
    <3>3. QED
      BY <2>3, <3>1, <3>2
  <2> HIDE DEF Fine
  <2>9. QED
    BY <2>4, <2>5, <2>8
<1>2. ASSUME NEW e, Fine(e)
      PROVE  Fine([e EXCEPT !.status = "NOTAUTHED"])
  BY <1>2 DEF Repos, Statuses, Mine
<1>3. ASSUME NEW e, Fine(e), NEW f \in Retried(e)
      PROVE  Fine(f)
  <2>1. f \in {Authenticated(e, None), e}
    BY <1>3 DEF Retried
  <2>2. Fine(Authenticated(e, None))
    BY <1>3, AuthenticatedRepo DEF Mine
  <2>3. QED
    BY <1>3, <2>1, <2>2
<1> DEFINE ended == {c} \cup (IF c.auth.on THEN AuthEnds(c) ELSE {})
           lost  == {[e EXCEPT !.status = "NOTAUTHED"] : e \in ended}
<1>4. PICK f \in ended \cup lost : d \in Retried(f)
  BY DEF TrySync
<1>5. \A e \in ended : Fine(e)
  BY <1>1
<1> HIDE DEF ended, Fine
<1>6. Fine(f)
  BY <1>2, <1>4, <1>5
<1>7. Fine(d)
  BY <1>3, <1>4, <1>6
<1>8. QED
  BY <1>7 DEF Fine

LEMMA NewRefKeeps ==
  ASSUME TypeOK, Tree, NEW h \in Hosts, NEW p \in Paths, FindRef(h, p) = {}, NewRef(h, p)
  PROVE  /\ ref' \in [Refs -> [used : BOOLEAN, host : Hosts \cup {None},
                               path : Paths \cup {None}]]
         /\ \A r \in Used' : ref'[r].host \in Hosts /\ ref'[r].path \in Paths
         /\ \A r, s \in Used' : ref'[r] = ref'[s] => r = s
         /\ {ref'[r].host : r \in Used'} = {ref[r].host : r \in Used} \cup {h}
<1>1. PICK n \in Refs \ Used :
        ref' = [ref EXCEPT ![n] = [used |-> TRUE, host |-> h, path |-> p]]
  BY DEF NewRef
<1>2. /\ n \in Refs /\ n \notin Used /\ Used' = Used \cup {n}
      /\ ref'[n] = [used |-> TRUE, host |-> h, path |-> p]
      /\ \A r \in Used : ref'[r] = ref[r]
  BY <1>1 DEF Used, TypeOK
<1>3. \A r \in Used : ~(ref[r].host = h /\ ref[r].path = p)
  BY DEF FindRef, RefsOf
<1>4. ref' \in [Refs -> [used : BOOLEAN, host : Hosts \cup {None}, path : Paths \cup {None}]]
  BY <1>1 DEF TypeOK
<1>5. \A r \in Used' : ref'[r].host \in Hosts /\ ref'[r].path \in Paths
  BY <1>2 DEF Tree
<1>6. \A r, s \in Used' : ref'[r] = ref'[s] => r = s
  BY <1>2, <1>3 DEF Tree
<1>7. {ref'[r].host : r \in Used'} = {ref[r].host : r \in Used} \cup {h}
  BY <1>2
<1>8. QED
  BY <1>4, <1>5, <1>6, <1>7

LEMMA SomeRepo ==
  ASSUME TypeOK, Tree
  PROVE  /\ (repos = <<>>) <=> (Live = {})
         /\ Live \subseteq Hosts
<1>1. repos # <<>> => Contains(repos, repos[1]) /\ repos[1] \in Hosts
  BY ElementOfSeq, LenProperties, EmptySeq DEF TypeOK, Contains
<1>2. repos = <<>> => Len(repos) = 0
  BY EmptySeq
<1>3. QED
  BY <1>1, <1>2 DEF Live, Contains

LEMMA CreateRefKeeps ==
  ASSUME IInv, NEW h \in Hosts, NEW p \in Paths, CreateRef(h, p)
  PROVE  IInv'
<1> USE DEF IInv
<1>0. FindRef(h, p) = {} /\ NewRef(h, p)
  BY DEF CreateRef
<1>1. CASE h \in Live
  <2>1. container.started
    BY <1>1, SomeRepo DEF Tree
  <2>2. UNCHANGED <<container, repos, repo, loop>>
    BY <1>1, <2>1 DEF CreateRef
  <2>3. Live' = Live
    BY <2>2 DEF Live, Contains
  <2>4. TypeOK'
    BY <1>0, <2>2, NewRefKeeps DEF TypeOK
  <2>5. Tree'
    BY <1>0, <1>1, <2>2, <2>3, NewRefKeeps DEF Tree, Once
  <2>6. ListenersKnow' /\ Visited'
    BY <2>2, <2>3 DEF ListenersKnow, Visited
  <2>7. QED
    BY <2>2, <2>4, <2>5, <2>6
<1>2. CASE h \notin Live
  <2>1. /\ repos' = Append(repos, h) /\ repo' = [repo EXCEPT ![h] = NewRepo]
        /\ loop' = [loop EXCEPT !.moved = loop.on]
    BY <1>2 DEF CreateRef
  <2>2. ~Contains(repos, h) /\ Once(repos) /\ repos \in Seq(Hosts)
    BY <1>2 DEF Live, Tree, TypeOK
  <2>3. repos' \in Seq(Hosts) /\ Once(repos') /\ Live' = Live \cup {h} /\ repos' # <<>>
    <3>1. /\ Append(repos, h) \in Seq(Hosts) /\ Once(Append(repos, h))
          /\ \A g : Contains(Append(repos, h), g) <=> g = h \/ Contains(repos, g)
      BY <2>2, AppendOnce
    <3>2. Append(repos, h) # <<>>
      BY <2>2, AppendProperties
    <3>3. QED
      BY <2>1, <3>1, <3>2 DEF Live, Once
  <2>4. /\ container' \in [started : BOOLEAN, online : BOOLEAN, forced : BOOLEAN]
        /\ container'.started
        /\ container.started => container'.online = container.online
    BY DEF CreateRef, TypeOK
  <2>5. TypeOK'
    BY <1>0, <2>1, <2>3, <2>4, NewRefKeeps, InitialRepo DEF TypeOK
  <2>6. Tree'
    BY <1>0, <2>3, <2>4, NewRefKeeps DEF Tree, Once
  <2>7. ListenersKnow'
    <3> SUFFICES ASSUME NEW g \in Live', repo'[g].listens
                 PROVE  repo'[g].told = container'.online
      BY DEF ListenersKnow
    <3>1. g # h
      BY <2>1 DEF NewRepo, TypeOK
    <3>2. g \in Live /\ repo'[g] = repo[g]
      BY <2>1, <2>3, <3>1, SomeRepo DEF TypeOK
    <3>3. container.started
      BY <3>2, SomeRepo DEF Tree
    <3>4. QED
      BY <2>4, <3>2, <3>3 DEF ListenersKnow
  <2>8. Visited'
    BY <2>1, <2>3 DEF Visited, TypeOK
  <2>9. \A g \in Hosts : Mine(repo'[g])
    BY <2>1, InitialRepo DEF TypeOK
  <2>10. QED
    BY <2>5, <2>6, <2>7, <2>8, <2>9
<1>3. QED
  BY <1>1, <1>2

LEMMA GetRefKeeps ==
  ASSUME IInv, NEW r \in Used, NEW p \in Paths, GetRef(r, p)
  PROVE  IInv'
<1> USE DEF IInv
<1>1. /\ FindRef(ref[r].host, p) = {} /\ NewRef(ref[r].host, p)
      /\ UNCHANGED <<container, repos, repo, loop>>
  BY DEF GetRef
<1>2. ref[r].host \in Hosts /\ ref[r].host \in Live
  BY DEF Tree
<1>3. Live' = Live
  BY <1>1 DEF Live, Contains
<1>4. TypeOK'
  BY <1>1, <1>2, NewRefKeeps DEF TypeOK
<1>5. Tree'
  BY <1>1, <1>2, <1>3, NewRefKeeps DEF Tree, Once
<1>6. ListenersKnow' /\ Visited'
  BY <1>1, <1>3 DEF ListenersKnow, Visited
<1>7. QED
  BY <1>1, <1>4, <1>5, <1>6

LEMMA DestroyRefKeeps ==
  ASSUME IInv, NEW r \in Used, DestroyRef(r)
  PROVE  IInv'
<1> USE DEF IInv
<1> DEFINE h == ref[r].host
<1>1. /\ r \in Refs /\ h \in Hosts /\ h \in Live
      /\ Used' = Used \ {r} /\ \A s \in Used' : ref'[s] = ref[s]
      /\ ref' \in [Refs -> [used : BOOLEAN, host : Hosts \cup {None}, path : Paths \cup {None}]]
  BY DEF Tree, Used, DestroyRef, Free, TypeOK
<1>2. container.started /\ repos # <<>>
  BY <1>1, SomeRepo DEF Tree
<1>3. CASE RefsOf(h) # {r}
  <2>1. repos' = repos /\ repo' = repo /\ loop' = loop
    BY <1>3 DEF DestroyRef
  <2>2. container' = container
    BY <1>2, <2>1 DEF DestroyRef
  <2>3. PICK s \in Used : s # r /\ ref[s].host = h
    BY <1>3 DEF RefsOf
  <2>4. {ref'[t].host : t \in Used'} = {ref[t].host : t \in Used}
    BY <1>1, <2>3
  <2>5. Live' = Live
    BY <2>1 DEF Live, Contains
  <2>6. TypeOK'
    BY <1>1, <2>1, <2>2 DEF TypeOK
  <2>7. Tree'
    BY <1>1, <2>1, <2>2, <2>4, <2>5 DEF Tree, Once
  <2>8. ListenersKnow' /\ Visited'
    BY <2>1, <2>2, <2>5 DEF ListenersKnow, Visited
  <2>9. QED
    BY <2>1, <2>6, <2>7, <2>8
<1>4. CASE RefsOf(h) = {r}
  <2>1. /\ ~loop.on /\ loop' = loop
        /\ repos' = RemoveFirst(repos, h) /\ repo' = [repo EXCEPT ![h] = NewRepo]
    BY <1>4 DEF DestroyRef
  <2>2. repos' \in Seq(Hosts) /\ Once(repos') /\ Live' = Live \ {h}
    <3>1. repos \in Seq(Hosts) /\ Once(repos) /\ Contains(repos, h)
      BY <1>1 DEF TypeOK, Tree, Live
    <3>2. /\ RemoveFirst(repos, h) \in Seq(Hosts) /\ Once(RemoveFirst(repos, h))
          /\ \A g : Contains(RemoveFirst(repos, h), g) <=> g # h /\ Contains(repos, g)
      BY <3>1, RemoveFirstOnce
    <3>3. QED
      BY <2>1, <3>2 DEF Live, Once
  <2>3. {ref'[t].host : t \in Used'} = {ref[t].host : t \in Used} \ {h}
    BY <1>1, <1>4 DEF RefsOf
  <2>4. /\ container' \in [started : BOOLEAN, online : BOOLEAN, forced : BOOLEAN]
        /\ container'.started = (repos' # <<>>)
        /\ repos' # <<>> => container' = container
    BY <1>2 DEF DestroyRef, TypeOK
  <2>5. TypeOK'
    BY <1>1, <2>1, <2>2, <2>4, InitialRepo DEF TypeOK
  <2>6. Tree'
    <3>1. Once(repos)'
      BY <2>2 DEF Once
    <3>2. \A s \in Used' : ref'[s].host \in Hosts /\ ref'[s].path \in Paths
      BY <1>1 DEF Tree
    <3>3. \A s, t \in Used' : ref'[s] = ref'[t] => s = t
      BY <1>1 DEF Tree
    <3>4. Live' = {ref'[t].host : t \in Used'}
      BY <2>2, <2>3 DEF Tree
    <3>5. QED
      BY <2>4, <3>1, <3>2, <3>3, <3>4 DEF Tree
  <2>7. ListenersKnow'
    <3> SUFFICES ASSUME NEW g \in Live', repo'[g].listens
                 PROVE  repo'[g].told = container'.online
      BY DEF ListenersKnow
    <3>1. g \in Live /\ repo'[g] = repo[g]
      BY <2>1, <2>2, SomeRepo DEF TypeOK
    <3>2. repos' # <<>>
      <4>1. Contains(repos', g)
        BY DEF Live
      <4>2. QED
        BY <4>1, EmptySeq DEF Contains
    <3>3. QED
      BY <2>4, <3>1, <3>2 DEF ListenersKnow
  <2>8. Visited'
    BY <2>1 DEF Visited
  <2>9. \A g \in Hosts : Mine(repo'[g])
    BY <2>1, InitialRepo DEF TypeOK
  <2>10. QED
    BY <2>5, <2>6, <2>7, <2>8, <2>9
<1>5. QED
  BY <1>3, <1>4

\* A step that changes repos one by one and no list: what is left to show of it
\* is about each repo.
LEMMA RepoStepKeeps ==
  ASSUME IInv, UNCHANGED <<repos, ref, loop>>,
         container' \in [started : BOOLEAN, online : BOOLEAN, forced : BOOLEAN],
         container'.started = container.started,
         repo' \in [Hosts -> Repos],
         \A h \in Hosts : /\ Mine(repo'[h])
                          /\ repo'[h].offline = repo[h].offline
                          /\ h \in Live /\ repo'[h].listens => repo'[h].told = container'.online
  PROVE  IInv'
<1>1. TypeOK' /\ Tree' /\ Visited'
  BY SameTree, SameVisited DEF IInv, TypeOK
<1>2. Live' = Live
  BY DEF Live, Contains
<1>3. ListenersKnow'
  BY <1>2 DEF ListenersKnow, Live
<1>4. QED
  BY <1>1, <1>3 DEF IInv

LEMMA ListenKeeps ==
  ASSUME IInv, NEW r \in Used, Listen(r) \/ Unlisten(r)
  PROVE  IInv'
<1> DEFINE h == ref[r].host
<1>1. PICK l \in BOOLEAN, t \in BOOLEAN :
        /\ repo' = [repo EXCEPT ![h] = [repo[h] EXCEPT !.listens = l, !.told = t]]
        /\ l => t = container.online
  <2> DEFINE R(l, t) == [repo EXCEPT ![h] = [repo[h] EXCEPT !.listens = l, !.told = t]]
  <2>1. h \in Hosts /\ repo \in [Hosts -> Repos] /\ container.online \in BOOLEAN
    BY DEF IInv, Tree, TypeOK
  <2>2. CASE Listen(r)
    <3>1. repo' = R(TRUE, container.online)
      BY <2>1, <2>2 DEF Listen, Repos
    <3>2. QED
      BY <2>1, <3>1
  <2>3. CASE Unlisten(r)
    <3>1. repo' = R(FALSE, FALSE)
      BY <2>1, <2>3 DEF Unlisten, Repos
    <3>2. QED
      BY <3>1
  <2>4. QED
    BY <2>2, <2>3
<1>2. UNCHANGED <<container, repos, ref, loop>>
  BY DEF Listen, Unlisten
<1>3. h \in Hosts /\ repo[h] \in Repos
  BY DEF IInv, Tree, TypeOK
<1> DEFINE d == [repo[h] EXCEPT !.listens = l, !.told = t]
<1>4. d \in Repos /\ d.listens = l /\ d.told = t /\ d.offline = repo[h].offline
  BY <1>3 DEF Repos
<1>5. Mine(d)
  BY <1>3 DEF Mine, Repos, IInv
<1> HIDE DEF d
<1>6. /\ repo' \in [Hosts -> Repos] /\ repo'[h] = d
      /\ \A g \in Hosts \ {h} : repo'[g] = repo[g]
  BY <1>1, <1>3, <1>4 DEF d, IInv, TypeOK
<1>7. \A g \in Hosts : g \in Live /\ repo'[g].listens => repo'[g].told = container'.online
  BY <1>1, <1>2, <1>4, <1>6 DEF IInv, ListenersKnow
<1>8. QED
  BY <1>2, <1>4, <1>5, <1>6, <1>7, RepoStepKeeps DEF IInv, TypeOK

LEMMA SetAuthKeeps ==
  ASSUME IInv, NEW h \in Hosts, NEW t \in Tokens \cup {None}, SetAuth(h, t)
  PROVE  IInv'
<1> DEFINE a == Authenticated(repo[h], t)
           d == [a EXCEPT !.stored = t]
<1>1. repo' = [repo EXCEPT ![h] = d] /\ UNCHANGED <<container, repos, ref, loop>>
  BY DEF SetAuth
<1>2. /\ repo[h] \in Repos /\ a \in Repos /\ a.status = "AUTHING" /\ a.auth.token = t
      /\ a.offline = repo[h].offline
      /\ a.listens = repo[h].listens /\ a.told = repo[h].told
  BY AuthenticatedRepo DEF IInv, TypeOK
<1> HIDE DEF a
<1>3. /\ d \in Repos /\ d.status = "AUTHING" /\ d.auth.token = t /\ d.stored = t
      /\ d.offline = repo[h].offline
      /\ d.listens = repo[h].listens /\ d.told = repo[h].told
  BY <1>2 DEF Repos
<1> HIDE DEF d
<1>4. Mine(d)
  BY <1>3 DEF Mine
<1>5. /\ repo' \in [Hosts -> Repos] /\ repo'[h] = d
      /\ \A g \in Hosts \ {h} : repo'[g] = repo[g]
  BY <1>1, <1>3 DEF IInv, TypeOK
<1>6. \A g \in Hosts : g \in Live /\ repo'[g].listens => repo'[g].told = container'.online
  BY <1>1, <1>3, <1>5 DEF IInv, ListenersKnow
<1>7. QED
  BY <1>1, <1>3, <1>4, <1>5, <1>6, RepoStepKeeps DEF IInv, TypeOK

LEMMA GoOfflineKeeps ==
  ASSUME IInv, GoOffline
  PROVE  IInv'
<1>1. /\ UNCHANGED <<repos, repo, ref, loop>>
      /\ container' \in [started : BOOLEAN, online : BOOLEAN, forced : BOOLEAN]
      /\ container'.started = container.started /\ container'.online = container.online
  BY DEF GoOffline, IInv, TypeOK
<1>2. QED
  BY <1>1, RepoStepKeeps DEF IInv, TypeOK, ListenersKnow

LEMMA GoOnlineKeeps ==
  ASSUME IInv, GoOnline
  PROVE  IInv'
<1>1. /\ UNCHANGED <<repos, ref, loop>>
      /\ container' \in [started : BOOLEAN, online : BOOLEAN, forced : BOOLEAN]
      /\ container'.started = container.started /\ container'.online = container.online
  BY DEF GoOnline, IInv, TypeOK
<1>2. repo' = [h \in Hosts |-> IF h \in Live THEN Authenticated(repo[h], repo[h].stored)
                               ELSE repo[h]]
  BY DEF GoOnline
<1>3. ASSUME NEW h \in Hosts
      PROVE  /\ repo'[h] \in Repos /\ Mine(repo'[h])
             /\ repo'[h].offline = repo[h].offline
             /\ repo'[h].listens = repo[h].listens /\ repo'[h].told = repo[h].told
  <2>1. repo[h] \in Repos /\ Mine(repo[h]) /\ repo[h].stored \in Tokens \cup {None}
    BY DEF IInv, TypeOK, Repos
  <2> DEFINE a == Authenticated(repo[h], repo[h].stored)
  <2>2. /\ a \in Repos /\ a.status = "AUTHING" /\ a.auth.token = repo[h].stored
        /\ a.stored = repo[h].stored /\ a.offline = repo[h].offline
        /\ a.listens = repo[h].listens /\ a.told = repo[h].told
    BY <2>1, AuthenticatedRepo
  <2> HIDE DEF a
  <2>3. Mine(a)
    BY <2>2 DEF Mine
  <2>4. repo'[h] = a \/ repo'[h] = repo[h]
    BY <1>2 DEF a
  <2>5. QED
    BY <2>1, <2>2, <2>3, <2>4
<1>4. repo' \in [Hosts -> Repos]
  BY <1>2, <1>3
<1>5. QED
  BY <1>1, <1>3, <1>4, RepoStepKeeps DEF IInv, ListenersKnow

LEMMA SyncKeeps ==
  ASSUME IInv, Sync
  PROVE  IInv'
<1>1. /\ UNCHANGED <<container, repos, repo, ref>>
      /\ loop' = [on |-> TRUE, rest |-> repos, total |-> 0, offline |-> 0, moved |-> FALSE]
  BY DEF Sync, Idle
<1>2. repos \in Seq(Hosts) /\ Len(repos) \in Nat
  BY LenProperties DEF IInv, TypeOK
<1>3. TypeOK' /\ Tree'
  BY <1>1, <1>2, SameTree DEF IInv, TypeOK
<1>4. Live' = Live
  BY <1>1 DEF Live, Contains
<1>5. ListenersKnow'
  BY <1>1, <1>4 DEF IInv, ListenersKnow
<1>6. \A i \in 1 .. Len(repos) : repos[i] \in Live
  BY <1>2, ElementOfSeq DEF Live, Contains
<1>7. SubSeq(repos, 1, Len(repos)) = repos
  BY <1>2, SubSeqFull
<1>8. {i \in 1 .. 0 : repo[repos[i]].offline} = {}
  OBVIOUS
<1>9. Visited'
  BY <1>1, <1>2, <1>4, <1>6, <1>7, <1>8, FS_EmptySet DEF Visited
<1>10. QED
  BY <1>1, <1>3, <1>5, <1>9 DEF IInv

\* The positions up to n whose repo is offline.
LEMMA CountedSets ==
  ASSUME NEW n \in Nat, NEW S, S \subseteq 1 .. n
  PROVE  /\ IsFiniteSet(S) /\ Cardinality(S) \in Nat
         /\ Cardinality(S \cup {n + 1}) = Cardinality(S) + 1
         /\ Cardinality(S) = n <=> S = 1 .. n
<1>1. IsFiniteSet(1 .. n) /\ Cardinality(1 .. n) = n
  BY FS_Interval
<1>2. IsFiniteSet(S) /\ Cardinality(S) \in Nat /\ (Cardinality(S) = n => S = 1 .. n)
  BY <1>1, FS_Subset, FS_CardinalityType
<1>3. n + 1 \notin S
  OBVIOUS
<1>4. Cardinality(S \cup {n + 1}) = Cardinality(S) + 1
  BY <1>2, <1>3, FS_AddElement
<1>5. QED
  BY <1>1, <1>2, <1>4

LEMMA SyncRepoKeeps ==
  ASSUME IInv, SyncRepo
  PROVE  IInv'
<1> DEFINE h == Head(loop.rest)
<1>1. /\ loop.on /\ loop.rest # <<>> /\ loop.rest \in Seq(Hosts)
      /\ UNCHANGED <<container, repos, ref>>
  BY DEF SyncRepo, IInv, TypeOK
<1>2. PICK c \in TrySync(repo[h]) :
        /\ repo' = [repo EXCEPT ![h] = c]
        /\ loop' = [loop EXCEPT !.rest = Tail(@), !.total = @ + 1,
                                !.offline = IF c.offline THEN @ + 1 ELSE @]
  BY DEF SyncRepo
<1>3. /\ h \in Hosts /\ Tail(loop.rest) \in Seq(Hosts)
      /\ Len(loop.rest) \in Nat /\ Len(Tail(loop.rest)) = Len(loop.rest) - 1
      /\ \A i \in 1 .. Len(Tail(loop.rest)) : Tail(loop.rest)[i] = loop.rest[i + 1]
  BY <1>1, HeadTailProperties, LenProperties
<1>4. c \in Repos /\ Mine(c) /\ c.listens = repo[h].listens /\ c.told = repo[h].told
  BY <1>2, <1>3, TrySyncRepo DEF IInv, TypeOK
<1>5. /\ loop'.on /\ loop'.rest = Tail(loop.rest) /\ loop'.total = loop.total + 1
      /\ loop'.offline = (IF c.offline THEN loop.offline + 1 ELSE loop.offline)
      /\ loop'.moved = loop.moved
      /\ loop.total \in Nat /\ loop.offline \in Nat
      /\ loop' \in [on : BOOLEAN, rest : Seq(Hosts), total : Nat, offline : Nat, moved : BOOLEAN]
  <2> DEFINE k    == IF c.offline THEN loop.offline + 1 ELSE loop.offline
             rest == Tail(loop.rest)
  <2>1. loop \in [on : BOOLEAN, rest : Seq(Hosts), total : Nat, offline : Nat, moved : BOOLEAN]
    BY DEF IInv, TypeOK
  <2>2. k \in Nat /\ rest \in Seq(Hosts)
    BY <1>3, <2>1
  <2>3. loop' = [loop EXCEPT !.rest = rest, !.total = loop.total + 1, !.offline = k]
    BY <1>2, <2>1
  <2> HIDE DEF k, rest
  <2>4. /\ loop'.on = loop.on /\ loop'.rest = rest /\ loop'.total = loop.total + 1
        /\ loop'.offline = k /\ loop'.moved = loop.moved
    BY <2>1, <2>3
  <2>5. loop' \in [on : BOOLEAN, rest : Seq(Hosts), total : Nat, offline : Nat, moved : BOOLEAN]
    <3>1. /\ loop.on \in BOOLEAN /\ loop.moved \in BOOLEAN
          /\ loop.total \in Nat /\ loop.total + 1 \in Nat
      BY <2>1
    <3>2. loop' = [on |-> loop.on, rest |-> rest, total |-> loop.total + 1, offline |-> k,
                   moved |-> loop.moved]
      BY <2>1, <2>3
    <3>3. QED
      BY <2>2, <3>1, <3>2
  <2>6. QED
    BY <1>1, <2>1, <2>4, <2>5 DEF k, rest
<1> HIDE DEF h
<1>6. /\ repo' \in [Hosts -> Repos] /\ repo'[h] = c
      /\ \A g \in Hosts \ {h} : repo'[g] = repo[g]
  BY <1>2, <1>3, <1>4 DEF IInv, TypeOK
<1>7. Live' = Live
  BY <1>1 DEF Live, Contains
<1>8. TypeOK' /\ Tree'
  BY <1>1, <1>5, <1>6, SameTree DEF IInv, TypeOK
<1>9. ListenersKnow'
  BY <1>1, <1>4, <1>6, <1>7 DEF IInv, ListenersKnow, Live
<1>10. \A g \in Hosts : Mine(repo'[g])
  BY <1>4, <1>6 DEF IInv
<1>11. \A i \in 1 .. Len(loop'.rest) : loop'.rest[i] \in Live'
  <2> SUFFICES ASSUME NEW i \in 1 .. Len(Tail(loop.rest))
               PROVE  Tail(loop.rest)[i] \in Live
    BY <1>5, <1>7
  <2>1. i + 1 \in 1 .. Len(loop.rest) /\ Tail(loop.rest)[i] = loop.rest[i + 1]
    BY <1>3
  <2>2. QED
    BY <1>1, <2>1 DEF IInv, Visited
<1>12. ASSUME ~loop'.moved
       PROVE  /\ loop'.total <= Len(repos)
              /\ loop'.rest = SubSeq(repos, loop'.total + 1, Len(repos))
              /\ loop'.offline = Cardinality({i \in 1 .. loop'.total : repo'[repos[i]].offline})
  <2> DEFINE n == loop.total
             off  == {i \in 1 .. n : repo[repos[i]].offline}
             offn == {i \in 1 .. n + 1 : repo'[repos[i]].offline}
  <2>1. /\ n \in Nat /\ n <= Len(repos) /\ Len(repos) \in Nat
        /\ loop.rest = SubSeq(repos, n + 1, Len(repos)) /\ loop.offline = Cardinality(off)
        /\ repos \in Seq(Hosts) /\ Once(repos)
    BY <1>1, <1>5, <1>12, LenProperties DEF IInv, Visited, Tree, TypeOK
  <2>2. n + 1 <= Len(repos)
    BY <1>1, <2>1, SubSeqEmpty
  <2>3. h = repos[n + 1] /\ Tail(loop.rest) = SubSeq(repos, n + 2, Len(repos))
    <3>1. n + 1 \in 1 .. Len(repos) /\ Len(repos) \in n + 1 .. Len(repos)
      BY <2>1, <2>2
    <3>2. n + 1 + 1 = n + 2
      BY <2>1
    <3>3. /\ Head(SubSeq(repos, n + 1, Len(repos))) = repos[n + 1]
          /\ Tail(SubSeq(repos, n + 1, Len(repos))) = SubSeq(repos, n + 1 + 1, Len(repos))
      BY <2>1, <3>1, HeadTailOfSubSeq
    <3>4. QED
      BY <2>1, <3>2, <3>3 DEF h
  <2>4. \A i \in 1 .. n : repo'[repos[i]] = repo[repos[i]]
    <3> SUFFICES ASSUME NEW i \in 1 .. n
                 PROVE  repos[i] \in Hosts \ {h}
      BY <1>6
    <3>1. i \in 1 .. Len(repos) /\ n + 1 \in 1 .. Len(repos) /\ i # n + 1
      BY <2>1, <2>2
    <3>2. QED
      BY <2>1, <2>3, <3>1, ElementOfSeq DEF Once
  <2>5. /\ \A i \in 1 .. n : i \in offn <=> i \in off
        /\ n + 1 \in offn <=> c.offline
        /\ \A i \in 1 .. n + 1 : i \in 1 .. n \/ i = n + 1
    <3>1. \A i \in 1 .. n + 1 : i \in 1 .. n \/ i = n + 1
      BY <2>1
    <3>2. \A i \in 1 .. n : i \in 1 .. n + 1
      BY <2>1
    <3>3. n + 1 \in 1 .. n + 1
      BY <2>1
    <3>4. \A i \in 1 .. n : i \in offn <=> i \in off
      BY <2>4, <3>2
    <3>5. repo'[repos[n + 1]].offline <=> c.offline
      BY <1>6, <2>3
    <3>6. n + 1 \in offn <=> c.offline
      BY <3>3, <3>5
    <3>7. QED
      BY <3>1, <3>4, <3>6
  <2>6. offn = (IF c.offline THEN off \cup {n + 1} ELSE off)
    BY <2>1, <2>5
  <2>7. off \subseteq 1 .. n
    OBVIOUS
  <2> HIDE DEF off, offn
  <2>8. loop'.offline = Cardinality(offn)
    <3>1. Cardinality(off \cup {n + 1}) = Cardinality(off) + 1
      BY <2>1, <2>7, CountedSets
    <3>2. QED
      BY <1>5, <2>1, <2>6, <3>1
  <2>9. loop'.total = n + 1 /\ n + 1 + 1 = n + 2
    BY <1>5, <2>1
  <2>10. offn = {i \in 1 .. loop'.total : repo'[repos[i]].offline}
    BY <2>9 DEF offn
  <2>11. QED
    BY <1>5, <2>2, <2>3, <2>8, <2>9, <2>10
<1>13. Visited'
  BY <1>1, <1>11, <1>12 DEF Visited
<1>14. QED
  BY <1>8, <1>9, <1>10, <1>13 DEF IInv

LEMMA SetOnlineKeeps ==
  ASSUME IInv, NEW s \in BOOLEAN, SetOnline(s)
  PROVE  /\ container' \in [started : BOOLEAN, online : BOOLEAN, forced : BOOLEAN]
         /\ container'.started = container.started
         /\ ~(s /\ container.forced) => container'.online = s
         /\ repo' \in [Hosts -> Repos]
         /\ \A h \in Hosts :
              /\ Mine(repo'[h])
              /\ h \in Live /\ repo'[h].listens => repo'[h].told = container'.online
<1>1. CASE s /\ container.forced
  BY <1>1 DEF SetOnline, IInv, TypeOK, ListenersKnow
<1>2. CASE ~(s /\ container.forced)
  <2>1. container' = [container EXCEPT !.online = s]
    BY <1>2 DEF SetOnline
  <2>2. /\ container' \in [started : BOOLEAN, online : BOOLEAN, forced : BOOLEAN]
        /\ container'.started = container.started /\ container'.online = s
    BY <2>1 DEF IInv, TypeOK
  <2>3. repo' = [h \in Hosts |-> IF h \in Live /\ repo[h].listens
                                 THEN [repo[h] EXCEPT !.told = s] ELSE repo[h]]
    BY <1>2 DEF SetOnline
  <2>4. ASSUME NEW h \in Hosts
        PROVE  /\ repo'[h] \in Repos /\ Mine(repo'[h])
               /\ h \in Live /\ repo'[h].listens => repo'[h].told = s
    <3>1. repo[h] \in Repos /\ Mine(repo[h])
      BY DEF IInv, TypeOK
    <3> DEFINE d == [repo[h] EXCEPT !.told = s]
    <3>2. d \in Repos /\ Mine(d) /\ d.told = s
      BY <3>1 DEF Repos, Mine
    <3>3. repo'[h] = (IF h \in Live /\ repo[h].listens THEN d ELSE repo[h])
      BY <2>3
    <3> HIDE DEF d
    <3>4. QED
      BY <3>1, <3>2, <3>3
  <2>5. QED
    BY <2>2, <2>3, <2>4
<1>3. QED
  BY <1>1, <1>2

LEMMA SyncEndKeeps ==
  ASSUME IInv, SyncEnd
  PROVE  IInv'
<1>1. loop' = Idle /\ UNCHANGED <<repos, ref>>
  BY DEF SyncEnd
<1>2. loop' \in [on : BOOLEAN, rest : Seq(Hosts), total : Nat, offline : Nat, moved : BOOLEAN]
      /\ ~loop'.on
  BY <1>1, EmptySeq DEF Idle
<1>3. /\ container' \in [started : BOOLEAN, online : BOOLEAN, forced : BOOLEAN]
      /\ container'.started = container.started
      /\ repo' \in [Hosts -> Repos]
      /\ \A h \in Hosts :
           /\ Mine(repo'[h])
           /\ h \in Live /\ repo'[h].listens => repo'[h].told = container'.online
  <2>1. CASE SetOnline(~AllOffline)
    <3>1. (~AllOffline) \in BOOLEAN
      BY DEF AllOffline
    <3>2. QED
      BY <2>1, <3>1, SetOnlineKeeps
  <2>2. CASE UNCHANGED <<container, repo>>
    BY <2>2 DEF IInv, TypeOK, ListenersKnow
  <2>3. QED
    BY <2>1, <2>2 DEF SyncEnd
<1>4. Live' = Live /\ Live \subseteq Hosts
  BY <1>1 DEF Live, Contains
<1>5. TypeOK' /\ Tree'
  BY <1>1, <1>2, <1>3, SameTree DEF IInv, TypeOK
<1>6. ListenersKnow' /\ Visited'
  BY <1>2, <1>3, <1>4 DEF ListenersKnow, Visited
<1>7. QED
  BY <1>3, <1>5, <1>6 DEF IInv
-----------------------------------------------------------------------------
LEMMA InitKeeps ==
  ASSUME Init
  PROVE  IInv
<1>1. /\ Used = {} /\ repos = <<>> /\ Len(repos) = 0 /\ Live = {}
  BY EmptySeq DEF Init, Used, Free, Live, Contains
<1>2. TypeOK
  BY InitialRepo, EmptySeq DEF Init, TypeOK, Free, Idle
<1>3. Tree
  <2>1. Once(repos) /\ ~container.started
    BY <1>1 DEF Init, Once
  <2>2. {ref[r].host : r \in Used} = {}
    BY <1>1
  <2>3. QED
    BY <1>1, <2>1, <2>2 DEF Init, Tree
<1>4. ListenersKnow /\ Visited
  BY <1>1 DEF Init, ListenersKnow, Visited, Idle
<1>5. QED
  BY <1>2, <1>3, <1>4, InitialRepo DEF Init, IInv

\* The client's invariant: the types, the list of repos and the references that
\* agree, the listeners that know the status, the names of the sessions and of
\* what is on its way, and what the loop of wilddog_trySync has counted.
THEOREM Invariance == Spec => []IInv
<1>1. Init => IInv
  BY InitKeeps
<1>2. IInv /\ [Next]_vars => IInv'
  <2> SUFFICES ASSUME IInv, [Next]_vars
               PROVE  IInv'
    OBVIOUS
  <2>1. ASSUME NEW h \in Hosts, NEW p \in Paths, CreateRef(h, p)
        PROVE  IInv'
    BY <2>1, CreateRefKeeps
  <2>2. ASSUME NEW r \in Used, NEW p \in Paths, GetRef(r, p)
        PROVE  IInv'
    BY <2>2, GetRefKeeps
  <2>3. ASSUME NEW r \in Used, DestroyRef(r)
        PROVE  IInv'
    BY <2>3, DestroyRefKeeps
  <2>4. ASSUME NEW r \in Used, Listen(r) \/ Unlisten(r)
        PROVE  IInv'
    BY <2>4, ListenKeeps
  <2>5. ASSUME NEW h \in Hosts, NEW t \in Tokens \cup {None}, SetAuth(h, t)
        PROVE  IInv'
    BY <2>5, SetAuthKeeps
  <2>6. CASE GoOffline \/ GoOnline
    BY <2>6, GoOfflineKeeps, GoOnlineKeeps
  <2>7. CASE Sync \/ SyncRepo \/ SyncEnd
    BY <2>7, SyncKeeps, SyncRepoKeeps, SyncEndKeeps
  <2>8. CASE UNCHANGED vars
    BY <2>8 DEF vars, IInv, TypeOK, Tree, ListenersKnow, Visited, Once, Live, Used, Contains
  <2>9. QED
    BY <2>1, <2>2, <2>3, <2>4, <2>5, <2>6, <2>7, <2>8 DEF Next
<1>3. QED
  BY <1>1, <1>2, PTL DEF Spec

\* A host has one repo and a URL one reference, a repo lives as long as it has a
\* reference, and the client is started as long as it has a repo.
THEOREM OneRepoEach == Spec => []OneEach
<1>1. IInv => OneEach
  <2> SUFFICES ASSUME IInv
               PROVE  OneEach
    OBVIOUS
  <2>1. Cardinality(Live) = Len(repos)
    BY CountOnce DEF IInv, TypeOK, Tree, Live
  <2>2. QED
    BY <2>1 DEF IInv, Tree, OneEach
<1>2. QED
  BY <1>1, Invariance, PTL

\* Whoever listens for ".info/connected" has been told the status there is.
THEOREM WhoListensKnows == Spec => []ListenersKnow
<1>1. IInv => ListenersKnow
  BY DEF IInv
<1>2. QED
  BY <1>1, Invariance, PTL

\* No session is in the name of data that was replaced or refused.
THEOREM OnlyTheStored == Spec => []NobodyElse
<1>1. IInv => NobodyElse
  BY DEF IInv, Mine, NobodyElse, Live
<1>2. QED
  BY <1>1, Invariance, PTL

\* The status the loop of wilddog_trySync ends with is that of its repos: online
\* if and only if one of them is not offline.
THEOREM TrueStatus == Spec => StatusIsTrue
<1>1. IInv /\ [Next]_vars =>
        [loop.on /\ ~loop'.on /\ ~loop.moved /\ ~container.forced
           => container'.online = \E h \in Live : ~repo[h].offline]_vars
  <2> SUFFICES ASSUME IInv, [Next]_vars, loop.on, ~loop'.on, ~loop.moved, ~container.forced
               PROVE  container'.online = \E h \in Live : ~repo[h].offline
    OBVIOUS
  <2>1. SyncEnd
    <3>1. \A r \in Used, p \in Paths : ~GetRef(r, p)
      BY DEF GetRef
    <3>2. \A r \in Used : ~DestroyRef(r) /\ ~Listen(r) /\ ~Unlisten(r)
      BY DEF DestroyRef, Listen, Unlisten
    <3>3. \A h \in Hosts, t \in Tokens \cup {None} : ~SetAuth(h, t)
      BY DEF SetAuth
    <3>4. ~GoOffline /\ ~GoOnline /\ ~Sync
      BY DEF GoOffline, GoOnline, Sync
    <3>5. ~SyncRepo
      BY DEF SyncRepo, IInv, TypeOK
    <3>6. \A h \in Hosts, p \in Paths : ~CreateRef(h, p)
      BY DEF CreateRef, IInv, TypeOK
    <3>7. ~UNCHANGED vars
      BY DEF vars
    <3>8. QED
      BY <3>1, <3>2, <3>3, <3>4, <3>5, <3>6, <3>7 DEF Next
  <2> DEFINE n   == Len(repos)
             off == {i \in 1 .. n : repo[repos[i]].offline}
  <2>2. n \in Nat /\ off \subseteq 1 .. n /\ repos \in Seq(Hosts)
    BY LenProperties DEF IInv, TypeOK
  <2>3. loop.total = n /\ loop.offline = Cardinality(off)
    <3>1. /\ loop.total \in Nat /\ loop.total <= n
          /\ SubSeq(repos, loop.total + 1, n) = <<>>
          /\ loop.offline = Cardinality({i \in 1 .. loop.total : repo[repos[i]].offline})
      BY <2>1 DEF SyncEnd, IInv, Visited, TypeOK
    <3>2. Len(SubSeq(repos, loop.total + 1, n))
            = IF loop.total + 1 <= n THEN n - (loop.total + 1) + 1 ELSE 0
      <4>1. \A i \in loop.total + 1 .. n : repos[i] \in Hosts
        BY <2>2, <3>1, ElementOfSeq
      <4>2. QED
        BY <2>2, <3>1, <4>1, SubSeqProperties
    <3>3. loop.total = n
      BY <2>2, <3>1, <3>2, EmptySeq
    <3>4. QED
      BY <3>1, <3>3
  <2>4. AllOffline <=> off = 1 .. n
    <3> HIDE DEF n, off
    <3>1. Cardinality(off) = n <=> off = 1 .. n
      BY <2>2, CountedSets
    <3>2. QED
      BY <2>3, <3>1 DEF AllOffline
  <2>5. off = 1 .. n <=> \A h \in Live : repo[h].offline
    <3>1. \A h \in Live : \E i \in 1 .. n : repos[i] = h
      BY DEF Live, Contains
    <3>2. \A i \in 1 .. n : repos[i] \in Live
      BY <2>2, ElementOfSeq DEF Live, Contains
    <3>3. QED
      BY <3>1, <3>2
  <2>6. container'.online = ~AllOffline
    <3>1. container.online \in BOOLEAN /\ AllOffline \in BOOLEAN /\ (~AllOffline) \in BOOLEAN
      BY DEF IInv, TypeOK, AllOffline
    <3>2. CASE container.online = AllOffline
      <4>1. SetOnline(~AllOffline)
        BY <2>1, <3>2 DEF SyncEnd
      <4>2. QED
        BY <3>1, <4>1, SetOnlineKeeps
    <3>3. CASE container.online # AllOffline
      <4>1. container' = container
        BY <2>1, <3>3 DEF SyncEnd
      <4>2. QED
        BY <3>1, <3>3, <4>1
    <3>4. QED
      BY <3>2, <3>3
  <2> HIDE DEF n, off
  <2>7. AllOffline <=> \A h \in Live : repo[h].offline
    BY <2>4, <2>5
  <2>8. (\E h \in Live : ~repo[h].offline) \in BOOLEAN
    OBVIOUS
  <2>9. (\E h \in Live : ~repo[h].offline) <=> ~AllOffline
    BY <2>7
  <2>10. QED
    BY <2>6, <2>8, <2>9
<1>2. QED
  BY <1>1, Invariance, PTL DEF Spec, StatusIsTrue
=============================================================================
