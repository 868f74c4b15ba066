---------------------------- MODULE WilddogEvent ----------------------------
(***************************************************************************)
(* The event layer of one repo (src/wilddog_event.c): which of the paths   *)
(* the application listens on carry an observer of the connection, and who *)
(* is told when an observer is answered.                                   *)
(*                                                                         *)
(* The list of event nodes is sorted by path (Before) and holds a path     *)
(* once, so it is the set of its paths here.                               *)
(*                                                                         *)
(* EVENT_STATE_OFF lasts from the callback of a failed observer to the end *)
(* of the trigger, within one action: it is the parameter dying.           *)
(*                                                                         *)
(* The queue of the connection may be full: of the commands of one call it *)
(* takes the first few, room, and refuses the others, as nothing leaves it *)
(* in the meantime.                                                        *)
(*                                                                         *)
(* _wilddog_conn_removeObserver deletes the first observer of another path *)
(* and leaves those of its own (WilddogConnClaims).  The properties tell   *)
(* what the event layer makes of that: they are about the observers that   *)
(* were not left so, and Hears is about the paths not robbed so.           *)
(***************************************************************************)
EXTENDS EventPaths, FiniteSets

CONSTANTS
  Order,     \* the paths the application may listen on, in the order of the list
  ERRORS,    \* may an observer be answered with an error?
  Trouble,   \* those where a call may be refused or go astray, or what was left may
             \* fail: a bound of the model
  Rooms,     \* how many commands the queue has room for then
  MAX_OBS    \* observers of the connection: a bound of the model

Paths == Range(Order)

ASSUME EventAssumption ==
  /\ Order \in Seq(Seq(Nat))
  /\ \A i, j \in DOMAIN Order : i < j => Before(Order[i], Order[j])
  /\ Trouble \subseteq Paths /\ Rooms \subseteq Nat
  /\ MAX_OBS \in Nat /\ ERRORS \in BOOLEAN

VARIABLE event  \* Wilddog_Event_T, and the p_observer_list of its connection

\* What an observer's answer goes to: the trigger, which tells the listeners
\* within its path, or straight to the callback of one listener.
Targets == {"trigger", "listener"}

\* The mark is kept for the properties: an observer is left when its path was
\* turned off.  It is failing while the callbacks of its error run.
Observers == [path : Paths, to : Targets, mark : {"live", "left", "failing"}]

\* nodes are the paths in the list, on those with ON_FLAG; observers are those of
\* the connection, the oldest first.  The rest is kept for the properties: given
\* are the paths handed over and not turned off since, robbed those whose live
\* observer was deleted for another path and not asked for again or turned off
\* since.  hurt are those where a command was ever refused, that were turned off
\* with no listener on them, or where an observer that was left failed.
Events == [nodes : SUBSET Paths, on : SUBSET Paths, observers : Seq(Observers),
           given : SUBSET Paths, robbed : SUBSET Paths, hurt : SUBSET Paths]

\* Without trouble there is room for all that a call sends.
RoomsAt(p) == IF p \in Trouble THEN Rooms ELSE {2 * Cardinality(Paths)}

\* The paths before each in the order of the list.
Earlier == [q \in Paths |-> {r \in Paths : Before(r, q)}]

\* The first n of P, in the order of the list.
FirstOf(P, n) == {q \in P : Cardinality(P \cap Earlier[q]) < n}

\* s after a command for each of P, in the order of the list.
InTurn(s, P, Command(_, _)) ==
  LET after[n \in 0 .. Len(Order)] ==
        IF n = 0 THEN s
        ELSE IF Order[n] \in P THEN Command(after[n - 1], Order[n])
        ELSE after[n - 1]
  IN  after[Len(Order)]

\* The list without the first of those in I.
Without(list, I) == IF I = {} THEN list ELSE RemoveAt(list, Min(I))

\* _wilddog_conn_addObserver.
AddObserver(e, p, to) ==
  [e EXCEPT !.observers = Append(@, [path |-> p, to |-> to, mark |-> "live"]),
            !.given = IF to = "listener" THEN @ \cup {p} ELSE @ \ {p},
            !.robbed = @ \ {p}]

\* _wilddog_conn_removeObserver: the first observer with another URL goes, and
\* those of p are left.
Left(list, p) ==
  [i \in DOMAIN list |-> IF list[i].path = p /\ list[i].mark = "live"
                         THEN [list[i] EXCEPT !.mark = "left"] ELSE list[i]]

RemoveObserver(e, p) ==
  LET others  == {i \in DOMAIN e.observers : e.observers[i].path # p}
      deleted == {i \in others : i = Min(others) /\ e.observers[i].mark = "live"}
  IN  [e EXCEPT !.observers = Left(Without(@, others), p),
                !.given = @ \ {p},
                !.robbed = (@ \ {p}) \cup {e.observers[i].path : i \in deleted}]

\* WILDDOG_CONN_CMD_ON for the paths P, the first n of which are taken.
Asks(e, P, to, n) ==
  LET taken == FirstOf(P, n)
      Ask(c, p) == AddObserver(c, p, to)
  IN  [InTurn(e, taken, Ask) EXCEPT !.hurt = @ \cup (P \ taken)]

\* WILDDOG_CONN_CMD_OFF for them.
Cancels(e, P, n) ==
  LET taken == FirstOf(P, n)
  IN  [InTurn(e, taken, RemoveObserver) EXCEPT !.hurt = @ \cup (P \ taken)]

\* Another listener carries p already.  A dying one does not.
Carried(e, p, dying) == \E q \in e.on \ dying : Below(p, q)

\* A path that is there already only gets another callback, unless it is dying.
NothingToSend(e, p, dying) == p \in e.nodes \ dying \/ Carried(e, p, dying)

Under(e, p) == {q \in e.on : Below(q, p)}

\* Mutant of Add: the observers below are left as they are.
AddKeeps(e, p, dying, room) ==
  IF NothingToSend(e, p, dying)
  THEN [e EXCEPT !.nodes = @ \cup {p}, !.on = @ \ (dying \cap {p})]
  ELSE [Asks(e, {p}, "trigger", room) EXCEPT !.nodes = @ \cup {p}, !.on = @ \cup {p}]

\* Mutant of Add: the observers below are turned off and not cancelled.
AddForgets(e, p, dying, room) ==
  IF NothingToSend(e, p, dying)
  THEN [e EXCEPT !.nodes = @ \cup {p}, !.on = @ \ (dying \cap {p})]
  ELSE [Asks(e, {p}, "trigger", room)
          EXCEPT !.nodes = @ \cup {p}, !.on = (@ \ Under(e, p)) \cup {p}]

\* _wilddog_event_nodeAdd.  A path that no other carries gets an observer of its
\* own, which replaces those below it.  The flags go by what was sent, not by
\* what was taken.
Add(e, p, dying, room) ==
  IF NothingToSend(e, p, dying)
  THEN [e EXCEPT !.nodes = @ \cup {p}, !.on = @ \ (dying \cap {p})]
  ELSE [Cancels(Asks(e, {p}, "trigger", room), Under(e, p), room - 1)
          EXCEPT !.nodes = @ \cup {p}, !.on = (@ \ Under(e, p)) \cup {p}]

\* p is the node before q in the list.
Adjacent(e, p, q) ==
  p \in e.nodes \cap Earlier[q] /\ e.nodes \cap Earlier[q] \subseteq Earlier[p] \cup {p}

\* Mutant of HandedOver: the node right after q is treated as the others.
HandedOverLater(e, p, q) ==
  {x \in e.nodes \ e.on :
     /\ Below(x, p) /\ q \in Earlier[x]
     /\ \E r \in e.nodes : Adjacent(e, r, x) /\ ~Below(x, r)}

\* The listeners below p that get an observer of their own when q goes: each
\* that is not below the node before it in the list, q aside.
HandedOver(e, p, q) ==
  {x \in e.nodes \ e.on :
     /\ Below(x, p) /\ q \in Earlier[x]
     /\ \E r \in e.nodes : Adjacent(e, r, x) /\ (r = q \/ ~Below(x, r))}

\* _wilddog_event_nodeDelete of p, whose node is taken to be q.  The observer
\* handed over answers to the listener's own callback.  When the last command
\* fails, the node stays.
Delete(e, p, q, room, sent) ==
  IF q \notin e.on THEN [e EXCEPT !.nodes = @ \ {q}]
  ELSE LET over == HandedOver(e, p, q)
           gone == IF room > Cardinality(over) /\ sent THEN {q} ELSE {}
           c    == Asks(Cancels(e, {p}, room), over, "listener", room - 1)
       IN  [c EXCEPT !.nodes = @ \ gone, !.on = (@ \cup over) \ gone,
                     !.hurt = @ \cup (IF gone = {} \/ p # q THEN {p} ELSE {})]

\* The nodes within p, and the node that _wilddog_event_nodeFind takes for p.
Told(e, p) == {q \in e.nodes : Within(q, p)}

NodeFind(e, p) == FirstOf(Told(e, p), 1)

\* _wilddog_event_trigger of an observer at p with an error.  The listeners
\* within p die one by one, in their order, and the callback of each runs: one
\* of Again listens again on its own path.  At the end the dying are deleted,
\* and the connection drops the observer that failed.
Commands(e, p, dying) ==
  IF NothingToSend(e, p, dying) THEN 0 ELSE 1 + Cardinality(Under(e, p))

\* Mutant of Dies: one that listens again is kept, and nothing is asked.
DiesKept(s, q, Again) ==
  IF q \in Again THEN s ELSE [s EXCEPT !.dying = @ \cup {q}]

Dies(s, q, Again) ==
  LET d == s.dying \cup {q}
  IN  IF q \notin Again THEN [s EXCEPT !.dying = d]
      ELSE [e     |-> Add(s.e, q, d, s.room),
            room  |-> s.room - Commands(s.e, q, d),
            dying |-> IF Carried(s.e, q, d) THEN d ELSE d \ {q}]

\* _wilddog_conn_addObserver_callback with an error: the callbacks run, and the
\* observer goes if it is there still.
Failing(e, i) ==
  LET o == e.observers[i]
  IN  [e EXCEPT !.observers[i].mark = "failing",
                !.hurt = IF o.mark = "left" /\ o.to = "trigger" THEN @ \cup {o.path} ELSE @]

Failed(e) ==
  [e EXCEPT !.observers = Without(@, {i \in DOMAIN @ : @[i].mark = "failing"})]

\* Mutant of Trigger: the connection keeps the observer that failed.
TriggerKeeps(e, i, Again, room) ==
  LET Die(s, q) == Dies(s, q, Again)
      s == InTurn([e |-> Failing(e, i), dying |-> {}, room |-> room],
                  Told(e, e.observers[i].path), Die)
  IN  [s.e EXCEPT !.nodes = @ \ s.dying, !.on = @ \ s.dying]

Trigger(e, i, Again, room) ==
  LET Die(s, q) == Dies(s, q, Again)
      s == InTurn([e |-> Failing(e, i), dying |-> {}, room |-> room],
                  Told(e, e.observers[i].path), Die)
  IN  Failed([s.e EXCEPT !.nodes = @ \ s.dying, !.on = @ \ s.dying])
-------------------------------------------------------------------------------
\* No command got lost at p or above it.
Spared(e, p) == \A h \in e.hurt : ~Within(p, h)

Becomes(e) == Len(e.observers) <= MAX_OBS /\ event' = e

On(p) == \E room \in RoomsAt(p) : Becomes(Add(event, p, {}, room))

Off(p) ==
  \E q \in NodeFind(event, p), room \in RoomsAt(p), sent \in {TRUE, p \notin Trouble} :
    /\ p # q => p \in Trouble
    /\ Becomes(Delete(event, p, q, room, sent))

\* An observer fails.  A successful answer changes nothing here.
Fail(i) ==
  /\ ERRORS /\ event.observers[i].to = "trigger"
  /\ LET p == event.observers[i].path
     IN  /\ event.observers[i].mark = "left" => p \in Trouble
         /\ \E Again \in SUBSET Told(event, p), room \in RoomsAt(p) :
              Becomes(Trigger(event, i, Again, room))

\* One that was handed over: the event layer is not told, but its listener may
\* listen again.
FailDirect(i) ==
  /\ ERRORS /\ event.observers[i].to = "listener"
  /\ LET p == event.observers[i].path
     IN  \E again \in BOOLEAN, room \in RoomsAt(p) :
           Becomes(Failed(IF again THEN Add(Failing(event, i), p, {}, room)
                          ELSE Failing(event, i)))

Init ==
  event = [nodes |-> {}, on |-> {}, observers |-> <<>>,
           given |-> {}, robbed |-> {}, hurt |-> {}]

Next ==
  \/ \E p \in Paths : On(p) \/ Off(p)
  \/ \E i \in DOMAIN event.observers : Fail(i) \/ FailDirect(i)

Spec == Init /\ [][Next]_event
-------------------------------------------------------------------------------
\* Between the calls no observer is failing.
TypeOK ==
  /\ event \in Events
  /\ \A i \in DOMAIN event.observers : event.observers[i].mark # "failing"

\* Every listener is within a path whose observer was asked for: whatever is
\* added, removed, refused or fails, and in whatever order, none is left over.
Covered == \A q \in event.nodes : \E p \in event.on : Within(q, p)

\* How many observers of p there are that were not left.
Live(e, p, to) ==
  Cardinality({i \in DOMAIN e.observers :
                 e.observers[i] = [path |-> p, to |-> to, mark |-> "live"]})

\* No observer outlives the listener it was asked for, and none is asked for
\* twice: the connection has one for each ON_FLAG at most, besides those that it
\* left when it was told to remove them.  A command that gets lost does no harm
\* elsewhere in the tree.
NoOrphans ==
  \A p \in Paths :
    Spared(event, p) =>
      Live(event, p, "trigger") + Live(event, p, "listener")
        <= (IF p \in event.on THEN 1 ELSE 0)

\* The observers, those left aside, whose answers reach the listener on q.
Reach(q) ==
  {o \in Paths \X Targets :
     Live(event, o[1], o[2]) > 0 /\ (IF o[2] = "trigger" THEN Within(q, o[1]) ELSE q = o[1])}

\* The event layer does not tell a listener of a change twice, though observers
\* may be nested after a hand-over.
ToldOnce == \A q \in event.nodes : Spared(event, q) => Cardinality(Reach(q)) <= 1

Robbed(q) == \E r \in event.robbed : Within(q, r)

\* A listener hears of changes, but one within a path that was handed over, was
\* robbed of its observer or where a command got lost.
Hears ==
  \A q \in event.nodes :
    Spared(event, q) /\ ~Robbed(q) /\ (\A g \in event.given : ~Within(q, g))
      => Reach(q) # {}

\* The paths whose changes are changes of the data at p: the server goes by the
\* names between the slashes.
InTree(q, p) == q = p \/ p = <<Slash>> \/ Within(q, Append(p, Slash))

\* API manual, wilddog_addObserver: once the data of the path changes,
\* onDataChange is called.  (No observer was deleted in the place of another.)
EveryListenerHears ==
  \A q \in event.nodes : ~Robbed(q) => \E o \in Reach(q) : InTree(q, o[1])
===============================================================================
