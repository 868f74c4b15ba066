----------------------------- MODULE WilddogCbor -----------------------------
(***************************************************************************)
(* Data on its way (src/serialize/cbor/wilddog_cbor.c): a tree of nodes    *)
(* becomes a payload that the server reads, and a payload of the server    *)
(* becomes a tree of nodes.                                                *)
(*                                                                         *)
(* A payload is a sequence of CBOR items.  Of a number there are the bytes *)
(* after its head; of a string there is the content only (byte strings and *)
(* text strings are alike).  Buffers are large enough, allocations do not  *)
(* fail, keys are valid, and what the server sends is whole.               *)
(***************************************************************************)
EXTENDS Integers, SequencesExt

CONSTANTS
  BYTE,    \* what a byte can hold: 256 in the code
  INLINE,  \* WILDDOG_CBOR_FOLLOW_1BYTE: smaller numbers are in the head
  DEFLEN,  \* WILDDOG_CBOR_FOLLOW_UNKNOW_DEFLEN: the entries of a map of unknown length
  Ours,    \* trees the application sends
  Theirs   \* trees of data the server sends

ASSUME CborAssumption == 0 < INLINE /\ INLINE <= BYTE /\ DEFLEN > 0

VARIABLES
  data,     \* the tree on its way
  payload,  \* the payload it became
  node,     \* the tree that is made of a payload
  phase     \* "ours", "sent"; "theirs", "got", "read"

vars == <<data, payload, node, phase>>

NoKey == "no key"
Null  == [type |-> "NULL"]

\* A node: its type and value, and its children with their keys.
Node(type, val)  == [type |-> type, val |-> val, kids |-> <<>>]
Object(kids)     == [type |-> "object", val |-> 0, kids |-> kids]
Child(key, n)    == [key |-> key, node |-> n]

Item(major, arg) == [major |-> major, arg |-> arg]
Break            == Item("break", 0)
Map(n)           == Item("map", n)
ANY              == -1   \* the length of a map that a break ends

WORD == BYTE^4

\* A number as an s32 holds it.
Signed(n) == LET m == n % WORD IN IF m >= WORD \div 2 THEN m - WORD ELSE m

\* The k low bytes of n, as the network orders them, and what they say.
Bytes(n, k) == [i \in 1..k |-> (n \div BYTE^(k - i)) % BYTE]
Value(b)    == FoldLeft(LAMBDA n, d : n * BYTE + d, 0, b)
-------------------------------------------------------------------------------
(* From nodes to a payload.                                                  *)

\* Mutant of Follow: the largest number in the head is one too large.
FollowOff(n) == CASE n <= INLINE                  -> 0
                  [] n > INLINE /\ n < BYTE       -> 1
                  [] n >= BYTE /\ n < BYTE^2      -> 2
                  [] n >= BYTE^2                  -> 4

\* _wilddog_n2c_uintAdditionalInfo: how many bytes follow the head.
Follow(n) == CASE n < INLINE                 -> 0
               [] n >= INLINE /\ n < BYTE    -> 1
               [] n >= BYTE /\ n < BYTE^2    -> 2
               [] n >= BYTE^2                -> 4

\* What _wilddog_n2c_encodeUint and _wilddog_n2c_encodeNegint write of n: a number
\* of four bytes, too, is put in order with htons.
Digits(n) ==
  CASE Follow(n) = 0 -> [head |-> n, bytes |-> <<>>]
    [] Follow(n) \in {1, 2} -> [head |-> 0, bytes |-> Bytes(n, Follow(n))]
    [] Follow(n) = 4 -> [head |-> 0, bytes |-> Bytes(n, 2) \o <<0, 0>>]

Number(n) == IF n >= 0 THEN Item("uint", Digits(n)) ELSE Item("negint", Digits(-1 - n))

\* An object has no value: nothing is written, and an error returned.
Scalar(n) ==
  CASE n.type = "num"    -> <<Number(n.val)>>
    [] n.type = "object" -> <<>>
    [] OTHER             -> <<Item(n.type, n.val)>>

\* _wilddog_n2c_inner.  The error of a child is not looked at.
RECURSIVE Inner(_, _)
Inner(key, n) ==
  (IF key = NoKey THEN <<>> ELSE <<Item("string", key)>>) \o
  IF n.kids = <<>> THEN Scalar(n)
  ELSE <<Map(ANY)>> \o FlattenSeq([i \in DOMAIN n.kids |-> Inner(n.kids[i].key, n.kids[i].node)])
         \o <<Break>>

\* _wilddog_node2Payload: without the key of the root.
Node2Payload(n) == Inner(NoKey, n)
-------------------------------------------------------------------------------
(* From a payload to nodes.  Parsing gives a tree, or Null, and where it     *)
(* stopped.                                                                  *)

Result(n, i) == [node |-> n, next |-> i]
Fail         == Result(Null, 0)

\* Mutant of ParsedNumber: the one is forgotten.
ParsedNumberNegated(item) ==
  LET n == Signed(IF item.arg.bytes = <<>> THEN item.arg.head ELSE Value(item.arg.bytes))
  IN  IF item.major = "negint" THEN Signed(-n) ELSE n

\* _wilddog_c2n_getItemLen and _wilddog_c2n_numHandler
ParsedNumber(item) ==
  LET n == Signed(IF item.arg.bytes = <<>> THEN item.arg.head ELSE Value(item.arg.bytes))
  IN  IF item.major = "negint" THEN Signed(-1 - n) ELSE n

\* _wilddog_c2n_parseSimpleItem: no map, no special item, and no number of more
\* than four bytes.
IsNumber(item) == item.major \in {"uint", "negint"}
Simple(item)   ==
  CASE item.major = "string" -> Node("string", item.arg)
    [] IsNumber(item) /\ Len(item.arg.bytes) <= 4 -> Node("num", ParsedNumber(item))
    [] OTHER -> Null

\* _wilddog_c2n_parseSpecial
Specials      == {"float", "true", "false", "null"}
Special(item) == IF item.major \in Specials THEN Node(item.major, item.arg) ELSE Null

\* wilddog_node_addChild: in place of the child with its key, else in front.
AddKid(kids, kid) ==
  IF \E i \in DOMAIN kids : kids[i].key = kid.key
  THEN [i \in DOMAIN kids |-> IF kids[i].key = kid.key THEN kid ELSE kids[i]]
  ELSE <<kid>> \o kids

\* _wilddog_c2n_parseMap from its entry at i on, of which left may come.  A number
\* that is too wide makes a node without a value, and is met again as the next key.
RECURSIVE Entries(_, _, _, _, _)
Entries(p, i, kids, left, var) ==
  LET key   == Simple(p[i])
      value == p[i + 1]
      go(n, next) == Entries(p, next, AddKid(kids, Child(key.val, n)), left - 1, var)
  IN  CASE left = 0 -> Result(Object(kids), i)
        [] left > 0 /\ var /\ p[i] = Break -> Result(Object(kids), i + 1)
        [] left > 0 /\ ~(var /\ p[i] = Break) ->
             CASE key = Null -> Fail
               [] key # Null /\ value.major = "map" ->
                    LET m == Entries(p, i + 2, <<>>, IF value.arg = ANY THEN DEFLEN ELSE value.arg,
                                     value.arg = ANY)
                    IN  IF m = Fail THEN Fail ELSE go(m.node, m.next)
               [] key # Null /\ value.major \in Specials \cup {"break"} ->
                    IF Special(value) = Null THEN Fail ELSE go(Special(value), i + 2)
               [] key # Null /\ (IsNumber(value) \/ value.major = "string") ->
                    IF Simple(value) = Null THEN go(Node("num", "none"), i + 1)
                    ELSE go(Simple(value), i + 2)

\* _wilddog_payload2Node: a negative float alone is taken for an error.
Payload2Node(p) ==
  LET first == p[1]
  IN  CASE first.major = "map" ->
             Entries(p, 2, <<>>, IF first.arg = ANY THEN DEFLEN ELSE first.arg, first.arg = ANY).node
        [] first.major \in Specials ->
             IF first.major = "float" /\ first.arg < 0 THEN Null ELSE Special(first)
        [] OTHER -> Simple(first)
-------------------------------------------------------------------------------
(* External: CBOR.  What the server takes for n, and what it may send of it: *)
(* the length of a map is told or left to a break.                           *)

Shortest(n) ==
  LET k == CHOOSE s \in {1, 2, 4, 8} : n < BYTE^s /\ \A t \in {1, 2, 4, 8} : n < BYTE^t => s <= t
  IN  IF n < INLINE THEN [head |-> n, bytes |-> <<>>] ELSE [head |-> 0, bytes |-> Bytes(n, k)]

Alone(n) ==
  CASE n.type = "num" -> IF n.val >= 0 THEN Item("uint", Shortest(n.val))
                         ELSE Item("negint", Shortest(-1 - n.val))
    [] n.type = "object" -> Map(0)
    [] OTHER -> Item(n.type, n.val)

RECURSIVE Encodings(_)
Encodings(n) ==
  LET add(done, kid) == {d \o <<Item("string", kid.key)>> \o e :
                           d \in done, e \in Encodings(kid.node)}
      entries        == FoldLeft(add, {<<>>}, n.kids)
  IN  IF n.kids = <<>> THEN {<<Alone(n)>>}
      ELSE {<<Map(Len(n.kids))>> \o e : e \in entries} \cup {<<Map(ANY)>> \o e \o <<Break>> : e \in entries}
-------------------------------------------------------------------------------
\* _wilddog_conn_commonSet, _wilddog_conn_commonPush: without a payload when there
\* is none.
Send ==
  /\ phase = "ours"
  /\ payload' = Node2Payload(data) /\ phase' = "sent"
  /\ UNCHANGED <<data, node>>

Get ==
  /\ phase = "theirs"
  /\ payload' \in Encodings(data) /\ phase' = "got"
  /\ UNCHANGED <<data, node>>

\* _wilddog_conn_get_callback, _wilddog_conn_addObserver_callback
Read ==
  /\ phase = "got"
  /\ node' = Payload2Node(payload) /\ phase' = "read"
  /\ UNCHANGED <<data, payload>>

Init ==
  /\ \/ data \in Ours /\ phase = "ours"
     \/ data \in Theirs /\ phase = "theirs"
  /\ payload = <<>> /\ node = Null

Next == Send \/ Get \/ Read

Spec == Init /\ [][Next]_vars
-------------------------------------------------------------------------------
\* The nodes of a tree, and what it says: the order of children does not matter.
RECURSIVE Within(_)
Within(n) == {n} \cup UNION {Within(n.kids[i].node) : i \in DOMAIN n.kids}

RECURSIVE Said(_)
Said(n) ==
  {<<<<>>, n.type, n.val>>} \cup
  UNION {{<< <<n.kids[i].key>> \o s[1], s[2], s[3]>> : s \in Said(n.kids[i].node)} : i \in DOMAIN n.kids}

Numbers(n) == {m.val : m \in {k \in Within(n) : k.type = "num"}}
Hollow(n)  == \E m \in Within(n) \ {n} : m.type = "object" /\ m.kids = <<>>

\* The server reads what the application sent, whatever its depth and order; an
\* object without children is not sent.  (Numbers of more than two bytes, and
\* objects without children in others, are not kept.)
Understood ==
  phase = "sent" /\ ~Hollow(data) /\ Numbers(data) \subseteq -(BYTE^2)..(BYTE^2 - 1) =>
    IF data = Object(<<>>) THEN payload = <<>> ELSE payload \in Encodings(data)

\* The application reads what the server sent: every tree whose numbers are 32
\* bits wide, in either form of maps.  (But for a negative float alone, and maps
\* of unknown length with DEFLEN entries or more.)
ReadBack ==
  /\ phase = "read"
  /\ Numbers(data) \subseteq -(WORD \div 2)..(WORD \div 2 - 1)
  /\ ~(data.type = "float" /\ data.val < 0)
  /\ Contains(payload, Map(ANY)) => \A m \in Within(data) : Len(m.kids) < DEFLEN
  => node # Null /\ Said(node) = Said(data)

\* API manual, wilddog_node_createNum: numbers are supported that have 32 bits.
\* The server reads the one that was sent.
NumbersKept ==
  phase = "sent" /\ data.type = "num" => payload \in Encodings(data)
===============================================================================
