# wilddog-client-c: specification

TLA+ models of the Wilddog C client SDK (`src/`), TLC configurations that check
them on small instances, and proofs that hold for all instances. Source lines
below are lines of the repository; `conn.c` stands for `src/wilddog_conn.c`.

## 1. The system

The SDK keeps a tree of JSON data in the cloud in step with a small device. It is
single threaded: the application calls an operation, or `wilddog_trySync`, and
every call runs to its end, user callbacks included. Time is a millisecond
counter that trySync itself advances. What makes it hard is not threads but the
order of calls, answers, timeouts and retries over a network that loses, delays
and repeats packets, and a session that comes and goes underneath the requests.

| Component | Source | State | Operations | Talks to |
|---|---|---|---|---|
| public API | `wilddog_api.c` | none | the `wilddog_*` calls, argument checks | client tree |
| client tree | `wilddog_ct.c` | list of repos, each with its references; forced offline, online | get, set, push, remove, on, off, onDisconnect*, goOffline, goOnline, auth, sync, destroy | calls the connection's ioctl, runs user callbacks when a call fails |
| event layer | `wilddog_event.c` | tree of listeners per repo | add, remove, dispatch | on/off of the connection; dispatches notifications |
| connection | `wilddog_conn.c` | session, queue of requests, list of observers, p_auth, p_ping, back-off | 13 commands and trySync | protocol adapter; runs the packets' callbacks |
| ping policy | `wilddog_conn.c` 70-164, 1070-1150 | interval, delta, type, next send time | send, answer, timeout | session status |
| CoAP adapter | `networking/coap/` | message id, token and observe counter of each packet | send, retransmit, receive, match | transport; verdict on each packet |
| store | `wilddog_store.c` | authentication data | set, clear, read | read by the connection at an authentication |
| time | `wilddog_common.c` | u32 milliseconds | increase, synchronize | every timer of the connection |
| node tree, URL, CBOR | `wilddog_node.c`, `wilddog_url_parser.c`, `serialize/cbor` | data | algorithms | |
| transports, platform | `secure/*`, `platform/*` | sockets | send, receive | |

Hard behaviours, by component (the full list, line by line, is `hazards` in
`PROJECT.json`):

- connection: p_auth and the status have five writers; a packet's timeout races
  its answer; a new session finds requests and observers of the old one; the
  counters (`d_count`, `d_timeout_count`, failures, retries) are written in many
  places; user callbacks run in the middle of a handler;
- ping policy: its state survives the session it was learnt in;
- client tree and event layer: user callbacks that destroy what is being walked,
  the hand-over of an observer from one listener to another;
- CoAP adapter: matching by 16-bit message id and token, freshness of
  notifications across sessions;
- time: the counter wraps, 0 stands for "unset", comparisons of absolute times;
- node tree: four links to keep in step, and the event layer takes nodes out of
  their lists for the time of a callback;
- CBOR: the boundaries of widths and signs, maps whose length is not told.

What makes each correct: every request ends once; every observer is registered in
each session until it is removed; a lost session is re-established and not sooner
than the back-off allows; the keep-alive stays within its bounds and never dies;
the queue's bookkeeping is exact; a listener is told nothing older after something
newer, and in the end the newest; nobody's session is in another's name; trees and
payloads say what was put into them.

## 2. Modules

| Module | Models |
|---|---|
| `PingPolicy` | the ping policy as operators on a record: the ping callback, the ping handler |
| `WilddogPing` | the policy run alone, under a session that comes and goes freely |
| `MCWilddogPing` | instance with the code's constants |
| `WilddogPingProofs` | lemmas on each operator of the policy; the bounds of the interval |
| `Requests` | the abstract promise about requests and observers |
| `WilddogConn` | the connection layer of one repo, with the ping policy in it |
| `MCWilddogConn` | instances of the connection |
| `WilddogConnClaims` | statements of comments and manual that the code does not keep |
| `WilddogConnProofs` | the connection's two inductive invariants, and that it implements `Requests` |
| `WilddogEvent` | the event layer of one repo: listeners and the observers they carry |
| `EventPaths` | the relations of paths as strings, and their order |
| `MCWilddogEvent` | paths for the event layer |
| `WilddogEventProofs` | paths as strings; the event layer's inductive invariant |
| `DataTrees` | the abstract promise about trees of data |
| `WilddogNode` | the node tree in memory, and what the event trigger does to it |
| `WilddogNodeTrees` | the trees of data that the nodes stand for: the refinement of `DataTrees` |
| `MCWilddogNode` | keys, chains and listeners for it |
| `WilddogNodeProofs` | its inductive invariant, `wilddog_node_find` on paths of any length, and that it implements `DataTrees` |
| `CoapObserve` | one observed path from the connection through the CoAP adapter to the server and back |
| `MCCoapObserve` | a counter of three bits for it |
| `CoapObserveProofs` | its inductive invariant, and the arithmetic of the counter |
| `WilddogClock` | the millisecond counter and what is compared with it |
| `MCWilddogClock` | a counter of five bits for it |
| `WilddogClockProofs` | what the stored times say of the time that passed |
| `WilddogClient` | the client tree and the store over the connections of several hosts |
| `MCWilddogClient` | two hosts for it |
| `WilddogClientProofs` | its inductive invariant |
| `WilddogCbor` | trees to payloads and back |
| `MCWilddogCbor` | small bytes and trees for it |
| `SetInduction` | induction and recursion over the natural numbers, for the proofs |

How they fit together. `WilddogConn` takes the verdict on each packet from nowhere
and has timers; `CoapObserve` says where the verdicts on notifications come from,
`WilddogClock` what the comparisons of absolute times make of those timers.
`WilddogClient` has of each connection only the status and the name its session is
in, and a trySync takes that where one of `WilddogConn` may: the authentication that is
on its way ends or not, and the session is lost from any status. `WilddogEvent` has of
a connection the list of its observers and what its commands on and off do to it, the
deletion of another path's observer included; `WilddogNode` models the part of its
trigger that rearranges trees, over the same paths (`EventPaths`).

### WilddogConn and the code

`conn` is `Wilddog_Conn_T` as a record. A handler of the code is an operator from
a record to a record, and an action composes the operators its handler calls, in
their order:

    trySync = receive; [the callback of the packet that matched];
              RetransmitAuth; RetransmitPing; RetransmitQueues; LoseSession;
              SessionRetry; PingHandler

`SyncIdle` is a trySync that receives nothing, `SyncAuth`, `SyncPing` and
`SyncData` one that receives an answer to a packet that waits, whichever it is and
whatever its code, `SyncUnmatched` one that receives anything else (the code
returns early there, and so does the action). The answers are not tied to a
server: any packet that waits can be answered at any time, so a loss, a delay, a
repetition and any order are covered; an answer to a packet that was freed is
`SyncUnmatched`. `Submit`, `Refuse` and `Auth` are the application's calls,
`Tick` the passing of time.

| Code | Model |
|---|---|
| `d_session_status` | `conn.status` |
| `p_auth`, `p_ping` | packets with `on = FALSE` for NULL |
| the observer and rest lists | `conn.pkt`, by message id; an observer is a packet whose request is "on" |
| `d_register_time`, `d_next_send_time` | `age`, the time since, and `wait`, the time until; `FAR` is 0xfffffff |
| NEVERTIMEOUT | `never`; `age` rests at 0 meanwhile, since the code does not read the register time of such a packet before it writes it |
| `d_offline_time` | `offline`, the time since; `UNSET` is 0 |
| `d_count`, `d_timeout_count`, `d_auth_fail_count`, `d_online_retry_count` | `d_count`, `timeouts`, `authFails`, `retry` |
| a user callback that ran | `calls` |

Caps, each where the code no longer tells larger values apart: `age` at the
timeout, `count` at `MAX_COUNT`, `timeouts` at the limit plus one, `authFails` at
`SESSION_OFFLINE_TIMES`, `retry` and `offline` at the longest back-off.
`NUM_REQ` and `NUM_AUTH` bound the number of calls.

Kinds of requests: get, set, on, off, offline. set stands for push, remove, the
onDisconnect variants and cancelDisconnect too, whose handlers and callbacks have
the same control; get differs by a payload that may not decode.

The callback of `wilddog_auth` may call `wilddog_auth` (`REENTRANT`); other calls
from callbacks are not modelled. When sending fails the call returns the error, and
`wilddog_ct.c` runs the callback (`ret = "SENDERR"`).

Not modelled in the connection: failing allocations (handlers return early with
nothing changed that others read), receive errors other than a timeout (trySync
returns with nothing changed), the reconnection of the socket (it has no state
here), `_wilddog_conn_deinit`.

### WilddogEvent and the code

The list of event nodes is sorted by path and holds each path once, so it is the
set `event.nodes`, with `Before` as its order; `event.on` are the nodes with
ON_FLAG. A path is a sequence of characters, since `pathContain` compares
strings. `event.observers` is `p_observer_list` of the connection, in its order, each
with what its answers go to: the trigger, or one listener's callback. `Order` is the
paths there are, in the order of the list.

The off of the code deletes the first observer of another path and leaves those of the
path that is turned off (conn.c:1752, `claim_off`), and `RemoveObserver` does the same.
So an observer outlives its listener after on /a and off /a alone, on /a once more
makes two that tell each change, and on /a/b, on /a deletes the fresh observer of /a,
with which /a does not hear. (An observer that is left is silent until the next session,
in which it is registered again, conn.c:791.) The properties are about the rest, what the event layer
makes of a connection that does so. What it takes to say so is not in the code: an
observer's mark is `left` when its path was turned off and the observer stayed, and
`robbed` are the paths whose observer was deleted for another path and not asked for
again since; `given` are the paths handed over; `hurt` those where a command got lost,
that were turned off with no listener on them, or where an observer that was left
failed, with which the trigger drops the listeners there are by then.

| Code | Model |
|---|---|
| `_wilddog_event_nodeAdd` | `On`: `Add` |
| `_wilddog_event_nodeDelete` | `Off`: `Delete`, with `HandedOver`, on the node that `NodeFind` gives |
| `_wilddog_conn_addObserver`, `_wilddog_conn_removeObserver` | `AddObserver`, `RemoveObserver`, in the order the commands are given (`Asks`, `Cancels`) |
| a full queue, a packet that cannot be sent | `room`, the commands that are taken; `sent`, whether the last one went out |
| `_wilddog_conn_addObserver_callback` with an error | `Failing` before the callbacks, `Failed` after them: the observer goes if it is there still |
| `_wilddog_event_trigger` with an error | `Fail`: `Trigger`, which goes through the listeners in their order |
| the same answer to an observer handed over | `FailDirect` |
| EVENT_STATE_OFF | `dying`, which lasts within one action only |

In `Trigger` any of the callbacks listens again on its own path, as
`tests/linux/test_reobserver.c` does. A successful answer changes nothing here.
`Trouble` bounds the paths where calls are refused, an off is given a path that
nobody listens on, or an observer fails that was left. `MAX_OBS` bounds the observers.
`_wilddog_event_deinit` and other calls from callbacks are not modelled; nor is a packet
allocated in the callback of an observer's error where that observer was, which the same
callback deleted (conn.c:480 would take the one for the other). An error 401 makes the
connection lose its session and tells nobody, so it is no action here.

### CoapObserve and the code

One packet in `p_observer_list`, `obs`, with its token, its `_Wilddog_Coap_Observe_Data_T`
(`data`, `last`) and NEVERTIMEOUT (`acked`); `net` holds the messages on their way,
any of which may be lost, may arrive again, and in any order. The server is external:
subscriptions are pairs of a token and a session, the newest version of the data is
sent until it is acknowledged, and sessions are dropped at will. A registration
(`Register`) and each retransmission is answered. The counter starts anywhere in each
session.

| Code | Model |
|---|---|
| `_wilddog_coap_send_addObserver`, `_send_retransmit` | `On`, `Retransmit` with `Reset` |
| `_wilddog_coap_isObserveNew` | `IsObserveNew` |
| `_wilddog_coap_recv_getPkt`, `_handlePkt`, `_freePkt` in trySync | `Recv`: matched, taken or ignored, acknowledged either way |
| `_wilddog_conn_addObserver_callback` | `Answered` |
| the observers' part of the auth callback | `Established`: `Anew` |

`stale` and `missed` record what the properties leave out: an answer from an older
session since the session was established, and a notification that was acknowledged
and dropped; `kept` is the version whose counter `last` is. `HALF` is half of the
counter's range, 2^23 in the code. `LAG` bounds how far apart two counters that are
compared may be, as RFC 7641 does.

### WilddogClock and the code

`now` is `l_wilddog_currTime` in W bits. A behaviour follows one packet (a request or an
observer), the session or the keep-alive. The others have in common with the session
its status and that it is established, refused or lost, which may come at any time
(`Established`, `Refused`, `Lost`): a packet is sent again in an established session
only, and when one is established what is queued is due at once, an observer as a new
one (`Requeued`, `Relisted`). `Cycle` is one trySync (`Synced`, the handlers' comparisons) and
`_wilddog_syncTime`; the other actions are the calls and answers that set times.

| Code | Model |
|---|---|
| `d_register_time`, `d_next_send_time` / `d_ping_next_send_time`, `d_count` / `d_online_retry_count` | `from`, `next`, `count` |
| `d_offline_time`, `d_auth_fail_count` | `off`, `fails` |
| NEVERTIMEOUT; 0xfffffff | `never`; `FAR` |
| `_wilddog_conn_retransmitPkt` | `PacketSync` |
| p_auth in `_wilddog_conn_retransmitHandler`, then `_wilddog_conn_sessionRetry` | `SessionSync`: `AuthTimedOut`, `Retried` |
| p_ping in `_wilddog_conn_retransmitHandler`, then `_wilddog_conn_pingHandler` | `KeepaliveSync` |
| `_wilddog_conn_ping_callback` | `Pong`, one disjunct per code: 200 an interval of the policy from now, 400 the mark of unset, 401 and 406 now, 412 and others leave the time |

The rest of `timer` is the time that really went by since each was set (`age`, `since`,
`away`) and for what the next time was set (`last`, `wait`), which the properties
compare with. What `1 << d_online_retry_count` gives past the width of an int is a
choice (`Shifted`); within it, it is `Bit`. Left out: that p_auth and p_ping
are sent again while they wait, which sets times that nothing here reads; p_auth found
in an established session (conn.c:1163), which `SessionConsistent` excludes; and a
trySync that receives an unmatched packet, which does nothing to the timers.

### WilddogClient and the code

`container` is `l_wilddog_containTable` and `l_isStarted`, `repos` the list, `repo[h]`
what this layer changes and sees of the repo of host h, `ref` the references. `loop`
makes `_wilddog_ct_conn_sync` several steps, `Sync`, `SyncRepo` for each repo and
`SyncEnd`, between which user callbacks call anything else. `AuthEnds` are the ways an
authentication ends in the auth callback; `Retried` is `sessionRetry`, which sends no
data. `WILDDOG_FORCE_OFFLINE` and `WILDDOG_AUTH_2_0` are defined. Left out: a callback
that destroys the last reference of a host, whose repo the loop still walks, and the
use of a reference destroyed as another variable.

### WilddogNode and the code

`heap` maps addresses to nodes with their five links, key and value; a freed one may
be allocated again. Each operation is an operator from a heap to a heap, written from
the code's assignments (`Prepend`, `Replace`, `Unlinked`, ...), with a companion that
says whether it touched freed memory (`AddIsSafe`, ...); `broken` remembers. `Find`
matches keys as `findInner` does, prefix by prefix. `Show` is what
`_wilddog_event_trigger` does with an answer: `Unhook` for each listener in their
order, then the answer is freed. `CAREFUL` leaves out three calls the code gets wrong
(below).

A loop along `next`, or a recursion along `child` and `next`, is the set of nodes it
visits: the least one that holds its start and that no link leaves (`List`, `Under`).
Whether the code visits any of them twice, or one that is freed, is `IsTree`. The clone
is into new nodes `f`, any there are. `WilddogNodeTrees` reads the tree of data off each
root, by the path of each node (`TreesOf`), and keeps it in a variable of its own,
`trees`, so that TLC computes it once for each state.

### WilddogCbor and the code

A payload is a sequence of items; a number's item keeps the bytes that follow its
head, so widths, order and sign are as in the code. `Node2Payload` follows
`_wilddog_n2c_inner`, `Entries` follows `_wilddog_c2n_parseMap`. `Encodings` is CBOR
itself, what the server takes for a tree: the shortest numbers, and maps in either
form. BYTE, INLINE and DEFLEN stand for 256, 24 and 255.

## 3. What TLC checks

| Run | Instance | Shows |
|---|---|---|
| `ping` | the code's constants: 19, 8, 165 | `PingInv`, `IntervalBounded`: the interval stays above zero and below 173; `KeepsPinging`; `LongUntilAnswered` |
| `session` | 1 request, 1 auth, every answer to auth and ping, time beyond 0xfffffff | `SessionConsistent`, `AuthedIsOnline`, `BackoffConsistent`, `NothingForgotten`, `KeepsTrying`, `AcknowledgedIsQuiet`, `RequestsEnd` |
| `queue` | 3 requests over 2 paths, queue limit 1 | `TypeOK`, `CountBookkeeping`, `CalledOnce`, `RequestsKept` (refinement of `Requests`) |
| `event` | five paths up to three deep, one a string prefix of another; up to 3 observers; room for 0, 1, 2 or all commands on one of the paths, in the middle | `TypeOK`, `Covered`, `NoOrphans`, `ToldOnce`, `Hears` |
| `nodes` | 4 nodes, 2 keys, one the beginning of the other | `NeverBroken`, `ListsRight`, `ChildIsFound`, `FindIsRight`, `TreesKept` (refinement of `DataTrees`) |
| `observe` | 2 sessions, 4 versions, a counter of 3 bits that starts at 0 or 6, 2 messages on their way, failures | `AckedMeansSubscribed`, `NeverBackwards`, `CatchesUp` |
| `clock` | a counter of 5 bits, shifts of 4, retries up to 7, pings after 5 or 2, 0xfffffff at 14, steps of 1 and 3 | `TimeoutAgrees`, `DueAgrees`, `RetryAgrees` |
| `client` | 2 hosts, 1 token and none, 3 references | `OneEach`, `ListenersKnow`, `NobodyElse`, `StatusIsTrue` |
| `codec` | bytes of 2 bits, every number of 4 bytes; trees of 3 levels, maps of up to 3 | `Understood`, `ReadBack` |

Each property has a mutant in `PROJECT.json`: a plausible slip in one operator
(the definitions commented "Mutant of") under which TLC finds the property broken.

Why the bounds are enough. Packets interact only through the session, the counters
and the choice of an observer by `off`. One request with every answer exercises all
pairs of handlers that write the session (`session`); three requests are what it
takes to delete a wrong observer, to pass a limit of one, and to have a request
beside two observers (`queue`). A limit of 0 to 2 for timeouts,
failures and retries is reached and passed by runs of this length. Timeouts of 1
or 2 units and intervals of 1 leave room for a retransmission before a timeout.
Five paths hold every relation between two of them that the event layer tells
apart, and siblings below a third one, which the hand-over needs; the one where
commands get lost has a path above, one below, one beside it and one elsewhere. Three
observers are one that is left, one that goes in its place and one that stays (`event`).

Four nodes make every shape that the code tells apart: an only, first, middle and last
child, a chain of three keys below a root, a tree and its copy (`nodes`). Two
sessions are an old and a new one; versions count past the half of three bits and,
from 6, past the wrap, and two messages can change places (`observe`). Five bits
leave each wait, of at most a quarter of the range, room to begin before the wrap and
end after it, and time to reach FAR in half of it; a step of 3 passes over a comparison
(`clock`). Of hosts and
references there need be two that differ and one that is shared; a token is there or
not there (`client`). The four widths of numbers have their boundaries at 3, 4, 16 and
half of 256, each with a number on both sides of it; a map of unknown length has two
entries, which is one less than it may have (`codec`).

Fairness (`FairSpec`): `SyncIdle` and `Tick`. The manual asks the application to
call trySync again and again; each call that finds nothing within the receive
timeout is `SyncIdle` and advances the time. That it happens again and again is an
assumption on the network: a peer that sends unmatched packets without pause makes
every trySync return early, and then nothing is retransmitted or times out. Nothing
is assumed of the server, or of answers. In `CoapObserve` the client's own steps are
fair for the same reason; the server's notification and its arrival are strongly
fair: what is sent again and again arrives in the end, which is what CoAP's
confirmable messages are for, and a full network loses something. In `WilddogPing` a ping is answered or
given up, which `RetransmitPing` and the fairness of `SyncIdle` justify.

### Claims the code does not keep

| Run | Claim | Counterexample |
|---|---|---|
| `claim_off` | off cancels the observation of its path (API manual) | an observer of another path goes, this one stays: conn.c:1752 tests that the URLs differ |
| `claim_hears` | "once that data changes, onDataChange is called" (API manual, addObserver) | on /a, on /a/b, on /a/b/c, off /a: the observer of /a/b answers to its own callback (event.c:687), and /a/b/c is not told |
| `claim_number` | integer nodes hold 32 bits (API manual, wilddog_node_createNum) | the four bytes of a number are ordered with htons, wilddog_cbor.c:903 and 973: 65536 is sent as 0, 65537 as 65536 |

More divergences need no run.

- Connection. The interval's "max is 165" (conn.c:74) is passed at 171 = 19 + 8 * 19,
  as conn.c:101 compares before it adds; `IntervalBounded` states the true bound. The
  queue takes `WILDDOG_REQ_QUEUE_NUM` + 1 packets, as the limit is tested with `>`
  before one is added (conn.c:1258), and the observer that off deletes is not counted
  out (conn.c:1754), so its place is never free again, whatever the manual says of
  QUEUEFULL. goOffline only queues a packet, although the state machine of conn.h:49
  takes the session to Init. After a 400 ("stop to send auth data", conn.c:816) two
  stored requests that time out make the session NOTAUTHED again (conn.c:1241).
  "Never timeout, next send time to maximum" (conn.c:456) holds for 3.1 days of
  uptime, which `AcknowledgedIsQuiet` says. wilddog_auth called in the callback of
  wilddog_auth leaves the session AUTHING for ever, since conn.c:877 frees the new
  packet: with `REENTRANT = TRUE`, `SessionConsistent` fails.
- Event layer. /ab counts as within /a (event.c:140), so with /a listened on it gets
  no observer of its own. A node is marked before its command is taken (event.c:508),
  so after QUEUEFULL listening again succeeds and sends nothing; an off that was
  refused marks those below as carrying (event.c:695), and they are not handed over
  when it is repeated. Off of a path that nobody listens on removes the first listener
  below it, leaves its observer and hands over its brothers (event.c:554). `Hears`,
  `NoOrphans` and `ToldOnce` fail at or below such a path, and say that it does no harm
  elsewhere. They fail, too, for the observers that the off of the connection leaves and
  the listeners it robs of theirs (conn.c:1752), which they set aside.
- Node tree. wilddog_node_delete and addChild leave the prev of the brother after a
  first child that goes (node.c:987, 874), so the next deletion of that brother writes
  to freed memory and leaves it in the list; the deletion of an only child never
  returns (node.c:993). These calls `CAREFUL` leaves out. wilddog_node_find takes a
  key for a name that only begins with it (node.c:762); `FindIsRight` excludes such
  brothers. Two listeners on brothers mix up their brothers (event.c:293): with the
  listeners `Two`, `NeverBroken` fails.
- CoAP adapter. A counter in the upper half is refused after a retransmission
  (coap.c:310, 791); a notification whose counter is 0 is never compared, nor is
  its counter kept (1263), so one older than it is told after it, which `NeverBackwards`
  excludes; an observer whose registration could not be sent gets nothing (929).
- Client. The manual asks for one wilddog_auth per host, but a session that is
  re-established sends no data (conn.c:1496) and is nobody's until the application
  authenticates again; `NobodyElse` allows it.
- CBOR. A negative float alone is refused (cbor.c:712); an object without children in
  another is sent as a key without a value (1320); a map of unknown length with 255
  entries or more ends its parent (434). `Understood` and `ReadBack` exclude them.

## 4. What is proved

TLAPS proves what follows for every value of the constants that the assumptions of
the modules allow (`PingAssumption`, `ConnAssumption`, `ClockAssumption`,
`ObserveAssumption`, `EventAssumption`, `NodeAssumption`). Every safety property of a
run in section 3 is proved, but those of `codec`, and both refinements are.

| Module | Theorem | States |
|---|---|---|
| `WilddogPingProofs` | `BoundedInterval`, `FloorAndCeiling`, `LongPingLasts` | `IntervalBounded`, `PingInv`, `LongUntilAnswered` |
| `WilddogConnProofs` | `TypeCorrect`, `ConsistentSession`, `EstablishedIsOnline`, `ConsistentBackoff` | `TypeOK`, `SessionConsistent`, `AuthedIsOnline`, `BackoffConsistent` |
| | `CountIsQueue`, `OneCall`, `NoneForgotten`, `AcknowledgedStaysQuiet` | `CountBookkeeping`, `CalledOnce`, `NothingForgotten`, `AcknowledgedIsQuiet` |
| | `Implementation` | `RequestsKept`, the refinement of `Requests` |
| `WilddogClientProofs` | `OneRepoEach`, `WhoListensKnows`, `OnlyTheStored`, `TrueStatus` | `OneEach`, `ListenersKnow`, `NobodyElse`, `StatusIsTrue` |
| `WilddogClockProofs` | `TimeoutIsAge`, `DueOnTime`, `RetryOnTime` | `TimeoutAgrees`, `DueAgrees`, `RetryAgrees` |
| `CoapObserveProofs` | `AckedIsSubscribed`, `ForwardsOnly` | `AckedMeansSubscribed`, `NeverBackwards` |
| `WilddogEventProofs` | `TypeCorrect`, `AllCovered`, `NoneLeftOver`, `ToldAtMostOnce`, `EveryoneHears` | `TypeOK`, `Covered`, `NoOrphans`, `ToldOnce`, `Hears` |
| `WilddogNodeProofs` | `NeverTouchesFreed`, `LinksAgree`, `ChildrenAreFound`, `FindsTheNode` | `NeverBroken`, `ListsRight`, `ChildIsFound`, `FindIsRight` |
| | `TreesAreKept` | `TreesKept`, the refinement of `DataTrees` |

`ConsistentSession` is under `~REENTRANT`: it fails when the auth callback calls
`wilddog_auth` (section 3). The theorems about nodes are under `Proper`: `CAREFUL`, and
one listener to a trigger at most, since both the calls that `CAREFUL` leaves out and two
listeners on brothers break the tree (section 3). The bounds of the models (`NUM_REQ`, `MAX_SESS`, `NET`, ...)
are constants, so the theorems hold however large they are. Each module has one
inductive invariant, `Invariance` (`PolicyInvariant` of the ping policy), the
connection a second one.

**Ping policy.** `IntervalBounded` is not inductive: that the interval stays positive
while failures take delta back needs
`interval >= PING_INTERVAL - 2 * PING_DELTA + 2 * delta`, as halving delta leaves twice
the half within the whole. It needs `2 * PING_DELTA < PING_INTERVAL`, which the code's
19 and 8 satisfy. That a long ping lasts needs that only a ping that was set is long.

**Connection.** An action is a pipeline of operators, so the invariant is a predicate
`Sound(c)` on a record, and each operator has a lemma that it maps sound records to
sound ones (`AuthCallbackSound`, `RetransmitQueuesSound`, ...). `AuthVerdict` alone
leaves a record that is not sound, AUTHED with p_auth still there; `Settled` says what
it is, and `AuthCallbackSound` closes the gap. The action then chains the lemmas
(`MaintainSound`), and `Invariance` has one step per action. `BackingOff` has to be
carried with the types: that the failures reach `SESSION_OFFLINE_TIMES` only with the
offline time set is what makes a retry legitimate. `ConnAssumption` says that
`RETRANSMIT_INTERVAL * 2^n` is a number, since the provers know nothing of
exponentiation; TLC evaluates it.

The account of the requests, `RequestsInv`, goes the same way with `Booked(c)`: count,
calls and timers of each packet, and that in an established session every packet was
sent. The refinement has a step of `Requests` or none for each action, by what `Carried`
says of a packet that stays.

**Client.** The list of repos and the table of references agree (`Tree`), and what the
loop of trySync has counted is what the repos it has passed are like (`Visited`): user
callbacks between its steps change repos on both sides of it. `Mine(repo)` says of what
is on its way in whose name it is, so that an answer cannot establish a session for data
replaced meanwhile.

**Clock.** The invariant says for each stored time which moment of the past it was made
from: the age of a packet modulo the range (`AgeIs`), what a next time was set for
(`Scheduled`), that an offline time lies behind by the time away and is late enough in
the uptime for its wait (`Stamped`). `TimeoutAgrees` holds across the wrap since a packet
is at most half the range old (`Within`), as trySync lets none grow older and intervals
are at most a quarter; the others are for a counter that has not wrapped. Each handler of
trySync has a lemma (`PacketSyncFits`, ...), and `Invariance` one step per action. `Bit`
is a recursive function, whose values come from `NatRecursion`.

**CoAP adapter.** The messages on their way carry the version and the counter they were
sent with (`Numbered`), and the counter kept is of a version at most `LAG` behind the newest
(`Keeping`), so the comparison modulo the range is one of versions. The
proof found a case that three bits and four versions have no room for: after a
notification with counter 0, an older one is taken. `NeverBackwards` now excludes it.

**Event layer.** The invariant is of a value of the lists: all listeners are covered,
there is one observer for each ON_FLAG at most that is not left (`Once`), it is there if
it was neither handed over nor deleted for another path (`Stands`), and of two nested
ones neither answers to the trigger (`Outer`, `Inner`). Observers are counted in the
list: what adding one, leaving those of a path and deleting the first of the others does
to the counts are `AskOne`, `LeftIs` and `CancelOne`, and `AsksIs` and `CancelsIs` follow
for the commands of a call, one after another. An off can only take observers away, which
is why `NoOrphans` and `ToldOnce` bear it, and what it takes away `robbed` has. So a
listener, which is within a chain of paths, is within one at most that tells it. `AddRight`, `DeleteRight` and `TriggerRight` keep it; the hand-over
(`HandsOver`) uses that in the order of the list a path comes right before those below
it. `Trigger` goes through the list by a recursive function: `AfterIs` says it exists,
and `Among` what is so while it goes: the listeners that died and listen again are not
nested and have all the observers there are at or below the one that failed. The proof
found that an off which takes another node hands over that node's brothers, too: `hurt`
now has its path even when every command is taken, and the properties hold wherever
none above is hurt, where they used to except all paths near it.

**Node tree.** The invariant `Sound` of a heap has five parts: the types; a freed node has
no links (`Clean`); a link leads to an allocated node whose links answer it (`Joined`);
one link leads to each node, and one key to each child (`Apart`); and every set of nodes
has one whose parent, and one whose left brother, is not in it (`Grounded`), which is how
the absence of rounds is said without counting. From these, the kids of a node are the
nodes that have it for a parent (`KidsByParent`), and what `IsTree` asks holds of every
node. There is a lemma for each thing an operation does: `Prepended`, `Swapped` (a child
takes another's place and its tree goes), `Pruned`, `Grown`, and a clone's links back
answer the links forth because those of the original do. `FoundByLevel` says that
`wilddog_node_find` is right on a path of any length, by induction over its levels.

The proof found that a property said too much. A stale prev (section 3) was taken to lead
to a brother before, or to none; it does with two keys, but with three the node it leads
to, freed, may be allocated again and become a brother elsewhere in the list. `ListsRight`
now leaves out the prev that is stale, and says of any other that it is exact.

The refinement. `Read(h, P, R)` says that P gives each node its path and R the root of its
tree. Such P and R exist for a sound heap, one node after another below those that have
them, and two nodes of a tree differ in their paths, so they determine the trees of data
(`TreesAre`, `OneTrees`). Each
operation says what P and R are afterwards: a node that is added takes its tree below
the path of its new parent, a clone's image has the path of its original, and so on. The
step of `DataTrees` follows (`CreateIsNew`, `AddIsAdd`, `DeleteIsDelete`, `CloneIsClone`,
`KeyIsKey`, `ValueIsValue`, `ShowIsDelete`). The crux is `Replaced`: what
`wilddog_node_addChild` frees by its links is what lies at or below the new node's path,
and nothing else.

Induction. The library's induction theorems have an operator as a parameter, which the
provers cannot instantiate; `SetInduction` states them for a set and for a function,
which is enough for the natural numbers.

Two modules share lemmas on the operators of the ping policy, `WilddogPingProofs` and
`WilddogConnProofs`: each proves those it needs.

Only model-checked: `Understood` and `ReadBack`, since `WilddogCbor` encodes and decodes
trees with recursive operators, which the prover cannot follow, and what they compute for
every tree would need an induction over trees; and everything under fairness
(`KeepsPinging`, `KeepsTrying`, `RequestsEnd`, `CatchesUp`), since liveness is beyond it.
TLC alone says that the claims of section 3 fail.

## 5. What is left

The models, most important first: calls from the callbacks of `WilddogEvent` on other
paths, and its `deinit`; allocations that fail in the connection; callbacks that destroy
the references that the client tree walks. The proofs: the bytes of a number in
`WilddogCbor`, once it is apart from the recursion over trees; the trigger with several
listeners that are not brothers.

### Not modelled

The vendored libraries (mbedtls, tinydtls, the CoAP PDU code, more than nine tenths of
the lines), the platform ports (sockets and a clock), the public API's argument checks,
printing and measuring, and the parsing of URLs, which is string handling. Failing
allocations: the handlers return early, and most have changed nothing by then. The
memory of packets and references: callbacks that destroy what is being walked are left
out, and listed as hazards. In the CoAP adapter the other send functions, which differ
in the PDU they build; in CBOR the growth of buffers, payloads that are cut short and
the width of floats.
