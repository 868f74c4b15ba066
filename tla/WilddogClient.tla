---------------------------- MODULE WilddogClient ----------------------------
(***************************************************************************)
(* The client tree (src/wilddog_ct.c) and the authentication data          *)
(* (src/wilddog_store.c): one repo per host, with a connection and a       *)
(* store, its references, the online status of the client, which listeners *)
(* of ".info/connected" are told, going offline and online, and the loop   *)
(* of wilddog_trySync over the repos.                                      *)
(*                                                                         *)
(* Of a connection there is only what this layer changes and sees: the     *)
(* status, whether it counts as offline, and the name a session is in.     *)
(* What WilddogConn does in trySync is any of the outcomes here.  The      *)
(* requests of ordinary paths go to WilddogConn.                           *)
(***************************************************************************)
EXTENDS Integers, FiniteSets, SequencesExt

CONSTANTS
  Hosts,        \* the hosts of URLs
  Root, Info,   \* the paths "/" and "/.info/connected"
  Keys,         \* the other paths, children of the root
  Tokens, None, \* authentication data, and none
  Refs          \* references: as many as are allocated at once

Paths == Keys \cup {Root, Info}

VARIABLES
  container,  \* l_isStarted, d_rc_online and isForcedOffline
  repos,      \* p_rc_head: the hosts of the repos, in the order of the list
  repo,       \* for each host its repo
  ref,        \* the references: allocated, with host and path
  loop        \* _wilddog_ct_conn_sync: what it has still to visit, and its counts

vars == <<container, repos, repo, ref, loop>>

\* A repo: the connection's status, whether d_offline_time is set, p_auth (on
\* its way, with a token) and p_se_auth; p_rp_onlineFunc.  History variables: the
\* token the last session was established with, and what the listener was told.
NewRepo ==
  [status |-> "AUTHING", offline |-> FALSE, auth |-> [on |-> TRUE, token |-> None],
   as |-> None, stored |-> None, listens |-> FALSE, told |-> FALSE]

Free == [used |-> FALSE, host |-> None, path |-> None]
Idle == [on |-> FALSE, rest |-> <<>>, total |-> 0, offline |-> 0, moved |-> FALSE]

Live == {h \in Hosts : Contains(repos, h)}
Used == {r \in Refs : ref[r].used}
RefsOf(h) == {r \in Used : ref[r].host = h}
FindRef(h, p) == {r \in RefsOf(h) : ref[r].path = p}
-------------------------------------------------------------------------------
(* References.                                                               *)

NewRef(h, p) ==
  \E r \in Refs \ Used : ref' = [ref EXCEPT ![r] = [used |-> TRUE, host |-> h, path |-> p]]

\* wilddog_initWithUrl: the same URL has the same reference.  A new repo begins
\* to establish its session, whatever the client's state; the first one resets it.
CreateRef(h, p) ==
  /\ FindRef(h, p) = {} /\ NewRef(h, p)
  /\ container' = IF container.started THEN container
                  ELSE [started |-> TRUE, online |-> FALSE, forced |-> FALSE]
  /\ IF h \in Live THEN UNCHANGED <<repos, repo, loop>>
     ELSE /\ repos' = Append(repos, h)
          /\ repo' = [repo EXCEPT ![h] = NewRepo]
          /\ loop' = [loop EXCEPT !.moved = loop.on]

\* Mutant of GetRef: the reference is not searched for first.
GetRefNew(r, p) ==
  /\ (p = Root) # (ref[r].path = Root) /\ NewRef(ref[r].host, p)
  /\ UNCHANGED <<container, repos, repo, loop>>

\* wilddog_getRoot, wilddog_getParent and wilddog_getChild: to a path above or
\* below, in the same repo.
GetRef(r, p) ==
  /\ (p = Root) # (ref[r].path = Root)
  /\ FindRef(ref[r].host, p) = {} /\ NewRef(ref[r].host, p)
  /\ UNCHANGED <<container, repos, repo, loop>>

\* wilddog_destroy: the last reference of a host takes its repo with it, and the
\* last repo the state of the client.  (A user callback does not destroy the last
\* one: the loop that called it goes on with what is freed.  Nor is a reference
\* used that was destroyed as another variable.)
DestroyRef(r) ==
  LET h    == ref[r].host
      last == RefsOf(h) = {r}
  IN  /\ ref' = [ref EXCEPT ![r] = Free]
      /\ last => ~loop.on
      /\ repos' = IF last THEN RemoveFirst(repos, h) ELSE repos
      /\ repo' = IF last THEN [repo EXCEPT ![h] = NewRepo] ELSE repo
      /\ container' = IF repos' = <<>> THEN [container EXCEPT !.started = FALSE, !.online = FALSE]
                      ELSE container
      /\ UNCHANGED loop
-------------------------------------------------------------------------------
(* The online status.                                                        *)

\* Mutant of SetOnline: it is set before it is refused.
SetOnlineEarly(s) ==
  /\ container' = [container EXCEPT !.online = s]
  /\ repo' = IF s /\ container.forced THEN repo
             ELSE [h \in Hosts |-> IF h \in Live /\ repo[h].listens
                                   THEN [repo[h] EXCEPT !.told = s] ELSE repo[h]]

\* _wilddog_ct_setOnlineStatus and _wilddog_ct_onlineCallbackTrigger
SetOnline(s) ==
  IF s /\ container.forced THEN UNCHANGED <<container, repo>>
  ELSE /\ container' = [container EXCEPT !.online = s]
       /\ repo' = [h \in Hosts |-> IF h \in Live /\ repo[h].listens
                                   THEN [repo[h] EXCEPT !.told = s] ELSE repo[h]]

\* wilddog_addObserver and wilddog_removeObserver of ".info/connected", which go
\* no further.  (A query of it tells the status, other calls are refused.)
Listen(r) ==
  /\ ref[r].path = Info
  /\ repo' = [repo EXCEPT ![ref[r].host].listens = TRUE,
                          ![ref[r].host].told = container.online]
  /\ UNCHANGED <<container, repos, ref, loop>>

Unlisten(r) ==
  /\ ref[r].path = Info
  /\ repo' = [repo EXCEPT ![ref[r].host].listens = FALSE, ![ref[r].host].told = FALSE]
  /\ UNCHANGED <<container, repos, ref, loop>>

\* wilddog_goOffline stops wilddog_trySync.  wilddog_goOnline authenticates
\* every connection anew, with the data in its store.
GoOffline ==
  /\ container' = [container EXCEPT !.forced = TRUE]
  /\ UNCHANGED <<repos, repo, ref, loop>>

Authenticated(c, token) ==
  [c EXCEPT !.status = "AUTHING", !.auth = [on |-> TRUE, token |-> token]]

GoOnline ==
  /\ container' = [container EXCEPT !.forced = FALSE]
  /\ repo' = [h \in Hosts |-> IF h \in Live THEN Authenticated(repo[h], repo[h].stored)
                              ELSE repo[h]]
  /\ UNCHANGED <<repos, ref, loop>>
-------------------------------------------------------------------------------
(* Authentication.                                                           *)

\* Mutant of SetAuth: an authentication on its way is let finish.
SetAuthLater(h, t) ==
  /\ h \in Live /\ ~container.forced
  /\ repo' = [repo EXCEPT ![h] =
       [(IF @.auth.on THEN @ ELSE Authenticated(@, t)) EXCEPT !.stored = t]]
  /\ UNCHANGED <<container, repos, ref, loop>>

\* wilddog_auth and wilddog_unauth: the data is stored and sent.
SetAuth(h, t) ==
  /\ h \in Live /\ ~container.forced
  /\ repo' = [repo EXCEPT ![h] = [Authenticated(@, t) EXCEPT !.stored = t]]
  /\ UNCHANGED <<container, repos, ref, loop>>

\* How p_auth ends, in _wilddog_conn_auth_callback: a 401 clears what is stored,
\* whatever was sent.
AuthEnds(c) ==
  LET done == [c EXCEPT !.auth.on = FALSE]
  IN  {[done EXCEPT !.status = "AUTHED", !.as = c.auth.token, !.offline = FALSE],
       [done EXCEPT !.status = "NOTAUTHED", !.stored = None],
       [done EXCEPT !.status = "INIT"],
       [done EXCEPT !.status = "INIT", !.offline = TRUE],
       [done EXCEPT !.status = "NOTAUTHED"],
       [done EXCEPT !.status = "NOTAUTHED", !.offline = TRUE]}

\* _wilddog_conn_sessionRetry: without the data.  Offline, it waits for a while.
Retried(c) ==
  IF c.status = "NOTAUTHED" /\ ~c.auth.on
  THEN {Authenticated(c, None)} \cup (IF c.offline THEN {c} ELSE {}) ELSE {c}

\* What _wilddog_conn_trySync does.  A 401 or timeouts in a row say NOTAUTHED whatever
\* the status was, also while p_auth is on its way.
TrySync(c) ==
  LET ended == {c} \cup (IF c.auth.on THEN AuthEnds(c) ELSE {})
      lost  == {[d EXCEPT !.status = "NOTAUTHED"] : d \in ended}
  IN  UNION {Retried(d) : d \in ended \cup lost}
-------------------------------------------------------------------------------
(* _wilddog_ct_conn_sync: one repo after the other, then the status.  User   *)
(* callbacks run in between, and may call any of the above.                  *)

Sync ==
  /\ ~loop.on /\ ~container.forced
  /\ loop' = [Idle EXCEPT !.on = TRUE, !.rest = repos]
  /\ UNCHANGED <<container, repos, repo, ref>>

SyncRepo ==
  /\ loop.on /\ loop.rest # <<>>
  /\ LET h == Head(loop.rest)
     IN  \E c \in TrySync(repo[h]) :
           /\ repo' = [repo EXCEPT ![h] = c]
           /\ loop' = [loop EXCEPT !.rest = Tail(@), !.total = @ + 1,
                                   !.offline = IF c.offline THEN @ + 1 ELSE @]
  /\ UNCHANGED <<container, repos, ref>>

\* Mutant of AllOffline: one repo is enough.
AllOfflineOne == loop.offline > 0

AllOffline == loop.total = loop.offline

SyncEnd ==
  /\ loop.on /\ loop.rest = <<>>
  /\ IF container.online = AllOffline THEN SetOnline(~AllOffline)
     ELSE UNCHANGED <<container, repo>>
  /\ loop' = Idle
  /\ UNCHANGED <<repos, ref>>

Init ==
  /\ container = [started |-> FALSE, online |-> FALSE, forced |-> FALSE]
  /\ repos = <<>>
  /\ repo = [h \in Hosts |-> NewRepo]
  /\ ref = [r \in Refs |-> Free]
  /\ loop = Idle

Next ==
  \/ \E h \in Hosts, p \in Paths : CreateRef(h, p)
  \/ \E r \in Used, p \in Paths : GetRef(r, p)
  \/ \E r \in Used : DestroyRef(r) \/ Listen(r) \/ Unlisten(r)
  \/ \E h \in Hosts, t \in Tokens \cup {None} : SetAuth(h, t)
  \/ GoOffline \/ GoOnline
  \/ Sync \/ SyncRepo \/ SyncEnd

Spec == Init /\ [][Next]_vars
-------------------------------------------------------------------------------
\* _wilddog_ct_findRepo and _wilddog_ct_findRef: whatever is created and
\* destroyed, a host has one repo and a URL one reference; a repo lives as long
\* as it has a reference, and the client is started as long as it has a repo.
OneEach ==
  /\ Cardinality(Live) = Len(repos)
  /\ \A r, s \in Used : ref[r] = ref[s] => r = s
  /\ Live = {ref[r].host : r \in Used}
  /\ container.started = (repos # <<>>)

\* _wilddog_ct_onlineCallbackTrigger: whoever listens for the online status knows
\* it, also when it listens in between and whatever refuses the change.
ListenersKnow == \A h \in Live : repo[h].listens => repo[h].told = container.online

\* _wilddog_conn_auth, _wilddog_store_setAuth: a session is nobody's, or in the
\* name of what is stored: never of data the user has replaced, while it was sent
\* or since, or the server has refused.
NobodyElse ==
  \A h \in Live : repo[h].status = "AUTHED" => repo[h].as \in {None, repo[h].stored}

\* Comments in _wilddog_ct_conn_sync: "all repo offline, then we offline", else
\* online.  The status is right at the end of the loop, of what its last visits
\* left: also after user callbacks have authenticated or have gone offline.
\* (When they have created a repo it is not counted.)
StatusIsTrue ==
  [][loop.on /\ ~loop'.on /\ ~loop.moved /\ ~container.forced
       => container'.online = \E h \in Live : ~repo[h].offline]_vars
===============================================================================
