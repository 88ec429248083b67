-------------------------------- MODULE Wake --------------------------------
(***************************************************************************)
(* Waking a switched-off device of an owner (WakeDevice of ws.rs): the     *)
(* server tells the owner's online agents of the device's network to send  *)
(* the magic packet, and queues its addresses for the online routers of    *)
(* that network, which come and ask (wake_poll of router_waker.rs).        *)
(*                                                                         *)
(* A router is online for a while after it asked, an address stays queued  *)
(* for a while, an attempt forbids the next for a while: nothing removes   *)
(* them but the calls that look.  Each registry method is one critical     *)
(* section, and a handler takes several.  It awaits nothing between them:  *)
(* a step of the clock, many seconds, never falls into a handler.          *)
(***************************************************************************)
EXTENDS Naturals, FiniteSets

CONSTANTS Machine,               \* the owner's devices, hosts and manual ones
          Router,                \* and routers, all with tokens
          SameNet,               \* [Machine -> SUBSET (Machine \cup Router)]
          Asker, Poller,         \* client connections, HTTP requests in flight
          RouterOnline, RouterQueueTTL, WakeCooldown,
          NotYet,
          WakeSpan               \* bound: the last instant

ASSUME WakeAssumption ==
    /\ SameNet \in [Machine -> SUBSET (Machine \cup Router)]
    /\ RouterOnline \in Nat /\ RouterQueueTTL \in Nat /\ WakeCooldown \in Nat
    /\ NotYet \notin Nat /\ WakeSpan \in Nat

VARIABLES
    wnow,
    awake,      \* machines whose agent is registered
    wakeRows,   \* `wake_devices`: routers not forgotten
    tried,      \* `wake_attempts`: when a machine was last to be woken
    polled,     \* `router_polls`: when a router last asked
    routerQueue,  \* [mac, at] of a router; a machine stands for its MAC
    asking,     \* a WakeDevice handler past the cooldown: [what, routers, sent, told]
    polling,    \* a wake_poll handler past the token: [router, at]
    \* what the properties remember:
    promised,   \* [router, mac, at] of wakes a client was told of and that no router took
    taken       \* the addresses last handed to a router

wakeVars == <<wnow, awake, wakeRows, tried, polled, routerQueue, asking, polling, promised, taken>>

NotAsking == [what |-> NotYet, routers |-> {}, sent |-> {}, told |-> FALSE]
NotPolling == [router |-> NotYet, at |-> "idle"]

WakeInit ==
    /\ wnow = 0
    /\ awake \in SUBSET Machine
    /\ wakeRows = Router
    /\ tried = [m \in Machine |-> NotYet]
    /\ polled = [r \in Router |-> NotYet]
    /\ routerQueue = [r \in Router |-> {}]
    /\ asking = [a \in Asker |-> NotAsking]
    /\ polling = [p \in Poller |-> NotPolling]
    /\ promised = {} /\ taken = {}
-----------------------------------------------------------------------------
Fresh(since, ttl, now) == since # NotYet /\ now - since < ttl
Live(entries, now) == {e \in entries : now - e.at < RouterQueueTTL}

Online(r, now) == Fresh(polled[r], RouterOnline, now)

(* wakers_for, routers_for                                                 *)
Wakers(m) == {w \in (SameNet[m] \cap awake) \ {m} : w \in Machine}
RoutersFor(m, now) == {r \in SameNet[m] \cap wakeRows : Online(r, now)}
-----------------------------------------------------------------------------
(* WakeDevice up to the cooldown: the machine is off and was not to be     *)
(* woken a moment ago.                                                     *)
Asks(a, m) ==
    /\ asking[a] = NotAsking /\ m \notin awake
    /\ ~Fresh(tried[m], WakeCooldown, wnow)
    /\ tried' = [n \in Machine |-> IF n = m THEN wnow
                                   ELSE IF Fresh(tried[n], WakeCooldown, wnow) THEN tried[n]
                                   ELSE NotYet]
    /\ asking' = [asking EXCEPT ![a] = [NotAsking EXCEPT !.what = m]]
    /\ UNCHANGED <<wnow, awake, wakeRows, polled, routerQueue, polling, promised, taken>>

(* The agents are told, the routers found; with neither it is an error.    *)
FindsRouters(a) ==
    LET m == asking[a].what
    IN /\ m # NotYet /\ ~asking[a].told
       /\ asking' = [asking EXCEPT ![a] =
                       IF Wakers(m) = {} /\ RoutersFor(m, wnow) = {} THEN NotAsking
                       ELSE [@ EXCEPT !.told = TRUE, !.routers = RoutersFor(m, wnow)]]
       /\ UNCHANGED <<wnow, awake, wakeRows, tried, polled, routerQueue, polling, promised, taken>>

(* enqueue_router_wake: an address that is queued keeps its place and age. *)
Enqueues_KeepsExpired(a, r) ==
    LET m == asking[a].what
    IN /\ r \in asking[a].routers
       /\ routerQueue' = [routerQueue EXCEPT ![r] =
                      IF \E e \in @ : e.mac = m THEN @ ELSE @ \cup {[mac |-> m, at |-> wnow]}]
       /\ asking' = [asking EXCEPT ![a].routers = @ \ {r}, ![a].sent = @ \cup {r}]
       /\ UNCHANGED <<wnow, awake, wakeRows, tried, polled, polling, promised, taken>>

Enqueues(a, r) ==
    LET m == asking[a].what
        kept == Live(routerQueue[r], wnow)
    IN /\ r \in asking[a].routers
       /\ routerQueue' = [routerQueue EXCEPT ![r] =
                      IF \E e \in kept : e.mac = m THEN kept
                      ELSE kept \cup {[mac |-> m, at |-> wnow]}]
       /\ asking' = [asking EXCEPT ![a].routers = @ \ {r}, ![a].sent = @ \cup {r}]
       /\ UNCHANGED <<wnow, awake, wakeRows, tried, polled, polling, promised, taken>>

(* WakeSent: so many wakers have been told.                                *)
WakeSent(a) ==
    /\ asking[a].told /\ asking[a].routers = {}
    /\ promised' = promised \cup
         {[router |-> r, mac |-> asking[a].what, at |-> wnow] :
            r \in {r \in asking[a].sent : \E e \in routerQueue[r] : e.mac = asking[a].what}}
    /\ asking' = [asking EXCEPT ![a] = NotAsking]
    /\ UNCHANGED <<wnow, awake, wakeRows, tried, polled, routerQueue, polling, taken>>

(* ForgetDevice of a router: the row, then what the registry has of it.    *)
ForgetRow(r) ==
    /\ r \in wakeRows
    /\ wakeRows' = wakeRows \ {r}
    /\ UNCHANGED <<wnow, awake, tried, polled, routerQueue, asking, polling, promised, taken>>

ForgetRouter(r) ==
    /\ r \notin wakeRows /\ (polled[r] # NotYet \/ routerQueue[r] # {})
    /\ polled' = [polled EXCEPT ![r] = NotYet]
    /\ routerQueue' = [routerQueue EXCEPT ![r] = {}]
    /\ promised' = {q \in promised : q.router # r}
    /\ UNCHANGED <<wnow, awake, wakeRows, tried, asking, polling, taken>>
-----------------------------------------------------------------------------
(* wake_poll: the token is known, the poll is remembered, the owner's      *)
(* browsers are told if the router was offline (module Presence), and the  *)
(* queue is handed over.                                                   *)
PollStarts(p, r) ==
    /\ polling[p] = NotPolling /\ r \in wakeRows
    /\ polling' = [polling EXCEPT ![p] = [router |-> r, at |-> "known"]]
    /\ UNCHANGED <<wnow, awake, wakeRows, tried, polled, routerQueue, asking, promised, taken>>

RouterPolled(p) ==
    /\ polling[p].at = "known"
    /\ polled' = [polled EXCEPT ![polling[p].router] = wnow]
    /\ polling' = [polling EXCEPT ![p].at = "polled"]
    /\ UNCHANGED <<wnow, awake, wakeRows, tried, routerQueue, asking, promised, taken>>

DrainRouterWakes(p) ==
    LET r == polling[p].router
    IN /\ polling[p].at = "polled"
       /\ routerQueue' = [routerQueue EXCEPT ![r] = {}]
       /\ taken' = {e.mac : e \in Live(routerQueue[r], wnow)}
       /\ promised' = {q \in promised : q.router # r}
       /\ polling' = [polling EXCEPT ![p] = NotPolling]
       /\ UNCHANGED <<wnow, awake, wakeRows, tried, polled, asking>>
-----------------------------------------------------------------------------
PowersUp(m) ==
    /\ m \notin awake /\ awake' = awake \cup {m}
    /\ UNCHANGED <<wnow, wakeRows, tried, polled, routerQueue, asking, polling, promised, taken>>

PowersDown(m) ==
    /\ m \in awake /\ awake' = awake \ {m}
    /\ UNCHANGED <<wnow, wakeRows, tried, polled, routerQueue, asking, polling, promised, taken>>

WakeTick ==
    /\ wnow < WakeSpan /\ wnow' = wnow + 1
    /\ asking = [a \in Asker |-> NotAsking] /\ polling = [p \in Poller |-> NotPolling]
    /\ UNCHANGED <<awake, wakeRows, tried, polled, routerQueue, asking, polling, promised, taken>>

WakeNext ==
    \/ WakeTick
    \/ \E m \in Machine : PowersUp(m) \/ PowersDown(m)
    \/ \E a \in Asker :
         \/ \E m \in Machine : Asks(a, m)
         \/ \E r \in Router : Enqueues(a, r)
         \/ FindsRouters(a) \/ WakeSent(a)
    \/ \E r \in Router : ForgetRow(r) \/ ForgetRouter(r)
    \/ \E p \in Poller :
         \/ \E r \in Router : PollStarts(p, r)
         \/ RouterPolled(p) \/ DrainRouterWakes(p)

WakeSpec == WakeInit /\ [][WakeNext]_wakeVars
-----------------------------------------------------------------------------
(* A wake that a client was told was sent is kept by every router that was *)
(* counted, long enough for a router that goes on asking: although an      *)
(* address that is queued already keeps its age, and although a client,    *)
(* several polls and the clock interleave, a router that comes within      *)
(* RouterQueueTTL - RouterOnline of the request is handed the address      *)
(* (registry.rs:599).                                                      *)
PromiseIsKept ==
    [][\A p \in Poller : DrainRouterWakes(p) =>
         \A q \in promised :
           /\ q.router = polling[p].router
           /\ wnow - q.at < RouterQueueTTL - RouterOnline
           => q.mac \in taken']_wakeVars
=============================================================================
