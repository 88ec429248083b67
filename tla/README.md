# rcdesk: a TLA+ model of the remote desktop

rcdesk lets a browser control a computer. An *agent* on the computer keeps a
WebSocket to the *signaling server*; a *client* (the browser) asks the server for
the computer, by a six-digit PIN or as one of its owner's devices; the server
pairs the two and relays their messages until they talk to each other directly
over WebRTC. This directory models the server's registry and its connection
handlers, the accounts behind them, the agent's session slot, what runs inside a session (picture,
keyboard and clipboard, files), and the protocols that the browser takes part in: device lists, waking,
session recovery.

## The system

| component | state it keeps | operations | what is hard about it |
|---|---|---|---|
| Registry (`server/src/registry.rs`) | online hosts with their connection, PIN and session; PIN index; sessions; owner watchers; wake queues | register, unregister, join (three locks), join by device id, close, rotate PINs, look up the peer | stale connections of the same device, claims of other hosts' sessions, races between joins |
| Connection handlers (`ws.rs`) | per connection: a bounded queue, a kill switch, a message budget, the host id or the owner | read a message, act on the registry, queue replies and relays | every registry call and every send is a step of its own; queues fill, writers stall, sockets die without a word |
| PIN rotation task (`app.rs`) | a timer | rotate expired PINs, then send them | sends happen outside the lock |
| Accounts and owners (`accounts.rs`, `owners.rs`, `passkeys.rs`, `db.rs`) | owners, tokens, accounts, passkeys, e-mail codes | register, sign in, reset, change the e-mail, merge, revoke, clean | state read before an argon2 `await` and used after it; a token revoked under a connection |
| Limiters (`ip_limit.rs`) | token buckets | check, spend, refund | check and spend are not one step |
| Presence (`ws.rs`, `registry.rs`) | watchers per owner | push of the device list | an older list sent last, a change between the answer and the watch |
| Wake-on-LAN (`wake.rs`, `router_waker.rs`) | cooldowns, router polls, queue with TTL | ask a host or a router to wake a device | expiry against poll |
| Agent signaling client (`host/src/signaling`) | one connection, the displayed PIN, the session slot that survives reconnects | handshake, reconnect with a claimed session, react to the server | handshakes that time out, events of superseded sessions |
| Agent session slot and login (`host/src/signaling`, `access.rs`) | the active session and its disconnect grace, the pending OPAQUE login, failure count, throttle, a bounded event queue | PeerJoined, PakeStart, PakeFinish, Bye, peer events, timers, the owner's command | events and timers of old sessions; a throttle that must not become a lockout; sessions that end while the server is out of reach |
| File transfer (`host/src/files`, `web/src/fileTransfer.ts`) | transfers by id, part files and placeholders in the folder, the offered list | upload, offer, fetch, cancel, sweep | cancel against completion, two writers of one name, crashes, a fetch that crosses an offer |
| Web client (`web/src`) | session, recovery attempt, guard of the pending request | connect, recover, give up | late answers of earlier attempts |
| Keyboard, mouse (`web/src/input.ts`, `host/src/input`) | keys down, the paste gate, the router's queue | press, release, blur, push, inject | keys held back for a paste, a release that is dropped, a session that ends with keys down |
| Clipboard (`host/src/clipboard`, `web/src/clipboard.ts`) | last text noted, its change counter | sync both ways | a paste key that overtakes its text |
| Video pipeline (`host/src/pipeline`, `signaling`, `transport`) | the running pipeline and its generation, the keyframe request, the recovery budget, the polled geometry, the curtain | start, replace, recover, poll, frames | frames of an old pipeline, a replacement that fails, displays that change while one is built |
| Adaptation (`host/src/adapt`) | bitrate, frame rate, scale | a control loop over measured rates | -- |
| Windows service (`host/src/service.rs`, `platform/windows`, `main.rs`) | the helper and its back-off, `status.json` with the PIN and its reader, the icon | supervise, write the status, show it | the file is written for the user of a moment; helpers die and consoles change at any other |
| Updater, other platform layers, installers, vendored code | -- | -- | operating-system I/O |

The components meet in the registry (shared, one mutex), in the queues of the
connections (each handler may send to any connection it has a `Tx` of), in the database
(each statement or transaction on its own), and in the session id that server, agent and
client each keep and lose separately.

## Modules

**`Registry`** models `registry.rs`. `hosts`, `pinToHost` and `sessions` are the
maps of `Inner`; an absent entry is `NoHost`, `None` or `NoSession`. Each method
holds the mutex from its first to its last line and is one action, with the
method's early returns as guards. `join` is the exception: it takes the lock
three times, so it is `JoinResolve`, `JoinEnter` (or `JoinRefused`) and
`JoinRotate`, and `joining[c]` holds the locals that `join` carries from one lock
to the next. A `Tx` is only ever compared by `same_channel`, so a connection
stands for its `Tx`. Time is present only as `expired`, whether a PIN has
outlived `pin_ttl`. `RegNext` is the most general caller: any host connection may
register any device, claim any session id (as an agent that reports the session
it kept does), and close any session id.

**`Occupancy`** says what the registry promises about a device with PINs, ids and
connections left out: it is offline, free, held by one client, or detached (busy
with a session that only the agent knows of). `Registry` refines it through `Occ`.

**`Signaling`** puts the handlers on top: `run_host`, the joining and relaying
part of `run_client`, the writer task and `spawn_pin_rotation`. A handler makes
one registry call, then its sends, one step each (`todo`), while any other handler
runs; it reads again when it has sent everything. `out[x]` is the bounded queue,
`gate[x]` the kill switch and the writer's life, `budget[x]` the message budget,
`cur[x]` the host message between `is_current_host` and the relay (the gap that
`S-8` is about). The other ends are modelled as far as they decide what comes
next: an agent (`link`, `known`, `pins`) accepts only `Registered` first, sends
only for sessions it was told of or claimed, gives up its old connection before
it opens the next, and displays the last PIN it was told. Offer, Answer, Ice and
the login messages, which the server relays without looking, are one `Relay`.
Messages about no session and no PIN (`Error`, `Devices`, statistics) are left
out, except that they take up room: a queue may turn out full at any moment.

**`HostAgent`** models what happens behind the agent's socket: `SessionSlot`, the loop of
`run_agent` and the handlers of `SignalingClient::run`. `active` is the tag of the
running session's `PeerSession`, an index of `peers`, which never forgets a peer
connection so that one left open can be seen. `pending` is `pending_auth`, `failures` and
`locked` the throttle, `grace` the `DisconnectGrace`. One task owns the slot and runs
a handler to its end, whatever that awaits, so `AgentReads` (handle_signal_message),
`AgentHandlesEvent` (handle_session_event) and `OwnerEndsSession`
(handle_agent_command) are one action per handler, with one operator for each
arm. `link` is where `run_agent` stands; events and commands are handled in all
of its states, but what a handler says (`Says`, `Shows`) goes nowhere unless `link` is up:
that is `run_while_offline`. `begin_session` may fail at any of its points, and a login
payload may make no sense; both are choices. A client knows the access password
(`Knows`) and follows the protocol of the web client, or does not and sends what it
likes. Peers report to `events` at any time, also after they were closed, and each
spawned sleep is a member of `timers` until it fires. `failures` is counted no further
than it is compared, and of time only the order is left: a pause lapses, a timer fires. Failed, Closed,
the closing of the control channel and a video failure beyond recovery end a session
in the same way and are one event, `Over`. The server is reduced to what
`Registry` holds for this device (`reg`, `busy`, `held`); `ServerKeepsOccupancy` shows that
these obey `Occupancy`, the specification that `Registry` is shown to implement, so the two
modules meet there.

**`Accounts`** has the rows of `db.rs` that handlers relate to each other (owners, tokens, accounts,
passkeys, device and wake rows) and the client connections that change them. A connection runs one
handler at a time. A handler that hashes a password reads, waits for the argon2 gate, hashes and
goes on with what it read: four actions, with the locals in `call[c]`. Each other handler is one
action that begins with the top of the read loop. The merge of an anonymous owner and the daily
cleaning are transactions, with the cascade of the schema in `DropOwner`.

**`EmailCodes`** is the code table of `accounts.rs` for one address, with a clock: interval, window,
lifetime and attempts. **`Limiter`** is `ip_limit.rs` with the three ways that handlers use it
(check, try, spend; spend, try, refund; global bucket beside the address's own). Tokens are
fractions, one part per instant. **`Wake`** is `WakeDevice`, the cooldown, the router's
polls and queue, each registry method a step, with a clock.

**`Presence`** follows one device through the lists of its owners: who watches, when a handler finds
the owners and the watchers, builds a list and sends it, and what each browser shows.
`news` numbers the changes, so that a list knows how old it is.

**`Uploads`** has the sender of the browser, the receiver of the host and the folder that
sessions share: placeholders, part files, renames on the blocking pool, removals that the disk refuses and
that threads retry by path, the sweep of old part files, crashes. **`Downloads`** has the other
direction: numbered offers, fetches, the task that sends, cancellation, and the browser's
buttons. Both have an ordered reliable channel, so a chunk needs no content but the upload or transfer it
belongs to.

**`Recovery`** is the session part of a browser tab: connecting, the disconnect grace, the recovery
with its three timers, the guard that knows which answer belongs to it, the socket's own reconnects, and
the server reduced to what it answers one tab.

**`Video`** is the picture of a session. A pipeline (`pipe[p]`) stands for its capture and encode threads
(`encoder`), its watchdog (`watched`) and the task that forwards its frames (`forward`, which holds one frame
on its way to the transport). The session's loop builds a new one on `SelectDisplay`, for the curtain, after
`VideoFailed` and after `DisplayGeometryChanged`; `building` is the wait in `replace_pipeline`, during which
everything else goes on and after which the code continues with what it read before. A frame is a keyframe
or a delta, which shows something only after the frame before it; `keyframe` is the one flag that all pipelines
of a session take requests from. A geometry is a number, and so is the set of windows that the curtain
puts up at a time.

**`Input`** follows keys and texts from the page to the computer: the listeners and the gate of `input.ts` that
holds keys back while `clipboard.ts` reads the text of a paste, the ordered `input` channel, the loop's dispatch,
the clipboard's threads with their lock and their change counter, and the router's thread. Three keys stand for all: the
paste key, another, and a mouse button, which does not wait at the gate. A key event has a number, a text the
number of its copy.

**`Machine`** is the full mode on Windows: the service with the hub's thread, the supervisor's ticks (a launch takes its
time, and the console may change meanwhile), the helper's process with the task that writes `status.json`, and the icon
of each user, who can read the file only if it was made for him. `proc` has the locals of that task; a write is
two steps, the one that looks up the user and the one that puts the file in place.

**`Adapt`** is the controller of bitrate and frame rate (`adapt/mod.rs`) of that picture. A tick of its task is the unit of
time; what a pipeline sent within it, how its encoder kept up and which reports of the network are still fresh are choices.
Bitrates have a few units, a decision is computed in hundredths of them. The preset that the user chose belongs to the session
and reaches the controller through its channel; a replaced pipeline has a new controller. `calm` begins at any moment and says
that the network and the encoder have nothing more to complain of.

The `MC` modules give TLC small sets. `MCServices`, `MCDeliveries` and `MCSession` join components that share no state:
a variable that never changes says which of them moves, so that one run looks at each of them in turn;
the others are at rest, in a state where fairness asks nothing of them. `MCRegistry` has the registry without connection tasks,
under its most general caller, and with those of `Signaling`. `MCHostAgent` (`bound`) has two bounds on what goes on
around the agent.
Operators named `X_SomeMistake` are deliberate mistakes: putting one in the place of `X` must
make TLC report the property it is meant for.

## What is checked

| run | question | result |
|---|---|---|
| `registry` (`MCRegistry.cfg`) | Do the three maps agree, is a client in one session at most, does an ended session free its host, is `Occupancy` implemented; is the agent told of every new PIN; do the handlers use the registry as `RegSpec` allows? | holds, 369 thousand states up to symmetry |
| `signaling` (`MCSignaling.cfg`) | Does each side hear of a session before anything else of it; does a message reach only the client and the device its session was issued for? | holds, 2.3 million states |
| `signaling_live` (`MCSignalingLive.cfg`) | Is every session announced to the agent or over in the end; does a killed connection give up its device? | holds under fairness, 76 thousand states |
| `agent` (`MCHostAgent.cfg`) | Does a session begin only for who knows the password, end only by its own events, leave no connection open, no wait without a timer, no false status, and the server's device no longer busy than explained; does who knows the password get in, and does a lost connection end its session? | holds under fairness, 773 thousand states |
| `stale_claim` (`MCStaleClaim.cfg`) | Is the device never busy with a session that is over? | no: one that ends while the agent connects is claimed all the same |
| `accounts` (`MCAccounts.cfg`) | Is a revoked token noticed, no device lost by a merge or a cleaning, a code used only for what it was asked for? | holds, 703 thousand states |
| `services` (`MCServices.cfg`) | Are guesses of codes and passwords bounded, a promised wake kept, a saved file whole and nothing else left in the folder; does a recovery never halt and never enter another device? | holds, 2.0 million states |
| `deliveries` (`MCDeliveries.cfg`) | Does every browser show the right list in the end; is a downloaded file whole and of the latest request, and does the download end; does who sits at the computer come to see its PIN? | holds under fairness, 854 thousand states |
| `session` (`MCSession.cfg`) | Does the picture come back after any replacement, failure or loss, never with the curtain before it; do bitrate and frame rate come back once all is well; are keys injected in order and let go of? | holds under fairness, 308 thousand states |
| `stuck_download` (`MCStuckDownload.cfg`) | Is every fetch answered, as `file.rs:25` says? | no: one that crosses a new offer is ignored |
| `stale_geometry` (`MCStaleGeometry.cfg`) | Does the session follow the geometry of the display it shows (`signaling/mod.rs:3407`)? | no: a change during a switch to the display goes unnoticed |
| `stale_paste` (`MCStalePaste.cfg`) | Is the text of a paste on the computer's clipboard when its key is injected, as `input.rs:59` says? | no: the text takes another thread |

The four divergences were met while modelling; `PROJECT.json` quotes the lines.
A stale claim does not heal: nothing ends the detached session until the agent's next reconnection.
`BusyIsExplained` states exactly what is left of D35 with that exception made.

**Observations.** Some behaviors that no comment of the code rules out, seen in the state graphs and worth knowing:

- A host connection that was displaced between `is_current_host` and the relay still gets one message out
  (`ws.rs:515`); `OnlyToItsParties` shows that it reaches a party of its session.
- Two `PinChanged` may be queued in the other order than they rotated (`app.rs:293`); the display is then wrong
  until the next rotation, and a join by the displayed PIN fails.
- `Registered` may be overtaken by `PeerJoined` (`ws.rs:489`). The agent's handshake fails and the session goes with
  the connection: `SessionAnnouncedOrOver`.
- A candidate that is queued when its session is superseded goes out under the next session's id; peers drop it.
- A login that verified the old password while a reset finished gets a token after `delete_all_tokens`
  (`ws.rs:1574`).
- With `Stalls = TRUE` the sweep of a later session takes the files of a receive that is alive but has stood
  still for `STALE_PART_AGE`; another upload takes the name, and the first is told `saved` for the other's file.
- Passkey ceremonies on several connections may pass `MAX_PASSKEYS_PER_OWNER` together, by one key each: the count is read
  when a ceremony begins. No property speaks of it.
- After a replacement with the preset `auto` the fresh controller begins at the ceiling and says nothing, so that the overlay
  shows the old target until the next decision (`control.rs:99` calls the message informational).
- `Error` names no request. One that answers an earlier request (a PIN sent twice, the first attempt of a recovery)
  ends the session that the tab is in (`app.ts:3895`); the reasons listed at `app.ts:3215` do not include it.
- A data channel's messages carry no tag of their session (`transport/mod.rs:361`), unlike the states of its connection: one
  that is still queued when the session is superseded acts on the next.
- Mouse buttons and releases do not wait at the gate of a paste, so that a click can overtake the keys before it. Two
  pastes share one gate: the key of the second may go before its text.
- The clipboard's watcher drops a text when its channel is full (`try_send`) and does not try again until the next copy.
- With `Hasty = TRUE` TLC breaks `PinIsSeen`: a console that goes to another user and back between two checks
  (5 s, `main.rs:973`), with a write in between, leaves a file that its user may not read. `last_sid` is the user that
  a check saw, not the one that the file was made for.
- A failed write of `status.json` is made up for only by the next change of the status; when the check of the user is what
  comes next, it writes what was written last.
- `status.json` keeps the PIN when the service stops. A helper writes over it when it starts.
- If the hub fails, the service reports `STOPPED` with exit code 1 (`platform/windows/service.rs:1126`) and counts on
  failure actions (1151). Windows takes those after such a stop only with `SERVICE_CONFIG_FAILURE_ACTIONS_FLAG`, which `install` does not
  set; whether the service comes back is left open in `Machine` (`StartService` is not fair).

**Bounds.** `registry` has two hosts, three host connections (so that a device can be
re-registered while the other one is online), two clients, two session ids and
three PINs (one to rotate to besides two in use). Session ids are reused once
free; an id that is still claimed by an agent is then seen as another's, which is
the foreign claim of D35. It begins in one of two ways: without connection tasks (`Absent(Actor)`), under
the registry's most general caller, or with them, one host connection and one client staying away,
one join of the other client, one tick of the rotation task, and one device online at a
time (`OneDevice`). `Rotating` is the set of agents that register with `pin_rotation`. A PIN does
not expire while a task still has to send it (`PinAges`): `pin_ttl` is ten minutes.
`signaling` has one device with two connections in
succession, two clients and two session ids; its messages are bounded by `Burst`,
which is `MESSAGE_BURST` without the refill: three client messages, one per
host connection, besides any number of exits and re-registrations. Each hazard takes
no more than a displacement, a join, an end and a relay. Queues hold two messages
instead of 256; since a queue may be full at any moment, no scenario needs a longer one.
Deadlock is not checked in `Signaling`: connections are used once, so the model stops
when all are closed; nor in `HostAgent`, where session ids run out.

`agent` has two sessions, the second with a client that knows the password: enough
for one to supersede, time out or outlive the other, as each hazard is about one old and one
new session, across any number of reconnections. `MaxAttempts` is 1 instead of 5: the throttle is not armed
by the first attempt, but by the second. The event
channel holds one event instead of 64: a sender that waits for room is as late as one
that is queued further back, except that the order among different senders is then free.
`WireCap` bounds the messages that the server has not yet delivered, in both
directions together, at the moment another is sent; the agent's own replies come on top.
`MaxWindows` bounds the grace windows of one session; two let the timer of a window meet the next.
`PeerEvents` is what peers report, `Passwords` what the access store may come to hold. `bound` divides the run:
"long" has both grace windows and recoveries but one password and no failing peer, "wide" every password and
failing peers but one window that is not recovered from.

`accounts` has two connections and five messages: every hazard there takes one handler that waits and
at most three messages of the other connection meanwhile, one of which may be the daily cleaning. One place at the gate
(`Argon2Parallel`), one key (`MaxKeys`). `services` has a code whose lifetime, interval and window differ (2, 1 and 4
instants of 8), two connections of one address beside the global bucket, two machines and a router of one network
with two polls under way, two sessions with an upload each of one chunk into two names, and a tab with two computers,
two attempts and three sessions. `deliveries` has four changes of a device with one owner and two browsers, and two offers of
one or two files with two fetches; and a computer with two consoles, two PINs and four mishaps in all (changes of the console,
logins, failures, deaths, stops, changes of the status): a status written, its user gone and back as another's, the helper killed
and a new one hurt take no more. `Hasty` is FALSE: see the observations. Deadlock is not checked where messages, sessions or time run out.

`session` has two displays, three pipelines, one recovery in the budget's window and two troubles (requests, failures, changes of a display):
one replacement and what goes wrong in it, the next one on top. For the input, three key events, one copied text, one message that the rate limit
refuses and a router queue of two; the paste whose key waits, the key after it and the release are three. `stale_geometry` and `stale_paste`
have the same bounds. The controller has bitrates from 9 to 15 units with the floor of the loss cap between them at 11, two
REMBs and a loss that cuts, a ladder of three frame rates, and holds of a few ticks of different length: cuts below the
floor, at it and back up, with every order in which the holds end.

**Fairness.** A handler never blocks in a registry call or a send, so what it has
started goes on (weak fairness of `Sends`, `HostFinishes`, `ClientFinishes`); the
writer hands over a message or times out after `WRITE_TIMEOUT`; the loop of a
connection that is killed or whose agent is gone ends even if it keeps reading
messages first (strong fairness of `ExitsWhenOver`: `select!` polls its branches
in random order, and `read_timeout` closes a silent socket). Nothing is assumed of
agents and clients: they may never send, read or reconnect.

`FairAgentSpec` has weak fairness of the two branches of `run`'s `select!`, which polls
in random order (both are repeatedly enabled together, and neither is disabled by the other), of the
server's reading and of the end of a pause (`auth_locked_until` is a time); strong fairness for
a client that knows the password, which answers whenever it may and is relayed, and of the grace
timer, which sleeps 15 s and then waits for room in a first-come first-served channel. There
is none for the login's timer: `OwnerGetsIn` must not hold because the wait was
cut off, although it may be. Nothing is assumed of the connection: it may break for ever after.

`PreFairness` has the steps of a handler that has begun (nothing in it waits for another connection) and the request for a list that a
browser makes when it was told of a change or signed in. `DlFairness` has the host's loop, its sending task and the browser's
handler: each takes what is queued. The user's clicks, what is copied, and what becomes of the files are free.

`VidFairness` lets the threads and tasks of a pipeline go on, a build end, and the session's loop come to the failures and changes queued for it
(strong, since a build suspends it); a forward task that is told to stop hears it, though it polls its branches in random order (strong). The peer
connects in the end (a session that does not ends in the agent's slot), a browser that cannot decode asks for a keyframe (as WebRTC has it), the poll
ticks. `InputFairness` has the paste's ten seconds, the loop, and the router's thread; `readText` may never answer, and nothing is
assumed of the user. `MachineFairness` has the loop of the service, the end of the pause, the helper's task and the icons; nothing
is assumed of the service manager, the users, the console or the agent in the helper. `RateFairness` has the ticker and the channel of the controller, and for
the time when all is well also a screen that does not stand still for ever: a controller learns nothing from one that does.
## What is proved

`RegistryProofs` proves, for any sets of hosts, connections, clients, ids and PINs
(only `None` must not be one of them):

- `TypeCorrect`, then relative to it `SessionsBacked`, `OneSession` and
  `PinIndex`. Each is inductive together with the types: `SessionBacked` is the strengthening the
  others lean on, since it says that a session's host is online and busy with
  that very session, so that two sessions cannot share a host.
- `GhostFree` and `Refinement` from `RegInv`, the conjunction of the four. The
  refinement shows for each action which `Occupancy` action it is, and
  that all other hosts keep their status and holder.

`SignalingProofs` proves `ServerUsesRegistry`: `SigSpec` implies `RegSpec`, for
any number of connections, queue size and budget. It needs an invariant of the
handlers, that one past its registration knows its host id and one before it holds no
registration (so `register_host` runs once per connection). `ServerKeepsRegistry`
carries the registry's theorems over to the server.

`HostAgentProofs` proves, for any number of sessions, peers, events and reconnections and any
queue size, that `AgentInv` is inductive and from it `AgentTypeCorrect`, `SlotStaysWhole`,
`StatusStaysTrue`, `PasswordIsRequired`, `EndedByItsOwnEvents` and `ServerIsOccupancy`. `AgentInv`
adds to the types what the handlers silently rely on: no grace without a session
(the grace lives in `ActiveSession`), no status but "offline" without a connection (the
stand-in channels of `run_while_offline`), peer events tagged with a peer and timers
with a session (so that an absent session matches no event), and at the server no
busy device that is not registered and no client of a free one. `CloseActive`, `EndHere` and
`Takeover` get a lemma each, a handler's proof is then a case split over its arms.
`WaitsStayTimed` needs one idea more, where a timer is (`InHand`): asleep or in the
channel; only the step that handles it takes it from there, and that step ends the wait.
`BusyStaysExplained` follows the messages about the session that the server holds the device busy with (`BusyInv`). Ids are never issued twice (`IdsIssued`), and for a session that is not the claimed one either its `PeerJoined` is in the inbox and
no other one after it, or there is none in it and the agent has met the session: it is in it, waits for its password, or its `Bye` is in the outbox (`AskedOrMet`).

`ServicesProofs` proves the properties of four services. `RecoveryNeverStalls` and `RecoveryFindsItsDevice` hold for any number of
computers, attempts and sessions and queues of any length. Besides `NeverStalls` itself the invariant says what the guard waits for in each phase
(`GuardKnows`: nothing in a session, the lost device in a recovery), that without a socket the tab knows it has lost the
connection, and that on a new connection `authenticated` is the first word that the tab hears (`GreetingFirst`), which
is why an answer never finds a recovery that waits for the socket.
`PromisesAreKept` rests on why an old entry may stand for a new request (`Backed`): a poll empties the queue of its router, and a router that counts as
online polled at most `RouterOnline` ago, so what is still in its queue is not older than that when it is promised again.
`GuessesStayBounded` counts in every window at once (`Covered`): the wrong guesses since an instant and the attempts left are together
no more than the attempts of one code times one more than the codes issued since. It needs that an interval of at least one instant lies between two issues.
`GuessRateStaysBounded` keeps an account for every bucket (`Account`). A spend takes a whole token or what is left of one. Whole tokens are bounded by the burst and
the time. Spends that find less than a token come in batches: the guessers were let through while there was a token, so one of them emptied the bucket, and
the next batch waits until a token has come back. Guessers that were let through, have guessed or have paid in advance are counted beside (`Owing`, `Unpaid`, `Prepaid`). An address
that was given a token back is not looked at. `GuessRateBounded` says so too: what is given back is a whole token, also where less than one had been taken.

`SignalingProofs` also follows every message, for any numbers of connections, sessions and PINs and queues of any
length, in three invariants that lean on one another.
`PartiesInv` says of each message, in a queue or still to be sent, that its session was issued for its addressee, and that the
registry's sessions and entries have the parties their ids were issued for. A handler looks its peer up and sends later, when
the session may be gone or re-attached: only the history of what was issued makes the message still its addressee's.
`SessionsStayPrivate` follows. `OrderInv` adds where the announcements are: what an agent knows, is about to read or is about
to be sent, its client has heard of (`HostsHearLater`); a live session is known to its agent or still on the way there
(`Announced`); a handler between two critical sections has nothing left to send (`OneThing`). `SessionsAreAnnounced`
follows. `RegisteredOnce` keeps the one `Registered` of a connection from following a `PinChanged`; with it `PinsAreTold` is inductive. A
rotation walks over all hosts in one action, hence the assumption that there are finitely many.

`AccountsProofs` proves `LossesAreTold`, `NothingGetsLost` and `PurposesAreKept` for any sets of owners, tokens, addresses and
connections. `AccInv` adds to the types what a handler that waits for argon2 relies on when it resumes (`CallsKnow`: the owner of a
reset or a change has an account, since no statement takes one away), and that a connection whose token was revoked remembers that it had
one (`LossNoticed`).

`SessionProofs` proves `CurtainStaysInvisible`: whatever the loop was doing when the curtain went up, moved or fell, and whichever
builds failed, either the shown pipeline leaves the curtain out or the loop is building one for it (`CurtainLeftOut`); pipelines take their
slots in order, so a new one is not confused with one that is still ending. It assumes that there is a display, as no session begins without one. `KeysAreInOrder` proves
that keys are injected in the order of typing: the gate, the channel and the router's queue each hold their keys in order, and what is further along is
older (`KeysInv`). Texts and releases are not kept in that order, and need not be.

`DeliveryProofs` proves `ChangesAreTold` and `FilesAreWhole`. For the first, `PreInv` says of each watcher that was there before the last change
that he has a list built after it, or some handler still carries the change: it has yet to look for the owners, his owner is on its way, or the list it builds or sends him shows the change (`Carries`). For the second, `DlInv` follows chunks, which carry no id:
the ids of the messages on their way never fall, and the browser is at no later one (`OneByOne`), so that a file whose
end is sent or may still be sent has got only chunks of its own (`OwnChunks`). A file whose end never came may hold another's chunks, but is never handed over.

`UploadsProofs` proves `NothingIsLeftBehind` and `SavedFilesStay`, for any numbers of sessions, files and names and whichever removals fail.
Chunks name no file, so both need that a session's traffic is in order (`FlowInv`): a receiver is at one thing (`OneJob`), the messages after a start
belong to it (`InTurn`), an upload starts once and of one session (`Once`, `Own`), and one that has yet to start is unknown to the folder (`NewIsUnknown`). `LeftInv`
adds whose an unfinished file is (`Kept`): its session receives it, will remove it later, or has crashed. `HoldInv` adds that the name of a receive
is nobody else's and its data are its own (`Holds`), and that a name which is still to be removed stays taken, so that no later receive gets it and loses its file to an old removal
(`Doomed`). The second theorem assumes `~Stalls`: a receive that stands still for `STALE_PART_AGE` loses its part file to the sweep of another session, and its name with it; the code takes ten minutes without a write for a dead file.
Only model-checked: the properties of `Machine` and `Adapt`; and all liveness, which is beyond the prover.

## Not modelled

- Accounts: the mail itself, password rules, statements of the database that fail, the session log, renaming devices, the admin's
  queries, device rows and their duplicates, schema migration.
- Limiters: the owner and the poll limiter, which are the same buckets under other keys.
- Wake: addresses and the magic packet. Presence: the push that a router's poll causes.
- Files: names, paths and their sanitizing, uploaded folders (in the folder a root is one more name), the zip
  format, limits in bytes.
- Browser: pagehide, the login dialog, the user interface.
- Agent: statistics reports, device credentials, the reconnect backoff; two agents that share one device's
  credentials and displace each other for ever.
- Video: the encoder backends, how they follow a target, the pacing of frames; capture by platform; the cursor.
- Input and clipboard: pointer moves, touch, typed text; copies of the computer on their way to the browser.
- The updater, the installation of the service, the tray's menu, and the platform layers of macOS and Linux.
- ICE credentials are a pure computation; the admin panel reads only. Vendored code is not the project's own.

Content of messages, cryptography and operating-system I/O are out of scope altogether. Of the Rust lines outside `vendor/` a third are the tests that the files carry with them;
no definition maps to those.

## Plan

To prove next: the properties of `Machine` and `Adapt`.
