# A verification project for Metrice

Metrice is a federated terminal chat server in Node.js: users log in over
Telnet or SSH, nodes talk to each other over encrypted TCP channels, and edge
nodes behind NAT are reached through relays. This directory holds TLA+ models
of its code (`src/src/`), the TLC configurations that check them and TLAPS
proofs about them. `PROJECT.json` lists components, runs, theorems, hazards,
findings, and for every definition the lines of code it stands for.

1. [The system: inventory](#1-the-system-inventory)
2. [From code to actions](#2-from-code-to-actions)
3. [The modules](#3-the-modules)
4. [The runs](#4-the-runs)
5. [What the code does otherwise than it says](#5-what-the-code-does-otherwise-than-it-says)
6. [The proofs](#6-the-proofs)
7. [What is not modelled, and the plan](#7-what-is-not-modelled-and-the-plan)

## 1. The system: inventory

`src/src/index.js` wires one `Database`, `PeerManager`, `FederationEngine`,
`ClientServer`, `SshServer` and `HealthServer` into one process. Paths below are
relative to `src/src/`.

| component | state | operations | hard behaviours | what makes it correct |
|---|---|---|---|---|
| **Database, instance lock** `storage/database.js` 30-110, 215-228 | lock file with a process id | `acquireLock`, `releaseLock`, `close` | two processes, crash between any two file system calls, ids that recur | one process at a time; a lock left behind is given up |
| **Outbox** `core/federation.js` 561-966, outbox table | rows (retries, next retry, creation time), in-flight calls and runs | `sendRemoteMessage`, `sendViaOnion`, `processOutbox`, `resetOutboxForTarget` | snapshot worked on across awaits, overlapping forced runs, restarts | no message vanishes silently, none is spooled twice, every row leaves |
| **Connection pool** `core/federation.js` 289-440 | `connectionPool` | `getOrCreateSecureChannel`, close, error and timeout handlers | destroy and 'close' are two moments; eviction at the limit; who awaits a channel may not learn of its end | bounded; entries refer to usable channels |
| **RendezvousManager** `core/rendezvousManager.js` | bound relays, their channels, maintenance flag, role; at the relay the tunnel table | maintenance, bind, heartbeat, the relay's accept and close handlers | awaits inside maintenance, zombie tunnels, replaced channels | limit, one run at a time, tunnels heal, role tells the truth |
| **PeerManager** `core/peerManager.js` | scored pool, edge hosts, own address, file | `addOrUpdate`, `registerEdgeIp`, `setPublicIp`, load, save, sample | any order of calls, unawaited writes, restarts | bounded, clean of edges and self, gossip cannot forge contact |
| **PresenceManager** `core/presenceManager.js`, announcements in `core/federationPacketHandler.js` | `remoteOnlineUsers`, `presenceTable`, caches of seen packets | announce, forward, answer, `USER_OFFLINE`, refresh, expire | copies over different paths overtake each other, loss, crashes | who is back stays, who is gone leaves |
| **FederationPacketHandler, messages and routes** | `seenMessages`, routes, subscribers | message flood with hop counts, `ROUTE_UPDATE`, subscriptions, gossip | duplicates with different hop counts, dedupe before save | an undisturbed message arrives, nobody stores it twice, routes settle |
| **OnionRouter** `core/onionRouter.js` | circuits at initiator and hops | build, extend, send, expire | overlapping builds, nested timeouts, restarted hops | a reply belongs to its build; no circuit outlives its hops |
| **SecureChannel** `core/secureChannel.js` | handshake state, session key, queue before readiness | INIT, REPLY, frames, keepalive bytes | an awaited lookup inside the handshake, chunk boundaries, ends that learn of a close at different times | payloads come out once and in order; no handshake stays open |
| **AutoNatService** `core/autoNat.js` | votes, pending dialbacks, role | votes, dialback, confirmation | answers and failures that come after the 5 s timer, slots at the peer released by several events | only a dialback that reached the node promotes it; every test ends; slots are counted right |
| **ClientServer, Telnet, SSH sessions** `core/clientServer.js`, `core/telnetClientConnection.js`, `core/ssh*.js`, `core/terminalSession.js`, profiles table | sessions by user, authentication state of each connection, contacts and target of each session, accounts | register, log in, replace, send, migrate targets, close | connections that close or are replaced during an await; every session saves its own copy of the contacts | one place per user, kept by the newest; what is closed leaves; passwords and contacts are not lost |
| **SessionInputHandler, commands** `core/sessionInputHandler.js`, `commands/modules/` | lines of the last 40 ms | ENTER, sidebar, slash commands, flush | flushed after the target changed, the connection closed, or the session was replaced | every line leaves |
| **HealthServer, terminal, PROXY protocol, addresses, cryptography, configuration, locales** | none shared | reading, parsing, formatting | little | pure functions of their inputs |

The parts meet in these ways. *Calls*: every sender obtains channels from the
pool; announcements and received messages call `PeerManager.addOrUpdate` and
`registerEdgeIp`; binds and AutoNAT call `setRole`. *Callbacks*: 'close' of a
channel is heard by the pool, by the edge's tunnel and by the relay's tunnel
table, in that order of registration. *Scheduling*: announcements and route
updates start a forced `processOutbox` by `setImmediate` and tunnel
maintenance. *Shared state*: the pool, the tunnel maps, `presenceTable` and
`remoteOnlineUsers` are read and written by all of them.

## 2. From code to actions

Node.js runs one JavaScript thread. A handler (timer, socket event, promise
continuation) runs to its next `await` or to its end without interruption. So
an action of the models is one such stretch of code with every call it makes,
and everything that may happen between two stretches interleaves. A promise
that is awaited becomes two or more actions: the request, and one for each
outcome (answered, refused, timed out). Synchronous SQLite statements and maps
take part in the action that calls them. Only the lock file is different: other
*processes* run between two synchronous calls, so there each call is a step.

Time is counted in units of the timer that matters (a worker period of 5 s, a
heartbeat of 30 s, an abstract unit against the 60 s of presence). Fairness is
weak fairness of what Node.js and the operating system guarantee: timers fire,
scheduled callbacks run, awaited operations end with an answer or by their own
timeout, 'close' events are delivered, the clock advances. No fairness is
assumed of users, of other senders, of the network's delivery, or of crashes.

Names follow the code. `MutX`, right before a definition `X`, is a plausible
bug in `X`; it is used in no specification and shows that a run notices it.

## 3. The modules

| module | models | extends or implements |
|---|---|---|
| `MessageSpool` | what one node promises about a message handed to it | abstract |
| `Outbox` | `sendRemoteMessage`, `sendViaOnion`, `processOutbox`, outbox table | implements `MessageSpool` (`SpoolsOnce`) |
| `ChannelPool` | the connection pool | |
| `Tunnels` | what an edge and its relays promise about tunnels | abstract |
| `Rendezvous` | `RendezvousManager`, both ends of a tunnel, roles set by AutoNAT | EXTENDS `ChannelPool`, implements `Tunnels` (`OnlyAccepted`) |
| `Circuits` | building, retrying and dropping onion circuits, cells | EXTENDS `ChannelPool` |
| `PeerManager` | `PeerManager` and its file | |
| `DbLock` | the lock file | |
| `Presence` | online users across a mesh | takes a part of what `Rendezvous` allows: tunnels are bound on the relay's side first and gone on the edge's side first |
| `Accounts` | the rows of `profiles` as logins see them: secrets, keys, who is let in | |
| `Sessions` | Telnet and SSH connections, the session table, contacts, keys, the 40 ms buffer | EXTENDS `Accounts` |
| `Routes` | the relays an edge is reached through, as every node knows them | takes tunnels as open or closed at both ends |
| `Messages` | flooded and direct messages over the mesh | EXTENDS `Routes` |
| `SecureChannel` | one channel: handshake, queue, frames, keepalives | |
| `AutoNat` | votes, dialbacks and promotion, and the peers that dial back | EXTENDS `SecureChannel` |
| `MCX`, `XProofs` | small instances for TLC; theorems (`FileProofs` is about `DbLock` and `PeerManager`) | EXTEND `X` |

**Outbox.** A row has its retry counter, the ticks until it is due and its age.
`path[t]` abstracts what `sendViaOnion` finds about a target in the order it
looks: a live tunnel, a relay with a known KEM key (a circuit is awaited), a
relay without a key, nothing. `run[r]` is one call of `processOutbox`: the rest
of its snapshot and the item it awaits; the worker is one, forced runs are the
others. `StartRun` contains the cleaning that `getPendingOutbox` does.
`LearnRoute` is an announcement: it learns, resets the rows and schedules a
forced run. `Crash` keeps the table and drops calls and runs. History variables
(`expired`, `lost`, `wire`) say what became of a message.

**ChannelPool and Rendezvous.** A channel is dialing, ready, dying (destroyed,
'close' still to come) or closed. `Dial` is `getOrCreateSecureChannel` for an
address without a live entry, with eviction of any other entry when full: the
pool's oldest entry can be any, since all senders use it. `maint[m]` is where a
call of `maintainRendezvousTunnels` stands: the channel of its first await, the
channel `sendPacket` found (which may be another one), the reply. `Bind` notes
the first channel although the BIND went out on the second, as the code does.
`own` says that a call opened the channel it awaits: `EdgeBreak` is the end of a
channel, with an 'error' or the 6 s timeout, which reject calls, or without
(hang-up by the relay, eviction, a retry of `sendViaOnion`); `CloseEvent` then
rejects the calls that found the channel in the pool and leaves the one that
opened it waiting for ever (`Hung`, see 5). It also runs the pool's handler and
the tunnel's, which both go by address. A call whose promise was resolved goes on
before the next event (`Resuming`).
`Heartbeat` looks at the *pool's* channel of a bound relay. `OtherSender` is any
other code that dials a relay, `NatVerdict` what AutoNAT says of the node's role.
A run of maintenance starts with any set of targets that holds the configured
relays not bound yet: one that is bound when the loop comes to it is passed over.
The relay's end is `rend`, `tunnel`, `binds`, `acks`: it may lose a channel
without the edge knowing. `Tunnels` sees of all this the relays that keep a tunnel
(`held`), those whose ACK is on its way on some channel (`offered`) and those the
edge counts on (`bound`).

**Circuits.** `call[s]` is where a call of `sendViaOnion` stands, `there` and
`back` are the packets and answers on each connection, `listening` whose
'payload' listeners are attached to it: `GuardAnswer` and `HopAnswer` settle all
of them with the first answer, as the listeners do, and `mixed` remembers whom it
was not meant for. `Retry` is the catch block that destroys the guard's channel,
whoever else uses it. Timers fire at any moment. `Routes` stands for the choice
of hops; `handleOnionCell` is not modelled because nothing reaches it (see 5).

**Routes and Messages.** `rdv[n][e]` joins `presenceTable` and `routing_table`
of node `n`: which relays it reaches edge `e` through. `rnet` and `mnet` are
copies with a source and a destination; receiving order is free. An edge
announces what it is bound to and every copy replaces the record, a relay's
`ROUTE_UPDATE` adds to it, a message that comes from elsewhere adds the address
it came from (`Learned`), and a bind replaces it at the relay. `MarkEdge` is
`registerEdgeIp`, which takes the host of a packet's *sender* for the edge's.
`ReceiveMessage` is `handleDirectOrChannelMessage`: the first copy of an id
marks it as seen, is stored unless it is in the table from before a restart,
and is passed on while it has hops left. `Unknown` drops the copies that would be
answered 'duplicate', and `Flying` the packets that would change nothing: this
keeps the state space small and decides nothing. `clean` holds the messages that
were sent over right routes and met no fault since. In the default configuration
edges keep the role EDGE and gossip (`allowEdgeRouting` off, `allowEdgeGossip`
on); pooled channels that are no tunnels carry no announcements here.

**SecureChannel and AutoNat.** An end is new, waiting for the reply, checking the
declared address (`validatePeerIp` may look up a name), ready or gone. The two
ends see a close at different times: `Destroy` lets any part of what was written
still arrive, `Closed` is the event at the other end, `Break` reaches one end
only, the other has its timers. `SwallowNewline` is a chunk of one byte that is
the newline of a frame and is taken for a keepalive (`secureChannel.js:280`).
`got` and `wrote` are what the owners received and sent. In `AutoNat`, `test[d]`
is where the awaited `sendPacket` of dialback `d` stands and `pending` whether
its 5 s timer runs; the two end in either order. `serve[d]` is the dial of the
peer, with `releaseSlot` called by whichever of its events come. The node's
relays and the packets of other services are `Notes`.

**PeerManager.** `pool` and `meta` are the `peers` map, `Store` the end of
`addOrUpdate` with eviction at capacity *before* the outcome is known.
`SavePeers` writes without waiting, so a snapshot lands at once, later over a
newer one, or never; a restart may find a torn file.

**DbLock.** `lock` is who created the file that is there, `text[p]` what `p`
wrote to its own: a write goes to the file a process opened even if that file
was unlinked meanwhile. Starts overlap freely and the operating system may give a
start the id that the lock names. Two history variables say what went wrong
before two processes could be in: `judged` holds the processes that last read the
very file that is there, and `races` notes that a start judged a file whose owner
had not written its id yet ("unwritten"), or unlinked one it had not read
("unread"). Ids of processes of other programs are left out.

**Presence.** `online[n][u]` is `remoteOnlineUsers` of node `n`: the age of the
entry and the session an announcement named, which stands for the channels and
keys it carries. Packets are copies with a source and a destination; receiving
order is free, so copies overtake each other. `Members` and `Refreshed` are
`createPresenceAnnouncePayload`, which marks users of tunnelled edges as seen
*now*. `ReceiveAnnounce`, `ReceiveAndReply`, `ReceiveStale` and `ReceiveOffline`
are the handlers with their forwarding. The caches of seen packets keep what is
still on its way: entries of packets that have no copy left decide nothing, and
2000 of them fit. Clocks agree: ages stand for `Date.now() - timestamp`.
Login takes at least one clock unit after the USER_OFFLINE of the session
before, since timestamps of equal milliseconds are not distinguished.

**Accounts and Sessions.** A secret is unset, a hash (registered over Telnet) or
a vault (registered over SSH), which carries the salt it was sealed with:
`Salt` is what a login takes for it. Over Telnet the check of a password is an
await: `ConfirmPassword` and `LoginPassword` start it and fix its outcome,
`Hashed`, `Accepted` and `Rejected` end it, and `CompleteLogin` looks neither at
the socket nor at the table. SSH checks without an await, so `SshAuth` is one
step. `sock` is closed by `Close` at any moment, in whatever state the
connection is, and "ending" between the server's `end()` and the close.
`Saved(S, cs)` is `updateUserProfile` of the sessions in `S`: each writes its
whole list over the row of its user. `SetTarget` contains the saving of
`addContact`. `Flush` is the timer, which fires for sessions that have ended,
too. `Heard` is `updateTargetMigration` in all listed sessions.
The text of messages, its sealing and the unread counts are left out, and a
client types when it has been answered: inputs that wait behind a command are
not modelled.

## 4. The runs

`tlc -workers 2 -config X.cfg M` in this directory. Deadlock is checked in every
run but those of `Circuits`, whose calls are finitely many, of `Sessions`, whose
connections may all have closed, of `Messages`, where the bounds on moves and
messages may be used up while no tunnel is left to announce, and of `AutoNat`,
whose channels are dialled once each.

| run | module, cfg | shows | bounds, and why they are enough |
|---|---|---|---|
| `outbox` | MCOutbox, Outbox | `NoSilentLoss`: a message handed over is being sent, in the table, written to a peer, discarded by a limit, or was in a call when the process died. `SpoolsOnce` (refines `MessageSpool`), `EveryRowLeaves` though announcements reset the retry counter for ever: a row leaves unless the worker awaits its item for ever, or the target is found without a key again and again. `SpoolsOnce` speaks of messages whose routes come with a key | two messages to two targets, one always with a key when it has a relay, the other without; the worker and one forced run (two overlapping runs), one restart, retry limit 2, age limit 2 |
| `rendezvous` | MCRendezvous, Rendezvous | `OnlyAccepted`: the edge counts on a relay only upon its acceptance and on no more relays than it may; `PoolBound`, `TransitRole`, `TunnelKept`; `RebindsAll`: after faults anywhere an edge is bound to as many relays again as it may, over connections that stand at both ends, unless maintenance hangs (see 5) | two relays with room for one, a pool of one, two overlapping calls: each limit is met and contended. Three faults, of which a dial by another sender and a verdict of AutoNAT count as one each; the node may start as a relay that one verdict makes an edge. Four channels, so that a replacement of a replacement exists and is not the last |
| `peers` | MCPeerManager, PeerManager | `PoolBound`, `PoolClean`, `SampleHeard`, `GossipNeverForgives` | three addresses in a pool of two (eviction), a bootstrap peer, an address on an own port, one write in flight; scores scaled to 4, 3, 2 with steps of 1 in the order of 100, 80, 60 |
| `dblock` | MCDbLock, DbLock | `Exclusive`: two processes have the database open at once only after one of two races, a lock file read before its id was in it or unlinked unread; without either exception TLC finds it violated. `OpensAgain`: unless the id in the lock recurs for ever, some process opens the database after the last crash | two processes whose starts, closes and two crashes fall anywhere and overlap; three ids, so that a start may get a fresh one or the one in the lock |
| `presence` | MCPresence, Presence | `ReturnKept`: a USER_OFFLINE of an earlier session takes out nobody who is known to be back. `GoneLeave`: who is gone together with his edge leaves every table, although relays refresh and repeat what they list | two relays (the least that could keep an entry alive between them), an edge with one tunnel that may crash and restart, one name on two nodes, two sessions of one of them, a packet late by one of one units of the time to live |
| `presence_ghost` | MCPresence, Presence_ghost | *violation* of `LogoffLeaves`, see 5 | one user, no crash |
| `circuits` | MCCircuits, Circuits | `ToldAll`: a kept circuit went through all its hops unless it took another's answer, and that other circuit shares its guard or two neighbouring hops with it. `RetryApart`: nothing of a failed build is on the channel its retry listens on. `GuardUp`: no circuit outlives the connections to its guard | two messages to one target, two relays in either order (both guards, exits that differ, so a circuit is reused or replaced), a pool of one (evictions), three builds (one call may retry while the other builds), one restart or broken link |
| `circuits_cells` | MCCircuits, Circuits_cells | *violation* of `CellsPeeled`, see 5 | as `circuits`, no fault |
| `sessions` | MCSessions, Sessions | `OwnSession`: an older connection that closes does not take the newer one off the table. `ClosedLeaves`: what closes is listed no more. `ProfileKept`: the contacts saved are those of the only session. `EveryLineLeaves` | one user with a Telnet and an SSH connection, in any order, so that each may replace, outlive or fail against the other; two passwords, two keys (the first may change), a namesake elsewhere, himself as a contact (the sender that is its own recipient), one line; a connection may err once (3 times in the code: which attempt is the last does not matter to the properties) |
| `sessions_vault` | MCSessions, Sessions_vault | *violation* of `VaultOpens`, see 5 | as `sessions` |
| `messages` | MCMessages, Messages | `FloodReaches`: a message of the global channel that nothing disturbs ends up everywhere, whichever copy is first. `DirectArrives`: one to a user arrives if the routes were right when it was sent, although repeated announcements, updates and learned addresses keep writing to the tables. `OwnOnce`: no message is stored again where it came from. `Settle`: once tunnels stay, all tables agree with them | two relays, an edge that roams between them and one that stays at the second: the shortest path from edge to edge has three hops, and HopLimit 3 is just enough (5 in the code). One message, flooded or direct; two moves (a tunnel that changes, a restart of the first relay, a loss); two announcements of an edge with different lists on their way at a time, so that an older one may arrive last, besides the updates of both relays |
| `autonat` | MCAutoNat, AutoNat | `Delivered`: payloads come out once, in order, and all but what a swallowed newline takes. `HandshakesEnd`. `SlotCount`: a peer's counter is the number of its dials under way. `PromotedByTest`: only a pending dialback that reached the node promotes it. `DialbackEnds` | two channels to two peers that may each confirm either of two addresses, so that a second consensus meets the first one's test; two dialbacks, one slot at each peer, one note at two of the ends; one fault |

Every property of a passing run has a mutant of a modelled definition that the
same run catches (`PROJECT.json`, "mutants").

**Fairness.** `Outbox!Fairness`: the 5 s timer (`Tick`, `StartWorker`),
`setImmediate` (`StartFlush`), and what a run does by itself (`RunStep`). Nothing
is assumed of what it awaits: `buildCircuit` waits for its connection before its
own 4 s timer starts, and that may take for ever (see 5); the worker then keeps
its flag (`federation.js:238-255`), and `EveryRowLeaves` says no more.
`Rendezvous!Fairness`: handshakes end, 'close' events come, an end notices that
the other closed, a call of maintenance that was answered, rejected or timed out
goes on, one is started (15 s timer), heartbeats run (30 s); breaking without
cause is a fault and never fair. A call that is never told of the end of its
channel is not made to go on. `DbLock!Fairness`: processes run, and a service
manager starts one that is down; that the id in the lock does not recur for ever
is a premise of `OpensAgain`. `Presence!Fairness`: time
passes, the cleanup timer of a node that runs fires, and a relay notices a
closed tunnel. Deliveries are not fair: `GoneLeave` holds if every packet is
lost. `Sessions!Spec`: the flush timer fires. `Messages!Fairness`: the 10 s timer
of each edge that announces, and arrival at each node of announcements that were
written and whose channel does not break: TCP delivers them; nothing is assumed
of ROUTE_UPDATEs and messages. `AutoNat!Fairness`: the idle timers of a handshake (6 s and 30 s,
restarted by each of its few frames) and
the 5 s timer of a dialback; packets may never come.

## 5. What the code does otherwise than it says

Each is a run that ends in a counterexample; `PROJECT.json` quotes the text.

- **No onion cell is ever peeled** (`circuits_cells`). Cells are written inside
  the encrypted channel, so they arrive as payloads, and for these
  `handleIncoming` calls `onionRouter.handleIncomingCell`, which does not exist
  (`federationPacketHandler.js:36`; the method is `handleOnionCell`). The
  exception is caught and logged as a JSON error, while the sender reports
  'onion_sent' and the outbox lets the message go.
- **A user who logged off may stay listed** (`presence_ghost`). If a relay drops
  his USER_OFFLINE as stale or never gets it, it refreshes his entry as long as
  the tunnel of his edge stands; the edge's own announcements, which no longer
  name him, take nobody out.

- **A vault may open no more** (`sessions_vault`). The salt of a vault is the
  key offered at registration, or a hash if none was, and is not stored; a login
  takes the account's first key. `/keys add` in an account without keys, or
  `/keys del 1`, changes that key, and no password opens the account again.

More, without a run of their own. Where constants are named, TLC finds it in the
module's runs with these constants; the others are behaviours of the models that
the properties leave room for.

- In `Outbox`, for a target with a relay address but no KEM key, `sendViaOnion`
  queues the item anew with fresh counters, even when `processOutbox` called it,
  so neither limit ever discards it: `EveryRowLeaves` excepts targets that are
  found so again and again, and fails without the exception.
- **A dial may never settle.** The call of `getOrCreateSecureChannel` that opens a
  channel settles on 'ready', 'error' or the 6 s timeout of the socket; its 'close'
  handler (`federation.js:427`) does not reject, and a destroyed socket has no
  timeout any more. If the relay hangs up before the handshake is over, or another
  sender destroys the channel (380, 789), `maintainRendezvousTunnels` awaits for
  ever with `isMaintainingTunnels` true, every later call returns at once, and
  the edge is bound to no relay until its restart; README.md:50 promises
  "persistent outbound reverse TCP tunnels". In `Rendezvous`, with one relay and
  one fault, TLC finds `<>[]Rebound` violated in five steps. The worker of the
  outbox may hang likewise, with `isProcessingOutbox` true.
- **In a container a crash locks the node out.** With Process = {p1} and
  Pid = {i1} TLC finds `Recovers` of `DbLock` violated: as the only program of its
  container (`Dockerfile:43`) the node is process 1 at every start, and after a
  kill the lock on the mounted volume names process 1. `acquireLock` asks whether
  that process runs (`database.js:57`), finds itself, and refuses, at every
  restart that `docker-compose.yml:6` asks for. tests/database_lock.test.js:86
  expects that a stale lock is found out, with an id that no process has.
- In `DbLock`, two starts that overlap may both get in: one reads the lock file
  between its creation and the write of the id (`database.js:42`), or unlinks a
  file that is no longer the one it read (74). `Exclusive` allows for these two.
- In `Rendezvous`, a tunnel may stay bound though its relay end is gone: the
  heartbeat (`rendezvousManager.js:181`) judges the pool's channel to the
  address, not the one noted for the tunnel, and the two differ after a close
  handler deleted a newer entry by address, or when the two awaits of a bind got
  two channels. If the noted one has closed by the time of the bind, its close
  handler is attached too late, and nothing but the heartbeat unbinds the relay.
  A late close event also leaves a live channel outside the pool; no property
  forbids it.
- README.md:53 says that an edge with two tunnels rises to `CAP_EDGE_TRANSIT`,
  but a new address consensus on a node configured as EDGE (`autoNat.js:47`) sets
  it back while the tunnels stay, until the next bind or unbind. `TransitRole`
  states the direction that does hold.
- In `Sessions`, what the properties leave room for: a Telnet connection that
  closes while its password is checked logs in afterwards, and the dead session
  bars the name over Telnet until an SSH login replaces it (`ClosedLeaves` speaks
  of the moment of the close). Two connections of one user each save the contacts
  they hold, and the older one's overwrite the newer one's (`ProfileKept` speaks
  of one connection). Two that register one name at once both log in, and the
  later password stays (`PasswordKept` allows it). A line goes to the target of
  the moment the buffer is flushed.
- In `Routes` (`MarkEdge`), the host a packet comes from is taken for that of the
  edge it speaks of, also when a relay passed it on
  (`federationPacketHandler.js:148` and 453). Relays known by their IP so evict
  each other from their pools, and a message of the global channel no longer
  crosses between them; a host name is safe. The run's relays have names; with
  Named = {} TLC finds `Settle` violated: two relays that evicted each other no
  longer pass on what their edges announce.
- In `Routes`, an announcement that arrives late replaces a newer one, since its
  timestamp is compared with the clock only, not with the record
  (`federationPacketHandler.js:187`): `Settle` needs the 10 s timer that corrects
  it. A message sent meanwhile goes to relays that no longer have the edge:
  `DirectArrives` speaks of messages sent while no packet says anything else.
- In `Messages`, the first copy of a flooded message decides, and it may have come
  the long way through all relays. Five hops suffice for up to four relays that
  know each other, and for six nodes in all (see 6); beyond, an edge may miss a
  message. A sender address learned from a copy (`Learned`) counts as a relay of the
  sender's node, and a record of only such addresses keeps a relay from falling
  back to all its peers.
- `seenMessages` forgets after 3 minutes, while an outbox row is retried for 24
  hours; what then comes a second time is stopped by the message table only.
- In `AutoNat`: a consensus that comes while a test runs is never tested; votes
  never expire; the promise of `sendPacket` stays open if the channel closes
  without an error before it is ready, and only the 5 s timer ends the test.
  README.md:46 lets a peer confirm "upon a successful cryptographic handshake",
  but `handleDialbackRequest` confirms a TCP connection (`autoNat.js:187`).
  MESH_ROLE is 'EDGE' by default (`config/index.js:26`), for which no test is
  run at all.

## 6. The proofs

`tlapm XProofs.tla`. The assumptions are the named ASSUMEs of the modules
(finite sets, limits that are natural numbers), which TLC evaluates in the runs.

Every safety and every action property of a passing run is a theorem.

- **OutboxProofs.** `TypeCorrect`. `NothingLost` from an invariant that adds two
  facts to `NoSilentLoss`: runs handle only messages that were handed over, and
  no message is both in its first call and in the table or a run. Without the
  second, a failed call would be queued next to a row of a run. `SpoolRefinement`:
  for the messages whose targets' routes come with a key (`Steady`), every step
  maps to a step of `MessageSpool` or to none, whatever happens to the others.
- **RendezvousProofs.** `TypeCorrect`, `PoolStaysBounded`, `BoundStaysLimited`,
  `RoleHonest`, `TunnelEndsWithChannel`, `TunnelRefinement`. `BoundLimit` is not
  inductive: a call checks for room and adds a relay three awaits later. The
  invariant says that one call runs at a time (`Alone`), and that while it awaits there is room (`Room`):
  others only unbind. `TunnelKept` needs no more than the types: in each
  step that takes a tunnel down at the relay, its own channel is gone there.
  `TunnelRefinement`: every step maps to a step of `Tunnels` or to none. A call
  keeps the address it binds and looks its channel up twice, so the mapping needs
  that the two still agree: an entry of the pool leads to its own address over a
  channel in use (`Held`; a late close event deletes the entry of the address, and
  a channel nobody refers to any more is opened anew), and the channel a call awaits
  an answer on leads to the relay it binds, which is not bound yet (`Aimed`).
- **FileProofs**, the two files beside the database, for any number of processes
  and any finite set of addresses.
  *The lock file*: `LockTypeCorrect`. `MutualExclusion`, however starts, closes
  and crashes fall and whatever ids recur: as long as neither race has occurred, a
  process that holds the database is the one whose lock file is there, with its id
  in it (`Locked`), and whoever is about to unlink the file it read has seen that
  no process holds the database (`Sound`): the probe asked for the id in that very
  file, and processes that are up have ids of their own (`OwnIds`).
  *The peers file*: `TypeCorrect`, `PoolStaysBounded`, `PoolStaysClean`,
  `OnlyHeardShared`, `ObservedStands`. `SampleHeard` needs its fact about the
  pool, the file and every write in flight at once, since a restart may resume
  from any of them. `GossipNeverForgives` is shown action by action: a direct contact
  and a restart are the only steps that raise a score or clear a failure.
- **PresenceProofs.** `TypeCorrect` and `ReturningUserKept`, an action property.
  The invariant says that tables and packets name no session that has not begun
  (`Numbered`) and that a USER_OFFLINE on its way is older than every entry of the
  user's new session (`Outdated`).
- **SessionsProofs.** `TypeCorrect`, `PlaceKept`, `ClosedTakenOff`,
  `PasswordsKept` and `ContactsSaved`. Types are inductive only together with
  what a wait stands for: a password while it is hashed, an address while lines
  wait (`Given`). The invariant of the others says that whoever is listed for a
  user has a session of his (`Listing`), so that a close finds itself in no other
  place; that a check is awaited only in the states that ask for a password
  (`Awaiting`); and `Kept`, which is `ProfileKept` from the moment a Telnet
  connection reads the profile, before it has a session.
- **AutoNatProofs.** `TypeCorrect`, `SlotsCounted`, `PromotionEarned` and
  `InOrderOnce`. `SlotCount` is about a counter of the peer, but what keeps it is
  on the wires: a request arrives at most once. So the invariant says that a
  request on a wire was sent, is not served yet and is there at one place only
  (`RequestsOnce`); and that a confirmation on a wire or in a queue is of a dial
  that reached the node (`ConfirmsTrue`). `Carried` reduces the twenty ways in
  which a step changes wires to one: frames are dropped at the start or the end,
  or written. `InOrderOnce` states `Delivered` and needs, of both ends of each
  channel (`Sound`): until an end is ready, all it was given is queued and nothing
  went either way (`Fresh`); where the handshake's frames are, as far as the two
  states tell (`Shaken`), so that no reply is ever met by payloads that were
  written before it; what an end received followed by what is still on the wire
  is in order (`Ordered`); and a fault has paid for two frames, of which one is
  yet to be lost while the buffer is glued (`Losses`). The theorem is about every
  behaviour of `AutoNat`, whose packets these are.
- **MessagesProofs.** `TypeCorrect`, `OwnStoredOnce`, and that a message arrives
  although only the first copy counts: `FloodGetsAround` and `DirectGetsThere`.
  The invariant of a message nothing disturbed (`Undisturbed`) says that a copy
  has made no more hops than there are nodes that have seen the message, and that
  the neighbours of every relay that has seen it have seen it, too, or have a copy
  coming. So if the limit does not stop it, the message is everywhere once no copy
  is left. The limit is a hypothesis: HopLimit + 1 nodes for a flood, fewer relays
  than HopLimit for a message to a user. With the code's limit of 5 these are six
  nodes and four relays. Both are sharp as far as TLC tells: with three relays and
  two edges it finds `FloodReaches` violated for HopLimit 2 and 3 but not for 4,
  and `DirectArrives` violated for 2 but not for 3.
- **CircuitsProofs.** `TypeCorrect`, `RetryStaysApart`, `GuardsStayUp` and
  `KeptWentThrough`, for every number of calls, relays, links and circuits. The
  invariant joins what is on the wires and what callers take of it: channels that
  are gone carry nothing (`Quiet`); packets come to hops of their circuit only, and
  an answer 'ready' that no one took by mistake means that all hops from there on
  were told (`Wires`); a build under way is one call's own, and a channel's
  listeners are the calls that wait on it (`CallsWell`). `RetryApart` is inductive
  from the moment the second attempt dials (`Separate`): the catch block has
  destroyed the channel by then, and what was on it is gone. `ToldAll` also says
  whose answer a mistaken circuit took: packets, answers and the notes of the way
  back are only where the way of their circuit goes (`Routed`), so a caller or a
  hop that takes an answer for its own has that link in common with the circuit it
  was for. A circuit alone on its way is never mistaken. Assumed are a finite
  set of circuit ids, some call, and that channels are no pairs of relays.

Only model-checked: liveness (`EveryRowLeaves`, `RebindsAll`, `OpensAgain`,
`GoneLeave`, `EveryLineLeaves`, `Settle`, `HandshakesEnd`, `DialbackEnds`), which
needs fairness and ENABLED, out of the prover's reach. No theorem is about what
a recursive definition computes. `TypeOK` of `Messages` and `AutoNat` are theorems
though their runs do not list them, and `PasswordsKept` and
`BoundLimit` (a part of `OnlyAccepted`) have no run of their own.

## 7. What is not modelled, and the plan

Left out for good: rendering, key decoding, SSH packet formats, PROXY protocol,
address parsing, HTTP output (data formats without shared state), cryptography
(taken as sound), configuration and texts. Not in the models of this directory
although in their code:

- *Pool*: resolution of `.mesh` names to addresses; the limit of 64 tunnels of a
  relay across many edges.
- *Circuits*: a build whose dial is never settled (see 5) just stays where it is;
  nothing there is about progress.
- *DbLock*: a lock whose id now belongs to a process of another program, which
  bars the node as long as that process runs.
- *Outbox*: rows whose target cannot be parsed (only parsed targets are queued).
- *Presence, Routes*: clocks that disagree; KEM keys of announcements; the random
  gossip of peer samples, which is `PeerManager`'s `addOrUpdate` with any
  address; announcements over pooled channels that are no tunnels. The handler of an
  announcement also makes a record, with the announcing relay only, for the edge of
  a listed user if `presenceTable` has none
  (`federationPacketHandler.js:225-244`), which writes over the row in
  `routing_table`; this is left out of both, and matters after a restart, until the
  edge announces itself.
- *Messages*: channels a node owns. Their subscribers are kept in memory and
  reached with `sendViaOnion`, whose cells nobody peels (see 5); only the edges of
  the owner's own relay get these messages, subscribed or not, through
  their tunnels. Typing notices. The times after which `seenMessages` forgets.
- *SecureChannel*: tables of nonces with their times to live, the limit of a
  buffer, the contents of handshake frames.
- *AutoNat*: the rate limit of one dialback per address and 10 s is a refusal at
  any moment; `setRole` also starts announcements, which `Presence` makes at any
  time; `peers[0]` is any peer.
- *Sessions*: commands that only read, pasted blocks, unread counts, sealing, the
  30 s lock of an address after five wrong passwords.

To come, in this order:

1. `Presence` and `Routes` over `Tunnels` itself: they open and close a tunnel at
   the relay first or at the edge first, and a relay that loses the tunnel of an
   edge that still counts on it, a step of `Tunnels`, is only in `Rendezvous`.
2. `Sessions`: commands that await and the inputs that wait behind them; then
   joined to `Presence`, whose logins and logoffs it makes.
3. `Circuits` under fairness (every call ends), expiry at the hops; then `Outbox`
   over `Circuits`.
4. Channels of a node, once cells arrive.
