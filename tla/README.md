# Narwal for Homey: verification models

TLA+ models of the Homey app for Narwal robot vacuums (the repository this
directory belongs to), model-checked with TLC; every invariant and action property
the runs check is also proved with TLAPS, for any values of the constants.

## The system

The app keeps one `NarwalHomeyDevice` per robot. A device owns one
`NarwalClient` at a time, which talks to the robot over a local WebSocket or,
through the Narwal cloud, over MQTT wrapped in a `CloudSocket`. Everything runs
on one JavaScript thread; concurrency comes from callbacks, timers and `await`.

| Component | State | Operations | Interacts with | Hard parts | What makes it correct |
|---|---|---|---|---|---|
| Connection of the client (`lib/NarwalClient.js`) | socket, open/connected flags, outage flag, backoff, timers | `start`, `stop`, socket events, heartbeat, renewal, reconnect | socket (events), device (`connected`, `disconnected`) | order of close/error/timeouts, half-dead links, late events of old sockets | never stuck, never two sockets, reports alternate, backoff kept |
| Commands of the client (same file) | promise chain, response queue, waiter, status listeners | `_command`, `_sendBinaryCommand`, frames, timeouts, link loss | connection, status, device | replies carry no command id; late, foreign and missing replies; reply against status | the right response settles the right command, once, on its link |
| Map of the client (same file, `NarwalMapCodec.js`) | static map with its sequence number, guard, retry and emit timers, outstanding requests | fetch, retry, `display_map` updates, re-emission | commands (the chain), connection, device (`map`, `staticMap`) | lost, repeated, reordered updates; timers racing drops | grid is the robot's; shown in time; asks until it has a map |
| Status of the client (same file, `NarwalBinaryProtocol.js`) | last status, pending suction, waiters | merge of base, working and upgrade status | device triggers, commands | partial frames that contradict each other | no state the robot is not in; no flapping |
| Device (`lib/NarwalHomeyDevice.js`) | client, restart timer, capabilities, previous status | init, settings, address change, delete, status and map handlers | client, app, Homey | `await` between check and use, deletion while starting | one client, none after deletion, triggers once |
| App and discovery (`app.js`, `DiscoveryWatcher.js`) | device registry, tracked mDNS results | register, route results, mode changes | devices, account | devices that come late | every device follows its robot |
| Cloud socket (`lib/cloud/CloudSocket.js`) | ready state, subscriptions, send queue | start, subscribe, publish, terminate | MQTT client, account | teardown while starting, slow subscriptions | the contract of a WebSocket |
| Cloud account (`NarwalCloudAccount.js`, `CloudAccountManager.js`, `connectionMode.js`) | tokens, broker, current account, mode | sign in and out, refresh | settings store, cloud socket, app | refreshes that end after a sign-out | the stored session is the user's last decision |
| Live trail, push, widget (`LiveTrail.js`, device, `widgets/vacuum-map`) | points, sequence numbers, widget copy | add, push, load, reset | device, widget | lost or overtaken pushes | the widget's path is the robot's |
| Codecs and rendering (`MapParser.js`, `NarwalMapCodec.js`, `NarwalBinaryProtocol.js`, `NarwalProtocol.js`) | none | pure functions | | boundaries, colouring | what is packed unpacks; neighbours differ |
| Pairing (`NarwalHomeyDriver.js`, `Discovery.js`, `cloudPairing.js`, `pair/connect.html`, `NarwalClient.probe`) | the dialog's list, running probes | search, identify, add by address or from the account | discovery, account, the new device | answers to replaced searches, robots that do not name themselves | one device per robot, every probe ends |
| Options, settings page, web API, mock, scripts | little or none | | | | |

## Modules

| Module | What it is |
|---|---|
| `LinkPromise` | What a client promises its host about the connection: the abstract specification of `NarwalLink` |
| `NarwalLink`, `NarwalLink_proofs` | The connection lifecycle of `NarwalClient` |
| `CommandChannel`, `CommandChannel_proofs` | The binary commands of `NarwalClient` |
| `MapSync`, `MapSync_proofs` | The map of `NarwalClient` |
| `StatusMerge` | What the client makes of the robot's status messages |
| `DeviceReport`, `DeviceReport_proofs` | What the device makes of the client's statuses; extends `StatusMerge` |
| `DeviceLifecycle` | The owner of the client, with the app's registry, the connection mode, the account and the discovery watcher |
| `Pairing`, `Pairing_proofs` | The pairing dialog and its probes; extends `DeviceLifecycle` with where a device comes from. The proofs are of both |
| `CloudAccount` | The account, its manager and its token refresh |
| `SocketPromise` | What the client expects of a socket: the abstract specification of `CloudSocket` |
| `CloudSocket`, `CloudSocket_proofs` | A socket over the cloud; extends `CloudAccount` |
| `MapRender`, `MapRender_proofs` | From the bytes of a map to the widget's picture, as pure operators |
| `MapView`, `MapView_proofs` | The live path from the robot to the widget, over the map of `MapRender` |
| `MC...` | Instances for TLC |

`PROJECT.json` maps every definition to the lines it models. Operators named
after a bug ("The bug of ...") are variants of the operator below them; with one
in place of the other, TLC finds the property they are listed with violated.

How the modules meet: the socket `NarwalLink` and `MapSync` take as given is the
one `SocketPromise` describes, and `CloudSocket` implements it. `StatusMerge`
feeds `DeviceReport`, `DeviceLifecycle` follows `Pairing`, `CloudAccount` serves
`CloudSocket` and `MapRender` serves `MapView`, each composed in one state space.
`DeviceLifecycle` has a client as running or not, and what it does is the subject
of the others.

### NarwalLink

A socket is an identity with a ready state; once torn down it is unheard and may
be reused. `ws`, `linkOpen`, `connected`, `outageReported`, `attempt`, `closing`
are the fields of the same name. `timers` is the set of the timers that are
pending. `OnClose`, `Connect`, `MarkConnected`, `ScheduleReconnect` and
`TeardownSocket` are the methods; `ScheduleReconnect` and `Connect` take the
timers their caller leaves running, since a method and its caller change the
same variable in one step. An event of a socket or a timer is an action.
Delays are abstracted to "may fire while pending"; silence is counted in
heartbeat limits (`idle`), because two limits differ. The attempt counter stops
at `BackoffSteps`, where the delay stops growing. `reported` and `before` are the
last two events the host was given and change nothing. `LinkPromise` has the same
two (`view`, `earlier`): with the last one alone, an outage that is reported again
could not be told from silence.

`CloudSocket.terminate()` and `ws.terminate()` are taken as silent once their
listeners are removed. A cloud socket may deliver a frame before it is open.

### CommandChannel

One callback is one step, and the promise reactions it causes are steps that run
before the next callback (`Calm`), except that several frames of one chunk come in
before the first reaction (`MoreOfChunk`). `chain` holds the commands whose runs
have not ended, `active` is the one that was sent, `waiter`, `queue` and `handed`
are the response machinery, `Verdict` is the race of `_command`. `robot[c]` is
where the frame and the reply of `c` are; a local reply dies with its socket, a
cloud reply may reach the next link. `issuedOn`, `sentOn`, `answer` and `before`
are history and change nothing. A status is the set of topics whose effect it
shows. Map requests share the chain in the code and are left out here.

### MapSync

Time is in ticks: a timer holds the ticks it has left and no tick passes it when
it is due, so that timers set in a known order end in it. `asked` is the map
requests in the promise chain. A grid tells for each cell which of the robot's
changes it shows; an update covers the changes from its start to its current
number and may come in late, twice, out of order or never. A map reply may be of
any time so far, because a late reply to an earlier request is accepted too.
One map is assumed: the robot does not change to another one. A cloud socket
that heard the robot before it opened opens or fails before the next tick.

### StatusMerge and DeviceReport

A message is what the normalisation reads out of it: the status code, the flags,
the evidence about the dock and the values shown. `FromBase`, `FromWorking` and
`FromUpgrade` are the three normalisations, `StillDocked` and `OnlyMetrics` the
corrections `_ingestBinaryStatus` makes for a docked robot, `Merged` its merge.
`pending` and `fanSpeed` are the suction that waits and the one the next clean is
started with.

In `DeviceReport` each report of the client has a handler of its own, and handlers
overlap. That of a status (`_onStatus`) awaits a store write, then writes the
capabilities, then fires its triggers one by one in the order of the code. Those of
the link (`_onConnected`, `_onDisconnected`) write `narwal_connected`, look at
`narwal_status`, which statuses write as well, and write its text (`Worded`); a value
that is on show already takes no time. A handler is an identity of `Handlers`, free
again when it is done; one of the link is done with the text, since the last error,
the availability and the trigger after it are left out. The capabilities of one status
are written in one step. Writes do not fail, and those of different handlers end in
any order: what Homey makes of them is not in the repository. `owed` counts the
triggers that consecutive statuses call for and that have not been fired, and `alone`
is the latest report if nothing else was being written when it came; both change
nothing. A client that is replaced starts without a status, as in the code, while the
device's `prev` stays; so a 'connected' may come without an outage before it. `worked`,
that more than no area was cleaned, is carried over from message to message like the
area in the code.

### DeviceLifecycle and Pairing

Every `await` of `onInit`, `onSettings` and `onDiscoveredAddress` is a step of its
own, so that announcements, saves, mode changes, sign-ins and the deletion come in
between. `running` is what each started client was given; `Wanted` is what it would
be given now. Assumed of Homey and the network: a device's own `setSettings` calls
end in their order; an accepted save is stored before the restart's 500 ms are over
(the comment above `_restartClient` assumes it too); and a robot does not return to
the address it left while the new one is being stored.

`Pairing` puts the dialog in front: a search with overlapping identifications, an
address that is typed or found and validated, or a robot of the account. A probe is
`NarwalClient.probe` from its socket to the first of answer, error and timeout. The
device gets its id from the frames that answered, or from its address when none
named the robot. Mode, account and announcements stand still while the dialog is
open, and the device starts when the dialog is closed and its last probe has ended:
a probe shares nothing with a device. A robot that was paired before is one
known by its id or by one address (which one makes no difference). The page's own
timeouts, which end after the probe's, are left out.

### CloudAccount and CloudSocket

An account object is named by its session, a token pair by the number of refreshes
behind it. Objects that are no longer current live on while requests or sockets hold
them. In `CloudSocket` frames are numbered in the order in which they are sent, and
`waiting` is the `await` of the response subscription. The mqtt client is the
environment's; it does not reconnect by itself, as the code configures it. The
client sends on an open socket only, which `NarwalLink` shows.

### MapRender and MapView

`MapRender` is without state: `decodeGetMapResponse`, `packStaticMap`,
`unpackStaticMap`, `fromStaticMap` and `toRenderData` with the crop, the room codes,
their order, colours, names and labels. Loops over cells are sets of positions,
sequences in order of a rank (`ByRank`, `Ascending`, `Pick`) and recursive functions,
which can be proved about. `IsRobotMap` is what a robot sends: cells of the 24 bits
that `classifyCell` gives a meaning (`NarwalMapCodec.js:236`), rooms with an id each.

`MapView` is the robot's path on its way to the widget: broadcasts with the last points, the device's trail with its limit,
pushes of what is new at most every two seconds, and the widget's requests and
poll. Pushes arrive in order or not at all; requests fail or are answered out of
order. The widget asks once when it opens (`asked` is 1 at first); its poll runs
while it has seen the robot connected and cleaning, paused or on its way home
(`active` for `activeState`), which it learns from a request every half minute
(`Load`): `active` may change at any time. `render` has the map of the picture and
the `meta` that live points are placed by, both of `_mapRenderData`. A point is its coordinates and the clean it belongs to, which only the
properties look at. `session` numbers the trails and is history, as are `astray` and
`unplaced`, the mark of a push that counts points it could not show.
No two points of one clean have the same coordinates.

A name is what it reads. `MadeUp` are the texts the app makes up, a type's name with or
without a number and "Room 7" (`Spelled`; no two of these read the same, as the table of
the types' names shows). A user's name is used as it is, and may be one of them.

## Runs

| Run | Instance | Shows |
|---|---|---|
| `link` | 3 sockets, backoff of 3 | `TypeOK`, `OneLink`, `NeverGivesUp`, `HostKnows`, `BackoffHolds`, `SilentLinkDropped`, `KeepsPublishing`, `KeepsDialling`, `PromiseKept` |
| `commands` | 2 commands of one topic, 1 of another, 2 links, queue of 1 | `TypeOK`, `FreshAnswer`, `OwnTopic`, `SentOnItsLink`, `RefusalIsError`, `NoReplyOverlooked` |
| `settles` | 1 command with and 1 without a visible effect, 2 links, queue of 2 | `EverySettles` |
| `map` | 2 cells, 3 changes, 3 requests, delays 2 < 3 < 4, 5 | `GridFaithful`, `ShownOrScheduled`, `StopIsQuiet`, `AsksUndisturbed` |
| `device` | 2 addresses, 2 accounts, 2 clients, 2 probes, 3 changes | `OneClient`, `ClientCurrent`, `OneDevice`, `Follows`, `ProbesEnd` |
| `cloud` | 2 sessions, 2 callers, 1 refresh each, 3 frames on 2 topics | `StoredFollows`, `OneRefresh`, `NoClientLeft`, `InOrder`, `ContractKept`, `EveryFrameLeaves` |
| `status` | every status code, flag and dock evidence, 2 readings; 3 reports of robot or link, choices or restarts, 3 handlers (symmetric) | `DockAgrees`, `ChosenKept`, `OncePerChange`, `ShowsLatest`, `NotUndone` |
| `view` | every 3 by 2 grid of 4 values, every pair of room descriptions with or without a name, also one that reads like a type's; 4 maps, 3 points, 2 cleans, 1 fault | `RenderFaithful`, `ColoursDiffer`, `OnePath`, `CatchesUp` |
| `refusal`, `late_reply`, `keeps_asking`, `fresh_map` | as above | where the code does not do what its comments and changelog say (below) |

Bounds. Three sockets: one current, one abandoned and still heard (which
`OneLink` excludes), one new. A third backoff step is the first that saturates.
Two links: all that matters of a link to a command is whether it is the one the
command was given on. Three commands: one active, one of the same topic queued
and one of another. Queues of one and two reach their limit. Two cells and three
changes: an update can miss a change of the cell it writes and of the cell it
does not. The ticks keep the order of `constants.js`: guard (10 s), request
(15 s), retry (60 s and more); over the cloud a request lasts as long as the
first retry delay, which is left out.

Two addresses and two accounts are what a move and a new sign-in need, and a second
client identity shows one that was not stopped. Two probes overlap, an
identification of an earlier search and a validation. Three changes (`MaxEvents`)
reach every pair of a move, a save, a sign-in and a deletion within one another's
awaits. Two sessions let a refresh of the old one end after the new sign-in; the
second caller shares the socket's refresh; three frames on two topics wait, overtake
and are dropped. Three reports: a status or an outage before, one that disturbs it and
one after, handled one by one or all three at once (3 million states). Handlers are alike, hence the symmetry, under which
only safety is checked. In `view` a trail of two points is cut at once,
a broadcast carries two points so that a lost one leaves a gap, and the saved maps
are only looked at, while the model goes on with four of different crops (and none,
and no border). One fault (`MaxTrouble`) is a lost broadcast, push or answer, a
restart or a new map; the widget's poll has to make up for each. `CropPadding` is 0
instead of 2 so that the crop differs from map to map.
TLC does not look for deadlocks: a stopped client stops, and the bounds end.

The type invariants of `MapSync`, `DeviceLifecycle` and `CloudSocket` are not
checked by a run; all three are proved, and for any values of the constants.

Fairness. `NarwalLink`: pending heartbeat, renewal and reconnect timers fire,
time passes, and a socket in the closing handshake ends (`ws` destroys it after
its own timeout). `CommandChannel`: reactions run (the microtask queue is
emptied), time passes, and timers fire; the last is strong fairness, because a
timer can only fire between two callbacks, and libuv looks at its timers in every
turn of its loop, so a stream of frames cannot starve them. `Pairing` and
`DeviceLifecycle`: an awaited call of Homey ends, the restart timer and the timeout
of a probe fire. `CloudSocket`: the queue's promise reactions run, and a
subscription is answered or times out after its 10 s. `MapView`: the
device's writes and timers end, the widget's requests are answered and its poll
comes while it has seen the robot at work. Nothing is assumed of the robot, the network, the broker, the user or the
host.

## Where the code and its documentation differ

* `refusal`: "A reply that refuses the command is always an error"
  (`NarwalClient.js:603`). Over the cloud a status that shows the effect first
  wins the race, and the refusal is dropped.
* `late_reply`: "Robot commands only accept the robot's answer to that command"
  (`CHANGELOG.md:147`). A late reply settles the next command, of any topic
  locally and of the same topic over the cloud.
* `keeps_asking`: "keep asking, backing off" (`NarwalClient.js:251`). A failed
  request does not schedule a retry while one is pending, and that retry asks
  nothing when it fires inside the guard window of the request that failed.
* `fresh_map`: the same comment. The re-emission of a saved map that a live
  update changed sets the flag that a fetched map sets.

## What the properties leave out, because the code does it

* A device deleted during `onInit`'s awaits, or while a followed address or a save
  is being stored, starts a client that nothing stops (`NarwalHomeyDevice.js:100`,
  `268`). `OneClient` speaks of a device deleted at rest.
* A robot that goes back to its old address while the new one is being stored is
  not followed until its next announcement; and a device whose mock mode is turned
  off keeps the address it had when the announcements were ignored (`Follows`).
* `_onConnected` and `_onDisconnected` overlap on a flapping link and with statuses,
  and `_setCapabilityValueIfChanged` compares with a value that is not written yet
  (`NarwalHomeyDevice.js:550`): `narwal_connected` and the text of `narwal_status` can
  end on the older event. Of two statuses that overlap the older one may be shown in
  the end (`369`). `ShowsLatest` speaks of the first report after them that is written
  on its own.
* A refresh answered without an access token is stored as it is
  (`NarwalCloudAccount.js:201`), and the stored session is then not restored after a
  restart (`CloudAccountManager.js:44`). `CloudAccount` assumes that the answer has one.
* Once the robot is docked or offline the widget does not poll any more
  (`index.html:606`), and docking is when the client fetches a new map
  (`NarwalClient.js:264`): if a push was lost before, the app restarts or the map has
  another crop, the older path stays until the robot is at work again or the widget is
  opened anew. `CatchesUp` speaks of a robot that is at work.
* A robot paired from an answer that does not name it gets an id made of its
  address. It is never followed, is refused in cloud mode, is new to later
  searches and can be paired twice (`OneDevice` excludes it).
* A push can line up by chance with the path of an earlier clean; the widget then
  shows a mixed path until its next request (`astray` in `OnePath`). A point that
  is passed twice would be taken for the end of the known path by `LiveTrail.add`.
* `_pushLive` counts points as sent also when there is no picture to place them on
  (`NarwalHomeyDevice.js:512`): when a map without a drawn cell comes between two with
  one, the next push lines up and the widget shows a path with a gap until it asks
  for the whole one, although "anything that does not line up … is fetched whole"
  (`index.html:253`). The proof of `OnePath` failed on this case, and TLC confirmed it
  with two faults instead of one; `OnePath` now sets it apart (`unplaced`).
* Two rooms get the same name when a number of the robot's is a position in its
  type's list (`NarwalMapCodec.js:222`), or when the user gave one the name that the
  app makes up for the other, such as "Kitchen" beside a kitchen without a name
  (`215`). `ToldApart` leaves out both. In a
  picture of more than six rooms the colours may wrap (`ColoursDiffer`).
* A clean of rooms is checked against the stored rooms and sent, some awaits later,
  with the map id in force then (`NarwalHomeyDevice.js:809`, `NarwalClient.js:984`).
* `map_updated_at` is stored before the picture is rendered (`467`, `471`).

## Proofs

`NarwalLink_proofs` proves, for any set of sockets and any backoff
(`NoSocketAssumption`, `BackoffAssumption`):

* `LinkInvariant`: `Spec => []LinkInv`. `OneLink` and `NeverGivesUp` are not
  inductive: that no redial is forgotten depends on which timers a link has
  (`TimersFollowLink`), on what start and stop leave behind (`Lifecycle`) and on
  the sockets that can still be heard. `LinkInv` is their conjunction with
  `TypeOK` and `HostKnows`. It holds initially and every action preserves it; the
  methods that several actions share have lemmas of their own.
* From it: `LinkTypeCorrect`, `NoOrphanSocket`, `ClientNeverGivesUp`,
  `HostAlwaysKnows`, `BackoffOnlyResetsConnected`.
* `LinkImplementsPromise`: `Spec => PromiseKept`. Under the mapping `Phase`, `reported`
  and `before` each action is a step of `LinkPromise` or a stutter, by `LinkInv`; so
  events alternate and an outage is reported once.

`CommandChannel_proofs` proves, for any commands, topics, number of links and
limit of the response queue (`CommandAssumption`), six theorems from the inductive
invariant `CommandInv`:

* `ChannelTyped`, `AnswerAlwaysFresh`, `AnswerOfOwnTopic`, `NeverSentLate`,
  `WaitersMeetResponses`: `TypeOK`, `FreshAnswer`, `OwnTopic`, `SentOnItsLink` and
  `NoReplyOverlooked` always hold.
* `SentOnItsLink` rests on `ChainInv`: everything in the chain was given on the link
  that is open. A new link opens between two callbacks, when no reaction is due,
  and without a link nothing is active, so the chain is empty by then.
* `FreshAnswer` and `OwnTopic` rest on `Genuine`: a response in the client's hands
  came in after the active command was sent, and over the cloud it names the topic
  of the command it replies to. Emptying the queue before a command is sent is
  what makes this true again for the next one.
* `RefusalReported`: `RefusalIsError` needs `RefusalInv` as well, that a command in
  the chain has no reply yet and that one the host was told is done before it had one
  was on show.

`MapSync_proofs` proves, for any grid, any delays and any number of changes and
requests; only that a retry has a positive delay is assumed (`AskingGoesOn`):

* `GridAlwaysFaithful`: `GridInv` adds to `GridFaithful` that the client is never
  ahead of the robot. The lemma at its core is that a cell no change in a range
  touched shows the same at both ends of the range.
* `StoppedIsQuiet`: `StopInv` adds that a stopped client has no link, so that no
  frame and no handler of a failed request can set a timer.
* `ChangesAreShown` (`ShownInv`): a change of the grid sets the emission timer in the
  same step, and only an emission or `stop()` ends it.
* `AskingGoesOn` (`AskInv`): while a guard window lasts, the request that opened it is
  still outstanding, unless one failed early; so a retry that asks nothing in the
  window leaves a request behind.
* `MapTyped` from `MapTypeInv`: the emission timer waits only while there is a map, and
  there is one for good once there was, so that what it shows is a grid.

`DeviceReport_proofs` proves, for any readings, rooms and suctions and any number of
messages and handlers (`NullAssumption`):

* `StatusAgrees`, `SuctionIsKept` and `DockedStaysDocked` from `MergeInv`. Its core is
  `Sound`: what each normalisation and correction leaves of a message, so that the
  merge has one proof for all messages.
* `TriggersOnce` and `LatestIsShown` from `MergeInv` and `ReportInv`. `ShowsLatest`
  speaks of the moment when nothing is being written; before it, a report on its own is
  the only one being written (`StatusStands`, `LinkStands`; the end of an outage may come
  after a status is on show). `OncePerChange` needs that the triggers owed of one kind
  are as many as the handlers which still have it to fire, and that the device's `prev`
  follows the client's last status.

`CloudSocket_proofs` proves, for any number of sessions, callers, refreshes, frames
and topics (`AccountConstants`, `SocketConstants`):

* `StoredSessionFollows`, `RefreshIsShared`, `ClosedIsLeft` from `CloudInv`:
  requests are made with sessions that were signed in to, a session that never was
  has no tokens, and only a socket with an account has a connection.
* `FramesInOrder` from `OrderInv`: what is published comes before what is queued,
  and both before what is sent next.
* `SocketKeepsContract`: `Spec => ContractKept`. By `ToldInv` a live socket has told
  what its ready state says and nothing else, so each step is one of `SocketPromise`
  or a stutter. This is what `NarwalLink` and `MapSync` take as given.
* `CloudTyped` adds to `CloudInv` that a socket which asks for its broker has a session
  that was signed in to, also when it was terminated since (`HolderInv`), that sign-ins
  in flight are as many as the user began at most (`BoundsInv`), and that a frame which
  waits for its response topic is still in the queue (`FramesTyped`).

`Pairing_proofs` proves of `DeviceLifecycle` and of `Pairing`, for any addresses,
accounts, clients, probes and number of changes (`DeviceConstants`,
`PairingConstants`):

* `DeviceTyped` and `DeviceHasOneClient` from `DeviceInv`: a started client is
  never taken for an idle one (`OnlyOwn`), and a device deleted at rest has nothing
  left that could wake it (`AtRest`).
* `DeviceIsCurrent` (`ClientCurrent`) from `CurrentInv`: `ClientCurrent` is not
  inductive, because a save that is being stored changes what is wanted when it ends;
  the invariant adds that a restart timer runs by then.
* `PairedHasOneClient`: pairing leaves the device in a state of `DeviceInv`, so the
  same holds for the composition.
* `PairedIsCurrent`: so does `CurrentInv`, because the device starts once, when its
  dialog is closed and its last probe has ended (`AddsOnce`).
* `RobotHasOneDevice` from `PairInv`: the devices of a robot that always named itself
  have its id (`ByName`).

`MapRender_proofs` proves what the operators of `MapRender` do with maps of any size,
for any `CropPadding \in Nat` (`PaddingAssumption`; `MapParser.js:436` keeps it from
being negative), while `Null` is none of the values it stands for (`NullAssumption`):

* `WireUnpacked` and `RunsUnrolled`: the cells that are packed, in varints by the robot
  or in runs by the app, are the cells that come out. A varint ends where its bytes say
  so (`VarintReads`), and each position of a flattened sequence is in one of its parts
  (`Located`).
* `CellsInPlace`: every drawn cell is in the picture, at its column and row of the crop
  and with its own code. The crop is a minimum and a maximum of what is drawn
  (`MinIs`, `MaxIs`), and rows and columns of a sequence of cells are told apart by
  division (`ColumnRow`).
* `PointsOnTheirCells`: a live point over a drawn cell is shown on that cell, because
  points are moved and turned over as cells are. This is not in a run.
* `RoomsToldApart`: two cells have the same code exactly when they are of the same room,
  and a cell of no room has no room's code; the list of rooms has the rooms of the
  cells (`RoomIdsAre`).
* `LabelInRoom`: a label is on a cell of its room, whatever the room's shape.
* `ColourIsFree` and `NeighboursDiffer`: the walk has each room in its queue once, so it
  ends when all are coloured; a room gets a colour that none of its coloured neighbours
  has, while there are at most six rooms.
* `PictureIs`: all of this about `toRenderData`.

The recursive functions (`Varint`, `VarintValue`, `Total`, the walk of `Coloring`) are
known by their equations: a function with these equations is built step by step, so
that the one chosen has them too. What follows from them for all lengths is shown with
a smallest counterexample (`MinIs`) or with a set of lengths that has 0 and each next
one (`Upwards`); this takes no induction theorem with an operator for its parameter.

`MapView_proofs` proves, for any maps a robot can have (`MapsAssumption`), any window
and trail length and any number of points, cleans, losses and requests
(`ViewConstants`):

* `PictureIsTheRobotsMap`: `RenderFaithful` always holds. Its invariant `MapInv` says
  that what the client holds is the robot's map decoded, and that what was rendered is
  that, unless another one waits to be rendered; so what `MapRender_proofs` says of the
  picture of one map holds of what the widget is given, also when the map went through
  the device's store in between (`ReceivedIs`, `StoredIs`). Without `MapInv`,
  `RenderFaithful` is not inductive: it speaks of no map when none was rendered.
* `CloseRoomsDiffer`: `ColoursDiffer` always holds, from the same invariant.
* `NamesTellApart`: the part of `RenderFaithful` about names, for any number of rooms of
  the types the app knows: `RoomName` numbers a type either by the robot or in order,
  and a user's name is none of those it makes up (`ToldApart`).
* `WidgetShowsOnePath`: `OnePath` always holds. The device keeps only the end of a path,
  and pushes, answers and the widget hold parts that it may have forgotten since; no
  invariant over the variables alone relates them. `PathInv` therefore says that there
  *is* a path for every trail there has been (`Ghost`), which goes up, ends with what
  the trail holds, and of which every push, every answer and the widget have a piece
  (`Piece`). A broadcast extends the last path (`AddExtends`), a reset begins another
  (`NextSession`), and a push that lines up joins two pieces (`PiecesJoin`).

`MapsAssumption` is about the robot, which is external: a map whose rooms share an id,
or whose cells have bits of no known meaning, is not one the app promises to show.

Only model-checked: the liveness properties (`EverySettles`, `Follows`,
`EveryFrameLeaves`, `ProbesEnd`, `CatchesUp` and those of `link`), since TLAPS has no
rules for fairness that its back ends could use here. Every other property of a
passing run, every invariant and every action property, is a theorem.

## Not modelled, and the plan

In order:

1. `Client`: link, commands and map requests in one chain with time, for the delays
   a command sees behind map requests (`NarwalClient.js:314`) and for a queued
   command that is reported done before it is sent (`609`).
2. Several devices on one app: the registry and one account shared by their sockets.
3. The device's availability and last error, which `_onConnected` and
   `_onDisconnected` write after the text, and what overlapping handlers leave, once the
   order of Homey's writes is known.

Left out for good: the JSON protocol and the mock robot (a development aid), the
layout of frames and maps field by field, textures and drawing, pages but for the
pairing dialog and the widget's path, flow card wiring, clean options (a table),
build scripts and translations.
