# Verification of macpony

macpony controls a Mac through Hammerspoon. A Lua server inside Hammerspoon
(`src/hammerspoon/macapi/`) listens on a Unix socket and speaks NDJSON with one
client; a typed asyncio client (`src/python-client/src/hammerspoon_macapi/`)
connects to it, calls methods and receives events. This directory holds TLA+
models of both sides, the TLC configurations that check them on small instances,
and proofs, checked by TLAPS, of theorems about them for every instance.

- [1. The system](#1-the-system)
- [2. The modules](#2-the-modules)
- [3. The runs](#3-the-runs)
- [4. Scheduling, fairness and the environment](#4-scheduling-fairness-and-the-environment)
- [5. Where code and documentation disagree](#5-where-code-and-documentation-disagree)
- [6. What is proved](#6-what-is-proved)
- [7. What is not modelled](#7-what-is-not-modelled)
- [8. Plan](#8-plan)
- [9. How to run it](#9-how-to-run-it)

Paths are relative to `src/`; `macapi/` stands for `hammerspoon/macapi/` and
`client/` for `python-client/src/hammerspoon_macapi/`.

## 1. The system

| Component | Source | State it keeps | Operations |
|---|---|---|---|
| Socket read loop | `macapi/server.lua` | listener, pending read tags, recovery tag and start time, tag counter, last connection count, input buffer, dropping flag | `read_next`, `callback`, `poll_connections` (a timer), `M.start`, `M.stop` |
| Event bus | `macapi/eventbus.lua` | sender, queue, sequence number, coalescing payloads and timers | `emit`, timer callback, `flush`, `init`, `client_disconnected`, `stop` |
| Subscription registry | `macapi/subscriptions.lua` | pattern -> include_data | `subscribe`, `unsubscribe`, `unsubscribe_all`, `matches`, `include_data` |
| Codec and dispatcher | `macapi/protocol.lua`, `macapi/dispatcher.lua` | none | `decode`, `encode`, `handle` |
| Watchers | `macapi/watchers.lua` | the Hammerspoon observers, the default audio devices, frame snapshots, flags | `M.start`, `M.stop`, one callback per observer |
| Services | `macapi/{system,apps,windows,screens,audio,clipboard,network,input}.lua`, `validators.lua`, `common.lua`, `state.lua` | none of their own (`system.status` reads the flags of `state.lua`, which the watchers set) | one function per RPC method |
| Transport | `client/connection.py` | state, reader, writer and reader task, pending futures, connected event, reconnect task, two locks | `connect`, `close`, `call`, the reader task, the reconnect loop |
| Record framing | `client/connection.py` `_iter_lines` | buffer, dropping flag | one pass per chunk |
| Event delivery | `client/namespaces/events.py` | queue, drop counter, handlers, handler tasks, closed flag | `on_event`, `__anext__`, `add_handler`, `remove_handler`, `close` |
| Subscription memory | `client/namespaces/events.py`, `client/client.py` | the remembered patterns | the four RPC methods `events.*`, `restore_subscriptions`, `_on_connected` |
| Facade | `client/client.py` | `capabilities` | `connect`, `call`, `close` |
| Namespaces, models, typed events | `client/namespaces/*.py`, `client/models.py`, `client/events.py` | none | one method per RPC method; the classes that results and events are validated by |

**Interaction.** A call of the client is registered in `_pending`, written under a
lock, read byte by byte by the server, decoded, dispatched to a service, and
answered; the one reader task of the client resolves the future with the answer's
id. A Hammerspoon observer calls `eventbus.emit`, which filters by the
subscriptions, coalesces or numbers and queues the event, and flushes the queue
through the server's `send`, which writes only while exactly one client is
connected. The reader task hands an event to `EventsClient.on_event`. When the
poll of the server sees the count of connections fall to zero it clears the event
bus. When the client's reader sees the end of the stream it fails the pending
calls and starts the reconnect loop, whose handshake asks for the capabilities and
replays the subscriptions.

**What is hard.** The Lua side runs callbacks to completion, but a read that was
queued on a socket cannot be cancelled, and its callback may come after its client
has gone and another has come: the tags, the recovery read and the poll exist for
that. Clients come and go between two polls. A flush may fail half way. Timers
outlive the client they were armed for. On the Python side `connect`, `close`,
every `call`, the reader and the reconnect loop are tasks that interleave at their
awaits, share attributes, and can be cancelled or time out at each. The two copies
of the subscriptions are reconciled by answers that can be lost.

**What makes each part correct**, in the terms of section 3: the read loop never
stalls for a client that is alone, splices no records and handles every acceptable
record once; the event bus keeps order, loses nothing but by overflow, and keeps
two clients apart; the transport has one reader, leaves no call waiting, closes for
good and comes back after a loss; framing yields exactly the records within the
bound; every request is answered once and for itself; events are accounted for and
every consumer is woken; both copies of the subscriptions agree once it is quiet; no
observer is left behind, and what the watchers tell adds up to the state of the Mac; the
results and events of the Lua side fit the Python classes, and a request that is
refused has done nothing; and a client of the server as a whole is sent only what is
its own.

## 2. The modules

| Module | Models | Runs |
|---|---|---|
| `RecordStream` | abstract: what a bounded NDJSON reader promises about one stream | refined by `ReadLoop` and `LineReader` |
| `ReadLoop` | the socket read loop of `server.lua` | `readloop_*` |
| `EventBus` | `eventbus.lua` with `subscriptions.lua` | `event_bus` |
| `Server` | `ReadLoop` and `EventBus` over the one listener of `server.lua` | `server` |
| `Requests` | one request through `protocol.lua`, `dispatcher.lua`, `send`, `protocol.py`, `_reader_loop`, `call` | `requests_all` |
| `Services` | the RPC methods of the Lua services, called through the Python namespaces, and the data of the events | `services` |
| `Contract` | the pydantic classes and tables of the Python client, for `Services` | `services` |
| `Observers` | abstract for `Watchers`: the audio device watchers and the clipboard callback | refined by `Watchers` |
| `Watchers` | the whole of `watchers.lua` | `watchers` |
| `Connection` | the tasks of `SocketConnection` | `connection_*` |
| `LineReader` | `_iter_lines` of `connection.py` | `line_reader_stream` |
| `EventsClient` | the event queue, consumers, callbacks and `close()` of `events.py` | `events_client` |
| `SubscriptionMemory` | client and server subscriptions and their replay | `memory_settled` |
| `MC<module>` | what TLC needs to instantiate a module: model values, streams, symmetry | |
| `<module>Proofs` | theorems about a module | |

Each module says in its header what a step is. In the Lua modules it is a whole
callback, timer or request, because Lua runs each to completion. In `Connection`
and `EventsClient` it is what one asyncio task does between two awaits. Variables
and operators carry the names of the source (`pendingReadTags` is
`pending_read_tags`, `Drop` is `_drop_transport` up to its first await);
`PROJECT.json` names the lines of each definition. A definition marked as a mutant
is a plausible mistake in the definition that follows it; no specification uses it.

**ReadLoop.** `read_next` is `ReadNext`, called with the values the locals have at
the call; `callback` is six actions, one per way through it; `poll_connections` is
`Poll`. `hs.socket` is the environment: a read is queued on every attached socket,
never cancelled, and delivers the next byte of its client, even after the client
has gone. Bytes carry their client, record and position, so that splicing, loss and
order can be stated; what they spell is abstracted away. The two-second age of a
read is one of "recent" and "aged". A read may be refused (`LastRefusable`) by its
tag number, which bounds the refusals. `Churn` says how clients come and go: as they
like, with every change seen by a poll before the next ("paced"), or one after the
other ("alone").

**RecordStream and LineReader.** `RecordStream` hands on the records that are no
longer than the limit, in order. `LineReader` describes the Python buffer by its
first and last position in the stream, which is what `bytearray` slicing keeps;
its instance is given by where the records end (`Ends`) and how much of the stream is
written (`Streamed`). Its definitions have names of their own (`InitLines`, `NextLines`,
`SpecLines`), so that one module can hold the proofs about the two models of
`connection.py`.
`ReadLoop` and `LineReader` each implement `RecordStream` under the mapping stated at
their end, which takes from each what it has handed on: the numbers of the records.

**EventBus.** `emit` chooses between `EmitCoalesced` and `EmitAtOnce`. `include_data`
depends on the order of `pairs`, which Lua leaves open, so any matching pattern may
decide. `Flush` says how far the loop may come: until a message cannot be encoded, the
link is not there, or a write raises. `armed` counts the timers that will fire, beside
`timerKey`, the module's belief about it. `link` stands for `connections() == 1`.
Two variables are history: `calm`, that one client has been connected since the last
flush, of which no write raised, and `log`, the requests of the client, from which
`DataAsAsked` reads, as the client would, what may be in force, without the module's
table.

**Server.** It extends `ReadLoop` and instantiates `EventBus`, whose `link` is what
`send()` asks of the read loop's listener (`Link`). Each action is one of the read loop
together with what it does to the bus: a complete record is a request that the bus
sees, or one that is answered with an error; the poll that finds no client left clears
the bus; connecting and disconnecting is told to neither. `to` records which client was
connected when a message was written, which nothing in the program does.

**Requests.** A record is described by what `decode` tells apart: is it a JSON
object, has it a usable id, what is the first flaw. `RawCall` are requests of other
programs, which may have any flaw; the Python client can only write the ones of
`CallRecord`. The method's end is one of seven. The last two that reach the client
as nothing are "unsendable" and "oversized".

**Services and Contract.** A handler is a list of checks in the order of the code,
each with the error code it refuses with, and then what the method does to the Mac and
what it returns. A request is described by what these checks tell apart: its identifier
is known, unknown, empty or of the wrong type; its value fits, is out of range, is empty,
or is of the wrong type. An empty string has the type `str` that the namespaces declare and
is refused by `validators.lua`. A JSON value is its shape and the names of its fields; a field that macOS
may leave out (`nil` in Lua) may be missing, also where its class requires it: the id of a
window (`common.lua:25`) and the name of an audio device (`audio.lua:13-14`). `Contract` has for each class of
`models.py` and `events.py` the fields it needs and allows, the result type of each
namespace method, and the tables of exceptions and events; a table that the code puts
together is the union of functions (`Merged`). Between two calls the application, its
window and the screens change (`Change`). Lengths are in tenths of a point, and those of
screens are whole points (`Points`), so that the halves and fifths that `windows.lua`
computes in floating point are whole numbers here.

**Observers and Watchers.** `Observers` has the watchers that rebuild themselves: the
default audio devices, whose callbacks must move with the defaults, and the clipboard
callback, which registers itself again; `M.start` may raise after any of its steps
(`Reach`), and so may a rebuild of the audio devices, in `M.start` or in a callback:
`audioDeviceUids` then claims devices that `audioDevices` does not record, and `attached`
may have one more, whose `watcherStart` raised (`failed`). `Watchers` extends it with the callbacks that compare what they see with
what they saw before: the frames of windows, from which `window.resized` is derived,
with their pruning; the set of screens; the power source; the flags of `state.lua`.
A notice reaches its callback some time after the change, and the callback reads what
is true by then. Every action of `Watchers` does to the variables of `Observers` what
`Observers` allows.

**Connection.** A transport is one opened socket with its reader, writer and reader
task; its name is also the id of the handshake request sent on it. `user` is the
application's `connect()`, `loop` the reconnect task, `closer` the task in
`close()`. The pc of each says which await it is in.

**EventsClient.** An event is its number of arrival. Several consumers share one queue.
`EveryEventAccounted` says of each that it is in one place (`OnePlace`) and that the drop
counter is the number of those lost.
`close()` is called by the application, by one of its own callbacks, or by the reader
of a connection that is lost when `auto_reconnect` is off; who closes matters, because
a callback that calls `close()` cancels itself and then waits for itself. `autoReconnect`
is chosen at the start, and the connection is only "connected" or not.

**SubscriptionMemory.** Requests and answers are in order, in both directions. The
handshake is two requests of its own. `Lose` cuts both directions; answers that had
been read by then are still acted on. `Noticed` says whether the server's poll sees
every loss: with FALSE a client may be replaced between two polls, and the server
keeps its registrations.

## 3. The runs

Most runs finish in about a minute, `services` and `watchers` in two or three. A passing run is
exhaustive for its instance.

| Run | Instance | What is asked |
|---|---|---|
| `readloop_paced` | three clients, overlapping, with the bound 2: one writes a record of 4 bytes, one of 2, one three of 1; two refusable reads | bookkeeping of reads coherent (`ReadBookkeeping`), no spliced record (`NoSplicedRecords`), one read per tag (`TagNamesOneRead`), a client left alone is drained (`SoleClientDrains`), and a survivor of others loses at most two records for each of them (`OverlapCost`) |
| `readloop_boundary` | one client, a record of 4 bytes with the bound 3 | violated: see section 5 |
| `event_bus` | a coalesced and an ordinary event, an exact and a wildcard pattern, two requests of each client that subscribe or unsubscribe, one batch with an invalid item, queue of 2, three numbers, two clients | the queue and what waits in it (`QueueKept`), order (`WireInOrder`), accounting (`NoSilentLoss`), timers (`OneTimerPerPayload`), isolation (`ServesOneClient`), events and data as the client's requests asked for them (`DataAsAsked`), progress (`CoalescedIsSent`) |
| `server` | two clients one after the other, each with a record at the bound of 2, one of 4 and one of 1; a coalesced and an ordinary event, one number, a queue of 1; one refusable read | each client is sent only its own events and answers (`OwnTraffic`); `RecordStream` implemented (`StreamRefined`) |
| `requests_all` | two calls and a raw request, every flaw and every end | answered once (`AnsweredOnce`), told its own outcome (`OutcomeIsOwn`), answered whenever an id can be found (`AnsweredIfPossible`) |
| `services` | every method and every kind of request, two screens, dangerous actions on or off, the marker of empty objects there or not, every event with and without its data and of a newer server | results fit the Python classes, exactly unless a window shown has no id or an audio device no name, and errors the documentation (`AnswersFit`), events reach their class, but for those of a window without an id, or `UnknownEvent` (`EventsFitTypes`), a refused request has done nothing (`RefusedDoesNothing`), a moved window is on its screen and in its place (`MovedOnScreen`) |
| `watchers` | two audio devices, two starts, partial ones included, one window of two sizes, two screens, two power sources, three changes | partial rebuilds included: no device left behind but one whose `watcherStart` raised (`NoDeviceLeft`), defaults watched unless the rebuild for them raised (`DefaultsWatched`), who follows the events knows the Mac (`ChangesTold`), no status flag without its condition (`StatusNeverOverstates`), clipboard callbacks end (`ClipboardEnds`), frames of closed windows go (`FramesPruned`) |
| `connection_safe` | two calls, two `connect()`, two sockets, flaky server, cancellation while waiting | registered ids have a live reader and a waiter (`PendingIsServed`), awaiting calls can be resolved (`AwaitingIsResolvable`) |
| `connection_live` | one call, two `connect()`, the second once the first has come to rest, two sockets, fair tasks, cancellation at any await | one reader (`OneReader`), close comes to rest (`CloseSettles`), calls end (`CallsEnd`), the connection comes back (`Reconnects`) |
| `line_reader_stream` | thirteen records of 1 to 9 bytes and the beginning of one that is too long, bound 3, chunks of 1 to 5 | `RecordStream` implemented, and nothing held back that is there (`StreamRefined`) |
| `events_client` | two consumers, one handler, queue of 2, three events, `auto_reconnect` on and off, `close()` by the application, a callback and the reader | accounting (`EveryEventAccounted`), order (`InOrder`), callbacks end (`CallbacksEnd`), consumers wake (`ConsumersWoken`) |
| `memory_settled` | two patterns, three calls of any method, two losses, timeouts | both copies agree when quiet (`MemoryIsServed`); confirmed calls stay in force (`ConfirmedHolds`) |

**The bounds and why they are enough.**

- *Clients* (`Client`, two or three): the hazards of the read loop need a departed
  client, its successor, and at most one that overlaps both.
- *Records*: `MixedRecords` and `ShortRecords` have a byte to splice before the newline,
  and the first a record to skip; `RequestRecords` has a record at the bound, one two
  over it, and one after it to be damaged, which can be a subscription. The stream of
  `line_reader_stream` puts records below, at, one above and far above the bound next to
  each other. `Chunk` = 5 exceeds the bound, so one chunk may hold a whole long record
  or several short ones.
- *`LastRefusable`*: refusals are taken early, where the state space branches; a
  refused read leaves the state of the next attempt, so two show both a refused
  ordinary and a refused recovery read.
- *`MaxQueueSize` = 2, `MaxSequence` = 3, `MaxClients` = 1*: three numbered events
  overflow a queue of two; one change of client is enough to leak from one to the
  next. `MaxRequests` = 2: a subscription and what replaces it or takes it away, in
  either order; it counts the requests that change subscriptions, and starts again with
  each client. In `server` each client has two complete records, so it cuts nothing off.
  A queue of one and one number are enough there for an event that is made for one
  client and written to the next; overflow is the business of `event_bus`.
- *Services*: the state is the Mac, so that every method meets every state of the
  application, the window and the screens. Two screens show a frame that is computed
  from the wrong one, one of them left of and below the other; one is wide enough for the
  bounds of "center" to cut (6 by 5 points in the instance, 1200 by 800 in the code;
  `MovesStayOnScreen` is for any). A list shows objects of one kind, which is what its class looks at; a nested
  frame is one field.
- *Watchers*: one window, since frames are kept by window; two values of everything
  that can change, and three changes, so that one may be missed, one be late and one
  follow. The values of each kind are alike, so `MCWatchers` starts from one choice of
  them (`InitFrom`): each behaviour has a twin, by renaming, that starts there.
- *`Transport`* (two): sockets are used again once every task has let go of them, so
  that any number of reconnects is covered; two at a time is what the reader of an
  old one and the opening of a new one need, and the number that `OneReader` is
  about.
- *`MaxConnects`, `MaxLosses`, `MaxStarts`, `MaxEvents`, `MaxChanges`*: environment
  steps that would make the state space infinite; each allows what the property is about
  once and its repetition once more.

**Symmetry** is declared only where the run checks invariants and the instance treats
the values alike: calls and transports, patterns and calls, the two Python calls.

**Deadlock** is not checked where the system may really stop: every client may have
gone, every call may have ended. `event_bus` and `services` check it.

## 4. Scheduling, fairness and the environment

**Connection's scheduling.** asyncio runs a ready task before one that needs another
turn of the selector. The model keeps of this what excludes behaviours no event loop
shows: waits that end with an event of the operating system come after tasks that are
ready (`Turn`), a drop of an earlier transport is over before the answer on a newly
opened socket is read (`EarlierDropsOver`: opening and handshake take five turns, a drop
at most four), and a delay of the reconnect loop, 0.1 s at least, outlasts a drop: it
ends only when no drop is under way (`Delay`, `NoDrop`). All other orders are left open.
Without these assumptions some violations would be artefacts of the model.

**Parameters of the environment.** Some properties hold only under a restricted
environment; the unrestricted one is then a disagreement of section 5 or is named
here.

- `Churn = "paced"` for `SoleClientDrains`, `NoSplicedRecords` and `OverlapCost`; `"alone"`
  for `OwnTraffic` and the refinement, and for `ReadsBounded`, which is only proved. The
  poll runs at a fixed interval; what clients do between two polls is section 5's
  concern.
- `ConnectAlone` for `OneReader` and `Reconnects`: the application does not call
  `connect()` while the reconnect loop runs, nor while a task still drops a transport
  (`NoDrop`). The second half is needed because it is the drop, when it is over, that
  starts the loop: a `connect()` that comes in between meets the loop all the same
  (section 5, `ConnectionReaders`).
- `Cancels = "waiting"` for `PendingIsServed`: a call is cancelled only while it
  awaits its response. With one call, cancellation at any await is in
  `connection_live`.
- `Flaky = FALSE` for liveness: a server that is up answers before the timeout.
- `Eager = FALSE` for the subscriptions: the application waits until it is connected
  again before it calls.
- `AlwaysOutput` for `DefaultsWatched`: there is always a default output device.
  (`PromptStarts` is TRUE: a start may come so soon after a stop that the old clipboard
  callback has not run.)
- `OneSpace` for `ChangesTold` and `FramesPruned`: `allWindows()` returns every window.
  `WindowsListed = FALSE`: the client learns a window's size from its first event.

**Fairness.** Only what the runtime provides. `ReadLoop`: the accept timer repeats
and so the poll runs; time passes; a client that stays attached delivers what it
writes. `EventBus`: an armed timer fires. `Connection`: each task that can run does,
a server that is up answers what was written; nothing obliges the server to be up,
and `Reconnects` assumes `<>[]up` in its premise. `EventsClient`: cancelled callbacks
end (one that swallows its cancellation for ever blocks `close()`, which awaits each),
woken consumers run, the reader of a lost connection comes to its `close()`, and a
`close()` goes on or raises when all it waits for has ended; nothing ends a callback
that is not cancelled. `Watchers`: the clipboard callback runs, a notice of a window is
delivered, and the pruner, a timer of five minutes, runs and sees all windows again and
again. No client's or application's action is fair. `Server`, `Requests`, `Services`,
`LineReader` and `SubscriptionMemory` have safety properties only.

## 5. Where code and documentation disagree

One run exhibits a disagreement:

| Run | Property | Source | What happens | What is said |
|---|---|---|---|---|
| `readloop_boundary` | `StreamRefined` | `macapi/server.lua:132` | if the byte that exceeds the bound is the newline itself, `dropping_oversized_line` is set after that newline was consumed, and the whole next record is discarded | comment at `server.lua:100-101`: "discard oversized records through their newline" |

The same properties, or ones stated only for this purpose, are violated under the
configurations below, in seconds. They are kept for reproduction; the passing runs
use the environment in which the code does what it says. Where a configuration has
several invariants, `tlc -continue` shows all that are violated.

| Configuration (module) | Property | Source | What happens |
|---|---|---|---|
| `ReadLoopReplaced` (`MCReadLoop`) | `SoleClientDrains` | `server.lua:160` | an idle client holds a recovery read; if it is replaced between two polls, no further read is ever issued for its successor. `docs/architecture.md:36-38` promises the handoff |
| `ReadLoopChurn` (`MCReadLoop`) | `NoSplicedRecords` | `server.lua:156` | a client replaced between two polls leaves the beginning of its record in `input_buffer`. `docs/memory-and-leak-prevention.md:48-50` |
| | `ReadsBounded` | `server.lua:171` | each change of the count forgets a read that stays queued on the surviving socket; they pile up. `docs/memory-and-leak-prevention.md:33-37` |
| | `TagNamesOneRead` | `server.lua:202` | `M.start` counts tags from zero again, so a late read of the old listener passes for a new one. Comment at `server.lua:179-180` |
| `ServerTakeover` (`MCServer`) | `OwnTraffic` | `server.lua:178` | only a count of zero clears the bus: a client that attaches beside the subscribed one, and outlives it, gets the events that the other had asked for. `docs/architecture.md:28-29`: "a client disconnect clears client-specific event subscriptions, timers, and queued events" |
| `ConnectionAgain` (`MCConnection`) | `Reconnects` | `connection.py:116` | a `connect()` that fails while the reconnect loop is between attempts sets DISCONNECTED, in which `call()` refuses every later handshake of the loop. `docs/python-sdk.md:71-72` |
| `ConnectionCancelled` (`MCConnection`) | `PendingHasWaiter` | `connection.py:192` | a call cancelled while it waits for the write lock or drains leaves its entry in `_pending`. Docstring at `connection.py:167-168` |
| `ConnectionStates` (`MCConnection`) | `ReconnectingIsRetrying` | `connection.py:311` | `close()` runs to its end while the reader drops the transport, which then sets RECONNECTING for good. `docs/architecture.md:88` |
| | `EventMeansConnected` | `connection.py:313` | answer and end of stream read together: CONNECTED, then RECONNECTING with the connected event still set. Docstring at `connection.py:133` |
| `ConnectionReaders` (`MCConnection`) | `OneReader` | `connection.py:327` | `connect()` succeeds while the loop waits for the lock; the loop connects again over it. The loop may have been there before, or be started meanwhile: `connect()` fails because the stream ends during its handshake, the application calls it again before the reader has closed the old writer, and the reader then starts the loop. `docs/protocol.md:130` |
| `EventsClientSelf` (`MCEventsClient`) | `ClosingWakes` | `namespaces/events.py:87` | `close()` called by a callback cancels and awaits its own task; while other callbacks run it can end in a RuntimeError before the iterators are woken, and a later `close()` returns at once. `docs/events.md:68` |
| `MemoryForgotten` (`MCSubscriptionMemory`) | `SubscribedIsServed` | `events.py:148` | a `subscribe` or `get_subscriptions` during the handshake overwrites the memory with the server's list before the replay; lost again, the older subscriptions are gone. `docs/python-sdk.md:71-73` |
| `MemoryReplayed` (`MCSubscriptionMemory`) | `UnsubscribedIsOff` | `events.py:157` | an `unsubscribe` during the handshake is undone by the replay. Docstring at `events.py:125` |
| `WatchersDocs` (`MCWatchers`) | `DefaultsWatched` | `watchers.lua:192` | without an output device `ipairs` ends at the first nil and the input device is not watched. `docs/memory-and-leak-prevention.md:21-24` |
| | `DevicesReleased` | `watchers.lua:215` | a device is recorded after `watcherStart`; if that raises, the callback is set on a device that neither a rebuild nor `M.stop` clears, while the uids keep the next refresh from trying again. `docs/memory-and-leak-prevention.md:28-30` |
| | `OneClipboardCallback` | `watchers.lua:250` | stop and start before the callback has run leave two clipboard callbacks. `docs/memory-and-leak-prevention.md:28-33` |
| | `ChangesTold` | `watchers.lua:97` | the first movement of a window has no frame to compare with, so its resize is told as a move; a client that had the size from `windows.list` keeps the old one. `docs/memory-and-leak-prevention.md:15-16` (with `OneSpace = FALSE`, pruning does the same to windows of other Spaces) |
| | `StatusIsTracked` | `watchers.lua:235` | what happens between a stop and a start is not tracked. `docs/api-reference.md:23`: "Tracked lock/sleep state" |
| `ServicesDocs` (`MCServices`) | `ScreenshotOfRequested` | `screens.lua:59` | an identifier of a screen that is not attached captures the main screen. `docs/api-reference.md:70` lists SCREEN_NOT_FOUND |
| | `ResultsAccepted` | `common.lua:25`, `audio.lua:13` | `window:id()` and `name()` are passed on as they are; where one is nil the call succeeds on the server and ends in a ProtocolError. `docs/api-reference.md:48,49,81` list no errors of `windows.list`, `windows.focused` and `audio.get` |
| | `KnownEventsTyped` | `client/events.py:395` | events delivered without their data, or of a window without an id, become `UnknownEvent` where the data class has a required field. `docs/events.md:43-44` |
| `LineReaderBuffer` (`MCLineReader`) | `BufferBounded` | `connection.py:291` | while a long record is skipped the buffer is neither cleared nor bounded. `docs/memory-and-leak-prevention.md:4-5` |
| `RequestsLimit` (`MCRequests`) | `RecordsLimited` | `server.lua:60` | `send()` does not look at the length of what it writes; the client skips the record and the call times out. `docs/protocol.md:14` |

Read only: `docs/api-reference.md` says that all input methods are disabled by default;
`macapi/config.lua` enables dangerous actions.

## 6. What is proved

Every theorem holds for all values of the constants that satisfy the assumptions
named in the module, and those stated in the theorem; `tlapm` checks each proof to its
leaves. Each rests on an inductive invariant, since what the properties say is seldom
inductive as it stands.

**ServerProofs**, about `ReadLoop` and `Server`. `ReadLoopTyped` (`TypeOK`) and
`BookkeepingCoherent` (`ReadBookkeeping`), for any clients, records, churn and number of
starts. The inductive invariant is `BookTypeOK /\ ReadBookkeeping`: the four parts of
`ReadBookkeeping` need each other (that the start time is set exactly while a read is
pending needs that the recovery tag is pending, or retiring the recovery read, which
forgets every tag, could leave a start time behind) and need that a fresh tag is a
number and not nil. Two lemmas carry the weight: `ReadNextKeepsCoherent`, that
`read_next` keeps coherent whatever coherent values it is called with, and
`RetireKeepsCoherent`, that retiring a tag in `callback` leaves such values.
`TagsNameOneRead` (`TagNamesOneRead`) is proved for one start of the server
(`MaxStarts <= 1`; the model checker shows that a second start breaks it, section 5);
it strengthens to "tags in the queues are distinct between positions and at most
`nextReadTag`", and uses that reads are issued only while exactly one client is
attached. `ServerComposes` says that the server implements its two parts,
`ServerSpec => Spec /\ Bus!Spec`: each step is one of the read loop, or leaves it alone,
and one of the bus, or leaves it alone, with `link` always what `send()` finds. What is
proved of either part therefore holds in the server, that of the read loop by a theorem
of its own where it matters (`ServerReadsCoherently`), that of the bus with `Link` for
`link`.
`RecordsAreNotSpliced` (`NoSplicedRecords`) is proved for one start and clients whose
changes the poll sees, paced or alone (`Churn # "any"`). `SoloInv` says that the buffer
is empty while the poll's count is not one, and that while it is one, and its client the
only one there, tracked reads are on the socket of that client, and the buffer holds
bytes of it in order, all before the next that its socket will deliver: a byte of
another client, or one out of order, could only come from a read whose tag is still
tracked.
`ReadLoopRefinesStream` and `ServerRefinesStream` (`StreamRefined`) say that the read
loop, and the server around it, implement `RecordStream` for each client, for any
records, under `Churn = "alone"`, one start and `NoneJustTooLong`: no record is longer
than the bound by exactly its newline. That is the disagreement `readloop_boundary`
shows, so the theorem has to exclude it, and it excludes nothing else. `FrameInv` adds
to `SoloInv` where the client is in its stream: the buffer is what has been read of the
record at the cursor, or that record is too long and being skipped, and every record
between the last one handled and the cursor is too long. `ServerReadsBounded`
(`ReadsBounded`, at most two reads on a socket) follows from the same invariant: each
read on the socket of a client that is alone is the pending or the recovery one. It is
the bound of the documentation for a lone client; under churn it fails (section 5), and
`OverlapCost` says what that costs the surviving client.
`TrafficIsOwn` (`OwnTraffic`) is proved for clients that come one after the other
(`Churn = "alone"`, one start). It needs an argument across both modules, which no
invariant of one of them gives: there is always at most one client, the owner, such
that only it is attached, every read whose tag is tracked is on its socket
(`ReadsOnly`, which needs that tags are distinct), and all that is subscribed, queued or
pending is what it asked for (`Serves`); and while the poll's count is not one the bus is
idle, so that the owner may change only then. `FlushOwned` carries the weight: whoever
causes a flush, what it writes goes to the owner.

**EventBusProofs.** `BusTyped` (`TypeOK`), `QueueStaysKept` (`QueueKept`),
`WireStaysInOrder` (`WireInOrder`), `TimersMatchPayloads` (`OneTimerPerPayload`),
`ClientsKeptApart` (`ServesOneClient`), `DataOnlyAsAsked` (`DataAsAsked`) and
`LossIsByOverflow` (`NoSilentLoss`), for any events, patterns, payloads, batches and
queue size: every safety property of the run. `BusInv` joins the types with what holds
of the queue (`QueueOK`: bounded, gapless, for the present client), of the
wire (`WireOK`), and of payloads and timers (`PendingOK`: a payload waits exactly while
its key is set and one timer is armed, so that stopping the timers of the table stops
all). One lemma, that a flush from any good queue leaves a good queue and wire
(`NumberedKeeps` after `SplitAt`), serves every caller. `DataOnlyAsAsked` has an
invariant of its own, `AskInv`: every subscription in the table is one that the requests
may have left in force, from the client's side of the protocol, and every payload in
`pending`, `queue` and `wire` was asked for by the requests before it. Its lemmas say
what a batch does that is accepted or refused half way (`AppliedPrefix`,
`SubscribeSets`, `UnsubscribeLeaves`), and that later requests do not change what was in
force before (`InForceStays`, `InForceLeft`, `InForceSet`).

**EventsClientProofs.** `EventsTyped`, `EventsStayInOrder` (`InOrder`),
`EventsAreAccounted` (`AllAccounted`: each event that came is queued, taken, lost or
ignored), `EachEventOnce` (`EveryEventAccounted`: it is so once, by one consumer, and
the drop counter tells how many are lost) and `CallbacksAreEnded` (`CallbacksEnd`), for
any consumers, handlers and queue size. `EventsInv` adds that the queue is sorted with
the marker only in a closed one, that events are ignored only once closed, and
`ClosingInv`, which says whom `close()` still knows of: after its first step every
callback is cancelled or is the one that closes, and while it waits every callback left
is one it waits for or itself. `PlacesInv` adds for `EachEventOnce` that no two
deliveries are of the same event; what is queued is apart from the rest because it is
newer than all that was taken or dropped (`QueuedApart`).

**ConnectionProofs.** `ConnTyped` (`TypeOK`, whatever is cancelled), and, for calls that
are cancelled only while they await their response, or never, `PendingStaysServed`
(`PendingIsServed`) and `AwaitingStaysResolvable` (`AwaitingIsResolvable`). `ReadInv`
says that the present transport has a reader that reads; that what is registered is on
a transport that is read; and of each call where its entry and its future are in each of
its phases. For any calls, sockets and number of `connect()`, in any interleaving of
`connect`, `close`, the reconnect loop, the readers and the calls.
`OneReaderTask` (`OneReader`) holds under `ConnectAlone`, whatever is cancelled and
however often the connection is lost. That two transports are never read at once is not
a question of the lock alone, since `_drop_transport` runs without it. `OneReaderInv`
says that only the transport in use is open, read and registered (`TransportOwned`); that
who opens a socket holds the lock and finds no transport (`LockHeld`); that a handshake
whose transport is gone knows of it, and that whoever dropped it is still at it
(`Negotiates`); that nothing is being lost and no loop can start while `connect()` is
under way (`NothingComes`); that a transport in use has state CONNECTED and nobody about
to connect again (`InUse`); and that a reader or call that ends the client does so after
`close()` has begun (`ClosingSeen`).

About `LineReader`, in the same module: `LinesTyped` and `LinesRefineStream`
(`StreamRefined`), for any stream, bound and size of chunks: `_iter_lines` yields exactly
the records within the bound, whole and in order, and awaits more only when every complete
record in the buffer is cut. The invariant names a record `i` such that the buffer begins at its end, or inside
the next one, which is then too long and being dropped; all records up to `i` that are
within the bound have been yielded. The mapping picks records by the ends of the yielded
lines and needs no induction, since a step yields one record at most (`LineStep`).

**WatchersProofs**, about `Observers` and `Watchers`. `ObserversTyped` and `NoDeviceIsLeft`
(`NoDeviceLeft`) rest on `DevicesOK`: `RebuildKeeps` says that a rebuild, also one that
raises half way, takes the callback from all recorded devices before it records others,
that it records none whose uid it has not set down, and all of them unless it raises.
`DefaultsAreWatched` (`DefaultsWatched`) holds if there is always an output device
(`AlwaysOutput`): the uids are then those of the defaults unless a notice of a change is
on its way, and what is recorded and attached are the devices of the uids unless the
rebuild raised. `WatchersObserve` is the
refinement: the whole of `watchers.lua` implements `Observers`, so that
`NoDeviceStaysAttached` and `DefaultDevicesWatched` follow.
`WatchersTyped`, `StatusIsNoOverstatement` (`StatusNeverOverstates`) and, with one Space
and sizes learned from events, `ChangesAreTold` (`ChangesTold`) rest on `WatchersInv`:
the types; that without the session watcher only the screen saver's flag can be up
(`StatusInv`); and that the frame kept, if any, is the size told, and the size of the
window unless a notice of it is on its way, likewise for screens and power source
(`FollowInv`).

**RequestsProofs.** `RequestsTyped`, `OneAnswer` (`AnsweredOnce`), `OutcomesAreOwn`
(`OutcomeIsOwn`) and `AnsweredWherePossible` (`AnsweredIfPossible`). The invariant
`AnswerInv` says where a request is: a request that is not written has neither end nor
reply; one on the wire is there once, its method has not run and there is no reply to
it; one with a reply has a single one, which says how its own method ended, and has no
outcome but a timeout. `OutcomeIsOwn` is part of it, since
an outcome comes from a reply that is consumed. The counting form of `AnsweredOnce`
follows from it by cardinalities of at most one. For `AnsweredWherePossible`,
`WaitsForSomething` says that what a call waits for is still under way, as request or as
reply, or has a reason not to come (`Excused`); each step that takes one from the wire
either puts the other there or is such a reason.

**SubscriptionMemoryProofs.** `MemoryTyped` (`TypeOK`, which says that handshake
requests are under way only in their phase) and `HandshakeOnce`: capability request
and replay, with their answers, are under way once at most. The invariant adds to
`TypeOK` that an answer of the handshake is late only while the link is down and that
the application's requests are never capability requests, without which an answer
could have no effect on the memory that is defined. `ConfirmedStaysInForce`
(`ConfirmedHolds`) and `MemoryStaysServed` (`MemoryIsServed`) are about both copies of
the subscriptions, over any number of losses, replays, late and missing answers, if the
application waits for the connection before it calls (`~Eager`; section 5 shows what
happens if not). `ServedInv` argues for each pattern from the last call about it: nothing
that was sent later mentions the pattern (`OnWire`), so nothing can overtake that call;
once it is answered, every list of the server that is on its way to the client agrees
with it (`IsAnswered`); once it has ended, memory, replay and registry agree with it
(`On`, `Off`), but for the time between a loss and the replay, when the registry is empty
and the memory is what the replay will send.

**ServicesProofs.** `AnswersAlwaysFit` (`AnswersFit`), `EventsAlwaysFit`
(`EventsFitTypes`), `RefusalsDoNothing` (`RefusedDoesNothing`) and `MovesStayOnScreen`
(`MovedOnScreen`), for any set of screens of any size at any place, with or without
dangerous actions and the marker of empty objects. The steps do not build on each other:
the invariant is the four properties and that the Mac is one (`Macs`, which the screens
of a move need); what is to be proved is about each step. `Fits` says it of one outcome
of one request: the result is of the type declared and has no field that would be lost,
or the refusal is documented and has done nothing. `CheckedFits` carries the weight: a
handler fits if each of its checks refuses with a code the method may refuse with
(`MayFail`), and what it does after them fits. So there is one lemma per handler, each
from what its namespace declares (`TablesOfClients`: no two namespaces name the same
method) and which fields its class needs and allows: `Describes` says that the class accepts an
object exactly unless what it shows has no name (`Nameless`: a window listed or focused
without an id, an audio device without a name). That arguments of the declared types are
INVALID_PARAMS only where a string is empty comes from what the client can send
(`Sendable`).
For the events `EventDataFits` compares the data of each name with its class, where an
event of a window has the window's id, and
`DataArrives` says that an empty object arrives as one however it is written. For
`MovedOnScreen`, `MovePlaces` says that a move that succeeds has passed every check, so
that its position is one of the ten, and `FrameInPosition` is the arithmetic of
`position_frame`. It assumes that the frames of screens are of whole points
(`ScreenAssumption`) and that no error code is the value for "no error"
(`NoneAssumption`). The proof also found that two CASE expressions of the model had
guards that overlap, which TLC reads in order and TLA+ does not; they are disjoint now.

The type invariants of these modules are proved and therefore not repeated in runs.

**Only model-checked.**

- The liveness properties `SoleClientDrains`, `CoalescedIsSent`, `CloseSettles`,
  `CallsEnd`, `Reconnects`, `ConsumersWoken`, `ClipboardEnds` and `FramesPruned`: they
  rest on fairness, hence on ENABLED, which the prover does not treat. Every other
  property of a passing run is stated by a theorem.
- What a property needs of its environment is a hypothesis of its theorem as it is a
  constant of its run; where it fails without, section 5 has the configuration.

## 7. What is not modelled

- Contents: titles, addresses, image bytes, the text of the clipboard; whether a message
  can be encoded, is too long, or has which flaw is a value. What pydantic does to a
  value of a right field (coercion, literal strings, ranges of models) is abstracted to
  "has the type wanted or not".
- `capabilities()` of the Lua side beyond its fields, `protocol.ping`, and the private
  marker by which `encode` writes `{}`; `Services` has both cases of the marker.
- `dofile` of `hammerspoon/init.lua`, the paths and environment variables of
  `config.lua`, and the shell scripts: each runs once, before anything else.
- The callbacks of `watchers.lua` that keep nothing (applications, focus and title of
  windows, Wi-Fi): they emit what they are given. Their data are in `Services`.
- In `network.get` which interface or address is reported.
- Python callbacks that raise out of `on_event`: `events.py` catches what a handler
  raises; `on_event` itself is trusted not to.
- In `Connection` one request stands for the two of a handshake (`SubscriptionMemory` has
  both), and a socket is closed in the step that cancels its reader, where the code first
  awaits the reader.
- The Python client as a whole: `Connection`, `EventsClient` and `SubscriptionMemory`
  meet at three calls (`on_event`, `on_connected`, `on_disconnected`), each of which is
  in the two modules that share it, but no module composes the three.

## 8. Plan

Done:

1. `ReadLoop` with `RecordStream`, the part with the most delicate bookkeeping.
2. `EventBus` with the subscription registry.
3. `Connection`.
4. `EventsClient`, `SubscriptionMemory`, `LineReader`, `Requests`, `Observers`.
5. `Services` with `Contract`: every RPC method and event, against the Python classes.
6. `Watchers`, which implements `Observers`.
7. `Server`: `ReadLoop` composed with `EventBus`, and who receives what is sent.
8. Proofs for every module: each safety property, and each action property and
   refinement, that a passing run checks is stated by a theorem.

Left:

9. `Client`: `Connection` with `EventsClient` and `SubscriptionMemory`, with the order
   in which `close()` ends the reader, the callbacks and the consumers.
10. Proofs about that composition, from the theorems of its parts, as `ServerComposes`
    does for the server. `tlapm` does not use a temporal theorem through an INSTANCE, so
    what is proved of `EventBus` holds in `Server` by substituting `Link` for `link`, but
    is not restated there.

## 9. How to run it

    tlc -workers 2 -config EventBusAll.cfg MCEventBus.tla
    tlapm ServerProofs.tla

`PROJECT.json` lists each run with its module, configuration and properties, for each
property a mutant of the code that violates it, the source lines of each definition,
and the hazards the properties are about.
