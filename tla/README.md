# mender-connect: a TLA+ model of the daemon

mender-connect runs on a device beside the Mender client. It keeps one
websocket to the server open while the device is authorized, and serves remote
shells, file transfers, port forwarding and Mender client commands over it.

## Inventory

| component | state | operations | hard behaviour | what makes it correct |
|---|---|---|---|---|
| connection loops (`app/daemon.go`) | `authorized`, `serverJwt`, `serverUrl`, three channels, locals of three goroutines | `messageLoop`, `dbusEventLoop`, `eventLoop` | rendezvous channels, stale replies, requests that coincide with signals | nobody waits for a reply that will not come; an authorized daemon ends up connected |
| connection manager (`connectionmanager/`) | `handlersByType`, `reconnecting`, `cancelReconnectChan`, backoff attempts | `Reconnect`, `connect`, `Read`, `Write`, `Close`, `CancelReconnection` | a mutex held through a backoff and a dial; a cancellation that times out | a closed connection is always replaced; no open connection without authorization |
| websocket (`connection/`) | the socket, its deadlines | `NewConnection`, `ReadMessage`, `WriteMessage`, `Close`, ping-pong | peer dies, deadline passes, local close during a read | a dead peer is noticed |
| D-Bus and auth client (`client/`) | one-slot channel per signal | `HandleSignal`, `WaitForSignal`, `GetJWTToken` | a signal is dropped when the slot is taken | the last state of the client is learnt |
| shell session registry (`session/shell.go`, `app/daemon_shell.go`) | two maps, `status`, `stop` and `pong` channels of each session, `shellsSpawned` | spawn, stop by id, stop by user, pong, terminate all, terminate expired, healthcheck | stopping takes seconds outside the mutex; deletion by id; unsynchronised counter | the maps agree; each user's limit holds; shells can be found and are watched; the count is that of the shells |
| shell processes (`shell/`, `procps/`) | processes, terminal | `ExecuteShell`, `TerminateAndWait`, output pipe | a process that does not die; two waiters | a stopped shell is reaped |
| backoff (`connectionmanager/exponentialbackoff.go`) | `attempts`, `interval` | `WaitForBackoff`, `resetBackoff` | shift overflow | the interval stays within its bounds |
| session router (`session/router.go`, `session/session.go`) | map of sessions; handlers, idle flag and timer of each | `RouteMessage`, `ListenAndServe`, `HandleControl` | handoff to a session that is ending; idle timeout racing a message | a message is accepted once, or refused because its session has ended; handlers are closed |
| port forwarding (`session/portforward.go`) | map of forwarders; `closed`, context, acknowledgement mutex of each | new, stop, forward, ack, reader goroutine, close | two goroutines close; waiting for an acknowledgement that cannot come | one message in flight; no reader is left behind |
| file transfer (`session/filetransfer.go`) | handler mutex, message channel, offsets, temporary file | put, get, stat, chunk, ack, error, close | sliding windows on both sides, abort at any step, sessions that share a file | the file is replaced whole or not at all; a download is one version of it; nobody waits for ever |
| transfer limits (`limits/filetransfer/`) | byte counters and their averages | permits, counters, owner and mode | a limit reached in the middle of a transfer; checks that are stale at commit | a refused or cut transfer leaves nothing behind |
| Mender client commands, configuration, command line, utilities | none that changes while the daemon runs | | | |

How the parts interact: the loops of `app/daemon.go` share the connection
through `connectionmanager`, which dials after a backoff; messages that
`messageLoop` reads go to the shell registry or through the router to a session
and its handlers, both in `messageLoop`'s own goroutine; D-Bus signals and the
expiry of sessions reach the shell registry from two more goroutines.

## Modules

| module | models | properties it carries | proofs |
|---|---|---|---|
| `ConnectionLoops` | the three loops, connection manager, websocket, D-Bus signal channel | safety and liveness of the connection | `ConnectionLoopsProofs` |
| `ShellSessions` | shell registry, its four kinds of users, the shell count | registry consistency, the limit of each user, responsiveness | `ShellSessionsProofs` |
| `RouterSession` | router, sessions, idle timer, handler lifetimes | one session per id, handlers closed first, progress | `RouterSessionProofs` |
| `PortForward` | port forwarding handler and its goroutines | one in flight, no lost connection, no lock without a message due, progress | `PortForwardProofs` |
| `ForwardedConnections` | abstract: what port forwarding promises to a client that uses each id once | implemented by `PortForward` | `PortForwardProofs` |
| `SessionService` | abstract: what router and sessions promise to `messageLoop` | implemented by `RouterSession` | `RouterSessionProofs` |
| `FileTransfer` | file transfer handlers, their goroutines, the limits, a client | the file, the temporary file, downloads, windows, limits, progress | `FileTransferProofs`, and on top of it `FileDownloadProofs`, `FileLimitsProofs` and `FileAnswerProofs` |
| `SessionRegistry` | abstract: the shell registry as one table | implemented by `ShellSessions` | `ShellSessionsProofs` |
| `AtomicFile` | abstract: what uploads may do to a file | implemented by `FileTransfer` | `FileTransferProofs` |
| `Backoff` | the pause between reconnects, in 64-bit arithmetic | monotonicity of the pause | none |

Each `MC` module instantiates one of them and adds the symmetry sets or constant
values that its configurations use. Definitions whose comment begins with
"Mutant" are wrong variants of the action after them: each one makes a property
fail, which shows that the property depends on that part of the code.

### ConnectionLoops

`pc` says where each of `messageLoop`, `dbusEventLoop` and `eventLoop` is. The
unbuffered channels `reconnectChan` and `eventChan` are rendezvous: sending and
receiving are one step (`ReconnectRequest`, `DrainRequest`, `PostEvent`). The
buffered ones are sequences of length at most one. `MutexFree` stands for
`handlersByTypeMutex`, which `Reconnect` holds through backoff and dial, so that
`Read` and `Close` wait for it. `CloseCheck`, `CancelDone`, `CancelGiveUp` and
`CloseLocked` are the steps of `connectionmanager.Close`, run by either
`messageLoop` or `dbusEventLoop`.

Abstractions. A credential is the pair of JWT and server URL, and `NoToken` a
pair with an empty half. A connection is open, dead (reads fail), or closed by
us after either. Time is left out: a timeout may pass whenever the code waits.
The goroutine that `CancelReconnection` starts is assumed to reach its send
while `CancelReconnection` still waits. The seconds that `TerminateAll` takes
inside `processJwtTokenStateChange` are part of `ProcessSignal`. `StopDaemon`
only cuts a behaviour short.

### ShellSessions

Every actor has a program counter and a record of its local variables. What the
code does under `sessionsMutex` is one step; everything it does between two
holds of the mutex (testing the status, closing `stop`, signalling, waiting for
the process) is a step of its own, so that any other actor may come between.
`SpawnNew`, `SpawnAgain`, `StartShell`, `CountSpawn` are
`routeMessageSpawnShell`; `StopById`, `StopByUserId`, `GiveUpOne`, `StoppedOne`,
`CountStop` and `CheckStopped` are `routeMessageStopShell`; `TerminateAll` and
`TerminateExpired` start a batch that `StopNext`, `StoppedMany` and `Delete` carry
on; `Healthcheck` is a session's own goroutine.

`shellsSpawned` is an unsigned integer that `messageLoop` reads and writes without
a mutex, while `DecreaseSpawnedShellsCount` (`Decrease`, `Compare`, `Subtract`)
has a mutex of its own, which only the two terminating loops and one branch of
`messageLoop` take. Every read of it is a step, and so is the write that ends
each change (`StoreCount`); the value on its way from one to the other is
`job.cnt`. Its arithmetic is modulo `MaxUint + 1` (`Wrap`). So what is read may be
stale when it is tested or written: `routeMessageStopShell` may find the count
above zero (`StoppedOne`, line 177 of `app/daemon_shell.go`), a termination then
set it to zero, and `shellsSpawned--` (`CountStop`, line 180) take it to the
largest `uint`. From there every new shell is refused: later stops only subtract
from it. The model has these behaviours and no property excludes them:
nothing holds of the count but that it is a `uint`.

Abstractions. The lists of sessions per user are sets. `ShellCommand` and
`ResizeShell` change no modelled state. The lookup of a session and the look at
its status are one step. In `StopShell` the closing of `stop`, the setting of the
status, `FindProcess`, `Signal` and the pid that is handed to `TerminateAndWait`
are one step. A process that survives `TerminateAndWait`'s patience stays in
`alive`. Refused messages change nothing and have no action.

`SessionRegistry` is the abstract specification: which session an id has, and
the user of each session. `IsSessionRegistry` is the refinement, with
`sessionsMap` and `s.userId` for the two; `sessionsByUserIdMap`, shells, stops and
healthchecks are hidden. It says nothing of *which* sessions may be removed:
deletion by id removes what has the id by then.

### RouterSession

`phase` is where `ListenAndServe` of a session is, from `RouteNew` to `Delete`.
`Handoff` is the rendezvous on `msgChan`, `HandoffRefused` the other case of the
router's select. `timer` is what `timerPing` is armed with and `tick` its
channel: `go.mod` asks for Go 1.22, whose `Reset` leaves a tick in the channel.
`handlers` is the sequence of open handlers, closed last first. Control messages
are reduced to the outcomes of `HandleControl`. Handlers are opaque.
`messageLoop` is the only caller of `RouteMessage`, so `LoadOrStore` never finds
another caller's session, and nothing closes `msgChan`: both branches are left
out.

`SessionService` is the abstract specification: the ids of live sessions, the
ids that serve a message, the id a message is pending for. `IsSessionService` is
the refinement: a session is live from its creation until it closes `done`, and
everything about maps, timers, pings and handlers is hidden.

### PortForward

`sess` is the session goroutine inside the handler, `reader[f]` and `inner[f]`
the two goroutines of a forwarder. `CloseSet`, `CloseConn` and `CloseDelete` are
`MenderPortForwarder.Close`, run by the session or by the reader; the test of
`closed` is part of the step that calls it. `Acks` selects the protocol version.
`FreshIds` is an assumption about the client: it uses every connection id once.
The code does not ask for it; the runs with `FreshIds = FALSE` show what depends
on it. `MapFault` is the outcome that Go's runtime gives to goroutines that meet
in the map: it may end the process. `inflight` counts the messages that the
client has to acknowledge; it acknowledges each at most once.

`ForwardedConnections` is the abstract specification: of each id whether its
connection is unused, opening, open or over, and the messages of it that the
client has to acknowledge. `IsForwardedConnections` is the refinement: while ids
are fresh at most one forwarder has an id (`Of`), and its stage is what the
session and `closed` say of it (`StageOf`); the map, the mutex, readers, inner
goroutines, chunks and the steps of a close are hidden. A connection is over as
soon as somebody sets `closed`, although its reader may still send a chunk and
the client still has to acknowledge it.

### FileTransfer

`sess[h]` is the session goroutine in `ServeProtoMsg` of handler `h`; `pc[h]` is
the goroutine of its transfer, and `pc[h] # "idle"` is `h.mutex`. `OfferMessage`
enters the select on mutex and channel; `NoTransferInProgress` is its one case,
`Handed`, a conjunct of the transfer's receiving steps, the other. `CreateFile`
to `FinalAck` are `FileUploadHandler` and `writeFile`, `CopyChunk` to `SendEof`
are `DownloadHandler`, `Leave` and `Release` the deferred functions of both.
`batch` is `writeFile`'s inner loop: after each chunk it takes what the session
goroutine offers, up to `ACKSlidingWindowSend`, and then acknowledges the last.
Any file operation or write may fail (`Fail`), as often as `faults` allows.
`PermitUpload` to `Preserved` are `limits.go`: a limit may refuse a request when
it begins and, as the averages change (`UpdateCounters`), cut it at any chunk.

Abstractions. There is one path, so that handlers meet on one file. Offsets
count chunks; a chunk is the pair of its upload and its place. Owner, group and
mode are one value. Requests that leave the chroot, follow links, ask for a
forbidden mode or do not decode are one kind, "forbidden". `StatFile` and
unknown message types are one answer.

A session ends in two ways. `TimeOut` is the end of one whose client is silent
and waits for nothing. `Interrupt` may come at any moment, also in the middle of
a transfer: a control message, a ping that fails, the panic of another handler,
or the handler's own panic, when an error message without text arrives while no
transfer is in progress and the code follows its nil pointer (line 118 of
`session/filetransfer.go`). It is one of the failures that `faults` counts. In
both `h.msgChan` is closed, and the transfer finds that out where it next receives.

The code logs that a temporary file could not be removed and goes on. `temp` is
the temporary file of the transfer in progress and `leftover` says whose could
not be removed; the next transfer's has another name. `TempRemoved` therefore
says that every temporary file is renamed, or its removal tried.

The client is external. What is assumed of it: its messages arrive in order and
complete until it vanishes; it has one request at a time; it sends chunks in
order, in version 1 after the first acknowledgement and at most `ClientWindow`
past the last one; it acknowledges chunks of version 1 with their offset; after
an error, or after giving up, it asks for nothing more in its session, so that
chunks of an upload that was given up never meet the session's next one: the code
tells uploads of one session apart by their offsets only (line 598), and nothing
here says what becomes of a client that does otherwise. It may also send stray messages without an offset. `ClientWindow` and
`ACKSlidingWindowRecv` are at least 2 because an acknowledgement carries the
start of the last chunk: with a window of one chunk nothing would move. That two
are enough, on both sides, is `NoMutualWait`: nobody waits (`recv`, `wait`,
`lastAck`, or a client that may not send, `MaySend`) unless a message is on its
way, or something has failed.

`AtomicFile` is the abstract specification: a list of uploads, the file, the
uploads that have replaced it. `FileIsAtomic` is the refinement, with the file's
content and without its attributes: temporary files, offsets, windows, limits,
failures and clients are hidden, and the file only ever changes to one whole
upload that has not replaced it before.

### Backoff

A 64-bit duration is the set of its one bits, because the values do not fit
TLC's integers. `MCBackoff` gives the two constants of `connectionmanager.go`.
The random part of the pause, at most five seconds, is left out.

## Runs

`pass` runs check the whole state space of their instance; `violation` runs
check one statement of the repository that the code does not keep.

| run | shows |
|---|---|
| `connection` | nobody waits for a reply that is not due; a closed connection is always being replaced; a lost token counts as new; requests for a reconnect are taken; once faults cease, an authorized daemon stays connected |
| `connection_token_back` (violation) | a token that returns while the signal of its loss is unread is never noticed: its signal is dropped |
| `connection_unauthorized` (violation) | a dial that outlasts `CancelReconnection` leaves an unauthorized daemon connected |
| `shell_registry` | both session maps agree under concurrent stops, deletions and re-creations; `messageLoop` can always go on, late pongs included; a message or a termination takes a bounded number of steps; all of it implements `SessionRegistry`, the limit of each user included |
| `shell_leak` (violation) | a shell that its healthcheck stops stays counted |
| `shell_orphan` (violation) | a shell started again during `TerminateAll` runs on unregistered |
| `router` | the `Close` of every handler is called before `done` is closed; sessions of one id do not overlap; `RouteMessage` returns; silent sessions end; all of it implements `SessionService` |
| `portforward` | with fresh ids: no fatal acknowledgement, no mutex locked without a message to acknowledge, every connection can be found; a forwarder that is being closed loses connection and entry, also with a stuck reader; the timeout frees a session blocked in a write, unless the reader itself waits; all of it implements `ForwardedConnections`: one message to acknowledge at most, no connection left open by the handler's `Close` |
| `portforward_leak` (violation) | goroutines of a connection outlive the handler's `Close`: the one that reads the connection waits for ever to hand over its error or its last chunk |
| `portforward_ack` (violation) | an id used again makes an acknowledgement fatal |
| `filetransfer` | the file is only ever replaced by a whole upload (`AtomicFile`), every temporary file is renamed or its removal tried, a client of version 2 that takes its upload for done has it committed, one of version 1 is not left with neither the file nor an error, a download is one version of the file, the window and the size limit are kept, client and transfer never wait for each other, every transfer ends and the session goroutine never stays with a message, and without failures every request is answered |
| `backoff_shrinks` (violation) | at the 102nd failure in a row the pause becomes negative, later zero |

Weaknesses seen while modelling that no run is about, most of them hazards in
`PROJECT.json`: `shellsSpawned` is decremented twice for a shell that two
goroutines stop, so one shell too many is admitted; it wraps to the largest
`uint` when a termination resets it between the test and the decrement of a stop,
and then no shell is admitted; the healthcheck of a session
that is started again returns at once, because its `stop` channel is closed; a
tick that `Reset` left in the timer's channel ends a session right after its
ping; a forwarder whose id is used again is replaced in the map and no longer
closed by the handler's `Close`; permission to overwrite a file is checked when
an upload begins and not when it is committed, so that of two uploads which both
began without a file the later replaces the earlier although overwriting is
forbidden; a temporary file whose removal fails stays for ever; an upload of exactly `MaxFileSize` is refused, a download of
that size is not; an error after `Rename` tells a client that an upload failed
which took place; the acknowledgement of an empty
download of version 1 is answered with an error; a download of version 2 is
neither counted nor can it be cancelled.

### Bounds

`MaxSignals`, `MaxFaults`, `MaxSpawns`, `MaxBatches`, `MaxPongs`,
`MaxMessages`, `MaxData`, `MaxForwards` and `MaxAttempts` bound how often the
environment acts, never how the goroutines answer. Three signals are enough for
a token, its loss and its return or replacement, each while an earlier one is
being processed; one fault is a failure in any state, also of the replacement
of a connection. Two sessions on one id, or on two, with one batch are enough
for an id that is re-created or started again between the snapshot of a batch
and its deletion. Two pongs are a pong that finds the one-slot channel taken by
an earlier one; a behaviour has pongs or a shell that fails to start or to die, not
both (`PongOrFault`), because no step looks at what both change; one user suffices because users share only the mutex and the
total. Three messages reach a session that ends while the router waits, and its
successor; one id suffices there because sessions of different ids share only
the router. Two chunks block a reader at the mutex and the third fills the
channel behind it; a behaviour of `portforward` has one connection with all of
that and a message to forward, or two connections when at most one chunk is left
and no message to forward. `InOrder` says so: it restrains only `New`, which is
under no fairness, and has the client use the ids in their order, because a
symmetry set would not be sound for liveness. The safety that the run checks is
proved for any number of connections and chunks. The `MaxUint` of `ShellSessions`
is 3, more than the two shells that can be started, so that the count is past every
honest value after it wraps and not before.
Two hundred attempts pass both the sign bit and the last one bit of the shifted
second. In `filetransfer` windows of two chunks, a file of three and uploads of
two make every window fill and open again, and sizes of zero end a transfer with
its first message. `MCInit` picks one handler with one failure, one request
under each set of limits and any file, and two requests in a row where the rate
is limited (the failure may be the end of the session); or two handlers of any mix of versions on one file, one request each
or two of one of them, without failures: two handlers with failures exceed what
TLC does in minutes, and what one handler does reaches the other only through
the file and the rate. Symmetry is used only where all properties are invariants or
properties of single steps.

Deadlock is not checked where a behaviour may end because the bounds are used
up and nothing is left to do (`ShellSessions`, `RouterSession`, `PortForward`,
the last also after a fatal error). `ConnectionLoops`, `FileTransfer` (whose
counters tick for ever) and `Backoff` never stop.

### Fairness

Goroutines that can run do run, timers expire, dials and calls return.

* `ConnectionLoops`: weak fairness of each loop, and strong fairness of the
  rendezvous that `needsReconnect` offers for a second in each of its rounds:
  the request of `messageLoop` is enabled again and again, not all the time.
* `ShellSessions`: none. `MessageLoopNeverBlocks` is an invariant: in the middle
  of a message, `messageLoop` has a step it can take whatever the others do.
  `LoopsAdvance` says of each step that it brings its loop nearer to the end of
  what it does (`StepsLeft` falls). Together: the loop comes back to its next
  message as soon as it is scheduled often enough.
* `RouterSession`: weak fairness of each session, each timer and the router;
  handlers are assumed to return. Port forwarding shows where one may not.
* `PortForward`: weak fairness of the session, the readers (whose timeout of
  600 seconds passes) and the inner goroutines; none of the client's
  acknowledgements, nor of a local server that reads. `SessionReleased` exempts
  a reader that waits in `mutexAck`: the acknowledgement it waits for may be
  queued behind the session's blocked write, and then neither goes on.
* `FileTransfer`: weak fairness of each session goroutine, of each transfer, and
  of a client that has a request: it sends what it may and reads what it is sent,
  unless it gives up or vanishes. The session of a client that is silent ends
  (`TimeOut`): that is `SilentSessionEnds`, which `RouterSession` shows. Requests,
  failures, `Interrupt` among them, and the averages of the rate have no fairness.
* `Backoff`: the daemon goes on trying.

## Proofs

The theorems hold for every value of the constants that satisfies the named
assumptions of the modules, which TLC evaluates in the runs. Each proof module
defines an inductive invariant `IndInv`, proves that `Init` implies it and that
each action preserves it, and derives the properties. Four of the invariants
are no run's own, because a property of the run says as much or more:
`UserLimit` (`IsSessionRegistry`), `OneInFlight` and `ShutdownClosesAll`
(`IsForwardedConnections`), `FinalAckIsTrue` (`DoneIsSettled`).

* `ConnectionLoopsProofs`: `TypeOK`, `NoOrphanWait`, `LostTokenCountsAsNew`,
  `ClosedIsReplaced`, `ReplacedReaderIsAnswered`. `NoOrphanWait` is not
  inductive: `messageLoop` begins to wait because its connection was closed
  under it, so the invariant says who owes a reply for every closed connection
  that is registered or still being read, and what `dbusEventLoop` knows between
  two of its steps (`ReaderOK`, `DbusOK`).
* `ShellSessionsProofs`: `MapsAgree`, `UserLimit`, `TypeOK`, `LoopsAdvance`, and the refinement `ImplementsRegistry`.
  Deletion by id preserves `MapsAgree` because the session registered under an
  id is the only one with it in its user's list, and creation because a new
  session is in no list (`FreeIsUnlisted`). Of the count
  `TypeOK` says no more than that what is stored is a `uint`.
  `LoopsAdvance` counts four steps for every session a loop has still to stop and
  the stages of the one it is at: a step takes a session from the snapshot or
  reaches an earlier stage (`StepAdvances`, `MsgAdvances`), and what comes from
  outside finds its loop idle (`OthersStay`). For the refinement each step is a
  creation, a deletion or neither (`NextMoves`), and the list of a user is the set
  of its sessions that the map holds (`ListIsOwned`, from `MapsAgree`), so that the
  limit that `NewMenderShellSession` takes from the list is the abstract one.
* `RouterSessionProofs`: `TypeOK`, `HandlersFreed`, `OneSessionPerId`. The
  strengthening is that every session between creation and deletion is the one
  the map holds for its id (`LiveIsRegistered`). `ImplementsService` is the
  refinement of `SessionService`, without fairness. Besides `IndInv` it needs
  what a message that is being handed over says of its session
  (`HandoverInv`): the id is one of the ids, and the map holds that session, or
  nothing, for it. Each step of router and sessions is one step of the service
  or leaves it unchanged: `Handoff` accepts, `HandoffRefused` refuses, `Served`
  finishes, `CloseDone` ends.
* `PortForwardProofs`: `TypeOK` without assumption on the client, and under
  `FreshIds` `OneInFlight`, `AckIsHarmless`, `OpenIsRegistered`,
  `ShutdownClosesAll`, `LockIsDue` and the refinement
  `ImplementsForwardedConnections`. Ids, entries and forwarders correspond one to one
  (`Identity`), whoever deletes an entry has marked its forwarder closed
  (`Marked`), the loop of `Close` has yet to visit what is not closed (`Visits`),
  and a message in flight means a locked mutex (`Locks`). `LockIsDue` is the
  converse, and needs two more facts (`Timely`): a locked mutex belongs to a reader
  about to send or to a message in flight, unless the forwarder's entry is gone or
  a message was lost (`Due`), and only a connection that was made is ever closed,
  the one being made being the only other in the map (`Started`). For the refinement, every step of a
  goroutine leaves all connections as the client sees them (`NoneMoves`), or
  changes one (`OneMoves`);
  the mapping chooses the forwarder of an id, which `Identity` makes unique
  (`MoveSeen`, `NewSeen`), also for TLC, so that symmetry stays sound. That the
  session ends with no connection open is `Visits` once nothing is left to do.
* `FileTransferProofs`: `TypeOK`, `TempRemoved`, `TargetIsWhole`,
  `FinalAckIsTrue`, and `ImplementsAtomicFile`, the refinement of `AtomicFile`.
  None is inductive, `TypeOK` included: a chunk names its offset but not its
  upload, so that a file is one upload depends on what is between the client and
  the transfer. `ChunkInv` says of the chunks on their way (the one the session
  goroutine offers and those in the inbox behind it) that they are pieces of the
  client's present upload in ascending order, none before the offset of the
  transfer and none at all after the EOF; `ClientInv` that client and transfer
  speak of the same upload and that a request for another one means that none
  is in progress and no acknowledgement on its way; `AckInv` that the
  acknowledgement a client takes for the last really is the last message of its
  upload, in version 1 by its offset and in version 2 because only `FinalAck`
  sends one, after the commit; `JobInv` ties the temporary file to the offset
  and the place in the code; `Ids` keeps the uploads of different handlers
  apart, so that a commit concerns one handler only. The prover sees one handler
  move (`Assemble`), the others are left alone (`StillKeeps`). In the
  refinement `Put` asks, `Rename` commits, every other step leaves the content
  alone. Besides the bounds the proofs assume that `None` is no message, file or
  content (`NoneIsNothing`).
* `FileDownloadProofs`: `DownloadIsSnapshot` and `WindowKept`. The invariant
  `DownIndInv` stands on that of `FileTransferProofs`, which keeps the uploads
  apart. The acknowledgements on their way to a transfer, the chunks on their way
  to its client and what it has still to send make one queue whose offsets only
  go up: every chunk on its way is past every acknowledgement on its way and
  before the transfer's offset (`OutInv`, `SendInv`). A request on its way is
  alone, with nothing of an earlier download behind it (`GetInv`), so that a
  download never meets the chunks of the last one. `SnapInv` says that what the
  client has is a beginning of one upload's content and that everything from there
  to the transfer's offset is on its way; the file that a transfer opens is the
  first one or a commit (`ByInv`). The window is counted from the last
  acknowledgement that the transfer has *seen*: the chunks on their way have
  different offsets in the window above it, an injection that bounds their number.
  The chunks that are left when a transfer has ended still lie in one window,
  which is why `OutInv` names one of its own.
* `FileLimitsProofs`: `SizeLimitKept`. What is being written is below the limit
  (`RoomInv`), and its size is the transfer's offset (`JobInv`).
* `FileAnswerProofs`: `DoneIsSettled` and `NoMutualWait`, on top of
  `FileTransferProofs`, whose `AckInv` says which acknowledgement is the last and,
  for version 2, that the commit came before it. `SettledInv` says what becomes of
  an upload of version 1 from the moment the transfer acknowledges all of it: it
  is committed, or about to be renamed, or an error follows it on the way to the
  client. `Rename` is the step that needs it, when it fails: its error comes behind
  the acknowledgement and is read after it. `NoMutualWait` is about single moments
  in which both sides would wait, and far from inductive. `WaitInv` says of every
  client with a transfer which of three stages it is at, as long as nothing has
  failed: its request is unread, and everything it has sent lies behind it
  (`PutAsked`, `GetAsked`); or the answer that ends the transfer is on its way
  (`PutAnswered`, `GetAnswered`); or the transfer goes on. An upload that goes on
  has received what was sent but for what is still coming, and the last thing the
  client hears is how far it has come (`PutGoesOn`); in a download the last chunk
  is on its way, or its acknowledgement is, or that was the last one the transfer
  has seen (`GetGoesOn`, `LastChunk`). When nothing is on its way each side thus
  knows all that the other did, and that a window has two chunks
  (`WindowAssumption`) is what leaves room for the next one. Each action is shown
  to keep a handler at its stage or take it to the next (`NextMoves`), and the
  other handlers are left alone (`StillMoves`).

Only model-checked: all liveness properties (the prover has no support for
fairness), `MessageLoopNeverBlocks` (it speaks of `ENABLED`), the properties of
the violation runs, and `Backoff`, whose arithmetic is about one pair of
constants.

## Not modelled

The glib bindings and D-Bus
calls beyond the signal channel and `GetJWTToken`; terminal I/O and output
pipes; Mender client commands, configuration, command line and utilities, which
keep no state while the daemon runs. The content and wording of messages is left
out everywhere.

## Plan

1. Done: the connection loops, the shell registry, router and sessions, port
   forwarding, the backoff; their invariants proved. File transfer with its
   limits; `SessionService`, `AtomicFile` and `SessionRegistry` and their
   refinements, proved.
2. Done: the theorems about downloads, their windows and the limits, and the
   termination measure of the shell registry's loops; `ForwardedConnections` and
   its refinement; what a client may conclude from the end of its upload; that
   client and transfer never wait for each other. Every invariant and every
   property of single steps that a run checks is proved, but for
   `MessageLoopNeverBlocks`.
3. Composition of `RouterSession` with `PortForward`, to show how a handler that
   does not return holds up `messageLoop` and with it the shells.
4. A property of single steps: a shell process is reaped once.
