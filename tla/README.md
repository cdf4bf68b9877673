# livego: specification, model checking and proofs

livego is a media server: clients publish and read streams over RTMP, RTSP and
WebRTC, and the server itself pulls streams from other servers. Each stream name
is served by a *path*. This directory holds TLA+ modules of the goroutines that
make up the server, the TLC configurations that check them on small instances,
and proofs checked by TLAPS. `PROJECT.json` maps every definition to source lines.

## 1. Inventory

| component | state it keeps | operations | hard behaviour |
|---|---|---|---|
| **path** `core/path.go` | source, stream, readers, two lists of requests on hold, on-demand state with two timers | describe, add/remove reader, add/start/stop/remove publisher, source ready/not ready, timers, end | every client, timer and source interleaves; requests answered later, by another event; publisher override; cancellation at any time |
| **static source** `core/source_static.go`, `rtmp_source.go`, `rtsp_source.go` | running, context, implementation | start, stop, report ready/not ready, retry after an error | three goroutines that wait for each other on unbuffered channels; stop called while handling a report of the very source |
| **path manager** `core/path_manager.go` | configurations, paths by name and by configuration | get path (describe/read/publish), API list, path notifications, reload, close | a path handed out may end before it is called; a reload waits for paths that call the manager |
| **core** `core/core.go` | configuration, the resources created from it | create, reload, close resources | what must be closed because it uses something that is; order of closing; every close waits for goroutines |
| **RTMP server and connections** `core/rtmp_*.go` | listener, connections, two goroutines of each | accept, read, publish, kick, API, close | connections, the listener and the API wait for the server's goroutine, which ends |
| **RTSP server and sessions** `core/rtsp_*.go` | sessions, the state the library gives them, their path | library callbacks, kick, API, close | callbacks of a library beside API calls that change the same session |
| **WebRTC** `core/webrtc_*.go` | sessions, HTTP server | new session (POST), candidates (PATCH), kick, API, close | two rendezvous per new session; an answer too many; a close that waits for handlers that wait for sessions, or for the body of a request |
| **stream, writer** `stream`, `asyncwriter` | readers of each format, bounded queue | write, add/remove reader, start/stop | slow reader, full queue, writer error beside writes |
| **recording** `record` | samples, parts or buffer, segments, files; the cleaner's timer | sample, rotate, close, clean | a file operation that fails in the middle; parameters that change; one buffer for all segments; one timer for all paths, and files found by an expression in their names |
| **RTMP protocol** `rtmp` | both ends' chunk streams, windows, tracks | handshake, commands, read/write messages, acknowledge, find tracks | chunks that leave out what both ends remember, each its own way; counters that wrap; settings that hold from the next message on |
| configuration, format processors, authentication, metrics, API, helpers | | | data without control |

Interaction: clients call the path manager (`describe`, `addReader`,
`addPublisher`), which answers with a path; then they call the path itself. A
path calls its static source (`start`, `stop`) and the source calls the path
(`sourceStaticSetReady`, `sourceStaticSetNotReady`). A path tells the manager
that it became ready, not ready, or is leaving. The manager closes paths and
waits for them. All channels are unbuffered, every send is in a `select` with one
or more contexts, and answers come on a channel made for the request: *who waits
for whom, and whose context releases it* is what can go wrong in this program.
`PROJECT.json` lists the hazards, line by line.

What makes each component correct: every request is answered once; readers,
stream and source of a path belong together; a client that lost its stream is
told; nobody is forgotten or left behind; on-demand sources run while needed and
not longer; nobody waits for ever; two paths of one name never run together; the
manager's indexes are right; Close returns.

## 2. Modules

| module | what it is |
|---|---|
| `Path` | one path with its clients, its timers and its static source as a state |
| `PathService` | abstract: what a path promises those who read from it |
| `StaticSource` | abstract: start, ready, not ready, stop, in that order alone |
| `SourceStatic` | the path goroutine, the source's goroutine and its implementation's |
| `PathManager` | the manager, path objects as it sees them, clients, reloads |
| `Shutdown` | `Path` composed with the servers and Core.Close |
| `StreamReaders` | a stream, its readers with their asynchronous writers, its close |
| `RecordFMP4`, `RecordMPEGTS` | samples, parts or the buffer, segments and files of a recording, in either format |
| `RecordCleaner` | the cleaner: its timer, the entries it is told, the names its expressions find, the files it removes |
| `Record` | package record: one of the three above |
| `RtmpChunks` | how messages become chunks and chunks messages, as operators |
| `RtmpLink` | the two ends of an RTMP connection, from the handshake to the media |
| `RTMPServer` | the server's goroutine, the listener's, two of every connection, the API |
| `RTSPServer` | the server and its sessions against the callbacks of the library and the API |
| `WebRTCManager` | the manager, its sessions, the HTTP handlers, the API |
| `Core` | the resources of the core, reloads, the end |
| `Servers` | one of the three servers, or the core, with what each promises |
| `MCPath`, `MCShutdown`, `MCPathManager`, `MCStreamReaders`, `MCRecord`, `MCRtmpLink`, `MCServers` | instances for TLC |
| `PathProofs` | theorems about `Path` |
| `SourceStaticProofs`, `PathManagerProofs`, `StreamReadersProofs` | theorems about those modules |
| `ServersProofs`, `RecordProofs` | theorems about `Servers` and `Record`, with an invariant for each of their parts |
| `RtmpLinkProofs` | theorems about `RtmpLink`: chunks and messages, in both directions |
| `RtmpTalkProofs` | theorems about `RtmpLink`: what the two ends say, and the bytes they count |

`StaticSource` joins two modules: `SourceStatic` implements it
(`ImplementsStaticSource`), and `Path`, which treats its source as that small
state machine, uses it only as it allows (`UsesStaticSource`). So the assumption
`Path` makes about its source is discharged, and so is the one `SourceStatic`
makes about the path. Both sides of that are proved as well as checked (section 5).

**Path.** One action per handler (`DoDescribe` ... `DoRemovePublisher`, the two
reports of the source, the timers), one per blocking call of a client
(`CallDescribe` ...), and the end of the goroutine in the three pieces other
goroutines can observe: `Leave` (the loop returned), `ClosePath` (told the
manager, cancelled its context), `CloseDown` (answers the holds, closes its
readers and its source). A request and its handler are one rendezvous, hence a
client that is "describing" or "adding" either waits in the `select` of
`path.describe` or, if it is on hold, for its answer alone. The path checks
`shouldClose` after the handlers after which `runInner` does. The on-demand state
of static sources and of publishers is one variable, `demand`: a configuration
has at most one of the two (`Path.check` in `conf/path.go`, operator
`ValidConf`), as `UsesStaticSource` and the lemma `SourceFitsConf` rely on. Timers
are armed or not; an armed one may fire at any time. A stop of a timer that has
fired is covered, because the code replaces the stopped timer by a new one.
Failures of `setReady` (a description with no usable track) are an alternative of
both handlers that call it. API queries of a path only read.

**SourceStatic.** `path` is the path goroutine as the source sees it; `loop`,
`impl` are the source's goroutine and its implementation's. `Return` is what the
implementations return from `run(ctx)`: nil only when their context is done. The
retry pause after an error is `recreating`.

**PathManager.** A path object is `loop` (in its select), `notifying` (blocked in
pathReady or pathNotReady), `leaving` (blocked in closePath), `cancelled` or
`ended`. A configuration is a hard part, whose change needs a new path, and a
soft part that paths could take over. Among the patterns that match a name, the
code takes whichever the map iteration gives first: a choice in the model.
`users` is whatever keeps a path in use; `Path` has the detail.

**Shutdown.** `closing` counts the servers, then the path manager. A server is
closed when all its clients have let go of their path; the context of the path
is cancelled only when the path manager is closed, which comes last.

**StreamReaders.** Three goroutines for each reader: the publisher's, which writes
a unit to all the readers of its format under the stream's mutex (one step);
the writer's (`Pull`, `Handled`, and `PullClosed` once the buffer is closed); and
the owner's, with the order in which it registers, starts, stops and leaves. The
owner is a connection (`rtmp_conn.go`; `webrtc_session.go` has the same shape) or
the record agent, which stops in the other order: it leaves the stream, then
stops the writer, then closes its file. What a closed ring buffer still gives out
is a choice. The publisher may write after the close of the stream. A full queue
panics, and the model stops there, as the process does. Units that nobody reads
are not counted. `Path` knows only whether there is a stream; here is the rest.

**Record.** What happens to a sample once a record agent's callback has it, and
what happens to the file later. The agents and the cleaner meet only on disk,
where any operation of an agent may fail, so `Init` picks one of the three and
they share the variables they have in common. The cleaner may for instance remove
an empty directory between the agent's `MkdirAll` and its `Create`: for the agent
that is one more `Create` that fails.

- `RecordFMP4`: the operations on a segment are operators from what is being
  written to the set of what may come of it, since each operation on a file can
  fail, and an error cuts the chain of calls where the code returns it. A part's
  start and end are the times of its first and last sample. `version` counts
  changes of codec parameters of any track: what matters is whether a file starts
  with parameters at least as new as its samples. Files are told apart by when they
  were created, not by name.
- `RecordMPEGTS`: samples go to one buffer, which every segment flushes into its
  file; the first write that fails breaks it for good, as `bufio.Writer` does. Any
  sample of video may be one that a segment can start with. AC-3 never sets up a
  segment (`rec_format_mpegts.go:259`): with that codec alone nothing reaches the
  disk, and a full buffer goes to a writer without a target, where the process ends.
- `RecordCleaner`: an entry is a template of file names, a format and an age. The cleaner
  does not know whose a file is. It searches the names that `filepath.Walk` reports for an
  expression made from the template (`Matches`): not anchored, with a `%path` that takes
  slashes, and with a leading "./" of the template left in, which is not in those
  names. So one entry can find the files of another path, or not those of its own, and
  the time it finds has the precision of the template (`Told`), or, for a template without a
  year, lies far back. A name is a sequence of elements; a template is directories, the
  path's name and the time, as the default is. Ages and times are whole numbers from 2
  on; with an age of 0 the timer would fire without end, which is left out.

**RtmpChunks and RtmpLink.** `RtmpChunks` has the two sides of `rawmessage`: the
writer's choice of one of four types of chunk and what the reader makes of it, with
times cut to the width of a header and bytes counted in a counter that wraps. A
message is a record with a body of a few pieces; a chunk weighs its body and one.
`RtmpLink` composes two ends, each a sequence of steps it has still to do (write
this message, wait for that reply, serve commands, find the tracks), and four things the two
choose: play or publish, the tracks, whether the parameters of the video are late,
and what the metadata announce. Client and server follow `InitializeClient`,
`initializeServer`, `readTracks`, `writeTracks`; a client that publishes may announce
less than it has. Abstracted: bytes that `bufio` reads ahead are counted with
their chunk; a handshake with encryption exchanges the same parts; bodies of ten
megabytes do not occur; `checkAcknowledge` is off in `conn.go`, so the value of an
acknowledgement is not looked at; this code writes no pings, no aborts and no
extended messages; a lost connection is an end that takes no further step, and
deadlines are not modelled (`RTMPServer` has what follows from an error).

**RTMPServer.** The goroutine of `run`, the listener's, and two of each connection:
`session` is `rtmpConn.run`, `reader` is `runReader`, joined by a channel. A channel
is unbuffered and every send is in a `select` with the context of the server, so a
send and its receipt are one step, possible while the server is "running", and the
alternative is possible once the context is done. The answer to a client's call of its
path (`Answered`) puts the client on the path or does not; nothing here says that it
comes. A path may close a client at any time. What the path does meanwhile is `Path`; what is read and written is
`RtmpLink` and `StreamReaders`.

**RTSPServer.** The library handles a request at a time and moves the state of the
session when the handler says OK (`session`), while `pathSet` is what the code itself
knows (`s.path`). The API closes a session, deletes it from the map and calls
`onClose` beside the handlers, under the read lock only: hence `KickDeletes` and
`KickReturns`, a crash when two such calls touch the map at once, and one when `s.path`
is nil in a state that uses it. `kicked` is a history variable.

**WebRTCManager.** The handlers of POST and PATCH first read the body, for which there is
no deadline (`PostRead`, `PatchRead`). Then a POST makes two rendezvous with the manager and its session, a
PATCH hands candidates over; readRemoteCandidates answers once for each that fails
and once at the end, but its caller reads one answer.

**Core.** What each resource is created from and which others it was given, in the
order of `createResources` and `closeResources`; settings that the code treats alike
are grouped; in particular one setting stands for the switches of metrics and of
pprof. `todo` is the set of resources still to be created or closed, taken in the
order of `Order` or against it. A creation may fail, whereupon everything is closed.

**Servers.** The servers and the core share no state here, so a behaviour is that of
one of them. `Shutdown` has the other direction: clients that hold a path while
the servers close.

## 3. Runs

| run | bounds | shows |
|---|---|---|
| `path` | 2 readers, 2 publishers, 6 configurations; 360,895 states | the invariants of a path, the two abstract specifications, unused paths leave |
| `shutdown` | 2 readers, 1 publisher, 2 servers | calls return, an unneeded source is closed, Close returns |
| `shutdown_on_demand` | the same, publisher on demand | Close does **not** return (section 6) |
| `source_static` | one source, on demand or not | no panic, no deadlock, no late report, implements `StaticSource` |
| `path_manager` | 1 name, 1 pattern, 4 configurations, 3 path objects, 2 clients; 949,646 states | indexes, one working path, what is handed out, recreation |
| `path_manager_live` | 2 path objects, 1 client, 2 configurations | reload, calls and close return |
| `stream_readers` | a connection, an agent, two formats, queues of one unit, 3 units; 497,109 states | no hole and no disorder, leaving leaves nothing behind, stop returns |
| `record` | a video, an audio and, in MPEG-TS, an AC-3 track, 6 samples (5), 1 change of parameters; 2 paths, 5 templates, 2 formats, 2 ages, 2 files, 9 units of time; 5,809,512 states | samples on disk once and in order, none missing unless an operation failed, files closed and announced once, parameters; files that can be found are removed in time, and none for the age of a path that does not record into its directory or one above |
| `cleaner_default` | the same, the template of the default's form | expired files are **not** removed (section 6) |
| `rtmp_link` | times modulo 4, bytes modulo 35, a window of 21, chunks of 1 then 2, bodies to 3, 3 units; 37,943 states | messages arrive as written, only known refusals, acknowledgements in time, tracks are found |
| `servers` | 2 clients, 1 caller of the API (2 for RTSP), 1 PATCH with a failing candidate; every setting of the core with 2 values; 460,585 states | nothing is left of what ended, resources match the configuration, whoever calls is answered if paths answer |
| `webrtc_stalled` | 1 client, 1 PATCH | the close of the WebRTC manager does **not** return while a peer owes a body (section 6) |

Why the bounds are enough to meet the interesting cases. Two publishers give
override and its late stop and remove; two readers give a hold list with two
entries, one describing beside one adding, the limit of one reader exceeded while
holds are served, and a reader that leaves while another stays. The six
configurations differ in a branch of some handler each: on demand static with a
limit, permanent static, redirect, on-demand publisher with override and a
pattern, without both, plain publisher with a fallback. The theorems of section
5 remove the bound for all safety properties that the runs `path`, `source_static`,
`path_manager`, `stream_readers`, `record`, `servers` and `rtmp_link` check. In
`PathManager` three objects allow a path that is ending, its successor and a
successor of that; objects are reused once ended and known to no one, so the
number bounds those that are alive, not those ever created. Two clients of one
name are enough to race for the creation of the path and for its end. Contexts,
messages and retries are unbounded there; no counter needed a cap. In
`StreamReaders` `MaxUnits` bounds what the publisher writes: a hole is a unit
missing between two, so three are enough, and a queue of one is full as soon as a
writer is busy. In `Record` `MaxSamples`, `MaxSamplesTS`, `MaxVersion`, `MaxFiles` and
`MaxTime` are bounds: in fMP4 two samples make a part long enough to be written with
the third, the fourth writes the first part and with it the file, the fifth may
come with new parameters or rotate the segment, and the sixth is recorded in what
follows; in MPEG-TS a buffer of two samples is full before, at and after the
rotation that the third and fourth can cause; the cleaner's time lets two files of
two paths be created, expire at different runs and be removed. The templates are one in
each relation the expressions make possible: as written, with the leading dot, in a
directory of another, with a time that ends as another's does, without a year; and one path's
name repeats the directory, which lets even the dotted one be found. In `RtmpLink` `MaxUnits`
and `MaxInFlight` are bounds and the widths are small so that they wrap: an end that
reads the units acknowledges twice, with a wrap of the counter in between, and three
units on one chunk stream are what it takes for a difference of times to be
known, to repeat and to be repeated across a time that goes back (`MCGaps` has
-1). The window is larger than what the handshake and the commands take, as the real
one is (2,500,000 bytes): with a smaller one an acknowledgement could be the first
message in which an end looks for tracks. In `Servers` two clients suffice for one that ends while another is
listed, waits for the loop or holds the read lock; each client comes once, and
what a second life of it would add is a new connection with no state in common.
The core may reload again and again. Readers, publishers,
clients and path objects are interchangeable in `Path` and `PathManager`, so their safety runs use symmetry;
the runs with liveness properties do not.

`CHECK_DEADLOCK FALSE` is set where the system stops for good: a path, a source,
the manager or a recording that has ended, a process that panicked. The run `path` checks deadlock, since its clients
can always call again.

## 4. Fairness

Weak fairness of a handler of a given client in `Path` says that the Go `select`,
which chooses at random among the ready cases, serves a case that stays ready.
In `PathManager` it is strong, for there a case is ready again and again but not
always: the manager goes away into a reload and comes back. Armed timers fire. A client whose context was
cancelled lets go of the path, since every connection and session has a deferred
or explicit removeReader/removePublisher. An implementation of a source whose context is done returns. *No*
fairness is given to what the outside world decides: clients need not ask, leave
or publish, a source need never connect or fail, nobody has to reload or close.
In `Shutdown` only clients of a closed server leave for certain. In
`StreamReaders` the goroutines of writers and of their owners go on: a callback or a
handshake ends because the network has deadlines and a connection's socket is
closed with its context (`rtmp_conn.go:155-157`); the path's own step, which closes
the stream, is fair as well. The publisher and whoever kicks connections are not.
In `RtmpLink` each end goes on as long as it can (weakly fair); the units come from a
stream that may end. In `Servers` the finitely many steps a part takes by itself are
weakly fair together, which is enough since they all come to an end; timers fire and
deadlines pass. A session of the RTSP library may go on with requests for ever, so
its end, one case of a `select` beside them, is strongly fair. Three things have no
fairness. That a path answers its client is the hypothesis of `CallsReturn`
(`PathsAnswer`): `shutdown` shows that paths do, and `shutdown_on_demand` when they do not. What
the peers send, the rest of a body included: so `CallsReturn` promises nothing of the
close of the WebRTC manager while a peer owes one, and `webrtc_stalled` shows why. And a
PATCH behind one that left the session's goroutine stuck, until the session ends.

## 5. Proofs

Assumptions: `ClientsAssumption` (finite sets of readers; readers and publishers
are different, and neither is one of the three special sources) and
`ConfsAssumption` (every configuration passed `Path.check`) for `Path`; `NoneAssumption`
(no path object is the value that stands for none) for `PathManager`, and
`SizesAssumption`, `FormatsAssumption` (a queue holds at least one unit; connections are not
agents; formats are a sequence of formats) for `StreamReaders`; `BadAssumption` (how many
candidates of a PATCH fail is a number) for `Servers`; `AgentAssumption` (AC-3 tracks
are tracks of their own, times are natural numbers) and `CleanerAssumption` (names and templates
are sequences of elements, a name is not empty, a precision is at least 1 unit and an age
at least 2) for `Record`; `ChunkAssumption` and `LinkAssumption` for `RtmpLink`. The
last two are about widths and sizes: a body may be as long as both chunk sizes; a
window is larger than a chunk and than all that is read before the first of
the media, and the counter of bytes is wider than a window and a chunk. In the code
these are 65,536 bytes a chunk, 2,500,000 bytes a window, a few hundred bytes of
handshake and commands after the 3 kilobytes that both sides read first, and a counter
of 32 bits (`rtmp/conn.go:167-182`, `rtmp/rawmessage/reader.go:50`). No bound on
clients, paths, names, configurations, readers, queues, units, samples, parts,
segments, files, messages or chunks.

- `PathProofs`: first `TypeCorrect`, one step per action; then `PathInv` is inductive
  (`Inductive`). The invariants the runs check are not inductive by themselves and
  need each other. For instance, that a reader is there only with a stream
  (`ReadersStreamSource`) needs, in the step that serves the holds, that the holds are
  open calls of readers and that there was no reader before; that the close timer
  follows the use of the path (`DemandFollowsUse`) needs that a stream belongs to a
  source that fits the configuration. Hence two more conjuncts: `SourceFitsConf`, what
  the source can be for each configuration, and `StaticFollowsDemand`, that the static
  source runs exactly when the on-demand machine says so. Lemmas state once what the
  shared pieces (`SetNotReady`, `ServeHolds`, `FailHolds`, ...) preserve; the step
  lemmas cite them. Last the consequences: `HoldsCorrect`, `StreamsCorrect`,
  `DroppedCorrect`, `GhostsCorrect`, `DemandCorrect`, `HoldsTimed`, `LimitCorrect`
  (with the cardinality of the readers admitted from the hold), the action property
  `UnusedLeaves`, and the two refinements: `UsesStatic` and `ServesReaders`, in which
  each handler maps to a step of the abstract specification or to a stutter.
- `SourceStaticProofs`: `SourceInv` is inductive. `NoPanic` speaks of the path and of
  `running`, but whether `start` may be called depends on whether a report of the
  last source could still be under way, which depends on where the source's
  goroutine and the implementation's are. So the invariant says, for each place of
  the path's goroutine, what `running` is (`RunningFollowsPath`), when the source's
  goroutine can be there (`LoopFollowsPath`), where the implementation's can be
  (`ImplFollowsLoop`) and whose stream the path has (`StreamFollowsPath`). The
  refinement of `StaticSource` follows from it step by step: with `UsesStatic` the
  two halves of the contract between path and source are proved.
- `PathManagerProofs`: `ManagerInv`. `IndexesAgree` needs that a path is indexed under
  its own name (`NamesAgree`); that two working paths of a name do not coexist
  needs that a path which works is indexed or is the one a reload closed and waits for
  (`KnownOrAwaited`), that nobody takes the name meanwhile (`NameIsFree`), that an
  indexed path has not been told to close (`IndexedAreOpen`) and that contexts
  are done in the right order (`ContextsFollow`); that no path is outdated after a reload needs
  that an indexed path's configuration exists and could at most be updated (`ConfsAgree`).
- `StreamReadersProofs`: `StreamInv`. A hole is a fact about what was written, what was
  received, what waits in the queue and who is registered; `GotInOrder` says that
  the units done, current and queued are in order and that a reader whose writer
  works has all of its formats since its first. It needs where a writer
  can be while its owner is where it is (`WriterFollowsOwner`), which also gives
  `LeavesNothing`, and lemmas about sequences, stated once.

- `ServersProofs`: `ServersInv`, an invariant for each server and one for the core.
  `NothingIsLeft` speaks of what has ended; why it is in no table then depends on
  where each of its goroutines could be while the loop of the server was still there
  to take it off the table. `RTMPInv` relates the two goroutines of a connection,
  the table, the contexts and the list a caller of the API holds; `RTSPInv` the
  state the library gives a session, the path the code itself set and who deleted
  the session, with a history of kicks, since only a kick may leave something
  behind; `WebRTCInv` a session, its POST and PATCH and which rendezvous
  they still wait for. `CoreInv` says, for each stage of a creation, a reload or an
  end, what is still to be done and what that makes of the resources there are: that a
  resource is closed whenever one it uses is, is what makes it inductive.
- `RecordProofs`: `RecordInv`, one invariant for each agent and one for the cleaner. The
  operations of an agent are operators from what is being written to what may come
  of it, so there is a lemma for each of them, from the file to the whole record, and
  the lemma of an operation cites those of the ones it calls.
  For fMP4, `F4Base` holds between any two operations and `F4Good` when
  none is under way. `NothingLost` is not inductive: that a part is written after
  all that is on disk needs that its number and samples come after those
  (`Fresh`), which fails between writing the part and starting the next, and for
  good in a segment whose closing failed: its part may be on disk, but its
  file is closed and cannot be written (`Writable`). `ParametersOfInit`
  needs that the current file starts with the present version and that every sample
  recorded, or to be, is no newer. For MPEG-TS, `TSGood` relates the disk, the
  one buffer and the number of samples received; that nothing is
  written after a failure rests on `broken`, and the panic on the tracks being AC-3 alone.
  For the cleaner, `CleanerDue` bounds the age that any file
  whose template is found will have when the timer fires; it rests on `OwnIsMatched`, by which
  a template without a dot finds every name written from it, whatever that path is
  called, and on `IntervalIsShort`: one interval is at most half of any age. That
  a file goes only for a path whose directory encloses it is that of the names
  `Walk` reports; `ToldIsEarlier` bounds by how much too soon.

- `RtmpLinkProofs`: `LinkInv`, for `MessagesArrive`. That a message arrives as it was
  written is a fact about all of its chunks and about the message before it on the
  same chunk stream, since headers leave out what is the same. `Follows` relates what
  the writer keeps of a chunk stream to what the reader keeps, at the moment the
  reader will have when it comes to a chunk: equal but for a time that is
  cut, and for a difference of times that the reader has forgotten, which happens
  only after a time went back (`Back`). `Linked` is about one direction: there is a
  history of the writer, its state after each message (`History`), such that the
  wire has the handshake's parts and then the chunks of that history that come after
  those already read (`OnWire`), and the reader is in step with the state the writer had
  when it began the message now being read (`InStep`). So the size of the chunks,
  which holds from the message after, is the same for both when it matters. The lemmas
  that carry it: how a body is cut (`CutBounds` and those after it), modular sums of
  times, and what an end may still do (`Program`): no message comes before the end of the
  handshake.
- `RtmpTalkProofs`: `TalkInv`, for `RefusalsAreKnown` and `AcknowledgedInTime`. Both
  depend on how far the conversation has come: an acknowledgement in the middle of the
  commands would be taken for a message of the stream, and a window of 0, which
  is what a reader has until it is told, never acknowledges. So `Says(e, i)` is the i-th
  message of an end and `StepAt(e, j)` its j-th step, in closed form for play and
  for publish; `At(e, p)` says that an end is p steps into them: what it has
  said, how much it can have heard, and that `todo` is exactly what lies ahead;
  beyond the words there is only media in one direction and
  acknowledgements in the other (`Beyond`). `Finds` follows the search for tracks:
  with all tracks announced, the metadata are the first message the receiver
  finds, and nothing it gives up on can come (`Calm`). `Tally` counts bytes without
  wrapping: N read, V acknowledged, A in whole windows, A <= V <= N <= A + Window. The
  counters are their remainders, and as CountMod is more than a window the difference of
  the remainders is the difference (`ModMinus`). That N stays within the window until
  the window is known, and until all words are heard, is the count of their pieces
  (`PiecesOf`), with the part of a message already read.

`NothingLost` is stated with sets and the order of any two samples of a track, in
place of the sequence of all samples, which would have to be built by recursion.

Only model-checked: liveness (`CallsReturn`, `UnneededSourceCloses`, `CloseReturns`,
`StopReturns`, `ReloadReturns`, `TracksAreFound`), since it rests on fairness and
ENABLED; and with it `Shutdown`, whose properties are all of that kind. Every safety
property of every passing run is proved. The types of the modules are parts of the inductive
invariants, not properties of runs.

## 6. Findings

1. *Close may never return* (`shutdown_on_demand`). After an on-demand publisher
   started, its start timer is stopped; after it left, the on-demand state stays
   Ready or Closing. A reader that asks then is put on hold
   (`core/path.go:557-565`, `670-674`) and no timer is armed. Its connection waits,
   the server waits for the connection, and the path manager, whose context would
   release it, is closed after the servers (`core/core.go:569-597`).
2. *With the default template no recording is removed* (`cleaner_default`). Files of
   `./recordings/%path/...` (`conf/path.go:152`) are reported by `filepath.Walk` as
   `recordings/...`, and the expression `./recordings/(.*?)/...` is not found in that
   (`record/cleaner.go:122-128`, `record/record_path.go:29-40`), unless the name of the path
   itself has such a directory.
3. *A body that does not come holds up Close* (`webrtc_stalled`). The handlers of POST and
   PATCH read it without a deadline (`core/webrtc_http_server.go:234`, `281`), and
   the HTTP server's Close waits for them without a limit (`httpserv/wrapped_server.go:86`).

What the models also show, without a run of its own:

- Recordings are removed at the age of another path. An entry's age is compared with that
  of all files its expression is found in, which with a shared template, or one in a
  directory of the other, are those of other paths too (`record/cleaner.go:122-137`,
  `record/record_path.go:32`). `KeptLongEnough` is therefore a promise about all the paths
  that record into an enclosing directory: only where there is one alone is it its own age.
- A reload does not reach paths that could be updated: the loop under the comment that
  says so is commented out (`core/path_manager.go:215-218`), and the paths keep the old
  configuration (`PathsAreRecreated` says how far it may differ).
- A closed stream may be opened again. `Stream.Close` leaves no mark, so a client that got
  the stream earlier and calls `RTSPStream` afterwards (`core/rtsp_conn.go:181`,
  `core/rtsp_session.go:253`) allocates a server stream that nobody closes.
- A recording's pending sample of a track may be older than the start of the
  segment it goes to, and its time, an unsigned number, wraps
  (`record/rec_format_fmp4_part.go:97`); the samples in memory when parameters change
  go to a file with the new ones, which is why `ParametersOfInit` is one-sided.
- An RTSP session that is kicked while a request of it waits for the path manager
  is put on the path afterwards for good, and a kick can end the process, by a path that is nil
  or by a write to the map under a read lock (`core/rtsp_server.go:435`).
  `NothingIsLeft` therefore says that only kicked sessions are left over and that
  without a kick nothing panics.
- A WebRTC PATCH with a candidate that fails leaves readRemoteCandidates waiting for a
  reader of its second answer (`core/webrtc_session.go:602`); later PATCHes of that
  session wait until it ends, and are excluded from `CallsReturn`.
- An RTMP writer remembers a difference of times across a message whose time went
  back, and the reader refuses what it writes next (`RefusalsAreKnown`).
- A name that a pattern's path serves and that gets a configuration of its own keeps
  the old path, and has none when that leaves (`core/path_manager.go:239`).

## 7. Not modelled

- Data: format processors, muxers, AMF, codecs, digests and encryption, the
  negotiation of media, the configuration's files and environment. They transform
  values and decide nothing the properties tell apart.
- What the libraries do (gortsplib, pion), beyond how they call this code.
- Authentication (stateless for each request: one that is refused changes
  nothing), the admin HTTP handlers (their calls are actions of the servers), the
  hooks (commented out in this code base), the websocket (not used by the core).
- Of the RTSP server: the table of connections, which only its callbacks change, and
  a library that refuses a request after its handler succeeded.
- Of WebRTC: the constructor of the manager that fails half way
  (`webrtc_manager.go:394`) and `webrtc_source.go`, an implementation of a static source
  like the two in `SourceStatic`.
- Of recordings: templates of another form than the default's (time before `%path`,
  characters that mean something in an expression, one that does not compile), a clock that
  is set, a removal that fails, and the empty directories the cleaner removes.
- Of the metrics: that `/metrics` asks a path manager it was never given (`metrics.go:72`;
  the assignment at 212 is commented out); and that a server sets itself as the one to be
  queried on its end (`rtmp_server.go:226`), which changes only what is reported.
- A cleaner that a reload restarts although its entries are the same: their order
  depends on paths and ages and not on formats (`core.go:52`).
- Lost connections and read deadlines in `RtmpLink`; two recordings whose names are
  the same because their path has no part that tells them apart.

## 8. Plan

No safety property that the runs check is left to prove. What would come next is a
composition of `RTMPServer` with `PathService`, in place of the hypothesis that paths
answer; then the parts of section 7 that have control: the lost connections
of `RtmpLink`, and `webrtc_source.go`.
