# A verification project for DDS (drone_server)

DDS is a server for drones and their operators. Drones and operators connect to a
websocket server (hello, flight data broadcast, list of drones, and requests to the
recorder, the vehicle detection and the flight database); drones publish video over
RTMP, operators play it. This directory holds TLA+ models of the server, the TLC runs
that check them and TLAPS proofs about them. Paths below are relative to `src/src`;
`rtmp/`, `core/`, ... stand for `rtmp/src/DDS/rtmp/`, `core/src/DDS/core/`, ...

## 1. Inventory

**Threads.** `DDS.cpp` runs one `io_context` on the main thread. Every network handler
(accept, reads, writes, websocket callbacks) runs there, one at a time and to its end.
Each `WebsocketClient` and each `VehicleDetector` owns one more thread, the worker of
its `async_handler`. So handlers interleave whole, worker threads interleave with them
at every access to shared memory, and apart from the job queue and the detector's set of
destinations nothing shared is locked.

| component | state | operations | hard because | correct if |
|---|---|---|---|---|
| job handler, `core/async_handler.hpp` | `run`, `msg_q`, `msg_qm`, `cv`, the thread | `add_job`, worker loop, `stop` | threads, condition variable, stop from a destructor | jobs once each, in order, none lost; no race; stop ends the worker |
| TCP session, `core/tcp_session.hpp` | socket, `send_queue`, `sending_`, outstanding operations | `run`, `async_write`, `async_read`, completions, `close` | completions come after what started them, also after a close | one write at a time, messages in order, buffers alive, no message left behind |
| TCP acceptor, `core/tcp_server.hpp` | the acceptor | `run`, `accept` | an error ends the loop | it keeps accepting |
| RTMP session and registry of streams, `rtmp/rtmp_session*.cpp`, `rtmp/rtmp_stream.cpp` | `state`, `app`, `cid`, `url`; `streams_`, `publisher_`, `peers_` | handshake, connect, createStream, releaseStream, FCPublish, FCUnpublish, publish, play, close | clients interleave; names change under a stream that is joined; leave in any order | streams exist while inhabited, one stream per session, leaving harms nobody, players are told of the end |
| relay and GOP cache, `rtmp/rtmp_stream.cpp`, `rtmp/gop_cache.cpp` | `pkts`, the three headers, the flag of each peer | `send`, `insert`, `write` | joins between any two packets, changes of publisher | nothing missed or repeated, start at a key frame, header before frame, bounded cache |
| chunk reader and writer, `rtmp/rtmp_chunk_stream.cpp`, control messages | `recv_buf`, a chunk stream per id, sizes | `read_header`, `read_payload`, `write_chunk` | data ends anywhere; interleaved chunk streams | what is read does not depend on how the bytes were cut |
| handshake, `rtmp/rtmp_handshake.cpp` | `old`, `cdigest`, `sdigest` | `handle_c0c1`, `send_s0s1s2`, `handle_c2` | coalesced reads; places chosen by the peer's bytes; two kinds of handshake, OpenSSL fails in between | it never stalls with data in the buffer; each client is answered in its kind |
| AMF0, `rtmp/amf0/` | buffer position | encoders and decoders | lengths, nesting | decode after encode is the identity |
| FLV demuxer, decoder, encoder, `rtmp/flv_demuxer.cpp`, `core/media/` | codec contexts | `decode`, `encode`, destructors | order of destructors | frames in order, the last ones flushed |
| media pipes, `core/media/manager.hpp`, `copypipe.cpp` | a pipe per client id, its writers | `pipe`, `erase`, `add_writer`, `del_writer` | pipes erased under their controllers; workers and io thread | who is said to be recorded is recorded |
| recorder, vehicle detection and their controllers | `recorders`, `detectors`, `dsts` | get and set requests, `write_frame` | requests from several workers, publishers that leave | the answers say what happens |
| websocket server, clients and client pool | `clients`, `clients_`, `drones_`, `client_ids_`, reference counts | `on_open`, `on_close`, `on_message`, hello, broadcast, list, kick | workers against io thread, life time of the client | clients listed exactly while connected; no use after removal |
| flight data manager and flight database | `recs`, `fd_ptr` | `handle`, `add`, `del` | a handler changes the set that is iterated | every request is answered once |

**Interaction.** A websocket message goes `on_message` -> `recv` -> `add_job` -> worker ->
`handle` -> hello, broadcast (`flight_data_manager::handle`, then `send` to every client of
the pool), list, or a controller. A controller answers through the pool and
`WebsocketServer::send`. RTMP bytes go `on_read` -> chunk reader -> command or media message; a
media message goes `rtmp_stream::send` -> GOP cache, demuxer -> pipe -> recorders and detectors,
and to every peer's `tcp_session::async_write`. A detector is again an `async_handler`, whose
worker sends to clients of the pool.

`PROJECT.json` lists every component with its status and the hazards at their lines, those without a property with the reason.

## 2. Modules

| module | models | extends / uses |
|---|---|---|
| `JobQueue` | what `async_handler` promises its users (abstract) | |
| `AsyncHandler` | `async_handler`, every access to shared state | instantiates `JobQueue` |
| `AsyncHandlerProofs` | theorems | `AsyncHandler` |
| `Channel` | what `tcp_session` promises those who write to it (abstract) | |
| `TcpSession` | `tcp_session` and the operations asio has in flight for it | instantiates `Channel` |
| `TcpSessionProofs` | theorems | `TcpSession` |
| `LiveStreams` | what the streams promise publishers and players (abstract) | |
| `RtmpServer`, `MCRtmpServer` | sessions, commands, registry, `record_force` | instantiates `LiveStreams` |
| `RtmpServerProofs` | theorems | `RtmpServer` |
| `StreamRelay`, `MCStreamRelay` | the packets of one stream, the GOP cache, the players | instantiates `LiveStreams` for one stream |
| `StreamRelayProofs` | theorems | `StreamRelay` |
| `FlightDataServer` | websocket server, its clients and their workers, client pool | uses what `JobQueue` promises of a client's worker |
| `FlightDataServerProofs` | theorems | `FlightDataServer` |
| `RtmpChunks` | one RTMP connection: handshake, chunk reader, control messages, chunk writer | |
| `RtmpChunksProofs` | theorems | `RtmpChunks` |
| `RtmpHandshake` | the two kinds of handshake and their digests | |
| `RtmpHandshakeProofs` | theorems | `RtmpHandshake` |
| `MediaPipes`, `MCMediaPipes` | what requests switch on and off: recording, detection, saving; the pipe of a drone | uses what `JobQueue` promises of a detector's worker |
| `MediaPipesProofs` | theorems | `MediaPipes` |
| `Amf0` | writing and reading of the values of command messages | |

In every module that a run checks some definitions are marked *Variant*: no action uses them. Each is the
definition below it with a plausible mistake (a dropped lock, a missed notification, a
cache not emptied), and putting it in the definition's place makes the property it is
paired with in `PROJECT.json` fail. They are the evidence that the properties can fail.

### AsyncHandler

One action per access to the mutex, the queue, the flag or the wait set. The worker's
program counter `pcW` runs through the loop of lines 44 to 56: `loop` (read `run`), `lock`, `pred`
(the predicate), `toSleep` and `asleep` (`cv.wait` releases the mutex and joins the wait set in
one step), `woken`, `test`, `handling`, `exit`. Producers run `add_job`. `stop` is three steps: clear
the flag, notify, join; neither of the first two takes the mutex, as in the code. Spurious
wake-ups are allowed at any time. `stop` is only called by destructors, and whoever calls
`add_job` holds a reference, so `StopFlag` waits for the producers to be idle and no `AddCall`
follows it; the detector's destructor stops a second time through its base, hence
`MaxStops = 2`. `handle` itself is opaque: it takes some time, under the mutex. Not in this
module: a worker that destroys its own client (`FlightDataServer` has that).

### TcpSession

The handlers of one session and the state asio keeps for it: `op[m]` is the write of
message `m` (`inflight`, then `done` or `failed` until its completion handler has run), `read` the
same for the one read. Messages are numbered in the order of `async_write`, whose callers
are this session and, for relayed packets, others. `Close` makes operations in flight fail,
leaves finished ones to complete, and calls `on_close` once. A write error resets neither
`sending_` nor the queue, as in the code. `wire` records what the peer was sent in full.

`Channel` says the same to a caller of `async_write` who knows nothing of buffers and completions:
what is given is delivered one by one in order, only while the channel is open, which
it becomes and ceases to be once. Its variables are `asked`, `wire` and `socket`; `WriteDone` is its `Deliver`,
and most handlers are stutters.

### RtmpServer

One action per command. `state`, `app`, `cid`, `url` are the session's members; `live`, `publisher`
and `peers` are the map `streams_` and the two members of `rtmp_stream`; `told` is the last thing
a client was told about its media; `recorders[c]` counts the writers `record_force` put on the
pipe of client id `c`. Commands are accepted in the states the code accepts them in:
`releaseStream`, `FCPublish` and `FCUnpublish` are not guarded by a state, so they may come before
or after `publish`. `Publish` ignores the result of `join`. `FCUnpublish` and `OnClose` leave the
stream the session *now* calls its own. `Fail` stands for every way a connection ends
(read or write error, bad handshake, bad chunk, unhandled type); `RejectMedia` for a media
message outside a live stream. Names are pairs of an application and a client id; ids are
hexadecimal numbers (another name throws, see the hazards).

`LiveStreams` is the view from outside: streams have one publisher at most and any players, an
end tells all players at once, and what happens to one stream changes nothing in another. A refused
`publish`, a leave under a name the session is not in, and every renaming are stutters of it;
`releaseStream` is its `Discard`. It knows nothing of the url that a session believes in.

### StreamRelay

One name over time. `sent` is the sequence of kinds of everything the publishers sent
and of the ends of stream; a packet is its index there. `pkts` and `header` are the GOP cache,
`status[q]` the flag of a peer (`waiting` is false, `flowing` true), `out[q]` what was written to a
player. `Send` is the whole of `rtmp_stream::send`: insert in the cache, then give the cache to
the players that wait and the packet to the others. `ForgetIf` is the end of the stream
object, when nobody is left. `releaseStream`, which discards the object under its users, is
in `RtmpServer` only.

Seen as `LiveStreams` with one name, a player is at its end if the last element of `out[q]` is an end of
stream. The end of the publication is `End`, a packet is `Resume`. So the registry and the relay, which
are about the same C++ object, are shown to keep one promise between them.

### FlightDataServer

One io thread and one worker for each client; a client stands for its id, its connection
and its worker. An action is one access of one thread to what is shared: `clients` (the map of
`WebsocketServer`), `pool` and `nulls` (`client_pool`; null entries are what `del` leaves among the
ids when it looks up a client that is not there), `conn` (the connection as websocketpp sees it).

| action | code |
|---|---|
| `OnOpen`, `Closing` | `on_open`; the peer asks to close or the connection breaks |
| `OnMessage`, `Push` | `on_message`, and `add_job`, which waits for a worker that handles a job |
| `OnClose`, `Erase`, `Joined` | `on_close`: out of the pool, then out of the map, then, if that was the last reference, the destructor, which joins the worker |
| `Begin` | the worker takes a job |
| `Hello`, `AddToPool`, `Answer` | hello: `add`, then `on_hello` |
| `Broadcast`, `Send`, `Release` | `on_data`: a copy of the pool, a send to each, the end of the copy |
| `List`, `Release`, `Answer` | `on_drone_list` |
| `Miss` | the window of `async_stop`, for the worker of a client that is being destroyed |
| `Count`, `Lookup` | the requests to the controllers: `count`, then `client`; media_record_set asks for the client at once |
| `NoId` | the stream id of such a request makes `cid_from_hex` throw, which nobody catches |
| `Caught`, `NoDatabase` | the controller of the flight database catches every exception and says *handled* |
| `Refuse`, `Kick` | malformed, unsupported, too early, or a saving that is on or off already |
| `Save`, `InsertFails` | flight data while the flight database is on: before hello the handler returns true; the insert may throw, which nobody catches |

*Reference counts.* `held[w]` are the references worker `w` holds. A client is alive while the map,
the pool or a worker refers to it; whoever drops the last reference runs the destructor, which joins
the client's worker: `io = "join"` or `joining[w]`. A worker that drops the last reference to its own
client would join itself, and the program ends.

*The end of the program.* Exceptions that no handler catches, a `join` of itself and the use of a null
pointer end it; `down` says which, and whose state it was about. Two threads in one container, one of them writing, are undefined
behaviour: `Race` lets the program end there, and the other actions let it go well. So what holds,
holds of every execution in which the races went well, up to the point where one did not.

Of a worker's wait and its stop `FlightDataServer` has what the run `async_stop` shows: between the clearing of the flag
and the end of the join the worker may miss both the flag and the notification (`Miss`), and then the join never ends,
on the io thread or in the worker that dropped the last reference. The steps inside `stop` are in `AsyncHandler`.

### RtmpChunks

Below the commands of `RtmpServer` (which starts from complete messages) lies the wire. It is a
sequence of tokens: half of a handshake message, and the basic header, message header, extended
timestamp and payload of a chunk. The code takes each of them whole or returns 1 and waits, so a
token cut by a read is a token that has not come, and a read (`OnRead`) may end after any of them.
Payloads and sizes are counted in units of 128 bytes, the default chunk size. Once the code expects
another token, or a payload of another size, than the one that comes, it goes on with bytes
it does not understand: `garbled`, and nothing more is modelled. One count is of bytes all the same: where the
reader wants the four bytes of an extended timestamp, what has come may be less, because the last unit of a message may be
of one byte (`MayBeShort`). It then waits, though the message is there in full.

| action | code |
|---|---|
| `OnRead` | the completion of the read: `handle()` begins, and runs to its end while `busy` |
| `HandleC0C1`, `HandleC2` | the two handshake states; after c2 the loop is not entered |
| `ReadBasic` | the basic header, kept in `fmt_` and `csid_` across reads |
| `ReadHeader`, `ReadF3First`, `ReadF3Next` | `read_f0` to `read_f3`, with the early returns |
| `ReadPayload` | `read_payload`; when the message is complete `handle_chunk_stream` with everything its handlers change: the size of both directions, the window, the stream an abort message erases, the acknowledgement, and what is written (`WriteChunk`) |
| `WriteMediaPacket` | a packet relayed to this session |
| `Peer...` | the peer, external |

The peer interleaves messages on its chunk streams with any header that RTMP allows. It is assumed
to begin with a *connect* that it cuts by 128 bytes, to begin a stream it has aborted with a type 0
header, to abort other chunk streams than the one it says so on (otherwise the handler uses a null pointer, see the hazards), and never to send a payload whose first four bytes equal the timestamp the reader looks
for. Header types 1 to 3 are written for commands only: every other writer passes `force`.

### RtmpHandshake

What is in the messages whose arrival `RtmpChunks` models. A client without a version is answered with
its own c1 (`old`); one with a version and a digest is answered with digests, in whichever of the two
schemas its own was; one with a version and no digest is `old` too.

| action | code |
|---|---|
| `BadVersion`, `DigestFails` | the early returns of `handle_c0c1`; `on_read` closes the session |
| `HandleC0C1` | `handle_c0c1` (`ParseC1`), then `send_s0s1s2` (`SendOld`, `SendSigned`) |
| `SendFails` | the same, when `send_s0s1s2` returns early, which `handle` does not notice |
| `HandleC2`, `C2Fails` | `handle_c2` |
| `ClientHello`, `ClientReplies` | the client, external |

A message is its first two words, the sums of the bytes that place a digest, and the digests it
holds. `Hmac` is a constructor over the key and what of the message is signed, so nobody makes a digest without the key and
none appears by accident; what the code leaves out (`skip`, or everything from the place on)
is left out. `HMAC` may fail in either search (the set `bases`), which the code takes for *not
found*, and wherever the code returns; `failed` says where it did. Clients are honest, but may answer with s1 whatever they were sent.

With the sums of any four bytes a run is out of reach, and the handshake is one straight line of three
messages, so the module has proofs only: `PlacesInside` (digests are read and written within the message and off the
bytes that place them), `AnsweredInKind` (a client with a digest can verify s1 and s2, any other is sent its c1),
`KeysWritten` (no key is used before it was written) and `SignedIsValid` (c2 is found valid exactly
if the client signed it). The proofs were written after TLC agreed with the same
formulas for four sums. `AnsweredInKind` leaves out a `send_s0s1s2` that failed: nothing was sent, and the session
waits for c2 while the client waits for s0. `KeysWritten` says what then becomes of a c2: the key it is checked with may never have
been written, and it is not found valid. A client with a digest is answered as one without
if `HMAC` failed in the search. `SignedIsValid` says what the log says: the session goes on with a c2
that is not valid.

### MediaPipes

One drone, the clients that make requests about it (each with its worker), the io thread and the
worker of the detector. The three services have the same shape, a map with an entry for an object
and a place where that object is registered, and one set of actions:

| action | recorder | vehicle detection | flight database |
|---|---|---|---|
| `Test` | `recorders.find` | `detectors.find` | `fd_ptr` |
| `Make` | the recorder, into the map | the detector, into the map | the database, into `fd_ptr` |
| `MakeFails` | | | the constructor throws: logged, and nothing is made |
| `GetPipe` | `media_manager::pipe` | the same | |
| `WriteHeader`, `Insert` | `add_writer` | `add_writer` | `flight_data_manager::add` |
| `Remove`, `Erase` | `del_writer`, out of the map | never | `del`, reset |
| `Count`, `Change` | | `count`, then `add` or `del` under `dstsm` | |

`Publish`, `Frame`, `NotDecoded`, `Leave` are the io thread (a packet makes the pipe, decoded or not), `Detect`, `SendRects`, `DetectFails` the detector's
worker. A worker that holds an erased pipe still reaches that pipe, nobody else does
(`Reaches`). Frames are numbered as they are decoded; the header and the loop over the writers are one step, so
what a worker does to the writers in the middle of it is left out. `overlap` notes the services of which two requests were changing entry
and registration at the same time (`Changing`; gets, and requests to a detector that is there, change neither), `gone` those whose publisher left
while there was an entry. Except for `dstsm` nothing is locked. Two threads in
one container are undefined behaviour, and one thing it may do is to end the program: a behaviour
that stops there, as any behaviour of `Spec` may. So what holds, holds as long as the races went well.

### Amf0

The peer builds an object by `put` and sends it after the name and the number of a command; the
reader takes it apart as `handle_command_message` does. `Write` and `Read` follow the classes of
`amf0.cpp` byte by byte for markers and lengths. Bytes have `Radix` values instead of 256, so that
a length with the sign bit set (288 of 24 * 24, for 32768) fits in TLC; names and texts are one
character repeated. The date stands for every kind the reader does not know; one date has bytes that spell a property with
the name of another one and the end of the object (`Misleading`). A build with
assertions stops on a negative length; the model has the one without. The operators are recursive, so the
module is for TLC only.

## 3. Runs

| run | question | bounds | result |
|---|---|---|---|
| `async_handler` | Is the queue free of races and lost wake-ups, are jobs handled once in order, does a stop that returns leave no worker, is every job handled, is `JobQueue` implemented? | 2 producers, 2 job values, 3 calls of `add_job`, 2 stops | holds |
| `async_stop` | Does `stop` return? | the same | violated |
| `tcp_session` | One write at a time, from a live buffer, in order; nothing left behind; `on_close` once; is `Channel` implemented? | 4 messages, 2 reads | holds |
| `rtmp_server` | Is the registry consistent, does leaving harm nobody, are players told, is `LiveStreams` implemented? | 3 connections, 2 applications, 2 ids (and the empty application), 2 recorders a pipe | holds |
| `rtmp_publish` | Is a client that is told *Start publishing* the publisher? | 2 connections, 1 application, 1 id | violated |
| `relay` | What do the cache and the players hold, for every time of joining and every change of publisher; is `LiveStreams` implemented? | 2 players, 4 packets and ends of stream | holds |
| `flight_data` | Is the pool honest, does a broadcast reach everybody, is a client destroyed once and used never after, what are the ends of the program due to, does the io thread come back unless a stop was missed? | 2 clients, 3 messages | holds |
| `flight_data_list` | Is a client that has disconnected gone from the pool? | the same | violated |
| `flight_data_kick` | Is a kick the end of a client only? | the same | violated |
| `rtmp_chunks` | Are the messages read the messages sent, with their times, whatever is cut, interleaved, aborted and resized; is nothing left in the buffer; does the peer understand the server? | 2 chunk streams and the control stream, 5 messages of 1 or 3 units, up to 2 tokens under way before another chunk, 2 chunk sizes and one window to announce, a short and an extended timestamp | holds |
| `media_pipes` | Do answers say what happens, do recorders get the frames in order, is who unsubscribed left alone? | 2 clients, 3 requests, 3 frames, 2 publications | holds |
| `amf0` | Is what is read what was written, and where does it stop? | 2 calls of `put`, one object in an object, lengths 0, 1, the longest readable and one more | holds |

*Why the bounds are enough.* Two producers and a worker give every pair of threads that
contend; three jobs leave one queued while one is handled and one is added. Four messages
let one be on the way, one wait, and two come after an error. Three connections give a
publisher, a player and a third that releases, renames or takes the name over; two
applications and two ids give a renaming that changes either part, and two
streams that share a pipe. Four events give a header, a key frame, a frame after it and a
change of publisher or a new group; two players, one before and one after.
Two clients and three messages let one broadcast or
list while the other says hello, leaves or is kicked, or say hello and be kicked twice; every cause in
`down` is reached. (Three clients, tried once with symmetry and without the liveness property, show nothing new.)
Five messages are a *connect*, a message cut into three chunks, one on the other stream
and a control message between its chunks, and one after; two tokens and a chunk let a read
end at every place of the chunk, with or without the next one. Three requests are one that switches on, one
that switches off and one between or at the same time; three frames are one before, one at, and
one after; two publications leave and return once.
Sessions, players and clients of `MediaPipes` are symmetric, and the runs with symmetry check no liveness.

*Fairness.* `AsyncHandler`: weak fairness for the worker, for each producer inside
`add_job` and for the stopper: the operating system runs every thread that can run. No call of
`add_job` or `stop`, and no spurious wake-up, is assumed to come. Weak fairness on taking the
mutex would not be enough for a mutex that is always busy; it is enough here because
the calls of `add_job` are bounded, and what is claimed is that no *finite* load starves a
job. `TcpSession`: completion handlers run, and a write in flight ends, well or badly (TCP
gives up in the end). The peer need not send anything. `FlightDataServer`: the io thread and the workers go
on when they can; nobody has to connect, to send or to leave, so `IoReturns` says only that the io
thread, once in `add_job` or in a destructor, comes out of it, or the program has ended, or a worker has missed
the notification of a stop. That a job ends is part of the fairness: a slow job is waited for, a job that never ends is not considered. `RtmpServer` and
`StreamRelay` have no liveness properties: nothing in the server makes a client go on. Nor have `RtmpChunks`
and `MediaPipes`: that no message waits in the buffer is the invariant `NothingLeftBehind`.

### What the violations show

* `async_stop`: the worker evaluates the predicate of `cv.wait` (no job, `run` set); `stop` clears
  `run` and notifies; the worker, still holding the mutex, then goes to sleep. `join` waits for
  ever: on the io thread when a client disconnects, in the end of the program after
  SIGINT. Setting `run` under `msg_qm` would close the window.
* `rtmp_publish`: A publishes, B publishes the same name. `join` returns -1, `Publish` does not look
  at it, B is told *Start publishing*, and everything B sends is dropped.
* `flight_data_list`: A sends hello and disconnects. `on_close` takes A out of the pool (not there yet)
  and, before it erases A from the map, A's worker adds it. Nobody removes it again: A is in every
  list of drones.
* `flight_data_kick`: A sends two malformed messages. The first kicks A, and its connection is closing.
  The second kicks A again; `server.close` throws, no handler in the worker catches that exception, and
  `std::terminate` ends the server. The same happens to a send that meets a closing connection.

No run is about `record_force`, but `RtmpServer` shows what it does when a player keeps a stream object whose publisher
leaves: the pipe goes with its recorder, nothing is created when the next one publishes, and that one is not recorded.

What holds with a reservation is worded so, and the reservation is what the code does otherwise: `GhostsAreRenamed` says that a closed session
can remain in a stream, but only if it gave itself another name after it joined
(`FCPublish`, `releaseStream`): then `on_close` looks under the wrong name, and such a ghost keeps
its stream, and if it was the publisher its name, occupied. `HeaderBeforeFrame` says a player
never gets a frame without the newest header that came *before* that frame; a header of a
new publisher can stand before frames of the old one. `EndsHaveCause` is about some of the ends of the program only:
those that come of a lost reference, a missing or null entry, a join of itself or a connection that is not open are about a client that is
closing, has closed or asked before its hello. The program also ends, with every client connected and after its hello, at a stream id that is no hexadecimal
number, at an insert the database refuses, and possibly at a data race. `IoReturns` excludes the missed notification that `async_stop`
shows: after it the io thread may wait for ever. `RemovedForGood` is about clients that had said hello:
without that it is what `flight_data_list` refutes.

* `ReadsWhatWasSent` leaves out two kinds of peer. One cuts by another size than the last that either
  side announced: the server has one `max_chunk_size` for both directions, so after it answers
  *connect* with 4096 it reads by 4096, although RTMP gives each direction its own. The other
  uses extended timestamps elsewhere than in type 0 headers: the reader compares the timestamp that a
  continuation repeats with the time of the message, and takes its bytes in the wrong order. This includes streams that had such a
timestamp and go on without, because `ext_ts_` is never reset.
* `TimesAreRight` leaves out streams with extended timestamps, and type 3 headers that begin a message
  except directly after a one-chunk message of type 1 or 2: `fmt_` is then 3 or 0, and the code adds
  nothing to the time.
* `NothingLeftBehind` leaves out what came with c2, which is handled after the next read, and the same two kinds of peer: on a stream that
  has had an extended timestamp, a later message without one whose last chunk is shorter than four bytes stays in the buffer.
* `PeerUnderstands` ends with the first chunk size that a peer announces for itself and was not told by the
  server: the server then writes by it.
* `AnswersTrue` ends for a service when a publisher leaves while there is an entry (a recorder's stays until it is
  switched off, a detector's for good, without data) and when two requests change the service at the same
  time (two objects, of which one can never be removed). `UnsubscribedIsSilent` ends when two requests make the detector at the same time.
* `FramesInOrder` allows a gap after the first frame: that is the header of the pipe.
* `RoundTrip` holds up to the first property with an empty name, with a name or text longer than 32767 bytes, or
  with a kind the reader does not know. There the names before it are read, but the bytes of that value are taken for
  properties, which may replace the value of an earlier one; the rest is lost.

## 4. Proofs

All constants are arbitrary under the named assumptions of the modules (the special
values are not members of the sets they complement, bounds are natural numbers).

* `AsyncHandlerProofs`. The properties are not inductive: that a sleeping worker is not
  forgotten depends on who holds the mutex. `IInv` adds `LockInv` (a thread holds the mutex
  exactly while its program counter is between lock and unlock), `SleepInv` (`NoSleepOverAJob`,
  and a worker that has decided to sleep has found the queue empty and nobody has changed that)
  and `StopInv` (the flag, the calls of stop and `joinable` agree) to `TypeOK` and `Fifo`. It is preserved
  action by action, the named properties follow, and `Implementation` shows that each
  action is an action of `JobQueue` or a stutter under the refinement mapping (`busy` = handling,
  `phase` from `run` and `joinable`, `grace` = the worker has not yet read a cleared flag).
* `TcpSessionProofs`. `WireInOrder` needs to know where every message is: `QueueInv` says that
  the queue holds the last calls of `async_write`, numbered in a row up to `asked`, `WireInv` that the
  wire holds the others, and the front as well once its write is done. That a completion
  handler pops its own message is `BufferIsFront`; `SocketInv` says that on an open socket `sending_`
  means an operation is outstanding, which gives `NeverStuck`. `Implementation` shows that every action is a step
  of `Channel` or none. It needs two facts about the write that ends: that it is the next one (`InflightIsNext`), and that the
  socket is still open (`InflightInv`: asio aborts what is in flight at a close).
* `RtmpServerProofs`. The four invariants of the run are inductive only together: a
  publication starts in a session that is in no stream yet (`OneStreamEach`), a leave finds
  the session where its url says (`GhostsAreRenamed`), and erasing a stream with its last peer
  erases no publisher (`StreamsInhabited`). The action properties `LeavesAlone` and
  `PlayersToldOfEnd` follow from them for every step. `Implementation` shows that each action is a step of `LiveStreams` for
  one stream, or none: a publisher is no player of the stream, a player is whoever else is a peer, and its last news is
  in `told`. That a `publish` or a leave changes nothing in the other streams needs `OneStreamEach` once more, because
  `told` belongs to the session and not to the stream.
* `MediaPipesProofs`. All four invariants of the run. While no two requests change a service at once,
  one worker at most is changing it (`Alone`), and each step of that worker can rely on what its steps
  before left (`PhaseInv`): no entry when it makes an object, nothing registered between then and
  `add_writer`, a pipe that is still the drone's unless a publisher left. Between requests that is
  `AnswersTrue`. `FrameInv` follows a recorder from there: not written before its header, at most the header
  before it is registered, the newest frame last afterwards. `DetectInv`: only the detector in the entry
  has destinations, none of them muted, and what a detector has yet to send is for its destinations,
  because `dstsm` is held. `CountInv` and `BoundInv` count the requests and publications that can still make an
  object or a pipe; they need nothing but that the bounds are numbers.

* `StreamRelayProofs`. All five invariants of the run. Two things about the stream make the rest inductive: the cache
  is the group (`CacheInv`: in order, and exactly the frames since `GroupStart`) and each header is the newest of
  its kind (`HeaderInv`). About a player, `PlayerInv` says what it was written: while it waits, ends of streams only;
  from then on a sequence that is `Clean` (nothing twice, frames in order) and `Served` (the last elements are all
  events since the cache, headers before frames, a key frame first). `ServedFirst` shows that the
  headers followed by the cache make a waiting player served, with the two facts about the stream and lemmas on concatenated
  sequences, and `ServedNext` that one more event keeps it so. `Implementation` is about the same `LiveStreams` with one
  name, but there a player's last news is not noted by the model: it is the kind of the last element of what it was written.
  `BurstFacts` is what it needs, that the cache given to a player is not empty and holds no end of stream.

* `RtmpHandshakeProofs`. The four properties of `RtmpHandshake`. `Places` is arithmetic: the two places of a message for a digest
  are apart, within it, and the same for reader and writer. `PutFacts` says that a digest put at a place
  does not change what is signed there. With them a client with a digest finds one that `SignedInv` describes,
  any other gets what `EchoedInv` describes, and `ReplyInv` says that a c2 is signed with the key the server
  has kept, or holds nothing but the digest of s1, made with a key that is no `Rekey`.

* `FlightDataServerProofs`. All four invariants and both action properties of the run. What ties them together is who may
  refer to a client (`Refs`: the map, the pool, the references of the workers). `ConnInv`: whoever is connected is in
  the map, and who never was is referred to by nobody. `ListedInv`: who said hello and is connected is in the pool.
  `WorkerInv` says what a worker holds at each of its steps, so that it can drop the last reference to its own client only
  where `EndsHaveCause` allows it. `JoinInv`: a thread waits in a destructor only for a client nobody refers to. `CountInv`
  bounds the broadcasts a worker has made, handles, has queued and is about to be given by the messages that were received.
  `DestroyedForGood` rests on `NoRevival`: no step makes a reference but from another one to the same client.
  `PoolHonest` has every client in the pool once: `WithoutFacts` shows that taking one out of the sequence leaves the others
  once each, by counting the places before an entry that stay (`RankFacts`).

* `RtmpChunksProofs`. All five invariants of the run. None of them says how far the reader is, and what is on the wire
  makes sense only with what the peer had in mind for it. `Sync` says so: there is a sequence of snapshots of the peer, one for
  each place between the tokens on the wire, and each token leads from one to the next (`Link`). The first
  snapshot is what the reader has made of what it consumed (`ReaderAt`, with `Between`, `InHead` and `InPay` for a chunk stream
  that rests, is in a header or before a payload); the last one is the peer (`PeerAt`). A step of the peer adds tokens
  and snapshots at the end (`PeerStepKeeps`), a turn of the loop takes them off at the front (`TurnKeeps`), and neither
  looks at the ones between. A snapshot also has the size that the *reader* will have there (`r`), which is how a
  change of size under way reaches the chunks behind it. `HeadRead`, `FirstRead` and `NextRead` show that each type of header
  gives the reader the fields the peer meant, and say where: `Timed` and `LastType` hold as long as no extended timestamp
  stands elsewhere than in a type 0 header. `ReadsWhatWasSent` and `TimesAreRight` follow with `GotInv` and `GarbledInv`;
  `NothingLeftBehind` because with an empty wire the first snapshot is the last. `OutInv` is about the writer alone: the peer
  has taken the last header for what it is and was told the size, which `WrittenKeeps` carries through everything a
  handler writes. That `Len(got)` stays bounded is a pigeonhole: no message is sent twice (`SentInv`).

Three properties are stated and proved but listed in no run, because a refinement that a run checks says as much of
the behaviour: `Fifo` (`JobQueue`), `WireInOrder` (`Channel`) and `PlayersToldOfEnd` (`LiveStreams`). `Fifo` is part of an inductive
invariant all the same.

Only model-checked:

* Liveness (`EveryJobHandled`, `EveryMessageSent`, `IoReturns`): the prover has no rule for fairness and `ENABLED`.
* `RoundTrip` of `Amf0`: writer and reader are recursive over nested values, and what a recursive definition yields for
  every input takes an induction that the installed provers cannot instantiate.

The four violated properties are, of course, not theorems.

## 5. Plan

1. Proofs: every invariant and action property of a run but `RoundTrip` is a theorem, and so is every refinement. What is left
   to prove is about the models to come.
2. Composition: `RtmpServer` over the messages `RtmpChunks` delivers, so that a session closed by a
   garbled wire leaves its stream; `record_force` together with the requests of `MediaPipes`.
3. The accept loop that ends with its first error, if it grows a retry.

## 6. Not modelled

* `websocket/json.hpp` is the vendored nlohmann library, 24596 of the 29936 lines of C++ in the
  repository. Nothing of it is modelled, so the share of lines that the models cover stays small; of
  the other 5340 lines they cover nearly half.
* OpenCV, FFmpeg, MariaDB, asio and websocketpp appear only as what the code sees of them: which frame goes
  where, which operations are in flight, which callbacks come.
* What HMAC computes, the classifier, SQL texts, formatting, logging,
  settings and the command line: nothing in them interleaves or keeps state that a property could
  tell apart.
* The flush in the destructor of the encoder: C++ dispatches it to the base class whenever it runs,
  and no state of a model would differ.
* The times of relayed packets, which the writer cuts to 24 bits: with them the model would restate one
  assignment.
* The accept loop, which ends with its first error: one early return after which nobody connects any more.
* The strict array of AMF0, which no code makes, and chunk stream ids above 63, which the reader does not
  read.

Components that are `partly` modelled have the reason in `PROJECT.json`.
