----------------------------- MODULE RtmpServer -----------------------------
(***************************************************************************)
(* The RTMP sessions and the registry of streams they share.  Every        *)
(* handler runs to its end on the one thread of the io_context, so a       *)
(* handler is one action; what interleaves is the handlers of different    *)
(* sessions.  A message counts as received when it is complete (the chunk  *)
(* layer is not part of this module), and a name is a pair of an           *)
(* application and a client id, the url of the code.                       *)
(*                                                                         *)
(* With the option record_force every stream that is created gets a        *)
(* recorder on the media pipe of its client id.                            *)
(*                                                                         *)
(* Definitions introduced as a Variant are used by no action: each is the  *)
(* definition below it with a plausible mistake.                           *)
(***************************************************************************)
EXTENDS Naturals, FiniteSets

CONSTANTS
  Sessions,      \* the connections, each used once
  NoSession,
  Apps,          \* application names a client may send
  NoApp,         \* the empty name a session starts with
  Cids,          \* client ids
  NoCid,
  RecordForce,   \* the option rec_f
  MaxRecorders   \* bound on the recorders on one pipe

ASSUME SessionsAssumption == NoSession \notin Sessions
ASSUME NamesAssumption == NoApp \notin Apps /\ NoCid \notin Cids
ASSUME RecordAssumption == RecordForce \in BOOLEAN /\ MaxRecorders \in Nat

Urls == (Apps \cup {NoApp}) \X Cids
NoUrl == <<NoApp, NoCid>>

VARIABLES
  state,      \* the state of each session, "NONE" before it is accepted
  app, cid, url,   \* the three strings a session keeps
  live,       \* the keys of streams_
  publisher,  \* the publisher of each stream
  peers,      \* the sessions in each stream, the publisher among them
  told,       \* the last status or event each client was sent about media
  recorders   \* the writers record_force put on each pipe

vars == <<state, app, cid, url, live, publisher, peers, told, recorders>>

names == <<app, cid, url>>
streams == <<live, publisher, peers>>

Init ==
  /\ state = [s \in Sessions |-> "NONE"]
  /\ app = [s \in Sessions |-> NoApp]
  /\ cid = [s \in Sessions |-> NoCid]
  /\ url = [s \in Sessions |-> NoUrl]
  /\ live = {}
  /\ publisher = [u \in Urls |-> NoSession]
  /\ peers = [u \in Urls |-> {}]
  /\ told = [s \in Sessions |-> "nothing"]
  /\ recorders = [c \in Cids |-> 0]

-----------------------------------------------------------------------------
(* Opening a connection *)

Connected == {"CONNECT", "CREATE_STREAM", "PUBLISH_PLAY", "MEDIA_TRANSFER"}
Open == {"INIT", "HANDSHAKE_C2"} \cup Connected

Move(s, from, to) ==
  /\ state[s] = from
  /\ state' = [state EXCEPT ![s] = to]

Accept(s) ==
  /\ Move(s, "NONE", "INIT")
  /\ UNCHANGED <<names, streams, told, recorders>>

\* c0 and c1 arrived and are valid: s0, s1 and s2 are sent.
HandleC0C1(s) ==
  /\ Move(s, "INIT", "HANDSHAKE_C2")
  /\ UNCHANGED <<names, streams, told, recorders>>

HandleC2(s) ==
  /\ Move(s, "HANDSHAKE_C2", "CONNECT")
  /\ UNCHANGED <<names, streams, told, recorders>>

\* Of a command object without an app the program reads a null pointer, and ends:
\* a behaviour that stops, as Spec allows at any step.
Connect(s) ==
  /\ Move(s, "CONNECT", "CREATE_STREAM")
  /\ \E a \in Apps : app' = [app EXCEPT ![s] = a]
  /\ UNCHANGED <<cid, url, streams, told, recorders>>

CreateStream(s) ==
  /\ Move(s, "CREATE_STREAM", "PUBLISH_PLAY")
  /\ UNCHANGED <<names, streams, told, recorders>>

-----------------------------------------------------------------------------
(* rtmp_stream::join and leave *)

\* Variant: a publisher is not put among the peers.
JoinApart(s, u, publishing) ==
  IF publishing
  THEN /\ publisher' = [publisher EXCEPT ![u] = IF @ = NoSession THEN s ELSE @]
       /\ UNCHANGED peers
  ELSE /\ peers' = [peers EXCEPT ![u] = @ \cup {s}]
       /\ UNCHANGED publisher

\* Variant: a second publisher takes the stream over.
JoinOver(s, u, publishing) ==
  /\ publisher' = IF publishing THEN [publisher EXCEPT ![u] = s] ELSE publisher
  /\ peers' = [peers EXCEPT ![u] = @ \cup {s}]

\* A second publisher is refused (join returns -1).
Join(s, u, publishing) ==
  IF publishing /\ publisher[u] # NoSession
  THEN UNCHANGED <<publisher, peers>>
  ELSE /\ publisher' = IF publishing THEN [publisher EXCEPT ![u] = s] ELSE publisher
       /\ peers' = [peers EXCEPT ![u] = @ \cup {s}]

\* Variant: whoever leaves ends the publication.
LeaveEndsAll(s, u) ==
  LET rest == peers[u] \ {s}
  IN  /\ peers' = [peers EXCEPT ![u] = rest]
      /\ live' = IF rest = {} THEN live \ {u} ELSE live
      /\ publisher' = [publisher EXCEPT ![u] = NoSession]
      /\ told' = [q \in Sessions |-> IF q \in rest THEN "eof" ELSE told[q]]
      /\ recorders' = [recorders EXCEPT ![u[2]] = 0]

\* When the publisher leaves, the pipe of its client id is erased with its
\* writers and the other peers are sent an end of stream; they stay.  The
\* callers erase a stream nobody is left in.
Leave(s, u) ==
  LET rest == peers[u] \ {s}
      ends == s = publisher[u]
  IN  /\ peers' = [peers EXCEPT ![u] = rest]
      /\ live' = IF rest = {} THEN live \ {u} ELSE live
      /\ publisher' = IF ends \/ rest = {}
                      THEN [publisher EXCEPT ![u] = NoSession]
                      ELSE publisher
      /\ told' = [q \in Sessions |-> IF ends /\ q \in rest THEN "eof" ELSE told[q]]
      /\ recorders' = IF ends THEN [recorders EXCEPT ![u[2]] = 0] ELSE recorders

-----------------------------------------------------------------------------
(* Commands.  Those that are not here (deleteStream, getStreamLength, the  *)
(* unknown ones, and connect, createStream, publish and play in another    *)
(* state) change nothing.                                                  *)

Name(s, a, c) ==
  /\ app' = [app EXCEPT ![s] = a]
  /\ cid' = [cid EXCEPT ![s] = c]
  /\ url' = [url EXCEPT ![s] = <<a, c>>]

\* Whoever is in the stream of that name, it is erased.
ReleaseStream(s) ==
  /\ state[s] \in Connected
  /\ \E c \in Cids :
       /\ Name(s, app[s], c)
       /\ live' = live \ {<<app[s], c>>}
       /\ publisher' = [publisher EXCEPT ![<<app[s], c>>] = NoSession]
       /\ peers' = [peers EXCEPT ![<<app[s], c>>] = {}]
  /\ UNCHANGED <<state, told, recorders>>

\* Variant: FCPublish takes the client id and keeps the old url.
FCPublishKeepsUrl(s) ==
  /\ state[s] \in Connected
  /\ \E c \in Cids : cid' = [cid EXCEPT ![s] = c]
  /\ UNCHANGED <<state, app, url, streams, told, recorders>>

FCPublish(s) ==
  /\ state[s] \in Connected
  /\ \E c \in Cids : Name(s, app[s], c)
  /\ UNCHANGED <<state, streams, told, recorders>>

FCUnpublish(s) ==
  /\ state[s] \in Connected
  /\ cid[s] \in Cids
  /\ url[s] \in live
  /\ Leave(s, url[s])
  /\ UNCHANGED <<state, names>>

\* on_stream_create of my_rtmp_session, for a stream that is not there yet.
Recording(u) ==
  IF u \notin live /\ RecordForce
  THEN /\ recorders[u[2]] < MaxRecorders
       /\ recorders' = [recorders EXCEPT ![u[2]] = @ + 1]
  ELSE UNCHANGED recorders

\* Variant: the session may publish again.
PublishAgain(s) ==
  /\ state[s] \in {"PUBLISH_PLAY", "MEDIA_TRANSFER"}
  /\ state' = [state EXCEPT ![s] = "MEDIA_TRANSFER"]
  /\ \E a \in Apps, c \in Cids :
       /\ Name(s, a, c)
       /\ Recording(<<a, c>>)
       /\ live' = live \cup {<<a, c>>}
       /\ Join(s, <<a, c>>, TRUE)
  /\ told' = [told EXCEPT ![s] = "Start publishing"]

\* The result of join is not looked at.
Publish(s) ==
  /\ Move(s, "PUBLISH_PLAY", "MEDIA_TRANSFER")
  /\ \E a \in Apps, c \in Cids :
       /\ Name(s, a, c)
       /\ Recording(<<a, c>>)
       /\ live' = live \cup {<<a, c>>}
       /\ Join(s, <<a, c>>, TRUE)
  /\ told' = [told EXCEPT ![s] = "Start publishing"]

Play(s) ==
  /\ Move(s, "PUBLISH_PLAY", "MEDIA_TRANSFER")
  /\ \E c \in Cids :
       /\ Name(s, app[s], c)
       /\ Recording(<<app[s], c>>)
       /\ live' = live \cup {<<app[s], c>>}
       /\ Join(s, <<app[s], c>>, FALSE)
  /\ told' = [told EXCEPT ![s] = "Start play"]

-----------------------------------------------------------------------------
(* The end of a connection *)

\* Variant: on_close leaves no stream.
OnCloseStays(s) ==
  /\ state' = [state EXCEPT ![s] = "CLOSE"]
  /\ UNCHANGED <<names, streams, told, recorders>>

OnClose(s) ==
  /\ state' = [state EXCEPT ![s] = "CLOSE"]
  /\ IF url[s] \in live
     THEN Leave(s, url[s])
     ELSE UNCHANGED <<streams, told, recorders>>
  /\ UNCHANGED names

\* A read or a write fails, or a handler returns -1 (a bad handshake, a bad
\* chunk, an unhandled message type).
Fail(s) ==
  /\ state[s] \in Open
  /\ OnClose(s)

\* An audio, video or data message nobody may have sent: the session is not in
\* the state for it, or its stream is gone.  (A message of the publisher is
\* relayed, see StreamRelay; one of another session in a live stream is dropped.)
RejectMedia(s) ==
  /\ state[s] \in Connected
  /\ state[s] = "MEDIA_TRANSFER" => url[s] \notin live
  /\ OnClose(s)

-----------------------------------------------------------------------------

Next ==
  \E s \in Sessions :
    \/ Accept(s) \/ HandleC0C1(s) \/ HandleC2(s) \/ Connect(s) \/ CreateStream(s)
    \/ ReleaseStream(s) \/ FCPublish(s) \/ FCUnpublish(s) \/ Publish(s) \/ Play(s)
    \/ Fail(s) \/ RejectMedia(s)

Spec == Init /\ [][Next]_vars

-----------------------------------------------------------------------------
(* Properties *)

States == {"NONE", "CLOSE"} \cup Open
Statuses == {"nothing", "Start publishing", "Start play", "eof"}

\* Type invariant; a name is complete or empty, and what a session calls its
\* stream follows its own app and cid once it has both.
TypeOK ==
  /\ state \in [Sessions -> States]
  /\ app \in [Sessions -> Apps \cup {NoApp}]
  /\ cid \in [Sessions -> Cids \cup {NoCid}]
  /\ url \in [Sessions -> Urls \cup {NoUrl}]
  /\ \A s \in Sessions : (cid[s] = NoCid) <=> (url[s] = NoUrl)
  /\ live \in SUBSET Urls
  /\ publisher \in [Urls -> Sessions \cup {NoSession}]
  /\ peers \in [Urls -> SUBSET Sessions]
  /\ told \in [Sessions -> Statuses]
  /\ recorders \in [Cids -> 0 .. MaxRecorders]

\* A stream is in the registry exactly while somebody is in it, and its
\* publisher is one of those: neither an empty stream nor a publisher that
\* nobody can end is left behind by any order of joins, leaves and releases.
StreamsInhabited ==
  \A u \in Urls :
    /\ u \in live <=> peers[u] # {}
    /\ publisher[u] # NoSession => publisher[u] \in peers[u]

\* A session is in at most one stream, and only after publish or play: the
\* packets of two streams never mix on one connection.
OneStreamEach ==
  \A u, v \in Urls : \A s \in peers[u] \cap peers[v] :
    u = v /\ state[s] \in {"MEDIA_TRANSFER", "CLOSE"}

\* A closed connection stays behind in a stream only if it took another name
\* (releaseStream, FCPublish) after it had joined: on_close leaves url, and the
\* stream joined is another one.
GhostsAreRenamed ==
  \A u \in Urls : \A s \in peers[u] : state[s] = "CLOSE" => url[s] # u

\* Leaving, by FCUnpublish or by the end of the connection, takes nobody else
\* out of any stream and ends nobody else's publication, even when the session
\* is an old one whose name a new publisher has taken over.
LeavesAlone ==
  [][\A s \in Sessions :
       Fail(s) \/ RejectMedia(s) \/ FCUnpublish(s) =>
         \A u \in Urls, q \in Sessions \ {s} :
           /\ q \in peers[u] => q \in peers'[u]
           /\ q = publisher[u] => q = publisher'[u]]_vars

\* When a publication ends and its stream goes on, everybody left in the
\* stream is told so.
PlayersToldOfEnd ==
  [][\A u \in live \cap live' :
       publisher[u] # NoSession /\ publisher'[u] = NoSession =>
         \A q \in peers'[u] : told'[q] = "eof"]_vars

\* A client that is told "Start publishing" is the publisher of its stream.
PublishStartMeansPublisher ==
  [][\A s \in Sessions :
       told'[s] = "Start publishing" /\ told[s] # "Start publishing" =>
         publisher'[url'[s]] = s]_vars

-----------------------------------------------------------------------------
(* The refinement *)

Others(u) == peers[u] \ {publisher[u]}
Players == [u \in Urls |-> Others(u)]
Ended == [u \in Urls |-> {q \in Others(u) : told[q] = "eof"}]

Streams == INSTANCE LiveStreams WITH
  Names <- Urls,
  Members <- Sessions,
  Nobody <- NoSession,
  players <- Players,
  ended <- Ended

\* The registry keeps the promise of LiveStreams through every renaming: a step
\* concerns one stream at most, its publisher stays until it leaves, players come
\* and go one by one, and an end tells all of them.
ImplementsLiveStreams == Streams!Spec
=============================================================================
