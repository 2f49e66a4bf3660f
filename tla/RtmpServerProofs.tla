-------------------------- MODULE RtmpServerProofs --------------------------
(***************************************************************************)
(* Proofs about RtmpServer for any number of sessions and names.  The four *)
(* invariants the runs check are inductive together: a publication starts  *)
(* in a session that is in no stream yet (OneStreamEach gives it), a leave *)
(* finds the session where its url says (GhostsAreRenamed), and erasing a  *)
(* stream with its last peer erases no publisher (StreamsInhabited).       *)
(***************************************************************************)
EXTENDS RtmpServer, TLAPS

IInv == TypeOK /\ StreamsInhabited /\ OneStreamEach /\ GhostsAreRenamed

LEMMA NamesFacts ==
  /\ NoUrl \notin Urls
  /\ \A a \in Apps \cup {NoApp}, c \in Cids : <<a, c>> \in Urls
  /\ \A u \in Urls : u[2] \in Cids
  BY NamesAssumption DEF Urls, NoUrl

LEMMA InitInvariant == Init => IInv
  <1> SUFFICES ASSUME Init PROVE IInv
    OBVIOUS
  <1>1. TypeOK
    BY RecordAssumption DEF Init, TypeOK, States, Statuses
  <1>2. StreamsInhabited /\ OneStreamEach /\ GhostsAreRenamed
    BY DEF Init, StreamsInhabited, OneStreamEach, GhostsAreRenamed
  <1> QED
    BY <1>1, <1>2 DEF IInv

-----------------------------------------------------------------------------
(* What the helpers do to the registry *)

\* A session that leaves a live stream is out of it, and everybody else stays
\* where they were.
LEMMA LeaveFacts ==
  ASSUME IInv, NEW s \in Sessions, NEW u \in live, Leave(s, u)
  PROVE  /\ live' \in SUBSET Urls
         /\ publisher' \in [Urls -> Sessions \cup {NoSession}]
         /\ peers' \in [Urls -> SUBSET Sessions]
         /\ told' \in [Sessions -> Statuses]
         /\ recorders' \in [Cids -> 0 .. MaxRecorders]
         /\ peers'[u] = peers[u] \ {s}
         /\ \A v \in Urls \ {u} : peers'[v] = peers[v] /\ publisher'[v] = publisher[v]
         /\ \A q \in Sessions \ {s} : q = publisher[u] => q = publisher'[u]
         /\ StreamsInhabited'
  <1> USE DEF IInv, Leave
  <1>1. u \in Urls
    BY DEF TypeOK
  <1>2. recorders' \in [Cids -> 0 .. MaxRecorders]
    BY <1>1, NamesFacts, RecordAssumption DEF TypeOK
  <1>3. /\ live' \in SUBSET Urls
        /\ publisher' \in [Urls -> Sessions \cup {NoSession}]
        /\ peers' \in [Urls -> SUBSET Sessions]
        /\ told' \in [Sessions -> Statuses]
    BY <1>1 DEF TypeOK, Statuses
  <1>4. peers'[u] = peers[u] \ {s}
    BY <1>1 DEF TypeOK
  <1>5. \A v \in Urls \ {u} : peers'[v] = peers[v] /\ publisher'[v] = publisher[v]
    BY <1>1 DEF TypeOK
  <1>6. \A q \in Sessions \ {s} : q = publisher[u] => q = publisher'[u]
    BY <1>1, SessionsAssumption DEF TypeOK, StreamsInhabited
  <1>7. StreamsInhabited'
    <2> SUFFICES ASSUME NEW v \in Urls
                 PROVE  /\ v \in live' <=> peers'[v] # {}
                        /\ publisher'[v] # NoSession => publisher'[v] \in peers'[v]
      BY DEF StreamsInhabited
    <2>1. CASE v = u
      BY <1>1, <1>4, <2>1 DEF TypeOK, StreamsInhabited
    <2>2. CASE v # u
      BY <1>5, <2>2 DEF StreamsInhabited
    <2> QED
      BY <2>1, <2>2
  <1> QED
    BY <1>2, <1>3, <1>4, <1>5, <1>6, <1>7

\* join adds a session that is in no stream to one stream, which is then live,
\* unless the stream has a publisher and the session wants to be it.
LEMMA JoinFacts ==
  ASSUME IInv, NEW s \in Sessions, NEW u \in Urls, NEW publishing \in BOOLEAN,
         Join(s, u, publishing), live' = live \cup {u}
  PROVE  /\ live' \in SUBSET Urls
         /\ publisher' \in [Urls -> Sessions \cup {NoSession}]
         /\ peers' \in [Urls -> SUBSET Sessions]
         /\ \A v \in Urls : peers'[v] \subseteq peers[v] \cup {s}
         /\ \A v \in Urls \ {u} : peers'[v] = peers[v]
         /\ StreamsInhabited'
  <1> USE DEF IInv, Join
  <1>1. CASE publishing /\ publisher[u] # NoSession
    BY <1>1 DEF TypeOK, StreamsInhabited
  <1>2. CASE ~(publishing /\ publisher[u] # NoSession)
    <2>1. peers' = [peers EXCEPT ![u] = peers[u] \cup {s}]
      BY <1>2
    <2>2. publisher' = IF publishing THEN [publisher EXCEPT ![u] = s] ELSE publisher
      BY <1>2
    <2>3. live' \in SUBSET Urls
      BY DEF TypeOK
    <2>4. publisher' \in [Urls -> Sessions \cup {NoSession}]
      BY <2>2 DEF TypeOK
    <2>5. peers' \in [Urls -> SUBSET Sessions]
      BY <2>1 DEF TypeOK
    <2>6. peers'[u] = peers[u] \cup {s} /\ \A v \in Urls \ {u} : peers'[v] = peers[v]
      BY <2>1 DEF TypeOK
    <2>7. StreamsInhabited'
      <3> SUFFICES ASSUME NEW v \in Urls
                   PROVE  /\ v \in live' <=> peers'[v] # {}
                          /\ publisher'[v] # NoSession => publisher'[v] \in peers'[v]
        BY DEF StreamsInhabited
      <3>1. CASE v = u
        BY <2>2, <2>6, <3>1 DEF TypeOK, StreamsInhabited
      <3>2. CASE v # u
        <4>1. publisher'[v] = publisher[v]
          BY <2>2, <3>2 DEF TypeOK
        <4> QED
          BY <2>6, <3>2, <4>1 DEF StreamsInhabited
      <3> QED
        BY <3>1, <3>2
    <2> QED
      BY <2>3, <2>4, <2>5, <2>6, <2>7
  <1> QED
    BY <1>1, <1>2

LEMMA RecordingFacts ==
  ASSUME TypeOK, NEW u \in Urls, Recording(u)
  PROVE  recorders' \in [Cids -> 0 .. MaxRecorders]
  <1>1. CASE u \notin live /\ RecordForce
    <2>1. u[2] \in Cids /\ recorders[u[2]] \in 0 .. MaxRecorders
      BY NamesFacts DEF TypeOK
    <2>2. recorders[u[2]] + 1 \in 0 .. MaxRecorders
      BY <1>1, <2>1, RecordAssumption DEF Recording
    <2> QED
      BY <1>1, <2>1, <2>2 DEF Recording, TypeOK
  <1>2. CASE ~(u \notin live /\ RecordForce)
    BY <1>2 DEF Recording, TypeOK
  <1> QED
    BY <1>1, <1>2

-----------------------------------------------------------------------------
(* Each action preserves the invariant. *)

\* A step that moves a session between the open states and touches no stream.
LEMMA MoveInvariant ==
  ASSUME IInv, NEW s \in Sessions, NEW to \in Open,
         \/ state[s] = "NONE" /\ to = "INIT"
         \/ state[s] \in {"INIT", "HANDSHAKE_C2", "CONNECT", "CREATE_STREAM"},
         state' = [state EXCEPT ![s] = to],
         app' \in [Sessions -> Apps \cup {NoApp}],
         UNCHANGED <<cid, url, streams, told, recorders>>
  PROVE  IInv'
  <1> USE DEF IInv, streams
  <1>1. TypeOK'
    BY DEF TypeOK, States
  <1>2. \A u \in Urls : s \notin peers[u]
    BY DEF TypeOK, OneStreamEach
  <1>3. StreamsInhabited'
    BY DEF StreamsInhabited
  <1>4. OneStreamEach' /\ GhostsAreRenamed'
    BY <1>2 DEF TypeOK, OneStreamEach, GhostsAreRenamed, Open, Connected
  <1> QED
    BY <1>1, <1>3, <1>4

\* The names of a session that is not closed may change at any time.
LEMMA NameFacts ==
  ASSUME TypeOK, NEW s \in Sessions, NEW a \in Apps \cup {NoApp}, NEW c \in Cids,
         Name(s, a, c)
  PROVE  /\ app' \in [Sessions -> Apps \cup {NoApp}]
         /\ cid' \in [Sessions -> Cids \cup {NoCid}]
         /\ url' \in [Sessions -> Urls \cup {NoUrl}]
         /\ \A q \in Sessions : (cid'[q] = NoCid) <=> (url'[q] = NoUrl)
         /\ \A q \in Sessions \ {s} : url'[q] = url[q]
  BY NamesFacts, NamesAssumption DEF Name, TypeOK

LEMMA RenameInvariant ==
  ASSUME IInv, NEW s \in Sessions, ReleaseStream(s) \/ FCPublish(s)
  PROVE  IInv'
  <1> USE DEF IInv
  <1>1. CASE ReleaseStream(s)
    <2>1. PICK c \in Cids :
            /\ Name(s, app[s], c)
            /\ live' = live \ {<<app[s], c>>}
            /\ publisher' = [publisher EXCEPT ![<<app[s], c>>] = NoSession]
            /\ peers' = [peers EXCEPT ![<<app[s], c>>] = {}]
      BY <1>1 DEF ReleaseStream
    <2>2. app[s] \in Apps \cup {NoApp}
      BY DEF TypeOK
    <2> DEFINE u == <<app[s], c>>
    <2>3. u \in Urls
      BY <2>2, NamesFacts
    <2>4. /\ live' = live \ {u}
          /\ publisher' = [publisher EXCEPT ![u] = NoSession]
          /\ peers' = [peers EXCEPT ![u] = {}]
      BY <2>1
    <2> HIDE DEF u
    <2>5. state' = state /\ told' = told /\ recorders' = recorders
      BY <1>1 DEF ReleaseStream
    <2>6. TypeOK'
      BY <2>1, <2>2, <2>3, <2>4, <2>5, NameFacts DEF TypeOK
    <2>7. StreamsInhabited'
      BY <2>3, <2>4 DEF TypeOK, StreamsInhabited
    <2>8. \A v \in Urls : peers'[v] \subseteq peers[v]
      BY <2>3, <2>4 DEF TypeOK
    <2>9. OneStreamEach'
      BY <2>5, <2>8 DEF OneStreamEach
    <2>10. GhostsAreRenamed'
      <3>1. state[s] # "CLOSE"
        BY <1>1 DEF ReleaseStream, Connected
      <3>2. \A q \in Sessions \ {s} : url'[q] = url[q]
        BY <2>1, <2>2, NameFacts
      <3> QED
        BY <2>5, <2>8, <3>1, <3>2 DEF TypeOK, GhostsAreRenamed
    <2> QED
      BY <2>6, <2>7, <2>9, <2>10
  <1>2. CASE FCPublish(s)
    <2>1. PICK c \in Cids : Name(s, app[s], c)
      BY <1>2 DEF FCPublish
    <2>2. app[s] \in Apps \cup {NoApp}
      BY DEF TypeOK
    <2>3. UNCHANGED <<state, live, publisher, peers, told, recorders>>
      BY <1>2 DEF FCPublish, streams
    <2>4. TypeOK'
      BY <2>1, <2>2, <2>3, NameFacts DEF TypeOK
    <2>5. StreamsInhabited' /\ OneStreamEach'
      BY <2>3 DEF StreamsInhabited, OneStreamEach
    <2>6. GhostsAreRenamed'
      <3>1. state[s] # "CLOSE"
        BY <1>2 DEF FCPublish, Connected
      <3>2. \A q \in Sessions \ {s} : url'[q] = url[q]
        BY <2>1, <2>2, NameFacts
      <3> QED
        BY <2>3, <3>1, <3>2 DEF TypeOK, GhostsAreRenamed
    <2> QED
      BY <2>4, <2>5, <2>6
  <1> QED
    BY <1>1, <1>2

LEMMA UnpublishInvariant ==
  ASSUME IInv, NEW s \in Sessions, FCUnpublish(s)
  PROVE  IInv'
  <1> USE DEF IInv
  <1>1. url[s] \in live /\ Leave(s, url[s])
    BY DEF FCUnpublish
  <1>2. UNCHANGED <<state, app, cid, url>>
    BY DEF FCUnpublish, names
  <1>3. TypeOK'
    BY <1>1, <1>2, LeaveFacts DEF TypeOK
  <1>4. StreamsInhabited'
    BY <1>1, LeaveFacts
  <1>5. \A v \in Urls : peers'[v] \subseteq peers[v]
    BY <1>1, LeaveFacts
  <1>6. OneStreamEach' /\ GhostsAreRenamed'
    BY <1>2, <1>5 DEF OneStreamEach, GhostsAreRenamed
  <1> QED
    BY <1>3, <1>4, <1>6

\* publish and play: the session is in no stream before.
LEMMA JoinInvariant ==
  ASSUME IInv, NEW s \in Sessions, Publish(s) \/ Play(s)
  PROVE  IInv'
  <1> USE DEF IInv
  <1>1. PICK a \in Apps \cup {NoApp}, c \in Cids, publishing \in BOOLEAN :
          /\ Name(s, a, c)
          /\ Recording(<<a, c>>)
          /\ live' = live \cup {<<a, c>>}
          /\ Join(s, <<a, c>>, publishing)
    <2>1. app[s] \in Apps \cup {NoApp}
      BY DEF TypeOK
    <2> QED
      BY <2>1 DEF Publish, Play
  <1>2. /\ state[s] = "PUBLISH_PLAY"
        /\ state' = [state EXCEPT ![s] = "MEDIA_TRANSFER"]
        /\ told' \in [Sessions -> Statuses]
    BY DEF Publish, Play, Move, TypeOK, Statuses
  <1> DEFINE u == <<a, c>>
  <1>3. u \in Urls
    BY NamesFacts
  <1>4. Recording(u) /\ live' = live \cup {u} /\ Join(s, u, publishing)
    BY <1>1
  <1> HIDE DEF u
  <1>5. TypeOK'
    <2>1. recorders' \in [Cids -> 0 .. MaxRecorders]
      BY <1>3, <1>4, RecordingFacts
    <2>2. state' \in [Sessions -> States]
      BY <1>2 DEF TypeOK, States, Open, Connected
    <2>3. /\ live' \in SUBSET Urls
          /\ publisher' \in [Urls -> Sessions \cup {NoSession}]
          /\ peers' \in [Urls -> SUBSET Sessions]
      BY <1>3, <1>4, JoinFacts
    <2>4. /\ app' \in [Sessions -> Apps \cup {NoApp}]
          /\ cid' \in [Sessions -> Cids \cup {NoCid}]
          /\ url' \in [Sessions -> Urls \cup {NoUrl}]
          /\ \A q \in Sessions : (cid'[q] = NoCid) <=> (url'[q] = NoUrl)
      BY <1>1, NameFacts
    <2> QED
      BY <1>2, <2>1, <2>2, <2>3, <2>4 DEF TypeOK
  <1>6. StreamsInhabited'
    BY <1>3, <1>4, JoinFacts
  <1>7. \A v \in Urls : s \notin peers[v]
    BY <1>2 DEF OneStreamEach
  <1>8. /\ \A v \in Urls : peers'[v] \subseteq peers[v] \cup {s}
        /\ \A v \in Urls \ {u} : peers'[v] = peers[v]
    BY <1>3, <1>4, JoinFacts
  <1>9. state'[s] = "MEDIA_TRANSFER" /\ \A q \in Sessions \ {s} : state'[q] = state[q]
    BY <1>2 DEF TypeOK
  <1>10. OneStreamEach'
    <2> SUFFICES ASSUME NEW v \in Urls, NEW w \in Urls, NEW q \in peers'[v] \cap peers'[w]
                 PROVE  v = w /\ state'[q] \in {"MEDIA_TRANSFER", "CLOSE"}
      BY DEF OneStreamEach
    <2>1. CASE q = s
      BY <1>7, <1>8, <1>9, <2>1
    <2>2. CASE q # s
      <3>1. q \in peers[v] /\ q \in peers[w] /\ q \in Sessions
        BY <1>8, <2>2 DEF TypeOK
      <3> QED
        BY <1>9, <2>2, <3>1 DEF OneStreamEach
    <2> QED
      BY <2>1, <2>2
  <1>11. GhostsAreRenamed'
    <2> SUFFICES ASSUME NEW v \in Urls, NEW q \in peers'[v], state'[q] = "CLOSE"
                 PROVE  url'[q] # v
      BY DEF GhostsAreRenamed
    <2>1. q # s
      BY <1>9
    <2>2. q \in peers[v] /\ q \in Sessions
      BY <1>8, <2>1 DEF TypeOK
    <2>3. url'[q] = url[q]
      BY <1>1, <2>1, <2>2, NameFacts
    <2> QED
      BY <1>9, <2>1, <2>2, <2>3 DEF GhostsAreRenamed
  <1> QED
    BY <1>5, <1>6, <1>10, <1>11

\* The end of a connection.
LEMMA CloseInvariant ==
  ASSUME IInv, NEW s \in Sessions, OnClose(s)
  PROVE  IInv'
  <1> USE DEF IInv
  <1>1. UNCHANGED <<app, cid, url>> /\ state' = [state EXCEPT ![s] = "CLOSE"]
    BY DEF OnClose, names
  <1>2. state' \in [Sessions -> States]
    BY <1>1 DEF TypeOK, States
  <1>3. TypeOK' /\ StreamsInhabited'
    <2>1. CASE url[s] \in live
      <3>1. Leave(s, url[s])
        BY <2>1 DEF OnClose
      <3> QED
        BY <1>1, <1>2, <2>1, <3>1, LeaveFacts DEF TypeOK
    <2>2. CASE url[s] \notin live
      BY <1>1, <1>2, <2>2 DEF OnClose, streams, TypeOK, StreamsInhabited
    <2> QED
      BY <2>1, <2>2
  <1>4. /\ \A v \in Urls : peers'[v] \subseteq peers[v]
        /\ url[s] \in Urls => s \notin peers'[url[s]]
    <2>1. CASE url[s] \in live
      <3>1. Leave(s, url[s])
        BY <2>1 DEF OnClose
      <3> QED
        BY <2>1, <3>1, LeaveFacts
    <2>2. CASE url[s] \notin live
      BY <2>2 DEF OnClose, streams, StreamsInhabited
    <2> QED
      BY <2>1, <2>2
  <1>5. OneStreamEach'
    BY <1>1, <1>4 DEF TypeOK, OneStreamEach
  <1>6. GhostsAreRenamed'
    BY <1>1, <1>4 DEF TypeOK, GhostsAreRenamed
  <1> QED
    BY <1>3, <1>5, <1>6

-----------------------------------------------------------------------------

LEMMA NextInvariant == IInv /\ [Next]_vars => IInv'
  <1> SUFFICES ASSUME IInv, [Next]_vars PROVE IInv'
    OBVIOUS
  <1>1. ASSUME NEW s \in Sessions,
               Accept(s) \/ HandleC0C1(s) \/ HandleC2(s) \/ CreateStream(s)
        PROVE  IInv'
    BY <1>1, MoveInvariant
       DEF Accept, HandleC0C1, HandleC2, CreateStream, Move, names, Open,
           Connected, IInv, TypeOK
  <1>2. ASSUME NEW s \in Sessions, Connect(s) PROVE IInv'
    <2>1. app' \in [Sessions -> Apps \cup {NoApp}]
      BY <1>2 DEF Connect, IInv, TypeOK
    <2>2. "CREATE_STREAM" \in Open
      BY DEF Open, Connected
    <2> QED
      BY <1>2, <2>1, <2>2, MoveInvariant DEF Connect, Move
  <1>3. ASSUME NEW s \in Sessions, Fail(s) \/ RejectMedia(s) PROVE IInv'
    BY <1>3, CloseInvariant DEF Fail, RejectMedia
  <1>4. CASE UNCHANGED vars
    BY <1>4 DEF vars, IInv, TypeOK, StreamsInhabited, OneStreamEach,
                GhostsAreRenamed
  <1> QED
    BY <1>1, <1>2, <1>3, <1>4, RenameInvariant, UnpublishInvariant,
       JoinInvariant
       DEF Next

\* The four invariants hold in every reachable state.
THEOREM Invariance == Spec => []IInv
  BY InitInvariant, NextInvariant, PTL DEF Spec

\* The types of the registry and of the sessions.
THEOREM TypeCorrect == Spec => []TypeOK
  BY Invariance, PTL DEF IInv

\* The registry holds no empty stream and no publisher outside its stream.
THEOREM Inhabited == Spec => []StreamsInhabited
  BY Invariance, PTL DEF IInv

\* No connection is ever in two streams, or in one before publish or play.
THEOREM OneStream == Spec => []OneStreamEach
  BY Invariance, PTL DEF IInv

\* A closed connection that is still in a stream had changed its name.
THEOREM Ghosts == Spec => []GhostsAreRenamed
  BY Invariance, PTL DEF IInv

\* No connection that leaves takes another one out of its stream, or ends
\* another one's publication.
THEOREM LeavingIsOwn == Spec => LeavesAlone
  <1>1. ASSUME IInv, NEW s \in Sessions,
               Fail(s) \/ RejectMedia(s) \/ FCUnpublish(s),
               NEW u \in Urls, NEW q \in Sessions \ {s}
        PROVE  /\ q \in peers[u] => q \in peers'[u]
               /\ q = publisher[u] => q = publisher'[u]
    <2>1. CASE url[s] \in live
      <3>1. Leave(s, url[s])
        BY <1>1, <2>1 DEF Fail, RejectMedia, OnClose, FCUnpublish
      <3> QED
        BY <1>1, <2>1, <3>1, LeaveFacts
    <2>2. CASE url[s] \notin live
      <3>1. UNCHANGED <<publisher, peers>>
        BY <1>1, <2>2 DEF Fail, RejectMedia, OnClose, FCUnpublish, streams
      <3> QED
        BY <3>1
    <2> QED
      BY <2>1, <2>2
  <1>2. IInv => [\A s \in Sessions :
                   Fail(s) \/ RejectMedia(s) \/ FCUnpublish(s) =>
                     \A u \in Urls, q \in Sessions \ {s} :
                       /\ q \in peers[u] => q \in peers'[u]
                       /\ q = publisher[u] => q = publisher'[u]]_vars
    BY <1>1
  <1> QED
    BY <1>2, Invariance, PTL DEF LeavesAlone

\* Nobody left in a stream misses the end of its publication.
THEOREM EndIsTold == Spec => PlayersToldOfEnd
  <1> DEFINE Told == \A u \in live \cap live' :
                       publisher[u] # NoSession /\ publisher'[u] = NoSession =>
                         \A q \in peers'[u] : told'[q] = "eof"
  <1>1. ASSUME IInv, NEW s \in Sessions, NEW u \in live, Leave(s, u)
        PROVE  Told
    <2> SUFFICES ASSUME NEW v \in live \cap live', publisher[v] # NoSession,
                        publisher'[v] = NoSession, NEW q \in peers'[v]
                 PROVE  told'[q] = "eof"
      OBVIOUS
    <2>1. v = u /\ v \in Urls
      BY <1>1, LeaveFacts DEF IInv, TypeOK
    <2>2. peers'[u] = peers[u] \ {s} /\ q \in Sessions
      BY <1>1, <2>1, LeaveFacts DEF IInv, TypeOK
    <2>3. s = publisher[u]
      BY <1>1, <2>1, <2>2, LeaveFacts DEF IInv, TypeOK
    <2> QED
      BY <1>1, <2>1, <2>2, <2>3 DEF Leave
  <1>2. ASSUME IInv, NEW s \in Sessions, ReleaseStream(s)
        PROVE  Told
    BY <1>2 DEF ReleaseStream, IInv, TypeOK
  <1>3. ASSUME IInv, NEW s \in Sessions, Publish(s) \/ Play(s)
        PROVE  Told
    <2>1. PICK u \in Urls, publishing \in BOOLEAN : Join(s, u, publishing)
      <3>1. app[s] \in Apps \cup {NoApp}
        BY <1>3 DEF IInv, TypeOK
      <3> QED
        BY <1>3, <3>1, NamesFacts DEF Publish, Play
    <2>2. \A v \in Urls : publisher[v] # NoSession => publisher'[v] # NoSession
      BY <1>3, <2>1, SessionsAssumption DEF Join, IInv, TypeOK
    <2> QED
      BY <1>3, <2>2 DEF IInv, TypeOK
  <1>4. ASSUME UNCHANGED publisher
        PROVE  Told
    BY <1>4
  <1>5. IInv /\ [Next]_vars => [Told]_vars
    <2> SUFFICES ASSUME IInv, Next PROVE Told
      OBVIOUS
    <2>1. ASSUME NEW s \in Sessions, Fail(s) \/ RejectMedia(s) \/ FCUnpublish(s)
          PROVE  Told
      <3>1. (url[s] \in live /\ Leave(s, url[s])) \/ UNCHANGED publisher
        BY <2>1 DEF Fail, RejectMedia, OnClose, FCUnpublish, streams
      <3> QED
        BY <1>1, <1>4, <2>1, <3>1
    <2>2. ASSUME NEW s \in Sessions,
                 \/ Accept(s) \/ HandleC0C1(s) \/ HandleC2(s) \/ Connect(s)
                 \/ CreateStream(s) \/ FCPublish(s)
          PROVE  Told
      BY <1>4, <2>2 DEF Accept, HandleC0C1, HandleC2, Connect, CreateStream,
                        FCPublish, streams
    <2> QED
      BY <1>2, <1>3, <2>1, <2>2 DEF Next
  <1> QED
    BY <1>5, Invariance, PTL DEF Spec, PlayersToldOfEnd

-----------------------------------------------------------------------------
(* Each action is a step of LiveStreams, or changes nothing of it. *)

StreamsStep == [Streams!Next]_(Streams!vars)

LEMMA SameStreams ==
  ASSUME UNCHANGED publisher,
         \A u \in Urls : peers'[u] = peers[u],
         \A u \in Urls : \A q \in peers[u] : told'[q] = told[q]
  PROVE  StreamsStep
  <1>1. Players' = Players
    BY DEF Players, Others
  <1>2. Ended' = Ended
    BY DEF Ended, Others
  <1> QED
    BY <1>1, <1>2 DEF StreamsStep, Streams!vars

LEMMA DiscardImplements ==
  ASSUME IInv, NEW s \in Sessions, ReleaseStream(s)
  PROVE  StreamsStep
  <1> USE DEF IInv
  <1>1. PICK c \in Cids :
          /\ publisher' = [publisher EXCEPT ![<<app[s], c>>] = NoSession]
          /\ peers' = [peers EXCEPT ![<<app[s], c>>] = {}]
    BY DEF ReleaseStream
  <1> DEFINE u == <<app[s], c>>
  <1>2. u \in Urls
    BY NamesFacts DEF TypeOK
  <1>3. /\ publisher' = [publisher EXCEPT ![u] = NoSession]
        /\ peers' = [peers EXCEPT ![u] = {}]
        /\ told' = told
    BY <1>1 DEF ReleaseStream
  <1> HIDE DEF u
  <1>4. Players' = [Players EXCEPT ![u] = {}]
    BY <1>2, <1>3 DEF TypeOK, Players, Others
  <1>5. Ended' = [Ended EXCEPT ![u] = {}]
    BY <1>2, <1>3 DEF TypeOK, Ended, Others
  <1>6. Streams!Discard(u)
    BY <1>3, <1>4, <1>5 DEF Streams!Discard
  <1> QED
    BY <1>2, <1>6 DEF StreamsStep, Streams!Next

LEMMA PublishImplements ==
  ASSUME IInv, NEW s \in Sessions, Publish(s)
  PROVE  StreamsStep
  <1> USE DEF IInv
  <1>1. PICK u \in Urls : Join(s, u, TRUE)
    BY NamesFacts DEF Publish
  <1>2. \A v \in Urls : s \notin peers[v]
    BY DEF Publish, Move, OneStreamEach
  <1>3. \A v \in Urls : \A q \in peers[v] : told'[q] = told[q]
    BY <1>2 DEF Publish, TypeOK
  <1>4. CASE publisher[u] # NoSession
    BY <1>1, <1>3, <1>4, SameStreams DEF Join
  <1>5. CASE publisher[u] = NoSession
    <2>1. /\ publisher' = [publisher EXCEPT ![u] = s]
          /\ peers' = [peers EXCEPT ![u] = peers[u] \cup {s}]
      BY <1>1, <1>5 DEF Join
    <2>2. /\ \A v \in Urls \ {u} : peers'[v] = peers[v] /\ publisher'[v] = publisher[v]
          /\ peers'[u] = peers[u] \cup {s} /\ publisher'[u] = s
      BY <2>1 DEF TypeOK
    <2>3. \A v \in Urls : Others(v)' = Others(v)
      BY <1>2, <1>5, <2>2, SessionsAssumption DEF TypeOK, Others
    <2>4. Players' = Players
      BY <2>3 DEF Players
    <2>5. Ended' = Ended
      <3>1. \A v \in Urls : \A q \in Others(v) : told'[q] = told[q]
        BY <1>3 DEF Others
      <3> QED
        BY <2>3, <3>1 DEF Ended
    <2>6. Streams!Publish(u, s)
      BY <1>5, <2>1, <2>4, <2>5 DEF Streams!Publish
    <2> QED
      BY <2>6 DEF StreamsStep, Streams!Next
  <1> QED
    BY <1>4, <1>5

LEMMA PlayImplements ==
  ASSUME IInv, NEW s \in Sessions, Play(s)
  PROVE  StreamsStep
  <1> USE DEF IInv
  <1>1. PICK u \in Urls : Join(s, u, FALSE)
    BY NamesFacts DEF Play, TypeOK
  <1>2. \A v \in Urls : s \notin peers[v] /\ s # publisher[v]
    BY SessionsAssumption DEF Play, Move, OneStreamEach, StreamsInhabited
  <1>3. told'[s] = "Start play" /\ \A q \in Sessions \ {s} : told'[q] = told[q]
    BY DEF Play, TypeOK
  <1>4. publisher' = publisher /\ peers' = [peers EXCEPT ![u] = peers[u] \cup {s}]
    BY <1>1 DEF Join
  <1>5. /\ \A v \in Urls \ {u} : Others(v)' = Others(v)
        /\ Others(u)' = Others(u) \cup {s}
        /\ \A v \in Urls : s \notin Others(v) /\ Others(v) \subseteq Sessions
    BY <1>2, <1>4 DEF TypeOK, Others
  <1>6. Players' = [Players EXCEPT ![u] = Players[u] \cup {s}]
    BY <1>5 DEF Players
  <1>7. Ended' = Ended
    <2>1. ASSUME NEW v \in Urls
          PROVE  {q \in Others(v)' : told'[q] = "eof"} = {q \in Others(v) : told[q] = "eof"}
      BY <1>3, <1>5
    <2> QED
      BY <2>1 DEF Ended
  <1>8. s \notin Players[u]
    BY <1>5 DEF Players
  <1>9. Streams!Play(u, s)
    BY <1>4, <1>6, <1>7, <1>8 DEF Streams!Play
  <1> QED
    BY <1>9 DEF StreamsStep, Streams!Next

\* Who leaves is the publisher, a player, or nobody of that stream.
LEMMA LeaveImplements ==
  ASSUME IInv, NEW s \in Sessions, NEW u \in live, Leave(s, u)
  PROVE  StreamsStep
  <1> USE DEF IInv
  <1>1. u \in Urls /\ peers[u] # {} /\ publisher[u] \in peers[u] \cup {NoSession}
    BY DEF TypeOK, StreamsInhabited
  <1>2. /\ peers'[u] = peers[u] \ {s}
        /\ \A v \in Urls \ {u} : peers'[v] = peers[v] /\ publisher'[v] = publisher[v]
    BY LeaveFacts
  <1>3. \A v \in Urls : NoSession \notin peers[v] /\ peers[v] \subseteq Sessions
    BY SessionsAssumption DEF TypeOK
  <1>4. CASE s = publisher[u]
    <2>1. /\ publisher' = [publisher EXCEPT ![u] = NoSession]
          /\ \A q \in Sessions :
               told'[q] = IF q \in peers[u] \ {s} THEN "eof" ELSE told[q]
      BY <1>4 DEF Leave
    <2>2. /\ \A v \in Urls : Others(v)' = Others(v)
          /\ Others(u) = peers[u] \ {s}
      BY <1>1, <1>2, <1>3, <1>4, <2>1 DEF TypeOK, Others
    <2>3. Players' = Players
      BY <2>2 DEF Players
    <2>4. Ended' = [Ended EXCEPT ![u] = Players[u]]
      <3>1. {q \in Others(u)' : told'[q] = "eof"} = Others(u)
        BY <1>1, <1>3, <2>1, <2>2
      <3>2. ASSUME NEW v \in Urls \ {u}
            PROVE  {q \in Others(v)' : told'[q] = "eof"} = {q \in Others(v) : told[q] = "eof"}
        <4>1. \A q \in Others(v) : q \in Sessions /\ q \notin peers[u]
          BY <1>1, <1>3 DEF Others, OneStreamEach
        <4> QED
          BY <2>1, <2>2, <4>1
      <3> QED
        BY <1>1, <3>1, <3>2 DEF Ended, Players
    <2>5. Streams!End(u)
      BY <1>4, <2>1, <2>3, <2>4, SessionsAssumption DEF Streams!End
    <2> QED
      BY <1>1, <2>5 DEF StreamsStep, Streams!Next
  <1>5. CASE s # publisher[u]
    <2>1. told' = told
      BY <1>5 DEF Leave, TypeOK
    <2>2. publisher' = publisher
      <3>1. CASE peers[u] \ {s} = {}
        <4>1. publisher[u] = NoSession
          BY <1>1, <1>5, <3>1
        <4> QED
          BY <1>1, <1>5, <3>1, <4>1 DEF Leave, TypeOK
      <3>2. CASE peers[u] \ {s} # {}
        BY <1>5, <3>2 DEF Leave
      <3> QED
        BY <3>1, <3>2
    <2>3. CASE s \notin peers[u]
      <3>1. \A v \in Urls : peers'[v] = peers[v]
        BY <1>2, <2>3
      <3> QED
        BY <2>1, <2>2, <3>1, SameStreams
    <2>4. CASE s \in peers[u]
      <3>1. /\ Others(u)' = Others(u) \ {s}
            /\ \A v \in Urls \ {u} : Others(v)' = Others(v)
            /\ s \in Others(u)
        BY <1>2, <1>5, <2>2, <2>4 DEF Others
      <3>2. Players' = [Players EXCEPT ![u] = Players[u] \ {s}]
        BY <1>1, <3>1 DEF Players
      <3>3. Ended' = [Ended EXCEPT ![u] = Ended[u] \ {s}]
        <4>1. {q \in Others(u) \ {s} : told[q] = "eof"}
                = {q \in Others(u) : told[q] = "eof"} \ {s}
          OBVIOUS
        <4> QED
          BY <1>1, <2>1, <3>1, <4>1 DEF Ended
      <3>4. s \in Players[u]
        BY <1>1, <3>1 DEF Players
      <3>5. Streams!Leave(u, s)
        BY <2>2, <3>2, <3>3, <3>4 DEF Streams!Leave
      <3> QED
        BY <1>1, <3>5 DEF StreamsStep, Streams!Next
    <2> QED
      BY <2>3, <2>4
  <1> QED
    BY <1>4, <1>5

LEMMA NextImplements == IInv /\ [Next]_vars => StreamsStep
  <1> SUFFICES ASSUME IInv, [Next]_vars PROVE StreamsStep
    OBVIOUS
  <1>1. ASSUME NEW s \in Sessions, Fail(s) \/ RejectMedia(s) \/ FCUnpublish(s)
        PROVE  StreamsStep
    <2>1. \/ url[s] \in live /\ Leave(s, url[s])
          \/ UNCHANGED <<publisher, peers, told>>
      BY <1>1 DEF Fail, RejectMedia, OnClose, FCUnpublish, streams
    <2> QED
      BY <2>1, LeaveImplements, SameStreams
  <1>2. ASSUME NEW s \in Sessions,
               \/ Accept(s) \/ HandleC0C1(s) \/ HandleC2(s) \/ Connect(s)
               \/ CreateStream(s) \/ FCPublish(s)
        PROVE  StreamsStep
    BY <1>2, SameStreams DEF Accept, HandleC0C1, HandleC2, Connect, CreateStream,
                             FCPublish, streams
  <1>3. CASE UNCHANGED vars
    BY <1>3, SameStreams DEF vars
  <1> QED
    BY <1>1, <1>2, <1>3, DiscardImplements, PublishImplements, PlayImplements
       DEF Next

\* The registry implements LiveStreams: a step concerns one stream at most, a
\* publisher stays until it leaves, and its end is told to all who remain.
THEOREM Implementation == Spec => ImplementsLiveStreams
  <1>1. Init => Streams!Init
    <2> SUFFICES ASSUME Init PROVE Streams!Init
      OBVIOUS
    <2>1. Players = [u \in Urls |-> {}]
      BY DEF Init, Players, Others
    <2>2. Ended = [u \in Urls |-> {}]
      BY DEF Init, Ended, Others
    <2> QED
      BY <2>1, <2>2 DEF Init, Streams!Init
  <1> QED
    BY <1>1, NextImplements, Invariance, PTL
       DEF Spec, ImplementsLiveStreams, Streams!Spec, StreamsStep

=============================================================================
