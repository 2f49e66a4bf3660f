---------------------------- MODULE StreamRelay ----------------------------
(***************************************************************************)
(* The media of one stream: the packets of its publisher, the cache of the *)
(* last group of pictures (gop_cache), and what each player is written.    *)
(* A player that joins is written nothing until the next packet comes; it  *)
(* then gets the whole cache, that packet included, and from there on      *)
(* every packet.  The cache belongs to the stream: it outlives the         *)
(* publisher, as long as a player keeps the stream in the registry.        *)
(*                                                                         *)
(* A packet is its number: sent holds the kind of every packet and of      *)
(* every end of stream, in the order they came.  The handlers run on one   *)
(* thread, one action each.  Variant marks a definition with a plausible   *)
(* mistake, used by no action.                                             *)
(***************************************************************************)
EXTENDS Naturals, Sequences, FiniteSets

CONSTANTS Players, MaxEvents

ASSUME MaxEventsAssumption == MaxEvents \in Nat

Headers == {"metadata", "videoHeader", "audioHeader"}
Frames == {"key", "inter", "audio"}
Kinds == Headers \cup Frames

VARIABLES
  sent,        \* the kinds of the packets and ends of stream so far
  born,        \* how many of them came before the stream was created
  publishing,  \* the stream has a publisher
  header,      \* the last packet of each kind of header, 0 if none
  pkts,        \* the packets of the cache
  status,      \* "out", "waiting" (peers_ flag false) or "flowing" (true)
  out,         \* the packets and ends of stream each player was written
  since        \* the packet at which each player was written the cache

vars == <<sent, born, publishing, header, pkts, status, out, since>>
cache == <<born, header, pkts>>

NoHeader == [h \in Headers |-> 0]

Init ==
  /\ sent = <<>>
  /\ born = 0
  /\ publishing = FALSE
  /\ header = NoHeader
  /\ pkts = <<>>
  /\ status = [q \in Players |-> "out"]
  /\ out = [q \in Players |-> <<>>]
  /\ since = [q \in Players |-> 0]

-----------------------------------------------------------------------------
(* Joining and leaving *)

\* Variant: the cache goes whenever somebody leaves.
ForgetAlways(empty) ==
  /\ born' = Len(sent')
  /\ header' = NoHeader
  /\ pkts' = <<>>

\* The registry erases a stream nobody is in, and the cache goes with it.
ForgetIf(empty) ==
  IF empty
  THEN /\ born' = Len(sent')
       /\ header' = NoHeader
       /\ pkts' = <<>>
  ELSE UNCHANGED cache

PublisherJoins ==
  /\ ~publishing
  /\ publishing' = TRUE
  /\ UNCHANGED <<sent, cache, status, out, since>>

\* Variant: the end is written to those who have got the cache.
PublisherLeavesFlowing ==
  /\ publishing
  /\ Len(sent) < MaxEvents
  /\ publishing' = FALSE
  /\ sent' = Append(sent, "eof")
  /\ out' = [q \in Players |-> IF status[q] # "flowing" THEN out[q]
                                                        ELSE Append(out[q], Len(sent'))]
  /\ ForgetIf(\A q \in Players : status[q] = "out")
  /\ UNCHANGED <<status, since>>

\* Every player left is written the end of the stream; it stays.
PublisherLeaves ==
  /\ publishing
  /\ Len(sent) < MaxEvents
  /\ publishing' = FALSE
  /\ sent' = Append(sent, "eof")
  /\ out' = [q \in Players |-> IF status[q] = "out" THEN out[q]
                                                    ELSE Append(out[q], Len(sent'))]
  /\ ForgetIf(\A q \in Players : status[q] = "out")
  /\ UNCHANGED <<status, since>>

\* A connection plays once.
Joins(q) ==
  /\ status[q] = "out"
  /\ out[q] = <<>>
  /\ status' = [status EXCEPT ![q] = "waiting"]
  /\ UNCHANGED <<sent, publishing, cache, out, since>>

Leaves(q) ==
  /\ status[q] # "out"
  /\ status' = [status EXCEPT ![q] = "out"]
  /\ UNCHANGED <<sent, publishing, out, since>>
  /\ ForgetIf(~publishing /\ \A p \in Players \ {q} : status[p] = "out")

-----------------------------------------------------------------------------
(* gop_cache *)

\* Variant: a key frame does not empty the cache first.
InsertKeeps(k, n) ==
  IF k \in Headers
  THEN /\ header' = [header EXCEPT ![k] = n]
       /\ UNCHANGED pkts
  ELSE /\ pkts' = Append(pkts, n)
       /\ UNCHANGED header

\* Variant: the first header of a kind is kept.
InsertFirst(k, n) ==
  IF k \in Headers
  THEN /\ header' = [header EXCEPT ![k] = IF @ = 0 THEN n ELSE @]
       /\ UNCHANGED pkts
  ELSE /\ pkts' = IF k = "key" THEN <<n>> ELSE Append(pkts, n)
       /\ UNCHANGED header

\* A header replaces the last one of its kind; a key frame starts the cache
\* again (min_gop_ is 1); any other packet is appended.
Insert(k, n) ==
  IF k \in Headers
  THEN /\ header' = [header EXCEPT ![k] = n]
       /\ UNCHANGED pkts
  ELSE /\ pkts' = IF k = "key" THEN <<n>> ELSE Append(pkts, n)
       /\ UNCHANGED header

\* What write gives a player: the headers there are, then the packets.
Present(h) == IF header'[h] = 0 THEN <<>> ELSE <<header'[h]>>
Burst == Present("metadata") \o Present("videoHeader") \o Present("audioHeader") \o pkts'

-----------------------------------------------------------------------------
(* rtmp_stream::send *)

\* Variant: the packet is relayed before it is cached, and cached for those
\* who wait as well.
RelayTwice(n) ==
  /\ status' = [q \in Players |-> IF status[q] = "out" THEN "out" ELSE "flowing"]
  /\ since' = [q \in Players |-> IF status[q] = "waiting" THEN n ELSE since[q]]
  /\ out' = [q \in Players |->
               CASE status[q] = "out" -> out[q]
                 [] status[q] = "waiting" -> out[q] \o Burst \o <<n>>
                 [] OTHER -> Append(out[q], n)]

Relay(n) ==
  /\ status' = [q \in Players |-> IF status[q] = "out" THEN "out" ELSE "flowing"]
  /\ since' = [q \in Players |-> IF status[q] = "waiting" THEN n ELSE since[q]]
  /\ out' = [q \in Players |->
               CASE status[q] = "out" -> out[q]
                 [] status[q] = "waiting" -> out[q] \o Burst
                 [] OTHER -> Append(out[q], n)]

Send(k) ==
  /\ publishing
  /\ Len(sent) < MaxEvents
  /\ sent' = Append(sent, k)
  /\ Insert(k, Len(sent'))
  /\ Relay(Len(sent'))
  /\ UNCHANGED <<born, publishing>>

-----------------------------------------------------------------------------

Next ==
  \/ PublisherJoins
  \/ PublisherLeaves
  \/ \E q \in Players : Joins(q) \/ Leaves(q)
  \/ \E k \in Kinds : Send(k)

Spec == Init /\ [][Next]_vars

-----------------------------------------------------------------------------
(* Properties *)

Events == 1 .. MaxEvents
IsFrame(n) == sent[n] \in Frames
IsVideo(n) == sent[n] \in {"key", "inter"}

\* Type invariant; a player flows from a packet of its stream on.
TypeOK ==
  /\ sent \in Seq(Kinds \cup {"eof"}) /\ Len(sent) <= MaxEvents
  /\ born \in 0 .. Len(sent)
  /\ publishing \in BOOLEAN
  /\ header \in [Headers -> 0 .. Len(sent)]
  /\ pkts \in Seq(Events)
  /\ status \in [Players -> {"out", "waiting", "flowing"}]
  /\ out \in [Players -> Seq(Events)]
  /\ since \in [Players -> 0 .. Len(sent)]
  /\ \A q \in Players : status[q] = "flowing" => since[q] > born

\* The last key frame of the stream, or the packet before its first one.
GroupStart ==
  LET keys == {n \in born + 1 .. Len(sent) : sent[n] = "key"}
  IN  IF keys = {} THEN born + 1 ELSE CHOOSE n \in keys : \A m \in keys : m <= n

\* The cache is the current group of pictures: exactly the frames since the
\* last key frame, in order, so that it cannot grow while key frames come.
CacheIsGroup ==
  /\ \A i \in 1 .. Len(pkts) - 1 : pkts[i] < pkts[i + 1]
  /\ {pkts[i] : i \in 1 .. Len(pkts)} = {n \in GroupStart .. Len(sent) : IsFrame(n)}

\* A player that has got the cache misses nothing and gets nothing twice: the
\* frames it was written are those from the start of the group it was given,
\* in order, through every change of the publisher, and each end of stream
\* comes in its place.
NothingMissed ==
  \A q \in Players : status[q] = "flowing" =>
    LET n == Len(out[q])
        later == Len(sent) - since[q]
    IN  /\ \A i \in 1 .. later : out[q][n - later + i] = since[q] + i
        /\ \A i, j \in 1 .. n : out[q][i] = out[q][j] => i = j
        /\ \A i, j \in 1 .. n :
             i < j /\ IsFrame(out[q][i]) /\ IsFrame(out[q][j]) => out[q][i] < out[q][j]

\* The first video frame of a player is a key frame, if the stream had one when
\* the player was given the cache.
StartsAtKeyFrame ==
  \A q \in Players : status[q] = "flowing" =>
    LET video == {i \in 1 .. Len(out[q]) : IsVideo(out[q][i])}
        hadKey == \E n \in born + 1 .. since[q] : sent[n] = "key"
    IN  video # {} /\ hadKey =>
          sent[out[q][CHOOSE i \in video : \A j \in video : i <= j]] = "key"

\* A player that gets a video frame got a video header before it, and none that
\* is older than the one in force when the frame was sent.
HeaderBeforeFrame ==
  \A q \in Players : status[q] = "flowing" =>
    \A i \in 1 .. Len(out[q]) : IsVideo(out[q][i]) =>
      \A h \in born + 1 .. out[q][i] : sent[h] = "videoHeader" =>
        \E j \in 1 .. i : /\ sent[out[q][j]] = "videoHeader"
                          /\ out[q][j] >= h

-----------------------------------------------------------------------------
(* The refinement *)

Name == {"it"}
Ended(q) == out[q] # <<>> /\ sent[out[q][Len(out[q])]] = "eof"

Source == [n \in Name |-> IF publishing THEN "publisher" ELSE "nobody"]
Inside == [n \in Name |-> {q \in Players : status[q] # "out"}]
Told == [n \in Name |-> {q \in Players : status[q] # "out" /\ Ended(q)}]

Stream == INSTANCE LiveStreams WITH
  Names <- Name,
  Members <- Players \cup {"publisher"},
  Nobody <- "nobody",
  publisher <- Source,
  players <- Inside,
  ended <- Told

\* What the players are written is what LiveStreams promises them: the end of the
\* stream reaches all of them at once, those that wait for their first packet
\* included, and nothing but packets of a publisher follows it.
ImplementsLiveStreams == Stream!Spec
=============================================================================
