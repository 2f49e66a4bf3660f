--------------------------- MODULE RtmpChunksProofs ---------------------------
(***************************************************************************)
(* Proofs about RtmpChunks for any chunk streams, sizes, stamps and number *)
(* of messages.  The invariant has a snapshot of the peer for each place   *)
(* on the wire (Sync): the first is what the reader has made of the tokens *)
(* it has consumed, the last is the peer, and each token leads from one to *)
(* the next.                                                               *)
(***************************************************************************)
EXTENDS RtmpChunks, FiniteSetTheorems, TLAPS

Args == Nat \cup Csids
AllSizes == Sizes \cup {DefaultSize, ServerSize}
AllWindows == Windows \cup {DefaultWindow}

LEMMA Numbers == AllSizes \subseteq Nat \ {0} /\ AllWindows \subseteq Nat \ {0} /\ Lengths \subseteq Nat \ {0}
  BY NumbersAssumption DEF AllSizes, AllWindows

-----------------------------------------------------------------------------
(* What is written *)

Types == {"none", "ack", "size", "window", "bandwidth", "command", "data"}
Headers == [dtime : Int, len : Args, type : Types, stream : Int]
Writers == [cs : Headers, heard : Headers, told : AllSizes, misread : BOOLEAN]
Outgoing == [type : Types, stream : Int, len : Args, size : AllSizes, force : BOOLEAN]

\* The peer takes the last header for what it is, and was told the size.
Heard(o, size) ==
  /\ o \in Writers
  /\ Meant(o.cs) = Meant(o.heard)
  /\ o.told = size
  /\ o.misread = FALSE

OutInv == ~resized => Heard(out, max_chunk_size)

LEMMA OnePiece ==
  ASSUME NEW s \in Nat \ {0}
  PROVE  Pieces(1, s) = <<1, 1>>
  <1>1. 1 + s - 1 = s
    OBVIOUS
  <1>2. s \div s = 1
    OBVIOUS
  <1>3. Lesser(1, s) = 1
    BY DEF Lesser
  <1> QED
    BY <1>1, <1>2, <1>3 DEF Pieces

\* A forced message leaves the headers alone.
LEMMA ForcedWrites ==
  ASSUME NEW o \in Writers, NEW w \in Outgoing, w.force
  PROVE  /\ WriteChunk(o, w) \in Writers
         /\ WriteChunk(o, w).cs = o.cs /\ WriteChunk(o, w).heard = o.heard
         /\ WriteChunk(o, w).told = Told(o, w)
         /\ Miscut(o, w) = FALSE /\ o.misread = FALSE => WriteChunk(o, w).misread = FALSE
  <1>1. Told(o, w) \in AllSizes
    BY DEF Told, Writers, Outgoing
  <1>2. WriteChunk(o, w) = Forced(o, w)
    BY Zenon DEF WriteChunk
  <1>3. Miscut(o, w) \in BOOLEAN
    BY DEF Miscut
  <1>4. (o.misread \/ Miscut(o, w)) \in BOOLEAN
    OBVIOUS
  <1> DEFINE m == o.misread \/ Miscut(o, w)
  <1> HIDE DEF m
  <1>5. WriteChunk(o, w) = [o EXCEPT !.told = Told(o, w), !.misread = m]
    BY <1>2, Zenon DEF m, Forced
  <1>6. m \in BOOLEAN
    BY <1>4 DEF m
  <1>7. /\ WriteChunk(o, w) \in Writers /\ WriteChunk(o, w).told = Told(o, w)
        /\ WriteChunk(o, w).cs = o.cs /\ WriteChunk(o, w).heard = o.heard
        /\ WriteChunk(o, w).misread = m
    BY <1>1, <1>5, <1>6 DEF Writers
  <1>8. Miscut(o, w) = FALSE /\ o.misread = FALSE => m = FALSE
    BY DEF m
  <1> QED
    BY <1>7, <1>8

\* A forced message that is cut as the peer expects.
LEMMA ForcedKeeps ==
  ASSUME NEW size, NEW o, Heard(o, size), NEW w \in Outgoing, w.force,
         w.size = size \/ w.len = 1
  PROVE  Heard(WriteChunk(o, w), IF w.type = "size" THEN w.size ELSE size)
  <1>1. o \in Writers /\ o.told = size /\ o.misread = FALSE /\ Meant(o.cs) = Meant(o.heard)
    BY DEF Heard
  <1>2. Miscut(o, w) = FALSE
    <2>1. w.size \in Nat \ {0} /\ o.told \in Nat \ {0}
      BY <1>1, Numbers DEF Writers, Outgoing
    <2> QED
      BY <1>1, <2>1, OnePiece DEF Miscut
  <1>3. Told(o, w) = IF w.type = "size" THEN w.size ELSE size
    BY <1>1 DEF Told
  <1> QED
    BY <1>1, <1>2, <1>3, ForcedWrites DEF Heard

LEMMA CarriedIs ==
  ASSUME NEW h \in Headers, NEW f, NEW w, w.len \in Args, w.type \in Types, w.stream \in Int
  PROVE  /\ Carried(h, f, w) \in Headers
         /\ Carried(h, f, w).len = IF f \in 0 .. 1 THEN w.len ELSE h.len
         /\ Carried(h, f, w).type = IF f \in 0 .. 1 THEN w.type ELSE h.type
         /\ Carried(h, f, w).stream = IF f = 0 THEN w.stream ELSE h.stream
  <1> DEFINE d == IF f \in 1 .. 2 THEN 0 ELSE h.dtime
             l == IF f \in 0 .. 1 THEN w.len ELSE h.len
             t == IF f \in 0 .. 1 THEN w.type ELSE h.type
             s == IF f = 0 THEN w.stream ELSE h.stream
  <1>1. d \in Int /\ l \in Args /\ t \in Types /\ s \in Int
    BY DEF Headers
  <1>2. Carried(h, f, w) = [h EXCEPT !.dtime = d, !.len = l, !.type = t, !.stream = s]
    BY Zenon DEF Carried
  <1> HIDE DEF d, l, t, s
  <1>3. /\ Carried(h, f, w) \in Headers
        /\ Carried(h, f, w).len = l /\ Carried(h, f, w).type = t /\ Carried(h, f, w).stream = s
    BY <1>1, <1>2 DEF Headers
  <1> QED
    BY <1>3 DEF l, t, s

\* A message whose header is chosen by what was written before.
LEMMA ChosenWrites ==
  ASSUME NEW o \in Writers, NEW w \in Outgoing, ~w.force
  PROVE  /\ WriteChunk(o, w) \in Writers
         /\ WriteChunk(o, w).told = o.told
         /\ /\ Meant(o.cs) = Meant(o.heard) /\ Miscut(o, w) = FALSE /\ o.misread = FALSE
            => /\ Meant(WriteChunk(o, w).cs) = Meant(WriteChunk(o, w).heard)
               /\ WriteChunk(o, w).misread = FALSE
  <1> DEFINE f == Format(o.cs, w)
             cs == Carried(o.cs, f, w)
             heard == Carried(o.heard, f, w)
             wrong == Meant(heard) # <<w.len, w.type, w.stream>>
             m == o.misread \/ Miscut(o, w) \/ wrong
  <1>1. o.cs \in Headers /\ o.heard \in Headers /\ o.told \in AllSizes /\ o.misread \in BOOLEAN
    BY DEF Writers
  <1>2. w.len \in Args /\ w.type \in Types /\ w.stream \in Int
    BY DEF Outgoing
  <1>3. f \in 0 .. 3 /\ (f # 0 => o.cs.stream = w.stream) /\ (f \in 2 .. 3 => o.cs.len = w.len /\ o.cs.type = w.type)
    BY DEF Format
  <1>5. WriteChunk(o, w) = [o EXCEPT !.cs = cs, !.heard = heard, !.misread = m]
    <2>1. WriteChunk(o, w) = Chosen(o, w)
      BY Zenon DEF WriteChunk
    <2> QED
      BY <2>1, Zenon DEF Chosen
  <1> HIDE DEF f
  <1>4. cs \in Headers /\ heard \in Headers
    BY <1>1, <1>2, CarriedIs
  <1>6. m \in BOOLEAN
    OBVIOUS
  <1>7. ASSUME NEW h \in Headers, Meant(h) = Meant(o.cs)
        PROVE  Meant(Carried(h, f, w)) = <<w.len, w.type, w.stream>>
    <2>1. h.len = o.cs.len /\ h.type = o.cs.type /\ h.stream = o.cs.stream
      BY <1>7 DEF Meant
    <2> DEFINE g == Carried(h, f, w)
    <2>2. /\ g.len = (IF f \in 0 .. 1 THEN w.len ELSE h.len)
          /\ g.type = (IF f \in 0 .. 1 THEN w.type ELSE h.type)
          /\ g.stream = (IF f = 0 THEN w.stream ELSE h.stream)
      BY <1>2, CarriedIs
    <2> HIDE DEF g
    <2>3. g.len = w.len /\ g.type = w.type /\ g.stream = w.stream
      BY <1>3, <2>1, <2>2
    <2> QED
      BY <2>3 DEF g, Meant
  <1>8. Meant(o.cs) = Meant(o.heard) => Meant(cs) = Meant(heard) /\ wrong = FALSE
    BY <1>1, <1>7
  <1>9. Miscut(o, w) = FALSE /\ o.misread = FALSE /\ wrong = FALSE => m = FALSE
    OBVIOUS
  <1> HIDE DEF m, wrong, cs, heard
  <1>10. /\ WriteChunk(o, w) \in Writers /\ WriteChunk(o, w).told = o.told
         /\ WriteChunk(o, w).cs = cs /\ WriteChunk(o, w).heard = heard
         /\ WriteChunk(o, w).misread = m
    BY <1>1, <1>4, <1>5, <1>6 DEF Writers
  <1> QED
    BY <1>8, <1>9, <1>10

LEMMA ChosenKeeps ==
  ASSUME NEW size \in AllSizes, NEW o, Heard(o, size), NEW len \in Args
  PROVE  Heard(WriteChunk(o, CommandOut(len, size)), size)
  <1>1. CommandOut(len, size) \in Outgoing /\ ~CommandOut(len, size).force /\ CommandOut(len, size).size = size
    BY DEF CommandOut, Outgoing, Types
  <1>2. Miscut(o, CommandOut(len, size)) = FALSE
    BY <1>1 DEF Miscut, Heard
  <1> QED
    BY <1>1, <1>2, ChosenWrites DEF Heard

\* A completed message is answered so that the peer still understands, by the size
\* that holds from then on.
LEMMA WrittenKeeps ==
  ASSUME NEW s, s.kind \in Kinds, NEW p, p.arg \in Args, NEW acks \in BOOLEAN,
         max_chunk_size \in AllSizes, Heard(out, max_chunk_size)
  PROVE  Heard(Written(out, s, p, acks), IF s.kind = "connect" THEN ServerSize ELSE max_chunk_size)
  <1> DEFINE acked == IF acks THEN WriteChunk(out, ForcedOut("ack", 1, max_chunk_size)) ELSE out
             sized == WriteChunk(acked, ForcedOut("size", 1, ServerSize))
             windowed == WriteChunk(sized, ForcedOut("window", 1, ServerSize))
             limited == WriteChunk(windowed, ForcedOut("bandwidth", 1, ServerSize))
  <1>1. ASSUME NEW t \in Types, NEW size \in AllSizes
        PROVE  /\ ForcedOut(t, 1, size) \in Outgoing /\ ForcedOut(t, 1, size).force
               /\ ForcedOut(t, 1, size).type = t /\ ForcedOut(t, 1, size).size = size
               /\ ForcedOut(t, 1, size).len = 1
    BY DEF ForcedOut, Outgoing, Args
  <1>2. ASSUME NEW o, NEW told, Heard(o, told), NEW t \in Types, NEW size \in AllSizes
        PROVE  Heard(WriteChunk(o, ForcedOut(t, 1, size)), IF t = "size" THEN size ELSE told)
    <2> DEFINE w == ForcedOut(t, 1, size)
    <2>1. w \in Outgoing /\ w.force /\ w.type = t /\ w.size = size /\ w.len = 1
      BY <1>1
    <2> HIDE DEF w
    <2>2. Heard(WriteChunk(o, w), IF w.type = "size" THEN w.size ELSE told)
      BY <1>2, <2>1, ForcedKeeps
    <2> QED
      BY <2>1, <2>2 DEF w
  <1>3. ServerSize \in AllSizes /\ 2 \in Args /\ {"ack", "size", "window", "bandwidth"} \subseteq Types
    BY DEF AllSizes, Args, Types
  <1>4. Heard(acked, max_chunk_size)
    BY <1>2, <1>3
  <1> HIDE DEF acked
  <1>5. Heard(sized, ServerSize)
    BY <1>2, <1>3, <1>4
  <1> HIDE DEF sized
  <1>6. Heard(limited, ServerSize)
    <2>1. Heard(windowed, ServerSize)
      BY <1>2, <1>3, <1>5
    <2> HIDE DEF windowed
    <2> QED
      BY <1>2, <1>3, <2>1
  <1> HIDE DEF limited
  <1>7. Heard(WriteChunk(limited, CommandOut(2, ServerSize)), ServerSize)
    BY <1>3, <1>6, ChosenKeeps
  <1>8. Heard(WriteChunk(acked, CommandOut(p.arg, max_chunk_size)), max_chunk_size)
    BY <1>4, ChosenKeeps
  <1>9. Written(out, s, p, acks) = CASE s.kind = "connect" -> WriteChunk(limited, CommandOut(2, ServerSize))
                                     [] s.kind = "command" -> WriteChunk(acked, CommandOut(p.arg, max_chunk_size))
                                     [] OTHER -> acked
    BY Zenon DEF Written, acked, sized, windowed, limited
  <1>10. CASE s.kind = "connect"
    BY <1>7, <1>9, <1>10
  <1>11. CASE s.kind = "command"
    BY <1>8, <1>9, <1>11
  <1>12. CASE s.kind \notin {"connect", "command"}
    <2>1. Written(out, s, p, acks) = acked
      BY <1>9, <1>12
    <2> QED
      BY <1>4, <1>12, <2>1
  <1> QED
    BY <1>10, <1>11, <1>12

-----------------------------------------------------------------------------
(* The invariant *)

PeerStream ==
  [time : Nat, field : Nat, len : Nat, kind : Kinds, arg : Args, m : Nat, rem : Nat,
   hdr : 0 .. 4, whole : BOOLEAN, ext : BOOLEAN, exact : BOOLEAN]
ReaderStream ==
  [time : Int, dtime : Int, len : Nat, kind : Kinds, ext : BOOLEAN, fmt : 0 .. 3, rem : Nat,
   mode : {"header", "payload"}, data : Seq(Nat)]
SentMessage == [m : Nat, time : Nat, exact : BOOLEAN]
GotMessage == [m : Nat, time : Int, pure : BOOLEAN]
Tokens ==
  [k : {"c0c1", "c2"}] \cup [k : {"basic"}, fmt : 0 .. 3, c : Csids]
    \cup [k : {"head"}, ts : Nat, len : Nat, kind : Kinds] \cup [k : {"ext"}, ts : Nat]
    \cup [k : {"pay"}, m : Nat, n : Nat, arg : Args]

Typed ==
  /\ peer \in [Csids -> PeerStream] /\ psize \in AllSizes
  /\ begun \in 0 .. MaxMessages + 1 /\ sent \in Seq(SentMessage)
  /\ wire \in Seq(Tokens) /\ here \in Nat
  /\ state \in {"init", "c2", "connect", "open"} /\ most \in {2, MaxWire + 5}
  /\ busy \in BOOLEAN /\ garbled \in BOOLEAN /\ reckless \in BOOLEAN /\ extended \in BOOLEAN
  /\ fresh \in BOOLEAN /\ resized \in BOOLEAN
  /\ cur \in [fmt : 0 .. 3, c : Csids] \cup {NoChunk}
  /\ cs_in \in [Csids -> ReaderStream]
  /\ max_chunk_size \in AllSizes /\ rsize \in AllSizes
  /\ window_size \in AllWindows
  /\ ack_recv \in Nat /\ (\E n \in AllWindows : ack_recv <= n)
  /\ got \in Seq(GotMessage)

\* A snapshot: the chunk streams and the chunk size of the peer, the size last
\* announced by either side and the number of messages ended; and, if it is in the
\* middle of a chunk, the token that comes next and the chunk's message, before
\* its payload, chunk stream and type.  S, R and X stand for sent, reckless and
\* extended.
Snapshots ==
  [p : [Csids -> PeerStream], z : AllSizes, r : AllSizes, n : Nat,
   at : {"idle", "head", "ext", "pay"}, q : PeerStream, c : Csids, f : 0 .. 3]

\* What a message on chunk stream c may be.
Fits(c, p) ==
  /\ p.kind \in IF c = Control THEN {"none", "size", "window", "abort"}
                ELSE {"none", "connect", "command", "data"}
  /\ p.kind = "size" => p.arg \in Sizes
  /\ p.kind = "window" => p.arg \in Windows
  /\ p.kind = "abort" => p.arg \in Streams
  /\ p.rem <= p.len
  /\ p.m > 0 /\ p.field >= ExtLimit => p.ext

\* A chunk stream between two of its chunks.
Resting(c, p) ==
  /\ Fits(c, p)
  /\ p.rem > 0 => p.m > 0 /\ ~p.whole /\ c # Control

Continues(a) == a.f = 3 /\ a.p[a.c].rem > 0 /\ a.q = a.p[a.c]

Starts(p, q, f, z, X) ==
  /\ p.rem = 0 /\ q.rem = q.len
  /\ f # 0 => p.m > 0
  /\ f \in 2 .. 3 => q.len = p.len /\ q.kind = p.kind
  /\ f = 3 => q.field = p.field
  /\ q.time = IF f = 0 THEN q.field ELSE p.time + q.field
  /\ q.hdr = IF f = 3 THEN p.hdr ELSE f
  /\ q.whole => f # 3 /\ q.len <= z
  /\ q.ext <=> p.ext \/ q.field >= ExtLimit
  /\ q.exact => /\ q.field < ExtLimit
                /\ f # 0 => p.exact
                /\ f = 3 => p.whole /\ p.hdr \in 1 .. 2
  /\ X \/ ~(q.field >= ExtLimit /\ f \in 1 .. 2)
  /\ X \/ ~(f = 3 /\ p.ext)

Chunk(a, R, X) ==
  /\ Continues(a) \/ Starts(a.p[a.c], a.q, a.f, a.z, X)
  /\ Fits(a.c, a.q) /\ a.q.rem > 0 /\ a.q.m > 0
  /\ a.c = Control => a.q.len = 1
  /\ R \/ Lesser(a.q.rem, a.z) = Lesser(a.q.rem, a.r)
  /\ X \/ ~(a.p[a.c].rem > 0 /\ a.q.ext /\ a.q.field < ExtLimit)

Good(a, S, R, X) ==
  /\ a \in Snapshots /\ a.n <= Len(S)
  /\ \A c \in Csids : Resting(c, a.p[c])
  /\ a.at # "idle" => Chunk(a, R, X)
  /\ a.at = "head" => a.f # 3
  /\ a.at = "ext" => a.q.field >= ExtLimit

Same(a, b) == b.p = a.p /\ b.z = a.z /\ b.r = a.r /\ b.n = a.n
Within(a, b) == Same(a, b) /\ b.q = a.q /\ b.c = a.c /\ b.f = a.f

Following(a) == IF a.q.field >= ExtLimit THEN "ext" ELSE "pay"
Rest(a) == a.q.rem - Lesser(a.q.rem, a.z)
Ending(a) == IF Rest(a) = 0 THEN a.q.kind ELSE "none"

\* The payload leads to snapshot b.
Ended(a, b, S) ==
  /\ b.at = "idle"
  /\ b.p = [d \in Csids |->
              IF d = a.c THEN [a.q EXCEPT !.rem = Rest(a)]
              ELSE IF Ending(a) = "abort" /\ d = a.q.arg THEN Silent ELSE a.p[d]]
  /\ b.z = IF Ending(a) = "size" THEN a.q.arg ELSE a.z
  /\ b.r = CASE Ending(a) = "size" -> a.q.arg [] Ending(a) = "connect" -> ServerSize [] OTHER -> a.r
  /\ b.n = IF Rest(a) = 0 THEN a.n + 1 ELSE a.n
  /\ Rest(a) = 0 => b.n <= Len(S) /\ S[b.n] = [m |-> a.q.m, time |-> a.q.time, exact |-> a.q.exact]

ShakeLink(a, t, b) == t.k \in {"c0c1", "c2"} /\ a.at = "idle" /\ b.at = "idle" /\ Same(a, b)
BasicLink(a, t, b) ==
  /\ t.k = "basic" /\ a.at = "idle" /\ Same(a, b)
  /\ t.c = b.c /\ t.fmt = b.f
  /\ b.at = IF b.f # 3 THEN "head" ELSE Following(b)
HeadLink(a, t, b) ==
  /\ t.k = "head" /\ a.at = "head" /\ Within(a, b) /\ b.at = Following(a)
  /\ t.ts = a.q.field /\ t.len = a.q.len /\ t.kind = a.q.kind
ExtLink(a, t, b) == t.k = "ext" /\ a.at = "ext" /\ Within(a, b) /\ b.at = "pay" /\ t.ts = a.q.field
PayLink(a, t, b, S) ==
  /\ t.k = "pay" /\ a.at = "pay" /\ Ended(a, b, S)
  /\ t.m = a.q.m /\ t.n = Lesser(a.q.rem, a.z) /\ t.arg = a.q.arg

Link(a, t, b, S) ==
  ShakeLink(a, t, b) \/ BasicLink(a, t, b) \/ HeadLink(a, t, b) \/ ExtLink(a, t, b) \/ PayLink(a, t, b, S)

Linked(st, w, S, R, X) ==
  /\ st \in Seq(Snapshots) /\ Len(st) = Len(w) + 1
  /\ \A i \in 1 .. Len(st) : Good(st[i], S, R, X)
  /\ \A i \in 1 .. Len(w) : Link(st[i], w[i], st[i + 1], S)

\* What the reader has of a chunk stream.
Shape(s, p) == s.len = p.len /\ s.kind = p.kind /\ s.rem = p.rem
Contents(s, p) == IF p.rem = 0 THEN s.data = <<>> ELSE ToSet(s.data) \subseteq {p.m}
Timed(s, p) ==
  /\ p.m > 0 /\ p.exact => s.time = p.time
  /\ p.m > 0 /\ p.whole /\ p.hdr \in 1 .. 2 => s.dtime = p.field
  /\ p.rem > 0 /\ p.field >= ExtLimit => s.time = Backwards(p.field)
LastType(s, p) == p.m > 0 /\ p.whole /\ p.hdr \in 1 .. 2 => s.fmt = p.hdr

Between(s, p, X) ==
  /\ s.mode = "header" /\ Shape(s, p) /\ Contents(s, p) /\ s.ext = p.ext
  /\ X \/ (Timed(s, p) /\ LastType(s, p))

\* In the middle of a chunk, before its header is complete and after that.
InHead(s, a, X) ==
  LET p == a.p[a.c]
  IN  /\ s.mode = "header" /\ Shape(s, p) /\ Contents(s, p)
      /\ p.ext => s.ext
      /\ s.ext => a.q.ext
      /\ IF a.f = 3 THEN s.ext = p.ext /\ a.at = Following(a) ELSE a.at = "head"
      /\ X \/ (Timed(s, p) /\ (a.f = 3 => LastType(s, p)))
InPay(s, a, X) ==
  /\ s.mode = "payload" /\ Shape(s, a.q) /\ ToSet(s.data) \subseteq {a.q.m} /\ s.ext = a.q.ext
  /\ a.at \in {"ext", "pay"}
  /\ X \/ (Timed(s, a.q) /\ LastType(s, a.q) /\ a.at = "pay")

ReaderAt(a) ==
  /\ max_chunk_size = a.r /\ Len(got) = a.n
  /\ \A c \in Csids : cur = NoChunk \/ c # cur.c => Between(cs_in[c], a.p[c], extended)
  /\ cur = NoChunk => a.at = "idle"
  /\ cur # NoChunk =>
       /\ a.at # "idle" /\ a.c = cur.c /\ a.f = cur.fmt
       /\ InHead(cs_in[cur.c], a, extended) \/ InPay(cs_in[cur.c], a, extended)

PeerAt(a) == a.at = "idle" /\ a.p = peer /\ a.z = psize /\ a.r = rsize /\ a.n = Len(sent)

Sync(st) ==
  /\ Linked(st, wire, sent, reckless, extended)
  /\ ReaderAt(st[1])
  /\ PeerAt(st[Len(st)])

GotInv ==
  \A i \in 1 .. Len(got) :
    /\ i <= Len(sent)
    /\ got[i].m = sent[i].m /\ got[i].pure
    /\ ~extended /\ sent[i].exact => got[i].time = sent[i].time

\* Every message was begun once, so that no more are sent than may be begun.
SentInv ==
  /\ \A i \in 1 .. Len(sent) : sent[i].m \in 1 .. begun - 1
  /\ \A i, j \in 1 .. Len(sent) : sent[i].m = sent[j].m => i = j
  /\ \A c \in Csids : peer[c].rem > 0 =>
       /\ peer[c].m \in 1 .. begun - 1
       /\ \A i \in 1 .. Len(sent) : sent[i].m # peer[c].m
       /\ \A d \in Csids : peer[d].rem > 0 /\ peer[d].m = peer[c].m => d = c

Shaken == state \in {"connect", "open"}

\* The tokens of the handshake that are on the wire.
Shaking == IF state = "init" \/ (state = "c2" /\ begun > 0) THEN 2 ELSE 0

ShakeInv ==
  /\ ~Shaken => cur = NoChunk /\ ~fresh /\ (~busy => here < 2)
  /\ Shaking <= Len(wire)
  /\ \A i \in 1 .. Len(wire) : wire[i].k \in {"c0c1", "c2"} <=> i <= Shaking
  /\ state = "init" => begun = 0 /\ Len(wire) = 2
  /\ begun = 0 => ~Shaken /\ (state = "c2" => wire = <<>>)

HereInv ==
  /\ here <= Len(wire)
  /\ busy /\ cur = NoChunk => here > 0
  /\ ~busy /\ ~fresh => extended \/ here = 0 \/ here < Len(wire)

\* Only the two kinds of peer that are left out garble the wire.
GarbledInv == garbled => reckless \/ extended

IInv ==
  /\ Typed /\ OutInv /\ GotInv /\ SentInv /\ ShakeInv /\ HereInv /\ GarbledInv
  /\ \E st : Sync(st)

-----------------------------------------------------------------------------
(* Snapshots and links *)

Longer(S, T) == Len(S) <= Len(T) /\ \A i \in 1 .. Len(S) : T[i] = S[i]

\* More messages are sent, and the peer becomes reckless.
LEMMA LinkedLater ==
  ASSUME NEW st, NEW w \in Seq(Tokens), NEW S \in Seq(SentMessage), NEW T \in Seq(SentMessage), NEW R, NEW Q, NEW X, NEW Y,
         Linked(st, w, S, R, X), Longer(S, T), R => Q, X => Y
  PROVE  Linked(st, w, T, Q, Y)
  <1>1. ASSUME NEW a, Good(a, S, R, X)
        PROVE  Good(a, T, Q, Y)
    <2>1. Chunk(a, R, X) => Chunk(a, Q, Y)
      BY DEF Chunk, Starts
    <2>2. a.n <= Len(T)
      BY <1>1 DEF Good, Longer, Snapshots
    <2> QED
      BY <1>1, <2>1, <2>2 DEF Good
  <1>2. ASSUME NEW a \in Snapshots, NEW t, NEW b, Link(a, t, b, S)
        PROVE  Link(a, t, b, T)
    <2>1. CASE PayLink(a, t, b, S)
      <3>1. Ended(a, b, S)
        BY <2>1 DEF PayLink
      <3>2. Rest(a) = 0 => b.n <= Len(T) /\ T[b.n] = S[b.n]
        <4>1. Rest(a) = 0 => b.n = a.n + 1 /\ b.n <= Len(S)
          BY <3>1 DEF Ended
        <4>2. Rest(a) = 0 => b.n \in 1 .. Len(S)
          BY <4>1 DEF Snapshots
        <4> QED
          BY <4>2 DEF Longer
      <3>3. Ended(a, b, T)
        BY <3>1, <3>2 DEF Ended
      <3> QED
        BY <2>1, <3>3 DEF PayLink, Link
    <2> QED
      BY <1>2, <2>1 DEF Link
  <1>3. \A i \in 1 .. Len(w) : st[i] \in Snapshots
    BY DEF Linked
  <1> QED
    BY <1>1, <1>2, <1>3 DEF Linked

\* The first k tokens are consumed.
LEMMA LinkedShift ==
  ASSUME NEW st, NEW w \in Seq(Tokens), NEW S, NEW R, NEW X, Linked(st, w, S, R, X),
         NEW k \in 0 .. Len(w)
  PROVE  LET t == SubSeq(st, k + 1, Len(st))
             v == SubSeq(w, k + 1, Len(w))
         IN  /\ Linked(t, v, S, R, X)
             /\ t[1] = st[k + 1] /\ t[Len(t)] = st[Len(st)]
  <1> DEFINE t == SubSeq(st, k + 1, Len(st))
             v == SubSeq(w, k + 1, Len(w))
  <1>1. st \in Seq(Snapshots) /\ Len(st) = Len(w) + 1
    BY DEF Linked
  <1>2. /\ t \in Seq(Snapshots) /\ Len(t) = Len(st) - k
        /\ \A i \in 1 .. Len(t) : t[i] = st[i + k]
    BY <1>1
  <1>3. /\ v \in Seq(Tokens) /\ Len(v) = Len(w) - k
        /\ \A i \in 1 .. Len(v) : v[i] = w[i + k]
    OBVIOUS
  <1> HIDE DEF t, v
  <1>4. \A i \in 1 .. Len(t) : Good(t[i], S, R, X)
    <2> TAKE i \in 1 .. Len(t)
    <2>1. i + k \in 1 .. Len(st)
      BY <1>1, <1>2
    <2> QED
      BY <1>2, <2>1 DEF Linked
  <1>5. \A i \in 1 .. Len(v) : Link(t[i], v[i], t[i + 1], S)
    <2> TAKE i \in 1 .. Len(v)
    <2>1. i + k \in 1 .. Len(w) /\ i \in 1 .. Len(t) /\ i + 1 \in 1 .. Len(t)
      BY <1>1, <1>2, <1>3
    <2>2. t[i] = st[i + k] /\ t[i + 1] = st[i + k + 1] /\ v[i] = w[i + k]
      BY <1>2, <1>3, <2>1
    <2> QED
      BY <2>1, <2>2 DEF Linked
  <1>6. t[1] = st[k + 1] /\ t[Len(t)] = st[Len(st)]
    BY <1>1, <1>2
  <1> QED
    BY <1>1, <1>2, <1>3, <1>4, <1>5, <1>6 DEF Linked, t, v

\* One more token comes.
LEMMA LinkedMore ==
  ASSUME NEW st, NEW w \in Seq(Tokens), NEW S, NEW R, NEW X, Linked(st, w, S, R, X),
         NEW t \in Tokens, NEW b, Good(b, S, R, X), Link(st[Len(st)], t, b, S)
  PROVE  /\ Linked(Append(st, b), Append(w, t), S, R, X)
         /\ Append(st, b)[1] = st[1] /\ Append(st, b)[Len(Append(st, b))] = b
         /\ Append(w, t) \in Seq(Tokens)
  <1> DEFINE u == Append(st, b)
             v == Append(w, t)
  <1>1. st \in Seq(Snapshots) /\ Len(st) = Len(w) + 1 /\ b \in Snapshots
    BY DEF Linked, Good
  <1>2. /\ u \in Seq(Snapshots) /\ Len(u) = Len(st) + 1
        /\ \A i \in 1 .. Len(st) : u[i] = st[i]
        /\ u[Len(u)] = b
    BY <1>1
  <1>3. /\ v \in Seq(Tokens) /\ Len(v) = Len(w) + 1
        /\ \A i \in 1 .. Len(w) : v[i] = w[i]
        /\ v[Len(w) + 1] = t
    OBVIOUS
  <1> HIDE DEF u, v
  <1>4. \A i \in 1 .. Len(u) : Good(u[i], S, R, X)
    BY <1>1, <1>2 DEF Linked
  <1>5. \A i \in 1 .. Len(v) : Link(u[i], v[i], u[i + 1], S)
    <2> TAKE i \in 1 .. Len(v)
    <2>1. CASE i \in 1 .. Len(w)
      <3>1. u[i] = st[i] /\ u[i + 1] = st[i + 1] /\ v[i] = w[i]
        BY <1>1, <1>2, <1>3, <2>1
      <3> QED
        BY <2>1, <3>1 DEF Linked
    <2>2. CASE i = Len(w) + 1
      <3>1. u[i] = st[Len(st)] /\ u[i + 1] = b /\ v[i] = t
        BY <1>1, <1>2, <1>3, <2>2
      <3> QED
        BY <3>1
    <2> QED
      BY <1>3, <2>1, <2>2
  <1>6. u[1] = st[1]
    BY <1>1, <1>2
  <1> QED
    BY <1>1, <1>2, <1>3, <1>4, <1>5, <1>6 DEF Linked, u, v

\* Snapshot a within a chunk.
Inside(a, k, c, f, q) == [a EXCEPT !.at = k, !.c = c, !.f = f, !.q = q]

\* The tokens of a chunk on wire w.
BasicToken(c, f) == [k |-> "basic", fmt |-> f, c |-> c]
HeadToken(q) == [k |-> "head", ts |-> q.field, len |-> q.len, kind |-> q.kind]
ExtToken(q) == [k |-> "ext", ts |-> q.field]
PayToken(q, n) == [k |-> "pay", m |-> q.m, n |-> n, arg |-> q.arg]

WithBasic(w, c, f) == Append(w, BasicToken(c, f))
WithHead(w, c, f, q) == IF f = 3 THEN WithBasic(w, c, f) ELSE Append(WithBasic(w, c, f), HeadToken(q))
WithExt(w, c, f, q) ==
  IF q.field >= ExtLimit THEN Append(WithHead(w, c, f, q), ExtToken(q)) ELSE WithHead(w, c, f, q)
WithChunk(w, c, f, q, n) == Append(WithExt(w, c, f, q), PayToken(q, n))

LEMMA TokensOfChunk ==
  ASSUME NEW c \in Csids, NEW f \in 0 .. 3, NEW q \in PeerStream, NEW n \in Nat
  PROVE  {BasicToken(c, f), HeadToken(q), ExtToken(q), PayToken(q, n)} \subseteq Tokens
  BY DEF PeerStream, Tokens, BasicToken, HeadToken, ExtToken, PayToken

\* What PeerChunk writes.
LEMMA WithChunkIs ==
  ASSUME NEW w \in Seq(Tokens), NEW c \in Csids, NEW f \in 0 .. 3, NEW q \in PeerStream, NEW n \in Nat
  PROVE  w \o <<[k |-> "basic", fmt |-> f, c |-> c]>>
           \o (IF f = 3 THEN <<>>
               ELSE <<[k |-> "head", ts |-> q.field, len |-> q.len, kind |-> q.kind]>>)
           \o (IF q.field >= ExtLimit THEN <<[k |-> "ext", ts |-> q.field]>> ELSE <<>>)
           \o <<[k |-> "pay", m |-> q.m, n |-> n, arg |-> q.arg]>>
         = WithChunk(w, c, f, q, n)
  <1> DEFINE t1 == BasicToken(c, f)
             t2 == HeadToken(q)
             t3 == ExtToken(q)
             t4 == PayToken(q, n)
             w1 == WithBasic(w, c, f)
             w2 == WithHead(w, c, f, q)
             w3 == WithExt(w, c, f, q)
             h == IF f = 3 THEN <<>> ELSE <<t2>>
             x == IF q.field >= ExtLimit THEN <<t3>> ELSE <<>>
  <1>1. t1 \in Tokens /\ t2 \in Tokens /\ t3 \in Tokens /\ t4 \in Tokens
    BY TokensOfChunk
  <1>2. w \o <<t1>> \o h \o x \o <<t4>> = WithChunk(w, c, f, q, n)
    <2> HIDE DEF t1, t2, t3, t4
    <2>1. w \o <<t1>> = w1 /\ w1 \in Seq(Tokens)
      BY <1>1 DEF WithBasic, t1
    <2> HIDE DEF w1
    <2>2. w1 \o h = w2 /\ w2 \in Seq(Tokens)
      BY <1>1, <2>1 DEF WithHead, w1, t2
    <2> HIDE DEF w2, h
    <2>3. w2 \o x = w3 /\ w3 \in Seq(Tokens)
      BY <1>1, <2>2 DEF WithExt, w2, t3
    <2> HIDE DEF w3, x
    <2>4. w3 \o <<t4>> = WithChunk(w, c, f, q, n)
      BY <1>1, <2>3 DEF WithChunk, w3, t4
    <2> QED
      BY <2>1, <2>2, <2>3, <2>4
  <1> QED
    BY <1>2, Zenon DEF BasicToken, HeadToken, ExtToken, PayToken

\* v is w and tokens of chunks.
Prolonged(w, v) ==
  /\ v \in Seq(Tokens) /\ Len(v) >= Len(w)
  /\ \A i \in 1 .. Len(w) : v[i] = w[i]
  /\ \A i \in 1 .. Len(v) : i > Len(w) => v[i].k \notin {"c0c1", "c2"}

LEMMA LongerByToken ==
  ASSUME NEW w \in Seq(Tokens), NEW v, Prolonged(w, v), NEW t \in Tokens, t.k \notin {"c0c1", "c2"}
  PROVE  Prolonged(w, Append(v, t))
  <1> DEFINE u == Append(v, t)
  <1>1. /\ u \in Seq(Tokens) /\ Len(u) = Len(v) + 1 /\ u[Len(u)] = t
        /\ \A i \in 1 .. Len(v) : u[i] = v[i]
    BY DEF Prolonged
  <1> HIDE DEF u
  <1>2. \A i \in 1 .. Len(w) : u[i] = w[i]
    BY <1>1 DEF Prolonged
  <1>3. \A i \in 1 .. Len(u) : i > Len(w) => u[i].k \notin {"c0c1", "c2"}
    <2> TAKE i \in 1 .. Len(u)
    <2>1. i \in 1 .. Len(v) \/ i = Len(u)
      BY <1>1 DEF Prolonged
    <2> QED
      BY <1>1, <2>1 DEF Prolonged
  <1>4. Len(u) >= Len(w)
    BY <1>1 DEF Prolonged
  <1> QED
    BY <1>1, <1>2, <1>3, <1>4 DEF Prolonged, u

LEMMA LongerByChunk ==
  ASSUME NEW w \in Seq(Tokens), NEW c \in Csids, NEW f \in 0 .. 3, NEW q \in PeerStream, NEW n \in Nat
  PROVE  Prolonged(w, WithChunk(w, c, f, q, n))
  <1>1. Prolonged(w, w)
    BY DEF Prolonged
  <1>2. /\ BasicToken(c, f).k = "basic" /\ HeadToken(q).k = "head"
        /\ ExtToken(q).k = "ext" /\ PayToken(q, n).k = "pay"
    BY DEF BasicToken, HeadToken, ExtToken, PayToken
  <1>3. Prolonged(w, WithBasic(w, c, f))
    BY <1>1, <1>2, TokensOfChunk, LongerByToken DEF WithBasic
  <1>4. Prolonged(w, WithHead(w, c, f, q))
    BY <1>2, <1>3, TokensOfChunk, LongerByToken DEF WithHead
  <1>5. Prolonged(w, WithExt(w, c, f, q))
    BY <1>2, <1>4, TokensOfChunk, LongerByToken DEF WithExt
  <1> QED
    BY <1>2, <1>5, TokensOfChunk, LongerByToken DEF WithChunk

\* A chunk is added after snapshot a, and leads to snapshot e.
LEMMA LinkedChunk ==
  ASSUME NEW st, NEW w \in Seq(Tokens), NEW S, NEW R, NEW X, Linked(st, w, S, R, X),
         NEW a, a = st[Len(st)], a.at = "idle",
         NEW c \in Csids, NEW f \in 0 .. 3, NEW q \in PeerStream,
         Chunk(Inside(a, "pay", c, f, q), R, X),
         NEW e, Good(e, S, R, X), Ended(Inside(a, "pay", c, f, q), e, S),
         NEW v, v = WithChunk(w, c, f, q, Lesser(q.rem, a.z))
  PROVE  \E u : Linked(u, v, S, R, X) /\ u[1] = st[1] /\ u[Len(u)] = e
  <1> DEFINE t1 == BasicToken(c, f)
             t2 == HeadToken(q)
             t3 == ExtToken(q)
             t4 == PayToken(q, Lesser(q.rem, a.z))
             w1 == WithBasic(w, c, f)
             w2 == WithHead(w, c, f, q)
             w3 == WithExt(w, c, f, q)
             I(k) == Inside(a, k, c, f, q)
             first == IF f # 3 THEN "head" ELSE IF q.field >= ExtLimit THEN "ext" ELSE "pay"
             next == IF q.field >= ExtLimit THEN "ext" ELSE "pay"
  <1>1. a \in Snapshots /\ Good(a, S, R, X) /\ a.z \in Nat
    <2>1. st \in Seq(Snapshots) /\ Len(st) \in 1 .. Len(st) /\ \A i \in 1 .. Len(st) : Good(st[i], S, R, X)
      BY DEF Linked
    <2>2. Good(a, S, R, X)
      BY <2>1
    <2> QED
      BY <2>2, Numbers DEF Good, Snapshots
  <1>2. t1 \in Tokens /\ t2 \in Tokens /\ t3 \in Tokens /\ t4 \in Tokens
    <2>1. Lesser(q.rem, a.z) \in Nat
      BY <1>1 DEF PeerStream, Lesser
    <2> QED
      BY <2>1, TokensOfChunk
  <1>3. /\ w1 = Append(w, t1) /\ v = Append(w3, t4)
        /\ w2 = IF f = 3 THEN w1 ELSE Append(w1, t2)
        /\ w3 = IF q.field >= ExtLimit THEN Append(w2, t3) ELSE w2
    BY DEF WithBasic, WithHead, WithExt, WithChunk
  <1> HIDE DEF w1, w2, w3
  <1>4. ASSUME NEW k \in {"head", "ext", "pay"}
        PROVE  /\ I(k) \in Snapshots /\ Same(a, I(k))
               /\ I(k).at = k /\ I(k).c = c /\ I(k).f = f /\ I(k).q = q
    <2>1. a \in Snapshots
      BY <1>1
    <2> QED
      BY <1>4, <2>1 DEF Inside, Snapshots, Same
  <1> HIDE DEF I
  <1>5. ASSUME NEW k \in {"head", "ext", "pay"}, k = "head" => f # 3, k = "ext" => q.field >= ExtLimit
        PROVE  Good(I(k), S, R, X)
    <2>1. Chunk(I("pay"), R, X)
      BY DEF I
    <2>2. /\ I(k).p = I("pay").p /\ I(k).z = I("pay").z /\ I(k).r = I("pay").r
          /\ I(k).c = I("pay").c /\ I(k).f = I("pay").f /\ I(k).q = I("pay").q
      BY <1>4 DEF Same
    <2>3. Chunk(I(k), R, X)
      BY <2>1, <2>2 DEF Chunk, Continues
    <2>4. I(k).n = a.n /\ I(k).p = a.p
      BY <1>4 DEF Same
    <2> QED
      BY <1>1, <1>4, <1>5, <2>3, <2>4 DEF Good
  <1>6. /\ \A k \in {"head", "ext", "pay"} : Following(I(k)) = next
        /\ \A k, l \in {"head", "ext", "pay"} : Within(I(k), I(l))
    BY <1>4 DEF Following, Within, Same
  <1>7. Ended(I("pay"), e, S)
    BY DEF I
  <1>8. first \in {"head", "ext", "pay"} /\ next \in {"ext", "pay"}
    OBVIOUS
  <1>9. PICK u1 : Linked(u1, w1, S, R, X) /\ u1[1] = st[1] /\ u1[Len(u1)] = I(first) /\ w1 \in Seq(Tokens)
    <2>1. Good(I(first), S, R, X)
      BY <1>5, <1>8
    <2>2. Link(a, t1, I(first), S)
      <3>1. t1.k = "basic" /\ t1.c = c /\ t1.fmt = f
        BY DEF BasicToken
      <3>2. I(first).at = IF I(first).f # 3 THEN "head" ELSE Following(I(first))
        BY <1>4, <1>6, <1>8
      <3> HIDE DEF t1, first
      <3>3. BasicLink(a, t1, I(first))
        BY <1>4, <1>8, <3>1, <3>2 DEF BasicLink
      <3> QED
        BY <3>3 DEF Link
    <2> HIDE DEF t1, first
    <2> DEFINE u == Append(st, I(first))
    <2>3. Linked(u, w1, S, R, X) /\ u[1] = st[1] /\ u[Len(u)] = I(first) /\ w1 \in Seq(Tokens)
      BY <1>2, <1>3, <2>1, <2>2, LinkedMore
    <2> QED
      BY <2>3
  <1>10. PICK u2 : Linked(u2, w2, S, R, X) /\ u2[1] = st[1] /\ u2[Len(u2)] = I(next) /\ w2 \in Seq(Tokens)
    <2>1. CASE f = 3
      <3>1. first = next /\ w2 = w1
        BY <1>3, <2>1
      <3> QED
        BY <1>9, <3>1
    <2>2. CASE f # 3
      <3>1. first = "head" /\ w2 = Append(w1, t2)
        BY <1>3, <2>2
      <3>2. Good(I(next), S, R, X)
        BY <1>5, <1>8
      <3>3. HeadLink(I("head"), t2, I(next))
        BY <1>4, <1>6, <1>8 DEF HeadLink, HeadToken
      <3>4. Link(I("head"), t2, I(next), S)
        BY <3>3 DEF Link
      <3> HIDE DEF first, next, t2
      <3> DEFINE u == Append(u1, I(next))
      <3>5. Linked(u, w2, S, R, X) /\ u[1] = u1[1] /\ u[Len(u)] = I(next) /\ w2 \in Seq(Tokens)
        BY <1>2, <1>9, <3>1, <3>2, <3>4, LinkedMore
      <3> QED
        BY <1>9, <3>5
    <2> QED
      BY <2>1, <2>2
  <1>11. PICK u3 : Linked(u3, w3, S, R, X) /\ u3[1] = st[1] /\ u3[Len(u3)] = I("pay") /\ w3 \in Seq(Tokens)
    <2>1. CASE q.field >= ExtLimit
      <3>1. next = "ext" /\ w3 = Append(w2, t3)
        BY <1>3, <2>1
      <3>2. Good(I("pay"), S, R, X)
        BY <1>5
      <3>3. ExtLink(I("ext"), t3, I("pay"))
        BY <1>4, <1>6 DEF ExtLink, ExtToken
      <3>4. Link(I("ext"), t3, I("pay"), S)
        BY <3>3 DEF Link
      <3> HIDE DEF next, t3
      <3> DEFINE u == Append(u2, I("pay"))
      <3>5. Linked(u, w3, S, R, X) /\ u[1] = u2[1] /\ u[Len(u)] = I("pay") /\ w3 \in Seq(Tokens)
        BY <1>2, <1>10, <3>1, <3>2, <3>4, LinkedMore
      <3> QED
        BY <1>10, <3>5
    <2>2. CASE ~(q.field >= ExtLimit)
      <3>1. next = "pay" /\ w3 = w2
        BY <1>3, <2>2
      <3> QED
        BY <1>10, <3>1
    <2> QED
      BY <2>1, <2>2
  <1>12. Link(I("pay"), t4, e, S)
    <2>1. I("pay").at = "pay" /\ I("pay").q = q /\ I("pay").z = a.z
      BY <1>4 DEF Same
    <2>2. t4.k = "pay" /\ t4.m = q.m /\ t4.n = Lesser(q.rem, a.z) /\ t4.arg = q.arg
      BY DEF PayToken
    <2> HIDE DEF t4
    <2>3. PayLink(I("pay"), t4, e, S)
      BY <1>7, <2>1, <2>2 DEF PayLink
    <2> QED
      BY <2>3 DEF Link
  <1> HIDE DEF t1, t2, t3, t4, first, next
  <1> DEFINE u == Append(u3, e)
  <1>13. Linked(u, Append(w3, t4), S, R, X) /\ u[1] = u3[1] /\ u[Len(u)] = e
    BY <1>2, <1>11, <1>12, LinkedMore
  <1>14. v = Append(w3, t4)
    BY <1>3
  <1> QED
    BY <1>11, <1>13, <1>14

-----------------------------------------------------------------------------
(* The peer's chunks *)

LEMMA LesserIs ==
  ASSUME NEW a \in Nat, NEW b \in Nat \ {0}
  PROVE  Lesser(a, b) \in 0 .. a /\ (a > 0 => Lesser(a, b) > 0) /\ (a <= b => Lesser(a, b) = a)
  BY DEF Lesser

\* A chunk stream after a chunk of its message.
LEMMA RestingAfter ==
  ASSUME NEW b \in Snapshots, NEW R, NEW X, Chunk(b, R, X), Resting(b.c, b.p[b.c])
  PROVE  /\ Rest(b) \in 0 .. b.q.rem - 1
         /\ [b.q EXCEPT !.rem = Rest(b)] \in PeerStream
         /\ Resting(b.c, [b.q EXCEPT !.rem = Rest(b)])
  <1> DEFINE q == b.q
             p == [b.q EXCEPT !.rem = Rest(b)]
  <1>1. /\ q \in PeerStream /\ q.rem \in Nat /\ q.len \in Nat /\ q.m \in Nat /\ q.field \in Nat
        /\ b.z \in Nat \ {0} /\ q.rem > 0 /\ q.rem <= q.len
    BY Numbers DEF Snapshots, PeerStream, Chunk, Fits
  <1>2. Lesser(q.rem, b.z) \in 1 .. q.rem /\ (q.rem <= b.z => Lesser(q.rem, b.z) = q.rem)
    BY <1>1, LesserIs
  <1>3. Rest(b) \in 0 .. q.rem - 1 /\ (q.rem <= b.z => Rest(b) = 0)
    BY <1>1, <1>2 DEF Rest
  <1>4. p \in PeerStream
    BY <1>1, <1>3 DEF PeerStream
  <1>5. /\ p.kind = q.kind /\ p.arg = q.arg /\ p.len = q.len /\ p.m = q.m /\ p.field = q.field
        /\ p.ext = q.ext /\ p.whole = q.whole /\ p.rem = Rest(b)
    BY <1>1 DEF PeerStream
  <1>6. Fits(b.c, p)
    <2>1. Fits(b.c, q)
      BY DEF Chunk
    <2> HIDE DEF p, q
    <2> QED
      BY <1>1, <1>3, <1>5, <2>1 DEF Fits
  <1>7. p.rem > 0 => p.m > 0 /\ ~p.whole /\ b.c # Control
    <2> SUFFICES ASSUME p.rem > 0
                 PROVE  p.m > 0 /\ ~p.whole /\ b.c # Control
      OBVIOUS
    <2>1. q.m > 0 /\ (b.c = Control => q.len = 1)
      BY DEF Chunk
    <2>2. ~(q.rem <= b.z)
      BY <1>3, <1>5
    <2>3. CASE Continues(b)
      BY <1>5, <2>1, <2>3 DEF Continues, Resting, q
    <2>4. CASE Starts(b.p[b.c], q, b.f, b.z, X)
      <3>1. q.rem = q.len /\ (q.whole => q.len <= b.z)
        BY <2>4 DEF Starts
      <3>2. b.c # Control
        BY <1>1, <2>1, <2>2, <3>1
      <3> QED
        BY <1>5, <2>1, <2>2, <3>1, <3>2
    <2> QED
      BY <2>3, <2>4 DEF Chunk, q
  <1> QED
    BY <1>3, <1>4, <1>6, <1>7 DEF Resting

LEMMA SilentRests ==
  ASSUME NEW c \in Csids
  PROVE  Silent \in PeerStream /\ Resting(c, Silent)
  BY DEF Silent, PeerStream, Resting, Fits, Args, Kinds

LEMMA BetweenLater ==
  ASSUME NEW s, NEW p, NEW X, NEW Y, X => Y, Between(s, p, X)
  PROVE  Between(s, p, Y)
  BY DEF Between

LEMMA ReaderAtLater ==
  ASSUME NEW a, ReaderAt(a), extended => extended',
         UNCHANGED <<cs_in, cur, max_chunk_size, got>>
  PROVE  ReaderAt(a)'
  <1>1. \A c \in Csids : cur = NoChunk \/ c # cur.c => Between(cs_in[c], a.p[c], extended')
    BY BetweenLater DEF ReaderAt
  <1>2. \A s : /\ InHead(s, a, extended) => InHead(s, a, extended')
               /\ InPay(s, a, extended) => InPay(s, a, extended')
    BY DEF InHead, InPay
  <1> QED
    BY <1>1, <1>2 DEF ReaderAt

\* What a chunk of message q on chunk stream c does to the messages.
Advanced(c, q) ==
  /\ \/ sent' = sent
     \/ /\ sent' = Append(sent, [m |-> q.m, time |-> q.time, exact |-> q.exact])
        /\ peer'[c].rem = 0
  /\ peer'[c].m = q.m
  /\ \A d \in Csids \ {c} : peer'[d] = peer[d] \/ peer'[d].rem = 0

LEMMA PeerChunkKeeps ==
  ASSUME Typed, NEW st, Sync(st), NEW c \in Csids, NEW f \in 0 .. 3, NEW q \in PeerStream,
         PeerChunk(c, f, q),
         Chunk(Inside(st[Len(st)], "pay", c, f, q), reckless', extended'),
         extended => extended', UNCHANGED <<cs_in, cur, max_chunk_size, got>>
  PROVE  /\ peer' \in [Csids -> PeerStream] /\ psize' \in AllSizes /\ rsize' \in AllSizes
         /\ sent' \in Seq(SentMessage) /\ reckless' \in BOOLEAN
         /\ Prolonged(wire, wire') /\ Longer(sent, sent')
         /\ Advanced(c, q)
         /\ \E u : Sync(u)'
  <1> DEFINE a == st[Len(st)]
             b == Inside(a, "pay", c, f, q)
             e == [p |-> peer', z |-> psize', r |-> rsize', n |-> Len(sent'), at |-> "idle",
                   q |-> q, c |-> c, f |-> f]
  <1>1. /\ Linked(st, wire, sent, reckless, extended) /\ ReaderAt(st[1]) /\ PeerAt(a)
        /\ wire \in Seq(Tokens) /\ sent \in Seq(SentMessage)
    BY DEF Sync, Typed
  <1>2. a \in Snapshots /\ Good(a, sent, reckless, extended)
    <2>1. st \in Seq(Snapshots) /\ Len(st) = Len(wire) + 1 /\ Len(wire) \in Nat
      BY <1>1 DEF Linked
    <2>2. Len(st) \in 1 .. Len(st)
      BY <2>1
    <2> QED
      BY <1>1, <2>2 DEF Linked, Good
  <1>3. b \in Snapshots /\ Same(a, b) /\ b.at = "pay" /\ b.c = c /\ b.f = f /\ b.q = q
    BY <1>2 DEF Inside, Snapshots, Same
  <1>4. /\ a.at = "idle" /\ a.p = peer /\ a.z = psize /\ a.r = rsize /\ a.n = Len(sent)
        /\ b.p = peer /\ b.z = psize /\ b.r = rsize /\ b.n = Len(sent)
    BY <1>1, <1>3 DEF PeerAt, Same
  <1>5. Chunk(b, reckless', extended')
    OBVIOUS
  <1> HIDE DEF b
  <1>6. \A d \in Csids : Resting(d, peer[d]) /\ peer[d] \in PeerStream
    BY <1>2, <1>4 DEF Good, Typed
  <1>7. /\ Rest(b) = q.rem - Lesser(q.rem, psize)
        /\ Ending(b) = IF Rest(b) = 0 THEN q.kind ELSE "none"
    BY <1>3, <1>4 DEF Rest, Ending
  <1>20. Lesser(q.rem, psize) \in Nat
    <2>1. psize \in Nat \ {0} /\ q.rem \in Nat
      BY Numbers DEF PeerStream, Typed
    <2> QED
      BY <2>1 DEF Lesser
  <1>8. /\ wire' = WithChunk(wire, c, f, q, Lesser(q.rem, psize))
        /\ peer' = [d \in Csids |->
                     IF d = c THEN [q EXCEPT !.rem = Rest(b)]
                     ELSE IF Ending(b) = "abort" /\ d = q.arg THEN Silent ELSE peer[d]]
        /\ sent' = IF Rest(b) = 0
                   THEN Append(sent, [m |-> q.m, time |-> q.time, exact |-> q.exact]) ELSE sent
        /\ psize' = IF Ending(b) = "size" THEN q.arg ELSE psize
        /\ rsize' = CASE Ending(b) = "size" -> q.arg [] Ending(b) = "connect" -> ServerSize [] OTHER -> rsize
        /\ reckless' \in BOOLEAN /\ (reckless => reckless')
    <2>2. wire' = WithChunk(wire, c, f, q, Lesser(q.rem, psize))
      BY <1>1, <1>20, WithChunkIs, Zenon DEF PeerChunk
    <2> QED
      BY <1>7, <2>2 DEF PeerChunk
  <1>9. /\ Rest(b) \in 0 .. q.rem - 1 /\ [q EXCEPT !.rem = Rest(b)] \in PeerStream
        /\ Resting(c, [q EXCEPT !.rem = Rest(b)])
    BY <1>3, <1>4, <1>5, <1>6, RestingAfter
  <1>10. /\ peer' \in [Csids -> PeerStream]
         /\ \A d \in Csids : Resting(d, peer'[d])
    BY <1>6, <1>8, <1>9, SilentRests
  <1>11. psize' \in AllSizes /\ rsize' \in AllSizes
    <2>1. Ending(b) = "size" => q.arg \in Sizes
      BY <1>3, <1>5, <1>7 DEF Chunk, Fits
    <2> QED
      BY <1>8, <2>1 DEF Typed, AllSizes
  <1>12. /\ sent' \in Seq(SentMessage) /\ Longer(sent, sent')
         /\ Len(sent') = IF Rest(b) = 0 THEN Len(sent) + 1 ELSE Len(sent)
         /\ Rest(b) = 0 => sent'[Len(sent')] = [m |-> q.m, time |-> q.time, exact |-> q.exact]
    <2>1. [m |-> q.m, time |-> q.time, exact |-> q.exact] \in SentMessage
      BY DEF PeerStream, SentMessage
    <2> QED
      BY <1>1, <1>8, <2>1 DEF Longer
  <1>13. Prolonged(wire, wire')
    <2> QED
      BY <1>1, <1>8, <1>20, LongerByChunk
  <1>14. /\ e.p = peer' /\ e.z = psize' /\ e.r = rsize' /\ e.n = Len(sent') /\ e.at = "idle"
         /\ e \in Snapshots
    BY <1>10, <1>11, <1>12 DEF Snapshots
  <1> HIDE DEF e
  <1>15. Good(e, sent', reckless', extended')
    BY <1>10, <1>12, <1>14 DEF Good
  <1>16. Ended(b, e, sent')
    <2>1. b.n = Len(sent) /\ b.p = peer /\ b.z = psize /\ b.r = rsize /\ b.q = q /\ b.c = c
      BY <1>3, <1>4
    <2>2. /\ e.p = [d \in Csids |->
                     IF d = b.c THEN [b.q EXCEPT !.rem = Rest(b)]
                     ELSE IF Ending(b) = "abort" /\ d = b.q.arg THEN Silent ELSE b.p[d]]
          /\ e.z = IF Ending(b) = "size" THEN b.q.arg ELSE b.z
          /\ e.r = CASE Ending(b) = "size" -> b.q.arg [] Ending(b) = "connect" -> ServerSize [] OTHER -> b.r
      BY <1>8, <1>14, <2>1
    <2>3. /\ e.n = IF Rest(b) = 0 THEN b.n + 1 ELSE b.n
          /\ Rest(b) = 0 => e.n <= Len(sent') /\ sent'[e.n] = [m |-> b.q.m, time |-> b.q.time, exact |-> b.q.exact]
      BY <1>12, <1>14, <2>1
    <2> QED
      BY <1>14, <2>2, <2>3 DEF Ended
  <1>17. Linked(st, wire, sent', reckless', extended')
    <2>1. reckless => reckless'
      BY <1>8
    <2>2. sent' \in Seq(SentMessage) /\ Longer(sent, sent')
      BY <1>12
    <2>3. ASSUME NEW S, NEW T, NEW R, NEW Q, NEW X, NEW Y, S \in Seq(SentMessage), T \in Seq(SentMessage),
                 Linked(st, wire, S, R, X), Longer(S, T), R => Q, X => Y
          PROVE  Linked(st, wire, T, Q, Y)
      BY <1>1, <2>3, LinkedLater
    <2> QED
      BY <1>1, <2>1, <2>2, <2>3
  <1>18. PICK u : Linked(u, wire', sent', reckless', extended') /\ u[1] = st[1] /\ u[Len(u)] = e
    BY <1>1, <1>4, <1>5, <1>8, <1>15, <1>16, <1>17, LinkedChunk DEF b
  <1>19. ReaderAt(st[1])'
    BY <1>1, ReaderAtLater
  <1>21. Sync(u)'
    <2>1. ReaderAt(u[1])'
      BY <1>18, <1>19
    <2>2. PeerAt(u[Len(u)])'
      BY <1>14, <1>18 DEF PeerAt
    <2> QED
      BY <1>18, <2>1, <2>2 DEF Sync
  <1>22. Advanced(c, q)
    <2>1. peer'[c].rem = Rest(b) /\ peer'[c].m = q.m
      BY <1>8, <1>9 DEF PeerStream
    <2>2. \A d \in Csids \ {c} : peer'[d] = peer[d] \/ peer'[d].rem = 0
      BY <1>8 DEF Silent
    <2> QED
      BY <1>8, <2>1, <2>2 DEF Advanced
  <1> QED
    BY <1>8, <1>10, <1>11, <1>12, <1>13, <1>21, <1>22

\* A message is sent once.
LEMMA SentAfter ==
  ASSUME Typed, SentInv, NEW c \in Csids, NEW q \in PeerStream, Advanced(c, q),
         begun' \in Nat, begun' >= begun, q.m \in 1 .. begun' - 1,
         \A i \in 1 .. Len(sent) : sent[i].m # q.m,
         \A d \in Csids \ {c} : peer[d].rem > 0 => peer[d].m # q.m
  PROVE  SentInv'
  <1> DEFINE e == [m |-> q.m, time |-> q.time, exact |-> q.exact]
  <1>1. sent \in Seq(SentMessage) /\ begun \in Nat /\ peer \in [Csids -> PeerStream]
    BY NumbersAssumption DEF Typed
  <1>2. /\ e.m = q.m /\ e \in SentMessage
    BY DEF PeerStream, SentMessage
  <1> HIDE DEF e
  <1>3. sent' = sent \/ (sent' = Append(sent, e) /\ peer'[c].rem = 0)
    BY DEF Advanced, e
  <1>4. \A d \in Csids : peer'[d].rem > 0 =>
          \/ d = c /\ peer'[d].m = q.m
          \/ d # c /\ peer'[d].m = peer[d].m /\ peer[d].rem > 0
    BY DEF Advanced
  <1>5. \A d \in Csids : peer[d].rem > 0 => peer[d].m \in 1 .. begun - 1 /\ \A i \in 1 .. Len(sent) : sent[i].m # peer[d].m
    BY DEF SentInv
  <1>6. \A i \in 1 .. Len(sent) : sent[i].m \in 1 .. begun - 1
    BY DEF SentInv
  <1>7. \A i \in 1 .. Len(sent') :
          \/ i \in 1 .. Len(sent) /\ sent'[i] = sent[i]
          \/ i = Len(sent) + 1 /\ sent'[i].m = q.m /\ peer'[c].rem = 0
    <2>1. CASE sent' = sent
      BY <2>1
    <2>2. CASE sent' = Append(sent, e) /\ peer'[c].rem = 0
      BY <1>1, <1>2, <2>2
    <2> QED
      BY <1>3, <2>1, <2>2
  <1>8. \A i \in 1 .. Len(sent') : sent'[i].m \in 1 .. begun' - 1
    BY <1>1, <1>6, <1>7
  <1>9. \A i, j \in 1 .. Len(sent') : sent'[i].m = sent'[j].m => i = j
    BY <1>7 DEF SentInv
  <1>10. ASSUME NEW d \in Csids, peer'[d].rem > 0
         PROVE  /\ peer'[d].m \in 1 .. begun' - 1
                /\ \A i \in 1 .. Len(sent') : sent'[i].m # peer'[d].m
                /\ \A g \in Csids : peer'[g].rem > 0 /\ peer'[g].m = peer'[d].m => g = d
    <2>1. peer'[d].m \in 1 .. begun' - 1
      BY <1>1, <1>4, <1>5, <1>10
    <2>2. \A i \in 1 .. Len(sent') : sent'[i].m # peer'[d].m
      BY <1>4, <1>5, <1>7, <1>10
    <2>3. \A g \in Csids : peer'[g].rem > 0 /\ peer'[g].m = peer'[d].m => g = d
      BY <1>4, <1>10 DEF SentInv
    <2> QED
      BY <2>1, <2>2, <2>3
  <1> QED
    BY <1>8, <1>9, <1>10 DEF SentInv

\* One more chunk of the peer.
LEMMA PeerStepKeeps ==
  ASSUME IInv, NEW c \in Csids, NEW f \in 0 .. 3, NEW q \in PeerStream, PeerChunk(c, f, q),
         \A st : Sync(st) => Chunk(Inside(st[Len(st)], "pay", c, f, q), reckless', extended'),
         extended' \in BOOLEAN, extended => extended', ~garbled, begun >= 1,
         begun' \in 0 .. MaxMessages + 1, begun' >= begun, q.m \in 1 .. begun' - 1,
         \A i \in 1 .. Len(sent) : sent[i].m # q.m,
         \A d \in Csids \ {c} : peer[d].rem > 0 => peer[d].m # q.m,
         UNCHANGED <<here, state, busy, most, cur, reader, garbled, fresh>>
  PROVE  IInv'
  <1>1. PICK st : Sync(st)
    BY DEF IInv
  <1>2. Typed /\ OutInv /\ GotInv /\ SentInv /\ ShakeInv /\ HereInv /\ GarbledInv
    BY DEF IInv
  <1>3. UNCHANGED <<cs_in, max_chunk_size, window_size, ack_recv, got, out, resized>>
    BY DEF reader
  <1>4. /\ peer' \in [Csids -> PeerStream] /\ psize' \in AllSizes /\ rsize' \in AllSizes
        /\ sent' \in Seq(SentMessage) /\ reckless' \in BOOLEAN
        /\ Prolonged(wire, wire') /\ Longer(sent, sent')
        /\ Advanced(c, q)
        /\ \E u : Sync(u)'
    BY <1>1, <1>2, <1>3, PeerChunkKeeps
  <1> HIDE DEF PeerChunk
  <1>5. wire \in Seq(Tokens) /\ wire' \in Seq(Tokens) /\ sent \in Seq(SentMessage) /\ here \in Nat /\ begun' \in Nat /\ begun \in Nat
    BY <1>2, <1>4, NumbersAssumption DEF Typed, Prolonged
  <1>6. Typed'
    BY <1>2, <1>3, <1>4, <1>5 DEF Typed
  <1>7. OutInv'
    BY <1>2, <1>3 DEF OutInv
  <1>8. GotInv'
    <2>1. \A i \in 1 .. Len(got) : i <= Len(sent) => i <= Len(sent') /\ sent'[i] = sent[i]
      BY <1>2, <1>4, <1>5 DEF Longer, Typed
    <2> QED
      BY <1>2, <1>3, <2>1 DEF GotInv
  <1>9. SentInv'
    BY <1>2, <1>4, <1>5, SentAfter
  <1>10. ShakeInv'
    <2>1. Shaking' = Shaking /\ Shaking \in {0, 2} /\ state # "init" /\ begun' # 0
      BY <1>2, <1>5 DEF Shaking, ShakeInv
    <2>2. Shaken' = Shaken
      BY DEF Shaken
    <2>3. \A i \in 1 .. Len(wire') : wire'[i].k \in {"c0c1", "c2"} <=> i <= Shaking'
      <3> TAKE i \in 1 .. Len(wire')
      <3>1. CASE i \in 1 .. Len(wire)
        <4>1. wire'[i] = wire[i]
          BY <1>4, <3>1 DEF Prolonged
        <4> QED
          BY <1>2, <2>1, <3>1, <4>1 DEF ShakeInv
      <3>2. CASE i > Len(wire)
        <4>1. wire'[i].k \notin {"c0c1", "c2"}
          BY <1>4, <3>2 DEF Prolonged
        <4>2. ~(i <= Shaking')
          BY <1>2, <1>5, <2>1, <3>2 DEF ShakeInv
        <4> QED
          BY <4>1, <4>2
      <3> QED
        BY <1>5, <3>1, <3>2
    <2>4. Shaking' <= Len(wire')
      BY <1>2, <1>4, <1>5, <2>1 DEF ShakeInv, Prolonged
    <2> QED
      BY <1>2, <2>1, <2>2, <2>3, <2>4 DEF ShakeInv
  <1>11. HereInv'
    BY <1>2, <1>4, <1>5 DEF HereInv, Prolonged
  <1>12. GarbledInv'
    BY DEF GarbledInv
  <1> QED
    BY <1>4, <1>6, <1>7, <1>8, <1>9, <1>10, <1>11, <1>12 DEF IInv

LEMMA LastSnapshot ==
  ASSUME Typed, NEW st, Sync(st)
  PROVE  /\ Len(st) \in Nat \ {0} /\ Len(st) = Len(wire) + 1 /\ st \in Seq(Snapshots)
         /\ \A i \in 1 .. Len(st) : st[i] \in Snapshots /\ Good(st[i], sent, reckless, extended)
         /\ PeerAt(st[Len(st)])
         /\ \A c \in Csids : Resting(c, peer[c])
  <1>1. st \in Seq(Snapshots) /\ Len(st) = Len(wire) + 1 /\ Len(wire) \in Nat
    BY DEF Sync, Linked, Typed
  <1>2. Len(st) \in Nat \ {0} /\ \A i \in 1 .. Len(st) : st[i] \in Snapshots /\ Good(st[i], sent, reckless, extended)
    BY <1>1 DEF Sync, Linked
  <1>3. PeerAt(st[Len(st)])
    BY DEF Sync
  <1> QED
    BY <1>1, <1>2, <1>3 DEF Good, PeerAt

LEMMA InsideLast ==
  ASSUME Typed, NEW st, Sync(st), NEW c \in Csids, NEW f \in 0 .. 3, NEW q \in PeerStream
  PROVE  LET b == Inside(st[Len(st)], "pay", c, f, q)
         IN  b.p = peer /\ b.z = psize /\ b.r = rsize /\ b.c = c /\ b.f = f /\ b.q = q
  <1>1. st[Len(st)] \in Snapshots /\ PeerAt(st[Len(st)])
    BY LastSnapshot
  <1> QED
    BY <1>1 DEF Inside, Snapshots, PeerAt

LEMMA PeerBeginKeeps ==
  ASSUME IInv, NEW c \in Csids, NEW f \in 0 .. 3, NEW len \in Nat \ {0}, NEW ts \in Nat,
         NEW kind, kind \in IF c = Control THEN {"size", "window", "abort"} ELSE {"connect", "command", "data"},
         NEW arg \in Args, PeerBegin(c, f, len, ts, kind, arg),
         kind = "size" => arg \in Sizes, kind = "window" => arg \in Windows,
         kind = "abort" => arg \in Streams, c = Control => len = 1
  PROVE  IInv'
  <1> DEFINE p == peer[c]
             q == Opening(p, f, len, ts, kind, arg)
  <1>1. PICK st : Sync(st)
    BY DEF IInv
  <1>2. Typed /\ SentInv
    BY DEF IInv
  <1>3. p \in PeerStream /\ Resting(c, p)
    BY <1>1, <1>2, LastSnapshot DEF Typed
  <1>4. /\ ~garbled /\ ~reckless /\ ~extended /\ begun \in 1 .. MaxMessages
        /\ p.rem = 0 /\ (f # 0 => p.m > 0)
        /\ (f \in 2 .. 3 => len = p.len /\ kind = p.kind)
        /\ (f = 3 => ts = p.field)
        /\ PeerChunk(c, f, q)
        /\ begun' = begun + 1
        /\ extended' = (extended \/ (ts >= ExtLimit /\ f \in 1 .. 2) \/ (f = 3 /\ p.ext))
        /\ UNCHANGED <<here, state, busy, most, cur, reader, garbled, fresh>>
    BY Zenon DEF PeerBegin
  <1>5. MaxMessages \in Nat /\ ExtLimit \in Nat
    BY NumbersAssumption
  <1>6. p.time \in Nat /\ p.hdr \in 0 .. 4 /\ p.ext \in BOOLEAN /\ p.exact \in BOOLEAN /\ p.whole \in BOOLEAN /\ psize \in Nat \ {0}
    BY <1>2, <1>3, Numbers DEF PeerStream, Typed
  <1> DEFINE time == IF f = 0 THEN ts ELSE p.time + ts
             hdr == IF f = 3 THEN p.hdr ELSE f
             whole == len <= psize /\ f # 3
             ext == p.ext \/ ts >= ExtLimit
             exact == ~(ts >= ExtLimit) /\ (f = 0 \/ (p.exact /\ (f = 3 => p.whole /\ p.hdr \in 1 .. 2)))
  <1>7. /\ time \in Nat /\ hdr \in 0 .. 4 /\ whole \in BOOLEAN /\ ext \in BOOLEAN /\ exact \in BOOLEAN
        /\ kind \in Kinds
    BY <1>6 DEF Kinds
  <1>8. q = [time |-> time, field |-> ts, len |-> len, kind |-> kind, arg |-> arg, m |-> begun, rem |-> len,
             hdr |-> hdr, whole |-> whole, ext |-> ext, exact |-> exact]
    BY Zenon DEF Opening
  <1> HIDE DEF q, time, hdr, whole, ext, exact
  <1>9. /\ q \in PeerStream
        /\ q.time = time /\ q.field = ts /\ q.len = len /\ q.kind = kind /\ q.arg = arg
        /\ q.m = begun /\ q.rem = len /\ q.hdr = hdr
        /\ q.whole = whole /\ q.ext = ext /\ q.exact = exact
    BY <1>4, <1>5, <1>7, <1>8 DEF PeerStream
  <1>10. extended' \in BOOLEAN /\ (extended => extended')
    BY <1>4
  <1>11. reckless' \/ Lesser(q.rem, psize) = Lesser(q.rem, rsize)
    BY <1>4, Zenon DEF PeerChunk
  <1>12. Starts(p, q, f, psize, extended')
    <2>1. q.rem = q.len /\ (f # 0 => p.m > 0) /\ p.rem = 0
      BY <1>4, <1>9
    <2>2. (f \in 2 .. 3 => q.len = p.len /\ q.kind = p.kind) /\ (f = 3 => q.field = p.field)
      BY <1>4, <1>9
    <2>3. /\ q.time = IF f = 0 THEN q.field ELSE p.time + q.field
          /\ q.hdr = IF f = 3 THEN p.hdr ELSE f
      BY <1>9 DEF time, hdr
    <2>4. q.whole => f # 3 /\ q.len <= psize
      BY <1>9 DEF whole
    <2>5. q.ext <=> p.ext \/ q.field >= ExtLimit
      BY <1>6, <1>9 DEF ext
    <2>6. q.exact => q.field < ExtLimit /\ (f # 0 => p.exact) /\ (f = 3 => p.whole /\ p.hdr \in 1 .. 2)
      <3>1. exact => ~(ts >= ExtLimit) /\ (f # 0 => p.exact) /\ (f = 3 => p.whole /\ p.hdr \in 1 .. 2)
        <4>1. exact <=> ~(ts >= ExtLimit) /\ (f = 0 \/ (p.exact /\ (f = 3 => p.whole /\ p.hdr \in 1 .. 2)))
          BY DEF exact
        <4> HIDE DEF p
        <4> QED
          BY <1>6, <1>7, <4>1
      <3>2. ~(ts >= ExtLimit) => ts < ExtLimit
        BY <1>5
      <3> QED
        BY <1>9, <3>1, <3>2
    <2>7. /\ extended' \/ ~(q.field >= ExtLimit /\ f \in 1 .. 2)
          /\ extended' \/ ~(f = 3 /\ p.ext)
      BY <1>4, <1>9
    <2> QED
      BY <2>1, <2>2, <2>3, <2>4, <2>5, <2>6, <2>7 DEF Starts
  <1>13. Fits(c, q)
    <2>1. q.m > 0 /\ q.field >= ExtLimit => q.ext
      BY <1>12 DEF Starts
    <2>2. /\ q.kind \in IF c = Control THEN {"none", "size", "window", "abort"}
                        ELSE {"none", "connect", "command", "data"}
          /\ q.rem <= q.len
      BY <1>9
    <2>3. /\ q.kind = "size" => q.arg \in Sizes
          /\ q.kind = "window" => q.arg \in Windows
          /\ q.kind = "abort" => q.arg \in Streams
      BY <1>9
    <2> QED
      BY <2>1, <2>2, <2>3 DEF Fits
  <1>14. ASSUME NEW s, Sync(s)
         PROVE  Chunk(Inside(s[Len(s)], "pay", c, f, q), reckless', extended')
    <2> DEFINE b == Inside(s[Len(s)], "pay", c, f, q)
    <2>1. b.p = peer /\ b.z = psize /\ b.r = rsize /\ b.c = c /\ b.f = f /\ b.q = q
      BY <1>2, <1>9, <1>14, InsideLast
    <2> HIDE DEF b
    <2>2. Starts(b.p[b.c], b.q, b.f, b.z, extended')
      BY <1>12, <2>1
    <2>3. Chunk(b, reckless', extended')
      <3>1. ~(b.p[b.c].rem > 0)
        BY <1>4, <2>1
      <3> QED
        BY <1>4, <1>9, <1>11, <1>13, <2>1, <2>2, <3>1 DEF Chunk
    <2> QED
      BY <2>3 DEF b
  <1>15. /\ q.m \in 1 .. begun' - 1 /\ begun' \in 0 .. MaxMessages + 1 /\ begun' >= begun /\ begun >= 1
    BY <1>4, <1>5, <1>9
  <1>16. /\ \A i \in 1 .. Len(sent) : sent[i].m # q.m
         /\ \A d \in Csids \ {c} : peer[d].rem > 0 => peer[d].m # q.m
    BY <1>2, <1>4, <1>9 DEF SentInv
  <1> QED
    BY <1>4, <1>9, <1>10, <1>14, <1>15, <1>16, PeerStepKeeps

LEMMA PeerContinuesKeeps ==
  ASSUME IInv, NEW c \in Streams, PeerContinues(c)
  PROVE  IInv'
  <1> DEFINE q == peer[c]
  <1>1. PICK st : Sync(st)
    BY DEF IInv
  <1>2. Typed /\ SentInv
    BY DEF IInv
  <1>3. c \in Csids /\ c # Control
    BY CsidsAssumption DEF Csids
  <1>4. q \in PeerStream /\ Resting(c, q)
    BY <1>1, <1>2, <1>3, LastSnapshot DEF Typed
  <1>5. /\ ~garbled /\ q.rem > 0 /\ PeerChunk(c, 3, q)
        /\ extended' = (extended \/ (q.ext /\ q.field < ExtLimit))
        /\ UNCHANGED <<begun, here, state, busy, most, cur, reader, garbled, fresh>>
    BY DEF PeerContinues
  <1>6. reckless' \/ Lesser(q.rem, psize) = Lesser(q.rem, rsize)
    BY <1>5, Zenon DEF PeerChunk
  <1>7. ASSUME NEW s, Sync(s)
        PROVE  Chunk(Inside(s[Len(s)], "pay", c, 3, q), reckless', extended')
    <2> DEFINE b == Inside(s[Len(s)], "pay", c, 3, q)
    <2>1. b.p = peer /\ b.z = psize /\ b.r = rsize /\ b.c = c /\ b.f = 3 /\ b.q = q
      BY <1>2, <1>3, <1>4, <1>7, InsideLast
    <2> HIDE DEF b
    <2>2. Chunk(b, reckless', extended')
      BY <1>3, <1>4, <1>5, <1>6, <2>1 DEF Chunk, Continues, Resting
    <2> QED
      BY <2>2 DEF b
  <1>8. /\ q.m \in 1 .. begun - 1 /\ begun \in 0 .. MaxMessages + 1
        /\ \A i \in 1 .. Len(sent) : sent[i].m # q.m
        /\ \A d \in Csids \ {c} : peer[d].rem > 0 => peer[d].m # q.m
    BY <1>2, <1>3, <1>5 DEF SentInv, Typed
  <1>9. begun' = begun /\ begun >= begun /\ begun >= 1
    BY <1>5, <1>8, NumbersAssumption
  <1> HIDE DEF q
  <1> QED
    BY <1>2, <1>3, <1>4, <1>5, <1>7, <1>8, <1>9, PeerStepKeeps DEF Typed

LEMMA PeerConnectsKeeps ==
  ASSUME IInv, PeerConnects
  PROVE  IInv'
  <1>1. Commands \in Csids /\ Commands # Control /\ 0 \in Args
    BY CsidsAssumption DEF Csids, Args
  <1>2. PeerBegin(Commands, 0, 2, 0, "connect", 0)
    BY DEF PeerConnects
  <1> QED
    BY <1>1, <1>2, PeerBeginKeeps

LEMMA PeerMessageKeeps ==
  ASSUME IInv, NEW c \in Streams, NEW f \in 0 .. 3, NEW len \in Lengths, NEW ts \in Stamps,
         PeerMessage(c, f, len, ts)
  PROVE  IInv'
  <1>1. c \in Csids /\ c # Control /\ len \in Args /\ len \in Nat \ {0} /\ ts \in Nat
    BY CsidsAssumption, NumbersAssumption DEF Csids, Args
  <1>2. PICK kind \in {"command", "data"} : PeerBegin(c, f, len, ts, kind, len)
    BY DEF PeerMessage
  <1> QED
    BY <1>1, <1>2, PeerBeginKeeps

LEMMA PeerControlsKeeps ==
  ASSUME IInv, PeerControls
  PROVE  IInv'
  <1>1. Control \in Csids /\ Sizes \subseteq Args /\ Windows \subseteq Args /\ Streams \subseteq Args
    BY NumbersAssumption DEF Csids, Args
  <1>2. CASE \E n \in Sizes : PeerBegin(Control, 0, 1, 0, "size", n)
    BY <1>1, <1>2, PeerBeginKeeps
  <1>3. CASE \E n \in Windows : PeerBegin(Control, 0, 1, 0, "window", n)
    BY <1>1, <1>3, PeerBeginKeeps
  <1>4. CASE \E c \in Streams : PeerBegin(Control, 0, 1, 0, "abort", c)
    BY <1>1, <1>4, PeerBeginKeeps
  <1> QED
    BY <1>2, <1>3, <1>4, Zenon DEF PeerControls

LEMMA PeerC2Keeps ==
  ASSUME IInv, PeerC2
  PROVE  IInv'
  <1>1. /\ state = "c2" /\ begun = 0 /\ wire = <<>> /\ begun' = 1
        /\ wire' = <<[k |-> "c2"], [k |-> "c2"]>>
        /\ UNCHANGED <<peer, psize, sent, rsize, reckless, extended, here, state, busy, most, cur, reader,
                       garbled, fresh>>
    BY DEF PeerC2
  <1>2. UNCHANGED <<cs_in, max_chunk_size, window_size, ack_recv, got, out, resized>>
    BY <1>1 DEF reader
  <1>3. Typed /\ OutInv /\ GotInv /\ SentInv /\ ShakeInv /\ HereInv /\ GarbledInv
    BY DEF IInv
  <1> DEFINE t == [k |-> "c2"]
  <1>4. /\ t \in Tokens /\ t.k = "c2" /\ wire' = Append(Append(wire, t), t) /\ Len(wire') = 2
        /\ wire' \in Seq(Tokens) /\ wire'[1] = t /\ wire'[2] = t
    <2>1. t \in Tokens /\ t.k = "c2"
      BY DEF Tokens
    <2> HIDE DEF t
    <2>2. wire' = <<t, t>>
      BY <1>1 DEF t
    <2> QED
      BY <1>1, <2>1, <2>2
  <1> HIDE DEF t
  <1>5. Typed'
    <2>1. begun' \in 0 .. MaxMessages + 1
      BY SMTT(30), <1>1, NumbersAssumption
    <2> QED
      BY <1>1, <1>2, <1>3, <1>4, <2>1 DEF Typed
  <1>6. OutInv' /\ GotInv' /\ GarbledInv'
    BY <1>1, <1>2, <1>3 DEF OutInv, GotInv, GarbledInv
  <1>7. SentInv'
    BY <1>1, <1>3 DEF SentInv
  <1>8. ShakeInv'
    <2>1. Shaking' = 2 /\ Shaken' = Shaken /\ ~Shaken
      BY <1>1 DEF Shaking, Shaken
    <2>2. \A i \in 1 .. Len(wire') : wire'[i].k \in {"c0c1", "c2"} <=> i <= Shaking'
      BY <1>4, <2>1
    <2> QED
      BY <1>1, <1>3, <1>4, <2>1, <2>2 DEF ShakeInv
  <1>9. HereInv'
    <2>1. here = 0
      BY <1>1, <1>3 DEF HereInv, Typed
    <2> QED
      BY <1>1, <1>3, <1>4, <2>1 DEF HereInv
  <1>10. \E st : Sync(st)'
    <2>1. PICK st : Sync(st)
      BY DEF IInv
    <2> DEFINE a == st[Len(st)]
               u == Append(st, a)
               v == Append(u, a)
    <2>2. /\ Linked(st, wire, sent, reckless, extended) /\ ReaderAt(st[1]) /\ PeerAt(a)
          /\ Good(a, sent, reckless, extended)
      BY <1>3, <2>1, LastSnapshot DEF Sync
    <2>3. Link(a, t, a, sent)
      BY <1>4, <2>2 DEF Link, ShakeLink, Same, PeerAt
    <2>4. wire \in Seq(Tokens)
      BY <1>3 DEF Typed
    <2> HIDE DEF a
    <2>5. /\ Linked(u, Append(wire, t), sent, reckless, extended)
          /\ u[1] = st[1] /\ u[Len(u)] = a /\ Append(wire, t) \in Seq(Tokens)
      BY <1>4, <2>2, <2>3, <2>4, LinkedMore DEF a
    <2> HIDE DEF u
    <2>6. /\ Linked(v, Append(Append(wire, t), t), sent, reckless, extended)
          /\ v[1] = u[1] /\ v[Len(v)] = a
      <3>1. Link(u[Len(u)], t, a, sent)
        BY <2>3, <2>5
      <3> DEFINE w == Append(wire, t)
      <3>2. w \in Seq(Tokens) /\ Linked(u, w, sent, reckless, extended)
        BY <2>5
      <3> HIDE DEF w
      <3>3. Linked(v, Append(w, t), sent, reckless, extended) /\ v[1] = u[1] /\ v[Len(v)] = a
        BY <1>4, <2>2, <3>1, <3>2, LinkedMore
      <3> QED
        BY <3>3 DEF w
    <2>7. ReaderAt(st[1])'
      BY <1>1, <1>2, <2>2, ReaderAtLater
    <2>8. PeerAt(a)'
      BY <1>1, <2>2 DEF PeerAt
    <2> HIDE DEF v
    <2>9. Sync(v)'
      <3>1. Linked(v, wire', sent', reckless', extended')
        BY <1>1, <1>4, <2>6
      <3>2. ReaderAt(v[1])'
        BY <2>5, <2>6, <2>7
      <3>3. PeerAt(v[Len(v)])'
        BY <2>6, <2>8
      <3> QED
        BY <3>1, <3>2, <3>3 DEF Sync
    <2> QED
      BY <2>9
  <1> QED
    BY <1>5, <1>6, <1>7, <1>8, <1>9, <1>10 DEF IInv

-----------------------------------------------------------------------------
(* The session *)

LEMMA FirstLinks ==
  ASSUME Typed, NEW st, Sync(st)
  PROVE  /\ Len(wire) \in Nat /\ ReaderAt(st[1])
         /\ \A i \in 1 .. Len(wire) + 1 :
              /\ st[i] \in Snapshots /\ Good(st[i], sent, reckless, extended)
              /\ st[i].at # "idle" => i <= Len(wire)
         /\ \A i \in 1 .. Len(wire) : Link(st[i], wire[i], st[i + 1], sent)
  <1>1. /\ Len(wire) \in Nat /\ Len(st) = Len(wire) + 1
        /\ \A i \in 1 .. Len(st) : st[i] \in Snapshots /\ Good(st[i], sent, reckless, extended)
    BY LastSnapshot DEF Typed
  <1>2. st[Len(wire) + 1].at = "idle"
    BY <1>1, LastSnapshot DEF PeerAt
  <1>3. ReaderAt(st[1]) /\ \A i \in 1 .. Len(wire) : Link(st[i], wire[i], st[i + 1], sent)
    BY DEF Sync, Linked
  <1> QED
    BY <1>1, <1>2, <1>3

\* What the peer has done stays while the first k tokens are consumed.
LEMMA ConsumeKeeps ==
  ASSUME Typed, NEW st, Sync(st), NEW k \in 0 .. Len(wire), wire' = SubSeq(wire, k + 1, Len(wire)),
         UNCHANGED peers, ReaderAt(st[k + 1])'
  PROVE  /\ wire' \in Seq(Tokens) /\ Len(wire') = Len(wire) - k
         /\ \A i \in 1 .. Len(wire') : wire'[i] = wire[i + k]
         /\ \E u : Sync(u)'
  <1>1. wire \in Seq(Tokens) /\ Linked(st, wire, sent, reckless, extended) /\ PeerAt(st[Len(st)])
    BY DEF Typed, Sync
  <1>2. /\ wire' \in Seq(Tokens) /\ Len(wire') = Len(wire) - k
        /\ \A i \in 1 .. Len(wire') : wire'[i] = wire[i + k]
    BY <1>1
  <1> DEFINE u == SubSeq(st, k + 1, Len(st))
  <1>3. /\ Linked(u, wire', sent, reckless, extended)
        /\ u[1] = st[k + 1] /\ u[Len(u)] = st[Len(st)]
    BY <1>1, LinkedShift
  <1> HIDE DEF u
  <1>4. PeerAt(st[Len(st)])' /\ sent' = sent /\ reckless' = reckless /\ extended' = extended
    BY <1>1 DEF PeerAt, peers
  <1>5. Sync(u)'
    <2>1. Linked(u, wire', sent', reckless', extended')
      BY <1>3, <1>4
    <2>2. ReaderAt(u[1])' /\ PeerAt(u[Len(u)])'
      BY <1>3, <1>4
    <2> QED
      BY <2>1, <2>2 DEF Sync
  <1> QED
    BY <1>2, <1>5

LEMMA SyncStays ==
  ASSUME NEW st, Sync(st), UNCHANGED <<peers, wire, cs_in, cur, max_chunk_size, got>>
  PROVE  Sync(st)'
  BY DEF Sync, ReaderAt, PeerAt, peers

LEMMA OnReadKeeps ==
  ASSUME IInv, OnRead
  PROVE  IInv'
  <1>1. Typed /\ OutInv /\ GotInv /\ SentInv /\ ShakeInv /\ HereInv /\ GarbledInv
    BY DEF IInv
  <1>2. /\ ~busy /\ ~garbled /\ busy' = TRUE /\ fresh' = FALSE
        /\ UNCHANGED <<peers, wire, state, most, cur, reader, garbled>>
    BY DEF OnRead
  <1>3. PICK n \in 1 .. Lesser(most, Len(wire) - here) : here' = here + n
    BY DEF OnRead
  <1>4. UNCHANGED <<peer, psize, begun, sent, rsize, reckless, extended>>
    BY <1>2 DEF peers
  <1>5. UNCHANGED <<cs_in, max_chunk_size, window_size, ack_recv, got, out, resized>>
    BY <1>2 DEF reader
  <1>6. here' \in Nat /\ here' > 0 /\ here' <= Len(wire)
    <2>1. most \in Nat /\ Len(wire) \in Nat /\ here \in Nat /\ here <= Len(wire)
      <3>1. MaxWire \in Nat
        BY NumbersAssumption
      <3> QED
        BY <1>1, <3>1 DEF Typed, HereInv
    <2>2. Lesser(most, Len(wire) - here) <= Len(wire) - here /\ Lesser(most, Len(wire) - here) \in Int
      BY <2>1 DEF Lesser
    <2> QED
      BY <1>3, <2>1, <2>2
  <1> HIDE DEF OnRead
  <1>7. Typed'
    BY <1>1, <1>2, <1>4, <1>5, <1>6 DEF Typed
  <1>8. OutInv' /\ GotInv' /\ GarbledInv' /\ SentInv'
    BY <1>1, <1>2, <1>4, <1>5 DEF OutInv, GotInv, GarbledInv, SentInv
  <1>9. ShakeInv'
    BY <1>1, <1>2, <1>4 DEF ShakeInv, Shaking, Shaken
  <1>10. HereInv'
    BY <1>1, <1>2, <1>6 DEF HereInv
  <1>11. \E st : Sync(st)'
    BY <1>2, <1>5, SyncStays DEF IInv
  <1> QED
    BY <1>7, <1>8, <1>9, <1>10, <1>11 DEF IInv

LEMMA WriteMediaPacketKeeps ==
  ASSUME IInv, NEW len \in Lengths, WriteMediaPacket(len)
  PROVE  IInv'
  <1>1. Typed /\ OutInv /\ GotInv /\ SentInv /\ ShakeInv /\ HereInv /\ GarbledInv
    BY DEF IInv
  <1> DEFINE w == ForcedOut("data", len, max_chunk_size)
  <1>2. /\ out' = WriteChunk(out, w)
        /\ UNCHANGED <<peers, wire, here, state, busy, most, cur, cs_in, max_chunk_size, window_size,
                       ack_recv, got, resized, garbled, fresh>>
    BY DEF WriteMediaPacket
  <1>3. UNCHANGED <<peer, psize, begun, sent, rsize, reckless, extended>>
    BY <1>2 DEF peers
  <1>4. w \in Outgoing /\ w.force /\ w.type = "data" /\ w.size = max_chunk_size
    BY <1>1, NumbersAssumption DEF ForcedOut, Outgoing, Types, Args, Typed
  <1> HIDE DEF w, WriteMediaPacket
  <1>5. OutInv'
    <2> SUFFICES ASSUME ~resized
                 PROVE  Heard(out', max_chunk_size)
      BY <1>2 DEF OutInv
    <2>1. Heard(WriteChunk(out, w), IF w.type = "size" THEN w.size ELSE max_chunk_size)
      BY <1>1, <1>4, ForcedKeeps DEF OutInv
    <2> QED
      BY <1>2, <1>4, <2>1
  <1>6. Typed'
    BY <1>1, <1>2, <1>3 DEF Typed
  <1>7. GotInv' /\ GarbledInv' /\ SentInv'
    BY <1>1, <1>2, <1>3 DEF GotInv, GarbledInv, SentInv
  <1>8. ShakeInv'
    BY <1>1, <1>2, <1>3 DEF ShakeInv, Shaking, Shaken
  <1>9. HereInv'
    BY <1>1, <1>2, <1>3 DEF HereInv
  <1>10. \E st : Sync(st)'
    BY <1>2, SyncStays DEF IInv
  <1> QED
    BY <1>5, <1>6, <1>7, <1>8, <1>9, <1>10 DEF IInv

LEMMA HandshakeKeeps ==
  ASSUME IInv, NEW from, NEW to, Handshake(from, to),
         (from = "init" /\ to = "c2") \/ (from = "c2" /\ to = "connect")
  PROVE  IInv'
  <1>1. Typed /\ OutInv /\ GotInv /\ SentInv /\ ShakeInv /\ HereInv /\ GarbledInv
    BY DEF IInv
  <1>2. /\ busy /\ state = from /\ busy' = FALSE
        /\ IF here < 2
           THEN /\ most' = MaxWire + 5
                /\ UNCHANGED <<wire, here, state, fresh>>
           ELSE /\ wire' = SubSeq(wire, 3, Len(wire)) /\ here' = here - 2
                /\ state' = to
                /\ most' = IF to = "c2" THEN 2 ELSE MaxWire + 5
                /\ fresh' = (to = "connect")
        /\ UNCHANGED <<peers, cur, reader, garbled>>
    BY DEF Handshake, Consume
  <1> HIDE DEF Handshake
  <1>3. UNCHANGED <<peer, psize, begun, sent, rsize, reckless, extended>>
    BY <1>2 DEF peers
  <1>4. UNCHANGED <<cs_in, max_chunk_size, window_size, ack_recv, got, out, resized>>
    BY <1>2 DEF reader
  <1>5. OutInv' /\ GotInv' /\ GarbledInv' /\ SentInv'
    BY <1>1, <1>2, <1>3, <1>4 DEF OutInv, GotInv, GarbledInv, SentInv
  <1>6. wire \in Seq(Tokens) /\ Len(wire) \in Nat /\ here \in Nat /\ begun \in Nat
    BY <1>1, NumbersAssumption DEF Typed
  <1>7. /\ cur = NoChunk /\ here > 0 /\ here <= Len(wire) /\ Shaking = 2 /\ 2 <= Len(wire)
        /\ ~Shaken /\ ~fresh
        /\ state = "init" => begun = 0 /\ Len(wire) = 2
        /\ state = "c2" => begun > 0
    <2>1. ~Shaken
      BY <1>2 DEF Shaken
    <2>2. cur = NoChunk /\ ~fresh
      BY <1>1, <2>1 DEF ShakeInv
    <2>3. here > 0 /\ here <= Len(wire)
      BY <1>1, <1>2, <2>2 DEF HereInv
    <2>4. wire # <<>>
      BY <1>6, <2>3
    <2>5. begun = 0 => state # "c2"
      BY <1>1, <2>4 DEF ShakeInv
    <2>6. Shaking = 2
      BY <1>2, <1>6, <2>5 DEF Shaking
    <2> QED
      BY <1>1, <1>6, <2>1, <2>2, <2>3, <2>5, <2>6 DEF ShakeInv
  <1>8. CASE here < 2
    <2>1. UNCHANGED <<wire, here, state, fresh>> /\ most' = MaxWire + 5
      BY <1>2, <1>8
    <2>2. Typed'
      BY <1>1, <1>2, <1>3, <1>4, <2>1 DEF Typed
    <2>3. ShakeInv'
      BY <1>1, <1>2, <1>3, <1>8, <2>1 DEF ShakeInv, Shaking, Shaken
    <2>4. HereInv'
      BY <1>1, <1>2, <1>6, <1>7, <1>8, <2>1 DEF HereInv
    <2>5. \E st : Sync(st)'
      BY <1>2, <1>4, <2>1, SyncStays DEF IInv
    <2> QED
      BY <1>5, <2>2, <2>3, <2>4, <2>5 DEF IInv
  <1>9. CASE ~(here < 2)
    <2>0. to # "connect" => here = 2 /\ here - 2 = 0 /\ Len(wire) = 2
      BY <1>2, <1>6, <1>7, <1>9
    <2>1. /\ wire' = SubSeq(wire, 2 + 1, Len(wire)) /\ here' = here - 2 /\ state' = to
          /\ most' \in {2, MaxWire + 5} /\ fresh' = (to = "connect")
      BY <1>2, <1>9
    <2>2. PICK st : Sync(st)
      BY DEF IInv
    <2>3. ReaderAt(st[3])'
      <3>1. /\ Link(st[1], wire[1], st[2], sent) /\ Link(st[2], wire[2], st[3], sent) /\ ReaderAt(st[1])
        BY <1>1, <1>6, <1>7, <2>2, FirstLinks
      <3>2. wire[1].k \in {"c0c1", "c2"} /\ wire[2].k \in {"c0c1", "c2"}
        BY <1>1, <1>6, <1>7 DEF ShakeInv
      <3>3. Same(st[1], st[2]) /\ Same(st[2], st[3]) /\ st[3].at = "idle"
        BY <3>1, <3>2 DEF Link, ShakeLink, BasicLink, HeadLink, ExtLink, PayLink
      <3>4. ReaderAt(st[3])
        BY <1>7, <3>1, <3>3 DEF ReaderAt, Same
      <3> QED
        BY <1>2, <1>3, <1>4, <3>4, ReaderAtLater
    <2>4. /\ wire' \in Seq(Tokens) /\ Len(wire') = Len(wire) - 2
          /\ \A i \in 1 .. Len(wire') : wire'[i] = wire[i + 2]
          /\ \E u : Sync(u)'
      <3> DEFINE k == 2
      <3>1. wire' = SubSeq(wire, k + 1, Len(wire)) /\ k \in 0 .. Len(wire) /\ ReaderAt(st[k + 1])'
        BY <1>6, <1>7, <2>1, <2>3
      <3> HIDE DEF k
      <3>2. /\ wire' \in Seq(Tokens) /\ Len(wire') = Len(wire) - k
            /\ \A i \in 1 .. Len(wire') : wire'[i] = wire[i + k]
            /\ \E u : Sync(u)'
        BY <1>1, <1>2, <2>2, <3>1, ConsumeKeeps
      <3> QED
        BY <3>2 DEF k
    <2>5. Typed'
      <3>1. here' \in Nat /\ fresh' \in BOOLEAN /\ state' \in {"init", "c2", "connect", "open"}
        BY <1>6, <1>9, <2>1
      <3> QED
        BY <1>1, <1>2, <1>3, <1>4, <2>1, <2>4, <3>1 DEF Typed
    <2>6. ShakeInv'
      <3>1. Shaking' = 0 /\ (Shaken' <=> to = "connect") /\ state' # "init"
        BY <1>2, <1>3, <1>7, <2>1 DEF Shaking, Shaken
      <3>2. \A i \in 1 .. Len(wire') : wire'[i].k \notin {"c0c1", "c2"}
        BY <1>1, <1>6, <1>7, <2>4 DEF ShakeInv
      <3>3. \A i \in 1 .. Len(wire') : wire'[i].k \in {"c0c1", "c2"} <=> i <= Shaking'
        BY <3>1, <3>2
      <3>4. ~Shaken' => cur' = NoChunk /\ ~fresh' /\ here' < 2
        BY <1>2, <1>7, <2>0, <2>1, <3>1
      <3>5. begun' = 0 => ~Shaken' /\ (state' = "c2" => wire' = <<>>)
        BY <1>2, <1>3, <1>6, <1>7, <2>1, <2>4, <3>1
      <3> QED
        BY <1>6, <1>7, <2>4, <3>1, <3>3, <3>4, <3>5 DEF ShakeInv
    <2>7. HereInv'
      <3>1. here' = 0 \/ fresh'
        BY <2>0, <2>1
      <3> QED
        BY <1>1, <1>2, <1>6, <1>7, <1>9, <2>1, <2>4, <3>1 DEF HereInv
    <2> QED
      BY <1>5, <2>4, <2>5, <2>6, <2>7 DEF IInv
  <1> QED
    BY <1>8, <1>9

-----------------------------------------------------------------------------
(* The turns of the loop *)

\* What does not change with the kind of the turn: k tokens are consumed.
LEMMA TurnKeeps ==
  ASSUME IInv, Looping, NEW st, Sync(st), NEW k \in 0 .. here,
         wire' = SubSeq(wire, k + 1, Len(wire)), here' = here - k,
         UNCHANGED <<peers, garbled, fresh>>, state' \in {"connect", "open"},
         ReaderAt(st[k + 1])',
         busy' /\ cur' = NoChunk => here - k > 0,
         ~busy' => extended \/ here = k \/ here < Len(wire)
  PROVE  /\ SentInv' /\ ShakeInv' /\ HereInv' /\ GarbledInv'
         /\ wire' \in Seq(Tokens) /\ here' \in Nat
         /\ \E u : Sync(u)'
  <1>1. Typed /\ SentInv /\ ShakeInv /\ HereInv /\ GarbledInv
    BY DEF IInv
  <1>2. wire \in Seq(Tokens) /\ Len(wire) \in Nat /\ here \in 0 .. Len(wire)
    BY <1>1 DEF Typed, HereInv
  <1>3. /\ wire' \in Seq(Tokens) /\ Len(wire') = Len(wire) - k
        /\ \A i \in 1 .. Len(wire') : wire'[i] = wire[i + k]
        /\ \E u : Sync(u)'
    <2>1. k \in 0 .. Len(wire)
      BY <1>2
    <2> QED
      BY <1>1, <2>1, ConsumeKeeps
  <1>4. UNCHANGED <<peer, psize, begun, sent, rsize, reckless, extended>>
    BY DEF peers
  <1>5. SentInv' /\ GarbledInv'
    BY <1>1, <1>4 DEF SentInv, GarbledInv
  <1>6. Shaken /\ state \notin {"init", "c2"} /\ state' \notin {"init", "c2"} /\ Shaken'
    BY DEF Looping, Shaken
  <1>7. Shaking = 0 /\ Shaking' = 0
    BY <1>6 DEF Shaking
  <1>8. begun' # 0
    BY <1>1, <1>4, <1>6 DEF ShakeInv
  <1>9. \A i \in 1 .. Len(wire') : wire'[i].k \in {"c0c1", "c2"} <=> i <= Shaking'
    <2>1. \A i \in 1 .. Len(wire) : wire[i].k \notin {"c0c1", "c2"}
      BY <1>1, <1>7 DEF ShakeInv
    <2>2. \A i \in 1 .. Len(wire') : i + k \in 1 .. Len(wire)
      BY <1>2, <1>3
    <2> QED
      BY <1>3, <1>7, <2>1, <2>2
  <1>10. ShakeInv'
    <2>1. Shaking' <= Len(wire')
      BY <1>2, <1>3, <1>7
    <2> QED
      BY <1>6, <1>8, <1>9, <2>1 DEF ShakeInv
  <1>11. HereInv'
    <2>1. here' \in Nat /\ here' <= Len(wire') /\ Len(wire') \in Nat
      BY <1>2, <1>3
    <2>2. busy' /\ cur' = NoChunk => here' > 0
      OBVIOUS
    <2>3. ~busy' => extended' \/ here' = 0 \/ here' < Len(wire')
      BY <1>2, <1>3, <1>4
    <2> QED
      BY <2>1, <2>2, <2>3 DEF HereInv
  <1> QED
    BY <1>2, <1>3, <1>5, <1>10, <1>11

\* The reader's place after a turn on its chunk stream.
LEMMA StreamTurn ==
  ASSUME Typed, NEW a, ReaderAt(a), NEW b, Within(a, b), b.at # "idle", cur # NoChunk,
         NEW u, cs_in' = [cs_in EXCEPT ![cur.c] = u],
         UNCHANGED <<cur, max_chunk_size, got, extended>>,
         InHead(u, b, extended) \/ InPay(u, b, extended)
  PROVE  ReaderAt(b)'
  <1>1. cur.c \in Csids /\ cs_in \in [Csids -> ReaderStream]
    BY DEF Typed
  <1>2. cs_in'[cur.c] = u /\ \A c \in Csids : c # cur.c => cs_in'[c] = cs_in[c]
    BY <1>1
  <1> QED
    BY <1>2 DEF ReaderAt, Within, Same

\* A header is complete.
LEMMA HeaderKeeps ==
  ASSUME IInv, Looping, NEW st, Sync(st), cur # NoChunk, NEW k \in 0 .. here,
         NEW u \in ReaderStream, cs_in' = [cs_in EXCEPT ![cur.c] = u], Consume(k),
         UNCHANGED <<peers, state, busy, most, cur, max_chunk_size, window_size, ack_recv, got, out,
                     resized, garbled, fresh>>,
         Within(st[1], st[k + 1]), InPay(u, st[k + 1], extended)
  PROVE  IInv'
  <1>1. Typed /\ OutInv /\ GotInv
    BY DEF IInv
  <1>2. ReaderAt(st[k + 1])'
    <2>1. ReaderAt(st[1]) /\ st[k + 1].at # "idle"
      BY DEF Sync, InPay
    <2>2. extended' = extended
      BY DEF peers
    <2> QED
      BY <1>1, <2>1, <2>2, StreamTurn
  <1>3. /\ SentInv' /\ ShakeInv' /\ HereInv' /\ GarbledInv'
        /\ wire' \in Seq(Tokens) /\ here' \in Nat
        /\ \E v : Sync(v)'
    <2>1. busy' = TRUE /\ cur' # NoChunk /\ state' \in {"connect", "open"}
      BY DEF Looping
    <2>2. wire' = SubSeq(wire, k + 1, Len(wire)) /\ here' = here - k
      BY DEF Consume
    <2> QED
      BY <1>2, <2>1, <2>2, TurnKeeps
  <1>4. UNCHANGED <<peer, psize, begun, sent, rsize, reckless, extended>>
    BY DEF peers
  <1>5. cs_in' \in [Csids -> ReaderStream]
    BY <1>1 DEF Typed
  <1>6. Typed'
    BY <1>1, <1>3, <1>4, <1>5 DEF Typed
  <1>7. OutInv' /\ GotInv'
    BY <1>1, <1>4 DEF OutInv, GotInv
  <1> QED
    BY <1>3, <1>6, <1>7 DEF IInv

\* The loop ends until the next read.
LEMMA WaitKeeps ==
  ASSUME IInv, Looping, NEW st, Sync(st), cur # NoChunk,
         NEW u \in ReaderStream, Wait(cur.c, u), extended \/ here = 0 \/ here < Len(wire),
         InHead(u, st[1], extended) \/ InPay(u, st[1], extended)
  PROVE  IInv'
  <1>1. Typed /\ OutInv /\ GotInv /\ HereInv
    BY DEF IInv
  <1>2. /\ busy' = FALSE /\ cs_in' = [cs_in EXCEPT ![cur.c] = u]
        /\ UNCHANGED <<peers, wire, here, state, most, cur, max_chunk_size, window_size, ack_recv, got,
                       out, resized, garbled, fresh>>
    BY DEF Wait
  <1>3. ReaderAt(st[1])'
    <2>1. ReaderAt(st[1]) /\ st[1].at # "idle"
      BY DEF Sync, ReaderAt
    <2>2. extended' = extended
      BY <1>2 DEF peers
    <2> QED
      BY <1>1, <1>2, <2>1, <2>2, StreamTurn DEF Within, Same
  <1>4. wire \in Seq(Tokens) /\ here \in Nat /\ Len(wire) \in Nat /\ here <= Len(wire)
    BY <1>1 DEF Typed, HereInv
  <1>5. /\ SentInv' /\ ShakeInv' /\ HereInv' /\ GarbledInv'
        /\ wire' \in Seq(Tokens) /\ here' \in Nat
        /\ \E v : Sync(v)'
    <2> DEFINE k == 0
    <2>1. /\ k \in 0 .. here /\ wire' = SubSeq(wire, k + 1, Len(wire)) /\ here' = here - k
          /\ state' \in {"connect", "open"} /\ ReaderAt(st[k + 1])'
          /\ ~busy' => extended \/ here = k \/ here < Len(wire)
      <3>1. wire = SubSeq(wire, 1, Len(wire))
        BY <1>4
      <3> QED
        BY <1>2, <1>3, <1>4, <3>1 DEF Looping
    <2> HIDE DEF k
    <2> QED
      BY <1>2, <2>1, TurnKeeps
  <1>6. UNCHANGED <<peer, psize, begun, sent, rsize, reckless, extended>>
    BY <1>2 DEF peers
  <1>7. cs_in' \in [Csids -> ReaderStream]
    BY <1>1, <1>2 DEF Typed
  <1>8. Typed'
    BY <1>1, <1>2, <1>5, <1>6, <1>7 DEF Typed
  <1>9. OutInv' /\ GotInv'
    BY <1>1, <1>2, <1>6 DEF OutInv, GotInv
  <1> QED
    BY <1>5, <1>8, <1>9 DEF IInv

LEMMA GarbleKeeps ==
  ASSUME IInv, Garble, reckless \/ extended
  PROVE  IInv'
  <1>1. /\ garbled' = TRUE
        /\ UNCHANGED <<peers, wire, here, state, busy, most, cur, reader, fresh>>
    BY DEF Garble
  <1>2. UNCHANGED <<peer, psize, begun, sent, rsize, reckless, extended>>
    BY <1>1 DEF peers
  <1>3. UNCHANGED <<cs_in, max_chunk_size, window_size, ack_recv, got, out, resized>>
    BY <1>1 DEF reader
  <1>4. Typed' /\ OutInv' /\ GotInv' /\ SentInv' /\ ShakeInv' /\ HereInv' /\ GarbledInv'
    BY <1>1, <1>2, <1>3 DEF IInv, Typed, OutInv, GotInv, SentInv, ShakeInv, Shaking, Shaken, HereInv, GarbledInv
  <1>5. \E st : Sync(st)'
    BY <1>1, <1>3, SyncStays DEF IInv
  <1> QED
    BY <1>4, <1>5 DEF IInv

LEMMA ReadBasicKeeps ==
  ASSUME IInv, ReadBasic
  PROVE  IInv'
  <1>1. Typed /\ OutInv /\ GotInv /\ SentInv /\ ShakeInv /\ HereInv /\ GarbledInv
    BY DEF IInv
  <1>2. PICK st : Sync(st)
    BY DEF IInv
  <1>3. /\ Looping /\ cur = NoChunk /\ cur' = [fmt |-> wire[1].fmt, c |-> wire[1].c]
        /\ wire' = SubSeq(wire, 1 + 1, Len(wire)) /\ here' = here - 1
        /\ UNCHANGED <<peers, state, busy, most, reader, garbled, fresh>>
    BY DEF ReadBasic, Consume
  <1>4. UNCHANGED <<peer, psize, begun, sent, rsize, reckless, extended>>
    BY <1>3 DEF peers
  <1>5. UNCHANGED <<cs_in, max_chunk_size, window_size, ack_recv, got, out, resized>>
    BY <1>3 DEF reader
  <1>6. here > 0 /\ here <= Len(wire) /\ here \in Nat /\ Len(wire) \in Nat /\ wire \in Seq(Tokens)
    BY <1>1, <1>3 DEF HereInv, Looping, Typed
  <1> DEFINE a == st[1]
             b == st[2]
             t == wire[1]
  <1>7. /\ ReaderAt(a) /\ Link(a, t, b, sent) /\ b \in Snapshots /\ Good(b, sent, reckless, extended)
    BY <1>1, <1>2, <1>6, FirstLinks
  <1>8. BasicLink(a, t, b)
    <2>1. a.at = "idle"
      BY <1>3, <1>7 DEF ReaderAt
    <2>2. t.k \notin {"c0c1", "c2"}
      BY <1>1, <1>3, <1>6 DEF ShakeInv, Shaking, Looping
    <2> QED
      BY <1>7, <2>1, <2>2 DEF Link, ShakeLink, HeadLink, ExtLink, PayLink
  <1> HIDE DEF a, b, t, ReadBasic
  <1>9. b.c \in Csids /\ b.f \in 0 .. 3 /\ cur' = [fmt |-> b.f, c |-> b.c] /\ cur'.c = b.c /\ cur'.fmt = b.f
        /\ cur' # NoChunk /\ b.at # "idle" /\ Same(a, b)
    <2>1. b.c \in Csids /\ b.f \in 0 .. 3
      BY <1>7 DEF Snapshots
    <2>2. cur' = [fmt |-> b.f, c |-> b.c]
      BY <1>3, <1>8 DEF BasicLink, t
    <2>3. cur'.c = b.c /\ cur'.fmt = b.f
      BY <2>2
    <2>4. NoChunk.fmt = 4
      BY DEF NoChunk
    <2>5. b.at # "idle" /\ Same(a, b)
      BY <1>8 DEF BasicLink, Following
    <2> QED
      BY <2>1, <2>2, <2>3, <2>4, <2>5
  <1>10. InHead(cs_in[b.c], b, extended)
    <2>1. Between(cs_in[b.c], b.p[b.c], extended)
      BY <1>3, <1>7, <1>9 DEF ReaderAt, Same
    <2>2. Chunk(b, reckless, extended)
      BY <1>7, <1>9 DEF Good
    <2>3. b.p[b.c].ext => b.q.ext
      BY <2>2 DEF Chunk, Starts, Continues
    <2>4. b.at = IF b.f # 3 THEN "head" ELSE Following(b)
      BY <1>8 DEF BasicLink
    <2> QED
      BY <2>1, <2>3, <2>4 DEF InHead, Between
  <1>11. ReaderAt(b)'
    <2>1. \A c \in Csids : Between(cs_in'[c], b.p[c], extended')
      BY <1>3, <1>4, <1>5, <1>7, <1>9 DEF ReaderAt, Same
    <2>2. max_chunk_size' = b.r /\ Len(got') = b.n
      BY <1>5, <1>7, <1>9 DEF ReaderAt, Same
    <2>3. InHead(cs_in'[cur'.c], b, extended')
      BY <1>4, <1>5, <1>9, <1>10
    <2> QED
      BY <1>9, <2>1, <2>2, <2>3 DEF ReaderAt
  <1>12. /\ SentInv' /\ ShakeInv' /\ HereInv' /\ GarbledInv'
         /\ wire' \in Seq(Tokens) /\ here' \in Nat
         /\ \E v : Sync(v)'
    <2> DEFINE k == 1
    <2>1. /\ k \in 0 .. here /\ wire' = SubSeq(wire, k + 1, Len(wire)) /\ here' = here - k
          /\ state' \in {"connect", "open"} /\ ReaderAt(st[k + 1])' /\ busy' = TRUE
      BY <1>3, <1>6, <1>11 DEF Looping, b
    <2> HIDE DEF k
    <2> QED
      BY <1>2, <1>3, <1>9, <2>1, TurnKeeps
  <1>13. Typed'
    <2>1. cur' \in [fmt : 0 .. 3, c : Csids] \cup {NoChunk}
      BY <1>9
    <2> QED
      BY <1>1, <1>3, <1>4, <1>5, <1>12, <2>1 DEF Typed
  <1>14. OutInv' /\ GotInv'
    BY <1>1, <1>4, <1>5 DEF OutInv, GotInv
  <1> QED
    BY <1>12, <1>13, <1>14 DEF IInv

-----------------------------------------------------------------------------
(* Headers *)

\* A complete message header is what the peer meant.
LEMMA HeadRead ==
  ASSUME NEW a \in Snapshots, NEW S, NEW R, NEW X \in BOOLEAN, Good(a, S, R, X), a.at = "head",
         NEW s \in ReaderStream, InHead(s, a, X),
         NEW b, Within(a, b), b.at = "pay",
         NEW ts, ts = IF a.q.field >= ExtLimit THEN Backwards(a.q.field) ELSE a.q.field,
         NEW u, u.mode = "payload", u.fmt = a.f, u.data = s.data,
         u.ext = (s.ext \/ a.q.field >= ExtLimit),
         u.time = IF a.f = 0 THEN ts ELSE s.time + ts,
         u.dtime = IF a.f = 0 THEN 0 ELSE ts,
         u.len = IF a.f = 2 THEN s.len ELSE a.q.len,
         u.kind = IF a.f = 2 THEN s.kind ELSE a.q.kind,
         u.rem = IF a.f = 2 THEN s.len ELSE a.q.len
  PROVE  InPay(u, b, X)
  <1> DEFINE p == a.p[a.c]
             q == a.q
  <1>1. Chunk(a, R, X) /\ a.f # 3
    BY DEF Good
  <1>2. Starts(p, q, a.f, a.z, X)
    BY <1>1 DEF Chunk, Continues
  <1>3. /\ p \in PeerStream /\ q \in PeerStream /\ a.f \in 0 .. 2 /\ s.ext \in BOOLEAN /\ s.time \in Int
        /\ p.ext \in BOOLEAN /\ q.ext \in BOOLEAN /\ q.field \in Nat /\ ExtLimit \in Nat
        /\ q.exact \in BOOLEAN /\ q.whole \in BOOLEAN /\ p.exact \in BOOLEAN
    <2>1. p \in PeerStream /\ q \in PeerStream /\ a.f \in 0 .. 3
      BY DEF Snapshots
    <2> HIDE DEF p, q
    <2>2. a.f \in 0 .. 2
      BY <1>1, <2>1
    <2>3. s.ext \in BOOLEAN /\ s.time \in Int /\ ExtLimit \in Nat
      BY NumbersAssumption DEF ReaderStream
    <2>4. /\ p.ext \in BOOLEAN /\ q.ext \in BOOLEAN /\ q.field \in Nat
          /\ q.exact \in BOOLEAN /\ q.whole \in BOOLEAN /\ p.exact \in BOOLEAN
      BY <2>1 DEF PeerStream
    <2> QED
      BY <2>1, <2>2, <2>3, <2>4
  <1>4. b.q = q
    BY DEF Within
  <1>5. Shape(s, p) /\ Contents(s, p) /\ (p.ext => s.ext) /\ (s.ext => q.ext) /\ (X \/ Timed(s, p))
    BY DEF InHead
  <1> HIDE DEF p, q
  <1>6. Shape(u, q)
    BY <1>2, <1>5 DEF Shape, Starts, q
  <1>7. ToSet(u.data) \subseteq {q.m}
    <2>1. s.data = <<>>
      BY <1>2, <1>5 DEF Contents, Starts
    <2> QED
      BY <2>1 DEF ToSet
  <1>8. u.ext = q.ext
    <2>1. q.ext <=> p.ext \/ q.field >= ExtLimit
      BY <1>2 DEF Starts
    <2>2. (s.ext \/ q.field >= ExtLimit) <=> q.ext
      BY <1>5, <2>1
    <2>3. u.ext = (s.ext \/ q.field >= ExtLimit)
      BY DEF q
    <2> QED
      BY <1>3, <2>2, <2>3
  <1>9. ASSUME ~X
        PROVE  Timed(u, q) /\ LastType(u, q)
    <2>1. ~(q.field >= ExtLimit /\ a.f \in 1 .. 2) /\ q.hdr = a.f
      BY <1>2, <1>3, <1>9 DEF Starts
    <2>2. Timed(s, p)
      BY <1>5, <1>9
    <2>3. q.exact => u.time = q.time
      <3> SUFFICES ASSUME q.exact
                   PROVE  u.time = q.time
        OBVIOUS
      <3>1. ~(q.field >= ExtLimit) /\ (a.f # 0 => p.exact /\ p.m > 0) /\ q.time = IF a.f = 0 THEN q.field ELSE p.time + q.field
        BY <1>2, <1>3 DEF Starts
      <3>2. ts = q.field
        BY <3>1 DEF q
      <3>3. a.f # 0 => s.time = p.time
        BY <2>2, <3>1 DEF Timed
      <3> QED
        BY <3>1, <3>2, <3>3
    <2>4. q.hdr \in 1 .. 2 => u.dtime = q.field
      BY <2>1 DEF q
    <2>5. q.field >= ExtLimit => u.time = Backwards(q.field)
      BY <1>3, <2>1 DEF q
    <2> QED
      BY <2>1, <2>3, <2>4, <2>5 DEF Timed, LastType
  <1> QED
    BY <1>4, <1>6, <1>7, <1>8, <1>9 DEF InPay

\* A type 3 header begins a message.
LEMMA FirstRead ==
  ASSUME NEW a \in Snapshots, NEW S, NEW R, NEW X \in BOOLEAN, Good(a, S, R, X), a.at # "idle", a.f = 3,
         NEW s \in ReaderStream, InHead(s, a, X), s.rem = 0,
         NEW b, Within(a, b), b.at \in {"ext", "pay"}, b.at = "ext" => a.at = "ext",
         NEW u, u.mode = "payload", u.fmt = 3, u.data = <<>>, u.ext = s.ext,
         u.len = s.len, u.kind = s.kind, u.rem = s.len,
         X \/ u.time = s.time + Advance(s)
  PROVE  InPay(u, b, X)
  <1> DEFINE p == a.p[a.c]
             q == a.q
  <1>1. Chunk(a, R, X) /\ Resting(a.c, p)
    BY DEF Good, Snapshots
  <1>2. Shape(s, p) /\ s.ext = p.ext /\ (X \/ (Timed(s, p) /\ LastType(s, p)))
    <2>1. Shape(s, p) /\ s.ext = p.ext
      BY DEF InHead
    <2>2. X \/ (Timed(s, p) /\ (a.f = 3 => LastType(s, p)))
      BY Zenon DEF InHead
    <2> QED
      BY <2>1, <2>2
  <1>3. p.rem = 0
    BY <1>2 DEF Shape
  <1>4. /\ p \in PeerStream /\ q \in PeerStream
        /\ p.ext \in BOOLEAN /\ q.ext \in BOOLEAN /\ q.field \in Nat /\ ExtLimit \in Nat
        /\ q.exact \in BOOLEAN /\ q.whole \in BOOLEAN /\ p.exact \in BOOLEAN /\ p.m \in Nat
    BY <1>1, NumbersAssumption DEF Snapshots, PeerStream
  <1>5. Starts(p, q, 3, a.z, X)
    BY <1>1, <1>3, <1>4 DEF Chunk, Continues
  <1>6. b.q = q /\ (b.at = "ext" => q.field >= ExtLimit)
    BY DEF Within, Good
  <1> HIDE DEF p, q
  <1>7. /\ q.rem = q.len /\ p.m > 0 /\ q.len = p.len /\ q.kind = p.kind /\ q.field = p.field
        /\ q.time = p.time + q.field /\ ~q.whole
        /\ (q.ext <=> p.ext \/ q.field >= ExtLimit)
        /\ (q.exact => p.exact /\ p.whole /\ p.hdr \in 1 .. 2)
        /\ (X \/ ~p.ext)
    BY <1>4, <1>5 DEF Starts
  <1>8. p.field >= ExtLimit => p.ext
    BY <1>1, <1>7 DEF Resting, Fits
  <1>9. Shape(u, q)
    BY <1>2, <1>7 DEF Shape
  <1>10. ToSet(u.data) \subseteq {q.m}
    BY DEF ToSet
  <1>11. u.ext = q.ext
    BY <1>2, <1>4, <1>7, <1>8
  <1>12. ASSUME ~X
         PROVE  Timed(u, q) /\ LastType(u, q) /\ b.at = "pay"
    <2>1. ~(q.field >= ExtLimit)
      BY <1>7, <1>8, <1>12
    <2>2. ASSUME q.exact
          PROVE  u.time = q.time
      <3>1. s.time = p.time /\ s.dtime = p.field /\ s.fmt = p.hdr
        BY <1>2, <1>7, <1>12, <2>2 DEF Timed, LastType
      <3>2. Advance(s) = p.field
        BY <1>7, <2>2, <3>1 DEF Advance
      <3> QED
        BY <1>7, <1>12, <3>1, <3>2
    <2> QED
      BY <1>6, <1>7, <2>1, <2>2 DEF Timed, LastType
  <1> QED
    BY <1>6, <1>9, <1>10, <1>11, <1>12 DEF InPay

\* A type 3 header continues a message.
LEMMA NextRead ==
  ASSUME NEW a \in Snapshots, NEW S, NEW R, NEW X \in BOOLEAN, Good(a, S, R, X), a.at # "idle", a.f = 3,
         NEW s \in ReaderStream, InHead(s, a, X), s.rem > 0,
         NEW b, Within(a, b), b.at \in {"ext", "pay"}, b.at = "ext" => X,
         NEW u, u.mode = "payload", u.fmt = 3, u.data = s.data, u.ext = s.ext,
         u.len = s.len, u.kind = s.kind, u.rem = s.rem, u.time = s.time, u.dtime = s.dtime
  PROVE  InPay(u, b, X)
  <1> DEFINE p == a.p[a.c]
  <1>1. Chunk(a, R, X) /\ Resting(a.c, p)
    BY DEF Good, Snapshots
  <1>2. Shape(s, p) /\ Contents(s, p) /\ s.ext = p.ext /\ (X \/ Timed(s, p))
    BY DEF InHead
  <1>3. p.rem > 0 /\ p.rem # 0
    BY <1>2 DEF Shape
  <1>4. b.q = p
    BY <1>1, <1>3 DEF Within, Chunk, Continues, Starts
  <1>5. ~p.whole
    BY <1>1, <1>3 DEF Resting
  <1> HIDE DEF p
  <1>6. Shape(u, p) /\ ToSet(u.data) \subseteq {p.m} /\ u.ext = p.ext
    BY <1>2, <1>3 DEF Shape, Contents
  <1>7. X \/ (Timed(u, p) /\ LastType(u, p))
    BY <1>2, <1>5 DEF Timed, LastType
  <1> QED
    BY <1>4, <1>6, <1>7 DEF InPay

\* Where the reader is in the middle of a chunk.
LEMMA InChunk ==
  ASSUME IInv, Looping, cur # NoChunk, NEW st, Sync(st)
  PROVE  /\ cur.c \in Csids /\ cur.fmt \in 0 .. 3 /\ cs_in[cur.c] \in ReaderStream
         /\ here \in Nat /\ Len(wire) \in Nat /\ here <= Len(wire) /\ Len(wire) >= 1
         /\ st[1] \in Snapshots /\ Good(st[1], sent, reckless, extended) /\ st[1].at # "idle"
         /\ st[1].c = cur.c /\ st[1].f = cur.fmt
         /\ InHead(cs_in[cur.c], st[1], extended) \/ InPay(cs_in[cur.c], st[1], extended)
         /\ Link(st[1], wire[1], st[2], sent)
         /\ st[1].at = "head" => HeadLink(st[1], wire[1], st[2])
         /\ st[1].at = "ext" => ExtLink(st[1], wire[1], st[2])
         /\ st[1].at = "pay" => PayLink(st[1], wire[1], st[2], sent)
  <1>1. Typed /\ HereInv
    BY DEF IInv
  <1>2. /\ cur.c \in Csids /\ cur.fmt \in 0 .. 3 /\ cs_in[cur.c] \in ReaderStream
        /\ here \in Nat /\ here <= Len(wire)
    BY <1>1 DEF Typed, HereInv
  <1>3. /\ Len(wire) \in Nat /\ ReaderAt(st[1]) /\ st[1] \in Snapshots /\ Good(st[1], sent, reckless, extended)
        /\ (st[1].at # "idle" => 1 <= Len(wire))
    BY <1>1, FirstLinks
  <1>4. /\ st[1].at # "idle" /\ st[1].c = cur.c /\ st[1].f = cur.fmt
        /\ InHead(cs_in[cur.c], st[1], extended) \/ InPay(cs_in[cur.c], st[1], extended)
    BY <1>3 DEF ReaderAt
  <1>5. Link(st[1], wire[1], st[2], sent)
    BY <1>1, <1>3, <1>4, FirstLinks
  <1>6. /\ st[1].at = "head" => HeadLink(st[1], wire[1], st[2])
        /\ st[1].at = "ext" => ExtLink(st[1], wire[1], st[2])
        /\ st[1].at = "pay" => PayLink(st[1], wire[1], st[2], sent)
    BY <1>5 DEF Link, ShakeLink, BasicLink, HeadLink, ExtLink, PayLink
  <1> QED
    BY <1>2, <1>3, <1>4, <1>5, <1>6

\* A header that is not complete.
LEMMA IncompleteKeeps ==
  ASSUME IInv, Looping, cur # NoChunk, NEW st, Sync(st), NEW s \in ReaderStream,
         Incomplete(cur.c, s), InHead([s EXCEPT !.fmt = cur.fmt], st[1], extended),
         extended \/ here = 0 \/ here < Len(wire)
  PROVE  IInv'
  <1>1. cur.fmt \in 0 .. 3
    BY InChunk
  <1>2. [s EXCEPT !.fmt = cur.fmt] \in ReaderStream
    BY <1>1 DEF ReaderStream
  <1>3. Wait(cur.c, [s EXCEPT !.fmt = cur.fmt])
    BY DEF Incomplete
  <1> QED
    BY <1>2, <1>3, WaitKeeps

LEMMA HeaderStepKeeps ==
  ASSUME IInv, Looping, cur # NoChunk, NEW st, Sync(st), NEW k \in 0 .. here, NEW s \in ReaderStream,
         Header(cur.c, k, s), Within(st[1], st[k + 1]),
         InPay([s EXCEPT !.fmt = cur.fmt, !.mode = "payload"], st[k + 1], extended)
  PROVE  IInv'
  <1>1. cur.fmt \in 0 .. 3
    BY InChunk
  <1> DEFINE u == [s EXCEPT !.fmt = cur.fmt, !.mode = "payload"]
  <1>2. u \in ReaderStream
    BY <1>1 DEF ReaderStream
  <1>3. /\ cs_in' = [cs_in EXCEPT ![cur.c] = u] /\ Consume(k)
        /\ UNCHANGED <<peers, state, busy, most, cur, max_chunk_size, window_size, ack_recv, got, out,
                       resized, garbled, fresh>>
    BY DEF Header
  <1> HIDE DEF u
  <1>4. InPay(u, st[k + 1], extended)
    BY DEF u
  <1> QED
    BY <1>2, <1>3, <1>4, HeaderKeeps

LEMMA ReadHeaderKeeps ==
  ASSUME IInv, ReadHeader
  PROVE  IInv'
  <1> DEFINE c == cur.c
             s == cs_in[c]
             h == wire[1]
             ext == h.ts >= ExtLimit
             ts == IF ext THEN Backwards(h.ts) ELSE h.ts
             t == [s EXCEPT !.ext = @ \/ ext]
             v == [t EXCEPT !.time = IF cur.fmt = 0 THEN ts ELSE @ + ts,
                            !.dtime = IF cur.fmt = 0 THEN 0 ELSE ts,
                            !.len = IF cur.fmt = 2 THEN @ ELSE h.len,
                            !.kind = IF cur.fmt = 2 THEN @ ELSE h.kind,
                            !.rem = IF cur.fmt = 2 THEN s.len ELSE h.len]
  <1>1. /\ Looping /\ cur # NoChunk /\ s.mode = "header" /\ cur.fmt # 3
    BY DEF ReadHeader, InHeader
  <1>2. /\ here = 0 => Incomplete(c, s)
        /\ here = 1 /\ ext => Incomplete(c, t)
        /\ here # 0 /\ ~(here = 1 /\ ext) => Header(c, IF ext THEN 2 ELSE 1, v)
    BY DEF ReadHeader
  <1> HIDE DEF ReadHeader
  <1>3. PICK st : Sync(st)
    BY DEF IInv
  <1> DEFINE a == st[1]
             q == a.q
             p == a.p[a.c]
  <1>4. /\ c \in Csids /\ cur.fmt \in 0 .. 3 /\ s \in ReaderStream
        /\ here \in Nat /\ Len(wire) \in Nat /\ here <= Len(wire) /\ Len(wire) >= 1
        /\ a \in Snapshots /\ Good(a, sent, reckless, extended) /\ a.at # "idle"
        /\ a.c = c /\ a.f = cur.fmt
        /\ InHead(s, a, extended) \/ InPay(s, a, extended)
        /\ a.at = "head" => HeadLink(a, h, st[2])
    BY <1>1, <1>3, InChunk
  <1>5. InHead(s, a, extended) /\ a.at = "head"
    BY <1>1, <1>4 DEF InHead, InPay
  <1>6. HeadLink(a, h, st[2])
    BY <1>4, <1>5
  <1>7. /\ h.ts = q.field /\ h.len = q.len /\ h.kind = q.kind
        /\ Within(a, st[2]) /\ st[2].at = IF ext THEN "ext" ELSE "pay"
    BY <1>6 DEF HeadLink, Following
  <1>8. q \in PeerStream /\ Chunk(a, reckless, extended) /\ extended \in BOOLEAN /\ p \in PeerStream
    BY <1>4 DEF Good, Snapshots, IInv, Typed
  <1>9. /\ h.ts \in Nat /\ h.len \in Nat /\ h.kind \in Kinds /\ ExtLimit \in Nat /\ ts \in Nat
    BY <1>7, <1>8, NumbersAssumption DEF PeerStream, Backwards
  <1>10. ext => q.ext
    BY <1>7, <1>8, NumbersAssumption DEF Chunk, Fits, PeerStream
  <1>11. ext => 2 <= Len(wire) /\ Link(st[2], wire[2], st[3], sent)
    <2>1. ext => st[2].at = "ext"
      BY <1>7
    <2>2. ext => 2 <= Len(wire)
      BY <1>3, <1>4, <2>1, FirstLinks DEF IInv
    <2> QED
      BY <1>3, <1>4, <2>2, FirstLinks DEF IInv
  <1> HIDE DEF a, q, p, h, ext, ts, s, c
  <1>12. t \in ReaderStream /\ t.ext = (s.ext \/ ext) /\ t.mode = s.mode /\ t.len = s.len /\ t.kind = s.kind
         /\ t.rem = s.rem /\ t.data = s.data /\ t.time = s.time /\ t.dtime = s.dtime
    <2>1. (s.ext \/ ext) \in BOOLEAN
      OBVIOUS
    <2> DEFINE e == s.ext \/ ext
    <2>2. t = [s EXCEPT !.ext = e]
      BY Zenon
    <2> HIDE DEF e, t
    <2>3. e \in BOOLEAN
      BY DEF e
    <2>4. t \in ReaderStream /\ t.ext = e /\ t.mode = s.mode /\ t.len = s.len /\ t.kind = s.kind
          /\ t.rem = s.rem /\ t.data = s.data /\ t.time = s.time /\ t.dtime = s.dtime
      BY <1>4, <2>2, <2>3 DEF ReaderStream
    <2> QED
      BY <2>4 DEF e
  <1> HIDE DEF t
  <1>13. CASE here = 0
    <2> DEFINE w == [s EXCEPT !.fmt = cur.fmt]
    <2>1. w.mode = s.mode /\ w.len = s.len /\ w.kind = s.kind /\ w.rem = s.rem /\ w.data = s.data /\ w.ext = s.ext
          /\ w.time = s.time /\ w.dtime = s.dtime
      BY <1>4 DEF ReaderStream
    <2> HIDE DEF w
    <2>2. InHead(w, a, extended)
      BY <1>1, <1>4, <1>5, <2>1 DEF InHead, Shape, Contents, Timed
    <2> QED
      BY <1>1, <1>2, <1>3, <1>4, <1>13, <2>2, IncompleteKeeps DEF w, a, c
  <1>14. CASE here = 1 /\ ext
    <2> DEFINE w == [t EXCEPT !.fmt = cur.fmt]
    <2>1. w.mode = t.mode /\ w.len = t.len /\ w.kind = t.kind /\ w.rem = t.rem /\ w.data = t.data /\ w.ext = t.ext
          /\ w.time = t.time /\ w.dtime = t.dtime
      BY <1>4, <1>12 DEF ReaderStream
    <2> HIDE DEF w
    <2>2. InHead(w, a, extended)
      <3>1. (p.ext => w.ext) /\ (w.ext => q.ext)
        BY <1>5, <1>10, <1>12, <1>14, <2>1 DEF InHead, p, q
      <3> QED
        BY <1>1, <1>4, <1>5, <1>12, <2>1, <3>1 DEF InHead, Shape, Contents, Timed, p, q
    <2>3. here < Len(wire)
      BY <1>4, <1>11, <1>14
    <2> QED
      BY <1>1, <1>2, <1>3, <1>4, <1>12, <1>14, <2>2, <2>3, IncompleteKeeps DEF w, a, c
  <1>15. CASE here # 0 /\ ~(here = 1 /\ ext)
    <2> DEFINE k == IF ext THEN 2 ELSE 1
               b == st[k + 1]
               u == [v EXCEPT !.fmt = cur.fmt, !.mode = "payload"]
    <2>1. Header(c, k, v)
      BY <1>2, <1>15
    <2>2. k \in 0 .. here /\ k \in {1, 2}
      BY <1>4, <1>15
    <2>3. Within(a, b) /\ b.at = "pay"
      <3>1. CASE ext
        <4>1. ExtLink(st[2], wire[2], st[3])
          BY <1>7, <1>11, <3>1 DEF Link, ShakeLink, BasicLink, HeadLink, ExtLink, PayLink
        <4> QED
          BY <1>7, <3>1, <4>1 DEF ExtLink, Within, Same
      <3>2. CASE ~ext
        BY <1>7, <3>2
      <3> QED
        BY <3>1, <3>2
    <2> HIDE DEF k, b
    <2>4. /\ v \in ReaderStream
          /\ v.time = (IF cur.fmt = 0 THEN ts ELSE t.time + ts)
          /\ v.dtime = (IF cur.fmt = 0 THEN 0 ELSE ts)
          /\ v.len = (IF cur.fmt = 2 THEN t.len ELSE h.len)
          /\ v.kind = (IF cur.fmt = 2 THEN t.kind ELSE h.kind)
          /\ v.rem = (IF cur.fmt = 2 THEN s.len ELSE h.len)
          /\ v.ext = t.ext /\ v.data = t.data
      <3> DEFINE tm == IF cur.fmt = 0 THEN ts ELSE t.time + ts
                 dt == IF cur.fmt = 0 THEN 0 ELSE ts
                 ln == IF cur.fmt = 2 THEN t.len ELSE h.len
                 kd == IF cur.fmt = 2 THEN t.kind ELSE h.kind
                 rm == IF cur.fmt = 2 THEN s.len ELSE h.len
      <3>1. tm \in Int /\ dt \in Int /\ ln \in Nat /\ kd \in Kinds /\ rm \in Nat
        BY <1>4, <1>9, <1>12 DEF ReaderStream
      <3>2. v = [t EXCEPT !.time = tm, !.dtime = dt, !.len = ln, !.kind = kd, !.rem = rm]
        BY Zenon
      <3> HIDE DEF tm, dt, ln, kd, rm, v
      <3>3. /\ v \in ReaderStream
            /\ v.time = tm /\ v.dtime = dt /\ v.len = ln /\ v.kind = kd /\ v.rem = rm
            /\ v.ext = t.ext /\ v.data = t.data
        BY <1>12, <3>1, <3>2 DEF ReaderStream
      <3> QED
        BY <3>3 DEF tm, dt, ln, kd, rm
    <2> HIDE DEF v
    <2>5. /\ u.mode = "payload" /\ u.fmt = cur.fmt
          /\ u.time = v.time /\ u.dtime = v.dtime /\ u.len = v.len /\ u.kind = v.kind /\ u.rem = v.rem
          /\ u.ext = v.ext /\ u.data = v.data
      BY <2>4 DEF ReaderStream
    <2> HIDE DEF u
    <2>6. /\ ts = IF q.field >= ExtLimit THEN Backwards(q.field) ELSE q.field
          /\ ext = (q.field >= ExtLimit)
      BY <1>7 DEF ts, ext
    <2>7. InPay(u, b, extended)
      <3>1. /\ u.mode = "payload" /\ u.fmt = a.f /\ u.data = s.data
            /\ u.ext = (s.ext \/ a.q.field >= ExtLimit)
            /\ u.time = IF a.f = 0 THEN ts ELSE s.time + ts
            /\ u.dtime = IF a.f = 0 THEN 0 ELSE ts
            /\ u.len = IF a.f = 2 THEN s.len ELSE a.q.len
            /\ u.kind = IF a.f = 2 THEN s.kind ELSE a.q.kind
            /\ u.rem = IF a.f = 2 THEN s.len ELSE a.q.len
        BY <1>4, <1>7, <1>12, <2>4, <2>5, <2>6 DEF q
      <3>2. ts = IF a.q.field >= ExtLimit THEN Backwards(a.q.field) ELSE a.q.field
        BY <2>6 DEF q
      <3> QED
        BY <1>4, <1>5, <1>8, <2>3, <3>1, <3>2, HeadRead
    <2> QED
      BY <1>1, <1>3, <2>1, <2>2, <2>3, <2>4, <2>7, HeaderStepKeeps DEF u, b, a, c
  <1> QED
    BY <1>13, <1>14, <1>15


\* A type 3 header is being read.
LEMMA InThird ==
  ASSUME IInv, InHeader, cur.fmt = 3, NEW st, Sync(st)
  PROVE  /\ cur.c \in Csids /\ cs_in[cur.c] \in ReaderStream /\ here \in Nat /\ here <= Len(wire)
         /\ st[1] \in Snapshots /\ Good(st[1], sent, reckless, extended) /\ extended \in BOOLEAN
         /\ st[1].at \in {"ext", "pay"} /\ st[1].c = cur.c /\ st[1].f = 3
         /\ InHead(cs_in[cur.c], st[1], extended)
         /\ cs_in[cur.c].rem = st[1].p[st[1].c].rem /\ cs_in[cur.c].ext = st[1].p[st[1].c].ext
         /\ wire[1].k = "ext" <=> st[1].at = "ext"
         /\ st[1].at = "ext" => ExtLink(st[1], wire[1], st[2])
  <1>1. Looping /\ cur # NoChunk /\ cs_in[cur.c].mode = "header"
    BY DEF InHeader
  <1>2. /\ cur.c \in Csids /\ cs_in[cur.c] \in ReaderStream /\ here \in Nat /\ here <= Len(wire) /\ Len(wire) \in Nat
        /\ st[1] \in Snapshots /\ Good(st[1], sent, reckless, extended) /\ st[1].at # "idle"
        /\ st[1].c = cur.c /\ st[1].f = cur.fmt
        /\ InHead(cs_in[cur.c], st[1], extended) \/ InPay(cs_in[cur.c], st[1], extended)
        /\ st[1].at = "ext" => ExtLink(st[1], wire[1], st[2])
        /\ st[1].at = "pay" => PayLink(st[1], wire[1], st[2], sent)
    BY <1>1, InChunk
  <1>3. InHead(cs_in[cur.c], st[1], extended)
    BY <1>1, <1>2 DEF InPay
  <1>4. st[1].at \in {"ext", "pay"}
    BY <1>2 DEF Good, Snapshots
  <1>5. wire[1].k = "ext" <=> st[1].at = "ext"
    BY <1>2, <1>4 DEF ExtLink, PayLink
  <1>6. cs_in[cur.c].rem = st[1].p[st[1].c].rem /\ cs_in[cur.c].ext = st[1].p[st[1].c].ext
    BY <1>2, <1>3 DEF InHead, Shape
  <1>7. extended \in BOOLEAN
    BY DEF IInv, Typed
  <1> QED
    BY <1>2, <1>3, <1>4, <1>5, <1>6, <1>7

LEMMA ReadF3FirstKeeps ==
  ASSUME IInv, ReadF3First
  PROVE  IInv'
  <1> DEFINE c == cur.c
             s == cs_in[c]
             ext == s.ext /\ s.fmt # 3
             t == [s EXCEPT !.data = <<>>, !.rem = s.len]
             v1 == [t EXCEPT !.time = Backwards(wire[1].ts) + IF s.fmt = 0 THEN 0 ELSE @]
             v0 == [t EXCEPT !.time = @ + Advance(s)]
  <1>1. Looping /\ cur # NoChunk /\ InHeader /\ cur.fmt = 3 /\ s.rem = 0
    BY DEF ReadF3First, InHeader
  <1>2. \/ ext /\ Incomplete(c, s)
        \/ ext /\ Garble
        \/ ext /\ here > 0 /\ wire[1].k = "ext" /\ Header(c, 1, v1)
        \/ ~ext /\ Header(c, 0, v0)
    BY DEF ReadF3First
  <1> HIDE DEF ReadF3First
  <1>3. PICK st : Sync(st)
    BY DEF IInv
  <1> DEFINE a == st[1]
             p == a.p[a.c]
  <1>4. /\ c \in Csids /\ s \in ReaderStream /\ here \in Nat /\ here <= Len(wire)
        /\ a \in Snapshots /\ Good(a, sent, reckless, extended) /\ extended \in BOOLEAN
        /\ a.at \in {"ext", "pay"} /\ a.c = c /\ a.f = 3
        /\ InHead(s, a, extended) /\ s.rem = p.rem /\ s.ext = p.ext
        /\ wire[1].k = "ext" <=> a.at = "ext"
        /\ a.at = "ext" => ExtLink(a, wire[1], st[2])
    BY <1>1, <1>3, InThird
  <1>5. ext => extended
    <2>1. Chunk(a, reckless, extended) /\ p.rem = 0
      BY <1>1, <1>4 DEF Good
    <2>2. extended \/ ~p.ext
      BY <1>4, <2>1 DEF Chunk, Continues, Starts
    <2> QED
      BY <1>4, <2>2
  <1> HIDE DEF a, p, s, c
  <1>6. t \in ReaderStream /\ t.len = s.len /\ t.kind = s.kind /\ t.ext = s.ext /\ t.data = <<>> /\ t.rem = s.len
        /\ t.time = s.time
    <2> DEFINE none == <<>>
               len == s.len
    <2>1. none \in Seq(Nat) /\ len \in Nat
      BY <1>4 DEF ReaderStream
    <2>2. t = [s EXCEPT !.data = none, !.rem = len]
      BY Zenon
    <2> HIDE DEF none, len, t
    <2>3. /\ t \in ReaderStream /\ t.len = s.len /\ t.kind = s.kind /\ t.ext = s.ext /\ t.data = none /\ t.rem = len
          /\ t.time = s.time
      BY <1>4, <2>1, <2>2 DEF ReaderStream
    <2> QED
      BY <2>3 DEF none, len
  <1> HIDE DEF t
  \* A complete header, whatever time it leads to.
  <1>7. ASSUME NEW k \in 0 .. here, NEW time \in Int, NEW v, v = [t EXCEPT !.time = time], Header(c, k, v),
               Within(a, st[k + 1]), st[k + 1].at \in {"ext", "pay"}, st[k + 1].at = "ext" => a.at = "ext",
               extended \/ time = s.time + Advance(s)
        PROVE  IInv'
    <2>1. /\ v \in ReaderStream /\ v.len = s.len /\ v.kind = s.kind /\ v.ext = s.ext /\ v.data = <<>> /\ v.rem = s.len
          /\ v.time = time
      BY <1>6, <1>7 DEF ReaderStream
    <2> DEFINE u == [v EXCEPT !.fmt = cur.fmt, !.mode = "payload"]
    <2>2. /\ u.mode = "payload" /\ u.fmt = 3 /\ u.len = s.len /\ u.kind = s.kind /\ u.ext = s.ext /\ u.data = <<>>
          /\ u.rem = s.len /\ u.time = time
      BY <1>1, <2>1 DEF ReaderStream
    <2> HIDE DEF u
    <2>3. InPay(u, st[k + 1], extended)
      BY <1>1, <1>4, <1>7, <2>2, FirstRead
    <2> QED
      BY <1>1, <1>3, <1>7, <2>1, <2>3, HeaderStepKeeps DEF u, c, a
  <1>8. CASE ext /\ Incomplete(c, s)
    <2> DEFINE w == [s EXCEPT !.fmt = cur.fmt]
    <2>1. w.mode = s.mode /\ w.len = s.len /\ w.kind = s.kind /\ w.rem = s.rem /\ w.data = s.data /\ w.ext = s.ext
      BY <1>4 DEF ReaderStream
    <2> HIDE DEF w
    <2>2. InHead(w, a, extended)
      BY <1>4, <1>5, <1>8, <2>1 DEF InHead, Shape, Contents
    <2> QED
      BY <1>1, <1>3, <1>4, <1>5, <1>8, <2>2, IncompleteKeeps DEF w, a, c
  <1>9. CASE ext /\ Garble
    BY <1>5, <1>9, GarbleKeeps
  <1>10. CASE ext /\ here > 0 /\ wire[1].k = "ext" /\ Header(c, 1, v1)
    <2> DEFINE k == 1
    <2>1. ExtLink(a, wire[1], st[2])
      BY <1>4, <1>10
    <2>2. k \in 0 .. here /\ Within(a, st[k + 1]) /\ st[k + 1].at = "pay" /\ Header(c, k, v1)
      BY <1>4, <1>10, <2>1 DEF ExtLink
    <2>3. wire[1].ts \in Nat
      BY <1>4, <2>1 DEF ExtLink, Snapshots, PeerStream
    <2> DEFINE time == Backwards(wire[1].ts) + IF s.fmt = 0 THEN 0 ELSE t.time
    <2>4. time \in Int
      <3>1. Backwards(wire[1].ts) \in Int
        BY <2>3 DEF Backwards
      <3>2. t.time \in Int
        BY <1>6 DEF ReaderStream
      <3> QED
        BY <3>1, <3>2
    <2>5. v1 = [t EXCEPT !.time = time]
      BY Zenon
    <2> HIDE DEF k, time, v1
    <2> QED
      BY <1>5, <1>7, <1>10, <2>2, <2>4, <2>5
  <1>11. CASE ~ext /\ Header(c, 0, v0)
    <2> DEFINE k == 0
               time == t.time + Advance(s)
    <2>1. k \in 0 .. here /\ Within(a, st[k + 1]) /\ st[k + 1] = a /\ Header(c, k, v0)
      BY <1>4, <1>11 DEF a, Within, Same
    <2>2. time \in Int /\ time = s.time + Advance(s)
      BY <1>4, <1>6 DEF Advance, ReaderStream
    <2>3. v0 = [t EXCEPT !.time = time]
      BY Zenon
    <2> HIDE DEF k, time, v0
    <2> QED
      BY <1>4, <1>7, <2>1, <2>2, <2>3
  <1> QED
    BY <1>2, <1>8, <1>9, <1>10, <1>11

LEMMA ReadF3NextKeeps ==
  ASSUME IInv, ReadF3Next
  PROVE  IInv'
  <1> DEFINE c == cur.c
             s == cs_in[c]
  <1>1. /\ Looping /\ cur # NoChunk /\ InHeader /\ cur.fmt = 3 /\ s.rem > 0
        /\ \/ s.ext /\ MayBeShort(s.rem) /\ Incomplete(c, s)
           \/ s.ext /\ here > 0 /\ wire[1].k = "pay" /\ Garble
           \/ (s.ext => here > 0) /\ Header(c, Continue(s), s)
    BY DEF ReadF3Next, InHeader
  <1> HIDE DEF ReadF3Next
  <1>2. PICK st : Sync(st)
    BY DEF IInv
  <1> DEFINE a == st[1]
             p == a.p[a.c]
  <1>3. /\ c \in Csids /\ s \in ReaderStream /\ here \in Nat /\ here <= Len(wire)
        /\ a \in Snapshots /\ Good(a, sent, reckless, extended) /\ extended \in BOOLEAN
        /\ a.at \in {"ext", "pay"} /\ a.c = c /\ a.f = 3
        /\ InHead(s, a, extended) /\ s.rem = p.rem /\ s.ext = p.ext
        /\ wire[1].k = "ext" <=> a.at = "ext"
        /\ a.at = "ext" => ExtLink(a, wire[1], st[2])
    BY <1>1, <1>2, InThird
  <1>4. p.rem > 0 /\ p.rem # 0 /\ ~p.whole /\ p.m > 0 /\ a.q = p
    <2>1. p.rem > 0 /\ p.rem # 0
      BY <1>1, <1>3 DEF ReaderStream
    <2>2. Resting(a.c, p) /\ Chunk(a, reckless, extended)
      BY <1>3 DEF Good
    <2> QED
      BY <2>1, <2>2 DEF Resting, Chunk, Continues, Starts
  <1>5. a.at = "ext" => /\ extended \/ Continue(s) = 1
                        /\ wire[1].ts = p.field /\ p.field >= ExtLimit
    <2> SUFFICES ASSUME a.at = "ext"
                 PROVE  /\ extended \/ Continue(s) = 1
                        /\ wire[1].ts = p.field /\ p.field >= ExtLimit
      OBVIOUS
    <2>1. wire[1].k = "ext" /\ wire[1].ts = p.field /\ p.field >= ExtLimit
      BY <1>3, <1>4 DEF ExtLink, Good
    <2>2. s.ext
      BY <1>3, <1>4, <2>1 DEF Good, Chunk, Fits
    <2>3. extended \/ s.time = Backwards(p.field)
      BY <1>3, <1>4, <2>1 DEF InHead, Timed
    <2> QED
      BY <2>1, <2>2, <2>3 DEF Continue
  \* On the wire of a peer that is not left out it is the extended timestamp.
  <1>6. s.ext => extended \/ (wire[1].k = "ext" /\ a.at = "ext")
    <2> SUFFICES ASSUME s.ext, ~extended
                 PROVE  a.at = "ext"
      BY <1>3
    <2>1. Chunk(a, reckless, extended) /\ p.field >= ExtLimit
      <3>1. Chunk(a, reckless, extended) /\ a.q.ext /\ a.q = p /\ p.rem > 0 /\ p.field \in Nat /\ ExtLimit \in Nat
        BY <1>3, <1>4, NumbersAssumption DEF Good, Snapshots, PeerStream
      <3> QED
        BY <3>1 DEF Chunk
    <2>2. a.at = Following(a) /\ a.q = p
      BY <1>3, <1>4 DEF InHead
    <2> QED
      BY <2>1, <2>2 DEF Following
  <1> HIDE DEF a, p, s, c
  <1>7. CASE s.ext /\ here > 0 /\ wire[1].k = "pay" /\ Garble
    BY <1>6, <1>7, GarbleKeeps
  <1>8. CASE s.ext /\ MayBeShort(s.rem) /\ Incomplete(c, s)
    <2> DEFINE w == [s EXCEPT !.fmt = cur.fmt]
    <2>1. w.mode = s.mode /\ w.len = s.len /\ w.kind = s.kind /\ w.rem = s.rem /\ w.data = s.data /\ w.ext = s.ext
          /\ w.time = s.time /\ w.dtime = s.dtime
      BY <1>3 DEF ReaderStream
    <2> HIDE DEF w
    <2>2. InHead(w, a, extended)
      BY <1>3, <1>4, <2>1 DEF InHead, Shape, Contents, Timed, LastType, p
    <2>3. extended \/ here = 0
      BY <1>3, <1>8, <1>6 DEF MayBeShort
    <2> QED
      BY <1>1, <1>2, <1>3, <1>8, <2>2, <2>3, IncompleteKeeps DEF w, a, c
  <1>9. CASE (s.ext => here > 0) /\ Header(c, Continue(s), s)
    <2> DEFINE k == Continue(s)
               b == st[k + 1]
               u == [s EXCEPT !.fmt = cur.fmt, !.mode = "payload"]
    <2>1. /\ k \in 0 .. here /\ Within(a, b) /\ b.at \in {"ext", "pay"}
          /\ b.at = "ext" => extended
      <3>1. CASE k = 1
        <4>1. s.ext /\ wire[1].k = "ext"
          BY <3>1 DEF Continue
        <4>2. ExtLink(a, wire[1], st[2])
          BY <1>3, <4>1
        <4> QED
          BY <1>3, <1>9, <3>1, <4>1, <4>2 DEF ExtLink
      <3>2. CASE k = 0
        <4>1. b = a
          BY <3>2 DEF a
        <4>2. Within(a, a)
          BY DEF Within, Same
        <4> QED
          BY <1>3, <1>5, <3>2, <4>1, <4>2
      <3> QED
        BY <3>1, <3>2 DEF Continue
    <2>2. Header(c, k, s)
      BY <1>9
    <2>3. /\ u.mode = "payload" /\ u.fmt = 3 /\ u.len = s.len /\ u.kind = s.kind /\ u.ext = s.ext /\ u.data = s.data
          /\ u.rem = s.rem /\ u.time = s.time /\ u.dtime = s.dtime
      BY <1>1, <1>3 DEF ReaderStream
    <2> HIDE DEF k, b, u
    <2>4. InPay(u, b, extended)
      BY <1>1, <1>3, <2>1, <2>3, NextRead
    <2> QED
      BY <1>1, <1>2, <1>3, <2>1, <2>2, <2>4, HeaderStepKeeps DEF u, b, a, c
  <1> QED
    BY <1>1, <1>7, <1>8, <1>9

-----------------------------------------------------------------------------
(* Payloads *)

LEMMA AppendedSet ==
  ASSUME NEW d \in Seq(Nat), NEW m \in Nat, ToSet(d) \subseteq {m}
  PROVE  Append(d, m) \in Seq(Nat) /\ ToSet(Append(d, m)) = {m}
  <1> DEFINE e == Append(d, m)
  <1>1. /\ e \in Seq(Nat) /\ Len(e) = Len(d) + 1 /\ e[Len(e)] = m /\ Len(e) \in 1 .. Len(e)
        /\ \A i \in 1 .. Len(d) : e[i] = d[i]
    OBVIOUS
  <1>2. \A i \in 1 .. Len(d) : d[i] = m
    <2>1. DOMAIN d = 1 .. Len(d)
      OBVIOUS
    <2> QED
      BY <2>1 DEF ToSet
  <1> HIDE DEF e
  <1>3. DOMAIN e = 1 .. Len(e) /\ Len(d) \in Nat
    BY <1>1
  <1>4. \A i \in 1 .. Len(e) : e[i] = m
    <2> TAKE i \in 1 .. Len(e)
    <2>1. i \in 1 .. Len(d) \/ i = Len(e)
      BY <1>1, <1>3
    <2> QED
      BY <1>1, <1>2, <2>1
  <1>5. ToSet(e) = {m}
    BY <1>1, <1>3, <1>4 DEF ToSet
  <1> QED
    BY <1>1, <1>5 DEF e

\* A payload has been read: t is what the reader has of the chunk stream.
LEMMA PayloadRead ==
  ASSUME NEW a \in Snapshots, NEW S, NEW R, NEW X \in BOOLEAN, Good(a, S, R, X), a.at = "pay",
         NEW s, InPay(s, a, X),
         NEW t, t.mode = "header", t.len = s.len, t.kind = s.kind, t.ext = s.ext, t.fmt = s.fmt,
         t.time = s.time, t.dtime = s.dtime, t.rem = Rest(a),
         IF Rest(a) = 0 THEN t.data = <<>> ELSE ToSet(t.data) \subseteq {a.q.m}
  PROVE  Between(t, [a.q EXCEPT !.rem = Rest(a)], X)
  <1> DEFINE q == a.q
             r == [a.q EXCEPT !.rem = Rest(a)]
  <1>1. q \in PeerStream /\ Chunk(a, R, X)
    BY DEF Good, Snapshots
  <1>2. /\ r.rem = Rest(a) /\ r.len = q.len /\ r.kind = q.kind /\ r.m = q.m /\ r.ext = q.ext
        /\ r.exact = q.exact /\ r.time = q.time /\ r.field = q.field /\ r.whole = q.whole /\ r.hdr = q.hdr
    BY <1>1 DEF PeerStream
  <1>3. q.rem > 0
    BY <1>1 DEF Chunk
  <1>4. Shape(s, q) /\ s.ext = q.ext /\ (X \/ (Timed(s, q) /\ LastType(s, q)))
    BY DEF InPay
  <1> HIDE DEF q, r
  <1>5. Shape(t, r) /\ Contents(t, r) /\ t.ext = r.ext
    BY <1>2, <1>4 DEF Shape, Contents, q
  <1>6. X \/ (Timed(t, r) /\ LastType(t, r))
    BY <1>2, <1>3, <1>4 DEF Timed, LastType
  <1> QED
    BY <1>5, <1>6 DEF Between, r

LEMMA InPayload ==
  ASSUME IInv, Looping, cur # NoChunk, cs_in[cur.c].mode = "payload", NEW st, Sync(st)
  PROVE  /\ cur.c \in Csids /\ cs_in[cur.c] \in ReaderStream /\ here \in Nat /\ here <= Len(wire)
         /\ st[1] \in Snapshots /\ Good(st[1], sent, reckless, extended) /\ extended \in BOOLEAN
         /\ ReaderAt(st[1]) /\ st[1].c = cur.c
         /\ InPay(cs_in[cur.c], st[1], extended)
         /\ wire[1].k = "pay" <=> st[1].at = "pay"
         /\ st[1].at = "pay" => PayLink(st[1], wire[1], st[2], sent)
         /\ extended \/ st[1].at = "pay"
  <1>1. /\ cur.c \in Csids /\ cs_in[cur.c] \in ReaderStream /\ here \in Nat /\ here <= Len(wire)
        /\ st[1] \in Snapshots /\ Good(st[1], sent, reckless, extended) /\ st[1].at # "idle"
        /\ st[1].c = cur.c
        /\ InHead(cs_in[cur.c], st[1], extended) \/ InPay(cs_in[cur.c], st[1], extended)
        /\ st[1].at = "ext" => ExtLink(st[1], wire[1], st[2])
        /\ st[1].at = "pay" => PayLink(st[1], wire[1], st[2], sent)
    BY InChunk
  <1>2. InPay(cs_in[cur.c], st[1], extended)
    BY <1>1 DEF InHead
  <1>3. st[1].at \in {"ext", "pay"} /\ (extended \/ st[1].at = "pay")
    BY <1>2 DEF InPay
  <1>4. wire[1].k = "pay" <=> st[1].at = "pay"
    BY <1>1, <1>3 DEF ExtLink, PayLink
  <1>5. extended \in BOOLEAN /\ ReaderAt(st[1])
    BY DEF IInv, Typed, Sync
  <1> QED
    BY <1>1, <1>2, <1>3, <1>4, <1>5

\* The payload is one of the size that is wanted, unless the peer is reckless.
LEMMA WantedIs ==
  ASSUME IInv, Looping, cur # NoChunk, cs_in[cur.c].mode = "payload", NEW st, Sync(st), wire[1].k = "pay"
  PROVE  reckless \/ wire[1].n = Wanted(cs_in[cur.c])
  <1> DEFINE a == st[1]
             s == cs_in[cur.c]
  <1>1. /\ Good(a, sent, reckless, extended) /\ ReaderAt(a) /\ InPay(s, a, extended)
        /\ PayLink(a, wire[1], st[2], sent) /\ a.at = "pay"
    BY InPayload
  <1>2. wire[1].n = Lesser(a.q.rem, a.z) /\ s.rem = a.q.rem /\ max_chunk_size = a.r
    BY <1>1 DEF PayLink, InPay, Shape, ReaderAt
  <1>3. reckless \/ Lesser(a.q.rem, a.z) = Lesser(a.q.rem, a.r)
    BY <1>1 DEF Good, Chunk
  <1> QED
    BY <1>2, <1>3 DEF Wanted

Taken(s, p) == [s EXCEPT !.rem = @ - p.n, !.mode = "header", !.data = Append(@, p.m)]

LEMMA TakenIs ==
  ASSUME NEW s \in ReaderStream, NEW p, NEW n, p.m \in Nat, ToSet(s.data) \subseteq {p.m},
         n = s.rem - p.n, n \in Nat
  PROVE  /\ Taken(s, p) \in ReaderStream
         /\ Taken(s, p).mode = "header" /\ Taken(s, p).len = s.len /\ Taken(s, p).kind = s.kind
         /\ Taken(s, p).ext = s.ext /\ Taken(s, p).fmt = s.fmt /\ Taken(s, p).time = s.time
         /\ Taken(s, p).dtime = s.dtime /\ Taken(s, p).rem = n
         /\ ToSet(Taken(s, p).data) = {p.m}
  <1> DEFINE d == Append(s.data, p.m)
  <1>1. d \in Seq(Nat) /\ ToSet(d) = {p.m}
    <2>1. s.data \in Seq(Nat)
      BY DEF ReaderStream
    <2> QED
      BY <2>1, AppendedSet
  <1>2. Taken(s, p) = [s EXCEPT !.rem = n, !.mode = "header", !.data = d]
    BY Zenon DEF Taken
  <1> HIDE DEF d
  <1>3. /\ Taken(s, p) \in ReaderStream /\ Taken(s, p).data = d
        /\ Taken(s, p).mode = "header" /\ Taken(s, p).len = s.len /\ Taken(s, p).kind = s.kind
        /\ Taken(s, p).ext = s.ext /\ Taken(s, p).fmt = s.fmt /\ Taken(s, p).time = s.time
        /\ Taken(s, p).dtime = s.dtime /\ Taken(s, p).rem = n
    BY <1>1, <1>2 DEF ReaderStream
  <1> QED
    BY <1>1, <1>3

\* What the reader takes, and what the peer meant by it.
LEMMA PayloadTaken ==
  ASSUME IInv, Looping, cur # NoChunk, cs_in[cur.c].mode = "payload", NEW st, Sync(st),
         wire[1].k = "pay", wire[1].n = Wanted(cs_in[cur.c]),
         NEW t, t = Taken(cs_in[cur.c], wire[1])
  PROVE  LET a == st[1]
             s == cs_in[cur.c]
         IN  /\ a.at = "pay" /\ Ended(a, st[2], sent)
             /\ t \in ReaderStream /\ t.mode = "header" /\ t.len = s.len /\ t.kind = s.kind
             /\ t.ext = s.ext /\ t.fmt = s.fmt /\ t.time = s.time /\ t.dtime = s.dtime
             /\ t.rem = Rest(a) /\ ToSet(t.data) = {a.q.m}
             /\ t.len = a.q.len /\ t.kind = a.q.kind
             /\ wire[1].m = a.q.m /\ wire[1].arg = a.q.arg
             /\ a.q \in PeerStream /\ Fits(a.c, a.q) /\ a.q.m > 0
             /\ extended \/ Timed(t, a.q)
  <1> DEFINE a == st[1]
             s == cs_in[cur.c]
  <1>1. /\ s \in ReaderStream /\ a \in Snapshots /\ Good(a, sent, reckless, extended)
        /\ InPay(s, a, extended) /\ PayLink(a, wire[1], st[2], sent) /\ a.at = "pay"
    BY InPayload
  <1>2. a.q \in PeerStream /\ Chunk(a, reckless, extended) /\ Resting(a.c, a.p[a.c])
    BY <1>1 DEF Good, Snapshots
  <1>3. Fits(a.c, a.q) /\ a.q.m > 0 /\ a.q.m \in Nat
    BY <1>2 DEF Chunk, PeerStream
  <1>4. Shape(s, a.q) /\ ToSet(s.data) \subseteq {a.q.m} /\ (extended \/ Timed(s, a.q))
    BY <1>1 DEF InPay
  <1>5. /\ wire[1].m = a.q.m /\ wire[1].arg = a.q.arg /\ wire[1].n = Lesser(a.q.rem, a.z)
        /\ Ended(a, st[2], sent)
    BY <1>1 DEF PayLink
  <1>6. Rest(a) \in Nat /\ Rest(a) = s.rem - wire[1].n
    <2>1. Rest(a) \in 0 .. a.q.rem - 1
      BY <1>1, <1>2, RestingAfter
    <2> QED
      BY <1>2, <1>4, <1>5, <2>1 DEF Rest, Shape, PeerStream
  <1> HIDE DEF a, s
  <1>7. /\ t \in ReaderStream /\ t.mode = "header" /\ t.len = s.len /\ t.kind = s.kind
        /\ t.ext = s.ext /\ t.fmt = s.fmt /\ t.time = s.time /\ t.dtime = s.dtime
        /\ t.rem = Rest(a) /\ ToSet(t.data) = {a.q.m}
    <2>1. t = Taken(s, wire[1])
      BY DEF s
    <2> QED
      BY <1>1, <1>3, <1>4, <1>5, <1>6, <2>1, TakenIs
  <1>8. t.len = a.q.len /\ t.kind = a.q.kind /\ (extended \/ Timed(t, a.q))
    BY <1>4, <1>7 DEF Shape, Timed
  <1> QED
    BY <1>1, <1>2, <1>3, <1>5, <1>7, <1>8 DEF a, s

\* The message goes on.
LEMMA PartRead ==
  ASSUME IInv, Looping, cur # NoChunk, cs_in[cur.c].mode = "payload", NEW st, Sync(st),
         wire[1].k = "pay", wire[1].n = Wanted(cs_in[cur.c]),
         NEW t, t = Taken(cs_in[cur.c], wire[1]), t.rem # 0,
         cs_in' = [cs_in EXCEPT ![cur.c] = t], cur' = NoChunk,
         UNCHANGED <<max_chunk_size, got, extended>>
  PROVE  ReaderAt(st[2])'
  <1> DEFINE a == st[1]
             b == st[2]
             c == cur.c
             s == cs_in[c]
             r == [a.q EXCEPT !.rem = Rest(a)]
  <1>1. /\ c \in Csids /\ a \in Snapshots /\ Good(a, sent, reckless, extended) /\ extended \in BOOLEAN
        /\ ReaderAt(a) /\ a.c = c /\ InPay(s, a, extended)
    BY InPayload
  <1>2. /\ a.at = "pay" /\ Ended(a, b, sent)
        /\ t \in ReaderStream /\ t.mode = "header" /\ t.len = s.len /\ t.kind = s.kind
        /\ t.ext = s.ext /\ t.fmt = s.fmt /\ t.time = s.time /\ t.dtime = s.dtime
        /\ t.rem = Rest(a) /\ ToSet(t.data) = {a.q.m}
    BY PayloadTaken
  <1>3. Between(t, r, extended)
    <2>1. ToSet(t.data) \subseteq {a.q.m} /\ Rest(a) # 0
      BY <1>2
    <2> QED
      BY <1>1, <1>2, <2>1, PayloadRead
  <1>4. Rest(a) # 0 /\ Ending(a) = "none"
    BY <1>2 DEF Ending
  <1>5. /\ b.at = "idle" /\ b.r = a.r /\ b.n = a.n
        /\ b.p = [d \in Csids |-> IF d = a.c THEN r ELSE a.p[d]]
    <2>1. b.at = "idle" /\ b.n = a.n
      BY <1>2, <1>4 DEF Ended
    <2>2. b.p = [d \in Csids |-> IF d = a.c THEN r ELSE a.p[d]]
      BY <1>2, <1>4 DEF Ended
    <2>3. b.r = CASE Ending(a) = "size" -> a.q.arg [] Ending(a) = "connect" -> ServerSize [] OTHER -> a.r
      BY <1>2 DEF Ended
    <2>4. b.r = a.r
      BY <1>4, <2>3
    <2> QED
      BY <2>1, <2>2, <2>4
  <1> HIDE DEF a, b, r, s, c
  <1>6. cs_in \in [Csids -> ReaderStream]
    BY DEF IInv, Typed
  <1>7. cs_in'[c] = t /\ \A d \in Csids \ {c} : cs_in'[d] = cs_in[d]
    BY <1>1, <1>6 DEF c
  <1>8. b.p[c] = r /\ \A d \in Csids \ {c} : b.p[d] = a.p[d]
    BY <1>1, <1>5
  <1>9. \A d \in Csids : Between(cs_in'[d], b.p[d], extended')
    <2>1. \A d \in Csids \ {c} : Between(cs_in[d], a.p[d], extended)
      BY <1>1 DEF ReaderAt, c
    <2> QED
      BY <1>3, <1>7, <1>8, <2>1
  <1>10. max_chunk_size' = b.r /\ Len(got') = b.n
    BY <1>1, <1>5 DEF ReaderAt
  <1>11. ReaderAt(b)'
    BY <1>5, <1>9, <1>10 DEF ReaderAt
  <1> QED
    BY <1>11 DEF b

LEMMA FreshIs ==
  ASSUME NEW X
  PROVE  Fresh \in ReaderStream /\ Between(Fresh, Silent, X)
  <1>1. Fresh \in ReaderStream
    <2> DEFINE none == <<>>
    <2>1. none \in Seq(Nat)
      OBVIOUS
    <2>2. Fresh = [time |-> -1, dtime |-> -1, len |-> 0, kind |-> "none", ext |-> FALSE,
                   fmt |-> 0, rem |-> 0, mode |-> "header", data |-> none]
      BY DEF Fresh
    <2> HIDE DEF none
    <2> QED
      BY <2>1, <2>2 DEF ReaderStream, Kinds
  <1>2. Between(Fresh, Silent, X)
    BY DEF Between, Fresh, Silent, Shape, Contents, Timed, LastType
  <1> QED
    BY <1>1, <1>2

\* The message is complete.
LEMMA WholeRead ==
  ASSUME IInv, Looping, cur # NoChunk, cs_in[cur.c].mode = "payload", NEW st, Sync(st),
         wire[1].k = "pay", wire[1].n = Wanted(cs_in[cur.c]),
         NEW t, t = Taken(cs_in[cur.c], wire[1]), t.rem = 0, HandleChunkStream(t, wire[1]),
         cur' = NoChunk, UNCHANGED <<sent, extended>>
  PROVE  /\ ReaderAt(st[2])' /\ cs_in' \in [Csids -> ReaderStream]
         /\ got' \in Seq(GotMessage) /\ GotInv'
  <1> DEFINE a == st[1]
             b == st[2]
             c == cur.c
             s == cs_in[c]
             r == [a.q EXCEPT !.rem = Rest(a)]
             e == [t EXCEPT !.data = <<>>]
             g == [m |-> wire[1].m, time |-> t.time, pure |-> ToSet(t.data) = {wire[1].m}]
  <1>1. /\ c \in Csids /\ a \in Snapshots /\ Good(a, sent, reckless, extended) /\ extended \in BOOLEAN
        /\ ReaderAt(a) /\ a.c = c /\ InPay(s, a, extended)
    BY InPayload
  <1>2. /\ a.at = "pay" /\ Ended(a, b, sent)
        /\ t \in ReaderStream /\ t.mode = "header" /\ t.len = s.len /\ t.kind = s.kind
        /\ t.ext = s.ext /\ t.fmt = s.fmt /\ t.time = s.time /\ t.dtime = s.dtime
        /\ t.rem = Rest(a) /\ ToSet(t.data) = {a.q.m}
        /\ t.len = a.q.len /\ t.kind = a.q.kind
        /\ wire[1].m = a.q.m /\ wire[1].arg = a.q.arg
        /\ a.q \in PeerStream /\ Fits(a.c, a.q) /\ a.q.m > 0
        /\ extended \/ Timed(t, a.q)
    BY PayloadTaken
  <1>3. Rest(a) = 0 /\ Ending(a) = a.q.kind
    BY <1>2 DEF Ending
  <1>4. e \in ReaderStream /\ Between(e, r, extended)
    <2> DEFINE none == <<>>
    <2>1. none \in Seq(Nat)
      OBVIOUS
    <2>2. e = [t EXCEPT !.data = none]
      OBVIOUS
    <2> HIDE DEF none, e
    <2>3. /\ e \in ReaderStream /\ e.mode = "header" /\ e.len = s.len /\ e.kind = s.kind
          /\ e.ext = s.ext /\ e.fmt = s.fmt /\ e.time = s.time /\ e.dtime = s.dtime
          /\ e.rem = Rest(a) /\ e.data = none
      BY <1>2, <2>1, <2>2 DEF ReaderStream
    <2>4. e.data = <<>>
      BY <2>3 DEF none
    <2> QED
      BY <1>1, <1>2, <1>3, <2>3, <2>4, PayloadRead
  <1>5. /\ b.at = "idle" /\ b.n = a.n + 1 /\ b.n <= Len(sent)
        /\ sent[b.n] = [m |-> a.q.m, time |-> a.q.time, exact |-> a.q.exact]
        /\ b.r = CASE a.q.kind = "size" -> a.q.arg [] a.q.kind = "connect" -> ServerSize [] OTHER -> a.r
        /\ b.p = [d \in Csids |->
                    IF d = a.c THEN r ELSE IF a.q.kind = "abort" /\ d = a.q.arg THEN Silent ELSE a.p[d]]
    BY <1>2, <1>3 DEF Ended
  <1>6. /\ got' = Append(got, g) /\ max_chunk_size' = NewSize(t, wire[1]) /\ cs_in' = Cleared(t, wire[1])
    BY DEF HandleChunkStream
  <1> HIDE DEF a, b, r, s, c, e
  <1>7. cs_in \in [Csids -> ReaderStream] /\ got \in Seq(GotMessage) /\ sent \in Seq(SentMessage) /\ GotInv
    BY DEF IInv, Typed
  <1>8. cs_in' = [d \in Csids |-> IF d = c THEN e
                                  ELSE IF a.q.kind = "abort" /\ d = a.q.arg THEN Fresh ELSE cs_in[d]]
    <2>1. cs_in' = [d \in Csids |-> CASE d = c -> e [] t.kind = "abort" /\ d = wire[1].arg -> Fresh
                                      [] OTHER -> cs_in[d]]
      BY <1>6, Zenon DEF Cleared, c, e
    <2>2. ~(a.q.kind = "abort" /\ a.q.arg = c)
      BY <1>1, <1>2, CsidsAssumption DEF Fits
    <2>3. \A d \in Csids : (CASE d = c -> e [] t.kind = "abort" /\ d = wire[1].arg -> Fresh [] OTHER -> cs_in[d])
                             = IF d = c THEN e
                               ELSE IF a.q.kind = "abort" /\ d = a.q.arg THEN Fresh ELSE cs_in[d]
      BY <1>2, <2>2
    <2> QED
      BY <2>1, <2>3, Zenon
  <1>9. cs_in' \in [Csids -> ReaderStream]
    BY <1>4, <1>7, <1>8, FreshIs
  <1>10. \A d \in Csids : Between(cs_in'[d], b.p[d], extended')
    <2>1. \A d \in Csids \ {c} : Between(cs_in[d], a.p[d], extended)
      BY <1>1 DEF ReaderAt, c
    <2> TAKE d \in Csids
    <2>2. CASE d = c
      BY <1>1, <1>4, <1>5, <1>8, <2>2
    <2>3. CASE d # c /\ a.q.kind = "abort" /\ d = a.q.arg
      <3>1. cs_in'[d] = Fresh /\ b.p[d] = Silent
        BY <1>1, <1>5, <1>8, <2>3
      <3> QED
        BY <3>1, FreshIs
    <2>4. CASE d # c /\ ~(a.q.kind = "abort" /\ d = a.q.arg)
      <3>1. cs_in'[d] = cs_in[d] /\ b.p[d] = a.p[d]
        BY <1>1, <1>5, <1>8, <2>4
      <3> QED
        BY <2>1, <2>4, <3>1
    <2> QED
      BY <2>2, <2>3, <2>4
  <1>11. max_chunk_size' = b.r
    <2>1. max_chunk_size = a.r
      BY <1>1 DEF ReaderAt
    <2> QED
      BY <1>2, <1>5, <1>6, <2>1 DEF NewSize
  <1>12. g \in GotMessage /\ g.m = a.q.m /\ g.pure /\ g.time = t.time
    <2>1. t.time \in Int /\ a.q.m \in Nat
      BY <1>2 DEF ReaderStream, PeerStream
    <2>2. (ToSet(t.data) = {wire[1].m}) = TRUE
      BY <1>2
    <2> QED
      BY <1>2, <2>1, <2>2 DEF GotMessage
  <1> HIDE DEF g
  <1>13. /\ got' \in Seq(GotMessage) /\ Len(got') = Len(got) + 1 /\ got'[Len(got) + 1] = g
         /\ \A i \in 1 .. Len(got) : got'[i] = got[i]
    BY <1>6, <1>7, <1>12
  <1>14. Len(got) = a.n
    BY <1>1 DEF ReaderAt
  <1>15. ReaderAt(b)'
    BY <1>5, <1>10, <1>11, <1>13, <1>14 DEF ReaderAt
  <1>16. GotInv'
    <2>1. ~extended /\ a.q.exact => t.time = a.q.time
      BY <1>2 DEF Timed
    <2>2. ASSUME NEW i \in 1 .. Len(got')
          PROVE  /\ i <= Len(sent)
                 /\ got'[i].m = sent[i].m /\ got'[i].pure
                 /\ ~extended /\ sent[i].exact => got'[i].time = sent[i].time
      <3>1. Len(got) \in Nat
        BY <1>7
      <3>2. CASE i \in 1 .. Len(got)
        BY <1>7, <1>13, <3>2 DEF GotInv
      <3>3. CASE i = Len(got) + 1
        BY <1>5, <1>12, <1>13, <1>14, <2>1, <3>3
      <3> QED
        BY <1>13, <2>2, <3>1, <3>2, <3>3
    <2> QED
      BY <2>2 DEF GotInv
  <1> QED
    BY <1>9, <1>13, <1>15, <1>16 DEF b

\* The session answers a message so that the peer understands, and counts it.
LEMMA HandledKeeps ==
  ASSUME Typed, OutInv, NEW t \in ReaderStream, NEW p, p.arg \in Args, HandleChunkStream(t, p),
         t.kind = "size" => p.arg \in Sizes, t.kind = "window" => p.arg \in Windows,
         state \in {"connect", "open"}
  PROVE  /\ OutInv' /\ state' \in {"connect", "open"} /\ resized' \in BOOLEAN
         /\ max_chunk_size' \in AllSizes /\ window_size' \in AllWindows
         /\ ack_recv' \in Nat /\ \E n \in AllWindows : ack_recv' <= n
  <1> DEFINE all == ack_recv + t.len
  <1>1. /\ max_chunk_size' = NewSize(t, p) /\ ack_recv' = Counted(all)
        /\ window_size' = (IF t.kind = "window" THEN p.arg ELSE window_size)
        /\ out' = Written(out, t, p, all > window_size)
        /\ resized' = (resized \/ (t.kind = "size" /\ p.arg # out.told))
        /\ state' = (IF t.kind = "connect" THEN "open" ELSE state)
    BY DEF HandleChunkStream
  <1>2. /\ max_chunk_size \in AllSizes /\ window_size \in AllWindows /\ ack_recv \in Nat /\ resized \in BOOLEAN
        /\ t.kind \in Kinds /\ t.len \in Nat
    BY DEF Typed, ReaderStream
  <1>3. all \in Nat /\ window_size \in Nat
    BY <1>2, Numbers
  <1>4. (all > window_size) \in BOOLEAN
    OBVIOUS
  <1>5. max_chunk_size' \in AllSizes /\ window_size' \in AllWindows /\ resized' \in BOOLEAN
    <2>1. NewSize(t, p) \in AllSizes
      BY <1>2 DEF NewSize, AllSizes
    <2>2. window_size' \in AllWindows
      BY <1>1, <1>2 DEF AllWindows
    <2>3. resized' \in BOOLEAN
      BY <1>1, <1>2
    <2> QED
      BY <1>1, <2>1, <2>2, <2>3
  <1>6. ack_recv' \in Nat /\ ack_recv' <= window_size
    BY <1>1, <1>3 DEF Counted
  <1>7. state' \in {"connect", "open"}
    BY <1>1
  <1>8. OutInv'
    <2> SUFFICES ASSUME ~resized'
                 PROVE  Heard(out', max_chunk_size')
      BY DEF OutInv
    <2>1. ~resized /\ ~(t.kind = "size" /\ p.arg # out.told)
      BY <1>1, <1>2
    <2>2. Heard(out, max_chunk_size) /\ out.told = max_chunk_size
      BY <2>1 DEF OutInv, Heard
    <2> HIDE DEF all
    <2> DEFINE acks == all > window_size
    <2>3. acks \in BOOLEAN
      OBVIOUS
    <2>4. out' = Written(out, t, p, acks)
      BY <1>1 DEF all
    <2> HIDE DEF acks
    <2>5. Heard(out', IF t.kind = "connect" THEN ServerSize ELSE max_chunk_size)
      BY <1>2, <2>2, <2>3, <2>4, WrittenKeeps
    <2>6. max_chunk_size' = IF t.kind = "connect" THEN ServerSize ELSE max_chunk_size
      BY <1>1, <2>1, <2>2 DEF NewSize
    <2> QED
      BY <2>5, <2>6
  <1> QED
    BY <1>2, <1>5, <1>6, <1>7, <1>8

LEMMA ReadPayloadKeeps ==
  ASSUME IInv, ReadPayload
  PROVE  IInv'
  <1> DEFINE c == cur.c
             s == cs_in[c]
             p == wire[1]
             t == [s EXCEPT !.rem = @ - p.n, !.mode = "header", !.data = Append(@, p.m)]
             Rests == /\ cs_in' = [cs_in EXCEPT ![c] = t]
                      /\ UNCHANGED <<max_chunk_size, window_size, ack_recv, got, out, resized, state>>
  <1>1. Looping /\ cur # NoChunk /\ s.mode = "payload"
    BY DEF ReadPayload
  <1>2. /\ here = 0 => Wait(c, s)
        /\ here > 0 /\ p.k # "pay" => Garble
        /\ here > 0 /\ p.k = "pay" /\ p.n # Wanted(s) => Garble
        /\ here > 0 /\ p.k = "pay" /\ p.n = Wanted(s) =>
             /\ Consume(1) /\ cur' = NoChunk /\ busy' = GoesOn(t)
             /\ IF t.rem = 0 THEN HandleChunkStream(t, p) ELSE Rests
             /\ UNCHANGED <<peers, most, garbled, fresh>>
    <2> HIDE DEF t, s, p
    <2>1. CASE here = 0
      BY <2>1 DEF ReadPayload, s, p, t
    <2>2. CASE here > 0 /\ p.k # "pay"
      BY <2>2 DEF ReadPayload, s, p, t
    <2>3. CASE here > 0 /\ p.k = "pay" /\ p.n # Wanted(s)
      BY <2>3 DEF ReadPayload, s, p, t
    <2>4. CASE here > 0 /\ p.k = "pay" /\ p.n = Wanted(s)
      BY <2>4 DEF ReadPayload, s, p, t
    <2> QED
      BY <2>1, <2>2, <2>3, <2>4
  <1> HIDE DEF ReadPayload, Rests
  <1>3. PICK st : Sync(st)
    BY DEF IInv
  <1> DEFINE a == st[1]
  <1>4. /\ c \in Csids /\ s \in ReaderStream /\ here \in Nat /\ here <= Len(wire)
        /\ a \in Snapshots /\ extended \in BOOLEAN /\ InPay(s, a, extended)
        /\ p.k = "pay" <=> a.at = "pay"
        /\ extended \/ a.at = "pay"
    BY <1>1, <1>3, InPayload
  <1>5. CASE here = 0
    BY <1>1, <1>2, <1>3, <1>4, <1>5, WaitKeeps
  <1>6. CASE here > 0 /\ p.k # "pay"
    BY <1>2, <1>4, <1>6, GarbleKeeps
  <1>7. CASE here > 0 /\ p.k = "pay" /\ p.n # Wanted(s)
    <2>1. reckless
      BY <1>1, <1>3, <1>7, WantedIs
    <2> QED
      BY <1>2, <1>7, <2>1, GarbleKeeps
  <1>8. CASE here > 0 /\ p.k = "pay" /\ p.n = Wanted(s)
    <2>1. /\ Consume(1) /\ cur' = NoChunk /\ busy' = GoesOn(t)
          /\ IF t.rem = 0 THEN HandleChunkStream(t, p) ELSE Rests
          /\ UNCHANGED <<peers, most, garbled, fresh>>
      BY <1>2, <1>8
    <2>2. t = Taken(s, p)
      BY DEF Taken
    <2> HIDE DEF t
    <2>3. UNCHANGED <<peer, psize, begun, sent, rsize, reckless, extended>>
      BY <2>1 DEF peers
    <2>4. /\ t \in ReaderStream /\ t.kind = a.q.kind /\ p.arg = a.q.arg
          /\ a.q \in PeerStream /\ Fits(a.c, a.q)
      BY <1>1, <1>3, <1>8, <2>2, PayloadTaken
    <2>5. Typed /\ OutInv /\ GotInv
      BY DEF IInv
    <2>6. /\ ReaderAt(st[2])' /\ cs_in' \in [Csids -> ReaderStream] /\ got' \in Seq(GotMessage) /\ GotInv'
          /\ OutInv' /\ state' \in {"connect", "open"} /\ resized' \in BOOLEAN
          /\ max_chunk_size' \in AllSizes /\ window_size' \in AllWindows
          /\ ack_recv' \in Nat /\ \E n \in AllWindows : ack_recv' <= n
      <3>1. CASE t.rem = 0
        <4>1. HandleChunkStream(t, p)
          BY <2>1, <3>1
        <4>2. ReaderAt(st[2])' /\ cs_in' \in [Csids -> ReaderStream] /\ got' \in Seq(GotMessage) /\ GotInv'
          BY <1>1, <1>3, <1>8, <2>1, <2>2, <2>3, <3>1, <4>1, WholeRead
        <4>3. /\ p.arg \in Args /\ (t.kind = "size" => p.arg \in Sizes) /\ (t.kind = "window" => p.arg \in Windows)
              /\ state \in {"connect", "open"}
          BY <1>1, <2>4 DEF PeerStream, Fits, Looping
        <4>4. /\ OutInv' /\ state' \in {"connect", "open"} /\ resized' \in BOOLEAN
              /\ max_chunk_size' \in AllSizes /\ window_size' \in AllWindows
              /\ ack_recv' \in Nat /\ \E n \in AllWindows : ack_recv' <= n
          BY <2>4, <2>5, <4>1, <4>3, HandledKeeps
        <4> QED
          BY <4>2, <4>4
      <3>2. CASE t.rem # 0
        <4>1. /\ cs_in' = [cs_in EXCEPT ![c] = t]
              /\ UNCHANGED <<max_chunk_size, window_size, ack_recv, got, out, resized, state>>
          BY <2>1, <3>2 DEF Rests
        <4>2. ReaderAt(st[2])'
          BY <1>1, <1>3, <1>8, <2>1, <2>2, <2>3, <3>2, <4>1, PartRead
        <4>3. cs_in' \in [Csids -> ReaderStream]
          BY <2>4, <2>5, <4>1 DEF Typed
        <4>4. GotInv' /\ OutInv'
          BY <2>3, <2>5, <4>1 DEF GotInv, OutInv
        <4> QED
          BY <1>1, <2>5, <4>1, <4>2, <4>3, <4>4 DEF Typed, Looping
      <3> QED
        BY <3>1, <3>2
    <2>7. /\ SentInv' /\ ShakeInv' /\ HereInv' /\ GarbledInv'
          /\ wire' \in Seq(Tokens) /\ here' \in Nat
          /\ \E u : Sync(u)'
      <3> DEFINE k == 1
      <3>1. /\ k \in 0 .. here /\ wire' = SubSeq(wire, k + 1, Len(wire)) /\ here' = here - k
            /\ ReaderAt(st[k + 1])' /\ (busy' /\ cur' = NoChunk => here - k > 0)
            /\ (~busy' => here = k \/ here < Len(wire))
        <4>1. /\ k \in 0 .. here /\ wire' = SubSeq(wire, k + 1, Len(wire)) /\ here' = here - k
              /\ ReaderAt(st[k + 1])'
          BY <1>4, <1>8, <2>1, <2>6 DEF Consume
        <4>2. busy' <=> here > 1
          BY <2>1 DEF GoesOn
        <4>3. (busy' => here - k > 0) /\ (~busy' => here = k)
          BY <1>4, <1>8, <4>2
        <4> QED
          BY <4>1, <4>3
      <3> HIDE DEF k
      <3> QED
        BY <1>1, <1>3, <2>1, <2>6, <3>1, TurnKeeps
    <2>8. Typed'
      <3>1. busy' \in BOOLEAN /\ cur' \in [fmt : 0 .. 3, c : Csids] \cup {NoChunk}
        BY <2>1 DEF GoesOn
      <3> QED
        BY <2>1, <2>3, <2>5, <2>6, <2>7, <3>1 DEF Typed
    <2> QED
      BY <2>6, <2>7, <2>8 DEF IInv
  <1> QED
    BY <1>4, <1>5, <1>6, <1>7, <1>8

-----------------------------------------------------------------------------
(* The theorems *)

LEMMA InitInv == Init => IInv
  <1> SUFFICES ASSUME Init
               PROVE  IInv
    OBVIOUS
  <1> DEFINE shake == [k |-> "c0c1"]
             unread == [c \in Csids |-> Silent]
             a == [p |-> unread, z |-> DefaultSize, r |-> DefaultSize, n |-> 0, at |-> "idle",
                   q |-> Silent, c |-> Control, f |-> 0]
             st == <<a, a, a>>
  <1>1. /\ peer = unread /\ psize = DefaultSize
        /\ begun = 0 /\ sent = <<>>
        /\ wire = <<shake, shake>> /\ here = 0
        /\ state = "init" /\ busy = FALSE /\ most = 2
        /\ cur = NoChunk /\ cs_in = [c \in Csids |-> Fresh]
        /\ max_chunk_size = DefaultSize /\ window_size = DefaultWindow /\ ack_recv = 0
        /\ got = <<>> /\ garbled = FALSE
        /\ out = [cs |-> Unwritten, heard |-> Unwritten, told |-> DefaultSize, misread |-> FALSE]
        /\ rsize = DefaultSize /\ reckless = FALSE
        /\ extended = FALSE /\ fresh = FALSE /\ resized = FALSE
    BY DEF Init
  <1> HIDE DEF Init
  <1>2. shake \in Tokens /\ shake.k = "c0c1"
    BY DEF Tokens
  <1>3. Control \in Csids /\ DefaultSize \in AllSizes /\ DefaultWindow \in AllWindows
    BY DEF Csids, AllSizes, AllWindows
  <1>4. unread \in [Csids -> PeerStream] /\ \A c \in Csids : unread[c] = Silent
    BY SilentRests
  <1>5. a \in Snapshots /\ a.p = unread /\ a.z = DefaultSize /\ a.r = DefaultSize /\ a.n = 0 /\ a.at = "idle"
    <2> HIDE DEF unread
    <2>1. Silent \in PeerStream
      BY <1>3, SilentRests
    <2> QED
      BY <1>3, <1>4, <2>1 DEF Snapshots
  <1> HIDE DEF shake, unread, a
  <1>6. /\ wire \in Seq(Tokens) /\ Len(wire) = 2 /\ wire[1] = shake /\ wire[2] = shake
        /\ Len(sent) = 0 /\ Len(got) = 0 /\ sent \in Seq(SentMessage) /\ got \in Seq(GotMessage)
    BY <1>1, <1>2
  <1>7. Typed
    <2>1. cs_in \in [Csids -> ReaderStream]
      BY <1>1, FreshIs
    <2>2. begun \in 0 .. MaxMessages + 1
      BY <1>1, NumbersAssumption
    <2>3. ack_recv \in Nat /\ ack_recv <= DefaultWindow
      BY <1>1, <1>3, Numbers
    <2>4. \E n \in AllWindows : ack_recv <= n
      BY <1>3, <2>3
    <2> QED
      BY <1>1, <1>3, <1>4, <1>6, <2>1, <2>2, <2>3, <2>4 DEF Typed
  <1>8. OutInv
    <2>1. Unwritten \in Headers
      BY DEF Unwritten, Headers, Args, Types
    <2> HIDE DEF Unwritten
    <2>2. out \in Writers
      BY <1>1, <1>3, <2>1 DEF Writers
    <2> QED
      BY <1>1, <2>2 DEF OutInv, Heard
  <1>9. GotInv /\ GarbledInv
    BY <1>1, <1>6 DEF GotInv, GarbledInv
  <1>10. SentInv
    <2>1. \A c \in Csids : ~(peer[c].rem > 0)
      BY <1>1, <1>4 DEF Silent
    <2> QED
      BY <1>6, <2>1 DEF SentInv
  <1>11. ShakeInv
    <2>1. ~Shaken /\ Shaking = 2 /\ state # "c2"
      BY <1>1 DEF Shaken, Shaking
    <2> QED
      BY <1>1, <1>2, <1>6, <2>1 DEF ShakeInv
  <1>12. HereInv
    BY <1>1, <1>6 DEF HereInv
  <1>13. Good(a, sent, reckless, extended)
    <2>1. \A c \in Csids : Resting(c, a.p[c])
      BY <1>4, <1>5, SilentRests
    <2> QED
      BY <1>5, <1>6, <2>1 DEF Good
  <1>14. Link(a, shake, a, sent)
    BY <1>2, <1>5 DEF Link, ShakeLink, Same
  <1>15. st \in Seq(Snapshots) /\ Len(st) = 3 /\ st[1] = a /\ st[2] = a /\ st[3] = a
    BY <1>5
  <1> HIDE DEF st
  <1>16. Linked(st, wire, sent, reckless, extended)
    <2>1. \A i \in 1 .. Len(st) : Good(st[i], sent, reckless, extended)
      <3>1. \A i \in 1 .. 3 : st[i] = a
        BY <1>15
      <3> QED
        BY <1>13, <1>15, <3>1
    <2>2. \A i \in 1 .. Len(wire) : Link(st[i], wire[i], st[i + 1], sent)
      <3>1. \A i \in 1 .. 2 : st[i] = a /\ st[i + 1] = a /\ wire[i] = shake
        BY <1>6, <1>15
      <3> QED
        BY <1>6, <1>14, <3>1
    <2> QED
      BY <1>6, <1>15, <2>1, <2>2 DEF Linked
  <1>17. ReaderAt(a)
    <2>1. \A c \in Csids : Between(cs_in[c], a.p[c], extended)
      BY <1>1, <1>4, <1>5, FreshIs
    <2> QED
      BY <1>1, <1>5, <1>6, <2>1 DEF ReaderAt
  <1>18. PeerAt(a)
    BY <1>1, <1>5, <1>6 DEF PeerAt
  <1>19. Sync(st)
    BY <1>15, <1>16, <1>17, <1>18 DEF Sync
  <1> QED
    BY <1>7, <1>8, <1>9, <1>10, <1>11, <1>12, <1>19 DEF IInv

LEMMA NextKeeps == IInv /\ [Next]_vars => IInv'
  <1> SUFFICES ASSUME IInv, [Next]_vars
               PROVE  IInv'
    OBVIOUS
  <1>1. CASE PeerC2
    BY <1>1, PeerC2Keeps
  <1>2. CASE PeerConnects
    BY <1>2, PeerConnectsKeeps
  <1>3. CASE PeerControls
    BY <1>3, PeerControlsKeeps
  <1>4. CASE \E c \in Streams, f \in 0 .. 3, len \in Lengths, ts \in Stamps : PeerMessage(c, f, len, ts)
    BY <1>4, PeerMessageKeeps
  <1>5. CASE \E c \in Streams : PeerContinues(c)
    BY <1>5, PeerContinuesKeeps
  <1>6. CASE OnRead
    BY <1>6, OnReadKeeps
  <1>7. CASE HandleC0C1
    BY <1>7, HandshakeKeeps DEF HandleC0C1
  <1>8. CASE HandleC2
    BY <1>8, HandshakeKeeps DEF HandleC2
  <1>9. CASE ReadBasic
    BY <1>9, ReadBasicKeeps
  <1>10. CASE ReadHeader
    BY <1>10, ReadHeaderKeeps
  <1>11. CASE ReadF3First
    BY <1>11, ReadF3FirstKeeps
  <1>12. CASE ReadF3Next
    BY <1>12, ReadF3NextKeeps
  <1>13. CASE ReadPayload
    BY <1>13, ReadPayloadKeeps
  <1>14. CASE \E len \in Lengths : WriteMediaPacket(len)
    BY <1>14, WriteMediaPacketKeeps
  <1>15. CASE UNCHANGED vars
    <2>1. UNCHANGED <<peers, wire, here, state, busy, most, cur, reader, garbled, fresh>>
      BY <1>15 DEF vars
    <2>2. UNCHANGED <<peer, psize, begun, sent, rsize, reckless, extended>>
      BY <2>1 DEF peers
    <2>3. UNCHANGED <<cs_in, max_chunk_size, window_size, ack_recv, got, out, resized>>
      BY <2>1 DEF reader
    <2>4. Typed' /\ OutInv' /\ GotInv' /\ SentInv' /\ ShakeInv' /\ HereInv' /\ GarbledInv'
      BY <2>1, <2>2, <2>3
         DEF IInv, Typed, OutInv, GotInv, SentInv, ShakeInv, Shaking, Shaken, HereInv, GarbledInv
    <2>5. \E st : Sync(st)'
      BY <2>1, <2>3, SyncStays DEF IInv
    <2> QED
      BY <2>4, <2>5 DEF IInv
  <1> QED
    BY <1>1, <1>2, <1>3, <1>4, <1>5, <1>6, <1>7, <1>8, <1>9, <1>10, <1>11, <1>12, <1>13, <1>14, <1>15
       DEF Next

\* The invariant, with the snapshots of the peer for what is under way, holds in
\* every state.
THEOREM Invariance == Spec => []IInv
  BY InitInv, NextKeeps, PTL DEF Spec

\* No more messages are sent than may be begun.
LEMMA SentBound ==
  ASSUME Typed, SentInv
  PROVE  Len(sent) <= MaxMessages
  <1>1. begun \in 0 .. MaxMessages + 1 /\ MaxMessages \in Nat /\ Len(sent) \in Nat
    BY NumbersAssumption DEF Typed
  <1> DEFINE N == Len(sent)
             f == [i \in 1 .. N |-> sent[i].m]
  <1>2. f \in [1 .. N -> 1 .. begun - 1]
    BY DEF SentInv
  <1>3. \A i, j \in 1 .. N : f[i] = f[j] => i = j
    BY DEF SentInv
  <1> HIDE DEF f, N
  <1>4. /\ IsFiniteSet(1 .. N) /\ IsFiniteSet(1 .. begun - 1) /\ Cardinality(1 .. N) = N
        /\ Cardinality(1 .. begun - 1) = IF begun = 0 THEN 0 ELSE begun - 1
    <2>1. N \in Nat /\ 1 \in Int /\ N \in Int /\ begun - 1 \in Int
      BY <1>1 DEF N
    <2>2. /\ IsFiniteSet(1 .. N) /\ IsFiniteSet(1 .. (begun - 1))
          /\ Cardinality(1 .. N) = IF 1 > N THEN 0 ELSE N - 1 + 1
          /\ Cardinality(1 .. (begun - 1)) = IF 1 > begun - 1 THEN 0 ELSE (begun - 1) - 1 + 1
      BY <2>1, FS_Interval
    <2>3. (IF 1 > N THEN 0 ELSE N - 1 + 1) = N
      BY <2>1
    <2>4. (IF 1 > begun - 1 THEN 0 ELSE (begun - 1) - 1 + 1) = IF begun = 0 THEN 0 ELSE begun - 1
      BY <1>1
    <2> QED
      BY <2>2, <2>3, <2>4
  <1>5. ~(Cardinality(1 .. begun - 1) < Cardinality(1 .. N))
    <2> DEFINE A == 1 .. N
               B == 1 .. begun - 1
    <2>1. IsFiniteSet(A) /\ IsFiniteSet(B) /\ f \in [A -> B] /\ \A i, j \in A : f[i] = f[j] => i = j
      BY <1>2, <1>3, <1>4
    <2> HIDE DEF A, B
    <2>2. ~(Cardinality(B) < Cardinality(A))
      <3> SUFFICES ASSUME Cardinality(B) < Cardinality(A)
                   PROVE  FALSE
        OBVIOUS
      <3>1. \E x, y \in A : x # y /\ f[x] = f[y]
        BY <2>1, FS_PigeonHole
      <3> QED
        BY <2>1, <3>1
    <2> QED
      BY <2>2 DEF A, B
  <1> QED
    BY <1>1, <1>4, <1>5 DEF N

\* The remaining bytes of a chunk stream are those of its message.
LEMMA ReaderBounds ==
  ASSUME IInv, NEW c \in Csids
  PROVE  /\ cs_in[c].rem <= cs_in[c].len
         /\ cs_in[c].mode = "payload" => cur # NoChunk /\ cur.c = c
         /\ peer[c].rem <= peer[c].len
  <1>1. Typed
    BY DEF IInv
  <1>2. PICK st : Sync(st)
    BY DEF IInv
  <1> DEFINE a == st[1]
  <1>3. /\ a \in Snapshots /\ Good(a, sent, reckless, extended) /\ ReaderAt(a)
        /\ \A d \in Csids : Resting(d, peer[d]) /\ Resting(d, a.p[d])
    <2>1. Len(wire) \in Nat
      BY <1>1 DEF Typed
    <2> QED
      BY <1>1, <1>2, <2>1, FirstLinks, LastSnapshot DEF Good
  <1> HIDE DEF a
  <1>4. peer[c].rem <= peer[c].len
    BY <1>3 DEF Resting, Fits
  <1>5. CASE cur = NoChunk \/ c # cur.c
    <2>1. cs_in[c].mode = "header" /\ Shape(cs_in[c], a.p[c])
      BY <1>3, <1>5 DEF ReaderAt, Between
    <2> QED
      BY <1>3, <1>4, <2>1 DEF Shape, Resting, Fits
  <1>6. CASE cur # NoChunk /\ c = cur.c
    <2>1. a.c = c /\ Chunk(a, reckless, extended)
      BY <1>3, <1>6 DEF ReaderAt, Good
    <2>2. Shape(cs_in[c], a.p[c]) \/ Shape(cs_in[c], a.q)
      BY <1>3, <1>6, <2>1 DEF ReaderAt, InHead, InPay
    <2> QED
      BY <1>3, <1>4, <1>6, <2>1, <2>2 DEF Shape, Resting, Chunk, Fits
  <1> QED
    BY <1>5, <1>6

\* The types, the place of the reader and the bounds hold in every state: a chunk
\* stream waits for a payload only after its basic header, and no count of bytes
\* or messages passes its limit.
THEOREM TypeCorrect == Spec => []TypeOK
  <1>1. IInv => TypeOK
    <2> SUFFICES ASSUME IInv
                 PROVE  TypeOK
      OBVIOUS
    <2>1. Typed /\ HereInv /\ SentInv /\ GotInv
      BY DEF IInv
    <2>2. here \in 0 .. Len(wire) /\ most \in {2, MaxWire + 5} /\ state \in {"init", "c2", "connect", "open"}
      BY <2>1 DEF Typed, HereInv
    <2>3. {busy, garbled, reckless, extended, fresh, resized} \subseteq BOOLEAN
      BY <2>1 DEF Typed
    <2>4. cur \in [fmt : 0 .. 4, c : Csids]
      <3>1. NoChunk \in [fmt : 0 .. 4, c : Csids]
        BY DEF NoChunk, Csids
      <3>2. [fmt : 0 .. 3, c : Csids] \subseteq [fmt : 0 .. 4, c : Csids]
        OBVIOUS
      <3> QED
        BY <2>1, <3>1, <3>2 DEF Typed
    <2>5. \A c \in Csids :
            /\ cs_in[c].rem \in 0 .. cs_in[c].len /\ cs_in[c].kind \in Kinds
            /\ cs_in[c].mode = "payload" => cur # NoChunk /\ cur.c = c
            /\ peer[c].rem \in 0 .. peer[c].len /\ peer[c].kind \in Kinds
      <3> TAKE c \in Csids
      <3>1. cs_in[c] \in ReaderStream /\ peer[c] \in PeerStream
        BY <2>1 DEF Typed
      <3>2. /\ cs_in[c].rem <= cs_in[c].len /\ peer[c].rem <= peer[c].len
            /\ cs_in[c].mode = "payload" => cur # NoChunk /\ cur.c = c
        BY ReaderBounds
      <3> QED
        BY <3>1, <3>2 DEF ReaderStream, PeerStream
    <2>6. /\ {max_chunk_size, psize, rsize} \subseteq Sizes \cup {DefaultSize, ServerSize}
          /\ window_size \in Windows \cup {DefaultWindow}
          /\ ack_recv \in Nat /\ \E n \in Windows \cup {DefaultWindow} : ack_recv <= n
      BY <2>1 DEF Typed, AllSizes, AllWindows
    <2>7. begun \in 0 .. MaxMessages + 1 /\ Len(got) \in 0 .. MaxMessages
      <3>1. Len(got) \in Nat /\ Len(sent) \in Nat /\ begun \in 0 .. MaxMessages + 1 /\ MaxMessages \in Nat
        BY <2>1, NumbersAssumption DEF Typed
      <3>2. Len(got) > 0 => Len(got) <= Len(sent)
        BY <2>1, <3>1 DEF GotInv
      <3>3. Len(sent) <= MaxMessages
        BY <2>1, SentBound
      <3> QED
        BY <3>1, <3>2, <3>3
    <2> QED
      BY <2>2, <2>3, <2>4, <2>5, <2>6, <2>7 DEF TypeOK
  <1> QED
    BY <1>1, Invariance, PTL

\* The chunk reader handles the messages that were sent, in their order and each
\* of its own payload only, for any cut of the reads and any mixture of chunk
\* streams, aborts and changes of size, unless the peer is of a kind left out.
THEOREM ReadsInOrder == Spec => []ReadsWhatWasSent
  <1>1. IInv => ReadsWhatWasSent
    BY DEF IInv, GarbledInv, GotInv, ReadsWhatWasSent
  <1> QED
    BY <1>1, Invariance, PTL

\* Every header type, as the reader takes it, gives a message the time its sender
\* meant where that is exact.
THEOREM KeepsTimes == Spec => []TimesAreRight
  <1>1. IInv => TimesAreRight
    BY DEF IInv, GotInv, TimesAreRight
  <1> QED
    BY <1>1, Invariance, PTL

\* The loop of handle() ends only when recv_buf is empty or needs more of what has
\* not come, so that a waiting session has handled all that was sent.
THEOREM LeavesNothing == Spec => []NothingLeftBehind
  <1>1. IInv => NothingLeftBehind
    <2> SUFFICES ASSUME IInv, ~busy, here = Len(wire), ~fresh, ~extended
                 PROVE  Len(got) = Len(sent)
      BY DEF NothingLeftBehind
    <2>1. Typed /\ HereInv
      BY DEF IInv
    <2>2. Len(wire) = 0
      <3>1. here \in Nat /\ Len(wire) \in Nat
        BY <2>1 DEF Typed
      <3> QED
        BY <2>1, <3>1 DEF HereInv
    <2>3. PICK st : Sync(st)
      BY DEF IInv
    <2>4. Len(st) = 1 /\ PeerAt(st[Len(st)])
      BY <2>1, <2>2, <2>3, LastSnapshot
    <2>5. ReaderAt(st[1])
      BY <2>3 DEF Sync
    <2> QED
      BY <2>4, <2>5 DEF ReaderAt, PeerAt
  <1> QED
    BY <1>1, Invariance, PTL

\* write_chunk chooses headers and cuts payloads as the peer takes them, as long
\* as the size the peer announces for itself is the one it was told.
THEOREM Understood == Spec => []PeerUnderstands
  <1>1. IInv => PeerUnderstands
    BY DEF IInv, OutInv, Heard, PeerUnderstands
  <1> QED
    BY <1>1, Invariance, PTL
===============================================================================
