------------------------------ MODULE RtmpChunks ------------------------------
(***************************************************************************)
(* What one RTMP connection reads and writes: the handshake, the chunks of *)
(* the peer's messages as reads deliver them, the control messages that    *)
(* change the reader itself, and the chunks that are written back.         *)
(*                                                                         *)
(* A wire is a sequence of tokens: half of a handshake message, the basic  *)
(* header, message header, extended timestamp or payload of a chunk.  The  *)
(* code takes each of them whole or waits, so a token that has come in     *)
(* part is one that has not come.  What follows a token of another kind,   *)
(* or a payload of another size, than the code expects is never again what *)
(* was meant: garbled is set, and nothing more is modelled.  Payloads are  *)
(* counted in units of 128 bytes.                                          *)
(*                                                                         *)
(* The peer is external: it interleaves the chunks of messages on several  *)
(* chunk streams, with any legal header, as RTMP has it.  The one thread   *)
(* of the server is in handle() while busy: one action is one turn, or one *)
(* half of a turn, of its loop.  Variant marks a definition with a         *)
(* plausible mistake, used by no action.                                   *)
(***************************************************************************)
EXTENDS Integers, Sequences, SequencesExt

CONSTANTS
  Streams,       \* the peer's chunk streams, but for the control stream
  Commands,      \* the one of them that carries its commands
  Control,       \* the chunk stream of control messages, both ways
  Lengths,       \* of messages, in units
  Stamps,        \* timestamps, and differences of them
  ExtLimit,      \* from here on a timestamp needs its extended form
  Sizes,         \* chunk sizes a peer may announce
  DefaultSize,   \* 128 bytes
  ServerSize,    \* 4096 bytes
  Windows,       \* window sizes a peer may announce
  DefaultWindow, \* 2500000 bytes
  MaxMessages,   \* bound on the messages of the peer
  MaxWire        \* bound on the tokens under way

Csids == Streams \cup {Control}
ASSUME CsidsAssumption == Commands \in Streams /\ Control \notin Streams
ASSUME NumbersAssumption ==
  /\ Lengths \cup Sizes \cup Windows \cup {DefaultSize, ServerSize, DefaultWindow} \subseteq Nat \ {0}
  /\ Stamps \cup {ExtLimit, MaxMessages, MaxWire} \subseteq Nat

VARIABLES
  peer, psize,       \* the peer: its chunk streams and its chunk size
  begun, sent,       \* messages it began, and those it ended, in order
  wire, here,        \* tokens to be consumed, and how many are in recv_buf
  state, busy, most, \* of the session; in handle(); tokens the read may take
  cur, cs_in,        \* fmt_ and csid_ while header_read, and the chunk streams
  max_chunk_size, window_size, ack_recv,
  got, garbled,      \* the messages handled, in order
  out,               \* the writer: cs_out, and how the peer reads it
  rsize, reckless,   \* history: see "The peer" below
  extended, fresh, resized

peers == <<peer, psize, begun, sent, rsize, reckless, extended>>
reader == <<cs_in, max_chunk_size, window_size, ack_recv, got, out, resized>>
vars == <<peers, wire, here, state, busy, most, cur, reader, garbled, fresh>>

Lesser(a, b) == IF a < b THEN a ELSE b

\* A chunk stream that has just been made.  The code leaves rem_ and fmt_ unset;
\* they are read by a type 3 header only, which no peer begins with.
Fresh == [time |-> -1, dtime |-> -1, len |-> 0, kind |-> "none", ext |-> FALSE,
          fmt |-> 0, rem |-> 0, mode |-> "header", data |-> <<>>]
NoChunk == [fmt |-> 4, c |-> Control]
Silent == [time |-> 0, field |-> 0, len |-> 0, kind |-> "none", arg |-> 0, m |-> 0, rem |-> 0,
           hdr |-> 4, whole |-> TRUE, ext |-> FALSE, exact |-> TRUE]
Unwritten == [dtime |-> -1, len |-> 0, type |-> "none", stream |-> -1]

Init ==
  /\ peer = [c \in Csids |-> Silent] /\ psize = DefaultSize
  /\ begun = 0 /\ sent = <<>>
  /\ wire = <<[k |-> "c0c1"], [k |-> "c0c1"]>> /\ here = 0
  /\ state = "init" /\ busy = FALSE /\ most = 2
  /\ cur = NoChunk /\ cs_in = [c \in Csids |-> Fresh]
  /\ max_chunk_size = DefaultSize /\ window_size = DefaultWindow /\ ack_recv = 0
  /\ got = <<>> /\ garbled = FALSE
  /\ out = [cs |-> Unwritten, heard |-> Unwritten, told |-> DefaultSize, misread |-> FALSE]
  /\ rsize = DefaultSize /\ reckless = FALSE
  /\ extended = FALSE /\ fresh = FALSE /\ resized = FALSE

-----------------------------------------------------------------------------
(* The peer.  rsize is the chunk size last announced by either side, in the *)
(* order of the peer's messages; reckless: it cut a message by another one. *)
(* extended: an extended timestamp in a header of type 1 or 2, or, on a     *)
(* stream that has had one, a type 3 header other than those that continue  *)
(* a message with one; the reader then guesses what follows.  After either  *)
(* it only ends what it has begun.                                          *)

PeerC2 ==
  /\ state = "c2" /\ begun = 0
  /\ wire = <<>>
  /\ wire' = <<[k |-> "c2"], [k |-> "c2"]>>
  /\ begun' = 1
  /\ UNCHANGED <<peer, psize, sent, rsize, reckless, extended, here, state, busy, most, cur, reader,
                 garbled, fresh>>

\* The next chunk of the message of p on chunk stream c.
PeerChunk(c, f, p) ==
  LET n == Lesser(p.rem, psize)
      rest == p.rem - n
      kind == IF rest = 0 THEN p.kind ELSE "none"
  IN  /\ wire' = wire \o <<[k |-> "basic", fmt |-> f, c |-> c]>>
                 \o (IF f = 3 THEN <<>>
                     ELSE <<[k |-> "head", ts |-> p.field, len |-> p.len, kind |-> p.kind]>>)
                 \o (IF p.field >= ExtLimit THEN <<[k |-> "ext", ts |-> p.field]>> ELSE <<>>)
                 \o <<[k |-> "pay", m |-> p.m, n |-> n, arg |-> p.arg]>>
      /\ peer' = [d \in Csids |->
                   IF d = c THEN [p EXCEPT !.rem = rest]
                   ELSE IF kind = "abort" /\ d = p.arg THEN Silent ELSE peer[d]]
      /\ sent' = IF rest = 0
                 THEN Append(sent, [m |-> p.m, time |-> p.time, exact |-> p.exact]) ELSE sent
      /\ psize' = IF kind = "size" THEN p.arg ELSE psize
      /\ rsize' = CASE kind = "size" -> p.arg [] kind = "connect" -> ServerSize [] OTHER -> rsize
      /\ reckless' = (reckless \/ n # Lesser(p.rem, rsize))

\* A message that begins on the chunk stream of p.  A type 3 header repeats the
\* last timestamp field, be it a time or a difference.  exact: the reader need not
\* guess which.
Opening(p, f, len, ts, kind, arg) ==
  LET ext == ts >= ExtLimit
  IN  [time |-> IF f = 0 THEN ts ELSE p.time + ts, field |-> ts, len |-> len,
       kind |-> kind, arg |-> arg, m |-> begun, rem |-> len,
       hdr |-> IF f = 3 THEN p.hdr ELSE f, whole |-> len <= psize /\ f # 3, ext |-> p.ext \/ ext,
       exact |-> ~ext /\ (f = 0 \/ (p.exact /\ (f = 3 => p.whole /\ p.hdr \in 1 .. 2)))]

PeerBegin(c, f, len, ts, kind, arg) ==
  LET p == peer[c]
  IN  /\ ~garbled /\ ~reckless /\ ~extended /\ begun \in 1 .. MaxMessages
      /\ p.rem = 0 /\ Len(wire) <= MaxWire
      /\ f # 0 => p.m > 0
      /\ f \in 2 .. 3 => len = p.len /\ kind = p.kind
      /\ f = 3 => ts = p.field
      /\ PeerChunk(c, f, Opening(p, f, len, ts, kind, arg))
      /\ begun' = begun + 1
      /\ extended' = (extended \/ (ts >= ExtLimit /\ f \in 1 .. 2) \/ (f = 3 /\ p.ext))
      /\ UNCHANGED <<here, state, busy, most, cur, reader, garbled, fresh>>

Connected == \E i \in 1 .. Len(sent) : sent[i].m = 1

PeerConnects == PeerBegin(Commands, 0, 2, 0, "connect", 0) /\ begun = 1

PeerMessage(c, f, len, ts) ==
  /\ Connected
  /\ \E kind \in {"command", "data"} :
       /\ kind = "command" <=> c = Commands
       /\ PeerBegin(c, f, len, ts, kind, len)

\* It aborts only messages it has begun, which are never on the control stream.
PeerControls ==
  /\ Connected
  /\ \/ \E n \in Sizes : PeerBegin(Control, 0, 1, 0, "size", n)
     \/ \E n \in Windows : PeerBegin(Control, 0, 1, 0, "window", n)
     \/ \E c \in Streams : peer[c].rem > 0 /\ PeerBegin(Control, 0, 1, 0, "abort", c)

PeerContinues(c) ==
  /\ ~garbled
  /\ peer[c].rem > 0 /\ Len(wire) <= MaxWire
  /\ PeerChunk(c, 3, peer[c])
  /\ extended' = (extended \/ (peer[c].ext /\ peer[c].field < ExtLimit))
  /\ UNCHANGED <<begun, here, state, busy, most, cur, reader, garbled, fresh>>

-----------------------------------------------------------------------------
(* tcp_session and the handshake *)

\* A read takes what is there, cut anywhere.
OnRead ==
  /\ ~busy /\ ~garbled
  /\ \E n \in 1 .. Lesser(most, Len(wire) - here) : here' = here + n
  /\ busy' = TRUE
  /\ fresh' = FALSE
  /\ UNCHANGED <<peers, wire, state, most, cur, reader, garbled>>

Consume(n) == wire' = SubSeq(wire, n + 1, Len(wire)) /\ here' = here - n

Handshake(from, to) ==
  /\ busy /\ state = from
  /\ busy' = FALSE
  /\ IF here < 2
     THEN /\ most' = MaxWire + 5
          /\ UNCHANGED <<wire, here, state, fresh>>
     ELSE /\ Consume(2)
          /\ state' = to
          /\ most' = IF to = "c2" THEN 2 ELSE MaxWire + 5
          /\ fresh' = (to = "connect")
  /\ UNCHANGED <<peers, cur, reader, garbled>>

HandleC0C1 == Handshake("init", "c2")

\* The messages that came with c2 stay in recv_buf until the next read.
HandleC2 == Handshake("c2", "connect")

-----------------------------------------------------------------------------
(* rtmp_chunk_stream::write_chunk *)

Pieces(len, size) == <<(len + size - 1) \div size, Lesser(len, size)>>

\* Variant: the length is not compared.
FormatLoose(s, w) ==
  IF w.force \/ s.stream # w.stream THEN 0
  ELSE IF s.type # w.type THEN 1
  ELSE IF s.dtime # 0 THEN 2 ELSE 3

\* The type of the header of a message; every dtime that is written is 0.
Format(s, w) ==
  IF w.force \/ s.stream # w.stream THEN 0
  ELSE IF s.len # w.len \/ s.type # w.type THEN 1
  ELSE IF s.dtime # 0 THEN 2 ELSE 3

\* The fields the header carries, put into s.
Carried(s, f, w) ==
  [s EXCEPT !.dtime = IF f \in 1 .. 2 THEN 0 ELSE @,
            !.len = IF f \in 0 .. 1 THEN w.len ELSE @,
            !.type = IF f \in 0 .. 1 THEN w.type ELSE @,
            !.stream = IF f = 0 THEN w.stream ELSE @]

Meant(s) == <<s.len, s.type, s.stream>>

\* The peer reads a message by the size it was told and the header it got: it
\* misreads one that is cut by another size, or that has another header than it
\* takes it for.  A forced message has a header of type 0.  No other is written
\* on the chunk streams of control messages and media, so cs_out is that of the
\* commands.
Told(o, w) == IF w.type = "size" THEN w.size ELSE o.told
Miscut(o, w) == Pieces(w.len, w.size) # Pieces(w.len, o.told)

Forced(o, w) == [o EXCEPT !.told = Told(o, w), !.misread = @ \/ Miscut(o, w)]
Chosen(o, w) ==
  LET f == Format(o.cs, w)
      heard == Carried(o.heard, f, w)
  IN  [o EXCEPT !.cs = Carried(@, f, w), !.heard = heard,
                !.misread = @ \/ Miscut(o, w) \/ Meant(heard) # <<w.len, w.type, w.stream>>]

WriteChunk(o, w) == IF w.force THEN Forced(o, w) ELSE Chosen(o, w)

ForcedOut(type, len, size) ==
  [type |-> type, stream |-> 0, len |-> len, size |-> size, force |-> TRUE]
CommandOut(len, size) ==
  [type |-> "command", stream |-> 0, len |-> len, size |-> size, force |-> FALSE]

\* A packet that is relayed to this session by the handler of another one.
WriteMediaPacket(len) ==
  /\ ~busy /\ ~garbled /\ state = "open"
  /\ out' = WriteChunk(out, ForcedOut("data", len, max_chunk_size))
  /\ UNCHANGED <<peers, wire, here, state, busy, most, cur, cs_in, max_chunk_size, window_size,
                 ack_recv, got, resized, garbled, fresh>>

-----------------------------------------------------------------------------
(* The loop of handle() *)

Garble ==
  /\ garbled' = TRUE
  /\ UNCHANGED <<peers, wire, here, state, busy, most, cur, reader, fresh>>

\* A return of 1: the next read is started.
Wait(c, changed) ==
  /\ busy' = FALSE
  /\ cs_in' = [cs_in EXCEPT ![c] = changed]
  /\ UNCHANGED <<peers, wire, here, state, most, cur, max_chunk_size, window_size, ack_recv, got,
                 out, resized, garbled, fresh>>

Looping == busy /\ ~garbled /\ state \in {"connect", "open"}

ReadBasic ==
  /\ Looping /\ cur = NoChunk
  /\ cur' = [fmt |-> wire[1].fmt, c |-> wire[1].c]
  /\ Consume(1)
  /\ UNCHANGED <<peers, state, busy, most, reader, garbled, fresh>>

\* The bytes of an extended timestamp are taken in the wrong order.
Backwards(ts) == 2 * ts

\* read_header: the header is complete, and took n tokens.
Header(c, n, changed) ==
  /\ cs_in' = [cs_in EXCEPT ![c] = [changed EXCEPT !.fmt = cur.fmt, !.mode = "payload"]]
  /\ Consume(n)
  /\ UNCHANGED <<peers, state, busy, most, cur, max_chunk_size, window_size, ack_recv, got, out,
                 resized, garbled, fresh>>

\* fmt_ is the type of the last header even if that is not complete.
Incomplete(c, changed) == Wait(c, [changed EXCEPT !.fmt = cur.fmt])

InHeader == Looping /\ cur # NoChunk /\ cs_in[cur.c].mode = "header"

\* read_f0, read_f1, read_f2
ReadHeader ==
  LET c == cur.c
      s == cs_in[c]
      h == wire[1]
      ext == h.ts >= ExtLimit
      ts == IF ext THEN Backwards(h.ts) ELSE h.ts
      t == [s EXCEPT !.ext = @ \/ ext]
  IN  /\ InHeader /\ cur.fmt # 3
      /\ CASE here = 0 -> Incomplete(c, s)
           [] here = 1 /\ ext -> Incomplete(c, t)
           [] OTHER ->
                Header(c, IF ext THEN 2 ELSE 1,
                  [t EXCEPT !.time = IF cur.fmt = 0 THEN ts ELSE @ + ts,
                            !.dtime = IF cur.fmt = 0 THEN 0 ELSE ts,
                            !.len = IF cur.fmt = 2 THEN @ ELSE h.len,
                            !.kind = IF cur.fmt = 2 THEN @ ELSE h.kind,
                            !.rem = IF cur.fmt = 2 THEN s.len ELSE h.len])

\* Variant: it never adds anything.
AdvanceNever(s) == 0

\* What a type 3 header that begins a message adds to the time: nothing if the
\* header before was of type 0, or of type 3.
Advance(s) == IF s.fmt \in 1 .. 2 THEN s.dtime ELSE 0

\* The tokens that have come may be less than the four bytes of an extended
\* timestamp, if n units of payload are next: a last unit may be of one byte.
MayBeShort(n) ==
  \/ here = 0
  \/ /\ n = 1 /\ here <= 3
     /\ \A i \in 1 .. here : wire[i].k = "basic" \/ (wire[i].k = "pay" /\ wire[i].n = 1)

\* read_f3, for the first chunk of a message.
ReadF3First ==
  LET c == cur.c
      s == cs_in[c]
      ext == s.ext /\ s.fmt # 3
      t == [s EXCEPT !.data = <<>>, !.rem = s.len]
  IN  /\ InHeader /\ cur.fmt = 3 /\ s.rem = 0
      /\ \/ ext /\ MayBeShort(s.len) /\ Incomplete(c, s)
         \/ ext /\ here > 0 /\ wire[1].k # "ext" /\ Garble
         \/ /\ ext => here > 0 /\ wire[1].k = "ext"
            /\ IF ext
               THEN Header(c, 1, [t EXCEPT !.time = Backwards(wire[1].ts) + IF s.fmt = 0 THEN 0 ELSE @])
               ELSE Header(c, 0, [t EXCEPT !.time = @ + Advance(s)])

\* The extended timestamp that a continuation repeats, if that is what comes.
Continue(s) ==
  IF s.ext /\ wire[1].k = "ext" /\ Backwards(wire[1].ts) = s.time THEN 1 ELSE 0

\* read_f3, for the next chunk of a message.  On a stream that has had an extended
\* timestamp it waits for four bytes, even if a shorter payload is all there is,
\* and takes them if they are the time, even if they are payload.
ReadF3Next ==
  LET c == cur.c
      s == cs_in[c]
  IN  /\ InHeader /\ cur.fmt = 3 /\ s.rem > 0
      /\ \/ s.ext /\ MayBeShort(s.rem) /\ Incomplete(c, s)
         \/ s.ext /\ here > 0 /\ wire[1].k = "pay" /\ Garble
         \/ (s.ext => here > 0) /\ Header(c, Continue(s), s)

\* One size, for reading and for writing, set by the peer and by connect.
NewSize(s, p) ==
  CASE s.kind = "size" -> p.arg
    [] s.kind = "connect" -> ServerSize
    [] OTHER -> max_chunk_size

\* Variant: an abort message is ignored.
ClearedOwn(s, p) == [cs_in EXCEPT ![cur.c] = [s EXCEPT !.data = <<>>]]

\* clear(), after an abort message has erased a stream: another one than its own,
\* see PeerControls, whose clear() would go through a null pointer.
Cleared(s, p) ==
  [c \in Csids |-> CASE c = cur.c -> [s EXCEPT !.data = <<>>]
                     [] s.kind = "abort" /\ c = p.arg -> Fresh
                     [] OTHER -> cs_in[c]]

\* o after what the handlers write; send_ack comes before them.
Written(o, s, p, acks) ==
  LET acked == IF acks THEN WriteChunk(o, ForcedOut("ack", 1, max_chunk_size)) ELSE o
      sized == WriteChunk(acked, ForcedOut("size", 1, ServerSize))
      windowed == WriteChunk(sized, ForcedOut("window", 1, ServerSize))
      limited == WriteChunk(windowed, ForcedOut("bandwidth", 1, ServerSize))
  IN  CASE s.kind = "connect" -> WriteChunk(limited, CommandOut(2, ServerSize))
        [] s.kind = "command" -> WriteChunk(acked, CommandOut(p.arg, max_chunk_size))
        [] OTHER -> acked

\* Variant: the count goes on after an acknowledgement.
CountedOn(all) == all

\* ack_recv, after all units since the last acknowledgement.
Counted(all) == IF all > window_size THEN 0 ELSE all

\* handle_chunk_stream, for the message that payload p ends.
HandleChunkStream(s, p) ==
  LET all == ack_recv + s.len
  IN  /\ got' = Append(got, [m |-> p.m, time |-> s.time, pure |-> ToSet(s.data) = {p.m}])
      /\ ack_recv' = Counted(all)
      /\ max_chunk_size' = NewSize(s, p)
      /\ window_size' = IF s.kind = "window" THEN p.arg ELSE window_size
      /\ cs_in' = Cleared(s, p)
      /\ out' = Written(out, s, p, all > window_size)
      /\ resized' = (resized \/ (s.kind = "size" /\ p.arg # out.told))
      /\ state' = IF s.kind = "connect" THEN "open" ELSE state

Wanted(s) == Lesser(s.rem, max_chunk_size)

\* Variant: the loop ends with a message.
GoesOnWithin(t) == here > 1 /\ t.rem > 0

\* The loop goes on while recv_buf has anything, if only the payload went.
GoesOn(t) == here > 1

ReadPayload ==
  LET c == cur.c
      p == wire[1]
      t == [cs_in[c] EXCEPT !.rem = @ - p.n, !.mode = "header", !.data = Append(@, p.m)]
  IN  /\ Looping /\ cur # NoChunk /\ cs_in[c].mode = "payload"
      /\ CASE here = 0 -> Wait(c, cs_in[c])
           [] here > 0 /\ p.k # "pay" -> Garble
           [] here > 0 /\ p.k = "pay" /\ p.n # Wanted(cs_in[c]) -> Garble
           [] OTHER ->
                /\ Consume(1)
                /\ cur' = NoChunk
                /\ busy' = GoesOn(t)
                /\ IF t.rem = 0
                   THEN HandleChunkStream(t, p)
                   ELSE /\ cs_in' = [cs_in EXCEPT ![c] = t]
                        /\ UNCHANGED <<max_chunk_size, window_size, ack_recv, got, out, resized, state>>
                /\ UNCHANGED <<peers, most, garbled, fresh>>

-----------------------------------------------------------------------------

Next ==
  \/ PeerC2 \/ PeerConnects \/ PeerControls
  \/ \E c \in Streams, f \in 0 .. 3, len \in Lengths, ts \in Stamps : PeerMessage(c, f, len, ts)
  \/ \E c \in Streams : PeerContinues(c)
  \/ OnRead \/ HandleC0C1 \/ HandleC2
  \/ ReadBasic \/ ReadHeader \/ ReadF3First \/ ReadF3Next \/ ReadPayload
  \/ \E len \in Lengths : WriteMediaPacket(len)

Spec == Init /\ [][Next]_vars
-----------------------------------------------------------------------------
(* Properties *)

Kinds == {"none", "connect", "command", "data", "size", "window", "abort"}

\* Type invariant; a chunk stream that waits for a payload is the one whose basic
\* header was read, and no other is in the middle of a chunk.
TypeOK ==
  /\ here \in 0 .. Len(wire) /\ most \in {2, MaxWire + 5}
  /\ state \in {"init", "c2", "connect", "open"}
  /\ {busy, garbled, reckless, extended, fresh, resized} \subseteq BOOLEAN
  /\ cur \in [fmt : 0 .. 4, c : Csids]
  /\ \A c \in Csids :
       /\ cs_in[c].rem \in 0 .. cs_in[c].len /\ cs_in[c].kind \in Kinds
       /\ cs_in[c].mode = "payload" => cur # NoChunk /\ cur.c = c
       /\ peer[c].rem \in 0 .. peer[c].len /\ peer[c].kind \in Kinds
  /\ {max_chunk_size, psize, rsize} \subseteq Sizes \cup {DefaultSize, ServerSize}
  /\ window_size \in Windows \cup {DefaultWindow}
  /\ ack_recv \in Nat /\ \E n \in Windows \cup {DefaultWindow} : ack_recv <= n
  /\ begun \in 0 .. MaxMessages + 1 /\ Len(got) \in 0 .. MaxMessages

\* However the reads cut the wire, messages interleave and abort each other, and
\* chunk sizes change under way, the messages handled are those that were sent,
\* in their order and each of its own payload only.  Two kinds of peer are left
\* out: one that cuts by another size than the last one announced by either
\* side (128 bytes after the server has set 4096), and one that has the reader
\* guess whether an extended timestamp follows: see extended, at "The peer".
ReadsWhatWasSent ==
  ~reckless /\ ~extended =>
    /\ ~garbled
    /\ \A i \in 1 .. Len(got) : got[i].m = sent[i].m /\ got[i].pure

\* A message gets the time its sender gave it, unless its stream has had an
\* extended timestamp, or a type 3 header to begin a message that did not
\* directly follow a one-chunk message with a difference.
TimesAreRight ==
  ~reckless /\ ~extended =>
    \A i \in 1 .. Len(got) : sent[i].exact => got[i].time = sent[i].time

\* When the session waits for bytes and all that were sent have come, every
\* message that was sent has been handled: none is left in recv_buf until the
\* next one.  The exceptions are what came with c2, which waits for a further
\* read, and the peers that ReadsWhatWasSent leaves out: on a stream that has had
\* an extended timestamp, a message without one whose last chunk is shorter than
\* four bytes is left until more bytes come.
NothingLeftBehind ==
  ~busy /\ here = Len(wire) /\ ~fresh /\ ~reckless /\ ~extended => Len(got) = Len(sent)

\* The peer reads what the server writes, through every change of the chunk size
\* and choice of header, as long as it was told the size the server cuts with:
\* the size a peer announces for itself replaces it silently.
PeerUnderstands == out.misread => resized
=============================================================================
