----------------------------- MODULE TcpSession -----------------------------
(***************************************************************************)
(* tcp_session: one connection, its queue of messages to send and its      *)
(* reads.  The handlers run one at a time on the thread of the io_context; *)
(* what they start (a read, a write) ends some time later, and its         *)
(* completion handler then waits for its turn.  So a write that the kernel *)
(* has finished may complete after the socket was closed, and a close ends *)
(* the operations in flight with an error that is delivered later.         *)
(*                                                                         *)
(* A message is its number in the order of the calls of async_write, which *)
(* all flush.  Variant marks a definition with a plausible mistake, used   *)
(* by no action.                                                           *)
(***************************************************************************)
EXTENDS Naturals, Sequences

CONSTANTS
  MaxMessages,   \* bound on the calls of async_write
  MaxReads       \* bound on the reads that return data

ASSUME BoundsAssumption == MaxMessages \in Nat /\ MaxReads \in Nat

Messages == 1 .. MaxMessages

VARIABLES
  socket,     \* "new" until on_connect, then "open", then "closed"
  asked,      \* calls of async_write so far
  send_queue,
  sending_,
  op,         \* asio: the state of the write of each message
  read,       \* asio: the state of the read operation
  reads,      \* reads that returned data so far
  wire,       \* what the peer was sent in full
  closes      \* calls of on_close

vars == <<socket, asked, send_queue, sending_, op, read, reads, wire, closes>>

OpStates == {"none", "inflight", "done", "failed"}

Init ==
  /\ socket = "new"
  /\ asked = 0
  /\ send_queue = <<>>
  /\ sending_ = FALSE
  /\ op = [m \in Messages |-> "none"]
  /\ read = "none"
  /\ reads = 0
  /\ wire = <<>>
  /\ closes = 0

-----------------------------------------------------------------------------
(* The parts handlers are made of: q and busy are the queue and sending_    *)
(* when the part is reached, ops the operations under way.                  *)

\* Variant: do_write does not ask whether the socket is open.
StartsClosed(q, busy) == q # <<>> /\ ~busy

\* do_write starts the write of the front, unless one is under way.
Starts(q, busy) == socket = "open" /\ q # <<>> /\ ~busy

\* Variant: the message is popped when its write starts.
DoWritePops(q, busy, ops) ==
  /\ send_queue' = IF Starts(q, busy) THEN Tail(q) ELSE q
  /\ sending_' = (busy \/ Starts(q, busy))
  /\ op' = IF Starts(q, busy) THEN [ops EXCEPT ![q[1]] = "inflight"] ELSE ops

DoWrite(q, busy, ops) ==
  /\ send_queue' = q
  /\ sending_' = (busy \/ Starts(q, busy))
  /\ op' = IF Starts(q, busy) THEN [ops EXCEPT ![q[1]] = "inflight"] ELSE ops

\* An operation in flight when the socket is closed completes with an error.
Aborted(o) == IF o = "inflight" THEN "failed" ELSE o

\* Variant: close does not ask whether the socket is open.
CloseAgain(ops) ==
  /\ socket' = "closed"
  /\ closes' = closes + 1
  /\ op' = [m \in Messages |-> Aborted(ops[m])]

\* A closed socket stays as it is; else on_close is called.
Close(ops) ==
  /\ socket' = "closed"
  /\ closes' = IF socket = "closed" THEN closes ELSE closes + 1
  /\ op' = [m \in Messages |-> Aborted(ops[m])]

-----------------------------------------------------------------------------
(* Handlers *)

OnConnect ==
  /\ socket = "new"
  /\ socket' = "open"
  /\ read' = "inflight"
  /\ UNCHANGED <<asked, send_queue, sending_, op, reads, wire, closes>>

\* async_write, called by a handler of this session or of another one; the
\* socket may be closed already, and the message stays in the queue then.
AsyncWrite ==
  /\ socket # "new"
  /\ asked < MaxMessages
  /\ asked' = asked + 1
  /\ DoWrite(Append(send_queue, asked'), sending_, op)
  /\ UNCHANGED <<socket, read, reads, wire, closes>>

\* on_read: the session reads on, or has read something it closes for.  (What
\* it writes in answer are separate calls of async_write.)
OnRead ==
  /\ read = "done"
  /\ \/ /\ socket = "open"
        /\ read' = "inflight"
        /\ UNCHANGED <<socket, op, closes>>
     \/ /\ read' = "none"
        /\ Close(op)
  /\ UNCHANGED <<asked, send_queue, sending_, reads, wire>>

OnReadError ==
  /\ read = "failed"
  /\ read' = "none"
  /\ Close(op)
  /\ UNCHANGED <<asked, send_queue, sending_, reads, wire>>

\* Variant: the completion handler does not go on with the queue.
OnWrittenStops(m) ==
  /\ op[m] = "done"
  /\ send_queue' = Tail(send_queue)
  /\ sending_' = FALSE
  /\ op' = [op EXCEPT ![m] = "none"]
  /\ UNCHANGED <<socket, asked, read, reads, wire, closes>>

OnWritten(m) ==
  /\ op[m] = "done"
  /\ DoWrite(Tail(send_queue), FALSE, [op EXCEPT ![m] = "none"])
  /\ UNCHANGED <<socket, asked, read, reads, wire, closes>>

\* Neither the queue nor sending_ is reset: nothing is written any more.
OnWriteError(m) ==
  /\ op[m] = "failed"
  /\ Close([op EXCEPT ![m] = "none"])
  /\ read' = Aborted(read)
  /\ UNCHANGED <<asked, send_queue, sending_, reads, wire>>

-----------------------------------------------------------------------------
(* The network *)

WriteDone(m) ==
  /\ op[m] = "inflight"
  /\ op' = [op EXCEPT ![m] = "done"]
  /\ wire' = Append(wire, m)
  /\ UNCHANGED <<socket, asked, send_queue, sending_, read, reads, closes>>

WriteFails(m) ==
  /\ op[m] = "inflight"
  /\ op' = [op EXCEPT ![m] = "failed"]
  /\ UNCHANGED <<socket, asked, send_queue, sending_, read, reads, wire, closes>>

ReadDone ==
  /\ read = "inflight"
  /\ reads < MaxReads
  /\ read' = "done"
  /\ reads' = reads + 1
  /\ UNCHANGED <<socket, asked, send_queue, sending_, op, wire, closes>>

\* The peer closes, or the connection breaks.
ReadFails ==
  /\ read = "inflight"
  /\ read' = "failed"
  /\ UNCHANGED <<socket, asked, send_queue, sending_, op, reads, wire, closes>>

-----------------------------------------------------------------------------

Next ==
  \/ OnConnect \/ AsyncWrite \/ OnRead \/ OnReadError \/ ReadDone \/ ReadFails
  \/ \E m \in Messages :
       OnWritten(m) \/ OnWriteError(m) \/ WriteDone(m) \/ WriteFails(m)

(***************************************************************************)
(* The io_context runs every handler that is ready, and a write in flight  *)
(* ends, well or badly.  A peer need not send anything.                    *)
(***************************************************************************)
Fairness ==
  /\ \A m \in Messages :
       /\ WF_vars(OnWritten(m))
       /\ WF_vars(OnWriteError(m))
       /\ WF_vars(WriteDone(m) \/ WriteFails(m))

Spec == Init /\ [][Next]_vars
FairSpec == Spec /\ Fairness

-----------------------------------------------------------------------------
(* Properties *)

\* Type invariant; on_close ran exactly once for a closed socket.
TypeOK ==
  /\ socket \in {"new", "open", "closed"}
  /\ asked \in 0 .. MaxMessages
  /\ send_queue \in Seq(Messages)
  /\ sending_ \in BOOLEAN
  /\ op \in [Messages -> OpStates]
  /\ read \in OpStates
  /\ reads \in 0 .. MaxReads
  /\ wire \in Seq(Messages)
  /\ closes = IF socket = "closed" THEN 1 ELSE 0

Outstanding == {m \in Messages : op[m] # "none"}

\* The buffer of a write that asio still knows of is the front of the queue,
\* which is what keeps it alive, and there is one such write at most.
BufferIsFront ==
  \A m \in Outstanding : send_queue # <<>> /\ m = send_queue[1] /\ sending_

\* The peer gets the messages whole and in the order they were given to
\* async_write, none skipped and none sent twice, until the connection breaks.
WireInOrder ==
  /\ \A i \in 1 .. Len(wire) : wire[i] = i
  /\ Len(wire) <= asked

\* On an open socket a message never waits in the queue without a write under
\* way whose completion will take it on.
NeverStuck ==
  socket = "open" /\ send_queue # <<>> =>
    \E m \in Messages : op[m] # "none"

\* Every message is sent in the end, unless the connection closes.
EveryMessageSent ==
  \A n \in Messages : asked >= n ~> (Len(wire) >= n \/ socket = "closed")

-----------------------------------------------------------------------------
(* The refinement *)

Peer == INSTANCE Channel WITH
  given <- asked,
  delivered <- wire,
  phase <- socket

\* tcp_session keeps its promise to those who write to it, however completions,
\* errors and closes cross: each write delivers the message that is next, and none
\* that begins, or was under way, when the socket is closed delivers anything.
ImplementsChannel == Peer!Spec
=============================================================================
