-------------------------- MODULE TcpSessionProofs --------------------------
(***************************************************************************)
(* Proofs about TcpSession for any number of messages and reads.  The      *)
(* queue holds the last calls of async_write, in order (QueueInv); the     *)
(* wire holds the others, and the front as well once its write is done     *)
(* (WireInv).  That a completion handler pops its own message is           *)
(* BufferIsFront.                                                          *)
(***************************************************************************)
EXTENDS TcpSession, TLAPS

QueueInv ==
  /\ Len(send_queue) <= asked
  /\ \A i \in 1 .. Len(send_queue) : send_queue[i] = (asked - Len(send_queue)) + i

Finished == \E m \in Messages : op[m] = "done"

WireInv ==
  /\ Len(wire) = (asked - Len(send_queue)) + (IF Finished THEN 1 ELSE 0)
  /\ \A i \in 1 .. Len(wire) : wire[i] = i

SocketInv ==
  /\ socket = "new" => asked = 0 /\ read = "none" /\ ~sending_
  /\ socket = "open" /\ sending_ => Outstanding # {}

\* The kernel has a write in hand only while the socket is open.
InflightInv == \A m \in Messages : op[m] = "inflight" => socket = "open"

IInv ==
  /\ TypeOK /\ BufferIsFront /\ NeverStuck
  /\ QueueInv /\ WireInv /\ SocketInv /\ InflightInv

-----------------------------------------------------------------------------

LEMMA AppendFacts ==
  ASSUME NEW S, NEW s \in Seq(S), NEW e \in S
  PROVE  /\ Append(s, e) \in Seq(S)
         /\ Len(Append(s, e)) = Len(s) + 1
         /\ \A i \in 1 .. Len(s) : Append(s, e)[i] = s[i]
         /\ Append(s, e)[Len(s) + 1] = e
         /\ Append(s, e) # <<>>
  OBVIOUS

LEMMA TailFacts ==
  ASSUME NEW S, NEW s \in Seq(S), s # <<>>
  PROVE  /\ Tail(s) \in Seq(S)
         /\ Len(Tail(s)) = Len(s) - 1
         /\ Len(s) > 0
         /\ \A i \in 1 .. Len(Tail(s)) : Tail(s)[i] = s[i + 1]
  OBVIOUS

\* A sequence that is not empty has a first element, of its type.
LEMMA FrontFacts ==
  ASSUME NEW S, NEW s \in Seq(S), s # <<>>
  PROVE  Len(s) > 0 /\ s[1] \in S /\ 1 \in 1 .. Len(s)
  OBVIOUS

LEMMA InitInvariant == Init => IInv
  <1> SUFFICES ASSUME Init PROVE IInv
    OBVIOUS
  <1>1. TypeOK
    <2>1. 0 \in 0 .. MaxMessages /\ 0 \in 0 .. MaxReads
      BY BoundsAssumption
    <2>2. send_queue \in Seq(Messages) /\ wire \in Seq(Messages)
      BY DEF Init
    <2> QED
      BY <2>1, <2>2 DEF Init, TypeOK, OpStates
  <1>2. /\ BufferIsFront /\ NeverStuck
        /\ QueueInv /\ WireInv /\ SocketInv /\ InflightInv
    BY DEF Init, BufferIsFront, Outstanding, NeverStuck, QueueInv, WireInv,
           Finished, SocketInv, InflightInv
  <1> QED
    BY <1>1, <1>2 DEF IInv

\* An operation that is under way is the only one.
LEMMA OnlyOne ==
  ASSUME BufferIsFront, NEW m \in Messages, op[m] # "none",
         NEW n \in Messages, op[n] # "none"
  PROVE  m = n
  BY DEF BufferIsFront, Outstanding

\* The write in hand is that of the message that follows those on the wire.
LEMMA InflightIsNext ==
  ASSUME IInv, NEW m \in Messages, op[m] = "inflight"
  PROVE  m = Len(wire) + 1 /\ m <= asked
  <1> USE DEF IInv
  <1>1. ~Finished
    BY OnlyOne DEF Finished
  <1>2. /\ Len(wire) \in Nat /\ Len(send_queue) \in Nat /\ asked \in Nat
        /\ Len(wire) = asked - Len(send_queue)
    BY <1>1 DEF WireInv, TypeOK
  <1>3. send_queue # <<>> /\ m = send_queue[1]
    BY DEF BufferIsFront, Outstanding
  <1>4. 1 \in 1 .. Len(send_queue)
    BY <1>3, FrontFacts DEF TypeOK
  <1> QED
    BY <1>2, <1>3, <1>4 DEF QueueInv

\* Nothing is under way before the socket opens.
LEMMA UnderWay ==
  ASSUME IInv, NEW m \in Messages, op[m] # "none"
  PROVE  socket # "new"
  <1> USE DEF IInv
  <1>1. send_queue # <<>>
    BY DEF BufferIsFront, Outstanding
  <1>2. Len(send_queue) > 0 /\ Len(send_queue) \in Nat
    BY <1>1, FrontFacts DEF TypeOK
  <1> QED
    BY <1>2 DEF QueueInv, SocketInv

-----------------------------------------------------------------------------
(* Each action preserves the invariant. *)

LEMMA AsyncWriteInvariant ==
  ASSUME IInv, AsyncWrite
  PROVE  IInv'
  <1> DEFINE q == Append(send_queue, asked')
  <1> USE DEF IInv
  <1>1. asked' = asked + 1 /\ asked' \in Messages /\ asked \in Nat
    BY BoundsAssumption DEF AsyncWrite, TypeOK, Messages
  <1>2. /\ q \in Seq(Messages)
        /\ Len(q) = Len(send_queue) + 1
        /\ \A i \in 1 .. Len(send_queue) : q[i] = send_queue[i]
        /\ q[Len(send_queue) + 1] = asked'
        /\ q # <<>>
    BY <1>1, AppendFacts DEF TypeOK
  <1> HIDE DEF q
  <1>3. DoWrite(q, sending_, op)
    BY DEF AsyncWrite, q
  <1>4. UNCHANGED <<socket, read, reads, wire, closes>> /\ socket # "new"
    BY DEF AsyncWrite
  <1>5. q[1] \in Messages /\ 1 \in 1 .. Len(q) /\ Len(send_queue) \in Nat
    BY <1>2, FrontFacts DEF TypeOK
  <1>6. TypeOK'
    <2>1. asked' \in 0 .. MaxMessages
      BY <1>1 DEF Messages
    <2>2. op' \in [Messages -> OpStates]
      BY <1>3, <1>5 DEF DoWrite, TypeOK, OpStates
    <2> QED
      BY <1>2, <1>3, <1>4, <2>1, <2>2 DEF DoWrite, TypeOK
  <1>7. send_queue # <<>> => q[1] = send_queue[1]
    BY <1>2, FrontFacts DEF TypeOK
  <1>8. QueueInv'
    <2>1. asked' - Len(q) = asked - Len(send_queue)
      BY <1>1, <1>2, <1>5
    <2>2. ASSUME NEW i \in 1 .. Len(q)
          PROVE  q[i] = (asked' - Len(q)) + i
      <3>1. CASE i \in 1 .. Len(send_queue)
        BY <1>2, <2>1, <3>1 DEF QueueInv
      <3>2. CASE i = Len(send_queue) + 1
        BY <1>1, <1>2, <1>5, <2>1, <3>2
      <3> QED
        BY <1>2, <1>5, <3>1, <3>2
    <2>3. Len(q) <= asked'
      BY <1>1, <1>2, <1>5 DEF QueueInv
    <2> QED
      BY <1>3, <2>2, <2>3 DEF DoWrite, QueueInv
  <1>9. Finished' <=> Finished
    BY <1>3, <1>5 DEF DoWrite, Starts, Finished, BufferIsFront, Outstanding, TypeOK
  <1>10. WireInv'
    <2>1. asked' - Len(send_queue') = asked - Len(send_queue)
      BY <1>1, <1>2, <1>3, <1>5 DEF DoWrite
    <2> QED
      BY <1>4, <1>9, <2>1 DEF WireInv
  <1>11. BufferIsFront'
    <2> SUFFICES ASSUME NEW m \in Messages, op'[m] # "none"
                 PROVE  send_queue' # <<>> /\ m = send_queue'[1] /\ sending_'
      BY DEF BufferIsFront, Outstanding
    <2>1. CASE op[m] # "none"
      BY <1>2, <1>3, <1>7, <2>1 DEF DoWrite, BufferIsFront, Outstanding
    <2>2. CASE op[m] = "none"
      BY <1>2, <1>3, <1>5, <2>2 DEF DoWrite, Starts, TypeOK
    <2> QED
      BY <2>1, <2>2
  <1>12. NeverStuck' /\ SocketInv'
    <2>1. socket = "open" => Starts(q, sending_) \/ sending_
      BY <1>2 DEF Starts, TypeOK
    <2>2. Starts(q, sending_) => op'[q[1]] = "inflight"
      BY <1>3, <1>5 DEF DoWrite, TypeOK
    <2>3. socket = "open" => \E m \in Messages : op'[m] # "none"
      <3>1. CASE Starts(q, sending_)
        BY <1>5, <2>2, <3>1
      <3>2. CASE ~Starts(q, sending_)
        BY <1>3, <2>1, <3>2 DEF DoWrite, SocketInv, Outstanding
      <3> QED
        BY <3>1, <3>2
    <2> QED
      BY <1>4, <2>3 DEF NeverStuck, SocketInv, Outstanding
  <1>13. InflightInv'
    BY <1>3, <1>4, <1>5 DEF DoWrite, Starts, InflightInv, TypeOK
  <1> QED
    BY <1>6, <1>8, <1>10, <1>11, <1>12, <1>13

LEMMA OnWrittenInvariant ==
  ASSUME IInv, NEW m \in Messages, OnWritten(m)
  PROVE  IInv'
  <1> DEFINE q == Tail(send_queue)
             ops == [op EXCEPT ![m] = "none"]
  <1> USE DEF IInv
  <1>1. op[m] = "done" /\ send_queue # <<>> /\ m = send_queue[1]
    BY DEF OnWritten, BufferIsFront, Outstanding
  <1>2. /\ q \in Seq(Messages)
        /\ Len(q) = Len(send_queue) - 1
        /\ Len(send_queue) > 0
        /\ \A i \in 1 .. Len(q) : q[i] = send_queue[i + 1]
    BY <1>1, TailFacts DEF TypeOK
  <1>3. \A n \in Messages : ops[n] = "none"
    BY <1>1, OnlyOne DEF TypeOK
  <1>4. ops \in [Messages -> OpStates]
    BY DEF TypeOK, OpStates
  <1>5. DoWrite(q, FALSE, ops)
    BY DEF OnWritten
  <1> HIDE DEF q, ops
  <1>6. UNCHANGED <<socket, asked, read, reads, wire, closes>>
    BY DEF OnWritten
  <1>7. q # <<>> => q[1] \in Messages
    BY <1>2, FrontFacts
  <1>8. Len(send_queue) \in Nat /\ Len(q) \in Nat /\ asked \in Nat
    BY <1>2 DEF TypeOK
  <1>9. TypeOK'
    <2>1. op' \in [Messages -> OpStates]
      BY <1>4, <1>5, <1>7 DEF DoWrite, Starts, OpStates
    <2>2. sending_' \in BOOLEAN
      BY <1>5 DEF DoWrite, Starts
    <2> QED
      BY <1>2, <1>5, <1>6, <2>1, <2>2 DEF DoWrite, TypeOK
  <1>10. QueueInv'
    <2>1. asked - Len(q) = (asked - Len(send_queue)) + 1
      BY <1>2, <1>8
    <2>2. ASSUME NEW i \in 1 .. Len(q)
          PROVE  q[i] = (asked - Len(q)) + i
      <3>1. i + 1 \in 1 .. Len(send_queue) /\ i \in Nat
        BY <1>2, <1>8
      <3>2. q[i] = (asked - Len(send_queue)) + (i + 1)
        BY <1>2, <3>1 DEF QueueInv
      <3> QED
        BY <1>8, <2>1, <3>1, <3>2
    <2>3. Len(q) <= asked
      BY <1>2, <1>8 DEF QueueInv
    <2> QED
      BY <1>5, <1>6, <2>2, <2>3 DEF DoWrite, QueueInv
  <1>11. WireInv'
    <2>1. ~Finished'
      BY <1>3, <1>4, <1>5, <1>7 DEF DoWrite, Starts, Finished, OpStates
    <2>2. Finished
      BY <1>1 DEF Finished
    <2>3. Len(wire) = (asked - Len(q)) + 0
      BY <1>2, <1>8, <2>2 DEF WireInv
    <2> QED
      BY <1>5, <1>6, <2>1, <2>3 DEF DoWrite, WireInv
  <1>12. BufferIsFront'
    BY <1>3, <1>4, <1>5, <1>7 DEF DoWrite, Starts, BufferIsFront, Outstanding
  <1>13. NeverStuck' /\ SocketInv'
    <2>1. Starts(q, FALSE) => op'[q[1]] = "inflight" /\ q[1] \in Messages
      BY <1>4, <1>5, <1>7 DEF DoWrite, Starts
    <2>2. socket # "new"
      BY <1>1, <1>2, <1>8 DEF SocketInv, QueueInv
    <2>3. socket = "open" /\ q # <<>> => Starts(q, FALSE)
      BY DEF Starts
    <2> QED
      BY <1>5, <1>6, <2>1, <2>2, <2>3 DEF DoWrite, NeverStuck, SocketInv, Outstanding
  <1>14. InflightInv'
    BY <1>3, <1>4, <1>5, <1>6, <1>7 DEF DoWrite, Starts, InflightInv
  <1> QED
    BY <1>9, <1>10, <1>11, <1>12, <1>13, <1>14

\* Closing keeps the operations apart and starts none.
LEMMA CloseInvariant ==
  ASSUME IInv, NEW ops \in [Messages -> OpStates], socket # "new",
         \A n \in Messages : ops[n] = op[n] \/ (op[n] = "failed" /\ ops[n] = "none"),
         Close(ops), read' \in OpStates,
         UNCHANGED <<asked, send_queue, sending_, reads, wire>>
  PROVE  IInv'
  <1> USE DEF IInv
  <1>1. op' \in [Messages -> OpStates]
    BY DEF Close, Aborted, OpStates
  <1>2. TypeOK'
    BY <1>1 DEF Close, TypeOK
  <1>3. \A n \in Messages : /\ op'[n] # "none" => op[n] # "none"
                            /\ op'[n] = "done" <=> op[n] = "done"
    BY DEF Close, Aborted
  <1>4. QueueInv' /\ BufferIsFront'
    BY <1>3 DEF QueueInv, BufferIsFront, Outstanding
  <1>5. WireInv'
    <2>1. Finished' <=> Finished
      BY <1>3 DEF Finished
    <2> QED
      BY <2>1 DEF WireInv
  <1>6. NeverStuck' /\ SocketInv'
    BY DEF Close, NeverStuck, SocketInv
  <1>7. InflightInv'
    BY DEF Close, Aborted, InflightInv
  <1> QED
    BY <1>2, <1>4, <1>5, <1>6, <1>7

\* The steps of the network: a write in flight ends, a read ends.
LEMMA WriteDoneInvariant ==
  ASSUME IInv, NEW m \in Messages, WriteDone(m)
  PROVE  IInv'
  <1> USE DEF IInv
  <1>1. /\ op[m] = "inflight"
        /\ op' = [op EXCEPT ![m] = "done"]
        /\ wire' = Append(wire, m)
        /\ UNCHANGED <<socket, asked, send_queue, sending_, read, reads, closes>>
    BY DEF WriteDone
  <1>2. /\ wire' \in Seq(Messages)
        /\ Len(wire') = Len(wire) + 1
        /\ \A i \in 1 .. Len(wire) : wire'[i] = wire[i]
        /\ wire'[Len(wire) + 1] = m
    BY <1>1, AppendFacts DEF TypeOK
  <1>3. \A n \in Messages : op'[n] = IF n = m THEN "done" ELSE op[n]
    BY <1>1 DEF TypeOK
  <1>4. TypeOK'
    BY <1>1, <1>2 DEF TypeOK, OpStates
  <1>5. QueueInv' /\ BufferIsFront' /\ NeverStuck' /\ SocketInv' /\ InflightInv'
    BY <1>1, <1>3 DEF QueueInv, BufferIsFront, NeverStuck, SocketInv, InflightInv,
                      Outstanding
  <1>6. WireInv'
    <2>1. ~Finished
      BY <1>1, OnlyOne DEF Finished
    <2>2. Finished'
      BY <1>3 DEF Finished
    <2>3. /\ Len(wire) \in Nat /\ Len(send_queue) \in Nat /\ asked \in Nat
          /\ Len(wire) = asked - Len(send_queue)
      BY <2>1 DEF WireInv, TypeOK
    <2>4. m = Len(wire) + 1
      BY <1>1, InflightIsNext
    <2>5. \A i \in 1 .. Len(wire') : wire'[i] = i
      BY <1>2, <2>3, <2>4 DEF WireInv
    <2> QED
      BY <1>1, <1>2, <2>2, <2>3, <2>5 DEF WireInv
  <1> QED
    BY <1>4, <1>5, <1>6

LEMMA WriteFailsInvariant ==
  ASSUME IInv, NEW m \in Messages, WriteFails(m)
  PROVE  IInv'
  <1> USE DEF IInv
  <1>1. /\ op[m] = "inflight"
        /\ op' = [op EXCEPT ![m] = "failed"]
        /\ UNCHANGED <<socket, asked, send_queue, sending_, read, reads, wire, closes>>
    BY DEF WriteFails
  <1>2. \A n \in Messages : op'[n] = IF n = m THEN "failed" ELSE op[n]
    BY <1>1 DEF TypeOK
  <1>3. TypeOK'
    BY <1>1 DEF TypeOK, OpStates
  <1>4. Finished' <=> Finished
    BY <1>1, <1>2 DEF Finished
  <1>5. /\ QueueInv' /\ BufferIsFront' /\ NeverStuck'
        /\ SocketInv' /\ WireInv' /\ InflightInv'
    BY <1>1, <1>2, <1>4 DEF QueueInv, BufferIsFront, NeverStuck, SocketInv,
                            WireInv, InflightInv, Outstanding
  <1> QED
    BY <1>3, <1>5

\* The reads, and what opens and closes the connection.
LEMMA ReadInvariant ==
  ASSUME IInv, OnConnect \/ OnRead \/ OnReadError \/ ReadDone \/ ReadFails
  PROVE  IInv'
  <1> USE DEF IInv
  <1>1. CASE OnConnect
    BY <1>1 DEF OnConnect, TypeOK, OpStates, BufferIsFront, NeverStuck, QueueInv,
                WireInv, Finished, SocketInv, InflightInv, Outstanding
  <1>2. CASE ReadDone \/ ReadFails \/ (OnRead /\ UNCHANGED <<socket, op, closes>>)
    BY <1>2, BoundsAssumption
       DEF ReadDone, ReadFails, OnRead, TypeOK, OpStates, BufferIsFront,
           NeverStuck, QueueInv, WireInv, Finished, SocketInv, InflightInv,
           Outstanding
  <1>3. CASE OnReadError \/ (OnRead /\ Close(op) /\ read' = "none")
    <2>1. socket # "new"
      BY <1>3 DEF OnRead, OnReadError, SocketInv
    <2>2. op \in [Messages -> OpStates] /\ "none" \in OpStates
      BY DEF TypeOK, OpStates
    <2> QED
      BY <1>3, <2>1, <2>2, CloseInvariant DEF OnRead, OnReadError
  <1> QED
    BY <1>1, <1>2, <1>3 DEF OnRead

LEMMA NextInvariant == IInv /\ [Next]_vars => IInv'
  <1> SUFFICES ASSUME IInv, [Next]_vars PROVE IInv'
    OBVIOUS
  <1>1. ASSUME NEW m \in Messages, OnWriteError(m) PROVE IInv'
    <2>1. [op EXCEPT ![m] = "none"] \in [Messages -> OpStates]
      BY DEF IInv, TypeOK, OpStates
    <2>2. socket # "new"
      BY <1>1, UnderWay DEF OnWriteError
    <2>3. read' \in OpStates
      BY <1>1 DEF OnWriteError, Aborted, IInv, TypeOK, OpStates
    <2>4. \A n \in Messages :
            LET ops == [op EXCEPT ![m] = "none"]
            IN  ops[n] = op[n] \/ (op[n] = "failed" /\ ops[n] = "none")
      BY <1>1 DEF OnWriteError, IInv, TypeOK
    <2> QED
      BY <1>1, <2>1, <2>2, <2>3, <2>4, CloseInvariant DEF OnWriteError
  <1>2. CASE UNCHANGED vars
    BY <1>2 DEF vars, IInv, TypeOK, BufferIsFront, NeverStuck, QueueInv, WireInv,
                Finished, SocketInv, InflightInv, Outstanding
  <1> QED
    BY <1>1, <1>2, AsyncWriteInvariant, OnWrittenInvariant, WriteDoneInvariant,
       WriteFailsInvariant, ReadInvariant
       DEF Next

\* The inductive invariant holds in every reachable state.
THEOREM Invariance == Spec => []IInv
  BY InitInvariant, NextInvariant, PTL DEF Spec

\* on_close runs once, and the rest of TypeOK.
THEOREM TypeCorrect == Spec => []TypeOK
  BY Invariance, PTL DEF IInv

\* The one write asio knows of is that of the front of the queue.
THEOREM BuffersLive == Spec => []BufferIsFront
  BY Invariance, PTL DEF IInv

\* The peer gets the messages in the order of the calls, whole and once.
THEOREM InOrder == Spec => []WireInOrder
  <1>1. IInv => WireInOrder
    <2> SUFFICES ASSUME IInv PROVE Len(wire) <= asked
      BY DEF IInv, WireInv, WireInOrder
    <2>1. Len(wire) \in Nat /\ Len(send_queue) \in Nat /\ asked \in Nat
      BY DEF IInv, TypeOK
    <2>2. Finished => Len(send_queue) > 0
      BY FrontFacts DEF IInv, Finished, BufferIsFront, Outstanding, TypeOK
    <2> QED
      BY <2>1, <2>2 DEF IInv, WireInv
  <1> QED
    BY <1>1, Invariance, PTL

\* No message waits on an open socket without a write to take it on.
THEOREM NotStuck == Spec => []NeverStuck
  BY Invariance, PTL DEF IInv

-----------------------------------------------------------------------------
(* Each action is a step of Channel, or changes nothing of it. *)

PeerStep == [Peer!Next]_(Peer!vars)

LEMMA WriteDoneImplements ==
  ASSUME IInv, NEW m \in Messages, WriteDone(m)
  PROVE  PeerStep
  <1>1. op[m] = "inflight" /\ wire' = Append(wire, m) /\ UNCHANGED <<asked, socket>>
    BY DEF WriteDone
  <1>2. m = Len(wire) + 1 /\ m <= asked
    BY <1>1, InflightIsNext
  <1>3. socket = "open"
    BY <1>1 DEF IInv, InflightInv
  <1>4. Len(wire) < asked
    BY <1>2 DEF IInv, TypeOK
  <1>5. Peer!Deliver
    BY <1>1, <1>2, <1>3, <1>4 DEF Peer!Deliver
  <1> QED
    BY <1>5 DEF PeerStep, Peer!Next

\* A socket closes once, and not before it was open.
LEMMA CloseImplements ==
  ASSUME IInv, socket # "new", socket' = "closed", UNCHANGED <<asked, wire>>
  PROVE  PeerStep
  <1>1. CASE socket = "open"
    BY <1>1 DEF Peer!Close, PeerStep, Peer!Next
  <1>2. CASE socket = "closed"
    BY <1>2 DEF PeerStep, Peer!vars
  <1> QED
    BY <1>1, <1>2 DEF IInv, TypeOK

LEMMA NextImplements == IInv /\ [Next]_vars => PeerStep
  <1> SUFFICES ASSUME IInv, [Next]_vars PROVE PeerStep
    OBVIOUS
  <1>1. CASE OnConnect
    BY <1>1 DEF OnConnect, Peer!Open, PeerStep, Peer!Next
  <1>2. CASE AsyncWrite
    BY <1>2 DEF AsyncWrite, Peer!Give, PeerStep, Peer!Next
  <1>3. CASE OnRead \/ OnReadError
    <2>1. socket # "new"
      BY <1>3 DEF OnRead, OnReadError, IInv, SocketInv
    <2>2. UNCHANGED <<asked, wire>> /\ (UNCHANGED socket \/ socket' = "closed")
      BY <1>3 DEF OnRead, OnReadError, Close
    <2> QED
      BY <2>1, <2>2, CloseImplements DEF PeerStep, Peer!vars
  <1>4. CASE ReadDone \/ ReadFails
    BY <1>4 DEF ReadDone, ReadFails, PeerStep, Peer!vars
  <1>5. ASSUME NEW m \in Messages, OnWriteError(m) PROVE PeerStep
    BY <1>5, UnderWay, CloseImplements DEF OnWriteError, Close
  <1>6. ASSUME NEW m \in Messages, OnWritten(m) \/ WriteFails(m) PROVE PeerStep
    BY <1>6 DEF OnWritten, WriteFails, PeerStep, Peer!vars
  <1>7. CASE UNCHANGED vars
    BY <1>7 DEF vars, PeerStep, Peer!vars
  <1> QED
    BY <1>1, <1>2, <1>3, <1>4, <1>5, <1>6, <1>7, WriteDoneImplements DEF Next

\* tcp_session implements Channel: the messages are delivered in the order they
\* were given, each once and none after the close, whatever completes when.
THEOREM Implementation == Spec => ImplementsChannel
  <1>1. Init => Peer!Init
    BY DEF Init, Peer!Init
  <1> QED
    BY <1>1, NextImplements, Invariance, PTL
       DEF Spec, ImplementsChannel, Peer!Spec, PeerStep

=============================================================================
