------------------------------- MODULE Channel -------------------------------
(***************************************************************************)
(* What tcp_session promises to those who write to it: messages may be     *)
(* given to it from the moment it is open, also when it has closed; they   *)
(* are delivered in the order they were given, none is left out and none   *)
(* delivered twice, and none is delivered once the channel is closed.  It  *)
(* opens once and closes once.  Messages are numbered as they are given.   *)
(***************************************************************************)
EXTENDS Naturals, Sequences

VARIABLES given,      \* messages so far
          delivered,  \* to the peer, in full
          phase       \* "new", then "open", then "closed"

vars == <<given, delivered, phase>>

Init ==
  /\ given = 0
  /\ delivered = <<>>
  /\ phase = "new"

Open ==
  /\ phase = "new"
  /\ phase' = "open"
  /\ UNCHANGED <<given, delivered>>

Give ==
  /\ phase # "new"
  /\ given' = given + 1
  /\ UNCHANGED <<delivered, phase>>

Deliver ==
  /\ phase = "open"
  /\ Len(delivered) < given
  /\ delivered' = Append(delivered, Len(delivered) + 1)
  /\ UNCHANGED <<given, phase>>

Close ==
  /\ phase = "open"
  /\ phase' = "closed"
  /\ UNCHANGED <<given, delivered>>

Next == Open \/ Give \/ Deliver \/ Close

Spec == Init /\ [][Next]_vars
=============================================================================
