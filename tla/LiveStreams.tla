------------------------------ MODULE LiveStreams ------------------------------
(***************************************************************************)
(* What the streams of a server promise to those who are in them.  One     *)
(* member of a stream at most is its publisher, and it stays so until it   *)
(* leaves; the others come and go one by one, whoever publishes, and when  *)
(* the publisher leaves they are all told, at once, that the stream has    *)
(* ended.  They stay for the next publisher.  A stream may be discarded as *)
(* a whole.  Whatever happens to one stream changes nothing in another.    *)
(***************************************************************************)
CONSTANTS Names, Members, Nobody

VARIABLES publisher,   \* the member that publishes each stream, or Nobody
          players,     \* its other members
          ended        \* those whose last news was the end of the stream

vars == <<publisher, players, ended>>

Init ==
  /\ publisher = [n \in Names |-> Nobody]
  /\ players = [n \in Names |-> {}]
  /\ ended = [n \in Names |-> {}]

Publish(n, m) ==
  /\ publisher[n] = Nobody
  /\ publisher' = [publisher EXCEPT ![n] = m]
  /\ UNCHANGED <<players, ended>>

Play(n, m) ==
  /\ m \notin players[n]
  /\ players' = [players EXCEPT ![n] = @ \cup {m}]
  /\ UNCHANGED <<publisher, ended>>

Leave(n, m) ==
  /\ m \in players[n]
  /\ players' = [players EXCEPT ![n] = @ \ {m}]
  /\ ended' = [ended EXCEPT ![n] = @ \ {m}]
  /\ UNCHANGED publisher

End(n) ==
  /\ publisher[n] # Nobody
  /\ publisher' = [publisher EXCEPT ![n] = Nobody]
  /\ ended' = [ended EXCEPT ![n] = players[n]]
  /\ UNCHANGED players

\* The packets of the next publisher.
Resume(n) ==
  /\ publisher[n] # Nobody
  /\ ended' = [ended EXCEPT ![n] = {}]
  /\ UNCHANGED <<publisher, players>>

Discard(n) ==
  /\ publisher' = [publisher EXCEPT ![n] = Nobody]
  /\ players' = [players EXCEPT ![n] = {}]
  /\ ended' = [ended EXCEPT ![n] = {}]

Next ==
  \E n \in Names :
    \/ \E m \in Members : Publish(n, m) \/ Play(n, m) \/ Leave(n, m)
    \/ End(n) \/ Resume(n) \/ Discard(n)

Spec == Init /\ [][Next]_vars
=============================================================================
