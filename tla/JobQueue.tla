------------------------------ MODULE JobQueue ------------------------------
(***************************************************************************)
(* What async_handler promises to the classes built on it (WebsocketClient *)
(* and the vehicle detector): the jobs given to it are handled one at a    *)
(* time, each at most once and in the order they were added; once it is    *)
(* told to stop it begins at most one more job, and once it has stopped it *)
(* begins none.  Jobs still queued then are dropped.                       *)
(***************************************************************************)
EXTENDS Naturals, Sequences

CONSTANT Jobs

VARIABLES added,     \* every job accepted, in order
          handled,   \* every job whose handling ended, in order
          busy,      \* a job is being handled
          phase,     \* "open", then "closing" after stop, then "closed"
          grace      \* one more job may still begin after stop

vars == <<added, handled, busy, phase, grace>>

Init ==
  /\ added = <<>>
  /\ handled = <<>>
  /\ busy = FALSE
  /\ phase = "open"
  /\ grace = TRUE

Add(j) ==
  /\ phase = "open"
  /\ added' = Append(added, j)
  /\ UNCHANGED <<handled, busy, phase, grace>>

Begin ==
  /\ ~busy
  /\ Len(handled) < Len(added)
  /\ grace
  /\ busy' = TRUE
  /\ grace' = (phase = "open")
  /\ UNCHANGED <<added, handled, phase>>

End ==
  /\ busy
  /\ busy' = FALSE
  /\ handled' = Append(handled, added[Len(handled) + 1])
  /\ UNCHANGED <<added, phase, grace>>

\* The order to stop; whether one more job may begin depends on what the
\* handler had already decided.
Close ==
  /\ phase = "open"
  /\ phase' = "closing"
  /\ grace' \in BOOLEAN
  /\ UNCHANGED <<added, handled, busy>>

GiveUp ==
  /\ phase = "closing"
  /\ grace' = FALSE
  /\ UNCHANGED <<added, handled, busy, phase>>

Closed ==
  /\ phase = "closing"
  /\ ~busy
  /\ ~grace
  /\ phase' = "closed"
  /\ UNCHANGED <<added, handled, busy, grace>>

Next ==
  \/ \E j \in Jobs : Add(j)
  \/ Begin
  \/ End
  \/ Close
  \/ GiveUp
  \/ Closed

Spec == Init /\ [][Next]_vars
=============================================================================
