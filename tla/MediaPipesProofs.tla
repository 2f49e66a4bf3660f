-------------------------- MODULE MediaPipesProofs --------------------------
(***************************************************************************)
(* Proofs about MediaPipes for any clients and any bounds.  While no two   *)
(* requests were changing a service at the same time, one worker at most   *)
(* is busy with it (Alone), so each step of that worker knows what the     *)
(* steps before it left (PhaseInv).  Frames and rectangles follow from that:     *)
(* only a recorder that has just been made is not written yet (FrameInv),  *)
(* and only the detector in the entry has destinations (DetectInv).  That  *)
(* objects are numbered within their bound is a count of the requests that *)
(* may still make one (CountInv).                                          *)
(***************************************************************************)
EXTENDS MediaPipes, FiniteSetTheorems, TLAPS

Steps == {"idle", "test", "make", "pipe", "header", "insert", "remove", "erase", "count", "change"}
Ops == {"get", "on", "off"}

Typed ==
  /\ pipes \in Nat /\ pipe \in 0 .. pipes
  /\ made \in 0 .. MaxRequests /\ requests \in 0 .. MaxRequests
  /\ reg \in [Services -> SUBSET (1 .. made)]
  /\ entry \in [Services -> 0 .. made]
  /\ streams \in 0 .. MaxStreams /\ shot \in Nat
  /\ header \in [Pipes -> 0 .. shot]
  /\ frames \in [Objects -> Seq(Nat)]
  /\ dsts \in [Objects -> SUBSET Clients]
  /\ job \in 0 .. made /\ todo \subseteq Clients
  /\ pc \in [Clients -> Steps]
  /\ req \in [Clients -> [s : Services, op : Ops]]
  /\ hold \in [Clients -> Nat] /\ obj \in [Clients -> 0 .. made]
  /\ muted \subseteq Clients /\ overlap \subseteq Services /\ gone \subseteq OnPipe

\* A pipe is made for a publication, or for a worker before the next one.
BoundInv ==
  /\ ~published /\ pipe = 0 => pipes <= streams
  /\ published /\ pipe = 0 => pipes + 1 <= streams
  /\ ~published /\ pipe # 0 => pipes <= streams + 1
  /\ published /\ pipe # 0 => pipes <= streams

\* The requests that may still make an object.
Makers == {w \in Clients : pc[w] \in {"test", "make"}}

CountInv == IsFiniteSet(Makers) /\ made + Cardinality(Makers) <= requests

\* What a worker does is what its request asks for, with a pipe that was made.
StepInv ==
  \A w \in Clients :
    /\ pc[w] = "make" => req[w].op # "get" /\ (req[w].s = "detect" \/ On(w))
    /\ pc[w] = "pipe" => req[w].s \in OnPipe /\ req[w].op # "get"
    /\ pc[w] = "header" => req[w].s \in OnPipe
    /\ pc[w] \in {"header", "insert"} => req[w].op # "get" /\ (req[w].s = "detect" \/ On(w))
    /\ pc[w] \in {"remove", "erase"} => req[w].s # "detect" /\ req[w].op = "off"
    /\ pc[w] \in {"count", "change"} => req[w].s = "detect" /\ req[w].op # "get"
    /\ pc[w] \in {"header", "insert", "remove"} /\ req[w].s \in OnPipe => hold[w] \in 1 .. pipes

PipeInv ==
  /\ pipe = 0 => \A s \in OnPipe : reg[s] = {}
  /\ todo # {} => job # 0

-----------------------------------------------------------------------------

Busy(w, s) == pc[w] \in ChangeSteps /\ req[w].s = s

\* A request for s is in progress, and changes it or does not.
Asking(w, s) == pc[w] # "idle" /\ req[w].s = s

Alone ==
  \A s \in Services \ overlap : \A v, w \in Clients : Busy(v, s) /\ Busy(w, s) => v = w

\* What is true of service s while no request is changing it.
Settled(s) ==
  /\ reg[s] \subseteq {entry[s]}
  /\ s \notin gone /\ entry[s] # 0 => entry[s] \in reg[s]

Adds(w) == req[w].s = "detect" \/ On(w)

\* What is true of service s at the steps of worker w, the only one busy with it.
Phase(w, s) ==
  /\ pc[w] = "make" => entry[s] = 0 /\ reg[s] = {}
  /\ pc[w] = "pipe" /\ Adds(w) => entry[s] # 0 /\ reg[s] = {}
  /\ pc[w] \in {"header", "insert"} => entry[s] # 0 /\ reg[s] = {}
  /\ pc[w] \in {"header", "insert"} /\ s # "save" /\ hold[w] # pipe => s \in gone
  /\ pc[w] = "insert" /\ s # "save" => obj[w] = entry[s]
  /\ pc[w] = "pipe" /\ ~Adds(w) => Settled(s)
  /\ pc[w] = "remove" => Settled(s)
  /\ pc[w] = "remove" /\ s # "save" /\ hold[w] # pipe => reg[s] = {}
  /\ pc[w] = "erase" => reg[s] = {}

PhaseInv ==
  \A s \in Services \ overlap :
    /\ \A w \in Clients : Busy(w, s) => Phase(w, s)
    /\ (\A w \in Clients : ~Busy(w, s)) => Settled(s)

-----------------------------------------------------------------------------

Ordered(f) == \A i \in 1 .. Len(f) - 1 : f[i] < f[i + 1] /\ (i > 1 => f[i + 1] = f[i] + 1)

FrameInv ==
  /\ \A o \in Objects : /\ Len(frames[o]) > 0 => frames[o][Len(frames[o])] <= shot
                        /\ o > made => frames[o] = <<>>
  /\ "record" \notin overlap =>
       /\ \A o \in Objects : Ordered(frames[o])
       /\ \A o \in reg["record"] :
            Len(frames[o]) > 1 => frames[o][Len(frames[o])] = shot
       /\ \A w \in Clients : Busy(w, "record") =>
            /\ pc[w] = "header" \/ (pc[w] = "pipe" /\ Adds(w)) => frames[entry["record"]] = <<>>
            /\ pc[w] = "insert" => Len(frames[entry["record"]]) <= 1

DetectInv ==
  /\ todo # {} => todo \subseteq dsts[job]
  /\ \A w \in Clients : Asking(w, "detect") /\ On(w) => w \notin muted
  /\ "detect" \notin overlap =>
       \A o \in Objects : /\ dsts[o] \cap muted = {}
                          /\ o # entry["detect"] => dsts[o] = {}

IInv == Typed /\ BoundInv /\ CountInv /\ StepInv /\ PipeInv /\ Alone /\ PhaseInv /\ FrameInv /\ DetectInv

-----------------------------------------------------------------------------
(* The steps of a worker, in the parts that the invariants read *)

LEMMA GotoFacts ==
  ASSUME Typed, NEW w \in Clients, NEW step \in Steps, Goto(w, step)
  PROVE  /\ pc' \in [Clients -> Steps] /\ req' \in [Clients -> [s : Services, op : Ops]]
         /\ hold' \in [Clients -> Nat] /\ obj' \in [Clients -> 0 .. made]
         /\ pc' = [pc EXCEPT ![w] = step] /\ pc'[w] = step /\ requests' = requests
         /\ \A v \in Clients : v # w \/ step # "idle" =>
              req'[v] = req[v] /\ hold'[v] = hold[v] /\ obj'[v] = obj[v]
  <1>1. NoRequest \in [s : Services, op : Ops]
    BY DEF NoRequest, Services, Ops
  <1>2. 0 \in 0 .. made
    BY DEF Typed
  <1>3. /\ pc' \in [Clients -> Steps] /\ pc' = [pc EXCEPT ![w] = step] /\ pc'[w] = step
        /\ requests' = requests
    BY DEF Goto, Typed
  <1>4. /\ hold' \in [Clients -> Nat] /\ obj' \in [Clients -> 0 .. made]
        /\ req' \in [Clients -> [s : Services, op : Ops]]
    BY <1>1, <1>2 DEF Goto, Typed
  <1>5. \A v \in Clients : v # w \/ step # "idle" =>
          req'[v] = req[v] /\ hold'[v] = hold[v] /\ obj'[v] = obj[v]
    BY DEF Goto, Typed
  <1> QED
    BY <1>3, <1>4, <1>5

\* What Test decides.
LEMMA TestFacts ==
  ASSUME Typed, NEW w \in Clients, Test(w)
  PROVE  /\ pc[w] = "test"
         /\ UNCHANGED <<pipe, header, pipes, made, reg, entry, source, frames, detection>>
         /\ \/ Done(w) /\ (req[w].op = "get" \/ req[w].s # "detect")
            \/ /\ req[w].op # "get" /\ entry[req[w].s] = 0
               /\ req[w].s = "detect" \/ On(w)
               /\ Begin(w, "make")
            \/ /\ req[w].op # "get" /\ entry[req[w].s] # 0
               /\ \/ req[w].s = "detect" /\ UNCHANGED history /\ Goto(w, "count")
                  \/ req[w].s = "record" /\ req[w].op = "off" /\ Begin(w, "pipe")
                  \/ req[w].s = "save" /\ req[w].op = "off" /\ Begin(w, "remove")
  <1>1. req[w].s \in Services /\ req[w].op \in Ops
    BY DEF Typed
  <1>2. CASE req[w].op = "get"
    BY <1>2 DEF Test
  <1>3. CASE req[w].op # "get" /\ req[w].s = "detect"
    BY <1>3 DEF Test
  <1>4. CASE req[w].op # "get" /\ req[w].s # "detect" /\ On(w) # (entry[req[w].s] = 0)
    BY <1>4 DEF Test
  <1>5. CASE req[w].op # "get" /\ req[w].s # "detect" /\ On(w) = (entry[req[w].s] = 0)
    <2>1. /\ pc[w] = "test"
          /\ UNCHANGED <<pipe, header, pipes, made, reg, entry, source, frames, detection>>
          /\ Begin(w, IF On(w) THEN "make" ELSE IF req[w].s = "save" THEN "remove" ELSE "pipe")
      BY <1>5 DEF Test
    <2>2. CASE On(w)
      <3>1. entry[req[w].s] = 0
        BY <1>5, <2>2 DEF On
      <3>2. Begin(w, "make")
        BY <2>1, <2>2
      <3> QED
        BY <1>5, <2>1, <2>2, <3>1, <3>2
    <2>3. CASE ~On(w)
      <3>1. entry[req[w].s] # 0 /\ req[w].op = "off" /\ req[w].s \in {"record", "save"}
        BY <1>1, <1>5, <2>3 DEF On, Services, Ops
      <3> QED
        BY <1>5, <2>1, <2>3, <3>1
    <2> QED
      BY <2>2, <2>3
  <1> QED
    BY <1>2, <1>3, <1>4, <1>5

\* What the answer to a request leaves.
LEMMA DoneFacts ==
  ASSUME Typed, NEW w \in Clients, Done(w)
  PROVE  /\ Goto(w, "idle") /\ overlap' = overlap /\ gone' = gone
         /\ muted' = IF req[w] = [s |-> "detect", op |-> "off"] THEN muted \cup {w} ELSE muted
         /\ muted' \subseteq Clients
  BY DEF Done, Typed

\* What a request that goes on to change a service leaves.
LEMMA BeginFacts ==
  ASSUME Typed, NEW w \in Clients, NEW step \in Steps, Begin(w, step)
  PROVE  /\ Goto(w, step) /\ muted' = muted /\ gone' = gone
         /\ overlap' \subseteq Services /\ overlap \subseteq overlap'
         /\ \A s \in Services : s = req[w].s /\ s \notin overlap' => \A v \in Clients : ~Busy(v, s)
  BY DEF Begin, Typed, Changing, Busy

\* Where Test leads, and what it leaves of the history.
LEMMA TestGoes ==
  ASSUME Typed, NEW w \in Clients, Test(w)
  PROVE  /\ \E step \in Steps : Goto(w, step)
         /\ muted' \subseteq Clients /\ overlap' \subseteq Services
         /\ overlap \subseteq overlap' /\ gone' = gone
         /\ muted' = muted
  <1>1. CASE Done(w) /\ (req[w].op = "get" \/ req[w].s # "detect")
    <2>1. req[w] # [s |-> "detect", op |-> "off"]
      BY <1>1
    <2> QED
      BY <1>1, <2>1, DoneFacts DEF Typed, Steps
  <1>2. ASSUME NEW step \in Steps, Begin(w, step)
        PROVE  /\ Goto(w, step) /\ muted' = muted /\ gone' = gone
               /\ overlap' \subseteq Services /\ overlap \subseteq overlap'
    BY <1>2, BeginFacts
  <1>4. muted \subseteq Clients /\ "make" \in Steps /\ "pipe" \in Steps /\ "remove" \in Steps
    BY DEF Typed, Steps
  <1>3. CASE UNCHANGED history /\ Goto(w, "count")
    BY <1>3 DEF Typed, history, Steps
  <1> QED
    BY <1>1, <1>2, <1>3, <1>4, TestFacts

-----------------------------------------------------------------------------

LEMMA InitInvariant == Init => IInv
  <1> SUFFICES ASSUME Init PROVE IInv
    OBVIOUS
  <1>1. Typed
    <2>1. MaxRequests \in Nat /\ NoRequest \in [s : Services, op : Ops]
      BY BoundsAssumption DEF NoRequest, Services, Ops
    <2>2. header \in [Pipes -> 0 .. shot] /\ frames \in [Objects -> Seq(Nat)]
      BY DEF Init
    <2> QED
      BY <2>1, <2>2, BoundsAssumption DEF Init, Typed, Steps
  <1>2. BoundInv
    BY DEF Init, BoundInv
  <1>7. CountInv
    <2>1. Makers = {}
      BY DEF Init, Makers
    <2> QED
      BY <2>1, FS_EmptySet DEF Init, CountInv
  <1>3. StepInv /\ PipeInv /\ Alone
    BY DEF Init, StepInv, PipeInv, Alone, Busy, OnPipe, Services, ChangeSteps
  <1>4. PhaseInv
    BY DEF Init, PhaseInv, Busy, Settled, ChangeSteps
  <1>5. FrameInv
    <2>1. \A o \in Objects : frames[o] = <<>>
      BY DEF Init
    <2>2. Len(<<>>) = 0 /\ Ordered(<<>>)
      BY DEF Ordered
    <2> QED
      BY <2>1, <2>2 DEF Init, FrameInv, Busy, Services, ChangeSteps
  <1>6. DetectInv
    BY DEF Init, DetectInv, Asking
  <1> QED
    BY <1>1, <1>2, <1>3, <1>4, <1>5, <1>6, <1>7 DEF IInv

\* A request that may make an object has a number left for it.
LEMMA Room ==
  ASSUME Typed, CountInv, NEW w \in Clients, pc[w] = "make"
  PROVE  made + 1 \in 1 .. MaxRequests
  <1>1. w \in Makers
    BY DEF Makers
  <1>2. Cardinality(Makers) \in Nat /\ Cardinality(Makers) # 0
    BY <1>1, FS_CardinalityType, FS_EmptySet DEF CountInv
  <1> QED
    BY <1>2, BoundsAssumption DEF Typed, CountInv

LEMMA TypedStep ==
  ASSUME Typed, BoundInv, CountInv, StepInv, Next
  PROVE  Typed'
  <1>0. MaxRequests \in Nat /\ MaxStreams \in Nat
    BY BoundsAssumption
  <1>1. CASE Publish
    BY <1>0, <1>1 DEF Publish, Typed, workers, detection, history
  <1>2. CASE Leave
    <2>1. gone' \subseteq OnPipe /\ reg' \in [Services -> SUBSET (1 .. made)]
      BY <1>2 DEF Leave, Typed
    <2>2. header' \in [Pipes -> 0 .. shot]
      BY <1>2 DEF Leave, Typed
    <2> QED
      BY <1>2, <2>1, <2>2 DEF Leave, Typed, workers, detection
  <1>3. ASSUME NEW h \in BOOLEAN, NEW due \in BOOLEAN, Frame(h, due)
        PROVE  Typed'
    <2>1. pipes' \in Nat /\ pipe' \in 0 .. pipes'
      BY <1>3 DEF Frame, Pipe, Typed
    <2>2. shot' \in Nat /\ shot' = shot + 1 /\ 0 .. shot \subseteq 0 .. shot'
      BY <1>3 DEF Frame, Typed
    <2>5. header' \in [Pipes -> 0 .. shot']
      <3>1. shot + 1 \in 0 .. shot' /\ header \in [Pipes -> 0 .. shot']
        BY <2>2 DEF Typed
      <3> QED
        BY <1>3, <3>1 DEF Frame
    <2>3. frames' \in [Objects -> Seq(Nat)]
      <3>1. shot + 1 \in Nat
        BY DEF Typed
      <3> QED
        BY <1>3, <3>1 DEF Frame, Typed
    <2>4. job' \in 0 .. made
      BY <1>3 DEF Frame, Typed, Services
    <2> QED
      BY <1>3, <2>1, <2>2, <2>3, <2>4, <2>5 DEF Frame, Typed, workers, history
  <1>4. CASE DetectFails
    BY <1>4 DEF DetectFails, Typed, workers, history, source
  <1>9. CASE NotDecoded
    <2>1. pipes' \in Nat /\ pipe' \in 0 .. pipes'
      BY <1>9 DEF NotDecoded, Pipe, Typed
    <2> QED
      BY <1>9, <2>1 DEF NotDecoded, Typed, source, detection, workers, history
  <1>5. CASE Detect
    <2>1. todo' \subseteq Clients
      BY <1>5, <1>0 DEF Detect, Typed, Objects
    <2> QED
      BY <1>5, <2>1 DEF Detect, Typed, workers, history, source
  <1>6. CASE SendRects
    BY <1>6 DEF SendRects, Typed, workers, history, source
  <1>7. ASSUME NEW w \in Clients, NEW s \in Services, NEW op \in Ops, Receive(w, s, op)
        PROVE  Typed'
    <2>1. requests' \in 0 .. MaxRequests
      BY <1>0, <1>7 DEF Receive, Typed
    <2>2. pc' \in [Clients -> Steps] /\ req' \in [Clients -> [s : Services, op : Ops]]
      BY <1>7 DEF Receive, Typed, Steps
    <2>3. muted' \subseteq Clients /\ overlap' \subseteq Services
      BY <1>7 DEF Receive, Typed
    <2> QED
      BY <1>7, <2>1, <2>2, <2>3 DEF Receive, Typed, source, detection
  <1>8. ASSUME NEW w \in Clients, WorkerStep(w)
        PROVE  Typed'
    <2>0. req[w].s \in Services
      BY DEF Typed
    <2>1. CASE Test(w)
      <3>1. UNCHANGED <<pipe, header, pipes, made, reg, entry, source, frames, detection>>
        BY <2>1, TestFacts
      <3>3. muted' \subseteq Clients /\ overlap' \subseteq Services /\ gone' \subseteq OnPipe
        BY <2>1, TestGoes DEF Typed
      <3>4. \E step \in Steps : Goto(w, step)
        BY <2>1, TestGoes
      <3> QED
        BY <3>1, <3>3, <3>4, GotoFacts DEF Typed, source, detection
    <2>2. CASE Make(w)
      <3>1. made' = made + 1 /\ made' \in 1 .. MaxRequests
        BY <2>2, Room DEF Make, NewObject
      <3>2. \E step \in Steps : Goto(w, step)
        BY <2>2 DEF Make, Steps
      <3>3. reg' \in [Services -> SUBSET (1 .. made')] /\ entry' \in [Services -> 0 .. made']
        BY <2>2, <3>1 DEF Make, NewObject, Typed
      <3>4. pc' \in [Clients -> Steps] /\ req' \in [Clients -> [s : Services, op : Ops]]
            /\ hold' \in [Clients -> Nat] /\ obj' \in [Clients -> 0 .. made] /\ requests' = requests
        BY <3>2, GotoFacts
      <3>5. 0 .. made \subseteq 0 .. made' 
        BY <3>1 DEF Typed
      <3>6. obj' \in [Clients -> 0 .. made'] /\ job' \in 0 .. made' /\ made' \in 0 .. MaxRequests
        BY <2>2, <3>1, <3>4, <3>5 DEF Make, Typed, detection
      <3> QED
        BY <2>2, <3>3, <3>4, <3>6 DEF Make, Typed, source, detection, history
    <2>3. CASE GetPipe(w)
      <3>1. pipes' \in Nat /\ pipe' \in 0 .. pipes'
        BY <2>3 DEF GetPipe, Pipe, Typed
      <3>2. pc' \in [Clients -> Steps] /\ hold' \in [Clients -> Nat]
        BY <2>3, <3>1 DEF GetPipe, Typed, Steps
      <3> QED
        BY <2>3, <3>1, <3>2 DEF GetPipe, Typed, source, detection, history
    <2>4. CASE WriteHeader(w)
      <3>1. frames' \in [Objects -> Seq(Nat)]
        <4>1. CASE frames' = frames
          BY <4>1 DEF Typed
        <4>2. CASE header[hold[w]] # 0 /\ frames' # frames
          <5>1. frames' = [frames EXCEPT ![entry[req[w].s]] = Append(@, header[hold[w]])]
            BY <2>4, <4>2 DEF WriteHeader
          <5>2. pipes \in Nat /\ pipes <= MaxStreams + 1
            BY <1>0 DEF BoundInv, Typed
          <5>3. pc[w] = "header" /\ req[w].s = "record"
            BY <2>4, <4>2 DEF WriteHeader
          <5>4. hold[w] \in Pipes
            BY <1>0, <5>2, <5>3 DEF StepInv, OnPipe, Pipes
          <5>5. header[hold[w]] \in Nat
            BY <5>4 DEF Typed
          <5>6. ASSUME NEW o \in Objects PROVE Append(frames[o], header[hold[w]]) \in Seq(Nat)
            BY <5>5 DEF Typed
          <5> QED
            BY <5>1, <5>6 DEF Typed
        <4> QED
          BY <2>4, <4>1, <4>2 DEF WriteHeader
      <3>2. pc' \in [Clients -> Steps] /\ obj' \in [Clients -> 0 .. made]
        BY <2>4, <2>0 DEF WriteHeader, Typed, Steps
      <3> QED
        BY <2>4, <3>1, <3>2 DEF WriteHeader, Typed, source, detection, history
    <2>5. CASE Insert(w)
      <3>1. reg' \in [Services -> SUBSET (1 .. made)]
        BY <2>5, <2>0 DEF Insert, Typed
      <3>2. \/ Done(w)
            \/ UNCHANGED history /\ Goto(w, "count")
        BY <2>5 DEF Insert
      <3>3. muted' \subseteq Clients /\ overlap' \subseteq Services /\ gone' \subseteq OnPipe
        BY <3>2, DoneFacts DEF Typed, history
      <3>4. \E step \in Steps : Goto(w, step)
        BY <3>2, DoneFacts DEF Steps
      <3> QED
        BY <2>5, <3>1, <3>3, <3>4, GotoFacts DEF Insert, Typed, source, detection
    <2>6. CASE Remove(w)
      <3>1. reg' \in [Services -> SUBSET (1 .. made)]
        BY <2>6, <2>0 DEF Remove, Removed, Typed
      <3>2. \E step \in Steps : Goto(w, step)
        BY <2>6 DEF Remove, Steps
      <3> QED
        BY <2>6, <3>1, <3>2, GotoFacts DEF Remove, Typed, source, detection, history
    <2>7. CASE Erase(w)
      <3>1. \E step \in Steps : Goto(w, step)
        BY <2>7 DEF Erase, Steps
      <3>2. entry' \in [Services -> 0 .. made] /\ gone' \subseteq OnPipe
        BY <2>7 DEF Erase, Typed
      <3> QED
        BY <2>7, <3>1, <3>2, GotoFacts DEF Erase, Typed, source, detection
    <2>8. CASE Count(w)
      <3>1. \/ Done(w)
            \/ UNCHANGED history /\ Goto(w, "change")
        BY <2>8 DEF Count
      <3>2. muted' \subseteq Clients /\ overlap' \subseteq Services /\ gone' \subseteq OnPipe
        BY <3>1, DoneFacts DEF Typed, history
      <3>3. \E step \in Steps : Goto(w, step)
        BY <3>1, DoneFacts DEF Steps
      <3> QED
        BY <2>8, <3>2, <3>3, GotoFacts DEF Count, Typed, source, detection
    <2>9. CASE Change(w)
      <3>1. dsts' \in [Objects -> SUBSET Clients]
        BY <2>9 DEF Change, Typed
      <3>2. Goto(w, "idle") /\ muted' \subseteq Clients /\ overlap' \subseteq Services /\ gone' \subseteq OnPipe
        BY <2>9, DoneFacts DEF Change, Typed
      <3>3. "idle" \in Steps
        BY DEF Steps
      <3> QED
        BY <2>9, <3>1, <3>2, <3>3, GotoFacts DEF Change, Typed, source
    <2>10. CASE MakeFails(w)
      <3>1. \E step \in Steps : Goto(w, step)
        BY <2>10 DEF MakeFails, Steps
      <3> QED
        BY <2>10, <3>1, GotoFacts DEF MakeFails, Typed, source, detection, history
    <2> QED
      BY <1>8, <2>1, <2>2, <2>3, <2>4, <2>5, <2>6, <2>7, <2>8, <2>9, <2>10 DEF WorkerStep
  <1> QED
    BY <1>1, <1>2, <1>3, <1>4, <1>5, <1>6, <1>7, <1>8, <1>9 DEF Next, Ops

-----------------------------------------------------------------------------
(* What the steps of the io thread, of a detector and of a worker leave alone *)

IoStep ==
  \/ Publish \/ Leave \/ NotDecoded \/ DetectFails \/ Detect \/ SendRects
  \/ \E h, due \in BOOLEAN : Frame(h, due)

LEMMA NextCases ==
  ASSUME Next
  PROVE  \/ IoStep
         \/ \E w \in Clients, s \in Services, op \in Ops : Receive(w, s, op)
         \/ \E w \in Clients : WorkerStep(w)
  BY DEF Next, IoStep, Ops

LEMMA IoFacts ==
  ASSUME IoStep
  PROVE  /\ UNCHANGED <<made, entry, pc, req, hold, obj, requests, muted, overlap>>
         /\ ~Leave => UNCHANGED <<reg, gone>>
  BY DEF IoStep, Publish, Leave, NotDecoded, DetectFails, Detect, SendRects, Frame, workers, history

LEMMA PipeFacts ==
  ASSUME Typed, Pipe
  PROVE  /\ pipe' # 0 /\ pipes' >= pipes
         /\ \/ pipe # 0 /\ pipe' = pipe /\ pipes' = pipes
            \/ pipe = 0 /\ pipe' = pipes + 1 /\ pipes' = pipes + 1
  BY DEF Typed, Pipe

\* Which pipe there is.
LEMMA PipesFacts ==
  ASSUME Typed, Next
  PROVE  \/ pipe' = pipe /\ pipes' = pipes
         \/ pipe = 0 /\ pipe' = pipes + 1 /\ pipes' = pipes + 1
         \/ Leave /\ pipe' = 0 /\ pipes' = pipes
  <1>1. CASE IoStep
    BY <1>1, PipeFacts DEF IoStep, Publish, Leave, NotDecoded, DetectFails, Detect, SendRects, Frame
  <1>2. CASE \E w \in Clients, s \in Services, op \in Ops : Receive(w, s, op)
    BY <1>2 DEF Receive
  <1>3. ASSUME NEW w \in Clients, WorkerStep(w)
        PROVE  \/ pipe' = pipe /\ pipes' = pipes
               \/ pipe = 0 /\ pipe' = pipes + 1 /\ pipes' = pipes + 1
    BY <1>3, PipeFacts DEF WorkerStep, Test, Make, MakeFails, GetPipe, WriteHeader, Insert, Remove, Erase,
         Count, Change
  <1> QED
    BY <1>1, <1>2, <1>3, NextCases

\* What Insert and Count leave of a request.
LEMMA GoesOrDone ==
  ASSUME Typed, NEW w \in Clients, NEW step \in Steps,
         Done(w) \/ (UNCHANGED history /\ Goto(w, step))
  PROVE  /\ \E t \in Steps : Goto(w, t)
         /\ overlap' = overlap /\ gone' = gone
         /\ pc'[w] \in {"idle", step}
  BY DoneFacts, GotoFacts DEF history, Steps

LEMMA WorkerFacts ==
  ASSUME Typed, NEW w \in Clients, WorkerStep(w)
  PROVE  /\ pc[w] # "idle"
         /\ \A v \in Clients : v # w =>
              pc'[v] = pc[v] /\ req'[v] = req[v] /\ hold'[v] = hold[v] /\ obj'[v] = obj[v]
         /\ pc'[w] # "idle" => req'[w] = req[w]
         /\ requests' = requests /\ overlap \subseteq overlap'
         /\ UNCHANGED <<published, streams, shot, header, job, todo>>
  <1> DEFINE Plain ==
        /\ \A v \in Clients : v # w =>
             pc'[v] = pc[v] /\ req'[v] = req[v] /\ hold'[v] = hold[v] /\ obj'[v] = obj[v]
        /\ pc'[w] # "idle" => req'[w] = req[w]
        /\ requests' = requests
  <1>1. ASSUME NEW t \in Steps, Goto(w, t)
        PROVE  Plain
    BY <1>1, GotoFacts DEF Typed
  <1> HIDE DEF Plain
  <1>2. CASE Test(w)
    <2>1. (\E t \in Steps : Goto(w, t)) /\ overlap \subseteq overlap'
      BY <1>2, TestGoes
    <2> QED
      BY <1>1, <1>2, <2>1, TestFacts DEF Plain, source, detection
  <1>3. CASE Make(w)
    <2>1. \E t \in Steps : Goto(w, t)
      BY <1>3 DEF Make, Steps
    <2> QED
      BY <1>1, <1>3, <2>1 DEF Make, Plain, source, detection, history
  <1>4. CASE GetPipe(w)
    BY <1>4 DEF GetPipe, Typed, source, detection, history
  <1>5. CASE WriteHeader(w)
    BY <1>5 DEF WriteHeader, Typed, source, detection, history
  <1>6. CASE Insert(w)
    <2>1. (\E t \in Steps : Goto(w, t)) /\ overlap' = overlap
      BY <1>6, GoesOrDone DEF Insert, Steps
    <2> QED
      BY <1>1, <1>6, <2>1 DEF Insert, Plain, source, detection
  <1>7. CASE Remove(w)
    <2>1. \E t \in Steps : Goto(w, t)
      BY <1>7 DEF Remove, Steps
    <2> QED
      BY <1>1, <1>7, <2>1 DEF Remove, Plain, source, detection, history
  <1>8. CASE Erase(w)
    <2>1. \E t \in Steps : Goto(w, t)
      BY <1>8 DEF Erase, Steps
    <2> QED
      BY <1>1, <1>8, <2>1 DEF Erase, Plain, source, detection
  <1>9. CASE Count(w)
    <2>1. (\E t \in Steps : Goto(w, t)) /\ overlap' = overlap
      BY <1>9, GoesOrDone DEF Count, Steps
    <2> QED
      BY <1>1, <1>9, <2>1 DEF Count, Plain, source, detection
  <1>10. CASE Change(w)
    <2>1. (\E t \in Steps : Goto(w, t)) /\ overlap' = overlap
      BY <1>10, DoneFacts DEF Change, Steps
    <2> QED
      BY <1>1, <1>10, <2>1 DEF Change, Plain, source
  <1>11. CASE MakeFails(w)
    <2>1. \E t \in Steps : Goto(w, t)
      BY <1>11 DEF MakeFails, Steps
    <2> QED
      BY <1>1, <1>11, <2>1 DEF MakeFails, Plain, source, detection, history
  <1> QED
    BY <1>2, <1>3, <1>4, <1>5, <1>6, <1>7, <1>8, <1>9, <1>10, <1>11 DEF WorkerStep

-----------------------------------------------------------------------------

LEMMA BoundStep ==
  ASSUME Typed, BoundInv, Next
  PROVE  BoundInv'
  <1>1. CASE Publish
    BY <1>1 DEF Publish, BoundInv, Typed
  <1>2. CASE Leave
    BY <1>2 DEF Leave, BoundInv, Typed
  <1>3. CASE ~Publish /\ ~Leave
    <2>1. UNCHANGED <<published, streams>>
      <3>1. CASE IoStep
        BY <1>3, <3>1 DEF IoStep, NotDecoded, DetectFails, Detect, SendRects, Frame, source
      <3>2. CASE \E w \in Clients, s \in Services, op \in Ops : Receive(w, s, op)
        BY <3>2 DEF Receive, source
      <3> QED
        BY <3>1, <3>2, NextCases, WorkerFacts
    <2> QED
      BY <1>3, <2>1, PipesFacts DEF BoundInv, Typed
  <1> QED
    BY <1>1, <1>2, <1>3

\* Where the steps after Test and Make lead.
LEMMA LaterSteps ==
  ASSUME Typed, NEW w \in Clients, WorkerStep(w), ~Test(w)
  PROVE  /\ pc'[w] \notin {"test", "make"}
         /\ Make(w) \/ MakeFails(w) \/ pc[w] \notin {"test", "make"}
         /\ ~Make(w) => made' = made
  <1>1. CASE Make(w)
    <2>1. \E t \in Steps \ {"test", "make"} : Goto(w, t)
      BY <1>1 DEF Make, Steps
    <2> QED
      BY <1>1, <2>1, GotoFacts
  <1>2. CASE GetPipe(w) \/ WriteHeader(w)
    BY <1>2 DEF GetPipe, WriteHeader, Typed
  <1>3. CASE Insert(w)
    <2>1. pc'[w] \in {"idle", "count"}
      BY <1>3, GoesOrDone DEF Insert, Steps
    <2> QED
      BY <1>3, <2>1 DEF Insert
  <1>4. CASE Remove(w) \/ Erase(w)
    <2>1. \E t \in Steps \ {"test", "make"} : Goto(w, t)
      BY <1>4 DEF Remove, Erase, Steps
    <2> QED
      BY <1>4, <2>1, GotoFacts DEF Remove, Erase
  <1>5. CASE Count(w)
    <2>1. pc'[w] \in {"idle", "change"}
      BY <1>5, GoesOrDone DEF Count, Steps
    <2> QED
      BY <1>5, <2>1 DEF Count
  <1>6. CASE Change(w)
    <2>1. pc'[w] = "idle"
      BY <1>6, DoneFacts, GotoFacts DEF Change, Steps
    <2> QED
      BY <1>6, <2>1 DEF Change
  <1>7. CASE MakeFails(w)
    <2>1. pc'[w] = "idle"
      BY <1>7, GotoFacts DEF MakeFails, Steps
    <2> QED
      BY <1>7, <2>1 DEF MakeFails
  <1> QED
    BY <1>1, <1>2, <1>3, <1>4, <1>5, <1>6, <1>7 DEF WorkerStep

\* A worker that begins to change a service is the only one.
LEMMA Begins ==
  ASSUME Typed, NEW w \in Clients, WorkerStep(w), NEW s \in Services, s \notin overlap',
         ~Busy(w, s), Busy(w, s)'
  PROVE  Test(w) /\ \A v \in Clients : ~Busy(v, s)
  <1>1. req[w].s = s /\ pc[w] \notin ChangeSteps /\ pc'[w] \in ChangeSteps
    BY WorkerFacts DEF Busy, ChangeSteps
  <1>2. Test(w)
    <2>1. ~(Make(w) \/ MakeFails(w) \/ GetPipe(w) \/ WriteHeader(w) \/ Insert(w) \/ Remove(w) \/ Erase(w))
      BY <1>1 DEF Make, MakeFails, GetPipe, WriteHeader, Insert, Remove, Erase, ChangeSteps
    <2>2. ~Count(w)
      <3>1. Count(w) => pc'[w] \in {"idle", "change"}
        BY GoesOrDone DEF Count, Steps
      <3> QED
        BY <1>1, <3>1 DEF ChangeSteps
    <2>3. ~Change(w)
      <3>1. Change(w) => pc'[w] = "idle"
        BY DoneFacts, GotoFacts DEF Change, Steps
      <3> QED
        BY <1>1, <3>1 DEF ChangeSteps
    <2> QED
      BY <2>1, <2>2, <2>3 DEF WorkerStep
  <1>3. CASE \E step \in {"make", "pipe", "remove"} : Begin(w, step)
    BY <1>1, <1>2, <1>3, BeginFacts DEF Steps
  <1>4. CASE Done(w) \/ Goto(w, "count")
    <2>1. pc'[w] \in {"idle", "count"}
      BY <1>4, DoneFacts, GotoFacts DEF Steps
    <2> QED
      BY <1>1, <2>1 DEF ChangeSteps
  <1> QED
    BY <1>2, <1>3, <1>4, TestFacts

LEMMA AloneStep ==
  ASSUME Typed, Alone, Next
  PROVE  Alone'
  <1> SUFFICES ASSUME NEW s \in Services, s \notin overlap',
                      NEW v \in Clients, NEW w \in Clients, Busy(v, s)', Busy(w, s)'
               PROVE  v = w
    BY DEF Alone
  <1>1. CASE IoStep
    BY <1>1, IoFacts DEF Alone, Busy
  <1>2. ASSUME NEW u \in Clients, NEW t \in Services, NEW op \in Ops, Receive(u, t, op)
        PROVE  v = w
    <2>1. \A x \in Clients : Busy(x, s)' => Busy(x, s)
      BY <1>2 DEF Receive, Busy, Typed, ChangeSteps
    <2> QED
      BY <1>2, <2>1 DEF Receive, Alone
  <1>3. ASSUME NEW u \in Clients, WorkerStep(u)
        PROVE  v = w
    <2>1. s \notin overlap /\ \A x \in Clients : x # u => (Busy(x, s)' <=> Busy(x, s))
      BY <1>3, WorkerFacts DEF Busy
    <2>2. CASE Busy(u, s)' => Busy(u, s)
      BY <2>1, <2>2 DEF Alone
    <2>3. CASE Busy(u, s)' /\ ~Busy(u, s)
      <3>1. \A x \in Clients : ~Busy(x, s)
        BY <1>3, <2>3, Begins
      <3> QED
        BY <2>1, <3>1
    <2> QED
      BY <2>2, <2>3
  <1> QED
    BY <1>1, <1>2, <1>3, NextCases

LEMMA CountStep ==
  ASSUME Typed, CountInv, Next
  PROVE  CountInv'
  <1>1. CASE IoStep
    BY <1>1, IoFacts DEF CountInv, Makers
  <1>2. ASSUME NEW w \in Clients, NEW s \in Services, NEW op \in Ops, Receive(w, s, op)
        PROVE  CountInv'
    <2>1. Makers' = Makers \cup {w} /\ w \notin Makers
      BY <1>2 DEF Receive, Makers, Typed
    <2>2. IsFiniteSet(Makers') /\ Cardinality(Makers') = Cardinality(Makers) + 1
      BY <2>1, FS_AddElement DEF CountInv
    <2>3. made' = made /\ requests' = requests + 1 /\ Cardinality(Makers) \in Nat
      BY <1>2, FS_CardinalityType DEF Receive, CountInv
    <2> QED
      BY <2>2, <2>3 DEF CountInv, Typed
  <1>3. ASSUME NEW w \in Clients, WorkerStep(w)
        PROVE  CountInv'
    <2>1. Cardinality(Makers) \in Nat /\ requests' = requests /\ IsFiniteSet(Makers)
      BY <1>3, WorkerFacts, FS_CardinalityType DEF CountInv
    <2>2. CASE Test(w)
      <3>1. Makers' \subseteq Makers
        BY <1>3, <2>2, WorkerFacts DEF Makers, Test
      <3>2. /\ IsFiniteSet(Makers') /\ Cardinality(Makers') <= Cardinality(Makers)
            /\ Cardinality(Makers') \in Nat
        BY <2>1, <3>1, FS_Subset, FS_CardinalityType
      <3>3. made' = made
        BY <2>2, TestFacts
      <3> QED
        BY <2>1, <3>2, <3>3 DEF CountInv, Typed
    <2>3. CASE Make(w)
      <3>1. w \in Makers /\ Makers' = Makers \ {w}
        BY <1>3, <2>3, WorkerFacts, LaterSteps DEF Makers, Make, Test
      <3>2. IsFiniteSet(Makers') /\ Cardinality(Makers') = Cardinality(Makers) - 1
        BY <2>1, <3>1, FS_RemoveElement
      <3>3. made' = made + 1
        BY <2>3 DEF Make, NewObject
      <3> QED
        BY <2>1, <3>2, <3>3 DEF CountInv, Typed
    <2>4. CASE ~Test(w) /\ ~Make(w)
      <3>1. Makers' \subseteq Makers /\ made' = made
        BY <1>3, <2>4, WorkerFacts, LaterSteps DEF Makers
      <3>2. /\ IsFiniteSet(Makers') /\ Cardinality(Makers') <= Cardinality(Makers)
            /\ Cardinality(Makers') \in Nat
        BY <2>1, <3>1, FS_Subset, FS_CardinalityType
      <3> QED
        BY <2>1, <3>1, <3>2 DEF CountInv, Typed
    <2> QED
      BY <2>2, <2>3, <2>4
  <1> QED
    BY <1>1, <1>2, <1>3, NextCases

LEMMA StepStep ==
  ASSUME Typed, StepInv, Next
  PROVE  StepInv'
  <1> DEFINE Fits(w) ==
        /\ pc[w] = "make" => req[w].op # "get" /\ (req[w].s = "detect" \/ On(w))
        /\ pc[w] = "pipe" => req[w].s \in OnPipe /\ req[w].op # "get"
        /\ pc[w] = "header" => req[w].s \in OnPipe
        /\ pc[w] \in {"header", "insert"} => req[w].op # "get" /\ (req[w].s = "detect" \/ On(w))
        /\ pc[w] \in {"remove", "erase"} => req[w].s # "detect" /\ req[w].op = "off"
        /\ pc[w] \in {"count", "change"} => req[w].s = "detect" /\ req[w].op # "get"
        /\ pc[w] \in {"header", "insert", "remove"} /\ req[w].s \in OnPipe => hold[w] \in 1 .. pipes
  <1> SUFFICES ASSUME NEW w \in Clients PROVE Fits(w)'
    BY DEF StepInv
  <1>0. Fits(w)
    BY DEF StepInv
  <1>1. pipes \in Nat /\ pipes' \in Nat /\ pipes' >= pipes
    BY SMTT(30), PipesFacts DEF Typed
  <1>2. CASE UNCHANGED <<pc[w], req[w], hold[w]>>
    BY <1>0, <1>1, <1>2 DEF On, Typed
  <1>3. CASE IoStep
    BY <1>2, <1>3, IoFacts
  <1>4. ASSUME NEW u \in Clients, NEW s \in Services, NEW op \in Ops, Receive(u, s, op)
        PROVE  Fits(w)'
    <2>1. CASE u # w
      BY <1>2, <1>4, <2>1 DEF Receive, Typed
    <2>2. CASE u = w
      BY <1>4, <2>2 DEF Receive, Typed
    <2> QED
      BY <2>1, <2>2
  <1>5. ASSUME WorkerStep(w), pc'[w] # "idle"
        PROVE  Fits(w)'
    <2>0. req'[w] = req[w] /\ req[w].s \in Services /\ req[w].op \in Ops
      BY <1>5, WorkerFacts DEF Typed
    <2>1. CASE Test(w)
      <3>1. \/ pc'[w] = "make" /\ req[w].op # "get" /\ (req[w].s = "detect" \/ On(w))
            \/ pc'[w] = "count" /\ req[w].s = "detect" /\ req[w].op # "get"
            \/ pc'[w] = "pipe" /\ req[w].s = "record" /\ req[w].op = "off"
            \/ pc'[w] = "remove" /\ req[w].s = "save" /\ req[w].op = "off"
        BY <1>5, <2>1, TestFacts, DoneFacts, BeginFacts, GotoFacts DEF Steps
      <3> QED
        BY <2>0, <3>1 DEF On, OnPipe
    <2>2. CASE Make(w)
      <3>1. Goto(w, IF req[w].s = "save" THEN "insert" ELSE "pipe") /\ pc[w] = "make"
        BY <2>2 DEF Make
      <3>2. pc'[w] = IF req[w].s = "save" THEN "insert" ELSE "pipe"
        BY <3>1, GotoFacts DEF Steps
      <3> QED
        BY <1>0, <2>0, <3>1, <3>2 DEF On, OnPipe, Services
    <2>3. CASE GetPipe(w)
      <3>1. hold'[w] = pipe' /\ pipe' \in 1 .. pipes' /\ pc[w] = "pipe"
        BY SMTT(30), <2>3, PipeFacts, <1>1 DEF GetPipe, Typed
      <3>2. pc'[w] = IF On(w) \/ req[w].s = "detect" THEN "header" ELSE "remove"
        BY <2>3 DEF GetPipe, Typed
      <3> QED
        BY <1>0, <2>0, <3>1, <3>2 DEF On, Ops
    <2>4. CASE WriteHeader(w)
      <3>1. pc[w] = "header" /\ pc'[w] = "insert" /\ hold'[w] = hold[w]
        BY <2>4 DEF WriteHeader, Typed
      <3> QED
        BY <1>0, <1>1, <2>0, <3>1 DEF On
    <2>5. CASE Insert(w)
      <3>1. pc[w] = "insert" /\ pc'[w] = "count" /\ req[w].s = "detect"
        BY <1>5, <2>5, DoneFacts, GotoFacts DEF Insert, Steps
      <3> QED
        BY <1>0, <2>0, <3>1 DEF On
    <2>6. CASE Remove(w)
      <3>1. pc[w] = "remove" /\ pc'[w] = "erase"
        BY <2>6, GotoFacts DEF Remove, Steps
      <3> QED
        BY <1>0, <2>0, <3>1
    <2>7. CASE Erase(w)
      BY <1>5, <2>7, GotoFacts DEF Erase, Steps
    <2>8. CASE Count(w)
      <3>1. pc[w] = "count" /\ pc'[w] = "change"
        BY <1>5, <2>8, GoesOrDone DEF Count, Steps
      <3> QED
        BY <1>0, <2>0, <3>1
    <2>9. CASE Change(w)
      BY <1>5, <2>9, DoneFacts, GotoFacts DEF Change, Steps
    <2>10. CASE MakeFails(w)
      BY <1>5, <2>10, GotoFacts DEF MakeFails, Steps
    <2> QED
      BY <1>5, <2>1, <2>2, <2>3, <2>4, <2>5, <2>6, <2>7, <2>8, <2>9, <2>10 DEF WorkerStep
  <1>6. ASSUME NEW u \in Clients, WorkerStep(u)
        PROVE  Fits(w)'
    BY <1>2, <1>5, <1>6, WorkerFacts
  <1> QED
    BY <1>3, <1>4, <1>6, NextCases

LEMMA PipeStep ==
  ASSUME Typed, StepInv, PipeInv, Next
  PROVE  PipeInv'
  <1>1. CASE IoStep
    <2>1. CASE Leave
      BY <2>1 DEF Leave, PipeInv, detection, Services, OnPipe
    <2>2. CASE ~Leave
      <3>1. reg' = reg /\ (pipe' = 0 => pipe = 0)
        BY <1>1, <2>2, IoFacts, PipesFacts DEF Typed
      <3>2. todo' # {} => job' # 0
        BY <1>1, <2>2 DEF IoStep, Publish, NotDecoded, DetectFails, Detect, SendRects, Frame, PipeInv, detection
      <3> QED
        BY <3>1, <3>2 DEF PipeInv
    <2> QED
      BY <2>1, <2>2
  <1>2. CASE \E w \in Clients, s \in Services, op \in Ops : Receive(w, s, op)
    BY <1>2 DEF Receive, PipeInv, detection
  <1>3. ASSUME NEW w \in Clients, WorkerStep(w)
        PROVE  PipeInv'
    <2>1. job' = job /\ todo' = todo
      BY <1>3, WorkerFacts
    <2>2. ~Leave
      BY <1>3, WorkerFacts DEF Leave, workers
    <2>3. pipe' = 0 => pipe = 0
      BY <2>2, PipesFacts DEF Typed
    <2>4. CASE reg' = reg
      BY <2>1, <2>3, <2>4 DEF PipeInv
    <2>5. CASE Insert(w)
      BY <2>1, <2>5 DEF Insert, Reaches, StepInv, PipeInv, Typed, OnPipe
    <2>6. CASE Remove(w)
      BY <2>1, <2>6 DEF Remove, Removed, PipeInv, Typed, OnPipe
    <2> QED
      BY <1>3, <2>4, <2>5, <2>6, TestFacts DEF WorkerStep, Make, MakeFails, GetPipe, WriteHeader, Erase, Count, Change
  <1> QED
    BY <1>1, <1>2, <1>3, NextCases

-----------------------------------------------------------------------------

\* A step of others leaves a service as it is.
LEMMA PhaseKept ==
  ASSUME Typed, StepInv, PhaseInv, NEW s \in Services, s \notin overlap,
         reg'[s] = reg[s], entry'[s] = entry[s], s \in gone' <=> s \in gone,
         \/ s = "save" \/ pipe' = pipe
         \/ pipe = 0 /\ pipe' = pipes + 1,
         \A w \in Clients : Busy(w, s)' <=> Busy(w, s),
         \A w \in Clients : Busy(w, s) =>
            pc'[w] = pc[w] /\ req'[w] = req[w] /\ hold'[w] = hold[w] /\ obj'[w] = obj[w]
  PROVE  /\ \A w \in Clients : Busy(w, s)' => Phase(w, s)'
         /\ (\A w \in Clients : ~Busy(w, s)') => Settled(s)'
  <1>1. Settled(s)' <=> Settled(s)
    BY DEF Settled
  <1>2. ASSUME NEW w \in Clients, Busy(w, s)
        PROVE  Phase(w, s)'
    <2>1. Phase(w, s)
      BY <1>2 DEF PhaseInv
    <2>2. Adds(w)' <=> Adds(w)
      BY <1>2 DEF Adds, On
    <2>3. /\ pc'[w] = pc[w] /\ hold'[w] = hold[w] /\ obj'[w] = obj[w] /\ req[w].s = s
      BY <1>2 DEF Busy
    <2>4. pc[w] \in {"header", "insert", "remove"} /\ s # "save" =>
            (hold'[w] # pipe' => hold[w] # pipe)
      BY <2>3 DEF StepInv, OnPipe, Services, Typed
    <2> QED
      BY <1>1, <2>1, <2>2, <2>3, <2>4 DEF Phase
  <1> QED
    BY <1>1, <1>2 DEF PhaseInv

\* A step of the only worker that is busy with a service.
LEMMA PhaseMove ==
  ASSUME Typed, StepInv, PipeInv, Alone, PhaseInv, NEW s \in Services, s \notin overlap',
         NEW w \in Clients, WorkerStep(w), req[w].s = s, Busy(w, s) \/ Busy(w, s)'
  PROVE  /\ pc'[w] \in ChangeSteps => Phase(w, s)'
         /\ pc'[w] \notin ChangeSteps => Settled(s)'
  <1>0. (Busy(w, s) => Phase(w, s)) /\ (pc'[w] # "idle" => req'[w] = req[w])
    BY WorkerFacts DEF PhaseInv
  <1>1. CASE ~Busy(w, s)
    <2>1. Test(w) /\ Settled(s) /\ pc'[w] \in ChangeSteps
      BY <1>1, Begins, WorkerFacts DEF PhaseInv, Busy
    <2>2. reg' = reg /\ entry' = entry /\ gone' = gone
      BY <2>1, TestFacts, TestGoes
    <2>3. Settled(s)'
      BY <2>1, <2>2 DEF Settled
    <2>4. \/ pc'[w] = "make" /\ entry[s] = 0
          \/ pc'[w] = "pipe" /\ s = "record" /\ req[w].op = "off" /\ entry[s] # 0
          \/ pc'[w] = "remove" /\ s = "save"
      BY <2>1, TestFacts, DoneFacts, BeginFacts, GotoFacts DEF Steps, ChangeSteps
    <2>5. entry[s] = 0 => reg[s] = {}
      BY <2>1 DEF Settled, Typed
    <2>6. pc'[w] = "pipe" => ~Adds(w)'
      BY <1>0, <2>4 DEF Adds, On
    <2> QED
      BY <2>1, <2>2, <2>3, <2>4, <2>5, <2>6 DEF Phase
  <1>2. CASE Make(w) /\ Busy(w, s)
    <2>1. pc[w] = "make" /\ pc'[w] \in {"insert", "pipe"} /\ (pc'[w] = "insert" <=> s = "save")
      BY <1>2, GotoFacts DEF Make, Steps
    <2>2. reg'[s] = {} /\ entry'[s] = made + 1 /\ made \in Nat
      BY <1>0, <1>2, <2>1 DEF Make, NewObject, Phase, Typed
    <2>3. pc'[w] = "pipe" => Adds(w)'
      BY <2>1, WorkerFacts DEF Adds, On, StepInv
    <2> QED
      BY <2>1, <2>2, <2>3 DEF Phase, ChangeSteps
  <1>3. CASE GetPipe(w) /\ Busy(w, s)
    <2>1. /\ pc[w] = "pipe" /\ reg' = reg /\ entry' = entry /\ gone' = gone /\ hold'[w] = pipe'
          /\ pc'[w] = IF Adds(w) THEN "header" ELSE "remove"
      BY <1>3 DEF GetPipe, Typed, history, Adds
    <2>2. Settled(s)' <=> Settled(s)
      BY <2>1 DEF Settled
    <2> QED
      BY <1>0, <1>3, <2>1, <2>2 DEF Phase, ChangeSteps
  <1>4. CASE WriteHeader(w) /\ Busy(w, s)
    <2>1. /\ pc[w] = "header" /\ pc'[w] = "insert" /\ reg' = reg /\ entry' = entry /\ gone' = gone
          /\ hold'[w] = hold[w] /\ pipe' = pipe /\ obj'[w] = entry[s]
      BY <1>4 DEF WriteHeader, Typed, history
    <2> QED
      BY <1>0, <1>4, <2>1 DEF Phase, ChangeSteps
  <1>5. CASE Insert(w) /\ Busy(w, s)
    <2>1. /\ pc[w] = "insert" /\ entry' = entry /\ gone' = gone
          /\ pc'[w] = IF s = "detect" THEN "count" ELSE "idle"
      BY <1>5, DoneFacts, GotoFacts DEF Insert, Steps, history
    <2>2. entry[s] # 0 /\ reg[s] = {} /\ (s # "save" => obj[w] = entry[s])
      BY <1>0, <1>5, <2>1 DEF Phase
    <2>3. reg'[s] = IF Reaches(w) THEN {entry[s]} ELSE {}
      BY <1>5, <2>2 DEF Insert, Typed
    <2>4. ~Reaches(w) => s \in gone
      BY <1>0, <1>5, <2>1 DEF Phase, Reaches
    <2>5. Settled(s)'
      BY <2>1, <2>3, <2>4 DEF Settled
    <2> QED
      BY <2>1, <2>2, <2>5 DEF Phase, ChangeSteps
  <1>6. CASE Remove(w) /\ Busy(w, s)
    <2>1. pc[w] = "remove" /\ entry' = entry /\ pc'[w] = "erase"
      BY <1>6, GotoFacts DEF Remove, Steps
    <2>2. reg[s] \subseteq {entry[s]} /\ (~Reaches(w) => reg[s] = {})
      BY <1>0, <1>6, <2>1 DEF Phase, Reaches, Settled
    <2>3. reg'[s] = {}
      BY <1>6, <2>2 DEF Remove, Removed, Typed
    <2> QED
      BY <2>1, <2>3 DEF Phase, ChangeSteps
  <1>7. CASE Erase(w) /\ Busy(w, s)
    <2>1. pc[w] = "erase" /\ entry'[s] = 0 /\ reg' = reg /\ pc'[w] = "idle"
      BY <1>7, GotoFacts DEF Erase, Steps, Typed
    <2> QED
      BY <1>0, <1>7, <2>1 DEF Phase, Settled, ChangeSteps
  <1>8. CASE MakeFails(w) /\ Busy(w, s)
    <2>1. pc[w] = "make" /\ pc'[w] = "idle" /\ reg' = reg /\ entry' = entry /\ gone' = gone
      BY <1>8, GotoFacts DEF MakeFails, Steps, history
    <2> QED
      BY <1>0, <1>8, <2>1 DEF Phase, Settled, ChangeSteps
  <1>9. CASE (Test(w) \/ Count(w) \/ Change(w)) /\ Busy(w, s)
    BY <1>9 DEF Test, Count, Change, Busy, ChangeSteps
  <1> QED
    BY <1>1, <1>2, <1>3, <1>4, <1>5, <1>6, <1>7, <1>8, <1>9 DEF WorkerStep

\* A worker changes nothing of a service its request is not for ...
LEMMA OtherServices ==
  ASSUME Typed, NEW w \in Clients, WorkerStep(w), NEW s \in Services, req[w].s # s
  PROVE  reg'[s] = reg[s] /\ entry'[s] = entry[s] /\ (s \in gone' <=> s \in gone)
  <1>1. CASE Test(w)
    BY <1>1, TestFacts, TestGoes
  <1>2. CASE Make(w) \/ MakeFails(w) \/ GetPipe(w) \/ WriteHeader(w) \/ Remove(w)
    BY <1>2 DEF Make, MakeFails, GetPipe, WriteHeader, Remove, Removed, Typed, history
  <1>3. CASE Insert(w)
    <2>1. gone' = gone
      BY <1>3, GoesOrDone DEF Insert, Steps
    <2> QED
      BY <1>3, <2>1 DEF Insert, Typed
  <1>4. CASE Erase(w)
    BY <1>4 DEF Erase, Typed
  <1>5. CASE Count(w) \/ Change(w)
    <2>1. gone' = gone
      BY <1>5, GoesOrDone DEF Count, Change, Steps
    <2> QED
      BY <1>5, <2>1 DEF Count, Change
  <1> QED
    BY <1>1, <1>2, <1>3, <1>4, <1>5 DEF WorkerStep

\* ... nor of one it is not busy with.
LEMMA Bystander ==
  ASSUME Typed, NEW w \in Clients, WorkerStep(w), NEW s \in Services, ~Busy(w, s), ~Busy(w, s)'
  PROVE  reg'[s] = reg[s] /\ entry'[s] = entry[s] /\ (s \in gone' <=> s \in gone)
  <1>1. CASE Test(w)
    BY <1>1, TestFacts, TestGoes
  <1>2. CASE Count(w) \/ Change(w)
    <2>1. gone' = gone
      BY <1>2, GoesOrDone DEF Count, Change, Steps
    <2> QED
      BY <1>2, <2>1 DEF Count, Change
  <1>3. CASE ~Test(w) /\ ~Count(w) /\ ~Change(w)
    <2>1. pc[w] \in ChangeSteps
      BY <1>3 DEF WorkerStep, Make, MakeFails, GetPipe, WriteHeader, Insert, Remove, Erase, ChangeSteps
    <2> QED
      BY <2>1, OtherServices DEF Busy
  <1> QED
    BY <1>1, <1>2, <1>3

LEMMA PhaseStep ==
  ASSUME Typed, StepInv, PipeInv, Alone, PhaseInv, Next
  PROVE  PhaseInv'
  <1> SUFFICES ASSUME NEW s \in Services, s \notin overlap'
               PROVE  /\ \A w \in Clients : Busy(w, s)' => Phase(w, s)'
                      /\ (\A w \in Clients : ~Busy(w, s)') => Settled(s)'
    BY DEF PhaseInv
  <1>1. CASE Leave
    <2>1. /\ s \notin overlap /\ entry' = entry /\ IoStep
          /\ UNCHANGED <<pc, req, hold, obj>>
      BY <1>1, IoFacts DEF IoStep
    <2>2. \A w \in Clients : Busy(w, s)' <=> Busy(w, s)
      BY <2>1 DEF Busy
    <2>3. CASE s = "save"
      <3>1. reg'[s] = reg[s] /\ (s \in gone' <=> s \in gone)
        BY <1>1, <2>3 DEF Leave, OnPipe, Typed
      <3> QED
        BY <2>1, <2>2, <2>3, <3>1, PhaseKept
    <2>4. CASE s \in OnPipe
      <3>1. reg'[s] = {} /\ (entry[s] # 0 => s \in gone')
        BY <1>1, <2>4 DEF Leave, Typed
      <3>2. Settled(s)'
        BY <2>1, <3>1 DEF Settled
      <3>3. ASSUME NEW w \in Clients, Busy(w, s)
            PROVE  Phase(w, s)'
        <4>1. Phase(w, s)
          BY <2>1, <3>3 DEF PhaseInv
        <4>2. Adds(w)' <=> Adds(w)
          BY <2>1 DEF Adds, On
        <4> QED
          BY <2>1, <3>1, <3>2, <4>1, <4>2 DEF Phase
      <3> QED
        BY <2>2, <3>2, <3>3
    <2> QED
      BY <2>3, <2>4 DEF Services, OnPipe
  <1>2. CASE IoStep /\ ~Leave
    <2>1. /\ s \notin overlap /\ UNCHANGED <<reg, entry, gone, pc, req, hold, obj>>
      BY <1>2, IoFacts
    <2>2. \A w \in Clients : Busy(w, s)' <=> Busy(w, s)
      BY <2>1 DEF Busy
    <2>3. pipe' = pipe \/ (pipe = 0 /\ pipe' = pipes + 1)
      BY <1>2, PipesFacts
    <2> QED
      BY <2>1, <2>2, <2>3, PhaseKept
  <1>3. ASSUME NEW u \in Clients, NEW t \in Services, NEW op \in Ops, Receive(u, t, op)
        PROVE  /\ \A w \in Clients : Busy(w, s)' => Phase(w, s)'
               /\ (\A w \in Clients : ~Busy(w, s)') => Settled(s)'
    <2>1. s \notin overlap /\ UNCHANGED <<reg, entry, gone, pipe>> /\ ~Busy(u, s) /\ ~Busy(u, s)'
      BY <1>3 DEF Receive, Busy, Typed, ChangeSteps
    <2>2. \A w \in Clients : w # u =>
            pc'[w] = pc[w] /\ req'[w] = req[w] /\ hold'[w] = hold[w] /\ obj'[w] = obj[w]
      BY <1>3 DEF Receive, Typed
    <2>3. \A w \in Clients : Busy(w, s)' <=> Busy(w, s)
      BY <2>1, <2>2 DEF Busy
    <2> QED
      BY <2>1, <2>2, <2>3, PhaseKept
  <1>4. ASSUME NEW u \in Clients, WorkerStep(u)
        PROVE  /\ \A w \in Clients : Busy(w, s)' => Phase(w, s)'
               /\ (\A w \in Clients : ~Busy(w, s)') => Settled(s)'
    <2>1. s \notin overlap /\ (\A w \in Clients : w # u => (Busy(w, s)' <=> Busy(w, s)))
      BY <1>4, WorkerFacts DEF Busy
    <2>2. ~Leave
      BY <1>4, WorkerFacts DEF Leave
    <2>3. CASE Busy(u, s) \/ Busy(u, s)'
      <3>1. \A w \in Clients : Busy(w, s)' => w = u
        BY <1>4, <2>1, <2>3, Begins DEF Alone
      <3>2. req[u].s = s /\ (Busy(u, s)' <=> pc'[u] \in ChangeSteps)
        BY <1>4, <2>3, WorkerFacts DEF Busy, ChangeSteps
      <3> QED
        BY <1>4, <2>1, <2>3, <3>1, <3>2, PhaseMove
    <2>4. CASE ~Busy(u, s) /\ ~Busy(u, s)'
      <3>1. \A w \in Clients : Busy(w, s)' <=> Busy(w, s)
        BY <2>1, <2>4
      <3>2. \A w \in Clients : Busy(w, s) =>
              pc'[w] = pc[w] /\ req'[w] = req[w] /\ hold'[w] = hold[w] /\ obj'[w] = obj[w]
        BY <1>4, <2>4, WorkerFacts
      <3>3. pipe' = pipe \/ (pipe = 0 /\ pipe' = pipes + 1)
        BY <2>2, PipesFacts
      <3>4. reg'[s] = reg[s] /\ entry'[s] = entry[s] /\ (s \in gone' <=> s \in gone)
        BY <1>4, <2>4, Bystander
      <3> QED
        BY <2>1, <3>1, <3>2, <3>3, <3>4, PhaseKept
    <2> QED
      BY <2>3, <2>4
  <1> QED
    BY <1>1, <1>2, <1>3, <1>4, NextCases

-----------------------------------------------------------------------------

LEMMA AppendFacts ==
  ASSUME NEW f \in Seq(Nat), NEW n \in Nat
  PROVE  /\ Append(f, n) \in Seq(Nat)
         /\ Len(Append(f, n)) = Len(f) + 1 /\ Len(f) \in Nat
         /\ \A i \in 1 .. Len(f) : Append(f, n)[i] = f[i]
         /\ Append(f, n)[Len(f) + 1] = n
  OBVIOUS

\* A frame after the last one leaves a recorder's frames in order.
LEMMA AppendOrdered ==
  ASSUME NEW f \in Seq(Nat), NEW n \in Nat, Ordered(f),
         Len(f) > 0 => f[Len(f)] < n,
         Len(f) > 1 => n = f[Len(f)] + 1
  PROVE  Ordered(Append(f, n))
  <1> DEFINE g == Append(f, n)
  <1>1. /\ Len(g) = Len(f) + 1 /\ Len(f) \in Nat
        /\ \A i \in 1 .. Len(f) : g[i] = f[i]
        /\ g[Len(f) + 1] = n
    BY AppendFacts
  <1> HIDE DEF g
  <1>2. ASSUME NEW i \in 1 .. Len(g) - 1
        PROVE  g[i] < g[i + 1] /\ (i > 1 => g[i + 1] = g[i] + 1)
    <2>1. CASE i = Len(f)
      BY <1>1, <2>1
    <2>2. CASE i \in 1 .. Len(f) - 1
      <3>1. g[i] = f[i] /\ g[i + 1] = f[i + 1]
        BY <1>1, <2>2
      <3>2. f[i] < f[i + 1] /\ (i > 1 => f[i + 1] = f[i] + 1)
        BY <2>2 DEF Ordered
      <3> QED
        BY <3>1, <3>2
    <2> QED
      BY <1>1, <2>1, <2>2
  <1>3. Ordered(g)
    BY <1>2 DEF Ordered
  <1> QED
    BY <1>3 DEF g

\* A step that writes no frame, makes no recorder and registers none.
LEMMA FrameKept ==
  ASSUME Typed, FrameInv, frames' = frames, shot' = shot,
         made' \in Nat, made' >= made,
         overlap \subseteq overlap',
         "record" \notin overlap' =>
           /\ reg'["record"] \subseteq reg["record"]
           /\ \A w \in Clients : Busy(w, "record")' =>
                \/ pc'[w] \notin {"pipe", "header", "insert"}
                \/ pc'[w] = "pipe" /\ ~Adds(w)'
                \/ /\ Busy(w, "record") /\ pc'[w] = pc[w]
                   /\ Adds(w)' <=> Adds(w)
                   /\ entry'["record"] = entry["record"]
  PROVE  FrameInv'
  <1>1. \A o \in Objects : o > made' => o > made
    BY DEF Typed, Objects
  <1> QED
    BY <1>1 DEF FrameInv

LEMMA FrameMade ==
  ASSUME Typed, FrameInv, StepInv, CountInv, NEW w \in Clients, Make(w), req[w].s = "record",
         Alone, WorkerStep(w)
  PROVE  FrameInv'
  <1>1. made' = made + 1 /\ made' \in Objects /\ entry'["record"] = made'
    BY Room DEF Make, NewObject, Typed, Objects, Services
  <1>2. frames' = frames /\ shot' = shot /\ reg' = reg /\ overlap' = overlap
    BY DEF Make, source, history
  <1>3. frames[made'] = <<>>
    BY <1>1 DEF FrameInv, Typed, Objects
  <1>4. pc'[w] = "pipe"
    BY GotoFacts DEF Make, Steps
  <1>5. "record" \notin overlap => \A v \in Clients : Busy(v, "record")' => v = w
    BY WorkerFacts DEF Alone, Busy, Services, ChangeSteps, Make
  <1>6. \A o \in Objects : o > made' => o > made
    BY <1>1 DEF Typed, Objects
  <1> QED
    BY <1>1, <1>2, <1>3, <1>4, <1>5, <1>6 DEF FrameInv

\* The header is the first that a recorder is written.
LEMMA FrameHeader ==
  ASSUME Typed, BoundInv, FrameInv, StepInv, Alone, PhaseInv, NEW w \in Clients, WriteHeader(w),
         req[w].s = "record", WorkerStep(w)
  PROVE  FrameInv'
  <1> DEFINE o == entry["record"]
             h == header[hold[w]]
  <1>1. /\ shot' = shot /\ reg' = reg /\ overlap' = overlap /\ entry' = entry /\ made' = made
        /\ pc[w] = "header" /\ pc'[w] = "insert" /\ o \in 0 .. made
    BY DEF WriteHeader, Typed, source, history, Services
  <1>2. hold[w] \in Pipes
    BY <1>1, BoundsAssumption DEF StepInv, BoundInv, Typed, Pipes, OnPipe
  <1>3. h \in 0 .. shot /\ h \in Nat
    BY <1>2 DEF Typed
  <1>4. \/ frames' = frames
        \/ h # 0 /\ frames' = [frames EXCEPT ![o] = Append(@, h)]
    BY DEF WriteHeader
  <1>5. \A v \in Clients : "record" \notin overlap /\ Busy(v, "record")' => v = w
    BY <1>1, WorkerFacts DEF Alone, Busy, Services, ChangeSteps
  <1>6. "record" \notin overlap => /\ o # 0 /\ reg["record"] = {} /\ frames[o] = <<>>
    BY <1>1 DEF PhaseInv, Phase, Busy, FrameInv, Services, ChangeSteps
  <1>7. o \in Objects \/ o = 0
    BY <1>1, BoundsAssumption DEF Typed, Objects
  <1> HIDE DEF o, h
  <1>8. CASE frames' = frames
    <2>1. "record" \notin overlap => Len(frames[o]) <= 1
      BY <1>6
    <2> QED
      BY <1>1, <1>5, <1>6, <1>8, <2>1 DEF FrameInv, o
  <1>9. CASE frames' = [frames EXCEPT ![o] = Append(@, h)]
    <2>1. ASSUME NEW x \in Objects
          PROVE  \/ frames'[x] = frames[x]
                 \/ x = o /\ frames'[x] = Append(frames[x], h)
      BY <1>9 DEF Typed
    <2>2. ASSUME NEW x \in Objects
          PROVE  /\ Len(frames'[x]) > 0 => frames'[x][Len(frames'[x])] <= shot
                 /\ x > made => frames'[x] = <<>>
      <3>1. CASE frames'[x] = frames[x]
        BY <2>1, <3>1 DEF FrameInv
      <3>2. CASE x = o /\ frames'[x] = Append(frames[x], h)
        <4>1. frames[x] \in Seq(Nat)
          BY DEF Typed
        <4>2. frames'[x][Len(frames'[x])] = h /\ h <= shot
          BY <1>3, <3>2, <4>1, AppendFacts DEF Typed
        <4>3. ~(x > made)
          BY <1>1, <3>2 DEF Typed
        <4> QED
          BY <4>2, <4>3
      <3> QED
        BY <2>1, <3>1, <3>2
    <2>3. ASSUME "record" \notin overlap, NEW x \in Objects
          PROVE  Ordered(frames'[x]) /\ (x = o => Len(frames'[x]) <= 1)
      <3>1. CASE frames'[x] = frames[x]
        BY <1>6, <2>3, <3>1 DEF FrameInv
      <3>2. CASE x = o /\ frames'[x] = Append(frames[x], h)
        <4>1. frames[x] = <<>> /\ frames[x] \in Seq(Nat)
          BY <1>6, <2>3, <3>2 DEF Typed
        <4>2. Len(frames'[x]) = 1
          BY <1>3, <3>2, <4>1, AppendFacts
        <4> QED
          BY <4>2 DEF Ordered
      <3> QED
        BY <2>1, <3>1, <3>2
    <2> QED
      BY <1>1, <1>5, <1>6, <1>7, <2>2, <2>3 DEF FrameInv, o
  <1> QED
    BY <1>4, <1>8, <1>9

\* A frame goes to the recorders that are registered.
LEMMA FrameWritten ==
  ASSUME Typed, FrameInv, PhaseInv, NEW h \in BOOLEAN, NEW due \in BOOLEAN, Frame(h, due)
  PROVE  FrameInv'
  <1>1. /\ shot' = shot + 1 /\ shot \in Nat
        /\ UNCHANGED <<made, reg, entry, pc, req, overlap>>
    BY DEF Frame, workers, history, Typed
  <1>2. \A o \in Objects : frames'[o] = IF o \in reg["record"] THEN Append(frames[o], shot + 1)
                                                             ELSE frames[o]
    BY DEF Frame
  <1>3. ASSUME NEW o \in Objects
        PROVE  /\ Len(frames'[o]) > 0 => frames'[o][Len(frames'[o])] <= shot'
               /\ o > made => frames'[o] = <<>>
               /\ o \in reg["record"] => frames'[o][Len(frames'[o])] = shot'
               /\ "record" \notin overlap => Ordered(frames'[o])
    <2>1. frames[o] \in Seq(Nat) /\ Len(frames[o]) \in Nat
      BY DEF Typed
    <2>2. Len(frames[o]) > 0 => frames[o][Len(frames[o])] <= shot /\ frames[o][Len(frames[o])] \in Nat
      BY <2>1 DEF FrameInv
    <2>3. CASE o \in reg["record"]
      <3>1. frames'[o] = Append(frames[o], shot + 1)
        BY <1>2, <2>3
      <3>2. frames'[o][Len(frames'[o])] = shot'
        BY <1>1, <2>1, <3>1, AppendFacts
      <3>3. ~(o > made)
        BY <2>3 DEF Typed, Services
      <3>4. "record" \notin overlap => Ordered(frames'[o])
        <4>1. Len(frames[o]) > 0 => frames[o][Len(frames[o])] < shot + 1
          BY <1>1, <2>2
        <4>2. "record" \notin overlap /\ Len(frames[o]) > 1 => shot + 1 = frames[o][Len(frames[o])] + 1
          BY <2>3 DEF FrameInv
        <4> QED
          BY <1>1, <2>1, <3>1, <4>1, <4>2, AppendOrdered DEF FrameInv
      <3> QED
        BY <1>1, <3>2, <3>3, <3>4
    <2>4. CASE o \notin reg["record"]
      BY <1>1, <1>2, <2>2, <2>4 DEF FrameInv
    <2> QED
      BY <2>3, <2>4
  <1>4. ASSUME "record" \notin overlap, NEW w \in Clients, Busy(w, "record"),
               pc[w] \in {"header", "insert"} \/ (pc[w] = "pipe" /\ Adds(w))
        PROVE  frames'[entry["record"]] = frames[entry["record"]]
    <2>1. reg["record"] = {} /\ entry["record"] # 0
      BY <1>4 DEF PhaseInv, Phase, Services
    <2>2. entry["record"] \in Objects
      BY <2>1, BoundsAssumption DEF Typed, Objects, Services
    <2> QED
      BY <1>2, <2>1, <2>2
  <1>5. \A w \in Clients : (Busy(w, "record")' <=> Busy(w, "record")) /\ (Adds(w)' <=> Adds(w))
    BY <1>1 DEF Busy, Adds, On
  <1>6. reg["record"] \subseteq Objects
    BY BoundsAssumption DEF Typed, Objects, Services
  <1> QED
    BY <1>1, <1>3, <1>4, <1>5, <1>6 DEF FrameInv

LEMMA FrameStep ==
  ASSUME Typed, BoundInv, CountInv, StepInv, Alone, PhaseInv, FrameInv, Next
  PROVE  FrameInv'
  <1>0. made \in Nat
    BY BoundsAssumption DEF Typed
  <1>1. CASE IoStep /\ ~\E h, due \in BOOLEAN : Frame(h, due)
    <2>1. /\ UNCHANGED <<made, entry, pc, req, overlap>>
          /\ reg'["record"] \subseteq reg["record"]
          /\ frames' = frames /\ shot' = shot
      BY <1>1 DEF IoStep, Publish, Leave, NotDecoded, DetectFails, Detect, SendRects, workers, history, source,
           Services, OnPipe, Typed
    <2>2. \A w \in Clients : (Busy(w, "record")' <=> Busy(w, "record")) /\ (Adds(w)' <=> Adds(w))
      BY <2>1 DEF Busy, Adds, On
    <2> QED
      BY <1>0, <2>1, <2>2, FrameKept
  <1>2. ASSUME NEW u \in Clients, NEW t \in Services, NEW op \in Ops, Receive(u, t, op)
        PROVE  FrameInv'
    <2>1. UNCHANGED <<made, entry, reg, frames, shot>> /\ overlap \subseteq overlap'
      BY <1>2 DEF Receive, source
    <2>2. pc'[u] = "test"
      BY <1>2 DEF Receive, Typed
    <2>3. \A w \in Clients : w # u => pc'[w] = pc[w] /\ req'[w] = req[w]
      BY <1>2 DEF Receive, Typed
    <2> QED
      BY <1>0, <2>1, <2>2, <2>3, FrameKept DEF Busy, Adds, On
  <1>3. ASSUME NEW u \in Clients, WorkerStep(u)
        PROVE  FrameInv'
    <2>0. shot' = shot /\ overlap \subseteq overlap' /\ made' \in Nat /\ made' >= made
      BY <1>0, <1>3, WorkerFacts, LaterSteps, TestFacts DEF Make, NewObject
    <2>1. \A w \in Clients : w # u =>
            /\ pc'[w] = pc[w] /\ req'[w] = req[w]
            /\ (Busy(w, "record")' <=> Busy(w, "record")) /\ (Adds(w)' <=> Adds(w))
      BY <1>3, WorkerFacts DEF Busy, Adds, On
    <2>2. frames' = frames \/ (WriteHeader(u) /\ req[u].s = "record")
      BY <1>3, TestFacts DEF WorkerStep, Make, MakeFails, GetPipe, WriteHeader, Insert, Remove, Erase, Count, Change
    <2>3. CASE req[u].s # "record"
      <3>1. reg'["record"] = reg["record"] /\ entry'["record"] = entry["record"]
        BY <1>3, <2>3, OtherServices DEF Services
      <3>2. ~Busy(u, "record")'
        BY <1>3, <2>3, WorkerFacts DEF Busy, ChangeSteps
      <3> QED
        BY <2>0, <2>1, <2>2, <2>3, <3>1, <3>2, FrameKept
    <2>4. CASE req[u].s = "record"
      <3>8. ~Test(u) => pc[u] \in ChangeSteps
        BY <1>3, <2>4 DEF WorkerStep, Make, MakeFails, GetPipe, WriteHeader, Insert, Remove, Erase,
             Count, Change, StepInv, ChangeSteps
      <3>0. "record" \notin overlap /\ ~Test(u) =>
              /\ Busy(u, "record") /\ Phase(u, "record")
              /\ \A w \in Clients : Busy(w, "record")' => w = u
        BY <2>1, <2>4, <3>8 DEF Alone, PhaseInv, Busy, Services
      <3>1. CASE Make(u)
        BY <1>3, <2>4, <3>1, FrameMade
      <3>2. CASE WriteHeader(u)
        BY <1>3, <2>4, <3>2, FrameHeader
      <3>3. CASE Test(u)
        <4>1. reg' = reg
          BY <3>3, TestFacts
        <4>2. pc'[u] \in {"pipe", "header", "insert"} => pc'[u] = "pipe" /\ req[u].op = "off"
          BY <2>4, <3>3, TestFacts, DoneFacts, BeginFacts, GotoFacts DEF Steps
        <4>3. pc'[u] \in {"pipe", "header", "insert"} => ~Adds(u)'
          BY <1>3, <2>4, <4>2, WorkerFacts DEF Adds, On
        <4>4. frames' = frames /\ entry' = entry
          BY <3>3, TestFacts
        <4> QED
          BY <2>0, <2>1, <4>1, <4>2, <4>3, <4>4, FrameKept
      <3>4. CASE (GetPipe(u)) /\ ~Test(u)
        <4>1. /\ reg' = reg /\ entry' = entry /\ frames' = frames /\ made' = made
              /\ req' = req /\ pc[u] = "pipe"
              /\ pc'[u] = IF Adds(u) THEN "header" ELSE "remove"
          BY <3>4 DEF GetPipe, Typed, Adds
        <4> QED
          BY <2>0, <2>1, <3>0, <3>4, <4>1 DEF FrameInv
      <3>5. CASE (Insert(u)) /\ ~Test(u)
        <4>1. pc[u] = "insert" /\ pc'[u] = "idle" /\ frames' = frames /\ entry' = entry /\ made' = made
          BY <2>4, <3>5, DoneFacts, GotoFacts DEF Insert, Steps
        <4>2. "record" \notin overlap => reg'["record"] \subseteq {entry["record"]}
          BY <2>4, <3>0, <3>5, <4>1 DEF Insert, Phase, Typed, Services
        <4>3. "record" \notin overlap => Len(frames[entry["record"]]) <= 1
          BY <3>0, <3>5, <4>1 DEF FrameInv
        <4>4. "record" \notin overlap => \A w \in Clients : ~Busy(w, "record")'
          BY <3>0, <3>5, <4>1 DEF Busy, ChangeSteps
        <4>5. \A o \in Objects : Len(frames[o]) \in Nat
          BY DEF Typed
        <4>6. "record" \notin overlap => entry["record"] \in Objects
          BY <3>0, <3>5, <4>1, BoundsAssumption DEF Phase, Typed, Objects, Services
        <4> QED
          BY <2>0, <4>1, <4>2, <4>3, <4>4, <4>5, <4>6 DEF FrameInv
      <3>6. CASE (Remove(u) \/ Erase(u)) /\ ~Test(u)
        <4>1. pc'[u] \in {"erase", "idle"}
          BY <3>6, GotoFacts DEF Remove, Erase, Steps
        <4>2. reg'["record"] \subseteq reg["record"] /\ frames' = frames
          BY <3>6 DEF Remove, Erase, Removed, Typed, Services
        <4> QED
          BY <2>0, <2>1, <3>0, <3>6, <4>1, <4>2, FrameKept
      <3>7. CASE Count(u) \/ Change(u) \/ MakeFails(u)
        BY <2>4, <3>7 DEF Count, Change, MakeFails, StepInv
      <3> QED
        BY <1>3, <3>1, <3>2, <3>3, <3>4, <3>5, <3>6, <3>7 DEF WorkerStep
    <2> QED
      BY <2>3, <2>4
  <1> QED
    BY <1>1, <1>2, <1>3, FrameWritten, NextCases

-----------------------------------------------------------------------------

\* A step that changes neither the destinations nor who was told what.
LEMMA DetectKept ==
  ASSUME DetectInv, dsts' = dsts, muted' \subseteq muted, overlap \subseteq overlap',
         todo' # {} => todo' \subseteq dsts[job'],
         \A w \in Clients : Asking(w, "detect")' /\ On(w)' => w \notin muted',
         "detect" \notin overlap' =>
            \/ entry'["detect"] = entry["detect"]
            \/ entry["detect"] = 0
  PROVE  DetectInv'
  BY DEF DetectInv, Objects

\* The answer to a worker mutes its client only if it is no destination.
LEMMA DetectMuted ==
  ASSUME Typed, DetectInv, Alone, PhaseInv, NEW w \in Clients, WorkerStep(w), Done(w),
         entry' = entry,
         dsts' = dsts \/ (On(w) /\ req[w].s = "detect" /\
                            dsts' = [dsts EXCEPT ![entry["detect"]] = @ \cup {w}])
                      \/ (~On(w) /\ dsts' = [dsts EXCEPT ![entry["detect"]] = @ \ {w}]),
         req[w] = [s |-> "detect", op |-> "off"] /\ "detect" \notin overlap =>
            \A o \in Objects : o = entry["detect"] => w \notin dsts'[o],
         todo # {} => todo \subseteq dsts'[job]
  PROVE  DetectInv'
  <1>1. /\ overlap' = overlap /\ job' = job /\ todo' = todo
        /\ muted' = IF req[w] = [s |-> "detect", op |-> "off"] THEN muted \cup {w} ELSE muted
        /\ pc'[w] = "idle"
    BY WorkerFacts, DoneFacts, GotoFacts DEF Steps
  <1>2. ASSUME NEW v \in Clients, Asking(v, "detect")', On(v)'
        PROVE  v \notin muted'
    <2>1. v # w
      BY <1>1, <1>2 DEF Asking
    <2>2. Asking(v, "detect") /\ On(v)
      BY <1>2, <2>1, WorkerFacts DEF Asking, On
    <2> QED
      BY <1>1, <2>1, <2>2 DEF DetectInv
  <1>3. ASSUME "detect" \notin overlap, NEW o \in Objects
        PROVE  dsts'[o] \cap muted' = {} /\ (o # entry["detect"] => dsts'[o] = {})
    <2>1. dsts[o] \cap muted = {} /\ (o # entry["detect"] => dsts[o] = {})
      BY <1>3 DEF DetectInv
    <2>2. o # entry["detect"] => dsts'[o] = dsts[o]
      BY DEF Typed
    <2>3. dsts'[o] \subseteq dsts[o] \/ (req[w].s = "detect" /\ On(w) /\ dsts'[o] = dsts[o] \cup {w})
      BY DEF Typed
    <2>4. req[w].s = "detect" /\ On(w) => w \notin muted /\ muted' = muted
      BY <1>1, WorkerFacts DEF DetectInv, Asking, On
    <2>5. muted' = muted \/ (muted' = muted \cup {w} /\ w \notin dsts'[o])
      BY <1>1, <1>3, <2>1, <2>2
    <2> QED
      BY <2>1, <2>2, <2>3, <2>4, <2>5
  <1> QED
    BY <1>1, <1>2, <1>3 DEF DetectInv

LEMMA DetectStep ==
  ASSUME Typed, CountInv, StepInv, PipeInv, Alone, PhaseInv, DetectInv, Next
  PROVE  DetectInv'
  <1>1. CASE IoStep
    <2>1. UNCHANGED <<entry, pc, req, muted, overlap, dsts>>
      BY <1>1, IoFacts DEF IoStep, Publish, Leave, NotDecoded, DetectFails, Detect, SendRects, Frame, detection
    <2>2. \A w \in Clients : Asking(w, "detect")' /\ On(w)' => w \notin muted'
      BY <2>1 DEF Asking, On, DetectInv
    <2>3. todo' # {} => todo' \subseteq dsts[job']
      <3>1. CASE Publish \/ Leave \/ NotDecoded \/ DetectFails
        BY <3>1 DEF Publish, Leave, NotDecoded, DetectFails, detection, DetectInv
      <3>2. CASE Detect
        BY <3>2 DEF Detect
      <3>3. CASE SendRects
        BY <3>3 DEF SendRects, DetectInv
      <3>4. CASE \E h, due \in BOOLEAN : Frame(h, due)
        BY <3>4 DEF Frame, DetectInv
      <3> QED
        BY <1>1, <3>1, <3>2, <3>3, <3>4 DEF IoStep
    <2> QED
      BY <2>1, <2>2, <2>3, DetectKept
  <1>2. ASSUME NEW u \in Clients, NEW t \in Services, NEW op \in Ops, Receive(u, t, op)
        PROVE  DetectInv'
    <2>1. /\ UNCHANGED <<entry, dsts, job, todo>> /\ overlap \subseteq overlap'
          /\ muted' = IF t = "detect" /\ op = "on" THEN muted \ {u} ELSE muted
      BY <1>2 DEF Receive, detection
    <2>2. req'[u] = [s |-> t, op |-> op]
      BY <1>2 DEF Receive, Typed
    <2>3. \A w \in Clients : w # u => pc'[w] = pc[w] /\ req'[w] = req[w]
      BY <1>2 DEF Receive, Typed
    <2>4. \A w \in Clients : Asking(w, "detect")' /\ On(w)' => w \notin muted'
      BY <2>1, <2>2, <2>3 DEF Asking, On, DetectInv
    <2>5. todo' # {} => todo' \subseteq dsts[job']
      BY <2>1 DEF DetectInv
    <2> QED
      BY <2>1, <2>4, <2>5, DetectKept
  <1>3. ASSUME NEW u \in Clients, WorkerStep(u)
        PROVE  DetectInv'
    <2>0. /\ overlap \subseteq overlap' /\ job' = job /\ todo' = todo
          /\ todo # {} => todo \subseteq dsts[job]
      BY <1>3, WorkerFacts DEF DetectInv
    <2>1. \A w \in Clients : Asking(w, "detect")' /\ On(w)' => w \notin muted
      BY <1>3, WorkerFacts DEF Asking, On, DetectInv
    <2>2. ASSUME dsts' = dsts, muted' = muted,
                 entry'["detect"] = entry["detect"] \/ "detect" \in overlap \/ entry["detect"] = 0
          PROVE  DetectInv'
      BY <2>0, <2>1, <2>2, DetectKept
    <2>3. CASE Test(u)
      <3>1. dsts' = dsts /\ entry' = entry /\ muted' = muted
        BY <2>3, TestFacts, TestGoes DEF detection
      <3> QED
        BY <2>2, <3>1
    <2>4. CASE Make(u)
      <3>1. dsts' = dsts /\ muted' = muted
        BY <2>4 DEF Make, detection, history
      <3>2. entry'["detect"] = entry["detect"] \/ req[u].s = "detect"
        BY <1>3, OtherServices DEF Services
      <3>3. req[u].s = "detect" => "detect" \in overlap \/ entry["detect"] = 0
        BY <1>3, <2>4, WorkerFacts DEF PhaseInv, Phase, Busy, ChangeSteps, Make, Services
      <3> QED
        BY <2>2, <3>1, <3>2, <3>3
    <2>5. CASE MakeFails(u) \/ GetPipe(u) \/ WriteHeader(u) \/ Remove(u)
      BY <2>2, <2>5 DEF MakeFails, GetPipe, WriteHeader, Remove, detection, history
    <2>6. CASE Insert(u)
      <3>1. dsts' = dsts /\ entry' = entry
        BY <2>6 DEF Insert, detection
      <3>2. muted' = muted
        BY <2>6, DoneFacts DEF Insert, history
      <3> QED
        BY <2>2, <3>1, <3>2
    <2>7. CASE Erase(u)
      <3>1. dsts' = dsts /\ muted' = muted /\ entry'["detect"] = entry["detect"]
        BY <2>7 DEF Erase, StepInv, Typed, detection
      <3> QED
        BY <2>2, <3>1
    <2>8. CASE Count(u)
      <3>1. dsts' = dsts /\ entry' = entry /\ pc[u] = "count"
        BY <2>8 DEF Count, detection
      <3>2. CASE Done(u)
        <4>1. CASE UNCHANGED history
          BY <2>2, <3>1, <4>1 DEF history
        <4>2. CASE On(u) = (u \in dsts[entry["detect"]])
          <5>1. req[u] = [s |-> "detect", op |-> "off"] => u \notin dsts[entry["detect"]]
            BY <4>2 DEF On
          <5> QED
            BY <1>3, <2>0, <3>1, <3>2, <5>1, DetectMuted
        <4> QED
          BY <2>8, <4>1, <4>2 DEF Count
      <3>3. CASE ~Done(u)
        BY <2>2, <2>8, <3>1, <3>3 DEF Count, history
      <3> QED
        BY <3>2, <3>3
    <2>9. CASE Change(u)
      <3>1. /\ entry' = entry /\ Done(u) /\ pc[u] = "change" /\ req[u].s = "detect"
            /\ dsts' = [dsts EXCEPT ![entry["detect"]] = IF On(u) THEN @ \cup {u} ELSE @ \ {u}]
        BY <2>9 DEF Change, StepInv
      <3>2. req[u] = [s |-> "detect", op |-> "off"] =>
              \A o \in Objects : o = entry["detect"] => u \notin dsts'[o]
        BY <3>1 DEF On, Typed
      <3>3. ASSUME todo # {}
            PROVE  todo \subseteq dsts'[job]
        <4>1. entry["detect"] # job
          BY <2>9, <3>3 DEF Change, Free
        <4>2. job \in Objects
          BY <3>3, BoundsAssumption DEF PipeInv, Typed, Objects
        <4> QED
          BY <2>0, <3>1, <3>3, <4>1, <4>2 DEF Typed
      <3>4. \/ On(u) /\ req[u].s = "detect" /\ dsts' = [dsts EXCEPT ![entry["detect"]] = @ \cup {u}]
            \/ ~On(u) /\ dsts' = [dsts EXCEPT ![entry["detect"]] = @ \ {u}]
        BY <3>1
      <3> QED
        BY <1>3, <3>1, <3>2, <3>3, <3>4, DetectMuted
    <2> QED
      BY <1>3, <2>3, <2>4, <2>5, <2>6, <2>7, <2>8, <2>9 DEF WorkerStep
  <1> QED
    BY <1>1, <1>2, <1>3, NextCases

-----------------------------------------------------------------------------

LEMMA InvariantStep == IInv /\ [Next]_vars => IInv'
  <1> SUFFICES ASSUME IInv, [Next]_vars PROVE IInv'
    OBVIOUS
  <1> USE DEF IInv
  <1>1. CASE Next
    BY <1>1, TypedStep, BoundStep, CountStep, StepStep, PipeStep, AloneStep, PhaseStep, FrameStep,
       DetectStep
  <1>2. CASE UNCHANGED vars
    BY SMTT(30), <1>2 DEF vars, source, detection, workers, history, Typed, BoundInv, CountInv, Makers, StepInv,
         PipeInv, Alone, PhaseInv, Phase, Settled, Adds, FrameInv, DetectInv, Busy, Asking, On
  <1> QED
    BY <1>1, <1>2

\* The inductive invariant holds of every behaviour of the controllers and their
\* threads.
THEOREM Invariance == Spec => []IInv
  BY InitInvariant, InvariantStep, PTL DEF Spec

\* The type invariant: what is registered on a pipe is registered on one that is.
THEOREM TypeCorrect == Spec => []TypeOK
  <1>1. IInv => TypeOK
    BY BoundsAssumption DEF IInv, Typed, PipeInv, TypeOK
  <1> QED
    BY <1>1, Invariance, PTL

\* What the get requests of the three controllers answer is true, unless a
\* publisher left an entry behind or two requests were changing the service at once.
THEOREM AnswersAreTrue == Spec => []AnswersTrue
  <1>1. IInv => AnswersTrue
    <2> SUFFICES ASSUME IInv, NEW s \in Services, s \notin overlap, s \notin gone, Changing(s) = {}
                 PROVE  reg[s] = IF entry[s] = 0 THEN {} ELSE {entry[s]}
      BY DEF AnswersTrue
    <2>1. Settled(s)
      BY DEF IInv, PhaseInv, Changing, Busy
    <2>2. 0 \notin reg[s]
      BY DEF IInv, Typed
    <2> QED
      BY <2>1, <2>2 DEF Settled
  <1> QED
    BY <1>1, Invariance, PTL

\* A recorder is written the frames of its pipe in order and, after the header,
\* without a gap, unless two requests were changing the recording at once.
THEOREM FramesAreInOrder == Spec => []FramesInOrder
  <1>1. IInv => FramesInOrder
    BY DEF IInv, FrameInv, Ordered, FramesInOrder
  <1> QED
    BY <1>1, Invariance, PTL

\* The detector sends nothing to a client that was told it is switched off,
\* unless two requests were making the detector at once.
THEOREM UnsubscribedStaysSilent == Spec => []UnsubscribedIsSilent
  <1>1. IInv => UnsubscribedIsSilent
    <2> SUFFICES ASSUME IInv, "detect" \notin overlap, todo # {}
                 PROVE  todo \cap muted = {}
      BY DEF UnsubscribedIsSilent
    <2>1. job \in Objects
      BY BoundsAssumption DEF IInv, PipeInv, Typed, Objects
    <2> QED
      BY <2>1 DEF IInv, DetectInv
  <1> QED
    BY <1>1, Invariance, PTL
=============================================================================
