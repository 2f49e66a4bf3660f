------------------------------ MODULE MediaPipes ------------------------------
(***************************************************************************)
(* What clients switch on and off for one drone, by requests that their    *)
(* workers handle: recording, vehicle detection, and the saving of flight  *)
(* data.  Each controller keeps an entry for the object it made, and       *)
(* registers that object where the data come from: a recorder or detector  *)
(* as a writer of the drone's pipe, a flight database as a handler of the  *)
(* flight_data_manager.  The io thread makes pipes, writes frames into     *)
(* them, and erases the pipe when the publisher leaves.                    *)
(*                                                                         *)
(* Nothing but the destinations of a detector is locked.  One action is    *)
(* one access of one thread to shared state.  Where two threads are about  *)
(* to touch the same container the program may also end there: a behaviour *)
(* that stops, which Spec allows at any step.                              *)
(*                                                                         *)
(* Objects and pipes are numbered as they are made.  (The recorder that    *)
(* record_force adds is in no entry: see RtmpServer.)  Variant marks a     *)
(* definition with a plausible mistake, used by no action.                 *)
(***************************************************************************)
EXTENDS Naturals, Sequences, FiniteSets

CONSTANTS
  Clients,
  MaxRequests,   \* bounds on requests, frames and publications
  MaxFrames,
  MaxStreams

ASSUME BoundsAssumption == {MaxRequests, MaxFrames, MaxStreams} \subseteq Nat

Services == {"record", "detect", "save"}
OnPipe == {"record", "detect"}
Objects == 1 .. MaxRequests
Pipes == 1 .. MaxStreams + 1

VARIABLES
  pipe, header,     \* the drone's pipe, 0 if none, and the header of each, 0 if none
  pipes, made,      \* pipes and objects made so far
  reg,              \* the objects of each service that are registered
  entry,            \* the object in each controller's map, or 0
  published, streams, shot,   \* a publisher; publications and frames so far
  frames,           \* the frames each recorder was written
  dsts, job, todo,  \* of detectors: destinations, the frame queued for one,
                    \* and whom the one that holds its dstsm has yet to send to
  pc, req, hold, obj,   \* each worker's step, its request, and its pointers
  requests,
  muted,            \* history: clients that were told detection is off
  overlap, gone     \* history: see AnswersTrue

source == <<published, streams, shot>>
detection == <<dsts, job, todo>>
workers == <<pc, req, hold, obj, requests>>
history == <<muted, overlap, gone>>
vars == <<pipe, header, pipes, made, reg, entry, source, frames, detection, workers, history>>

NoRequest == [s |-> "save", op |-> "get"]

Init ==
  /\ pipe = 0 /\ header = [p \in Pipes |-> 0] /\ pipes = 0 /\ made = 0
  /\ reg = [s \in Services |-> {}] /\ entry = [s \in Services |-> 0]
  /\ published = FALSE /\ streams = 0 /\ shot = 0
  /\ frames = [o \in Objects |-> <<>>]
  /\ dsts = [o \in Objects |-> {}] /\ job = 0 /\ todo = {}
  /\ pc = [w \in Clients |-> "idle"] /\ req = [w \in Clients |-> NoRequest]
  /\ hold = [w \in Clients |-> 0] /\ obj = [w \in Clients |-> 0] /\ requests = 0
  /\ muted = {} /\ overlap = {} /\ gone = {}

\* media_manager::pipe: the pipe is made if there is none.
Pipe ==
  IF pipe # 0
  THEN UNCHANGED <<pipe, pipes>>
  ELSE pipe' = pipes + 1 /\ pipes' = pipes + 1

-----------------------------------------------------------------------------
(* The io thread *)

Publish ==
  /\ ~published /\ streams < MaxStreams
  /\ published' = TRUE
  /\ streams' = streams + 1
  /\ UNCHANGED <<pipe, header, pipes, made, reg, entry, shot, frames, detection, workers, history>>

\* rtmp_stream::leave erases the pipe, and with it what only the pipe refers to; the
\* pipe itself, and its header, goes unless a worker holds it.
Leave ==
  /\ published
  /\ published' = FALSE
  /\ pipe' = 0
  /\ header' = [p \in Pipes |-> IF p = pipe /\ \A w \in Clients : hold[w] # p THEN 0 ELSE header[p]]
  /\ reg' = [s \in Services |-> IF s \in OnPipe THEN {} ELSE reg[s]]
  /\ gone' = gone \cup {s \in OnPipe : entry[s] # 0}
  /\ UNCHANGED <<pipes, made, entry, streams, shot, frames, detection, workers, muted,
                 overlap>>

\* flv_demuxer::decode: any packet makes the pipe; without a writer, only key frames
\* are decoded, and what is not has no number.
NotDecoded ==
  /\ published /\ Pipe
  /\ UNCHANGED <<header, made, reg, entry, source, frames, detection, workers, history>>

\* on_decoded: the frame goes to every writer, and a key frame at the beginning of a
\* stream becomes the header of the pipe.  The header and the loop over the writers
\* are one step: what add_writer of a worker does in between is left out.  A detector
\* takes a frame a second, if anybody wants it; add_job waits for the frame that is
\* being handled.
Frame(isHeader, due) ==
  /\ published /\ shot < MaxFrames
  /\ Pipe
  /\ shot' = shot + 1
  /\ header' = IF isHeader THEN [header EXCEPT ![pipe'] = shot + 1] ELSE header
  /\ frames' = [o \in Objects |-> IF o \in reg["record"] THEN Append(frames[o], shot + 1)
                                                          ELSE frames[o]]
  /\ \/ ~due /\ UNCHANGED job
     \/ /\ due /\ job = 0 /\ todo = {}
        /\ \E d \in reg["detect"] : dsts[d] # {} /\ job' = d
  /\ UNCHANGED <<made, reg, entry, published, streams, dsts, todo, workers, history>>

-----------------------------------------------------------------------------
(* The worker of a detector *)

\* sws_scale_frame failed: the frame is not sent, nor freed.
DetectFails ==
  /\ job # 0 /\ todo = {}
  /\ job' = 0
  /\ UNCHANGED <<pipe, header, pipes, made, reg, entry, source, frames, dsts, todo, workers,
                 history>>

\* handle takes dstsm and goes through the destinations.
Detect ==
  /\ job # 0 /\ todo = {}
  /\ todo' = dsts[job]
  /\ job' = IF todo' = {} THEN 0 ELSE job
  /\ UNCHANGED <<pipe, header, pipes, made, reg, entry, source, frames, dsts, workers, history>>

SendRects ==
  /\ \E c \in todo : todo' = todo \ {c}
  /\ job' = IF todo' = {} THEN 0 ELSE job
  /\ UNCHANGED <<pipe, header, pipes, made, reg, entry, source, frames, dsts, workers, history>>

\* Variant: the destinations are copied, and the lock released.
FreeAlways(d) == TRUE

\* dstsm of detector d is free.
Free(d) == ~(todo # {} /\ job = d)

-----------------------------------------------------------------------------
(* The worker of client w *)

On(w) == req[w].op = "on"

\* A worker's locals end with its request.
Goto(w, step) ==
  /\ pc' = [pc EXCEPT ![w] = step]
  /\ hold' = IF step = "idle" THEN [hold EXCEPT ![w] = 0] ELSE hold
  /\ obj' = IF step = "idle" THEN [obj EXCEPT ![w] = 0] ELSE obj
  /\ req' = IF step = "idle" THEN [req EXCEPT ![w] = NoRequest] ELSE req
  /\ UNCHANGED requests

Receive(w, s, op) ==
  /\ pc[w] = "idle" /\ requests < MaxRequests
  /\ pc' = [pc EXCEPT ![w] = "test"]
  /\ req' = [req EXCEPT ![w] = [s |-> s, op |-> op]]
  /\ requests' = requests + 1
  /\ muted' = IF s = "detect" /\ op = "on" THEN muted \ {w} ELSE muted
  /\ UNCHANGED <<pipe, header, pipes, made, reg, entry, source, frames, detection, hold, obj,
                 overlap, gone>>

\* The request is answered (or, for a saving that is as it should be, refused).
Done(w) ==
  /\ Goto(w, "idle")
  /\ muted' = IF req[w] = [s |-> "detect", op |-> "off"] THEN muted \cup {w} ELSE muted
  /\ UNCHANGED <<overlap, gone>>

ChangeSteps == {"make", "pipe", "header", "insert", "remove", "erase"}

\* The requests that are changing the entry of s and what is registered.
Changing(s) == {w \in Clients : pc[w] \in ChangeSteps /\ req[w].s = s}

\* The request goes on to change them, be it while another does.
Begin(w, step) ==
  /\ Goto(w, step)
  /\ overlap' = IF Changing(req[w].s) # {} THEN overlap \cup {req[w].s} ELSE overlap
  /\ UNCHANGED <<muted, gone>>

\* Whether there is an entry, and what follows: a detector is made by either
\* request that sets detection.
Test(w) ==
  LET s == req[w].s
      new == entry[s] = 0
  IN  /\ pc[w] = "test"
      /\ CASE req[w].op = "get" -> Done(w)
           [] req[w].op # "get" /\ s = "detect" /\ new -> Begin(w, "make")
           [] req[w].op # "get" /\ s = "detect" /\ ~new -> Goto(w, "count") /\ UNCHANGED history
           [] req[w].op # "get" /\ s # "detect" /\ On(w) = new ->
                Begin(w, IF On(w) THEN "make" ELSE IF s = "save" THEN "remove" ELSE "pipe")
           [] OTHER -> Done(w)
      /\ UNCHANGED <<pipe, header, pipes, made, reg, entry, source, frames, detection>>

\* Variant: the recorder or detector of last time is used again.
LastObject == IF made = 0 THEN 1 ELSE made

NewObject == made + 1

Make(w) ==
  LET s == req[w].s
  IN  /\ pc[w] = "make"
      /\ made' = NewObject
      /\ entry' = [entry EXCEPT ![s] = NewObject]
      /\ Goto(w, IF s = "save" THEN "insert" ELSE "pipe")
      /\ UNCHANGED <<pipe, header, pipes, reg, source, frames, detection, history>>

\* The constructor of the flight database throws: logged, and nothing was made.
MakeFails(w) ==
  /\ pc[w] = "make" /\ req[w].s = "save"
  /\ Goto(w, "idle")
  /\ UNCHANGED <<pipe, header, pipes, made, reg, entry, source, frames, detection, history>>

GetPipe(w) ==
  /\ pc[w] = "pipe"
  /\ Pipe
  /\ hold' = [hold EXCEPT ![w] = pipe']
  /\ pc' = [pc EXCEPT ![w] = IF On(w) \/ req[w].s = "detect" THEN "header" ELSE "remove"]
  /\ UNCHANGED <<header, made, reg, entry, source, frames, detection, req, obj, requests, history>>

\* add_writer: the header first, be it of a pipe that was erased meanwhile.
WriteHeader(w) ==
  LET o == entry[req[w].s]
      h == header[hold[w]]
  IN  /\ pc[w] = "header"
      /\ obj' = [obj EXCEPT ![w] = o]
      /\ frames' = IF h = 0 \/ req[w].s # "record" \/ o = 0 THEN frames
                   ELSE [frames EXCEPT ![o] = Append(@, h)]
      /\ pc' = [pc EXCEPT ![w] = "insert"]
      /\ UNCHANGED <<pipe, header, pipes, made, reg, entry, source, detection, req, hold, requests,
                     history>>

\* Variant: a pipe that was erased is found again by its name.
ReachesAny(w) == TRUE

\* What the worker holds is where the data come from now.  A pipe that was erased
\* goes with its last reference.
Reaches(w) == req[w].s = "save" \/ hold[w] = pipe

Insert(w) ==
  LET s == req[w].s
      o == IF s = "save" THEN entry[s] ELSE obj[w]
  IN  /\ pc[w] = "insert"
      /\ reg' = IF o # 0 /\ Reaches(w) THEN [reg EXCEPT ![s] = @ \cup {o}] ELSE reg
      /\ IF s = "detect" THEN Goto(w, "count") /\ UNCHANGED history ELSE Done(w)
      /\ UNCHANGED <<pipe, header, pipes, made, entry, source, frames, detection>>

\* Variant: what is registered stays.
RemoveNothing(s) == reg

Removed(s) == [reg EXCEPT ![s] = @ \ {entry[s]}]

Remove(w) ==
  LET s == req[w].s
  IN  /\ pc[w] = "remove"
      /\ reg' = IF Reaches(w) THEN Removed(s) ELSE reg
      /\ Goto(w, "erase")
      /\ UNCHANGED <<pipe, header, pipes, made, entry, source, frames, detection, history>>

Erase(w) ==
  LET s == req[w].s
  IN  /\ pc[w] = "erase"
      /\ entry' = [entry EXCEPT ![s] = 0]
      /\ Goto(w, "idle")
      /\ gone' = gone \ {s}
      /\ UNCHANGED <<pipe, header, pipes, made, reg, source, frames, detection, muted, overlap>>

\* count() reads the destinations without their lock.
Count(w) ==
  LET there == w \in dsts[entry["detect"]]
  IN  /\ pc[w] = "count"
      /\ IF On(w) = there THEN Done(w) ELSE Goto(w, "change") /\ UNCHANGED history
      /\ UNCHANGED <<pipe, header, pipes, made, reg, entry, source, frames, detection>>

Change(w) ==
  LET d == entry["detect"]
  IN  /\ pc[w] = "change"
      /\ Free(d)
      /\ dsts' = [dsts EXCEPT ![d] = IF On(w) THEN @ \cup {w} ELSE @ \ {w}]
      /\ Done(w)
      /\ UNCHANGED <<pipe, header, pipes, made, reg, entry, source, frames, job, todo>>

WorkerStep(w) ==
  \/ Test(w) \/ Make(w) \/ MakeFails(w) \/ GetPipe(w) \/ WriteHeader(w) \/ Insert(w)
  \/ Remove(w) \/ Erase(w) \/ Count(w) \/ Change(w)

-----------------------------------------------------------------------------
Next ==
  \/ Publish \/ Leave \/ NotDecoded
  \/ \E h, due \in BOOLEAN : Frame(h, due)
  \/ DetectFails \/ Detect \/ SendRects
  \/ \E w \in Clients, s \in Services, op \in {"get", "on", "off"} : Receive(w, s, op)
  \/ \E w \in Clients : WorkerStep(w)

Spec == Init /\ [][Next]_vars

-----------------------------------------------------------------------------
(* Properties *)

\* Type invariant; what is registered on a pipe is registered on one that is.
TypeOK ==
  /\ pipe \in 0 .. pipes /\ made \in 0 .. MaxRequests
  /\ \A s \in Services : reg[s] \subseteq 1 .. made /\ entry[s] \in 0 .. made
  /\ pipe = 0 => \A s \in OnPipe : reg[s] = {}
  /\ header \in [Pipes -> 0 .. shot] /\ job \in 0 .. made /\ todo \subseteq Clients
  /\ todo # {} => job # 0
  /\ muted \subseteq Clients /\ overlap \subseteq Services /\ gone \subseteq OnPipe

\* What media_record_get, vehicle_detection_get and flight_data_save_get answer
\* is true: while no request is changing it, the object in the entry is registered
\* where its data come from, and no other is.  Two things break it: a publisher that
\* left while there was an entry (it stays, of a detector for good), and two requests
\* that were changing the same service at the same time.
AnswersTrue ==
  \A s \in Services \ (overlap \cup gone) : Changing(s) = {} =>
    reg[s] = IF entry[s] = 0 THEN {} ELSE {entry[s]}

\* A recorder is written the frames in the order they were taken and, but for the
\* header it starts with, without a gap, whatever is published, added and removed
\* between the frames; unless two requests were changing the recording at the same
\* time.
FramesInOrder ==
  "record" \notin overlap => \A o \in Objects : LET f == frames[o] IN
    \A i \in 1 .. Len(f) - 1 : f[i] < f[i + 1] /\ (i > 1 => f[i + 1] = f[i] + 1)

\* A client that was told that detection is off is sent no more rectangles,
\* although a frame may be in the detector at that time, and others may be adding
\* or deleting themselves; unless two requests were making the detector at the same
\* time.
UnsubscribedIsSilent == "detect" \notin overlap => todo \cap muted = {}
=============================================================================
