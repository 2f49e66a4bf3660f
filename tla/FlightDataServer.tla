-------------------------- MODULE FlightDataServer --------------------------
(***************************************************************************)
(* The websocket server, its clients and the client pool.  The io thread   *)
(* runs the callbacks of the connections; the messages of a client are the *)
(* jobs of its worker (an async_handler: see JobQueue), which reads and    *)
(* writes the pool and the server's map without a lock.  One action is one *)
(* access of one thread to shared state.                                   *)
(*                                                                         *)
(* A client is an object with counted references and is destroyed by the   *)
(* thread that drops the last one; the destructor joins the client's       *)
(* worker; a stop whose notification the worker misses never returns.      *)
(* What escapes a worker ends the program: down says why, and whose state  *)
(* it was about.                                                           *)
(*                                                                         *)
(* Client ids are taken to be distinct, so a client stands for its id, its *)
(* connection and its worker.  add and del treat the containers of the     *)
(* pool alike, so one sequence stands for them, and nulls for the null     *)
(* entries that del leaves among the ids.  Variant marks a definition with *)
(* a plausible mistake, used by no action.                                 *)
(***************************************************************************)
EXTENDS Naturals, Sequences, SequencesExt

CONSTANTS
  Clients,       \* one connection each
  NoClient,
  MaxMessages    \* bound on the messages of all clients

ASSUME ClientsAssumption == NoClient \notin Clients
ASSUME BoundsAssumption == MaxMessages \in Nat

(***************************************************************************)
(* hello; data_broadcast; drone_list; "ask" is a request to the recorder   *)
(* or the vehicle detection, "save" one to the flight database: the gets   *)
(* and vehicle_detection_set are answered if the pool has the client, the  *)
(* other sets without asking; "bad" is malformed or unsupported.           *)
(***************************************************************************)
Kinds == {"hello", "data", "list", "ask", "save", "bad"}

VARIABLES
  conn,      \* websocketpp: the state of each connection
  clients,   \* WebsocketServer::clients
  pool,      \* client_pool
  nulls,     \* ids with a null entry in client_ids_
  hello,     \* handshake_done of each client
  queue,     \* the jobs of each client
  received,  \* messages received so far
  pc, job,   \* each worker's next step and the message it handles
  held,      \* the references each worker holds
  todo,      \* the clients each worker has yet to send to
  joining,   \* the client each worker, in its destructor, waits for
  io, ioFor, ioMsg,   \* the io thread's next step and its arguments
  round,     \* broadcasts of each client so far
  got,       \* the last broadcast of each client that each client was sent
  missed,    \* clients whose worker missed the notification of stop()
  down       \* why the program was terminated, or "no", and who was concerned

connections == <<conn, clients>>
pools == <<pool, nulls, hello>>
jobs == <<queue, received>>
workers == <<pc, job, held, todo, joining>>
ios == <<io, ioFor, ioMsg>>
casts == <<round, got>>
ends == <<missed, down>>
vars == <<connections, pools, jobs, workers, ios, casts, ends>>

EachEmpty == [c \in Clients |-> <<>>]
EachIdle == [c \in Clients |-> "idle"]
NoJob == [c \in Clients |-> "bad"]
NoJoin == [c \in Clients |-> NoClient]

Init ==
  /\ conn = [c \in Clients |-> "none"]
  /\ clients = {}
  /\ pool = <<>>
  /\ nulls = {}
  /\ hello = [c \in Clients |-> FALSE]
  /\ received = 0
  /\ queue = EachEmpty
  /\ pc = EachIdle /\ job = NoJob
  /\ held = EachEmpty /\ todo = EachEmpty /\ joining = NoJoin
  /\ io = "idle" /\ ioFor = NoClient /\ ioMsg = "bad"
  /\ round = [c \in Clients |-> 0]
  /\ got = [c \in Clients |-> [w \in Clients |-> 0]]
  /\ missed = {}
  /\ down = [why |-> "no", whom |-> NoClient]

Listed(c) == c \in ToSet(pool)

\* Somebody but the thread in question refers to c.
Referred(c, members, holders) ==
  \/ c \in members
  \/ Listed(c)
  \/ \E w \in Clients : c \in ToSet(holders[w])

\* shared_from_this() works.
Alive(c) == Referred(c, clients, held)

IoDone == io' = "idle" /\ ioFor' = NoClient /\ ioMsg' = "bad"

\* The program is terminated, and its threads are no more.
Terminate(why, whom) ==
  /\ down' = [why |-> why, whom |-> whom]
  /\ queue' = EachEmpty
  /\ pc' = EachIdle /\ job' = NoJob
  /\ held' = EachEmpty /\ todo' = EachEmpty /\ joining' = NoJoin
  /\ IoDone
  /\ UNCHANGED <<connections, pools, received, casts, missed>>

-----------------------------------------------------------------------------
(* The io thread *)

OnOpen(c) ==
  /\ io = "idle"
  /\ conn[c] = "none"
  /\ conn' = [conn EXCEPT ![c] = "open"]
  /\ clients' = clients \cup {c}
  /\ UNCHANGED <<pools, jobs, workers, ios, casts, ends>>

\* Messages are delivered on an open connection only; add_job waits for the
\* mutex, which the worker holds while it handles a job.
OnMessage(c) ==
  /\ io = "idle"
  /\ conn[c] = "open"
  /\ c \in clients
  /\ received < MaxMessages
  /\ io' = "push"
  /\ ioFor' = c
  /\ ioMsg' \in Kinds
  /\ received' = received + 1
  /\ UNCHANGED <<connections, pools, queue, workers, casts, ends>>

Push ==
  /\ io = "push"
  /\ pc[ioFor] = "idle"
  /\ queue' = [queue EXCEPT ![ioFor] = Append(@, ioMsg)]
  /\ IoDone
  /\ UNCHANGED <<connections, pools, received, workers, casts, ends>>

\* The peer asks to close, or the connection breaks; on_close comes later.
Closing(c) ==
  /\ io = "idle"
  /\ conn[c] = "open"
  /\ conn' = [conn EXCEPT ![c] = "closing"]
  /\ UNCHANGED <<clients, pools, jobs, workers, ios, casts, ends>>

\* std::remove: what is not c, in its order.
Without(s, c) ==
  LET kept == {i \in DOMAIN s : s[i] # c}
      nth(k) == CHOOSE i \in kept : Cardinality({j \in kept : j <= i}) = k
  IN  [k \in 1 .. Cardinality(kept) |-> s[nth(k)]]

\* client_pool::del: the look-up of an id that is not there inserts it.
Del(c) ==
  /\ pool' = Without(pool, c)
  /\ nulls' = IF Listed(c) THEN nulls ELSE nulls \cup {c}

OnClose(c) ==
  /\ io = "idle"
  /\ conn[c] = "closing"
  /\ conn' = [conn EXCEPT ![c] = "closed"]
  /\ Del(c)
  /\ io' = "erase"
  /\ ioFor' = c
  /\ UNCHANGED <<clients, hello, ioMsg, jobs, workers, casts, ends>>

\* Variant: the worker is stopped although others hold the client.
EraseStops ==
  /\ io = "erase"
  /\ clients' = clients \ {ioFor}
  /\ io' = "join"
  /\ UNCHANGED <<conn, ioFor, ioMsg, pools, jobs, workers, casts, ends>>

\* If that was the last reference the destructor runs, and joins the worker.
Erase ==
  /\ io = "erase"
  /\ clients' = clients \ {ioFor}
  /\ IF Referred(ioFor, clients', held)
     THEN IoDone
     ELSE io' = "join" /\ UNCHANGED <<ioFor, ioMsg>>
  /\ UNCHANGED <<conn, pools, jobs, workers, casts, ends>>

\* Variant: the destructor waits until the queue is empty.
JoinedDrained ==
  /\ io = "join"
  /\ pc[ioFor] = "idle"
  /\ ioFor \notin missed
  /\ queue[ioFor] = <<>>
  /\ IoDone
  /\ UNCHANGED <<connections, pools, jobs, workers, casts, ends>>

Joined ==
  /\ io = "join"
  /\ pc[ioFor] = "idle"
  /\ ioFor \notin missed
  /\ IoDone
  /\ UNCHANGED <<connections, pools, jobs, workers, casts, ends>>

IoStep == Push \/ Erase \/ Joined

\* stop() clears run and notifies without msg_qm: a worker between its test of
\* the predicate and its sleep gets neither, and the join never ends.
Miss(c) ==
  /\ (io = "join" /\ ioFor = c) \/ (\E w \in Clients : joining[w] = c)
  /\ pc[c] = "idle"
  /\ missed' = missed \cup {c}
  /\ UNCHANGED <<connections, pools, jobs, workers, ios, casts, down>>

-----------------------------------------------------------------------------
(* The worker of client w *)

Goto(w, step) == pc' = [pc EXCEPT ![w] = step]

\* A client that is being destroyed handles no job any more: its handle is
\* that of the base class.
Begin(w) ==
  /\ pc[w] = "idle"
  /\ queue[w] # <<>>
  /\ Alive(w)
  /\ job' = [job EXCEPT ![w] = Head(queue[w])]
  /\ queue' = [queue EXCEPT ![w] = Tail(@)]
  /\ Goto(w, "handle")
  /\ UNCHANGED <<received, connections, pools, held, todo, joining, ios, casts, ends>>

\* handle returns once the worker has no reference left to drop; before that, a
\* list goes on with its answer.
DropTo(w, refs, waitsFor) ==
  LET over == refs = <<>> /\ waitsFor = NoClient
  IN  /\ held' = [held EXCEPT ![w] = refs]
      /\ joining' = [joining EXCEPT ![w] = waitsFor]
      /\ Goto(w, CASE ~over -> pc[w]
                   [] over /\ pc[w] = "listed" -> "answer"
                   [] OTHER -> "idle")
      /\ job' = [job EXCEPT ![w] = IF over /\ pc[w] # "listed" THEN "bad" ELSE @]

\* The controller of the flight database catches every exception, and says that
\* the request was handled.
Caught(w) ==
  /\ Goto(w, "release")
  /\ todo' = [todo EXCEPT ![w] = <<>>]
  /\ UNCHANGED <<job, held, joining, connections, pools, jobs, ios, casts, ends>>

\* Variant: a reference is made of this.
TakeThis(w, step) ==
  /\ held' = [held EXCEPT ![w] = <<w>>]
  /\ todo' = [todo EXCEPT ![w] = <<w>>]
  /\ Goto(w, step)
  /\ UNCHANGED <<job, joining, connections, pools, jobs, ios, casts, ends>>

\* shared_from_this(), then step with the reference, or the end of the program.
TakeSelf(w, step) ==
  IF Alive(w)
  THEN /\ held' = [held EXCEPT ![w] = <<w>>]
       /\ todo' = [todo EXCEPT ![w] = <<w>>]
       /\ Goto(w, step)
       /\ UNCHANGED <<job, joining, connections, pools, jobs, ios, casts, ends>>
  ELSE IF job[w] = "save" /\ step = "send"
       THEN Caught(w)
       ELSE Terminate("bad_weak_ptr", w)

\* Variant: handshake_done is not asked.
IsHelloAgain(w) == job[w] = "hello"

IsHello(w) == job[w] = "hello" /\ ~hello[w]

Hello(w) ==
  /\ pc[w] = "handle"
  /\ IsHello(w)
  /\ TakeSelf(w, "add")

\* Variant: add forgets who is no drone.
AddSome(w) ==
  /\ pc[w] = "add"
  /\ pool' \in {pool, Append(pool, w)}
  /\ nulls' = nulls \ {w}
  /\ hello' = [hello EXCEPT ![w] = TRUE]
  /\ held' = [held EXCEPT ![w] = <<>>]
  /\ todo' = [todo EXCEPT ![w] = <<>>]
  /\ Goto(w, "answer")
  /\ UNCHANGED <<connections, jobs, job, joining, ios, casts, ends>>

\* The reference goes with the call of add; on_hello takes another.
AddToPool(w) ==
  /\ pc[w] = "add"
  /\ pool' = Append(pool, w)
  /\ nulls' = nulls \ {w}
  /\ hello' = [hello EXCEPT ![w] = TRUE]
  /\ held' = [held EXCEPT ![w] = <<>>]
  /\ todo' = [todo EXCEPT ![w] = <<>>]
  /\ Goto(w, "answer")
  /\ UNCHANGED <<connections, jobs, job, joining, ios, casts, ends>>

MayBroadcast(w) == job[w] = "data" /\ hello[w]

\* on_data copies the pool, references and all.
Broadcast(w) ==
  /\ pc[w] = "handle"
  /\ MayBroadcast(w)
  /\ held' = [held EXCEPT ![w] = pool]
  /\ todo' = [todo EXCEPT ![w] = pool]
  /\ round' = [round EXCEPT ![w] = @ + 1]
  /\ Goto(w, IF pool = <<>> THEN "release" ELSE "send")
  /\ UNCHANGED <<job, joining, connections, pools, jobs, ios, got, ends>>

\* The list is made from a copy of the pool, which goes before the answer does.
List(w) ==
  /\ pc[w] = "handle"
  /\ job[w] = "list" /\ hello[w]
  /\ held' = [held EXCEPT ![w] = pool]
  /\ Goto(w, "listed")
  /\ UNCHANGED <<job, todo, joining, connections, pools, jobs, ios, casts, ends>>

Answer(w) ==
  /\ pc[w] = "answer"
  /\ TakeSelf(w, "send")

\* The drone_stream_id of the request is no hexadecimal number, or too large a
\* one: the controllers do not catch what cid_from_hex then throws.
NoId(w) ==
  /\ pc[w] = "handle"
  /\ job[w] = "ask"
  /\ Terminate("stream_id", w)

\* cpool.count(cid)
Count(w) ==
  /\ pc[w] = "handle"
  /\ job[w] \in {"ask", "save"}
  /\ Goto(w, IF Listed(w) \/ w \in nulls THEN "lookup" ELSE "release")
  /\ UNCHANGED <<job, held, todo, joining, connections, pools, jobs, ios, casts, ends>>

\* cpool.client(cid)
Lookup(w) ==
  /\ \/ pc[w] = "lookup"
     \/ pc[w] = "handle" /\ job[w] \in {"ask", "save"}
  /\ CASE Listed(w) -> TakeSelf(w, "send")
       [] ~Listed(w) /\ w \in nulls -> Terminate("null", w)
       [] OTHER -> IF job[w] = "save" THEN Caught(w) ELSE Terminate("out_of_range", w)

\* flight_data_save_set when the database cannot be reached.
NoDatabase(w) ==
  /\ pc[w] = "handle"
  /\ job[w] = "save"
  /\ Caught(w)

\* Malformed, unsupported, a second hello, too early, or a saving that is on or
\* off already: kicked.  (With the flight database on, data that come too early
\* are saved instead.)
Refuse(w) ==
  /\ pc[w] = "handle"
  /\ job[w] \in {"hello", "data", "list", "save", "bad"}
  /\ ~IsHello(w) /\ ~MayBroadcast(w)
  /\ ~(job[w] = "list" /\ hello[w])
  /\ TakeSelf(w, "kick")

Save(w) ==
  /\ pc[w] = "handle"
  /\ job[w] = "data" /\ ~MayBroadcast(w)
  /\ Goto(w, "release")
  /\ UNCHANGED <<job, held, todo, joining, connections, pools, jobs, ios, casts, ends>>

\* The flight database does not take the data, with hello or without, and what
\* it throws is no json exception.
InsertFails(w) ==
  /\ pc[w] = "handle"
  /\ job[w] = "data"
  /\ Terminate("database", w)

\* server.close throws on a connection that is not open.
Kick(w) ==
  /\ pc[w] = "kick"
  /\ IF w \in clients /\ conn[w] # "open"
     THEN Terminate("not_open", w)
     ELSE /\ conn' = [conn EXCEPT ![w] = IF w \in clients THEN "closing" ELSE @]
          /\ todo' = [todo EXCEPT ![w] = <<>>]
          /\ Goto(w, "release")
          /\ UNCHANGED <<clients, job, held, joining, pools, jobs, ios, casts, ends>>

\* Variant: the loop ends at the first client that is no longer connected.
SendRest(w) == IF Head(todo[w]) \in clients THEN Tail(todo[w]) ELSE <<>>

Rest(w) == Tail(todo[w])

\* server.send throws on a connection that is not open; the kick that follows
\* throws as well, and that is caught nowhere.
Send(w) ==
  LET d == Head(todo[w])
  IN  /\ pc[w] = "send"
      /\ IF d \in clients /\ conn[d] # "open"
         THEN IF job[w] = "save" THEN Caught(w) ELSE Terminate("not_open", d)
         ELSE /\ got' = IF d \in clients /\ job[w] = "data"
                        THEN [got EXCEPT ![d][w] = round[w]]
                        ELSE got
              /\ todo' = [todo EXCEPT ![w] = Rest(w)]
              /\ Goto(w, IF Rest(w) = <<>> THEN "release" ELSE "send")
              /\ UNCHANGED <<round, job, held, joining, connections, pools, jobs, ios, ends>>

\* The references are dropped one by one.  The last one to a client destroys
\* it, and a worker cannot join itself.
Release(w) ==
  /\ pc[w] \in {"release", "listed"}
  /\ joining[w] = NoClient
  /\ IF held[w] = <<>>
     THEN DropTo(w, <<>>, NoClient) /\ UNCHANGED <<todo, connections, pools, jobs, ios, casts, ends>>
     ELSE LET d == Head(held[w])
              last == ~Referred(d, clients, [held EXCEPT ![w] = Tail(@)])
          IN  IF last /\ d = w
              THEN Terminate("self_join", w)
              ELSE /\ DropTo(w, Tail(held[w]), IF last THEN d ELSE NoClient)
                   /\ UNCHANGED <<todo, connections, pools, jobs, ios, casts, ends>>

Join(w) ==
  /\ joining[w] # NoClient
  /\ pc[joining[w]] = "idle"
  /\ joining[w] \notin missed
  /\ DropTo(w, held[w], NoClient)
  /\ UNCHANGED <<todo, connections, pools, jobs, ios, casts, ends>>

WorkerStep(w) ==
  \/ Begin(w) \/ Hello(w) \/ AddToPool(w) \/ Broadcast(w) \/ List(w) \/ Answer(w)
  \/ NoId(w) \/ Count(w) \/ Lookup(w) \/ NoDatabase(w) \/ Refuse(w) \/ Save(w)
  \/ InsertFails(w) \/ Kick(w) \/ Send(w) \/ Release(w) \/ Join(w)

-----------------------------------------------------------------------------
(* Two threads about to touch one container, one of them to write.  What    *)
(* then happens is undefined: it goes well, or the program ends.            *)

ReadsPool(w) ==
  \/ pc[w] = "handle" /\ (MayBroadcast(w) \/ job[w] \in {"list", "ask", "save"})
  \/ pc[w] = "lookup"

RaceOnPool ==
  \E w \in Clients :
    LET others == Clients \ {w}
    IN  \/ /\ ReadsPool(w) \/ pc[w] = "add"
           /\ \/ \E v \in others : pc[v] = "add"
              \/ io = "idle" /\ (\E c \in Clients : conn[c] = "closing")

RaceOnClients ==
  /\ \E w \in Clients : pc[w] \in {"send", "kick"}
  /\ \/ io = "erase"
     \/ io = "idle" /\ (\E c \in Clients : conn[c] = "none")

Race ==
  /\ RaceOnPool \/ RaceOnClients
  /\ Terminate("race", NoClient)

-----------------------------------------------------------------------------

Up == down.why = "no"

Next ==
  /\ Up
  /\ \/ \E c \in Clients :
          OnOpen(c) \/ OnMessage(c) \/ Closing(c) \/ OnClose(c) \/ Miss(c) \/ WorkerStep(c)
     \/ IoStep
     \/ Race

Spec == Init /\ [][Next]_vars

(***************************************************************************)
(* Threads that can go on go on: a message takes its worker a finite time. *)
(* Nobody has to connect, to send or to disconnect.                        *)
(***************************************************************************)
Fairness ==
  /\ WF_vars(Up /\ IoStep)
  /\ \A c \in Clients : WF_vars(Up /\ WorkerStep(c))

FairSpec == Spec /\ Fairness

-----------------------------------------------------------------------------
(* Properties *)

Steps == {"idle", "handle", "add", "send", "listed", "answer", "lookup", "kick",
          "release"}
Causes == {"no", "race", "stream_id", "database", "bad_weak_ptr", "out_of_range",
           "null", "not_open", "self_join"}

\* Type invariant; whoever waits for a worker to end waits for that of a client
\* nobody refers to.
TypeOK ==
  /\ conn \in [Clients -> {"none", "open", "closing", "closed"}]
  /\ clients \in SUBSET Clients
  /\ pool \in Seq(Clients)
  /\ nulls \in SUBSET Clients
  /\ hello \in [Clients -> BOOLEAN]
  /\ queue \in [Clients -> Seq(Kinds)]
  /\ received \in 0 .. MaxMessages
  /\ pc \in [Clients -> Steps]
  /\ job \in [Clients -> Kinds]
  /\ held \in [Clients -> Seq(Clients)]
  /\ todo \in [Clients -> Seq(Clients)]
  /\ joining \in [Clients -> Clients \cup {NoClient}]
  /\ io \in {"idle", "push", "erase", "join"}
  /\ ioFor \in Clients \cup {NoClient}
  /\ (io = "idle") <=> (ioFor = NoClient)
  /\ io = "join" => ~Alive(ioFor)
  /\ \A w \in Clients : joining[w] # NoClient => ~Alive(joining[w])
  /\ ioMsg \in Kinds
  /\ round \in [Clients -> 0 .. MaxMessages]
  /\ got \in [Clients -> [Clients -> 0 .. MaxMessages]]
  /\ missed \in SUBSET Clients
  /\ down.why \in Causes /\ down.whom \in Clients \cup {NoClient}

\* The pool holds a client at most once, however many hellos it sends, and only
\* clients that said hello: nobody is listed or served twice.
PoolHonest ==
  /\ \A i, j \in 1 .. Len(pool) : pool[i] = pool[j] => i = j
  /\ \A c \in ToSet(pool) : hello[c]

\* A broadcast reaches every client that was in the pool when it began and is
\* still connected, whoever leaves while it is under way.
HeardByAll ==
  \A w \in Clients : job[w] = "data" /\ pc[w] \in {"send", "release"} =>
    \A c \in ToSet(held[w]) :
      \/ got[c][w] = round[w]
      \/ c \in ToSet(todo[w])
      \/ conn[c] # "open"

\* A client whose object is being or has been destroyed is never referred to
\* again, by no container and by no thread; so it is destroyed once.
DestroyedForGood ==
  [][\A c \in Clients : conn[c] # "none" /\ ~Alive(c) => ~Alive(c)']_vars

\* A client that had said hello and was removed from the pool never comes back.
RemovedForGood ==
  [][\A c \in Clients : hello[c] /\ ~Listed(c) => ~Listed(c)']_vars

\* Of the ends of the program, those that have to do with who is connected need
\* more than other clients' comings and goings: each one is about a client that
\* closes, or asked for something without a hello.  (A data race, a stream id that
\* is no number and a database that refuses an insert need nothing of the kind.)
EndsHaveCause ==
  LET c == down.whom
  IN  /\ down.why \in {"bad_weak_ptr", "self_join"} => conn[c] = "closed"
      /\ down.why = "not_open" => conn[c] \in {"closing", "closed"}
      /\ down.why = "out_of_range" => conn[c] = "closed" \/ ~hello[c]
      /\ down.why = "null" => conn[c] = "closed" /\ ~hello[c]

\* The io thread, which waits for workers in add_job and in destructors, gets on
\* to the next callback, unless the notification of a stop was missed: threads
\* that wait for each other's workers never wait in a circle.
IoReturns == io # "idle" ~> (io = "idle" \/ ~Up \/ missed # {})

\* "client disconnected": once on_close has logged that, the client is not
\* listed any more.
DisconnectedIsGone ==
  \A c \in Clients : conn[c] = "closed" /\ c \notin clients => ~Listed(c)

\* "unsupported request", "parsing error": a client that sends one is kicked,
\* and the server goes on.
KickedAlone == down.why # "not_open"
=============================================================================
