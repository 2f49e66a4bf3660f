----------------------- MODULE FlightDataServerProofs -----------------------
(***************************************************************************)
(* Proofs about FlightDataServer for any clients and any number of         *)
(* messages.  Who is connected is in the server's map, who said hello and  *)
(* is not yet gone is in the pool, and a thread that waits in a destructor *)
(* waits for a client nobody refers to.                                    *)
(***************************************************************************)
EXTENDS FlightDataServer, FiniteSetTheorems, TLAPS

Typed ==
  /\ conn \in [Clients -> {"none", "open", "closing", "closed"}]
  /\ clients \in SUBSET Clients
  /\ pool \in Seq(Clients)
  /\ nulls \in SUBSET Clients
  /\ hello \in [Clients -> BOOLEAN]
  /\ queue \in [Clients -> Seq(Kinds)]
  /\ received \in 0 .. MaxMessages
  /\ pc \in [Clients -> Steps]
  /\ job \in [Clients -> Kinds]
  /\ held \in [Clients -> Seq(Clients)]
  /\ todo \in [Clients -> Seq(Clients)]
  /\ joining \in [Clients -> Clients \cup {NoClient}]
  /\ io \in {"idle", "push", "erase", "join"}
  /\ ioFor \in Clients \cup {NoClient}
  /\ (io = "idle") <=> (ioFor = NoClient)
  /\ ioMsg \in Kinds
  /\ round \in [Clients -> Nat]
  /\ got \in [Clients -> [Clients -> Nat]]
  /\ missed \in SUBSET Clients
  /\ down.why \in Causes /\ down.whom \in Clients \cup {NoClient}

\* The clients that somebody refers to.
Refs == clients \cup ToSet(pool) \cup UNION {ToSet(held[w]) : w \in Clients}

\* Who is connected, and where the io thread is with whom.
ConnInv ==
  /\ \A c \in Clients : conn[c] \in {"open", "closing"} => c \in clients
  /\ \A c \in Clients : conn[c] = "none" =>
       c \notin Refs /\ ~hello[c] /\ pc[c] = "idle" /\ queue[c] = <<>>
  /\ io \in {"erase", "join"} => conn[ioFor] = "closed"
  /\ io = "push" => conn[ioFor] # "none"

\* Who said hello and is connected is listed; a null entry is left by who closed
\* without a hello.
ListedInv ==
  /\ \A c \in Clients : hello[c] /\ conn[c] \in {"open", "closing"} => Listed(c)
  /\ \A c \in nulls : conn[c] = "closed" /\ ~hello[c]

\* Where the worker of w is with what.
WorkerInv(w) ==
  /\ pc[w] \in {"idle", "handle", "lookup", "answer"} => held[w] = <<>>
  /\ pc[w] \in {"add", "kick"} => held[w] = <<w>>
  /\ pc[w] = "add" => ~hello[w]
  /\ pc[w] \in {"add", "listed", "answer"} => job[w] \notin {"data", "save"}
  /\ pc[w] = "lookup" => job[w] \in {"ask", "save"}
  /\ pc[w] = "send" => todo[w] # <<>>
  /\ joining[w] # NoClient => pc[w] \in {"release", "listed"}

\* Whoever waits for a worker to end waits for that of a client that nobody
\* refers to.
JoinInv ==
  /\ io = "join" => ioFor \notin Refs
  /\ \A w \in Clients : joining[w] # NoClient =>
       joining[w] \notin Refs /\ conn[joining[w]] # "none"

\* Every broadcast was received.
Handling(w) == IF pc[w] = "handle" THEN 1 ELSE 0
Work(w) == round[w] + Handling(w) + Len(queue[w])
Coming(w) == IF io = "push" /\ ioFor = w THEN 1 ELSE 0

CountInv ==
  \A w \in Clients :
    /\ Work(w) + Coming(w) <= received
    /\ \A c \in Clients : got[c][w] <= round[w]

IInv ==
  /\ Typed /\ ConnInv /\ ListedInv /\ JoinInv /\ CountInv
  /\ \A w \in Clients : WorkerInv(w)
  /\ PoolHonest /\ HeardByAll /\ EndsHaveCause

-----------------------------------------------------------------------------
(* Sequences *)

LEMMA ToSetEmpty == ToSet(<<>>) = {}
  BY DEF ToSet

LEMMA ToSetOne ==
  ASSUME NEW x
  PROVE  ToSet(<<x>>) = {x}
  <1>1. DOMAIN <<x>> = {1} /\ <<x>>[1] = x
    OBVIOUS
  <1> QED
    BY <1>1 DEF ToSet

LEMMA InSet ==
  ASSUME NEW S, NEW s \in Seq(S)
  PROVE  /\ ToSet(s) \subseteq S
         /\ \A x : x \in ToSet(s) <=> \E i \in 1 .. Len(s) : s[i] = x
  <1>1. DOMAIN s = 1 .. Len(s) /\ \A i \in 1 .. Len(s) : s[i] \in S
    OBVIOUS
  <1> QED
    BY <1>1 DEF ToSet

LEMMA AppendFacts ==
  ASSUME NEW S, NEW s \in Seq(S), NEW x \in S
  PROVE  /\ Append(s, x) \in Seq(S)
         /\ Len(Append(s, x)) = Len(s) + 1 /\ Len(s) \in Nat
         /\ ToSet(Append(s, x)) = ToSet(s) \cup {x}
  <1> DEFINE t == Append(s, x)
  <1>1. /\ t \in Seq(S) /\ Len(t) = Len(s) + 1 /\ Len(s) \in Nat
        /\ \A i \in 1 .. Len(s) : t[i] = s[i]
        /\ t[Len(s) + 1] = x
    OBVIOUS
  <1> HIDE DEF t
  <1>2. ASSUME NEW y PROVE y \in ToSet(t) <=> y \in ToSet(s) \/ y = x
    <2>1. y \in ToSet(t) <=> \E i \in 1 .. Len(t) : t[i] = y
      BY <1>1, InSet
    <2>2. y \in ToSet(s) <=> \E i \in 1 .. Len(s) : s[i] = y
      BY InSet
    <2>3. \A i \in 1 .. Len(t) : i \in 1 .. Len(s) \/ i = Len(s) + 1
      BY <1>1
    <2>4. 1 .. Len(s) \subseteq 1 .. Len(t) /\ Len(s) + 1 \in 1 .. Len(t)
      BY <1>1
    <2> QED
      BY <1>1, <2>1, <2>2, <2>3, <2>4
  <1> QED
    BY <1>1, <1>2 DEF t

LEMMA TailFacts ==
  ASSUME NEW S, NEW s \in Seq(S), s # <<>>
  PROVE  /\ Head(s) \in S /\ Tail(s) \in Seq(S)
         /\ Len(Tail(s)) = Len(s) - 1 /\ Len(s) \in Nat \ {0}
         /\ ToSet(s) = ToSet(Tail(s)) \cup {Head(s)}
  <1> DEFINE t == Tail(s)
  <1>1. /\ t \in Seq(S) /\ Len(t) = Len(s) - 1 /\ Len(s) \in Nat \ {0}
        /\ \A i \in 1 .. Len(t) : t[i] = s[i + 1]
        /\ Head(s) = s[1] /\ Head(s) \in S
    OBVIOUS
  <1> HIDE DEF t
  <1>2. ASSUME NEW y PROVE y \in ToSet(s) <=> y \in ToSet(t) \/ y = s[1]
    <2>1. y \in ToSet(t) <=> \E i \in 1 .. Len(t) : t[i] = y
      BY <1>1, InSet
    <2>2. y \in ToSet(s) <=> \E i \in 1 .. Len(s) : s[i] = y
      BY InSet
    <2>3. \A i \in 1 .. Len(s) : i = 1 \/ (i - 1 \in 1 .. Len(t) /\ s[i] = t[i - 1])
      BY <1>1
    <2>4. 1 \in 1 .. Len(s) /\ \A i \in 1 .. Len(t) : i + 1 \in 1 .. Len(s)
      BY <1>1
    <2> QED
      BY <1>1, <2>1, <2>2, <2>3, <2>4
  <1> QED
    BY <1>1, <1>2 DEF t

\* Ranks in a set of numbers up to n are different, and are all those up to its
\* size.
LEMMA RankFacts ==
  ASSUME NEW n \in Nat, NEW K \in SUBSET (1 .. n)
  PROVE  /\ Cardinality(K) \in Nat
         /\ \A i, j \in K :
              Cardinality({k \in K : k <= i}) = Cardinality({k \in K : k <= j}) => i = j
         /\ \A r \in 1 .. Cardinality(K) : \E i \in K : Cardinality({k \in K : k <= i}) = r
         /\ \A i \in K : Cardinality({k \in K : k <= i}) \in 1 .. Cardinality(K)
  <1> DEFINE Below(i) == {k \in K : k <= i}
             rank == [i \in K |-> Cardinality(Below(i))]
             N == Cardinality(K)
  <1>1. IsFiniteSet(K) /\ N \in Nat
    <2>1. IsFiniteSet(1 .. n)
      BY FS_Interval
    <2>2. IsFiniteSet(K)
      BY <2>1, FS_Subset
    <2> QED
      BY <2>2, FS_CardinalityType
  <1>2. ASSUME NEW i \in K
        PROVE  IsFiniteSet(Below(i)) /\ Cardinality(Below(i)) \in 1 .. N
    <2>1. Below(i) \in SUBSET K
      OBVIOUS
    <2>2. IsFiniteSet(Below(i)) /\ Cardinality(Below(i)) <= N /\ Cardinality(Below(i)) \in Nat
      BY <1>1, <2>1, FS_Subset, FS_CardinalityType
    <2>3. i \in Below(i)
      OBVIOUS
    <2>4. Cardinality(Below(i)) # 0
      BY <2>2, <2>3, FS_EmptySet
    <2> QED
      BY <1>1, <2>2, <2>4
  <1>3. ASSUME NEW i \in K, NEW j \in K, i < j
        PROVE  Cardinality(Below(i)) # Cardinality(Below(j))
    <2>1. i \in Nat /\ j \in Nat /\ \A k \in K : k \in Nat
      OBVIOUS
    <2>2. \A k \in K : k <= i => k <= j
      BY <1>3, <2>1
    <2>3. ~(j <= i) /\ j <= j
      BY <1>3, <2>1
    <2>4. Below(i) \in SUBSET Below(j) /\ j \in Below(j) /\ j \notin Below(i)
      BY <2>2, <2>3
    <2> QED
      BY <1>2, <2>4, FS_Subset
  <1>4. \A i, j \in K : Cardinality(Below(i)) = Cardinality(Below(j)) => i = j
    BY <1>3
  <1> HIDE DEF N, Below
  <1>5. rank \in Injection(K, 1 .. N)
    BY <1>2, <1>4 DEF Injection, IsInjective
  <1>6. IsFiniteSet(1 .. N) /\ Cardinality(1 .. N) = N
    BY <1>1, FS_Interval
  <1>7. rank \in Surjection(K, 1 .. N)
    BY <1>1, <1>5, <1>6, FS_Injection DEF N
  <1>8. \A r \in 1 .. N : \E i \in K : Cardinality(Below(i)) = r
    BY <1>7 DEF Surjection
  <1> QED
    BY <1>1, <1>2, <1>4, <1>8 DEF N, Below

LEMMA WithoutFacts ==
  ASSUME NEW S, NEW s \in Seq(S), NEW c
  PROVE  /\ Without(s, c) \in Seq(S)
         /\ ToSet(Without(s, c)) = ToSet(s) \ {c}
         /\ (\A i, j \in 1 .. Len(s) : s[i] = s[j] => i = j) =>
              \A i, j \in 1 .. Len(Without(s, c)) :
                Without(s, c)[i] = Without(s, c)[j] => i = j
  <1> DEFINE kept == {i \in DOMAIN s : s[i] # c}
             Rank(i) == Cardinality({j \in kept : j <= i})
             nth(k) == CHOOSE i \in kept : Rank(i) = k
             N == Cardinality(kept)
             t == [k \in 1 .. N |-> s[nth(k)]]
  <1>1. Without(s, c) = t
    BY DEF Without
  <1>2. Len(s) \in Nat /\ DOMAIN s = 1 .. Len(s) /\ kept \in SUBSET (1 .. Len(s))
    OBVIOUS
  <1>3. /\ N \in Nat
        /\ \A i, j \in kept : Rank(i) = Rank(j) => i = j
        /\ \A r \in 1 .. N : \E i \in kept : Rank(i) = r
        /\ \A i \in kept : Rank(i) \in 1 .. N
    BY <1>2, RankFacts
  <1> HIDE DEF N, Rank
  <1>4. \A k \in 1 .. N : nth(k) \in kept /\ Rank(nth(k)) = k
    BY <1>3
  <1>5. \A i \in kept : nth(Rank(i)) = i
    BY <1>3, <1>4
  <1> HIDE DEF nth
  <1>6. \A k \in 1 .. N : s[nth(k)] \in S /\ s[nth(k)] # c
    BY <1>2, <1>4
  <1>7. t \in Seq(S) /\ Len(t) = N /\ \A k \in 1 .. N : t[k] = s[nth(k)]
    BY <1>3, <1>6
  <1> HIDE DEF t
  <1>8. ASSUME NEW x PROVE x \in ToSet(t) <=> x \in ToSet(s) /\ x # c
    <2>1. x \in ToSet(t) <=> \E k \in 1 .. N : t[k] = x
      BY <1>7, InSet
    <2>2. x \in ToSet(s) <=> \E i \in 1 .. Len(s) : s[i] = x
      BY InSet
    <2>3. ASSUME x \in ToSet(t) PROVE x \in ToSet(s) /\ x # c
      BY <1>2, <1>4, <1>6, <1>7, <2>1, <2>2, <2>3
    <2>4. ASSUME x \in ToSet(s), x # c PROVE x \in ToSet(t)
      <3>1. PICK i \in 1 .. Len(s) : s[i] = x
        BY <2>2, <2>4
      <3>2. i \in kept
        BY <1>2, <2>4, <3>1
      <3> QED
        BY <1>3, <1>5, <1>7, <2>1, <3>1, <3>2
    <2> QED
      BY <2>3, <2>4
  <1>9. ASSUME \A i, j \in 1 .. Len(s) : s[i] = s[j] => i = j,
               NEW i \in 1 .. Len(t), NEW j \in 1 .. Len(t), t[i] = t[j]
        PROVE  i = j
    <2>1. nth(i) \in 1 .. Len(s) /\ nth(j) \in 1 .. Len(s)
      BY <1>2, <1>4, <1>7
    <2>2. nth(i) = nth(j)
      BY <1>7, <1>9, <2>1
    <2> QED
      BY <1>4, <1>7, <2>2
  <1> QED
    BY <1>1, <1>7, <1>8, <1>9

-----------------------------------------------------------------------------
(* Steps that have a shape in common *)

LEMMA AliveRefs ==
  /\ \A c : Alive(c) <=> c \in Refs
  /\ \A c : Alive(c)' <=> c \in Refs'
  BY DEF Alive, Referred, Listed, Refs

\* After a step nobody is referred to that was not before.
NoRevival == Refs' \subseteq Refs

\* What the counts of v are.
LEMMA CountFacts ==
  ASSUME Typed, CountInv, NEW v \in Clients
  PROVE  /\ round[v] \in Nat /\ Len(queue[v]) \in Nat /\ received \in Nat
         /\ \A c \in Clients : got[c][v] \in Nat /\ got[c][v] <= round[v]
         /\ Work(v) + Coming(v) <= received
  <1>1. round[v] \in Nat /\ \A c \in Clients : got[c][v] \in Nat
    BY DEF Typed
  <1>2. queue[v] \in Seq(Kinds)
    BY DEF Typed
  <1>3. received \in Nat
    BY BoundsAssumption DEF Typed
  <1>4. \A c \in Clients : got[c][v] <= round[v]
    BY DEF CountInv
  <1>5. Work(v) + Coming(v) <= received
    BY DEF CountInv
  <1> QED
    BY <1>1, <1>2, <1>3, <1>4, <1>5

\* Nobody does more than was received.
LEMMA CountKept ==
  ASSUME Typed, CountInv, Typed',
         \A v \in Clients :
           /\ Work(v)' <= Work(v)
           /\ Coming(v)' + received <= Coming(v) + received',
         \A v, c \in Clients : got'[c][v] <= round'[v]
  PROVE  CountInv'
  <1>1. ASSUME NEW v \in Clients
        PROVE  Work(v)' + Coming(v)' <= received'
    <2>1. received \in Nat /\ Work(v) + Coming(v) <= received
      BY CountFacts
    <2>2. Work(v) \in Nat
      BY CountFacts DEF Work, Handling
    <2>3. round'[v] \in Nat /\ queue'[v] \in Seq(Kinds) /\ received' \in Nat
      BY BoundsAssumption DEF Typed
    <2>4. Work(v)' \in Nat
      BY <2>3 DEF Work, Handling
    <2>5. Coming(v) \in Nat /\ Coming(v)' \in Nat
      BY DEF Coming
    <2>6. Work(v)' <= Work(v) /\ Coming(v)' + received <= Coming(v) + received'
      OBVIOUS
    <2> QED
      BY <2>1, <2>2, <2>3, <2>4, <2>5, <2>6
  <1> QED
    BY <1>1 DEF CountInv

\* Worker w moves on, and changes nothing of the connections and the pool.
LEMMA LocalStep ==
  ASSUME IInv, Up, NEW w \in Clients, pc[w] # "idle",
         NEW p \in Steps \ {"handle"}, NEW j \in Kinds, NEW r \in Nat,
         NEW h \in Seq(Clients), NEW t \in Seq(Clients), NEW n \in Clients \cup {NoClient},
         UNCHANGED <<connections, pools, jobs, ios, got, ends>>,
         pc' = [pc EXCEPT ![w] = p], job' = [job EXCEPT ![w] = j],
         held' = [held EXCEPT ![w] = h], todo' = [todo EXCEPT ![w] = t],
         joining' = [joining EXCEPT ![w] = n], round' = [round EXCEPT ![w] = r],
         ToSet(h) \subseteq Refs,
         n # NoClient => n \notin Refs' /\ conn[n] # "none",
         r = round[w] \/ (r = round[w] + 1 /\ pc[w] = "handle"),
         WorkerInv(w)',
         j = "data" /\ p \in {"send", "release"} =>
           \A c \in ToSet(h) : got[c][w] = r \/ c \in ToSet(t) \/ conn[c] # "open"
  PROVE  IInv' /\ NoRevival
  <1> USE DEF connections, pools, jobs, ios, ends, Up
  <1>1. Typed /\ ConnInv /\ ListedInv /\ JoinInv /\ CountInv /\ PoolHonest /\ HeardByAll
    BY DEF IInv
  <1>2. /\ pc[w]' = p /\ job[w]' = j /\ held[w]' = h /\ todo[w]' = t /\ joining[w]' = n
        /\ round[w]' = r
        /\ \A v \in Clients \ {w} :
             /\ pc[v]' = pc[v] /\ job[v]' = job[v] /\ held[v]' = held[v]
             /\ todo[v]' = todo[v] /\ joining[v]' = joining[v] /\ round[v]' = round[v]
    BY <1>1 DEF Typed
  <1>3. Typed'
    BY <1>1 DEF Typed
  <1>4. Refs' \subseteq Refs
    BY <1>2 DEF Refs
  <1>5. ConnInv'
    BY <1>1, <1>2, <1>4 DEF ConnInv
  <1>6. ListedInv'
    BY <1>1 DEF ListedInv, Listed
  <1>7. JoinInv'
    <2>1. io' = "join" => ioFor' \notin Refs'
      BY <1>1, <1>4 DEF JoinInv
    <2>2. ASSUME NEW v \in Clients, joining[v]' # NoClient
          PROVE  joining[v]' \notin Refs' /\ conn'[joining[v]'] # "none"
      <3>1. CASE v = w
        BY <1>2, <2>2, <3>1
      <3>2. CASE v # w
        BY <1>1, <1>2, <1>4, <2>2, <3>2 DEF JoinInv
      <3> QED
        BY <3>1, <3>2
    <2> QED
      BY <2>1, <2>2 DEF JoinInv
  <1>8. CountInv'
    <2>1. ASSUME NEW v \in Clients
          PROVE  Work(v)' <= Work(v)
      <3>1. round[v] \in Nat /\ Len(queue[v]) \in Nat
        BY <1>1, CountFacts
      <3>2. CASE v = w
        BY <1>2, <3>1, <3>2 DEF Work, Handling
      <3>3. CASE v # w
        BY <1>2, <3>1, <3>3 DEF Work, Handling
      <3> QED
        BY <3>2, <3>3
    <2>2. \A v \in Clients : Coming(v)' + received <= Coming(v) + received'
      BY <1>1, BoundsAssumption DEF Coming, Typed
    <2>3. \A v, u \in Clients : got'[u][v] <= round'[v]
      BY <1>1, <1>2, CountFacts
    <2> QED
      BY <1>1, <1>3, <2>1, <2>2, <2>3, CountKept
  <1>9. \A v \in Clients : WorkerInv(v)'
    BY <1>2 DEF WorkerInv, IInv
  <1>10. PoolHonest'
    BY <1>1 DEF PoolHonest
  <1>11. ASSUME NEW v \in Clients, job[v]' = "data", pc[v]' \in {"send", "release"},
                NEW c \in ToSet(held[v])'
         PROVE  got[c][v]' = round[v]' \/ c \in ToSet(todo[v])' \/ conn[c]' # "open"
    <2>1. CASE v = w
      BY <1>2, <1>11, <2>1
    <2>2. CASE v # w
      BY <1>1, <1>2, <1>11, <2>2 DEF HeardByAll
    <2> QED
      BY <2>1, <2>2
  <1>12. EndsHaveCause'
    BY DEF EndsHaveCause
  <1> QED
    BY <1>3, <1>4, <1>5, <1>6, <1>7, <1>8, <1>9, <1>10, <1>11, <1>12 DEF IInv, NoRevival, HeardByAll

\* The program ends, for a reason that EndsHaveCause allows.
LEMMA TerminateStep ==
  ASSUME IInv, NEW why \in Causes, NEW c \in Clients \cup {NoClient}, Terminate(why, c),
         why \in {"bad_weak_ptr", "self_join"} => conn[c] = "closed",
         why = "not_open" => conn[c] \in {"closing", "closed"},
         why = "out_of_range" => conn[c] = "closed" \/ ~hello[c],
         why = "null" => conn[c] = "closed" /\ ~hello[c]
  PROVE  IInv' /\ NoRevival
  <1> USE DEF Terminate, connections, pools, casts, IoDone
  <1>1. Typed /\ ConnInv /\ ListedInv /\ CountInv /\ PoolHonest
    BY DEF IInv
  <1>2. \A w \in Clients :
          /\ pc[w]' = "idle" /\ job[w]' = "bad" /\ held[w]' = <<>> /\ queue[w]' = <<>>
          /\ joining[w]' = NoClient
    BY DEF EachIdle, NoJob, EachEmpty, NoJoin
  <1>3. Typed'
    <2>1. /\ queue' \in [Clients -> Seq(Kinds)] /\ pc' \in [Clients -> Steps]
          /\ job' \in [Clients -> Kinds] /\ held' \in [Clients -> Seq(Clients)]
          /\ todo' \in [Clients -> Seq(Clients)]
          /\ joining' \in [Clients -> Clients \cup {NoClient}]
      BY DEF EachIdle, NoJob, EachEmpty, NoJoin, Kinds, Steps
    <2>2. down'.why \in Causes /\ down'.whom \in Clients \cup {NoClient}
      OBVIOUS
    <2>3. /\ io' = "idle" /\ ioFor' = NoClient /\ ioMsg' \in Kinds
          /\ UNCHANGED <<conn, clients, pool, nulls, hello, received, round, got, missed>>
      BY DEF pools, Kinds
    <2> HIDE DEF Terminate, IoDone
    <2> QED
      BY <1>1, <2>1, <2>2, <2>3 DEF Typed
  <1>4. Refs' \subseteq Refs
    BY <1>2, ToSetEmpty DEF Refs
  <1>5. ConnInv'
    BY <1>1, <1>2, <1>4 DEF ConnInv
  <1>6. ListedInv'
    BY <1>1 DEF ListedInv, Listed
  <1>7. JoinInv'
    BY <1>2 DEF JoinInv
  <1>8. CountInv'
    <2>1. ASSUME NEW v \in Clients
          PROVE  Work(v)' <= Work(v)
      <3>1. round[v] \in Nat /\ Len(queue[v]) \in Nat
        BY <1>1, CountFacts
      <3> QED
        BY <1>2, <3>1 DEF Work, Handling
    <2>2. \A v \in Clients : Coming(v)' + received <= Coming(v) + received'
      <3>1. \A v \in Clients : Coming(v)' = 0 /\ Coming(v) \in {0, 1}
        BY DEF Coming
      <3>2. received' = received /\ received \in Nat
        BY <1>1, BoundsAssumption DEF Typed
      <3> QED
        BY <3>1, <3>2
    <2>3. \A v, u \in Clients : got'[u][v] <= round'[v]
      BY <1>1, CountFacts
    <2> QED
      BY <1>1, <1>3, <2>1, <2>2, <2>3, CountKept
  <1>9. \A v \in Clients : WorkerInv(v)'
    BY <1>2 DEF WorkerInv
  <1>10. PoolHonest'
    BY <1>1 DEF PoolHonest
  <1>11. HeardByAll'
    BY <1>2 DEF HeardByAll
  <1>12. EndsHaveCause'
    BY DEF EndsHaveCause
  <1> QED
    BY <1>3, <1>4, <1>5, <1>6, <1>7, <1>8, <1>9, <1>10, <1>11, <1>12 DEF IInv, NoRevival

\* What is known of a worker that is at work.
LEMMA AtWork ==
  ASSUME IInv, NEW w \in Clients
  PROVE  /\ pc[w] \in Steps /\ job[w] \in Kinds /\ round[w] \in Nat
         /\ held[w] \in Seq(Clients) /\ todo[w] \in Seq(Clients)
         /\ joining[w] \in Clients \cup {NoClient}
         /\ pool \in Seq(Clients) /\ queue[w] \in Seq(Kinds)
         /\ ToSet(held[w]) \subseteq Refs /\ ToSet(pool) \subseteq Refs /\ clients \subseteq Refs
         /\ pc[w] # "idle" /\ w \notin clients => conn[w] = "closed"
         /\ pc[w] # "idle" => conn[w] # "none"
         /\ \A c \in Refs \cap Clients : conn[c] # "none"
         /\ pc[w] \notin {"release", "listed"} => joining[w] = NoClient
         /\ WorkerInv(w)
  <1>1. Typed /\ ConnInv /\ WorkerInv(w)
    BY DEF IInv
  <1>2. /\ pc[w] \in Steps /\ job[w] \in Kinds /\ round[w] \in Nat
        /\ held[w] \in Seq(Clients) /\ todo[w] \in Seq(Clients)
        /\ joining[w] \in Clients \cup {NoClient}
        /\ pool \in Seq(Clients) /\ queue[w] \in Seq(Kinds)
        /\ conn[w] \in {"none", "open", "closing", "closed"}
    BY <1>1 DEF Typed
  <1>3. ToSet(held[w]) \subseteq Refs /\ ToSet(pool) \subseteq Refs /\ clients \subseteq Refs
    BY DEF Refs
  <1> QED
    BY <1>1, <1>2, <1>3 DEF ConnInv, WorkerInv

\* The controller of the flight database catches what is thrown.
LEMMA CaughtStep ==
  ASSUME IInv, Up, NEW w \in Clients, pc[w] \in {"handle", "lookup", "send"}, job[w] # "data", Caught(w)
  PROVE  IInv' /\ NoRevival
  <1>1. /\ pc' = [pc EXCEPT ![w] = "release"] /\ held' = [held EXCEPT ![w] = held[w]]
        /\ todo' = [todo EXCEPT ![w] = <<>>] /\ hello' = hello
        /\ job' = [job EXCEPT ![w] = job[w]] /\ joining' = [joining EXCEPT ![w] = joining[w]]
        /\ round' = [round EXCEPT ![w] = round[w]]
        /\ UNCHANGED <<connections, pools, jobs, ios, got, ends>>
    BY AtWork DEF Caught, Goto, casts, pools, IInv, Typed
  <1>2. "release" \in Steps \ {"handle"} /\ joining[w] = NoClient
    BY AtWork DEF Steps
  <1>3. WorkerInv(w)'
    <2>1. pc[w]' = "release" /\ job[w]' = job[w] /\ joining[w]' = joining[w]
      BY <1>1, AtWork DEF IInv, Typed
    <2> QED
      BY <1>2, <2>1 DEF WorkerInv
  <1> DEFINE none == <<>>
  <1>4. none \in Seq(Clients) /\ todo' = [todo EXCEPT ![w] = none]
    BY <1>1
  <1> HIDE DEF none
  <1> QED
    BY <1>1, <1>2, <1>3, <1>4, AtWork, LocalStep

LEMMA TakeSelfStep ==
  ASSUME IInv, Up, NEW w \in Clients, pc[w] \in {"handle", "lookup", "answer"},
         NEW step \in {"add", "send", "kick"}, TakeSelf(w, step),
         step = "add" => ~hello[w] /\ job[w] \notin {"data", "save"}
  PROVE  IInv' /\ NoRevival
  <1>1. CASE Alive(w)
    <2>1. /\ pc' = [pc EXCEPT ![w] = step] /\ held' = [held EXCEPT ![w] = <<w>>]
          /\ todo' = [todo EXCEPT ![w] = <<w>>] /\ hello' = hello
          /\ job' = [job EXCEPT ![w] = job[w]] /\ joining' = [joining EXCEPT ![w] = NoClient]
          /\ round' = [round EXCEPT ![w] = round[w]]
          /\ UNCHANGED <<connections, pools, jobs, ios, got, ends>>
      <3>1. /\ held' = [held EXCEPT ![w] = <<w>>] /\ todo' = [todo EXCEPT ![w] = <<w>>] /\ Goto(w, step)
            /\ UNCHANGED <<job, joining, connections, pools, jobs, ios, casts, ends>>
        BY <1>1 DEF TakeSelf
      <3>2. joining[w] = NoClient
        BY AtWork
      <3> QED
        BY <3>1, <3>2 DEF Goto, casts, pools, IInv, Typed
    <2>2. <<w>> \in Seq(Clients) /\ ToSet(<<w>>) = {w} /\ w \in Refs /\ step \in Steps \ {"handle"}
      BY <1>1, ToSetOne, AliveRefs DEF Steps
    <2>3. WorkerInv(w)'
      <3>1. /\ pc[w]' = step /\ held[w]' = <<w>> /\ todo[w]' = <<w>> /\ job[w]' = job[w]
            /\ joining[w]' = NoClient /\ hello[w]' = hello[w]
        BY <2>1, AtWork DEF IInv, Typed
      <3> QED
        BY <3>1 DEF WorkerInv
    <2>4. pc[w] # "idle" /\ job[w] \in Kinds /\ round[w] \in Nat
      BY AtWork
    <2> DEFINE self == <<w>>
    <2> HIDE DEF self
    <2>5. /\ self \in Seq(Clients) /\ ToSet(self) \subseteq Refs
          /\ \A c \in ToSet(self) : got[c][w] = round[w] \/ c \in ToSet(self) \/ conn[c] # "open"
          /\ held' = [held EXCEPT ![w] = self] /\ todo' = [todo EXCEPT ![w] = self]
      BY <2>1, <2>2 DEF self
    <2> QED
      BY <2>1, <2>2, <2>3, <2>4, <2>5, LocalStep
  <1>2. CASE ~Alive(w)
    <2>1. CASE job[w] = "save" /\ step = "send"
      <3>1. Caught(w)
        BY <1>2, <2>1 DEF TakeSelf
      <3>2. pc[w] \in {"handle", "lookup"}
        BY <2>1, AtWork DEF WorkerInv
      <3> QED
        BY <2>1, <3>1, <3>2, CaughtStep
    <2>2. CASE ~(job[w] = "save" /\ step = "send")
      <3>1. Terminate("bad_weak_ptr", w)
        BY <1>2, <2>2 DEF TakeSelf
      <3>2. conn[w] = "closed"
        BY <1>2, AtWork, AliveRefs
      <3> QED
        BY <3>1, <3>2, TerminateStep DEF Causes
    <2> QED
      BY <2>1, <2>2
  <1> QED
    BY <1>1, <1>2

\* Worker w drops references: refs are left.
LEMMA DropStep ==
  ASSUME IInv, Up, NEW w \in Clients, pc[w] \in {"release", "listed"},
         NEW refs \in Seq(Clients), ToSet(refs) \subseteq ToSet(held[w]),
         NEW n \in Clients \cup {NoClient}, n # NoClient => n \notin Refs' /\ conn[n] # "none",
         DropTo(w, refs, n), UNCHANGED <<todo, connections, pools, jobs, ios, casts, ends>>
  PROVE  IInv' /\ NoRevival
  <1> DEFINE over == refs = <<>> /\ n = NoClient
             p == CASE ~over -> pc[w]
                    [] over /\ pc[w] = "listed" -> "answer"
                    [] OTHER -> "idle"
             j == IF over /\ pc[w] # "listed" THEN "bad" ELSE job[w]
  <1>1. /\ pc' = [pc EXCEPT ![w] = p] /\ held' = [held EXCEPT ![w] = refs]
        /\ todo' = [todo EXCEPT ![w] = todo[w]] /\ hello' = hello
        /\ job' = [job EXCEPT ![w] = j] /\ joining' = [joining EXCEPT ![w] = n]
        /\ round' = [round EXCEPT ![w] = round[w]]
        /\ UNCHANGED <<connections, pools, jobs, ios, got, ends>>
    BY AtWork DEF DropTo, Goto, casts, pools, IInv, Typed
  <1>2. /\ p \in {pc[w], "answer", "idle"} /\ p \in Steps \ {"handle"} /\ j \in Kinds
        /\ p \in {"answer", "idle"} => over
        /\ p \in {"answer", "listed"} => pc[w] = "listed" /\ j = job[w]
        /\ p = "release" => pc[w] = "release"
        /\ n # NoClient => p = pc[w]
        /\ j = "data" => job[w] = "data"
    BY AtWork DEF Steps, Kinds
  <1>3. over => refs = <<>> /\ n = NoClient
    OBVIOUS
  <1> HIDE DEF over, p, j
  <1>4. WorkerInv(w)'
    <2>1. /\ pc[w]' = p /\ held[w]' = refs /\ todo[w]' = todo[w] /\ job[w]' = j
          /\ joining[w]' = n /\ hello[w]' = hello[w]
      BY <1>1, AtWork DEF IInv, Typed
    <2> QED
      BY <1>2, <1>3, <2>1, AtWork DEF WorkerInv
  <1>5. ToSet(refs) \subseteq Refs
    BY AtWork
  <1>6. j = "data" /\ p \in {"send", "release"} =>
          \A c \in ToSet(refs) : got[c][w] = round[w] \/ c \in ToSet(todo[w]) \/ conn[c] # "open"
    BY <1>2 DEF IInv, HeardByAll
  <1> QED
    BY <1>1, <1>2, <1>4, <1>5, <1>6, AtWork, LocalStep

-----------------------------------------------------------------------------
(* The worker's steps *)

LEMMA HelloStep ==
  ASSUME IInv, Up, NEW w \in Clients, Hello(w)
  PROVE  IInv' /\ NoRevival
  BY TakeSelfStep DEF Hello, IsHello

LEMMA AnswerStep ==
  ASSUME IInv, Up, NEW w \in Clients, Answer(w)
  PROVE  IInv' /\ NoRevival
  BY TakeSelfStep DEF Answer

LEMMA RefuseStep ==
  ASSUME IInv, Up, NEW w \in Clients, Refuse(w)
  PROVE  IInv' /\ NoRevival
  BY TakeSelfStep DEF Refuse

\* A client that is asked for and not listed is gone, or never said hello.
LEMMA LookupStep ==
  ASSUME IInv, Up, NEW w \in Clients, Lookup(w)
  PROVE  IInv' /\ NoRevival
  <1>1. pc[w] \in {"handle", "lookup"}
    BY DEF Lookup
  <1>2. CASE Listed(w)
    BY <1>1, <1>2, TakeSelfStep DEF Lookup
  <1>3. conn[w] = "closed" \/ ~hello[w] \/ Listed(w)
    BY <1>1, AtWork DEF IInv, ListedInv, Typed
  <1>4. CASE ~Listed(w) /\ w \in nulls
    <2>1. Terminate("null", w)
      BY <1>4 DEF Lookup
    <2>2. conn[w] = "closed" /\ ~hello[w]
      BY <1>4 DEF IInv, ListedInv
    <2> QED
      BY <2>1, <2>2, TerminateStep DEF Causes
  <1>5. CASE ~Listed(w) /\ w \notin nulls /\ job[w] = "save"
    <2>1. Caught(w)
      BY <1>5 DEF Lookup
    <2> QED
      BY <1>1, <1>5, <2>1, CaughtStep
  <1>6. CASE ~Listed(w) /\ w \notin nulls /\ job[w] # "save"
    <2>1. Terminate("out_of_range", w)
      BY <1>6 DEF Lookup
    <2> QED
      BY <1>3, <1>6, <2>1, TerminateStep DEF Causes
  <1> QED
    BY <1>2, <1>4, <1>5, <1>6

\* An end of the program that takes nobody who closes.
LEMMA NoIdStep ==
  ASSUME IInv, Up, NEW w \in Clients, NoId(w)
  PROVE  IInv' /\ NoRevival
  BY TerminateStep DEF NoId, Causes

LEMMA InsertFailsStep ==
  ASSUME IInv, Up, NEW w \in Clients, InsertFails(w)
  PROVE  IInv' /\ NoRevival
  BY TerminateStep DEF InsertFails, Causes

LEMMA NoDatabaseStep ==
  ASSUME IInv, Up, NEW w \in Clients, NoDatabase(w)
  PROVE  IInv' /\ NoRevival
  BY CaughtStep DEF NoDatabase

LEMMA CountStep ==
  ASSUME IInv, Up, NEW w \in Clients, Count(w)
  PROVE  IInv' /\ NoRevival
  <1> DEFINE p == IF Listed(w) \/ w \in nulls THEN "lookup" ELSE "release"
  <1>1. pc[w] = "handle" /\ job[w] \in {"ask", "save"} /\ held[w] = <<>> /\ joining[w] = NoClient
    BY AtWork DEF Count, WorkerInv
  <1>2. /\ pc' = [pc EXCEPT ![w] = p] /\ held' = [held EXCEPT ![w] = held[w]]
        /\ todo' = [todo EXCEPT ![w] = todo[w]] /\ hello' = hello
        /\ job' = [job EXCEPT ![w] = job[w]] /\ joining' = [joining EXCEPT ![w] = joining[w]]
        /\ round' = [round EXCEPT ![w] = round[w]]
        /\ UNCHANGED <<connections, pools, jobs, ios, got, ends>>
    BY AtWork DEF Count, Goto, casts, pools, IInv, Typed
  <1>3. p \in {"lookup", "release"} /\ p \in Steps \ {"handle"}
    BY DEF Steps
  <1> HIDE DEF p
  <1>4. WorkerInv(w)'
    <2>1. /\ pc[w]' = p /\ held[w]' = held[w] /\ job[w]' = job[w] /\ joining[w]' = joining[w]
          /\ hello[w]' = hello[w] /\ todo[w]' = todo[w]
      BY <1>2, AtWork DEF IInv, Typed
    <2> QED
      BY <1>1, <1>3, <2>1 DEF WorkerInv
  <1>5. ToSet(held[w]) = {}
    BY <1>1, ToSetEmpty
  <1> QED
    BY <1>1, <1>2, <1>3, <1>4, <1>5, AtWork, LocalStep

LEMMA SaveStep ==
  ASSUME IInv, Up, NEW w \in Clients, Save(w)
  PROVE  IInv' /\ NoRevival
  <1>1. pc[w] = "handle" /\ job[w] = "data" /\ held[w] = <<>> /\ joining[w] = NoClient
    BY AtWork DEF Save, WorkerInv
  <1>2. /\ pc' = [pc EXCEPT ![w] = "release"] /\ held' = [held EXCEPT ![w] = held[w]]
        /\ todo' = [todo EXCEPT ![w] = todo[w]] /\ hello' = hello
        /\ job' = [job EXCEPT ![w] = job[w]] /\ joining' = [joining EXCEPT ![w] = joining[w]]
        /\ round' = [round EXCEPT ![w] = round[w]]
        /\ UNCHANGED <<connections, pools, jobs, ios, got, ends>>
    BY AtWork DEF Save, Goto, casts, pools, IInv, Typed
  <1>3. "release" \in Steps \ {"handle"}
    BY DEF Steps
  <1>4. WorkerInv(w)'
    <2>1. /\ pc[w]' = "release" /\ held[w]' = held[w] /\ job[w]' = job[w] /\ joining[w]' = joining[w]
          /\ hello[w]' = hello[w] /\ todo[w]' = todo[w]
      BY <1>2, AtWork DEF IInv, Typed
    <2> QED
      BY <1>1, <2>1 DEF WorkerInv
  <1>5. ToSet(held[w]) = {}
    BY <1>1, ToSetEmpty
  <1> QED
    BY <1>1, <1>2, <1>3, <1>4, <1>5, AtWork, LocalStep

LEMMA ListStep ==
  ASSUME IInv, Up, NEW w \in Clients, List(w)
  PROVE  IInv' /\ NoRevival
  <1>1. pc[w] = "handle" /\ job[w] = "list" /\ joining[w] = NoClient
    BY AtWork DEF List
  <1>2. /\ pc' = [pc EXCEPT ![w] = "listed"] /\ held' = [held EXCEPT ![w] = pool]
        /\ todo' = [todo EXCEPT ![w] = todo[w]] /\ hello' = hello
        /\ job' = [job EXCEPT ![w] = job[w]] /\ joining' = [joining EXCEPT ![w] = joining[w]]
        /\ round' = [round EXCEPT ![w] = round[w]]
        /\ UNCHANGED <<connections, pools, jobs, ios, got, ends>>
    BY AtWork DEF List, Goto, casts, pools, IInv, Typed
  <1>3. "listed" \in Steps \ {"handle"}
    BY DEF Steps
  <1>4. WorkerInv(w)'
    <2>1. pc[w]' = "listed" /\ job[w]' = job[w] /\ joining[w]' = joining[w]
      BY <1>2, AtWork DEF IInv, Typed
    <2> QED
      BY <1>1, <2>1 DEF WorkerInv
  <1> QED
    BY <1>1, <1>2, <1>3, <1>4, AtWork, LocalStep

\* All that are in the pool have yet to be sent to.
LEMMA BroadcastStep ==
  ASSUME IInv, Up, NEW w \in Clients, Broadcast(w)
  PROVE  IInv' /\ NoRevival
  <1> DEFINE p == IF pool = <<>> THEN "release" ELSE "send"
  <1>1. pc[w] = "handle" /\ job[w] = "data" /\ joining[w] = NoClient
    BY AtWork DEF Broadcast, MayBroadcast
  <1>2. /\ pc' = [pc EXCEPT ![w] = p] /\ held' = [held EXCEPT ![w] = pool]
        /\ todo' = [todo EXCEPT ![w] = pool] /\ hello' = hello
        /\ job' = [job EXCEPT ![w] = job[w]] /\ joining' = [joining EXCEPT ![w] = joining[w]]
        /\ round' = [round EXCEPT ![w] = round[w] + 1]
        /\ UNCHANGED <<connections, pools, jobs, ios, got, ends>>
    BY AtWork DEF Broadcast, Goto, pools, IInv, Typed
  <1>3. /\ p \in {"send", "release"} /\ p \in Steps \ {"handle"}
        /\ p = "send" => pool # <<>>
    BY DEF Steps
  <1> HIDE DEF p
  <1>4. WorkerInv(w)'
    <2>1. pc[w]' = p /\ todo[w]' = pool /\ job[w]' = job[w] /\ joining[w]' = joining[w]
      BY <1>2, AtWork DEF IInv, Typed
    <2> QED
      BY <1>1, <1>3, <2>1 DEF WorkerInv
  <1>5. round[w] + 1 \in Nat
    BY AtWork
  <1> QED
    BY <1>1, <1>2, <1>3, <1>4, <1>5, AtWork, LocalStep

\* A worker that drops the last reference to its own client is that of one
\* whose connection is closed.
LEMMA ReleaseStep ==
  ASSUME IInv, Up, NEW w \in Clients, Release(w)
  PROVE  IInv' /\ NoRevival
  <1>1. pc[w] \in {"release", "listed"} /\ held[w] \in Seq(Clients)
    BY AtWork DEF Release
  <1>2. CASE held[w] = <<>>
    <2>1. /\ DropTo(w, <<>>, NoClient) /\ UNCHANGED <<todo, connections, pools, jobs, ios, casts, ends>>
          /\ <<>> \in Seq(Clients) /\ ToSet(<<>>) \subseteq ToSet(held[w])
      BY <1>2 DEF Release
    <2> QED
      BY <1>1, <2>1, DropStep
  <1>3. CASE held[w] # <<>>
    <2> DEFINE d == Head(held[w])
               left == Tail(held[w])
               last == ~Referred(d, clients, [held EXCEPT ![w] = Tail(@)])
               n == IF last THEN d ELSE NoClient
    <2>1. /\ d \in Clients /\ left \in Seq(Clients)
          /\ ToSet(left) \subseteq ToSet(held[w]) /\ d \in ToSet(held[w])
      BY <1>1, <1>3, TailFacts
    <2>2. IF last /\ d = w
          THEN Terminate("self_join", w)
          ELSE DropTo(w, left, n) /\ UNCHANGED <<todo, connections, pools, jobs, ios, casts, ends>>
      BY <1>3 DEF Release
    <2>3. CASE last /\ d = w
      <3>1. w \notin clients
        BY <2>3 DEF Referred
      <3>2. conn[w] = "closed"
        BY <1>1, <3>1, AtWork
      <3> QED
        BY <2>2, <2>3, <3>2, TerminateStep DEF Causes
    <2>4. CASE ~(last /\ d = w)
      <3>1. DropTo(w, left, n) /\ UNCHANGED <<todo, connections, pools, jobs, ios, casts, ends>>
        BY <2>2, <2>4
      <3>2. n # NoClient => last /\ n = d
        OBVIOUS
      <3>3. held' = [held EXCEPT ![w] = left] /\ clients' = clients /\ pool' = pool
        BY <3>1 DEF DropTo, connections, pools
      <3>4. last => d \notin Refs'
        BY <3>3 DEF Referred, Listed, Refs
      <3>5. conn[d] # "none"
        BY <2>1, AtWork
      <3>6. n \in Clients \cup {NoClient}
        BY <2>1
      <3> HIDE DEF n, d, left, last
      <3> QED
        BY <1>1, <2>1, <3>1, <3>2, <3>4, <3>5, <3>6, DropStep
    <2> QED
      BY <2>3, <2>4
  <1> QED
    BY <1>2, <1>3

LEMMA JoinStep ==
  ASSUME IInv, Up, NEW w \in Clients, Join(w)
  PROVE  IInv' /\ NoRevival
  <1>1. pc[w] \in {"release", "listed"} /\ held[w] \in Seq(Clients)
    BY AtWork DEF Join, WorkerInv
  <1>2. DropTo(w, held[w], NoClient) /\ UNCHANGED <<todo, connections, pools, jobs, ios, casts, ends>>
    BY DEF Join
  <1> QED
    BY <1>1, <1>2, DropStep

LEMMA BeginStep ==
  ASSUME IInv, Up, NEW w \in Clients, Begin(w)
  PROVE  IInv' /\ NoRevival
  <1> USE DEF connections, pools, ios, casts, ends, Up, Begin, Goto
  <1>1. Typed /\ ConnInv /\ ListedInv /\ JoinInv /\ CountInv /\ PoolHonest /\ HeardByAll
    BY DEF IInv
  <1>2. /\ queue[w] \in Seq(Kinds) /\ queue[w] # <<>> /\ pc[w] = "idle"
        /\ Tail(queue[w]) \in Seq(Kinds) /\ Head(queue[w]) \in Kinds
        /\ Len(queue[w]) \in Nat /\ Len(Tail(queue[w])) = Len(queue[w]) - 1
    BY AtWork, TailFacts
  <1>3. /\ pc[w]' = "handle" /\ job[w]' \in Kinds /\ queue[w]' = Tail(queue[w])
        /\ \A v \in Clients \ {w} :
             pc[v]' = pc[v] /\ job[v]' = job[v] /\ queue[v]' = queue[v]
    BY <1>1, <1>2 DEF Typed
  <1>4. Typed'
    BY <1>1, <1>2 DEF Typed, Steps
  <1>5. Refs' = Refs
    BY DEF Refs
  <1>6. ConnInv'
    BY <1>1, <1>2, <1>3, <1>5 DEF ConnInv
  <1>7. ListedInv'
    BY <1>1 DEF ListedInv, Listed
  <1>8. JoinInv'
    BY <1>1, <1>5 DEF JoinInv
  <1>9. CountInv'
    <2>1. ASSUME NEW v \in Clients PROVE Work(v)' <= Work(v)
      <3>1. round[v] \in Nat /\ Len(queue[v]) \in Nat
        BY <1>1, CountFacts
      <3>2. CASE v = w
        <4>1. Handling(w) = 0 /\ Handling(w)' = 1 /\ Len(queue[w])' = Len(queue[w]) - 1
          BY <1>2, <1>3 DEF Handling
        <4>2. Work(w)' = round[w] + 1 + (Len(queue[w]) - 1) /\ Work(w) = round[w] + 0 + Len(queue[w])
          BY <4>1 DEF Work
        <4> QED
          BY <3>1, <3>2, <4>2
      <3>3. CASE v # w
        <4>1. Handling(v)' = Handling(v) /\ Len(queue[v])' = Len(queue[v]) /\ Handling(v) \in Nat
          BY <1>3, <3>3 DEF Handling
        <4>2. Work(v)' = Work(v) /\ Work(v) \in Nat
          BY <3>1, <4>1 DEF Work
        <4> QED
          BY <4>2
      <3> QED
        BY <3>2, <3>3
    <2>2. \A v \in Clients : Coming(v)' + received <= Coming(v) + received'
      BY <1>1, BoundsAssumption DEF Coming, Typed
    <2>3. \A v, u \in Clients : got'[u][v] <= round'[v]
      BY <1>1, CountFacts
    <2> QED
      BY <1>1, <1>4, <2>1, <2>2, <2>3, CountKept
  <1>10. \A v \in Clients : WorkerInv(v)'
    BY <1>2, <1>3 DEF WorkerInv, IInv
  <1>11. PoolHonest'
    BY <1>1 DEF PoolHonest
  <1>12. HeardByAll'
    BY <1>1, <1>3 DEF HeardByAll
  <1>13. EndsHaveCause'
    BY DEF EndsHaveCause
  <1> QED
    BY <1>4, <1>5, <1>6, <1>7, <1>8, <1>9, <1>10, <1>11, <1>12, <1>13 DEF IInv, NoRevival

\* Who says hello was not in the pool.
LEMMA AddToPoolStep ==
  ASSUME IInv, Up, NEW w \in Clients, AddToPool(w)
  PROVE  IInv' /\ NoRevival
  <1> USE DEF connections, jobs, ios, casts, ends, Up, AddToPool, Goto
  <1>1. Typed /\ ConnInv /\ ListedInv /\ JoinInv /\ CountInv /\ PoolHonest /\ HeardByAll
    BY DEF IInv
  <1>2. /\ held[w] = <<w>> /\ ~hello[w] /\ job[w] \notin {"data", "save"} /\ joining[w] = NoClient
        /\ pool \in Seq(Clients) /\ w \in Refs
    <2>1. pc[w] = "add"
      OBVIOUS
    <2>2. held[w] = <<w>> /\ ~hello[w] /\ job[w] \notin {"data", "save"} /\ joining[w] = NoClient
      BY <2>1, AtWork DEF WorkerInv
    <2>3. pool \in Seq(Clients) /\ ToSet(<<w>>) \subseteq Refs
      BY <2>2, AtWork
    <2> QED
      BY <2>2, <2>3, ToSetOne
  <1>3. /\ pool' \in Seq(Clients) /\ ToSet(pool') = ToSet(pool) \cup {w}
        /\ Len(pool') = Len(pool) + 1 /\ Len(pool) \in Nat
        /\ \A i \in 1 .. Len(pool) : pool'[i] = pool[i]
        /\ pool'[Len(pool) + 1] = w
    BY <1>2, AppendFacts
  <1>4. /\ pc[w]' = "answer" /\ held[w]' = <<>> /\ hello[w]'
        /\ \A v \in Clients \ {w} :
             /\ pc[v]' = pc[v] /\ held[v]' = held[v] /\ todo[v]' = todo[v] /\ hello'[v] = hello[v]
    <2>1. /\ pc[w]' = "answer" /\ held[w]' = <<>>
          /\ \A v \in Clients \ {w} : pc[v]' = pc[v] /\ held[v]' = held[v] /\ todo[v]' = todo[v]
      BY <1>1 DEF Typed
    <2>2. hello \in [Clients -> BOOLEAN] /\ hello' = [hello EXCEPT ![w] = TRUE]
      BY <1>1 DEF Typed
    <2>3. hello[w]' /\ \A v \in Clients \ {w} : hello'[v] = hello[v]
      BY <2>2
    <2> QED
      BY <2>1, <2>3
  <1>5. Typed'
    <2>1. hello' \in [Clients -> BOOLEAN]
      BY <1>1 DEF Typed
    <2>2. <<>> \in Seq(Clients) /\ "answer" \in Steps
      BY DEF Steps
    <2>3. pc' \in [Clients -> Steps] /\ held' \in [Clients -> Seq(Clients)] /\ todo' \in [Clients -> Seq(Clients)]
      BY <1>1, <2>2 DEF Typed
    <2>4. UNCHANGED <<conn, clients, queue, received, job, joining, io, ioFor, ioMsg, round, got, ends>>
      OBVIOUS
    <2>5. nulls' \in SUBSET Clients
      BY <1>1 DEF Typed
    <2> HIDE DEF AddToPool
    <2> QED
      BY <1>1, <1>3, <2>1, <2>3, <2>4, <2>5 DEF Typed
  <1>6. Refs' \subseteq Refs
    BY <1>2, <1>3, <1>4, ToSetEmpty DEF Refs
  <1>7. ConnInv'
    BY <1>1, <1>4, <1>6 DEF ConnInv
  <1>8. ListedInv'
    BY <1>1, <1>3, <1>4 DEF ListedInv, Listed
  <1>9. JoinInv'
    BY <1>1, <1>6 DEF JoinInv
  <1>10. CountInv'
    <2>1. ASSUME NEW v \in Clients PROVE Work(v)' <= Work(v)
      <3>1. round[v] \in Nat /\ Len(queue[v]) \in Nat
        BY <1>1, CountFacts
      <3>2. CASE v = w
        BY <1>4, <3>1, <3>2 DEF Work, Handling
      <3>3. CASE v # w
        BY <1>4, <3>1, <3>3 DEF Work, Handling
      <3> QED
        BY <3>2, <3>3
    <2>2. \A v \in Clients : Coming(v)' + received <= Coming(v) + received'
      BY <1>1, BoundsAssumption DEF Coming, Typed
    <2>3. \A v, u \in Clients : got'[u][v] <= round'[v]
      BY <1>1, CountFacts
    <2> QED
      BY <1>1, <1>5, <2>1, <2>2, <2>3, CountKept
  <1>11. ASSUME NEW v \in Clients PROVE WorkerInv(v)'
    <2>1. CASE v = w
      BY <1>2, <1>4, <2>1 DEF WorkerInv
    <2>2. CASE v # w
      BY <1>4, <2>2 DEF WorkerInv, IInv
    <2> QED
      BY <2>1, <2>2
  <1>12. PoolHonest'
    <2>1. \A i \in 1 .. Len(pool) : pool[i] # w
      BY <1>1, <1>2, InSet DEF PoolHonest
    <2>2. ASSUME NEW i \in 1 .. Len(pool'), NEW j \in 1 .. Len(pool'), pool'[i] = pool'[j]
          PROVE  i = j
      <3>1. /\ i \in 1 .. Len(pool) \/ i = Len(pool) + 1
            /\ j \in 1 .. Len(pool) \/ j = Len(pool) + 1
        BY <1>3
      <3> QED
        BY <1>1, <1>3, <2>1, <2>2, <3>1 DEF PoolHonest
    <2>3. \A c \in ToSet(pool') : hello'[c]
      BY <1>1, <1>2, <1>3, <1>4, InSet DEF PoolHonest
    <2> QED
      BY <2>2, <2>3 DEF PoolHonest
  <1>13. HeardByAll'
    BY <1>1, <1>4 DEF HeardByAll
  <1>14. EndsHaveCause'
    BY DEF EndsHaveCause
  <1> QED
    BY <1>5, <1>6, <1>7, <1>8, <1>9, <1>10, <1>11, <1>12, <1>13, <1>14 DEF IInv, NoRevival

\* Only a client that is kicked no longer counts as connected.
LEMMA KickStep ==
  ASSUME IInv, Up, NEW w \in Clients, Kick(w)
  PROVE  IInv' /\ NoRevival
  <1>1. CASE w \in clients /\ conn[w] # "open"
    <2>1. Terminate("not_open", w)
      BY <1>1 DEF Kick
    <2>2. conn[w] \in {"closing", "closed"}
      <3>1. conn[w] \in {"none", "open", "closing", "closed"} /\ conn[w] # "none"
        BY AtWork DEF Kick, IInv, Typed
      <3> QED
        BY <1>1, <3>1
    <2> QED
      BY <1>1, <2>1, <2>2, TerminateStep DEF Causes
  <1>2. CASE ~(w \in clients /\ conn[w] # "open")
    <2>1. /\ pc[w] = "kick" /\ pc' = [pc EXCEPT ![w] = "release"] /\ todo' = [todo EXCEPT ![w] = <<>>]
          /\ conn' = [conn EXCEPT ![w] = IF w \in clients THEN "closing" ELSE @]
          /\ UNCHANGED <<clients, job, held, joining, pools, jobs, ios, casts, ends>>
      BY <1>2 DEF Kick, Goto
    <2> USE DEF pools, jobs, ios, casts, ends, Up
    <2>2. Typed /\ ConnInv /\ ListedInv /\ JoinInv /\ CountInv /\ PoolHonest /\ HeardByAll
      BY DEF IInv
    <2>3. /\ held[w] = <<w>> /\ joining[w] = NoClient /\ ToSet(held[w]) = {w}
          /\ conn[w] \in {"open", "closing", "closed"}
      <3>1. conn[w] \in {"none", "open", "closing", "closed"}
        BY <2>2 DEF Typed
      <3> QED
        BY <2>1, <3>1, AtWork, ToSetOne DEF WorkerInv
    <2>4. /\ pc[w]' = "release" /\ todo[w]' = <<>>
          /\ conn[w]' = IF w \in clients THEN "closing" ELSE conn[w]
          /\ \A v \in Clients \ {w} :
               pc[v]' = pc[v] /\ todo[v]' = todo[v] /\ conn[v]' = conn[v]
      BY <2>1, <2>2 DEF Typed
    <2>5. conn[w]' \in {"closing", "closed"}
      BY <1>2, <2>2, <2>3, <2>4 DEF ConnInv
    <2>6. Typed'
      BY SMTT(30), <2>1, <2>2 DEF Typed, Steps
    <2>7. Refs' = Refs
      BY <2>1 DEF Refs
    <2>8. ConnInv'
      <3>1. ASSUME NEW c \in Clients
            PROVE  /\ conn[c]' \in {"open", "closing"} => c \in clients
                   /\ conn[c]' = "none" =>
                        c \notin Refs /\ ~hello[c] /\ pc[c]' = "idle" /\ queue[c] = <<>>
        <4>1. CASE c = w
          BY <1>2, <2>2, <2>3, <2>4, <2>5, <4>1 DEF ConnInv
        <4>2. CASE c # w
          BY <2>2, <2>4, <4>2 DEF ConnInv
        <4> QED
          BY <4>1, <4>2
      <3>2. ioFor \in Clients /\ conn[ioFor] = "closed" => conn'[ioFor] = "closed"
        BY <1>2, <2>2, <2>4 DEF ConnInv
      <3>3. ioFor \in Clients /\ conn[ioFor] # "none" => conn'[ioFor] # "none"
        BY <2>4, <2>5
      <3> QED
        BY <2>1, <2>2, <2>7, <3>1, <3>2, <3>3 DEF ConnInv, Typed
    <2>9. ListedInv'
      BY <1>2, <2>1, <2>2, <2>3, <2>4 DEF ListedInv, Listed, ConnInv
    <2>10. JoinInv'
      <3>1. \A c \in Clients : conn[c] # "none" => conn[c]' # "none"
        BY <2>4, <2>5
      <3> QED
        BY <2>1, <2>2, <2>7, <3>1 DEF JoinInv, Typed
    <2>11. CountInv'
      <3>1. ASSUME NEW v \in Clients PROVE Work(v)' <= Work(v)
        <4>1. round[v] \in Nat /\ Len(queue[v]) \in Nat
          BY <2>2, CountFacts
        <4>2. Handling(v)' = Handling(v) /\ Handling(v) \in Nat
          BY <2>1, <2>4 DEF Handling
        <4> QED
          BY <2>1, <4>1, <4>2 DEF Work
      <3>2. \A v \in Clients : Coming(v)' + received <= Coming(v) + received'
        BY <2>1, <2>2, BoundsAssumption DEF Coming, Typed
      <3>3. \A v, c \in Clients : got'[c][v] <= round'[v]
        BY <2>1, <2>2, CountFacts
      <3> QED
        BY <2>2, <2>6, <3>1, <3>2, <3>3, CountKept
    <2>12. ASSUME NEW v \in Clients PROVE WorkerInv(v)'
      <3>1. CASE v = w
        BY <2>1, <2>3, <2>4, <3>1 DEF WorkerInv
      <3>2. CASE v # w
        BY <2>1, <2>4, <3>2 DEF WorkerInv, IInv
      <3> QED
        BY <3>1, <3>2
    <2>13. PoolHonest'
      BY <2>1, <2>2 DEF PoolHonest
    <2>14. ASSUME NEW v \in Clients, job[v]' = "data", pc[v]' \in {"send", "release"},
                  NEW c \in ToSet(held[v])'
           PROVE  got[c][v]' = round[v]' \/ c \in ToSet(todo[v])' \/ conn[c]' # "open"
      <3>1. CASE v = w
        BY <2>1, <2>3, <2>5, <2>14, <3>1
      <3>2. CASE v # w
        BY <2>1, <2>2, <2>4, <2>5, <2>14, <3>2, AtWork, InSet DEF HeardByAll
      <3> QED
        BY <3>1, <3>2
    <2>15. EndsHaveCause'
      BY <2>1 DEF EndsHaveCause
    <2> QED
      BY <2>6, <2>7, <2>8, <2>9, <2>10, <2>11, <2>12, <2>13, <2>14, <2>15
      DEF IInv, NoRevival, HeardByAll
  <1> QED
    BY <1>1, <1>2

\* The client that is served has got the broadcast, or is not connected.
LEMMA SendStep ==
  ASSUME IInv, Up, NEW w \in Clients, Send(w)
  PROVE  IInv' /\ NoRevival
  <1> DEFINE d == Head(todo[w])
             rest == Tail(todo[w])
             p == IF rest = <<>> THEN "release" ELSE "send"
  <1>1. Typed /\ ConnInv /\ ListedInv /\ JoinInv /\ CountInv /\ PoolHonest /\ HeardByAll
    BY DEF IInv
  <1>2. /\ pc[w] = "send" /\ todo[w] \in Seq(Clients) /\ todo[w] # <<>> /\ joining[w] = NoClient
        /\ d \in Clients /\ rest \in Seq(Clients) /\ ToSet(todo[w]) = ToSet(rest) \cup {d}
    <2>1. pc[w] = "send" /\ todo[w] \in Seq(Clients) /\ todo[w] # <<>> /\ joining[w] = NoClient
      BY AtWork DEF Send, WorkerInv
    <2> QED
      BY <2>1, TailFacts
  <1>3. CASE d \in clients /\ conn[d] # "open"
    <2>1. IF job[w] = "save" THEN Caught(w) ELSE Terminate("not_open", d)
      BY <1>3 DEF Send
    <2>2. conn[d] \in {"none", "open", "closing", "closed"} /\ conn[d] # "none"
      BY <1>1, <1>2, <1>3, AtWork DEF Typed
    <2>3. d \in Clients \cup {NoClient} /\ conn[d] \in {"closing", "closed"}
      BY <1>2, <1>3, <2>2
    <2> HIDE DEF d
    <2>4. CASE job[w] = "save"
      BY <1>2, <2>1, <2>4, CaughtStep
    <2>5. CASE job[w] # "save"
      BY <2>1, <2>3, <2>5, TerminateStep DEF Causes
    <2> QED
      BY <2>4, <2>5
  <1>4. CASE ~(d \in clients /\ conn[d] # "open")
    <2>1. /\ got' = IF d \in clients /\ job[w] = "data" THEN [got EXCEPT ![d][w] = round[w]] ELSE got
          /\ todo' = [todo EXCEPT ![w] = rest] /\ pc' = [pc EXCEPT ![w] = p]
          /\ UNCHANGED <<round, job, held, joining, connections, pools, jobs, ios, ends>>
      BY <1>4 DEF Send, Rest, Goto
    <2>2. p \in {"send", "release"} /\ (p = "send" => rest # <<>>)
      OBVIOUS
    <2> HIDE DEF d, rest, p
    <2> USE DEF connections, pools, jobs, ios, ends, Up
    <2>3. /\ pc[w]' = p /\ todo[w]' = rest
          /\ \A v \in Clients \ {w} : pc[v]' = pc[v] /\ todo[v]' = todo[v]
      BY <1>1, <2>1 DEF Typed
    <2>4. /\ round[w] \in Nat
          /\ d \in clients /\ job[w] = "data" => got'[d][w] = round[w]
          /\ \A v, c \in Clients : got'[c][v] = got[c][v] \/ (v = w /\ got'[c][v] = round[w])
      BY <1>1, <1>2, <2>1 DEF Typed
    <2>5. got' \in [Clients -> [Clients -> Nat]]
      BY <1>1, <1>2, <2>1 DEF Typed
    <2>6. Typed'
      <3>1. pc' \in [Clients -> Steps] /\ todo' \in [Clients -> Seq(Clients)]
        BY <1>1, <1>2, <2>1, <2>2 DEF Typed, Steps
      <3> QED
        BY <1>1, <2>1, <2>5, <3>1 DEF Typed
    <2>7. Refs' = Refs
      BY <2>1 DEF Refs
    <2>8. ConnInv'
      BY <1>1, <1>2, <2>1, <2>3, <2>7 DEF ConnInv
    <2>9. ListedInv'
      BY <1>1, <2>1 DEF ListedInv, Listed
    <2>10. JoinInv'
      BY <1>1, <2>1, <2>7 DEF JoinInv
    <2>11. CountInv'
      <3>1. ASSUME NEW v \in Clients PROVE Work(v)' <= Work(v)
        <4>1. round[v] \in Nat /\ Len(queue[v]) \in Nat
          BY <1>1, CountFacts
        <4>2. Handling(v)' = Handling(v) /\ Handling(v) \in Nat
          BY <1>2, <2>1, <2>2, <2>3 DEF Handling
        <4> QED
          BY <2>1, <4>1, <4>2 DEF Work
      <3>2. \A v \in Clients : Coming(v)' + received <= Coming(v) + received'
        BY <1>1, <2>1, BoundsAssumption DEF Coming, Typed
      <3>3. \A v, c \in Clients : got'[c][v] <= round'[v]
        BY <1>1, <2>1, <2>4, CountFacts
      <3> QED
        BY <1>1, <2>6, <3>1, <3>2, <3>3, CountKept
    <2>12. ASSUME NEW v \in Clients PROVE WorkerInv(v)'
      <3>1. CASE v = w
        BY <1>2, <2>1, <2>2, <2>3, <3>1 DEF WorkerInv
      <3>2. CASE v # w
        BY <2>1, <2>3, <3>2 DEF WorkerInv, IInv
      <3> QED
        BY <3>1, <3>2
    <2>13. PoolHonest'
      BY <1>1, <2>1 DEF PoolHonest
    <2>14. ASSUME NEW v \in Clients, job[v]' = "data", pc[v]' \in {"send", "release"},
                  NEW c \in ToSet(held[v])'
           PROVE  got[c][v]' = round[v]' \/ c \in ToSet(todo[v])' \/ conn[c]' # "open"
      <3>1. c \in Clients
        BY <2>1, <2>14, AtWork, InSet
      <3>2. CASE v = w
        <4>1. got[c][w] = round[w] \/ c \in ToSet(todo[w]) \/ conn[c] # "open"
          BY <1>1, <1>2, <2>1, <2>14, <3>2 DEF HeardByAll
        <4>2. c = d => got'[c][w] = round[w] \/ conn[c] # "open"
          BY <1>1, <2>1, <2>4, <2>14, <3>1, <3>2 DEF ConnInv
        <4> QED
          BY <1>2, <2>1, <2>3, <2>4, <3>1, <3>2, <4>1, <4>2
      <3>3. CASE v # w
        BY <1>1, <2>1, <2>3, <2>4, <2>14, <3>1, <3>3 DEF HeardByAll
      <3> QED
        BY <3>2, <3>3
    <2>15. EndsHaveCause'
      BY <2>1 DEF EndsHaveCause
    <2> QED
      BY <2>6, <2>7, <2>8, <2>9, <2>10, <2>11, <2>12, <2>13, <2>14, <2>15
      DEF IInv, NoRevival, HeardByAll
  <1> QED
    BY <1>3, <1>4

-----------------------------------------------------------------------------
(* The steps of the io thread *)

\* The workers rest.  Who is referred to was, or is new; who is connected was, or
\* is new.
LEMMA IoStepKept ==
  ASSUME IInv, Up, UNCHANGED <<workers, casts, ends>>,
         Typed', ConnInv', ListedInv', CountInv', PoolHonest',
         \A c \in Clients : hello'[c] <=> hello[c],
         \A c \in Clients : c \in Refs' => c \in Refs \/ conn[c] = "none",
         \A c \in Clients : conn'[c] = "open" => conn[c] = "open" \/ c \notin Refs,
         \A c \in Clients : conn'[c] = "none" => conn[c] = "none",
         io' = "join" => ioFor' \notin Refs'
  PROVE  IInv'
  <1> USE DEF workers, casts, ends, Up
  <1>1. Typed /\ JoinInv /\ HeardByAll
    BY DEF IInv
  <1>2. JoinInv'
    <2>1. ASSUME NEW w \in Clients, joining[w] # NoClient
          PROVE  joining[w] \notin Refs' /\ conn'[joining[w]] # "none"
      BY <1>1, <2>1, AtWork DEF JoinInv
    <2> QED
      BY <2>1 DEF JoinInv
  <1>3. \A w \in Clients : WorkerInv(w)'
    BY DEF WorkerInv, IInv
  <1>4. ASSUME NEW w \in Clients, job[w] = "data", pc[w] \in {"send", "release"},
               NEW c \in ToSet(held[w])
        PROVE  got[c][w] = round[w] \/ c \in ToSet(todo[w]) \/ conn'[c] # "open"
    <2>1. c \in Clients /\ c \in Refs
      BY AtWork, InSet
    <2> QED
      BY <1>1, <1>4, <2>1 DEF HeardByAll
  <1>5. HeardByAll'
    BY <1>4 DEF HeardByAll
  <1>6. EndsHaveCause'
    BY DEF EndsHaveCause
  <1> QED
    BY <1>2, <1>3, <1>5, <1>6 DEF IInv

\* The work is the same and none comes.
LEMMA SameWork ==
  ASSUME IInv, Typed', UNCHANGED <<pc, jobs, casts>>,
         \A v \in Clients : Coming(v)' <= Coming(v)
  PROVE  CountInv'
  <1> USE DEF jobs, casts
  <1>1. Typed /\ CountInv
    BY DEF IInv
  <1>2. ASSUME NEW v \in Clients PROVE Work(v)' <= Work(v)
    <2>1. round[v] \in Nat /\ Len(queue[v]) \in Nat /\ Handling(v) \in Nat /\ Handling(v)' = Handling(v)
      BY <1>1, CountFacts DEF Handling
    <2> QED
      BY <2>1 DEF Work
  <1>3. \A v \in Clients : Coming(v)' + received <= Coming(v) + received'
    <2>1. received \in Nat /\ \A v \in Clients : Coming(v) \in Nat /\ Coming(v)' \in Nat
      BY <1>1, BoundsAssumption DEF Coming, Typed
    <2> QED
      BY <2>1
  <1>4. \A v, c \in Clients : got'[c][v] <= round'[v]
    BY <1>1, CountFacts
  <1> QED
    BY <1>1, <1>2, <1>3, <1>4, CountKept

\* The first reference to a client.
LEMMA OnOpenStep ==
  ASSUME IInv, Up, NEW c \in Clients, OnOpen(c)
  PROVE  IInv' /\ Refs' = Refs \cup {c}
  <1> USE DEF OnOpen, pools, jobs, workers, ios, ends
  <1>1. Typed /\ ConnInv /\ ListedInv /\ PoolHonest
    BY DEF IInv
  <1>2. /\ conn[c] = "none" /\ conn'[c] = "open" /\ c \notin Refs /\ ~hello[c]
        /\ \A d \in Clients \ {c} : conn'[d] = conn[d]
    BY <1>1 DEF ConnInv, Typed
  <1>3. Typed'
    BY <1>1 DEF Typed, casts
  <1>4. Refs' = Refs \cup {c}
    BY DEF Refs
  <1>5. ConnInv'
    BY <1>1, <1>2, <1>4 DEF ConnInv
  <1>6. ListedInv'
    BY <1>1, <1>2 DEF ListedInv, Listed
  <1>7. CountInv'
    <2>1. \A v \in Clients : Coming(v)' <= Coming(v)
      BY DEF Coming
    <2> QED
      BY <1>3, <2>1, SameWork
  <1>8. PoolHonest'
    BY <1>1 DEF PoolHonest
  <1> QED
    BY <1>2, <1>3, <1>4, <1>5, <1>6, <1>7, <1>8, IoStepKept

LEMMA OnMessageStep ==
  ASSUME IInv, Up, NEW c \in Clients, OnMessage(c)
  PROVE  IInv' /\ NoRevival
  <1> USE DEF OnMessage, connections, pools, jobs, workers, ends
  <1>1. Typed /\ ConnInv /\ ListedInv /\ CountInv /\ PoolHonest
    BY DEF IInv
  <1>2. received \in Nat /\ received + 1 \in 0 .. MaxMessages
    BY <1>1, BoundsAssumption DEF Typed
  <1>3. Typed'
    BY <1>1, <1>2, ClientsAssumption DEF Typed, casts
  <1>4. Refs' = Refs
    BY DEF Refs
  <1>5. ConnInv'
    BY <1>1, <1>4 DEF ConnInv
  <1>6. ListedInv'
    BY <1>1 DEF ListedInv, Listed
  <1>7. CountInv'
    <2>1. ASSUME NEW v \in Clients PROVE Work(v)' <= Work(v)
      <3>1. round[v] \in Nat /\ Len(queue[v]) \in Nat /\ Handling(v) \in Nat /\ Handling(v)' = Handling(v)
        BY <1>1, CountFacts DEF Handling
      <3> QED
        BY <3>1 DEF Work, casts
    <2>2. ASSUME NEW v \in Clients PROVE Coming(v)' + received <= Coming(v) + received'
      <3>1. Coming(v)' \in {0, 1} /\ Coming(v) = 0
        BY DEF Coming
      <3> QED
        BY <1>2, <3>1
    <2>3. \A v, d \in Clients : got'[d][v] <= round'[v]
      BY <1>1, CountFacts DEF casts
    <2> QED
      BY <1>1, <1>3, <2>1, <2>2, <2>3, CountKept
  <1>8. PoolHonest'
    BY <1>1 DEF PoolHonest
  <1> QED
    BY <1>3, <1>4, <1>5, <1>6, <1>7, <1>8, IoStepKept DEF NoRevival

LEMMA PushStep ==
  ASSUME IInv, Up, Push
  PROVE  IInv' /\ NoRevival
  <1> USE DEF Push, IoDone, connections, pools, workers, ends
  <1>1. Typed /\ ConnInv /\ ListedInv /\ CountInv /\ PoolHonest
    BY DEF IInv
  <1>2. ioFor \in Clients /\ ioMsg \in Kinds /\ queue[ioFor] \in Seq(Kinds) /\ received \in Nat
    BY <1>1, BoundsAssumption DEF Typed
  <1>3. /\ queue'[ioFor] = Append(queue[ioFor], ioMsg) /\ queue'[ioFor] \in Seq(Kinds)
        /\ Len(queue'[ioFor]) = Len(queue[ioFor]) + 1 /\ Len(queue[ioFor]) \in Nat
        /\ \A v \in Clients \ {ioFor} : queue'[v] = queue[v]
    <2> DEFINE q == Append(queue[ioFor], ioMsg)
    <2>1. q \in Seq(Kinds) /\ Len(q) = Len(queue[ioFor]) + 1 /\ Len(queue[ioFor]) \in Nat
      BY <1>2, AppendFacts
    <2>2. queue \in [Clients -> Seq(Kinds)] /\ queue' = [queue EXCEPT ![ioFor] = q]
      BY <1>1 DEF Typed
    <2> HIDE DEF q
    <2>3. queue'[ioFor] = q /\ \A v \in Clients \ {ioFor} : queue'[v] = queue[v]
      BY <1>2, <2>2
    <2> QED
      BY <2>1, <2>3 DEF q
  <1>4. Typed'
    BY <1>1, <1>2 DEF Typed, casts, Kinds
  <1>5. Refs' = Refs
    BY DEF Refs
  <1>6. ConnInv'
    BY <1>1, <1>3, <1>5 DEF ConnInv
  <1>7. ListedInv'
    BY <1>1 DEF ListedInv, Listed
  <1>8. CountInv'
    <2>1. ASSUME NEW v \in Clients PROVE Work(v)' + Coming(v)' <= received'
      BY <1>1, <1>2, <1>3, CountFacts DEF Work, Coming, Handling, casts
    <2>2. \A v, d \in Clients : got'[d][v] <= round'[v]
      BY <1>1, CountFacts DEF casts
    <2> QED
      BY <2>1, <2>2 DEF CountInv
  <1>9. PoolHonest'
    BY <1>1 DEF PoolHonest
  <1> QED
    BY <1>4, <1>5, <1>6, <1>7, <1>8, <1>9, IoStepKept DEF NoRevival

LEMMA ClosingStep ==
  ASSUME IInv, Up, NEW c \in Clients, Closing(c)
  PROVE  IInv' /\ NoRevival
  <1> USE DEF Closing, pools, jobs, workers, ios, ends
  <1>1. Typed /\ ConnInv /\ ListedInv /\ PoolHonest
    BY DEF IInv
  <1>2. /\ conn[c] = "open" /\ conn'[c] = "closing"
        /\ \A d \in Clients \ {c} : conn'[d] = conn[d]
    BY <1>1 DEF Typed
  <1>3. Typed'
    BY <1>1 DEF Typed, casts
  <1>4. Refs' = Refs
    BY DEF Refs
  <1>5. ConnInv'
    BY <1>1, <1>2, <1>4 DEF ConnInv
  <1>6. ListedInv'
    BY <1>1, <1>2 DEF ListedInv, Listed
  <1>7. CountInv'
    <2>1. \A v \in Clients : Coming(v)' <= Coming(v)
      BY DEF Coming
    <2> QED
      BY <1>3, <2>1, SameWork
  <1>8. PoolHonest'
    BY <1>1 DEF PoolHonest
  <1> QED
    BY <1>2, <1>3, <1>4, <1>5, <1>6, <1>7, <1>8, IoStepKept DEF NoRevival

\* Who is removed from the pool is no longer connected.
LEMMA OnCloseStep ==
  ASSUME IInv, Up, NEW c \in Clients, OnClose(c)
  PROVE  IInv' /\ NoRevival
  <1> USE DEF OnClose, Del, jobs, workers, ends
  <1>1. Typed /\ ConnInv /\ ListedInv /\ PoolHonest
    BY DEF IInv
  <1>2. /\ conn[c] = "closing" /\ conn'[c] = "closed"
        /\ \A d \in Clients \ {c} : conn'[d] = conn[d]
    BY <1>1 DEF Typed
  <1>3. /\ pool' \in Seq(Clients) /\ ToSet(pool') = ToSet(pool) \ {c}
        /\ \A i, j \in 1 .. Len(pool') : pool'[i] = pool'[j] => i = j
    <2>1. pool \in Seq(Clients) /\ \A i, j \in 1 .. Len(pool) : pool[i] = pool[j] => i = j
      BY <1>1 DEF Typed, PoolHonest
    <2>2. pool' = Without(pool, c)
      OBVIOUS
    <2> HIDE DEF OnClose, Del
    <2> QED
      BY <2>1, <2>2, WithoutFacts
  <1>4. Typed'
    <2>1. conn' \in [Clients -> {"none", "open", "closing", "closed"}] /\ nulls' \in SUBSET Clients
      BY <1>1 DEF Typed
    <2> HIDE DEF Del
    <2> QED
      BY <1>1, <1>3, <2>1, ClientsAssumption DEF Typed, casts
  <1>5. Refs' \subseteq Refs
    BY <1>3 DEF Refs
  <1>6. ConnInv'
    BY <1>1, <1>2, <1>5 DEF ConnInv
  <1>7. ListedInv'
    BY <1>1, <1>2, <1>3 DEF ListedInv, Listed
  <1>8. CountInv'
    <2>1. \A v \in Clients : Coming(v)' <= Coming(v)
      BY DEF Coming
    <2> QED
      BY <1>4, <2>1, SameWork
  <1>9. PoolHonest'
    BY <1>1, <1>3 DEF PoolHonest
  <1> QED
    BY <1>2, <1>4, <1>5, <1>6, <1>7, <1>8, <1>9, IoStepKept DEF NoRevival

\* The destructor runs when nobody refers to the client.
LEMMA EraseStep ==
  ASSUME IInv, Up, Erase
  PROVE  IInv' /\ NoRevival
  <1> USE DEF Erase, IoDone, pools, jobs, workers, ends
  <1>1. Typed /\ ConnInv /\ ListedInv /\ PoolHonest
    BY DEF IInv
  <1>2. ioFor \in Clients /\ conn[ioFor] = "closed" /\ clients' = clients \ {ioFor}
    BY <1>1 DEF Typed, ConnInv
  <1>3. Typed'
    BY <1>1, <1>2, ClientsAssumption DEF Typed, casts, Kinds
  <1>4. Refs' \subseteq Refs
    BY DEF Refs
  <1>5. io' # "push" /\ (io' = "join" => ioFor' = ioFor /\ ioFor \notin Refs') /\ io' # "erase"
    BY DEF Refs, Referred, Listed
  <1>6. ConnInv'
    BY <1>1, <1>2, <1>4, <1>5 DEF ConnInv
  <1>7. ListedInv'
    BY <1>1 DEF ListedInv, Listed
  <1>8. CountInv'
    <2>1. \A v \in Clients : Coming(v)' <= Coming(v)
      BY <1>5 DEF Coming
    <2> QED
      BY <1>3, <2>1, SameWork
  <1>9. PoolHonest'
    BY <1>1 DEF PoolHonest
  <1> QED
    BY <1>3, <1>4, <1>5, <1>6, <1>7, <1>8, <1>9, IoStepKept DEF NoRevival

LEMMA JoinedStep ==
  ASSUME IInv, Up, Joined
  PROVE  IInv' /\ NoRevival
  <1> USE DEF Joined, IoDone, connections, pools, jobs, workers, ends
  <1>1. Typed /\ ConnInv /\ ListedInv /\ PoolHonest
    BY DEF IInv
  <1>2. Typed'
    BY <1>1 DEF Typed, casts, Kinds
  <1>3. Refs' = Refs
    BY DEF Refs
  <1>4. ConnInv'
    BY <1>1, <1>3 DEF ConnInv
  <1>5. ListedInv'
    BY <1>1 DEF ListedInv, Listed
  <1>6. CountInv'
    <2>1. \A v \in Clients : Coming(v)' <= Coming(v)
      BY DEF Coming
    <2> QED
      BY <1>2, <2>1, SameWork
  <1>7. PoolHonest'
    BY <1>1 DEF PoolHonest
  <1> QED
    BY <1>2, <1>3, <1>4, <1>5, <1>6, <1>7, IoStepKept DEF NoRevival

\* Nothing changes but who has missed a notification.
LEMMA MissStep ==
  ASSUME IInv, NEW c \in Clients, Miss(c)
  PROVE  IInv' /\ NoRevival
  <1> USE DEF Miss, connections, pools, jobs, workers, ios, casts
  <1>1. Refs' = Refs
    BY DEF Refs
  <1>2. Typed' /\ ConnInv' /\ ListedInv' /\ JoinInv'
    BY <1>1 DEF IInv, Typed, ConnInv, ListedInv, JoinInv, Listed
  <1>3. CountInv' /\ \A w \in Clients : WorkerInv(w)'
    BY DEF IInv, CountInv, Work, Handling, Coming, WorkerInv
  <1>4. PoolHonest' /\ HeardByAll' /\ EndsHaveCause'
    BY DEF IInv, PoolHonest, HeardByAll, EndsHaveCause
  <1> QED
    BY <1>1, <1>2, <1>3, <1>4 DEF IInv, NoRevival

LEMMA RaceStep ==
  ASSUME IInv, Race
  PROVE  IInv' /\ NoRevival
  BY TerminateStep DEF Race, Causes

-----------------------------------------------------------------------------

LEMMA InitInvariant == Init => IInv
  <1> SUFFICES ASSUME Init PROVE IInv
    OBVIOUS
  <1> USE DEF Init
  <1>1. /\ queue \in [Clients -> Seq(Kinds)] /\ held \in [Clients -> Seq(Clients)]
        /\ todo \in [Clients -> Seq(Clients)] /\ pool \in Seq(Clients)
        /\ pc \in [Clients -> Steps] /\ job \in [Clients -> Kinds]
        /\ joining \in [Clients -> Clients \cup {NoClient}]
    BY DEF EachEmpty, EachIdle, NoJob, NoJoin, Steps, Kinds
  <1>2. Typed
    BY <1>1, BoundsAssumption DEF Typed, Kinds, Causes
  <1>3. \A w \in Clients : held[w] = <<>> /\ queue[w] = <<>> /\ joining[w] = NoClient /\ pc[w] = "idle"
    BY DEF EachEmpty, EachIdle, NoJoin
  <1>4. ToSet(pool) = {} /\ Refs = {}
    BY <1>3, ToSetEmpty DEF Refs
  <1>5. ConnInv /\ ListedInv /\ JoinInv
    BY <1>3, <1>4 DEF ConnInv, ListedInv, JoinInv
  <1>6. CountInv
    <2>1. ASSUME NEW w \in Clients PROVE Work(w) = 0 /\ Coming(w) = 0
      <3>1. round[w] = 0 /\ Len(queue[w]) = 0 /\ Handling(w) = 0 /\ Coming(w) = 0
        BY <1>3 DEF Coming, Handling
      <3> QED
        BY <3>1 DEF Work
    <2> QED
      BY <2>1 DEF CountInv
  <1>7. \A w \in Clients : WorkerInv(w)
    BY <1>3 DEF WorkerInv
  <1>8. PoolHonest /\ HeardByAll /\ EndsHaveCause
    BY <1>3, <1>4 DEF PoolHonest, HeardByAll, EndsHaveCause
  <1> QED
    BY <1>2, <1>5, <1>6, <1>7, <1>8 DEF IInv

\* What a step of the program keeps.
LEMMA NextKeeps ==
  ASSUME IInv, Next
  PROVE  IInv' /\ \A c \in Clients : conn[c] # "none" /\ c \in Refs' => c \in Refs
  <1>1. Up
    BY DEF Next
  <1>2. ASSUME NEW c \in Clients, OnOpen(c)
        PROVE  IInv' /\ \A d \in Clients : conn[d] # "none" /\ d \in Refs' => d \in Refs
    <2>1. conn[c] = "none"
      BY <1>2 DEF OnOpen
    <2> QED
      BY <1>1, <1>2, <2>1, OnOpenStep
  <1>3. ASSUME NEW c \in Clients, OnMessage(c) \/ Closing(c) \/ OnClose(c) \/ Miss(c)
        PROVE  IInv' /\ NoRevival
    BY <1>1, <1>3, OnMessageStep, ClosingStep, OnCloseStep, MissStep
  <1>4. ASSUME NEW w \in Clients, WorkerStep(w)
        PROVE  IInv' /\ NoRevival
    BY <1>1, <1>4, BeginStep, HelloStep, AddToPoolStep, BroadcastStep, ListStep, AnswerStep,
       NoIdStep, CountStep, LookupStep, NoDatabaseStep, RefuseStep, SaveStep, InsertFailsStep,
       KickStep, SendStep, ReleaseStep, JoinStep
    DEF WorkerStep
  <1>5. ASSUME IoStep PROVE IInv' /\ NoRevival
    BY <1>1, <1>5, PushStep, EraseStep, JoinedStep DEF IoStep
  <1>6. ASSUME Race PROVE IInv' /\ NoRevival
    BY <1>6, RaceStep
  <1> QED
    BY <1>2, <1>3, <1>4, <1>5, <1>6 DEF Next, NoRevival

LEMMA StutterKeeps ==
  ASSUME IInv, UNCHANGED vars
  PROVE  IInv'
  <1> USE DEF vars, connections, pools, jobs, workers, ios, casts, ends
  <1>1. Refs' = Refs
    BY DEF Refs
  <1>2. Typed' /\ ConnInv' /\ ListedInv' /\ JoinInv'
    BY <1>1 DEF IInv, Typed, ConnInv, ListedInv, JoinInv, Listed
  <1>3. CountInv' /\ \A w \in Clients : WorkerInv(w)'
    BY DEF IInv, CountInv, Work, Handling, Coming, WorkerInv
  <1>4. PoolHonest' /\ HeardByAll' /\ EndsHaveCause'
    BY DEF IInv, PoolHonest, HeardByAll, EndsHaveCause
  <1> QED
    BY <1>2, <1>3, <1>4 DEF IInv

LEMMA Invariant == Spec => []IInv
  <1>1. IInv /\ [Next]_vars => IInv'
    BY NextKeeps, StutterKeeps
  <1> QED
    BY InitInvariant, <1>1, PTL DEF Spec

\* The variables hold what their comments say, and no thread waits in a
\* destructor for a client that somebody still refers to.
THEOREM TypeCorrect == Spec => []TypeOK
  <1>1. IInv => TypeOK
    <2> SUFFICES ASSUME IInv PROVE TypeOK
      OBVIOUS
    <2>1. Typed /\ JoinInv /\ CountInv
      BY DEF IInv
    <2>2. MaxMessages \in Nat /\ received \in Nat /\ received <= MaxMessages
      BY <2>1, BoundsAssumption DEF Typed
    <2>3. ASSUME NEW w \in Clients
          PROVE  /\ round[w] \in 0 .. MaxMessages
                 /\ \A c \in Clients : got[c][w] \in 0 .. MaxMessages
      <3>1. round[w] \in Nat /\ Len(queue[w]) \in Nat /\ Work(w) + Coming(w) <= received
        BY <2>1, CountFacts
      <3>2. Work(w) \in Nat /\ round[w] <= Work(w) /\ Coming(w) \in Nat
        BY <3>1 DEF Work, Handling, Coming
      <3>3. round[w] <= MaxMessages
        BY <2>2, <3>1, <3>2
      <3> QED
        BY <2>1, <2>2, <3>1, <3>3, CountFacts
    <2>4. round \in [Clients -> 0 .. MaxMessages] /\ got \in [Clients -> [Clients -> 0 .. MaxMessages]]
      BY <2>1, <2>3 DEF Typed
    <2>5. /\ io = "join" => ~Alive(ioFor)
          /\ \A w \in Clients : joining[w] # NoClient => ~Alive(joining[w])
      BY <2>1, AliveRefs DEF JoinInv
    <2> QED
      BY <2>1, <2>4, <2>5 DEF TypeOK, Typed
  <1> QED
    BY Invariant, <1>1, PTL

\* However many hellos a client sends, client_pool::add is called once for it,
\* and only clients that said hello are listed and served.
THEOREM PoolIsHonest == Spec => []PoolHonest
  <1>1. IInv => PoolHonest
    BY DEF IInv
  <1> QED
    BY Invariant, <1>1, PTL

\* on_data sends to everybody who was in the pool when it copied the pool and
\* is still connected, whoever comes, leaves or is kicked meanwhile.
THEOREM BroadcastReachesAll == Spec => []HeardByAll
  <1>1. IInv => HeardByAll
    BY DEF IInv
  <1> QED
    BY Invariant, <1>1, PTL

\* What ends the program because of who is connected takes the very client it is
\* about to have closed, or to have asked for something without a hello: nobody
\* else's coming and going is enough.
THEOREM EndsAreCaused == Spec => []EndsHaveCause
  <1>1. IInv => EndsHaveCause
    BY DEF IInv
  <1> QED
    BY Invariant, <1>1, PTL

\* No container and no thread gets at a client again whose last reference was
\* dropped: no step makes a reference but from another.
THEOREM DestroyedStaysSo == Spec => DestroyedForGood
  <1>1. IInv /\ [Next]_vars =>
          [\A c \in Clients : conn[c] # "none" /\ ~Alive(c) => ~Alive(c)']_vars
    BY NextKeeps, AliveRefs
  <1> QED
    BY Invariant, <1>1, PTL DEF Spec, DestroyedForGood

\* client_pool::add is called before handshake_done is set and never after, so
\* a client that del removed is not added again.
THEOREM RemovedStaysSo == Spec => RemovedForGood
  <1>1. ASSUME IInv, Next, NEW c \in Clients, hello[c], ~Listed(c)
        PROVE  ~Listed(c)'
    <2>1. pool \in Seq(Clients)
      BY <1>1 DEF IInv, Typed
    <2>2. ASSUME NEW w \in Clients, AddToPool(w) PROVE ~Listed(c)'
      <3>1. ~hello[w] /\ pool' = Append(pool, w)
        BY <1>1, <2>2, AtWork DEF AddToPool, WorkerInv
      <3>2. ToSet(pool') = ToSet(pool) \cup {w}
        BY <2>1, <3>1, AppendFacts
      <3> QED
        BY <1>1, <3>1, <3>2 DEF Listed
    <2>3. ASSUME NEW d \in Clients, OnClose(d) PROVE ~Listed(c)'
      <3>1. pool' = Without(pool, d)
        BY <2>3 DEF OnClose, Del
      <3> QED
        BY <1>1, <2>1, <3>1, WithoutFacts DEF Listed
    <2>4. CASE pool' = pool
      BY <1>1, <2>4 DEF Listed
    <2>5. ASSUME NEW w \in Clients,
                 Begin(w) \/ Hello(w) \/ Broadcast(w) \/ List(w) \/ Answer(w) \/ NoId(w) \/ Count(w)
                   \/ Lookup(w) \/ NoDatabase(w) \/ Refuse(w) \/ Save(w) \/ InsertFails(w) \/ Kick(w)
                   \/ Send(w) \/ Release(w) \/ Join(w)
          PROVE  pool' = pool
      <3> USE DEF Caught, TakeSelf, Terminate, pools
      <3>1. CASE Begin(w) \/ Hello(w) \/ Broadcast(w) \/ List(w) \/ Answer(w) \/ Refuse(w) \/ Save(w)
        BY <3>1 DEF Begin, Hello, Broadcast, List, Answer, Refuse, Save
      <3>2. CASE NoId(w) \/ Count(w) \/ Lookup(w) \/ NoDatabase(w) \/ InsertFails(w)
        BY <3>2 DEF NoId, Count, Lookup, NoDatabase, InsertFails
      <3>3. CASE Kick(w) \/ Send(w)
        BY <3>3 DEF Kick, Send
      <3>4. CASE Release(w) \/ Join(w)
        BY <3>4 DEF Release, Join
      <3> QED
        BY <2>5, <3>1, <3>2, <3>3, <3>4
    <2>6. ASSUME NEW d \in Clients, OnOpen(d) \/ OnMessage(d) \/ Closing(d) \/ Miss(d)
          PROVE  pool' = pool
      BY <2>6 DEF OnOpen, OnMessage, Closing, Miss, pools
    <2>7. ASSUME IoStep \/ Race PROVE pool' = pool
      BY <2>7 DEF IoStep, Push, Erase, Joined, Race, Terminate, pools
    <2> QED
      BY <1>1, <2>2, <2>3, <2>4, <2>5, <2>6, <2>7 DEF Next, WorkerStep
  <1>2. IInv /\ [Next]_vars => [\A c \in Clients : hello[c] /\ ~Listed(c) => ~Listed(c)']_vars
    BY <1>1
  <1> QED
    BY Invariant, <1>2, PTL DEF Spec, RemovedForGood
=============================================================================
