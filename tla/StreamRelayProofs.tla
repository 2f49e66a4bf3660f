------------------------- MODULE StreamRelayProofs -------------------------
(***************************************************************************)
(* Proofs about StreamRelay for any players and any number of packets.     *)
(* The cache is the current group (CacheInv) and the newest headers        *)
(* (HeaderInv).  A player that waits was written ends of streams only; one *)
(* that flows was written the cache, and every packet since (PlayerInv).   *)
(***************************************************************************)
EXTENDS StreamRelay, TLAPS

Typed ==
  /\ sent \in Seq(Kinds \cup {"eof"}) /\ Len(sent) <= MaxEvents
  /\ born \in 0 .. Len(sent)
  /\ header \in [Headers -> 0 .. Len(sent)]
  /\ pkts \in Seq(Nat)
  /\ status \in [Players -> {"out", "waiting", "flowing"}]
  /\ out \in [Players -> Seq(Nat)]
  /\ since \in [Players -> 0 .. Len(sent)]
  /\ \A i \in 1 .. Len(pkts) : pkts[i] \in 1 .. Len(sent)
  /\ \A q \in Players : \A i \in 1 .. Len(out[q]) : out[q][i] \in 1 .. Len(sent)

CacheInv ==
  /\ \A i, j \in 1 .. Len(pkts) : i < j => pkts[i] < pkts[j]
  /\ GroupStart \in born + 1 .. Len(sent) + 1
  /\ (\E n \in born + 1 .. Len(sent) : sent[n] = "key") =>
       GroupStart <= Len(sent) /\ sent[GroupStart] = "key"
  /\ {pkts[i] : i \in 1 .. Len(pkts)} = {n \in GroupStart .. Len(sent) : IsFrame(n)}

\* Each header is one of its kind, and none of the stream is newer.
HeaderInv ==
  \A k \in Headers :
    /\ header[k] # 0 => sent[header[k]] = k
    /\ \A n \in born + 1 .. Len(sent) : sent[n] = k => n <= header[k]

\* Nothing twice in f, and its frames in order, where s has the kinds.
Clean(f, s) ==
  \A i, j \in 1 .. Len(f) :
    /\ f[i] = f[j] => i = j
    /\ i < j /\ s[f[i]] \in Frames /\ s[f[j]] \in Frames => f[i] < f[j]

\* Since event t every event up to n was written to f, each in its place.
TailThere(f, n, t) ==
  /\ n - t <= Len(f)
  /\ \A i \in 1 .. n - t : f[Len(f) - (n - t) + i] = t + i

\* The predicates below are of a player's sequence f, the kinds s, and the
\* stream born after event b.
Video(s, n) == s[n] \in {"key", "inter"}

\* For each video header of the stream, f has one that is not older.
HeadersThere(f, s, b) ==
  \A n \in b + 1 .. Len(s) : s[n] = "videoHeader" =>
    \E j \in 1 .. Len(f) : s[f[j]] = "videoHeader" /\ f[j] >= n

HeadersFirst(f, s, b) ==
  \A i \in 1 .. Len(f) : Video(s, f[i]) =>
    \A n \in b + 1 .. f[i] : s[n] = "videoHeader" =>
      \E j \in 1 .. i : s[f[j]] = "videoHeader" /\ f[j] >= n

KeyFirst(f, s, b, t) ==
  (\E k \in b + 1 .. t : s[k] = "key") =>
    \E j \in 1 .. Len(f) : s[f[j]] = "key" /\ \A i \in 1 .. j - 1 : ~Video(s, f[i])

\* What holds of a player written f since event t.
Served(f, s, b, t) ==
  /\ TailThere(f, Len(s), t)
  /\ HeadersThere(f, s, b)
  /\ HeadersFirst(f, s, b)
  /\ KeyFirst(f, s, b, t)

PlayerInv(q) ==
  /\ status[q] = "waiting" => \A i \in 1 .. Len(out[q]) : sent[out[q][i]] = "eof"
  /\ status[q] # "out" => Clean(out[q], sent)
  /\ status[q] = "flowing" => since[q] > born /\ Served(out[q], sent, born, since[q])

IInv == Typed /\ CacheInv /\ HeaderInv /\ \A q \in Players : PlayerInv(q)

-----------------------------------------------------------------------------
(* Sequences *)

LEMMA AppendFacts ==
  ASSUME NEW S, NEW f \in Seq(S), NEW x \in S
  PROVE  /\ Append(f, x) \in Seq(S)
         /\ Len(Append(f, x)) = Len(f) + 1 /\ Len(f) \in Nat
         /\ \A i \in 1 .. Len(f) : Append(f, x)[i] = f[i]
         /\ Append(f, x)[Len(f) + 1] = x
  OBVIOUS

LEMMA ConcatFacts ==
  ASSUME NEW S, NEW f \in Seq(S), NEW g \in Seq(S)
  PROVE  /\ f \o g \in Seq(S)
         /\ Len(f \o g) = Len(f) + Len(g) /\ Len(f) \in Nat /\ Len(g) \in Nat
         /\ \A i \in 1 .. Len(f) : (f \o g)[i] = f[i]
         /\ \A i \in 1 .. Len(g) : (f \o g)[Len(f) + i] = g[i]
         /\ \A i \in 1 .. Len(f \o g) :
              i \in 1 .. Len(f) \/ (\E j \in 1 .. Len(g) : i = Len(f) + j)
  <1>1. /\ f \o g \in Seq(S)
        /\ Len(f \o g) = Len(f) + Len(g) /\ Len(f) \in Nat /\ Len(g) \in Nat
        /\ \A i \in 1 .. Len(f) : (f \o g)[i] = f[i]
        /\ \A i \in 1 .. Len(g) : (f \o g)[Len(f) + i] = g[i]
    OBVIOUS
  <1>2. ASSUME NEW i \in 1 .. Len(f \o g), i \notin 1 .. Len(f)
        PROVE  \E j \in 1 .. Len(g) : i = Len(f) + j
    <2>1. i - Len(f) \in 1 .. Len(g) /\ i = Len(f) + (i - Len(f))
      BY <1>1, <1>2
    <2> QED
      BY <2>1
  <1> QED
    BY <1>1, <1>2

LEMMA ConcatNat ==
  ASSUME NEW f \in Seq(Nat), NEW g \in Seq(Nat), NEW h, h = f \o g
  PROVE  /\ h \in Seq(Nat)
         /\ Len(h) = Len(f) + Len(g) /\ Len(f) \in Nat /\ Len(g) \in Nat
         /\ \A i \in 1 .. Len(f) : h[i] = f[i]
         /\ \A i \in 1 .. Len(g) : h[Len(f) + i] = g[i]
  BY ConcatFacts

LEMMA IncreasingClean ==
  ASSUME NEW s, NEW f \in Seq(Nat), \A i, j \in 1 .. Len(f) : i < j => f[i] < f[j]
  PROVE  Clean(f, s)
  <1> SUFFICES ASSUME NEW i \in 1 .. Len(f), NEW j \in 1 .. Len(f)
               PROVE  f[i] = f[j] => i = j
    BY DEF Clean
  <1>1. f[i] \in Nat /\ f[j] \in Nat
    OBVIOUS
  <1>2. (i < j => f[i] < f[j]) /\ (j < i => f[j] < f[i])
    OBVIOUS
  <1> QED
    BY <1>1, <1>2

LEMMA SeqOf ==
  ASSUME NEW S, NEW T, NEW f \in Seq(S), \A i \in 1 .. Len(f) : f[i] \in T
  PROVE  f \in Seq(T)
  OBVIOUS

\* A clean sequence without frames before a clean one with other elements.
LEMMA ConcatClean ==
  ASSUME NEW s, NEW f \in Seq(Nat), NEW g \in Seq(Nat), Clean(f, s), Clean(g, s),
         \A i \in 1 .. Len(f) : s[f[i]] \notin Frames,
         \A i \in 1 .. Len(f), j \in 1 .. Len(g) : f[i] # g[j]
  PROVE  Clean(f \o g, s)
  <1> DEFINE h == f \o g
  <1>1. /\ Len(h) = Len(f) + Len(g) /\ Len(f) \in Nat /\ Len(g) \in Nat
        /\ \A i \in 1 .. Len(f) : h[i] = f[i]
        /\ \A i \in 1 .. Len(g) : h[Len(f) + i] = g[i]
        /\ \A i \in 1 .. Len(h) : i \in 1 .. Len(f) \/ (\E j \in 1 .. Len(g) : i = Len(f) + j)
    BY ConcatFacts
  <1> HIDE DEF h
  <1>2. ASSUME NEW i \in 1 .. Len(h), NEW j \in 1 .. Len(h)
        PROVE  /\ h[i] = h[j] => i = j
               /\ i < j /\ s[h[i]] \in Frames /\ s[h[j]] \in Frames => h[i] < h[j]
    <2>1. CASE i \in 1 .. Len(f) /\ j \in 1 .. Len(f)
      BY <1>1, <2>1 DEF Clean
    <2>2. CASE i \in 1 .. Len(f) /\ j \notin 1 .. Len(f)
      <3>1. PICK b \in 1 .. Len(g) : j = Len(f) + b
        BY <1>1, <2>2
      <3>2. h[i] = f[i] /\ h[j] = g[b]
        BY <1>1, <2>2, <3>1
      <3> QED
        BY <2>2, <3>1, <3>2
    <2>3. CASE i \notin 1 .. Len(f) /\ j \in 1 .. Len(f)
      <3>1. PICK a \in 1 .. Len(g) : i = Len(f) + a
        BY <1>1, <2>3
      <3>2. h[i] = g[a] /\ h[j] = f[j] /\ i > j
        BY <1>1, <2>3, <3>1
      <3> QED
        BY <2>3, <3>1, <3>2
    <2>4. CASE i \notin 1 .. Len(f) /\ j \notin 1 .. Len(f)
      <3>1. PICK a \in 1 .. Len(g) : i = Len(f) + a
        BY <1>1, <2>4
      <3>2. PICK b \in 1 .. Len(g) : j = Len(f) + b
        BY <1>1, <2>4
      <3>3. h[i] = g[a] /\ h[j] = g[b]
        BY <1>1, <3>1, <3>2
      <3>4. /\ g[a] = g[b] => a = b
            /\ a < b /\ s[g[a]] \in Frames /\ s[g[b]] \in Frames => g[a] < g[b]
        BY DEF Clean
      <3>5. (i < j <=> a < b) /\ (i = j <=> a = b)
        BY <1>1, <3>1, <3>2
      <3> QED
        BY <3>3, <3>4, <3>5
    <2> QED
      BY <2>1, <2>2, <2>3, <2>4
  <1>3. Clean(h, s)
    BY <1>2 DEF Clean
  <1> QED
    BY <1>3 DEF h

\* A new number after a clean sequence of older ones.
LEMMA AppendClean ==
  ASSUME NEW s, NEW f \in Seq(Nat), Clean(f, s), NEW n \in Nat,
         \A i \in 1 .. Len(f) : f[i] < n
  PROVE  Clean(Append(f, n), s)
  <1> DEFINE h == Append(f, n)
  <1>1. /\ Len(h) = Len(f) + 1 /\ Len(f) \in Nat
        /\ \A i \in 1 .. Len(f) : h[i] = f[i] /\ f[i] \in Nat
        /\ h[Len(f) + 1] = n
    BY AppendFacts
  <1> HIDE DEF h
  <1>2. ASSUME NEW i \in 1 .. Len(h), NEW j \in 1 .. Len(h)
        PROVE  /\ h[i] = h[j] => i = j
               /\ i < j /\ s[h[i]] \in Frames /\ s[h[j]] \in Frames => h[i] < h[j]
    <2>1. CASE i \in 1 .. Len(f) /\ j \in 1 .. Len(f)
      BY <1>1, <2>1 DEF Clean
    <2>2. CASE i \in 1 .. Len(f) /\ j = Len(f) + 1
      BY <1>1, <2>2
    <2>3. CASE i = Len(f) + 1 /\ j \in 1 .. Len(f)
      BY <1>1, <2>3
    <2>4. CASE i = Len(f) + 1 /\ j = Len(f) + 1
      BY <1>1, <2>4
    <2> QED
      BY <1>1, <2>1, <2>2, <2>3, <2>4
  <1>3. Clean(h, s)
    BY <1>2 DEF Clean
  <1> QED
    BY <1>3 DEF h

-----------------------------------------------------------------------------
(* One more packet, or end of stream *)

LEMMA EventFacts ==
  ASSUME Typed, NEW k \in Kinds \cup {"eof"}, Len(sent) < MaxEvents, sent' = Append(sent, k)
  PROVE  /\ sent' \in Seq(Kinds \cup {"eof"}) /\ Len(sent) \in Nat
         /\ Len(sent') = Len(sent) + 1 /\ Len(sent') <= MaxEvents
         /\ \A n \in 1 .. Len(sent) : sent'[n] = sent[n]
         /\ \A n \in 1 .. Len(sent) : (IsFrame(n)' <=> IsFrame(n)) /\ (IsVideo(n)' <=> IsVideo(n))
         /\ sent'[Len(sent')] = k
         /\ born \in 0 .. Len(sent')
  <1>1. /\ sent' \in Seq(Kinds \cup {"eof"}) /\ Len(sent) \in Nat
        /\ Len(sent') = Len(sent) + 1
        /\ \A n \in 1 .. Len(sent) : sent'[n] = sent[n]
        /\ sent'[Len(sent')] = k
    BY AppendFacts DEF Typed
  <1> QED
    BY <1>1, MaxEventsAssumption DEF Typed, IsFrame, IsVideo

Keys == {n \in born + 1 .. Len(sent) : sent[n] = "key"}
StartOf(keys, b) == IF keys = {} THEN b + 1 ELSE CHOOSE n \in keys : \A m \in keys : m <= n

LEMMA GroupIs == GroupStart = StartOf(Keys, born)
  BY DEF GroupStart, StartOf, Keys

LEMMA GroupIsNext == GroupStart' = StartOf(Keys', born')
  BY DEF GroupStart, StartOf, Keys

\* The last of some keys is where the group starts.
LEMMA LastKey ==
  ASSUME NEW keys, NEW b, NEW n \in keys, keys \subseteq Nat, \A m \in keys : m <= n
  PROVE  StartOf(keys, b) = n
  <1>1. \A x \in keys : (\A m \in keys : m <= x) => x = n
    OBVIOUS
  <1>2. (CHOOSE x \in keys : \A m \in keys : m <= x) = n
    BY <1>1
  <1> QED
    BY <1>2 DEF StartOf

\* The cache is emptied with its stream.
LEMMA CacheForgotten ==
  ASSUME Len(sent') \in Nat, born' = Len(sent'), pkts' = <<>>
  PROVE  CacheInv'
  <1>1. Keys' = {}
    BY DEF Keys
  <1>2. GroupStart' = Len(sent') + 1
    BY <1>1, GroupIsNext DEF StartOf
  <1> QED
    BY <1>2 DEF CacheInv

\* An event that is no frame leaves the cache as it is.
LEMMA CachePassed ==
  ASSUME Typed, CacheInv, NEW k \in Headers \cup {"eof"}, Len(sent) < MaxEvents,
         sent' = Append(sent, k), born' = born, pkts' = pkts
  PROVE  CacheInv'
  <1>1. /\ Len(sent) \in Nat /\ Len(sent') = Len(sent) + 1 /\ sent'[Len(sent')] = k
        /\ \A n \in 1 .. Len(sent) : sent'[n] = sent[n] /\ (IsFrame(n)' <=> IsFrame(n))
        /\ born \in 0 .. Len(sent)
    BY EventFacts DEF Typed, Kinds
  <1>2. k # "key" /\ k \notin Frames
    BY DEF Headers, Frames
  <1>3. Keys' = Keys
    BY <1>1, <1>2 DEF Keys
  <1>4. GroupStart' = GroupStart
    BY <1>3, GroupIs, GroupIsNext
  <1>5. GroupStart \in born + 1 .. Len(sent) + 1
    BY DEF CacheInv
  <1>6. {n \in GroupStart .. Len(sent') : IsFrame(n)'} = {n \in GroupStart .. Len(sent) : IsFrame(n)}
    BY <1>1, <1>2, <1>5 DEF IsFrame
  <1>7. (\E n \in born + 1 .. Len(sent') : sent'[n] = "key") =>
          (\E n \in born + 1 .. Len(sent) : sent[n] = "key")
    BY <1>1, <1>2
  <1> QED
    BY <1>1, <1>4, <1>5, <1>6, <1>7 DEF CacheInv

\* A key frame starts the cache again.
LEMMA CacheStarted ==
  ASSUME Typed, Len(sent) < MaxEvents, sent' = Append(sent, "key"),
         born' = born, pkts' = <<Len(sent')>>
  PROVE  CacheInv'
  <1>1. /\ Len(sent) \in Nat /\ Len(sent') = Len(sent) + 1 /\ sent'[Len(sent')] = "key"
        /\ born \in 0 .. Len(sent)
    BY EventFacts DEF Typed, Kinds, Frames
  <1>2. Len(sent') \in Keys' /\ Keys' \subseteq Nat /\ \A m \in Keys' : m <= Len(sent')
    BY <1>1 DEF Keys
  <1>3. GroupStart' = Len(sent')
    BY <1>2, LastKey, GroupIsNext
  <1>4. {n \in Len(sent') .. Len(sent') : IsFrame(n)'} = {Len(sent')}
    BY <1>1 DEF IsFrame, Frames
  <1>5. Len(pkts') = 1 /\ pkts'[1] = Len(sent')
    OBVIOUS
  <1>6. {pkts'[i] : i \in 1 .. Len(pkts')} = {Len(sent')}
    BY <1>5
  <1>7. \A i, j \in 1 .. Len(pkts') : i < j => pkts'[i] < pkts'[j]
    BY <1>5
  <1> QED
    BY <1>1, <1>3, <1>4, <1>6, <1>7 DEF CacheInv

\* Any other frame is appended.
LEMMA CacheGrown ==
  ASSUME Typed, CacheInv, NEW k \in Frames \ {"key"}, Len(sent) < MaxEvents,
         sent' = Append(sent, k), born' = born, pkts' = Append(pkts, Len(sent'))
  PROVE  CacheInv'
  <1>1. /\ Len(sent) \in Nat /\ Len(sent') = Len(sent) + 1 /\ sent'[Len(sent')] = k
        /\ \A n \in 1 .. Len(sent) : sent'[n] = sent[n] /\ (IsFrame(n)' <=> IsFrame(n))
        /\ born \in 0 .. Len(sent)
    BY EventFacts DEF Typed, Kinds
  <1>2. Keys' = Keys
    BY <1>1 DEF Keys
  <1>3. GroupStart' = GroupStart
    BY <1>2, GroupIs, GroupIsNext
  <1>4. GroupStart \in born + 1 .. Len(sent) + 1
    BY DEF CacheInv
  <1>5. {n \in GroupStart .. Len(sent') : IsFrame(n)'}
          = {n \in GroupStart .. Len(sent) : IsFrame(n)} \cup {Len(sent')}
    BY <1>1, <1>4 DEF IsFrame
  <1>6. /\ Len(pkts') = Len(pkts) + 1 /\ Len(pkts) \in Nat
        /\ \A i \in 1 .. Len(pkts) : pkts'[i] = pkts[i]
        /\ pkts'[Len(pkts) + 1] = Len(sent')
    BY <1>1, AppendFacts DEF Typed
  <1>7. {pkts'[i] : i \in 1 .. Len(pkts')} = {pkts[i] : i \in 1 .. Len(pkts)} \cup {Len(sent')}
    BY <1>6
  <1>8. ASSUME NEW i \in 1 .. Len(pkts'), NEW j \in 1 .. Len(pkts'), i < j
        PROVE  pkts'[i] < pkts'[j]
    <2>1. i \in 1 .. Len(pkts) /\ pkts'[i] = pkts[i] /\ pkts[i] \in 1 .. Len(sent)
      BY <1>6, <1>8 DEF Typed
    <2>2. CASE j \in 1 .. Len(pkts)
      BY <1>6, <1>8, <2>1, <2>2 DEF CacheInv
    <2>3. CASE j = Len(pkts) + 1
      BY <1>1, <1>6, <2>1, <2>3
    <2> QED
      BY <1>6, <2>2, <2>3
  <1>9. (\E n \in born + 1 .. Len(sent') : sent'[n] = "key") =>
          (\E n \in born + 1 .. Len(sent) : sent[n] = "key")
    BY <1>1
  <1> QED
    BY <1>1, <1>3, <1>4, <1>5, <1>7, <1>8, <1>9 DEF CacheInv

-----------------------------------------------------------------------------
(* Players *)

\* s is followed by one more event, k, as t is.
LEMMA KindsKept ==
  ASSUME NEW s \in Seq(Kinds \cup {"eof"}), NEW k \in Kinds \cup {"eof"}, NEW t, t = Append(s, k)
  PROVE  /\ t \in Seq(Kinds \cup {"eof"}) /\ Len(s) \in Nat /\ Len(t) = Len(s) + 1
         /\ t[Len(t)] = k
         /\ \A n \in 1 .. Len(s) : t[n] = s[n] /\ (Video(t, n) <=> Video(s, n))
  <1>1. /\ t \in Seq(Kinds \cup {"eof"}) /\ Len(s) \in Nat /\ Len(t) = Len(s) + 1
        /\ t[Len(t)] = k /\ \A n \in 1 .. Len(s) : t[n] = s[n]
    BY AppendFacts
  <1> QED
    BY <1>1 DEF Video

\* A clean sequence stays clean when an event comes it does not have.
LEMMA CleanKept ==
  ASSUME NEW s, NEW t, NEW f \in Seq(Nat), Clean(f, s),
         \A n \in 1 .. Len(s) : t[n] = s[n],
         \A i \in 1 .. Len(f) : f[i] \in 1 .. Len(s)
  PROVE  Clean(f, t)
  BY DEF Clean

LEMMA TailGrows ==
  ASSUME NEW f \in Seq(Nat), NEW n \in Nat, NEW t \in 0 .. n, TailThere(f, n, t)
  PROVE  TailThere(Append(f, n + 1), n + 1, t)
  <1> DEFINE g == Append(f, n + 1)
  <1>1. /\ Len(g) = Len(f) + 1 /\ Len(f) \in Nat
        /\ \A i \in 1 .. Len(f) : g[i] = f[i]
        /\ g[Len(f) + 1] = n + 1
    BY AppendFacts
  <1> HIDE DEF g
  <1>2. n - t <= Len(f) /\ \A i \in 1 .. n - t : f[Len(f) - (n - t) + i] = t + i
    BY DEF TailThere
  <1>3. ASSUME NEW i \in 1 .. (n + 1) - t
        PROVE  g[Len(g) - ((n + 1) - t) + i] = t + i
    <2>1. Len(g) - ((n + 1) - t) + i = Len(f) - (n - t) + i
      BY <1>1
    <2>2. CASE i \in 1 .. n - t
      <3>1. Len(f) - (n - t) + i \in 1 .. Len(f)
        BY <1>1, <1>2, <2>2
      <3> QED
        BY <1>1, <1>2, <2>1, <2>2, <3>1
    <2>3. CASE i = (n - t) + 1
      <3>1. Len(f) - (n - t) + i = Len(f) + 1 /\ t + i = n + 1
        BY <1>1, <2>3
      <3> QED
        BY <1>1, <2>1, <3>1
    <2> QED
      BY <2>2, <2>3
  <1>4. TailThere(g, n + 1, t)
    BY <1>1, <1>2, <1>3 DEF TailThere
  <1> QED
    BY <1>4 DEF g

\* A player served goes on to be served when it is written the next event.
LEMMA ServedNext ==
  ASSUME NEW s \in Seq(Kinds \cup {"eof"}), NEW k \in Kinds \cup {"eof"},
         NEW f \in Seq(Nat), \A i \in 1 .. Len(f) : f[i] \in 1 .. Len(s),
         NEW b \in 0 .. Len(s), NEW t \in 0 .. Len(s), Served(f, s, b, t)
  PROVE  Served(Append(f, Len(s) + 1), Append(s, k), b, t)
  <1> DEFINE n == Len(s) + 1
             g == Append(f, n)
             u == Append(s, k)
  <1>1. /\ Len(s) \in Nat /\ Len(u) = n /\ u[n] = k /\ n = Len(s) + 1
        /\ \A m \in 1 .. Len(s) : u[m] = s[m] /\ (Video(u, m) <=> Video(s, m))
    <2>1. /\ Len(s) \in Nat /\ Len(u) = Len(s) + 1 /\ u[Len(u)] = k
          /\ \A m \in 1 .. Len(s) : u[m] = s[m] /\ (Video(u, m) <=> Video(s, m))
      BY KindsKept, Zenon
    <2> QED
      BY <2>1
  <1>2. /\ Len(g) = Len(f) + 1 /\ Len(f) \in Nat
        /\ \A i \in 1 .. Len(f) : g[i] = f[i]
        /\ g[Len(g)] = n
    BY <1>1, AppendFacts
  <1>3. TailThere(g, Len(u), t)
    BY <1>1, TailGrows DEF Served
  <1> HIDE DEF n, g, u
  <1>4. HeadersThere(g, u, b)
    <2> SUFFICES ASSUME NEW m \in b + 1 .. Len(u), u[m] = "videoHeader"
                 PROVE  \E j \in 1 .. Len(g) : u[g[j]] = "videoHeader" /\ g[j] >= m
      BY DEF HeadersThere
    <2>1. CASE m = n
      <3>1. Len(g) \in 1 .. Len(g) /\ u[g[Len(g)]] = "videoHeader" /\ g[Len(g)] >= m
        BY <1>1, <1>2, <2>1
      <3> QED
        BY <3>1
    <2>2. CASE m # n
      <3>1. m \in b + 1 .. Len(s) /\ s[m] = "videoHeader"
        BY <1>1, <2>2
      <3>2. PICK j \in 1 .. Len(f) : s[f[j]] = "videoHeader" /\ f[j] >= m
        BY <3>1 DEF Served, HeadersThere
      <3>3. j \in 1 .. Len(g) /\ g[j] = f[j] /\ u[g[j]] = s[f[j]]
        BY <1>1, <1>2
      <3> QED
        BY <3>2, <3>3
    <2> QED
      BY <2>1, <2>2
  <1>5. HeadersFirst(g, u, b)
    <2> SUFFICES ASSUME NEW i \in 1 .. Len(g), Video(u, g[i]),
                        NEW m \in b + 1 .. g[i], u[m] = "videoHeader"
                 PROVE  \E j \in 1 .. i : u[g[j]] = "videoHeader" /\ g[j] >= m
      BY DEF HeadersFirst
    <2>1. CASE i \in 1 .. Len(f)
      <3>1. g[i] = f[i] /\ Video(s, f[i]) /\ f[i] \in 1 .. Len(s)
        BY <1>1, <1>2, <2>1
      <3>2. m \in b + 1 .. f[i] /\ s[m] = "videoHeader"
        <4>1. m \in b + 1 .. f[i] /\ m \in 1 .. Len(s)
          BY <1>1, <3>1
        <4> QED
          BY <1>1, <4>1
      <3>3. PICK j \in 1 .. i : s[f[j]] = "videoHeader" /\ f[j] >= m
        BY <2>1, <3>1, <3>2 DEF Served, HeadersFirst
      <3>4. j \in 1 .. Len(f) /\ g[j] = f[j] /\ u[g[j]] = s[f[j]]
        BY <1>1, <1>2, <2>1
      <3> QED
        BY <3>3, <3>4
    <2>2. CASE i = Len(g)
      <3>1. m \in b + 1 .. Len(u)
        BY <1>1, <1>2, <2>2
      <3> QED
        BY <1>4, <2>2, <3>1 DEF HeadersThere
    <2> QED
      BY <1>2, <2>1, <2>2
  <1>6. KeyFirst(g, u, b, t)
    <2> SUFFICES ASSUME NEW x \in b + 1 .. t, u[x] = "key"
                 PROVE  \E j \in 1 .. Len(g) :
                          u[g[j]] = "key" /\ \A i \in 1 .. j - 1 : ~Video(u, g[i])
      BY DEF KeyFirst
    <2>1. s[x] = "key"
      BY <1>1
    <2>2. PICK j \in 1 .. Len(f) : s[f[j]] = "key" /\ \A i \in 1 .. j - 1 : ~Video(s, f[i])
      BY <2>1 DEF Served, KeyFirst
    <2>3. j \in 1 .. Len(g) /\ u[g[j]] = "key"
      BY <1>1, <1>2, <2>2
    <2>4. ASSUME NEW i \in 1 .. j - 1
          PROVE  ~Video(u, g[i])
      <3>1. i \in 1 .. Len(f) /\ ~Video(s, f[i])
        BY <1>2, <2>2
      <3>2. g[i] = f[i] /\ f[i] \in 1 .. Len(s)
        BY <1>2, <3>1
      <3> QED
        BY <1>1, <3>1, <3>2
    <2> QED
      BY <2>3, <2>4
  <1>7. Served(g, u, b, t)
    BY <1>3, <1>4, <1>5, <1>6 DEF Served
  <1> QED
    BY <1>7 DEF g, u, n

-----------------------------------------------------------------------------
(* The cache as a player is given it *)

\* Of a header that is there, one packet.
LEMMA PresentFacts ==
  ASSUME NEW s, NEW x \in Nat, NEW p, p = IF x = 0 THEN <<>> ELSE <<x>>
  PROVE  /\ p \in Seq(Nat) /\ Clean(p, s)
         /\ \A i \in 1 .. Len(p) : p[i] = x /\ x # 0
         /\ x # 0 => 1 \in 1 .. Len(p)
  <1>1. CASE x = 0
    <2>1. p = <<>> /\ Len(p) = 0
      BY <1>1
    <2> QED
      BY <1>1, <2>1 DEF Clean
  <1>2. CASE x # 0
    <2>1. p \in Seq(Nat) /\ Len(p) = 1 /\ p[1] = x
      BY <1>2
    <2> QED
      BY <1>2, <2>1 DEF Clean
  <1> QED
    BY <1>1, <1>2

\* What holds of all elements of two sequences holds of their concatenation.
LEMMA ConcatWithin ==
  ASSUME NEW f \in Seq(Nat), NEW g \in Seq(Nat), NEW T,
         \A i \in 1 .. Len(f) : f[i] \in T, \A i \in 1 .. Len(g) : g[i] \in T
  PROVE  \A i \in 1 .. Len(f \o g) : (f \o g)[i] \in T
  <1> SUFFICES ASSUME NEW i \in 1 .. Len(f \o g)
               PROVE  (f \o g)[i] \in T
    OBVIOUS
  <1>1. CASE i \in 1 .. Len(f)
    BY <1>1, ConcatFacts
  <1>2. CASE \E j \in 1 .. Len(g) : i = Len(f) + j
    BY <1>2, ConcatFacts
  <1> QED
    BY <1>1, <1>2, ConcatFacts

Elements(f) == {f[i] : i \in 1 .. Len(f)}
Of(s, S) == {n \in 1 .. Len(s) : s[n] \in S}
Given(x) == IF x = 0 THEN <<>> ELSE <<x>>
Preamble(m, v, a) == Given(m) \o Given(v) \o Given(a)

\* The headers before the cache: clean, headers all, the video header among them.
LEMMA PreambleFacts ==
  ASSUME NEW s, NEW m \in Nat, NEW v \in Nat, NEW a \in Nat, Len(s) \in Nat,
         m # 0 => m \in Of(s, {"metadata"}),
         v # 0 => v \in Of(s, {"videoHeader"}),
         a # 0 => a \in Of(s, {"audioHeader"}),
         NEW p, p = Preamble(m, v, a)
  PROVE  /\ p \in Seq(Nat) /\ Clean(p, s)
         /\ \A i \in 1 .. Len(p) : p[i] \in Of(s, Headers)
         /\ v # 0 => v \in Elements(p)
  <1> DEFINE pm == Given(m)
             pv == Given(v)
             pa == Given(a)
             w == pm \o pv
  <1>1. /\ pm \in Seq(Nat) /\ Clean(pm, s)
        /\ \A i \in 1 .. Len(pm) : pm[i] \in Of(s, {"metadata"})
    BY PresentFacts DEF Given
  <1>2. /\ pv \in Seq(Nat) /\ Clean(pv, s)
        /\ \A i \in 1 .. Len(pv) : pv[i] \in Of(s, {"videoHeader"})
        /\ v # 0 => 1 \in 1 .. Len(pv) /\ pv[1] = v
    BY PresentFacts DEF Given
  <1>3. /\ pa \in Seq(Nat) /\ Clean(pa, s)
        /\ \A i \in 1 .. Len(pa) : pa[i] \in Of(s, {"audioHeader"})
    BY PresentFacts DEF Given
  <1>4. p = w \o pa
    BY DEF Preamble
  <1> HIDE DEF pm, pv, pa
  <1>5. Clean(w, s)
    <2>1. \A i \in 1 .. Len(pm) : s[pm[i]] \notin Frames
      BY <1>1 DEF Of, Frames
    <2>2. \A i \in 1 .. Len(pm), j \in 1 .. Len(pv) : pm[i] # pv[j]
      BY <1>1, <1>2 DEF Of
    <2> QED
      BY <1>1, <1>2, <2>1, <2>2, ConcatClean
  <1>6. /\ w \in Seq(Nat) /\ Len(w) = Len(pm) + Len(pv) /\ Len(pm) \in Nat /\ Len(pv) \in Nat
        /\ \A i \in 1 .. Len(pv) : w[Len(pm) + i] = pv[i]
    BY <1>1, <1>2, ConcatFacts
  <1>7. \A i \in 1 .. Len(w) : w[i] \in Of(s, {"metadata", "videoHeader"})
    <2>1. \A i \in 1 .. Len(pm) : pm[i] \in Of(s, {"metadata", "videoHeader"})
      BY <1>1 DEF Of
    <2>2. \A i \in 1 .. Len(pv) : pv[i] \in Of(s, {"metadata", "videoHeader"})
      BY <1>2 DEF Of
    <2> QED
      BY <1>1, <1>2, <2>1, <2>2, ConcatWithin
  <1> HIDE DEF w
  <1>8. Clean(p, s)
    <2>1. \A i \in 1 .. Len(w) : s[w[i]] \notin Frames
      BY <1>7 DEF Of, Frames
    <2>2. \A i \in 1 .. Len(w), j \in 1 .. Len(pa) : w[i] # pa[j]
      BY <1>3, <1>7 DEF Of
    <2> QED
      BY <1>3, <1>4, <1>5, <1>6, <2>1, <2>2, ConcatClean
  <1>9. p \in Seq(Nat) /\ Len(p) = Len(w) + Len(pa) /\ Len(pa) \in Nat
        /\ \A i \in 1 .. Len(w) : p[i] = w[i]
    <2>1. w \in Seq(Nat) /\ pa \in Seq(Nat)
      BY <1>3, <1>6
    <2> QED
      <3>1. p \in Seq(Nat)
        BY <1>4, <2>1, ConcatNat
      <3>2. Len(p) = Len(w) + Len(pa)
        BY <1>4, <2>1, ConcatNat
      <3>3. Len(pa) \in Nat
        BY <2>1
      <3>4. \A i \in 1 .. Len(w) : p[i] = w[i]
        BY <1>4, <2>1, ConcatNat
      <3> QED
        BY <3>1, <3>2, <3>3, <3>4
  <1>10. \A i \in 1 .. Len(p) : p[i] \in Of(s, Headers)
    <2>1. \A i \in 1 .. Len(w) : w[i] \in Of(s, Headers)
      BY <1>7 DEF Of, Headers
    <2>2. \A i \in 1 .. Len(pa) : pa[i] \in Of(s, Headers)
      BY <1>3 DEF Of, Headers
    <2> QED
      BY <1>3, <1>4, <1>6, <2>1, <2>2, ConcatWithin
  <1>11. ASSUME v # 0
         PROVE  \E j \in 1 .. Len(p) : p[j] = v
    <2>1. Len(pm) + 1 \in 1 .. Len(w) /\ w[Len(pm) + 1] = v
      <3>1. 1 \in 1 .. Len(pv) /\ pv[1] = v
        BY <1>2, <1>11
      <3>2. w[Len(pm) + 1] = pv[1]
        BY <1>6, <3>1
      <3>3. Len(pm) + 1 \in 1 .. Len(w)
        BY <1>6, <3>1
      <3> QED
        BY <3>1, <3>2, <3>3
    <2>2. Len(pm) + 1 \in 1 .. Len(p) /\ p[Len(pm) + 1] = v
      <3>1. Len(w) \in Nat /\ Len(pa) \in Nat /\ Len(p) = Len(w) + Len(pa)
        BY <1>6, <1>9
      <3>2. p[Len(pm) + 1] = w[Len(pm) + 1]
        BY <1>9, <2>1
      <3>3. Len(pm) + 1 \in 1 .. Len(p)
        BY <1>6, <2>1, <3>1
      <3> QED
        BY <2>1, <3>2, <3>3
    <2> QED
      BY <2>2
  <1> QED
    BY <1>8, <1>9, <1>10, <1>11 DEF Elements

\* A player f that was written ends of streams only is served when it is
\* written the headers p and the packets c of the cache.
LEMMA ServedFirst ==
  ASSUME NEW s, Len(s) \in Nat, NEW b \in Nat, NEW v \in Nat,
         NEW f \in Seq(Nat), Clean(f, s), \A i \in 1 .. Len(f) : f[i] \in Of(s, {"eof"}),
         NEW p \in Seq(Nat), Clean(p, s), \A i \in 1 .. Len(p) : p[i] \in Of(s, Headers),
         v # 0 => v \in Of(s, {"videoHeader"}) /\ (\E j \in 1 .. Len(p) : p[j] = v),
         \A n \in b + 1 .. Len(s) : s[n] = "videoHeader" => n <= v,
         NEW c \in Seq(Nat), \A i, j \in 1 .. Len(c) : i < j => c[i] < c[j],
         \A i \in 1 .. Len(c) : c[i] \in Of(s, Frames),
         (\E n \in b + 1 .. Len(s) : s[n] = "key") => 1 \in 1 .. Len(c) /\ s[c[1]] = "key"
  PROVE  /\ Clean(f \o (p \o c), s)
         /\ Served(f \o (p \o c), s, b, Len(s))
         /\ \A i \in 1 .. Len(f \o (p \o c)) : (f \o (p \o c))[i] \in 1 .. Len(s)
  <1> DEFINE h == p \o c
             g == f \o h
  <1>1. /\ h \in Seq(Nat) /\ Len(h) = Len(p) + Len(c) /\ Len(p) \in Nat /\ Len(c) \in Nat
        /\ \A i \in 1 .. Len(p) : h[i] = p[i]
        /\ \A i \in 1 .. Len(c) : h[Len(p) + i] = c[i]
    <2>1. h \in Seq(Nat) /\ Len(h) = Len(p) + Len(c) /\ Len(p) \in Nat /\ Len(c) \in Nat
      BY ConcatNat
    <2>2. \A i \in 1 .. Len(p) : h[i] = p[i]
      BY ConcatNat
    <2>3. \A i \in 1 .. Len(c) : h[Len(p) + i] = c[i]
      BY ConcatNat
    <2> QED
      BY <2>1, <2>2, <2>3
  <1>0. g = f \o h
    OBVIOUS
  <1> HIDE DEF h, g
  <1>2. /\ g \in Seq(Nat) /\ Len(g) = Len(f) + Len(h) /\ Len(f) \in Nat /\ Len(h) \in Nat
        /\ \A i \in 1 .. Len(f) : g[i] = f[i]
        /\ \A i \in 1 .. Len(h) : g[Len(f) + i] = h[i]
    <2>1. h \in Seq(Nat)
      BY <1>1
    <2> QED
      <3>1. g \in Seq(Nat)
        BY <1>0, <2>1, ConcatNat
      <3>2. Len(g) = Len(f) + Len(h)
        BY <1>0, <2>1, ConcatNat
      <3>3. Len(f) \in Nat /\ Len(h) \in Nat
        BY <2>1
      <3>4. \A i \in 1 .. Len(f) : g[i] = f[i]
        BY <1>0, <2>1, ConcatNat
      <3>5. \A i \in 1 .. Len(h) : g[Len(f) + i] = h[i]
        BY <1>0, <2>1, ConcatNat
      <3> QED
        BY <3>1, <3>2, <3>3, <3>4, <3>5
  <1>3. Clean(h, s)
    <2>1. Clean(c, s)
      BY IncreasingClean
    <2>2. \A i \in 1 .. Len(p) : s[p[i]] \notin Frames
      BY DEF Of, Headers, Frames
    <2>3. \A i \in 1 .. Len(p), j \in 1 .. Len(c) : p[i] # c[j]
      BY <2>2 DEF Of
    <2> QED
      BY <2>1, <2>2, <2>3, ConcatClean DEF h
  <1>4. \A i \in 1 .. Len(h) : h[i] \in Of(s, Kinds)
    <2>1. \A i \in 1 .. Len(p) : p[i] \in Of(s, Kinds)
      BY DEF Of, Kinds
    <2>2. \A i \in 1 .. Len(c) : c[i] \in Of(s, Kinds)
      BY DEF Of, Kinds
    <2> QED
      BY <2>1, <2>2, ConcatWithin DEF h
  <1>5. Clean(g, s)
    <2>1. \A i \in 1 .. Len(f) : s[f[i]] \notin Frames
      BY DEF Of, Frames
    <2>2. \A i \in 1 .. Len(f), j \in 1 .. Len(h) : f[i] # h[j]
      BY <1>4 DEF Of, Kinds, Headers, Frames
    <2> QED
      BY <1>0, <1>1, <1>3, <2>1, <2>2, ConcatClean
  <1>6. \A i \in 1 .. Len(g) : g[i] \in 1 .. Len(s)
    <2>1. \A i \in 1 .. Len(f) : f[i] \in 1 .. Len(s)
      BY DEF Of
    <2>2. \A i \in 1 .. Len(h) : h[i] \in 1 .. Len(s)
      BY <1>4 DEF Of
    <2> QED
      BY <1>0, <1>1, <2>1, <2>2, ConcatWithin
  <1>a. /\ Len(f) \in Nat /\ Len(p) \in Nat /\ Len(c) \in Nat
        /\ Len(h) = Len(p) + Len(c) /\ Len(g) = Len(f) + (Len(p) + Len(c))
    BY <1>1, <1>2
  \* The first video frame is after the headers.
  <1>7. ASSUME NEW i \in 1 .. Len(f) + Len(p)
        PROVE  i \in 1 .. Len(g) /\ ~Video(s, g[i])
    <2>1. i \in 1 .. Len(g)
      BY <1>1, <1>2
    <2>2. CASE i \in 1 .. Len(f)
      <3>1. s[g[i]] = "eof"
        BY <1>2, <2>2 DEF Of
      <3> QED
        BY <2>1, <3>1 DEF Video
    <2>3. CASE i \notin 1 .. Len(f)
      <3>1. i - Len(f) \in 1 .. Len(p) /\ i - Len(f) \in 1 .. Len(h) /\ i = Len(f) + (i - Len(f))
        BY <1>a, <2>3
      <3>2. g[i] = p[i - Len(f)]
        BY <1>1, <1>2, <3>1
      <3>3. s[g[i]] \in Headers
        BY <3>1, <3>2 DEF Of
      <3> QED
        BY <2>1, <3>3 DEF Video, Headers
    <2> QED
      BY <2>2, <2>3
  <1>8. ASSUME NEW n \in b + 1 .. Len(s), s[n] = "videoHeader"
        PROVE  \E j \in 1 .. Len(f) + Len(p) : s[g[j]] = "videoHeader" /\ g[j] >= n
    <2>1. n <= v /\ v # 0
      BY <1>8
    <2>2. PICK j \in 1 .. Len(p) : p[j] = v
      BY <2>1
    <2>3. s[v] = "videoHeader"
      BY <2>1 DEF Of
    <2>4. j \in 1 .. Len(h) /\ Len(f) + j \in 1 .. Len(f) + Len(p)
      BY <1>1, <1>2
    <2>5. g[Len(f) + j] = v
      <3>1. h[j] = v
        BY <1>1, <2>2
      <3>2. g[Len(f) + j] = h[j]
        BY <1>2, <2>4
      <3> QED
        BY <3>1, <3>2
    <2> QED
      BY <2>1, <2>3, <2>4, <2>5
  <1>9. HeadersThere(g, s, b)
    <2>1. \A j \in 1 .. Len(f) + Len(p) : j \in 1 .. Len(g)
      BY <1>7
    <2> QED
      BY <1>8, <2>1 DEF HeadersThere
  <1>10. HeadersFirst(g, s, b)
    <2> SUFFICES ASSUME NEW i \in 1 .. Len(g), Video(s, g[i]),
                        NEW n \in b + 1 .. g[i], s[n] = "videoHeader"
                 PROVE  \E j \in 1 .. i : s[g[j]] = "videoHeader" /\ g[j] >= n
      BY DEF HeadersFirst
    <2>1. i > Len(f) + Len(p)
      <3>1. i \notin 1 .. Len(f) + Len(p)
        BY <1>7
      <3> QED
        BY <1>a, <3>1
    <2>2. n \in b + 1 .. Len(s)
      BY <1>6
    <2>3. PICK j \in 1 .. Len(f) + Len(p) : s[g[j]] = "videoHeader" /\ g[j] >= n
      BY <1>8, <2>2
    <2>4. j \in 1 .. i
      BY <1>1, <1>2, <2>1
    <2> QED
      BY <2>3, <2>4
  <1>11. KeyFirst(g, s, b, Len(s))
    <2> SUFFICES ASSUME \E n \in b + 1 .. Len(s) : s[n] = "key"
                 PROVE  \E j \in 1 .. Len(g) :
                          s[g[j]] = "key" /\ \A i \in 1 .. j - 1 : ~Video(s, g[i])
      BY DEF KeyFirst
    <2> DEFINE j == Len(f) + (Len(p) + 1)
    <2>1. 1 \in 1 .. Len(c) /\ s[c[1]] = "key"
      OBVIOUS
    <2>2. Len(p) + 1 \in 1 .. Len(h) /\ h[Len(p) + 1] = c[1]
      BY <1>1, <2>1
    <2>3. j \in 1 .. Len(g) /\ g[j] = c[1]
      BY <1>2, <2>2
    <2>4. \A i \in 1 .. j - 1 : i \in 1 .. Len(f) + Len(p)
      BY <1>1, <1>2
    <2> HIDE DEF j
    <2> QED
      BY <1>7, <2>1, <2>3, <2>4
  <1>12. TailThere(g, Len(s), Len(s))
    BY <1>1, <1>2 DEF TailThere
  <1>13. Served(g, s, b, Len(s))
    BY <1>9, <1>10, <1>11, <1>12 DEF Served
  <1> QED
    BY <1>5, <1>6, <1>13 DEF g, h

-----------------------------------------------------------------------------
(* The steps of the cache and of the players *)

\* The cache starts at the key frame its group starts at.
LEMMA FirstIsKey ==
  ASSUME NEW s, Len(s) \in Nat, NEW c \in Seq(Nat), NEW x \in Nat,
         \A i, j \in 1 .. Len(c) : i < j => c[i] < c[j],
         {c[i] : i \in 1 .. Len(c)} = {n \in x .. Len(s) : s[n] \in Frames},
         x <= Len(s), s[x] = "key"
  PROVE  1 \in 1 .. Len(c) /\ s[c[1]] = "key"
  <1>1. x \in {n \in x .. Len(s) : s[n] \in Frames}
    BY DEF Frames
  <1>2. PICK i \in 1 .. Len(c) : c[i] = x
    BY <1>1
  <1>3. Len(c) \in Nat
    OBVIOUS
  <1>4. 1 \in 1 .. Len(c)
    BY <1>2, <1>3
  <1>5. c[1] \in {n \in x .. Len(s) : s[n] \in Frames}
    BY <1>4
  <1>6. i = 1
    <2>1. CASE i # 1
      <3>1. 1 < i
        BY <1>2, <1>3, <2>1
      <3>2. c[1] < c[i]
        BY <1>2, <1>4, <3>1
      <3> QED
        BY <1>2, <1>5, <3>2
    <2> QED
      BY <2>1
  <1> QED
    BY <1>2, <1>4, <1>6

LEMMA CacheSend ==
  ASSUME Typed, CacheInv, NEW k \in Kinds, Send(k)
  PROVE  /\ CacheInv' /\ pkts' \in Seq(Nat)
         /\ \A i \in 1 .. Len(pkts') : pkts'[i] \in 1 .. Len(sent')
  <1>1. /\ sent' = Append(sent, k) /\ Len(sent) < MaxEvents /\ born' = born
        /\ Insert(k, Len(sent'))
    BY DEF Send
  <1>2. Len(sent) \in Nat /\ Len(sent') = Len(sent) + 1
    BY <1>1, EventFacts
  <1>3. pkts \in Seq(Nat) /\ \A i \in 1 .. Len(pkts) : pkts[i] \in 1 .. Len(sent)
    BY DEF Typed
  <1>4. CASE k \in Headers
    <2>1. pkts' = pkts
      BY <1>1, <1>4 DEF Insert
    <2>2. CacheInv'
      BY <1>1, <1>4, <2>1, CachePassed
    <2> QED
      BY <1>2, <1>3, <2>1, <2>2
  <1>5. CASE k = "key"
    <2>1. pkts' = <<Len(sent')>>
      BY <1>1, <1>5 DEF Insert, Headers
    <2>2. CacheInv'
      BY <1>1, <1>5, <2>1, CacheStarted
    <2> QED
      BY <1>2, <2>1, <2>2
  <1>6. CASE k \in Frames \ {"key"}
    <2>1. pkts' = Append(pkts, Len(sent'))
      BY <1>1, <1>6 DEF Insert, Headers, Frames
    <2>2. CacheInv'
      BY <1>1, <1>6, <2>1, CacheGrown
    <2>3. /\ pkts' \in Seq(Nat) /\ Len(pkts') = Len(pkts) + 1 /\ Len(pkts) \in Nat
          /\ \A i \in 1 .. Len(pkts) : pkts'[i] = pkts[i]
          /\ pkts'[Len(pkts) + 1] = Len(sent')
      BY <1>2, <1>3, <2>1, AppendFacts
    <2>4. ASSUME NEW i \in 1 .. Len(pkts')
          PROVE  pkts'[i] \in 1 .. Len(sent')
      <3>1. CASE i \in 1 .. Len(pkts)
        <4>1. pkts'[i] = pkts[i] /\ pkts[i] \in 1 .. Len(sent)
          BY <1>3, <2>3, <3>1
        <4> QED
          BY <1>2, <4>1
      <3>2. CASE i = Len(pkts) + 1
        BY <1>2, <2>3, <3>2
      <3> QED
        BY <2>3, <3>1, <3>2
    <2> QED
      BY <2>2, <2>3, <2>4
  <1> QED
    BY <1>4, <1>5, <1>6 DEF Kinds

LEMMA HeadersSend ==
  ASSUME Typed, HeaderInv, NEW k \in Kinds, Send(k)
  PROVE  HeaderInv' /\ header' \in [Headers -> 0 .. Len(sent')]
  <1>1. /\ sent' = Append(sent, k) /\ Len(sent) < MaxEvents /\ born' = born
        /\ Insert(k, Len(sent'))
    BY DEF Send
  <1>2. /\ Len(sent) \in Nat /\ Len(sent') = Len(sent) + 1 /\ sent'[Len(sent')] = k
        /\ \A n \in 1 .. Len(sent) : sent'[n] = sent[n]
        /\ born \in 0 .. Len(sent)
    BY <1>1, EventFacts DEF Typed
  <1>3. header \in [Headers -> 0 .. Len(sent)]
    BY DEF Typed
  <1>4. header' \in [Headers -> 0 .. Len(sent')]
    <2>1. CASE k \in Headers
      BY <1>1, <1>2, <1>3, <2>1 DEF Insert
    <2>2. CASE k \notin Headers
      BY <1>1, <1>2, <1>3, <2>2 DEF Insert
    <2> QED
      BY <2>1, <2>2
  <1>5. ASSUME NEW h \in Headers
        PROVE  /\ header'[h] # 0 => sent'[header'[h]] = h
               /\ \A n \in born' + 1 .. Len(sent') : sent'[n] = h => n <= header'[h]
    <2>1. CASE h = k
      <3>1. header'[h] = Len(sent')
        BY <1>1, <1>3, <2>1 DEF Insert
      <3> QED
        BY <1>1, <1>2, <2>1, <3>1
    <2>2. CASE h # k
      <3>1. header'[h] = header[h] /\ header[h] \in 0 .. Len(sent)
        BY <1>1, <1>3, <2>2 DEF Insert
      <3>2. header[h] # 0 => header[h] \in 1 .. Len(sent) /\ sent[header[h]] = h
        BY <1>2, <3>1 DEF HeaderInv
      <3>3. ASSUME NEW n \in born' + 1 .. Len(sent'), sent'[n] = h
            PROVE  n <= header'[h]
        <4>1. n \in born + 1 .. Len(sent) /\ n \in 1 .. Len(sent)
          BY <1>1, <1>2, <2>2, <3>3
        <4> QED
          BY <1>2, <3>1, <3>3, <4>1 DEF HeaderInv
      <3> QED
        BY <1>2, <3>1, <3>2, <3>3
    <2> QED
      BY <2>1, <2>2
  <1> QED
    BY <1>4, <1>5 DEF HeaderInv

\* What is kept of each player besides the type of the function out.
PlayerTyped(q) ==
  out[q] \in Seq(Nat) /\ \A i \in 1 .. Len(out[q]) : out[q][i] \in 1 .. Len(sent)

\* A player that does not wait for the cache is written the next event.
LEMMA PlayerWritten ==
  ASSUME Typed, NEW k \in Kinds \cup {"eof"}, Len(sent) < MaxEvents,
         sent' = Append(sent, k), born' = born,
         NEW q \in Players, PlayerInv(q), status[q] # "out",
         status[q] = "flowing" \/ k = "eof",
         status'[q] = status[q], since'[q] = since[q],
         out'[q] = Append(out[q], Len(sent'))
  PROVE  PlayerInv(q)' /\ PlayerTyped(q)'
  <1>1. /\ Len(sent) \in Nat /\ Len(sent') = Len(sent) + 1 /\ sent'[Len(sent')] = k
        /\ \A n \in 1 .. Len(sent) : sent'[n] = sent[n]
        /\ born \in 0 .. Len(sent)
    BY EventFacts DEF Typed
  <1>2. /\ out[q] \in Seq(Nat) /\ \A i \in 1 .. Len(out[q]) : out[q][i] \in 1 .. Len(sent)
        /\ sent \in Seq(Kinds \cup {"eof"}) /\ since[q] \in 0 .. Len(sent)
    BY DEF Typed
  <1>3. /\ out'[q] \in Seq(Nat) /\ Len(out'[q]) = Len(out[q]) + 1 /\ Len(out[q]) \in Nat
        /\ \A i \in 1 .. Len(out[q]) : out'[q][i] = out[q][i]
        /\ out'[q][Len(out[q]) + 1] = Len(sent')
    BY <1>1, <1>2, AppendFacts
  <1>4. ASSUME NEW i \in 1 .. Len(out'[q])
        PROVE  /\ out'[q][i] \in 1 .. Len(sent')
               /\ (\A j \in 1 .. Len(out[q]) : sent[out[q][j]] = "eof") /\ k = "eof" =>
                    sent'[out'[q][i]] = "eof"
    <2>1. CASE i \in 1 .. Len(out[q])
      <3>1. out'[q][i] = out[q][i] /\ out[q][i] \in 1 .. Len(sent)
        BY <1>2, <1>3, <2>1
      <3> QED
        BY <1>1, <2>1, <3>1
    <2>2. CASE i = Len(out[q]) + 1
      BY <1>1, <1>3, <2>2
    <2>3. i \in 1 .. Len(out[q]) \/ i = Len(out[q]) + 1
      BY <1>3
    <2> QED
      BY <2>1, <2>2, <2>3
  <1>5. Clean(out'[q], sent')
    <2>1. Clean(out[q], sent)
      BY DEF PlayerInv
    <2>2. Clean(out[q], sent')
      <3>1. out[q] \in Seq(Nat) /\ \A i \in 1 .. Len(out[q]) : out[q][i] \in 1 .. Len(sent)
        BY <1>2
      <3>2. \A n \in 1 .. Len(sent) : sent'[n] = sent[n]
        BY <1>1
      <3> QED
        BY <2>1, <3>1, <3>2, CleanKept
    <2>3. Len(sent') \in Nat /\ out[q] \in Seq(Nat) /\ \A i \in 1 .. Len(out[q]) : out[q][i] < Len(sent')
      BY <1>1, <1>2
    <2>4. Clean(Append(out[q], Len(sent')), sent')
      BY <2>2, <2>3, AppendClean
    <2> QED
      BY <2>4
  <1>6. status[q] = "flowing" => since[q] > born /\ Served(out'[q], sent', born, since[q])
    <2> SUFFICES ASSUME status[q] = "flowing"
                 PROVE  since[q] > born /\ Served(out'[q], sent', born, since[q])
      OBVIOUS
    <2>1. since[q] > born /\ Served(out[q], sent, born, since[q])
      BY DEF PlayerInv
    <2>2. Served(Append(out[q], Len(sent) + 1), Append(sent, k), born, since[q])
      BY <1>1, <1>2, <2>1, ServedNext
    <2>3. out'[q] = Append(out[q], Len(sent) + 1)
      BY <1>1
    <2> QED
      BY <2>1, <2>2, <2>3
  <1>7. status[q] = "waiting" => \A i \in 1 .. Len(out'[q]) : sent'[out'[q][i]] = "eof"
    BY <1>4 DEF PlayerInv
  <1>8. PlayerTyped(q)'
    BY <1>3, <1>4 DEF PlayerTyped
  <1> QED
    BY <1>5, <1>6, <1>7, <1>8 DEF PlayerInv

\* A player that waits is written the cache, the packet of this step included.
LEMMA PlayerGiven ==
  ASSUME Typed, CacheInv, HeaderInv, NEW k \in Kinds, Send(k),
         NEW q \in Players, PlayerInv(q), status[q] = "waiting"
  PROVE  PlayerInv(q)' /\ PlayerTyped(q)'
  <1>1. /\ sent' = Append(sent, k) /\ Len(sent) < MaxEvents /\ born' = born
        /\ Relay(Len(sent'))
    BY DEF Send
  <1>2. /\ Len(sent) \in Nat /\ Len(sent') = Len(sent) + 1
        /\ \A n \in 1 .. Len(sent) : sent'[n] = sent[n]
        /\ born \in 0 .. Len(sent)
    BY <1>1, EventFacts DEF Typed
  <1>3. /\ CacheInv' /\ pkts' \in Seq(Nat)
        /\ \A i \in 1 .. Len(pkts') : pkts'[i] \in 1 .. Len(sent')
        /\ HeaderInv' /\ header' \in [Headers -> 0 .. Len(sent')]
    BY CacheSend, HeadersSend
  <1> DEFINE pre == Preamble(header'["metadata"], header'["videoHeader"], header'["audioHeader"])
             v == header'["videoHeader"]
             s == sent'
             c == pkts'
             f == out[q]
  <1>4. /\ status'[q] = "flowing" /\ since'[q] = Len(sent')
        /\ out'[q] = out[q] \o Burst
    BY <1>1 DEF Relay, Typed
  <1>5. Burst = pre \o c
    BY DEF Burst, Present, Preamble, Given
  <1>6. \A h \in Headers : header'[h] \in Nat /\ (header'[h] # 0 => header'[h] \in Of(s, {h}))
    BY <1>2, <1>3 DEF HeaderInv, Of
  <1>7. /\ pre \in Seq(Nat) /\ Clean(pre, s)
        /\ \A i \in 1 .. Len(pre) : pre[i] \in Of(s, Headers)
        /\ v # 0 => \E j \in 1 .. Len(pre) : pre[j] = v
    <2> DEFINE m == header'["metadata"]
               a == header'["audioHeader"]
    <2>1. m \in Nat /\ (m # 0 => m \in Of(s, {"metadata"}))
      BY <1>6 DEF Headers
    <2>2. v \in Nat /\ (v # 0 => v \in Of(s, {"videoHeader"}))
      BY <1>6 DEF Headers
    <2>3. a \in Nat /\ (a # 0 => a \in Of(s, {"audioHeader"}))
      BY <1>6 DEF Headers
    <2>4. Len(s) \in Nat
      BY <1>2
    <2>5. pre = Preamble(m, v, a)
      OBVIOUS
    <2> HIDE DEF pre, v, s, m, a
    <2>6. pre \in Seq(Nat)
      BY <2>1, <2>2, <2>3, <2>4, <2>5, PreambleFacts
    <2>7. Clean(pre, s)
      BY <2>1, <2>2, <2>3, <2>4, <2>5, PreambleFacts
    <2>8. \A i \in 1 .. Len(pre) : pre[i] \in Of(s, Headers)
      BY <2>1, <2>2, <2>3, <2>4, <2>5, PreambleFacts
    <2>9. v # 0 => \E j \in 1 .. Len(pre) : pre[j] = v
      <3>1. v # 0 => v \in Elements(pre)
        BY <2>1, <2>2, <2>3, <2>4, <2>5, PreambleFacts
      <3> QED
        BY <3>1 DEF Elements
    <2> QED
      BY <2>6, <2>7, <2>8, <2>9
  <1>8. f \in Seq(Nat) /\ Clean(f, s) /\ \A i \in 1 .. Len(f) : f[i] \in Of(s, {"eof"})
    <2>1. /\ out[q] \in Seq(Nat) /\ \A i \in 1 .. Len(out[q]) : out[q][i] \in 1 .. Len(sent)
          /\ Clean(out[q], sent) /\ \A i \in 1 .. Len(out[q]) : sent[out[q][i]] = "eof"
      BY DEF PlayerInv, Typed
    <2>2. Clean(f, s)
      BY <1>2, <2>1, CleanKept
    <2>3. ASSUME NEW i \in 1 .. Len(f)
          PROVE  f[i] \in Of(s, {"eof"})
      <3>1. f[i] \in 1 .. Len(sent) /\ sent[f[i]] = "eof"
        BY <2>1
      <3>2. f[i] \in 1 .. Len(s) /\ s[f[i]] = "eof"
        BY <1>2, <3>1
      <3> QED
        BY <3>2 DEF Of
    <2> QED
      BY <2>1, <2>2, <2>3
  <1>9. \A n \in born + 1 .. Len(s) : s[n] = "videoHeader" => n <= v
    BY <1>1, <1>3 DEF HeaderInv, Headers
  <1>10. \A i, j \in 1 .. Len(c) : i < j => c[i] < c[j]
    BY <1>3 DEF CacheInv
  <1>11. {c[i] : i \in 1 .. Len(c)} = {n \in GroupStart' .. Len(s) : s[n] \in Frames}
    BY <1>3 DEF CacheInv, IsFrame
  <1>12. \A i \in 1 .. Len(c) : c[i] \in Of(s, Frames)
    <2> SUFFICES ASSUME NEW i \in 1 .. Len(c)
                 PROVE  c[i] \in Of(s, Frames)
      OBVIOUS
    <2>1. c[i] \in {n \in GroupStart' .. Len(s) : s[n] \in Frames}
      BY <1>11
    <2>2. c[i] \in 1 .. Len(s)
      BY <1>3
    <2> QED
      BY <2>1, <2>2 DEF Of
  <1>13. (\E n \in born + 1 .. Len(s) : s[n] = "key") => 1 \in 1 .. Len(c) /\ s[c[1]] = "key"
    <2> SUFFICES ASSUME \E n \in born + 1 .. Len(s) : s[n] = "key"
                 PROVE  1 \in 1 .. Len(c) /\ s[c[1]] = "key"
      OBVIOUS
    <2>1. GroupStart' <= Len(s) /\ s[GroupStart'] = "key" /\ GroupStart' \in born + 1 .. Len(s) + 1
      BY <1>1, <1>3 DEF CacheInv
    <2>2. GroupStart' \in Nat /\ Len(s) \in Nat /\ c \in Seq(Nat)
      BY <1>2, <1>3, <2>1
    <2> HIDE DEF c, s
    <2> QED
      BY <1>10, <1>11, <2>1, <2>2, FirstIsKey
  <1>14. Len(s) \in Nat /\ born \in Nat /\ v \in Nat /\ (v # 0 => v \in Of(s, {"videoHeader"})) /\ c \in Seq(Nat)
    BY <1>2, <1>3, <1>6 DEF Headers
  <1>15. /\ Clean(f \o (pre \o c), s) /\ Served(f \o (pre \o c), s, born, Len(s))
         /\ \A i \in 1 .. Len(f \o (pre \o c)) : (f \o (pre \o c))[i] \in 1 .. Len(s)
         /\ f \o (pre \o c) \in Seq(Nat)
    <2> HIDE DEF pre, v, s, c, f
    <2>1. f \o (pre \o c) \in Seq(Nat)
      BY <1>7, <1>8, <1>14
    <2> QED
      BY <1>7, <1>8, <1>9, <1>10, <1>12, <1>13, <1>14, <2>1, ServedFirst
  <1>16. out'[q] = f \o (pre \o c)
    BY <1>4, <1>5
  <1>17. Clean(out'[q], sent') /\ Served(out'[q], sent', born, Len(sent')) /\ PlayerTyped(q)'
    BY <1>15, <1>16 DEF PlayerTyped
  <1>18. Len(sent') > born
    BY <1>2
  <1> QED
    BY <1>1, <1>4, <1>17, <1>18 DEF PlayerInv

-----------------------------------------------------------------------------
(* The invariant *)

\* A player that is out, or whose part of the state is what it was.
LEMMA PlayerOut ==
  ASSUME NEW q \in Players, status'[q] = "out"
  PROVE  PlayerInv(q)'
  BY DEF PlayerInv

LEMMA PlayerAsWas ==
  ASSUME NEW q \in Players, PlayerInv(q), sent' = sent, born' = born,
         status'[q] = status[q], out'[q] = out[q], since'[q] = since[q]
  PROVE  PlayerInv(q)'
  BY DEF PlayerInv

LEMMA HeadersForgotten ==
  ASSUME Len(sent') \in Nat, born' = Len(sent'), header' = NoHeader
  PROVE  HeaderInv' /\ header' \in [Headers -> 0 .. Len(sent')]
  BY DEF HeaderInv, NoHeader

\* An event that is no header leaves the headers as they are.
LEMMA HeadersPassed ==
  ASSUME Typed, HeaderInv, Len(sent) < MaxEvents, sent' = Append(sent, "eof"),
         born' = born, header' = header
  PROVE  HeaderInv' /\ header' \in [Headers -> 0 .. Len(sent')]
  <1>1. /\ Len(sent) \in Nat /\ Len(sent') = Len(sent) + 1 /\ sent'[Len(sent')] = "eof"
        /\ \A n \in 1 .. Len(sent) : sent'[n] = sent[n]
        /\ born \in 0 .. Len(sent) /\ header \in [Headers -> 0 .. Len(sent)]
    BY EventFacts DEF Typed
  <1>2. ASSUME NEW h \in Headers
        PROVE  /\ header[h] # 0 => sent'[header[h]] = h
               /\ \A n \in born + 1 .. Len(sent') : sent'[n] = h => n <= header[h]
    <2>1. header[h] \in 0 .. Len(sent) /\ (header[h] # 0 => sent[header[h]] = h) /\ h # "eof"
      BY <1>1 DEF HeaderInv, Headers
    <2>2. ASSUME NEW n \in born + 1 .. Len(sent'), sent'[n] = h
          PROVE  n <= header[h]
      <3>1. n \in born + 1 .. Len(sent) /\ n \in 1 .. Len(sent)
        BY <1>1, <2>1, <2>2
      <3> QED
        BY <1>1, <2>2, <3>1 DEF HeaderInv
    <2>3. header[h] # 0 => header[h] \in 1 .. Len(sent)
      BY <1>1, <2>1
    <2> QED
      BY <1>1, <2>1, <2>2, <2>3
  <1> QED
    BY <1>1, <1>2 DEF HeaderInv

LEMMA InitInvariant == Init => IInv
  <1> SUFFICES ASSUME Init
               PROVE  IInv
    OBVIOUS
  <1>1. /\ sent = <<>> /\ born = 0 /\ header = NoHeader /\ pkts = <<>>
        /\ status = [q \in Players |-> "out"] /\ out = [q \in Players |-> <<>>]
        /\ since = [q \in Players |-> 0]
    BY DEF Init
  <1>2. Len(sent) = 0 /\ Len(pkts) = 0
    BY <1>1
  <1>3. Typed
    BY <1>1, <1>2, MaxEventsAssumption DEF Typed, NoHeader
  <1>4. Keys = {}
    BY <1>1, <1>2 DEF Keys
  <1>5. GroupStart = 1
    BY <1>1, <1>4, GroupIs DEF StartOf
  <1>6. CacheInv
    BY <1>1, <1>2, <1>5 DEF CacheInv
  <1>7. HeaderInv
    BY <1>1, <1>2 DEF HeaderInv, NoHeader
  <1>8. \A q \in Players : PlayerInv(q)
    BY <1>1 DEF PlayerInv
  <1> QED
    BY <1>3, <1>6, <1>7, <1>8 DEF IInv

LEMMA JoinInvariant ==
  ASSUME IInv, NEW q \in Players, Joins(q)
  PROVE  IInv'
  <1>1. /\ sent' = sent /\ born' = born /\ header' = header /\ pkts' = pkts
        /\ out' = out /\ since' = since /\ out[q] = <<>>
        /\ status' = [status EXCEPT ![q] = "waiting"]
        /\ Typed /\ status \in [Players -> {"out", "waiting", "flowing"}]
    BY DEF Joins, cache, IInv, Typed
  <1>2. Typed'
    BY <1>1 DEF Typed
  <1>3. GroupStart' = GroupStart
    BY <1>1 DEF GroupStart
  <1>4. CacheInv' /\ HeaderInv'
    BY <1>1, <1>3 DEF IInv, CacheInv, HeaderInv, IsFrame
  <1>5. ASSUME NEW p \in Players
        PROVE  PlayerInv(p)'
    <2>1. CASE p = q
      <3>1. status'[p] = "waiting" /\ out'[p] = <<>> /\ Len(out'[p]) = 0
        BY <1>1, <2>1
      <3> QED
        BY <3>1 DEF PlayerInv, Clean
    <2>2. CASE p # q
      <3>1. PlayerInv(p) /\ status'[p] = status[p]
        BY <1>1, <2>2 DEF IInv
      <3> QED
        BY <1>1, <3>1, PlayerAsWas
    <2> QED
      BY <2>1, <2>2
  <1> QED
    BY <1>2, <1>4, <1>5 DEF IInv

LEMMA LeaveInvariant ==
  ASSUME IInv, NEW q \in Players, Leaves(q)
  PROVE  IInv'
  <1>1. /\ sent' = sent /\ out' = out /\ since' = since
        /\ status' = [status EXCEPT ![q] = "out"]
        /\ ForgetIf(~publishing /\ \A p \in Players \ {q} : status[p] = "out")
        /\ Typed /\ status \in [Players -> {"out", "waiting", "flowing"}]
        /\ Len(sent) \in Nat
    BY DEF Leaves, IInv, Typed
  <1>2. CASE ~publishing /\ \A p \in Players \ {q} : status[p] = "out"
    <2>1. born' = Len(sent') /\ header' = NoHeader /\ pkts' = <<>>
      BY <1>1, <1>2 DEF ForgetIf
    <2>2. CacheInv' /\ HeaderInv' /\ header' \in [Headers -> 0 .. Len(sent')]
      BY <1>1, <2>1, CacheForgotten, HeadersForgotten
    <2>3. pkts' \in Seq(Nat) /\ Len(pkts') = 0 /\ born' \in 0 .. Len(sent')
      BY <1>1, <2>1
    <2>4. Typed'
      BY <1>1, <2>2, <2>3 DEF Typed
    <2>5. \A p \in Players : status'[p] = "out"
      BY <1>1, <1>2
    <2> QED
      BY <2>2, <2>4, <2>5, PlayerOut DEF IInv
  <1>3. CASE ~(~publishing /\ \A p \in Players \ {q} : status[p] = "out")
    <2>1. born' = born /\ header' = header /\ pkts' = pkts
      BY <1>1, <1>3 DEF ForgetIf, cache
    <2>2. Typed'
      BY <1>1, <2>1 DEF Typed
    <2>3. GroupStart' = GroupStart
      BY <1>1, <2>1 DEF GroupStart
    <2>4. CacheInv' /\ HeaderInv'
      BY <1>1, <2>1, <2>3 DEF IInv, CacheInv, HeaderInv, IsFrame
    <2>5. ASSUME NEW p \in Players
          PROVE  PlayerInv(p)'
      <3>1. CASE p = q
        BY <1>1, <3>1, PlayerOut
      <3>2. CASE p # q
        <4>1. PlayerInv(p) /\ status'[p] = status[p]
          BY <1>1, <3>2 DEF IInv
        <4> QED
          BY <1>1, <2>1, <4>1, PlayerAsWas
      <3> QED
        BY <3>1, <3>2
    <2> QED
      BY <2>2, <2>4, <2>5 DEF IInv
  <1> QED
    BY <1>2, <1>3

LEMMA PublisherLeaveInvariant ==
  ASSUME IInv, PublisherLeaves
  PROVE  IInv'
  <1>1. /\ sent' = Append(sent, "eof") /\ Len(sent) < MaxEvents
        /\ out' = [q \in Players |-> IF status[q] = "out" THEN out[q]
                                     ELSE Append(out[q], Len(sent'))]
        /\ ForgetIf(\A q \in Players : status[q] = "out")
        /\ status' = status /\ since' = since /\ Typed
    BY DEF PublisherLeaves, IInv
  <1>2. /\ sent' \in Seq(Kinds \cup {"eof"}) /\ Len(sent) \in Nat
        /\ Len(sent') = Len(sent) + 1 /\ Len(sent') <= MaxEvents
        /\ born \in 0 .. Len(sent')
    BY <1>1, EventFacts
  <1>3. /\ status \in [Players -> {"out", "waiting", "flowing"}]
        /\ since \in [Players -> 0 .. Len(sent)]
        /\ \A q \in Players : PlayerTyped(q)
        /\ pkts \in Seq(Nat) /\ \A i \in 1 .. Len(pkts) : pkts[i] \in 1 .. Len(sent)
    BY <1>1 DEF Typed, PlayerTyped
  <1>4. /\ since' \in [Players -> 0 .. Len(sent')]
        /\ status' \in [Players -> {"out", "waiting", "flowing"}]
    BY <1>1, <1>2, <1>3
  <1>5. CASE \A q \in Players : status[q] = "out"
    <2>1. born' = Len(sent') /\ header' = NoHeader /\ pkts' = <<>> /\ out' = [q \in Players |-> out[q]]
      BY <1>1, <1>5 DEF ForgetIf
    <2>2. CacheInv' /\ HeaderInv' /\ header' \in [Headers -> 0 .. Len(sent')]
      BY <1>2, <2>1, CacheForgotten, HeadersForgotten
    <2>3. pkts' \in Seq(Nat) /\ Len(pkts') = 0 /\ born' \in 0 .. Len(sent')
      BY <1>2, <2>1
    <2>4. \A q \in Players : out'[q] = out[q]
      BY <2>1
    <2>5. /\ out' \in [Players -> Seq(Nat)]
          /\ \A q \in Players : \A i \in 1 .. Len(out'[q]) : out'[q][i] \in 1 .. Len(sent')
      BY <1>2, <1>3, <2>1, <2>4 DEF PlayerTyped
    <2>6. Typed'
      BY <1>2, <1>4, <2>2, <2>3, <2>5 DEF Typed
    <2>7. \A q \in Players : PlayerInv(q)'
      BY <1>1, <1>5, PlayerOut
    <2> QED
      BY <2>2, <2>6, <2>7 DEF IInv
  <1>6. CASE ~(\A q \in Players : status[q] = "out")
    <2>1. born' = born /\ header' = header /\ pkts' = pkts
      BY <1>1, <1>6 DEF ForgetIf, cache
    <2>2. CacheInv' /\ HeaderInv' /\ header' \in [Headers -> 0 .. Len(sent')]
      BY <1>1, <2>1, CachePassed, HeadersPassed DEF IInv
    <2>3. ASSUME NEW q \in Players
          PROVE  PlayerInv(q)' /\ PlayerTyped(q)'
      <3>1. CASE status[q] = "out"
        <4>1. out'[q] = out[q] /\ status'[q] = "out"
          BY <1>1, <3>1
        <4> QED
          BY <1>2, <1>3, <4>1, PlayerOut DEF PlayerTyped
      <3>2. CASE status[q] # "out"
        <4>1. /\ out'[q] = Append(out[q], Len(sent')) /\ PlayerInv(q)
              /\ status'[q] = status[q] /\ since'[q] = since[q]
          BY <1>1, <3>2 DEF IInv
        <4> QED
          BY <1>1, <2>1, <3>2, <4>1, PlayerWritten
      <3> QED
        BY <3>1, <3>2
    <2>4. /\ out' \in [Players -> Seq(Nat)]
          /\ \A q \in Players : \A i \in 1 .. Len(out'[q]) : out'[q][i] \in 1 .. Len(sent')
      <3>1. \A q \in Players : out'[q] \in Seq(Nat)
        BY <2>3 DEF PlayerTyped
      <3>2. out' = [q \in Players |-> out'[q]]
        BY <1>1
      <3> QED
        BY <2>3, <3>1, <3>2 DEF PlayerTyped
    <2>5. pkts' \in Seq(Nat) /\ (\A i \in 1 .. Len(pkts') : pkts'[i] \in 1 .. Len(sent'))
      BY <1>2, <1>3, <2>1
    <2>6. Typed'
      BY <1>2, <1>4, <2>1, <2>2, <2>4, <2>5 DEF Typed
    <2> QED
      BY <2>2, <2>3, <2>6 DEF IInv
  <1> QED
    BY <1>5, <1>6

LEMMA SendInvariant ==
  ASSUME IInv, NEW k \in Kinds, Send(k)
  PROVE  IInv'
  <1>1. /\ sent' = Append(sent, k) /\ Len(sent) < MaxEvents /\ born' = born
        /\ Relay(Len(sent')) /\ Typed
    BY DEF Send, IInv
  <1>2. /\ sent' \in Seq(Kinds \cup {"eof"}) /\ Len(sent) \in Nat
        /\ Len(sent') = Len(sent) + 1 /\ Len(sent') <= MaxEvents
        /\ born \in 0 .. Len(sent')
    BY <1>1, EventFacts
  <1>3. /\ CacheInv' /\ pkts' \in Seq(Nat)
        /\ \A i \in 1 .. Len(pkts') : pkts'[i] \in 1 .. Len(sent')
        /\ HeaderInv' /\ header' \in [Headers -> 0 .. Len(sent')]
    BY CacheSend, HeadersSend DEF IInv
  <1>4. /\ status \in [Players -> {"out", "waiting", "flowing"}]
        /\ since \in [Players -> 0 .. Len(sent)]
        /\ \A q \in Players : PlayerTyped(q)
    BY <1>1 DEF Typed, PlayerTyped
  <1>5. /\ status' \in [Players -> {"out", "waiting", "flowing"}]
        /\ since' \in [Players -> 0 .. Len(sent')]
    BY <1>1, <1>2, <1>4 DEF Relay
  <1>6. ASSUME NEW q \in Players
        PROVE  PlayerInv(q)' /\ PlayerTyped(q)'
    <2>1. CASE status[q] = "out"
      <3>1. out'[q] = out[q] /\ status'[q] = "out"
        BY <1>1, <2>1 DEF Relay
      <3> QED
        BY <1>2, <1>4, <3>1, PlayerOut DEF PlayerTyped
    <2>2. CASE status[q] = "waiting"
      BY <2>2, PlayerGiven DEF IInv
    <2>3. CASE status[q] = "flowing"
      <3>1. /\ out'[q] = Append(out[q], Len(sent')) /\ PlayerInv(q)
            /\ status'[q] = status[q] /\ since'[q] = since[q]
        BY <1>1, <2>3 DEF IInv, Relay
      <3> QED
        BY <1>1, <2>3, <3>1, PlayerWritten
    <2> QED
      BY <1>4, <2>1, <2>2, <2>3
  <1>7. /\ out' \in [Players -> Seq(Nat)]
        /\ \A q \in Players : \A i \in 1 .. Len(out'[q]) : out'[q][i] \in 1 .. Len(sent')
    <2>1. \A q \in Players : out'[q] \in Seq(Nat)
      BY <1>6 DEF PlayerTyped
    <2>2. out' = [q \in Players |-> out'[q]]
      BY <1>1 DEF Relay
    <2> QED
      BY <1>6, <2>1, <2>2 DEF PlayerTyped
  <1>8. Typed'
    BY <1>1, <1>2, <1>3, <1>5, <1>7 DEF Typed
  <1> QED
    BY <1>3, <1>6, <1>8 DEF IInv

LEMMA SameInvariant ==
  ASSUME IInv, UNCHANGED <<sent, cache, status, out, since>>
  PROVE  IInv'
  <1>1. /\ sent' = sent /\ born' = born /\ header' = header /\ pkts' = pkts
        /\ status' = status /\ out' = out /\ since' = since
    BY DEF cache
  <1>2. GroupStart' = GroupStart
    BY <1>1 DEF GroupStart
  <1>3. Typed' /\ CacheInv' /\ HeaderInv'
    BY <1>1, <1>2 DEF IInv, Typed, CacheInv, HeaderInv, IsFrame
  <1>4. \A q \in Players : PlayerInv(q)'
    BY <1>1, PlayerAsWas DEF IInv
  <1> QED
    BY <1>3, <1>4 DEF IInv

LEMMA StepInvariant == IInv /\ [Next]_vars => IInv'
  <1> SUFFICES ASSUME IInv, [Next]_vars
               PROVE  IInv'
    OBVIOUS
  <1>1. CASE PublisherJoins
    BY <1>1, SameInvariant DEF PublisherJoins
  <1>2. CASE PublisherLeaves
    BY <1>2, PublisherLeaveInvariant
  <1>3. ASSUME NEW q \in Players, Joins(q) \/ Leaves(q)
        PROVE  IInv'
    BY <1>3, JoinInvariant, LeaveInvariant
  <1>4. ASSUME NEW k \in Kinds, Send(k)
        PROVE  IInv'
    BY <1>4, SendInvariant
  <1>5. CASE UNCHANGED vars
    <2>1. UNCHANGED <<sent, cache, status, out, since>>
      BY <1>5 DEF vars, cache
    <2> QED
      BY <2>1, SameInvariant
  <1> QED
    BY <1>1, <1>2, <1>3, <1>4, <1>5 DEF Next

\* In every reachable state the cache is the current group and the newest
\* headers, and every player was written what it should have been.
THEOREM Invariance == Spec => []IInv
  BY InitInvariant, StepInvariant, PTL DEF Spec

-----------------------------------------------------------------------------
(* The properties *)

LEMMA PublishingTyped == Spec => [](publishing \in BOOLEAN)
  <1>1. Init => publishing \in BOOLEAN
    BY DEF Init
  <1>2. publishing \in BOOLEAN /\ [Next]_vars => (publishing \in BOOLEAN)'
    BY DEF Next, vars, PublisherJoins, PublisherLeaves, Joins, Leaves, Send
  <1> QED
    BY <1>1, <1>2, PTL DEF Spec

\* The types hold, and a player flows from a packet of its stream on.
THEOREM TypeCorrect == Spec => []TypeOK
  <1>1. IInv /\ publishing \in BOOLEAN => TypeOK
    <2> SUFFICES ASSUME IInv, publishing \in BOOLEAN
                 PROVE  TypeOK
      OBVIOUS
    <2>1. /\ sent \in Seq(Kinds \cup {"eof"}) /\ Len(sent) <= MaxEvents /\ Len(sent) \in Nat
          /\ born \in 0 .. Len(sent)
          /\ header \in [Headers -> 0 .. Len(sent)]
          /\ status \in [Players -> {"out", "waiting", "flowing"}]
          /\ since \in [Players -> 0 .. Len(sent)]
      BY DEF IInv, Typed
    <2>2. pkts \in Seq(Events)
      <3>1. pkts \in Seq(Nat) /\ \A i \in 1 .. Len(pkts) : pkts[i] \in Events
        BY <2>1, MaxEventsAssumption DEF IInv, Typed, Events
      <3> QED
        BY <3>1, SeqOf
    <2>3. out \in [Players -> Seq(Events)]
      <3>1. ASSUME NEW q \in Players
            PROVE  out[q] \in Seq(Events)
        <4>1. out[q] \in Seq(Nat) /\ \A i \in 1 .. Len(out[q]) : out[q][i] \in Events
          BY <2>1, MaxEventsAssumption DEF IInv, Typed, Events
        <4> QED
          BY <4>1, SeqOf
      <3> QED
        BY <3>1 DEF IInv, Typed
    <2>4. \A q \in Players : status[q] = "flowing" => since[q] > born
      BY DEF IInv, PlayerInv
    <2> QED
      BY <2>1, <2>2, <2>3, <2>4 DEF TypeOK
  <1> QED
    BY <1>1, Invariance, PublishingTyped, PTL

\* The cache is exactly the frames since the last key frame, in order.
THEOREM CacheIsTheGroup == Spec => []CacheIsGroup
  <1>1. IInv => CacheIsGroup
    <2> SUFFICES ASSUME IInv
                 PROVE  CacheIsGroup
      OBVIOUS
    <2>1. Len(pkts) \in Nat
      BY DEF IInv, Typed
    <2>2. \A i \in 1 .. Len(pkts) - 1 : pkts[i] < pkts[i + 1]
      BY <2>1 DEF IInv, CacheInv
    <2> QED
      BY <2>2 DEF IInv, CacheInv, CacheIsGroup
  <1> QED
    BY <1>1, Invariance, PTL

\* A player that has the cache misses no event, gets none twice, and gets the
\* frames in order.
THEOREM NothingIsMissed == Spec => []NothingMissed
  <1>1. IInv => NothingMissed
    BY DEF IInv, PlayerInv, Served, TailThere, Clean, IsFrame, NothingMissed
  <1> QED
    BY <1>1, Invariance, PTL

\* The first video frame of a player is a key frame, if its stream had one.
THEOREM PlayersStartAtAKeyFrame == Spec => []StartsAtKeyFrame
  <1>1. IInv => StartsAtKeyFrame
    <2> SUFFICES ASSUME IInv, NEW q \in Players, status[q] = "flowing",
                        \E n \in born + 1 .. since[q] : sent[n] = "key"
                 PROVE  LET video == {i \in 1 .. Len(out[q]) : IsVideo(out[q][i])}
                        IN  sent[out[q][CHOOSE i \in video : \A j \in video : i <= j]] = "key"
      BY DEF StartsAtKeyFrame
    <2> DEFINE video == {i \in 1 .. Len(out[q]) : IsVideo(out[q][i])}
    <2>1. PICK j \in 1 .. Len(out[q]) :
            sent[out[q][j]] = "key" /\ \A i \in 1 .. j - 1 : ~Video(sent, out[q][i])
      BY DEF IInv, PlayerInv, Served, KeyFirst
    <2>2. j \in video
      BY <2>1 DEF IsVideo
    <2>3. ASSUME NEW i \in video
          PROVE  j <= i
      <3>1. i \notin 1 .. j - 1
        BY <2>1 DEF IsVideo, Video
      <3> QED
        BY <2>1, <3>1
    <2>4. video \subseteq Nat
      OBVIOUS
    <2> HIDE DEF video
    <2>5. \A x \in video : (\A i \in video : x <= i) => x = j
      BY <2>2, <2>3, <2>4
    <2>6. (CHOOSE i \in video : \A x \in video : i <= x) = j
      BY <2>2, <2>3, <2>5
    <2> QED
      BY <2>1, <2>6 DEF video
  <1> QED
    BY <1>1, Invariance, PTL

\* A player gets the video header in force before a video frame.
THEOREM HeadersComeFirst == Spec => []HeaderBeforeFrame
  <1>1. IInv => HeaderBeforeFrame
    BY DEF IInv, PlayerInv, Served, HeadersFirst, Video, IsVideo, HeaderBeforeFrame
  <1> QED
    BY <1>1, Invariance, PTL

-----------------------------------------------------------------------------
(* Each action is a step of LiveStreams, or changes nothing of it. *)

StreamStep == [Stream!Next]_(Stream!vars)

\* What is last in a sequence that something was appended to.
LEMMA LastFacts ==
  ASSUME NEW f \in Seq(Nat), NEW g \in Seq(Nat), Len(g) > 0, NEW h, h = f \o g
  PROVE  h # <<>> /\ h[Len(h)] = g[Len(g)]
  <1>1. /\ Len(h) = Len(f) + Len(g) /\ Len(f) \in Nat /\ Len(g) \in Nat
        /\ \A i \in 1 .. Len(g) : h[Len(f) + i] = g[i]
    BY ConcatNat
  <1>2. Len(g) \in 1 .. Len(g) /\ Len(h) # 0
    BY <1>1
  <1> QED
    BY <1>1, <1>2

\* A sequence of events of T, and one that has some.
Within(f, T) == f \in Seq(Nat) /\ \A i \in 1 .. Len(f) : f[i] \in T
Filled(f) == Len(f) > 0

LEMMA ConcatOf ==
  ASSUME NEW T, NEW f, NEW g, Within(f, T), Within(g, T)
  PROVE  Within(f \o g, T) /\ (Filled(f) \/ Filled(g) => Filled(f \o g))
  <1>1. f \in Seq(Nat) /\ g \in Seq(Nat)
    BY DEF Within
  <1>2. /\ f \o g \in Seq(Nat) /\ Len(f \o g) = Len(f) + Len(g)
        /\ Len(f) \in Nat /\ Len(g) \in Nat
    BY <1>1, ConcatFacts
  <1>3. \A i \in 1 .. Len(f \o g) : (f \o g)[i] \in T
    BY <1>1, ConcatWithin DEF Within
  <1> QED
    BY <1>2, <1>3 DEF Within, Filled

LEMMA FourWithin ==
  ASSUME NEW T, NEW m, NEW v, NEW a, NEW c,
         Within(m, T), Within(v, T), Within(a, T), Within(c, T),
         Filled(m) \/ Filled(v) \/ Filled(a) \/ Filled(c)
  PROVE  Within(((m \o v) \o a) \o c, T) /\ Filled(((m \o v) \o a) \o c)
  <1>1. Within(m \o v, T) /\ (Filled(m) \/ Filled(v) => Filled(m \o v))
    BY ConcatOf, Zenon
  <1>2. /\ Within((m \o v) \o a, T)
        /\ Filled(m \o v) \/ Filled(a) => Filled((m \o v) \o a)
    BY <1>1, ConcatOf, Zenon
  <1>3. /\ Within(((m \o v) \o a) \o c, T)
        /\ Filled((m \o v) \o a) \/ Filled(c) => Filled(((m \o v) \o a) \o c)
    BY <1>2, ConcatOf, Zenon
  <1> QED
    BY <1>1, <1>2, <1>3, Zenon

\* The cache a player is given is never empty and holds packets only.
LEMMA BurstFacts ==
  ASSUME Typed, CacheInv, HeaderInv, NEW k \in Kinds, Send(k)
  PROVE  /\ Burst \in Seq(Nat) /\ Len(Burst) > 0
         /\ \A i \in 1 .. Len(Burst) : Burst[i] \in Of(sent', Kinds)
  <1>1. /\ CacheInv' /\ pkts' \in Seq(Nat) /\ Len(sent') \in Nat /\ Len(sent') # 0
        /\ \A i \in 1 .. Len(pkts') : pkts'[i] \in 1 .. Len(sent')
        /\ HeaderInv' /\ header' \in [Headers -> 0 .. Len(sent')]
    BY CacheSend, HeadersSend, EventFacts DEF Send
  <1>2. \A h \in Headers :
          header'[h] \in Nat /\ (header'[h] # 0 => header'[h] \in Of(sent', Kinds))
    BY <1>1 DEF HeaderInv, Of, Kinds
  <1>3. \A i \in 1 .. Len(pkts') : pkts'[i] \in Of(sent', Kinds)
    <2> SUFFICES ASSUME NEW i \in 1 .. Len(pkts')
                 PROVE  pkts'[i] \in Of(sent', Kinds)
      OBVIOUS
    <2>1. pkts'[i] \in {n \in GroupStart' .. Len(sent') : sent'[n] \in Frames}
      BY <1>1 DEF CacheInv, IsFrame
    <2> QED
      BY <1>1, <2>1 DEF Of, Kinds
  <1>4. \A h \in Headers :
          /\ Present(h) \in Seq(Nat)
          /\ \A i \in 1 .. Len(Present(h)) : Present(h)[i] \in Of(sent', Kinds)
          /\ header'[h] # 0 => Len(Present(h)) > 0
    <2> SUFFICES ASSUME NEW h \in Headers
                 PROVE  /\ Present(h) \in Seq(Nat)
                        /\ \A i \in 1 .. Len(Present(h)) : Present(h)[i] \in Of(sent', Kinds)
                        /\ header'[h] # 0 => Len(Present(h)) > 0
      OBVIOUS
    <2> DEFINE x == header'[h]
               p == Present(h)
    <2>1. p = IF x = 0 THEN <<>> ELSE <<x>>
      BY DEF Present
    <2>2. x \in Nat /\ (x # 0 => x \in Of(sent', Kinds))
      BY <1>2
    <2> HIDE DEF x, p
    <2>3. /\ p \in Seq(Nat)
          /\ \A i \in 1 .. Len(p) : p[i] = x /\ x # 0
          /\ x # 0 => 1 \in 1 .. Len(p)
      BY <2>1, <2>2, PresentFacts
    <2>4. p \in Seq(Nat) /\ (\A i \in 1 .. Len(p) : p[i] \in Of(sent', Kinds))
                         /\ (x # 0 => Len(p) > 0)
      BY <2>2, <2>3
    <2> QED
      BY <2>4 DEF x, p
  <1> DEFINE m == Present("metadata")
             v == Present("videoHeader")
             a == Present("audioHeader")
  <1>5. /\ m \in Seq(Nat) /\ v \in Seq(Nat) /\ a \in Seq(Nat)
        /\ \A i \in 1 .. Len(m) : m[i] \in Of(sent', Kinds)
        /\ \A i \in 1 .. Len(v) : v[i] \in Of(sent', Kinds)
        /\ \A i \in 1 .. Len(a) : a[i] \in Of(sent', Kinds)
    BY <1>4 DEF Headers
  <1>6. Len(m) > 0 \/ Len(v) > 0 \/ Len(a) > 0 \/ Len(pkts') > 0
    <2>1. Insert(k, Len(sent')) /\ header \in [Headers -> 0 .. Len(sent)]
      BY DEF Send, Typed
    <2>2. CASE k \in Headers
      <3>1. header'[k] # 0
        BY <1>1, <2>1, <2>2 DEF Insert
      <3> QED
        BY <1>4, <2>2, <3>1 DEF Headers
    <2>3. CASE k \notin Headers
      <3>1. pkts' = <<Len(sent')>> \/ pkts' = Append(pkts, Len(sent'))
        BY <2>1, <2>3 DEF Insert
      <3>2. pkts \in Seq(Nat)
        BY DEF Typed
      <3>3. Len(pkts') > 0
        <4> DEFINE n == Len(sent')
        <4>1. n \in Nat
          BY <1>1
        <4>2. CASE pkts' = <<n>>
          BY <4>2
        <4>3. CASE pkts' = Append(pkts, n)
          <5> HIDE DEF n
          <5>1. Len(Append(pkts, n)) = Len(pkts) + 1 /\ Len(pkts) \in Nat
            BY <3>2, <4>1, AppendFacts
          <5> QED
            BY <4>3, <5>1
        <4> QED
          BY <3>1, <4>2, <4>3
      <3> QED
        BY <3>3
    <2> QED
      BY <2>2, <2>3
  <1>7. Burst = ((m \o v) \o a) \o pkts'
    BY DEF Burst
  <1>8. /\ Within(m, Of(sent', Kinds)) /\ Within(v, Of(sent', Kinds))
        /\ Within(a, Of(sent', Kinds)) /\ Within(pkts', Of(sent', Kinds))
    BY <1>1, <1>3, <1>5 DEF Within
  <1>9. Filled(m) \/ Filled(v) \/ Filled(a) \/ Filled(pkts')
    BY <1>6 DEF Filled
  <1> HIDE DEF m, v, a
  <1>10. Within(Burst, Of(sent', Kinds)) /\ Filled(Burst)
    BY <1>7, <1>8, <1>9, FourWithin, Zenon
  <1> QED
    BY <1>10 DEF Within, Filled

LEMMA PublishImplements ==
  ASSUME PublisherJoins
  PROVE  StreamStep
  <1>1. /\ ~publishing /\ publishing' = TRUE
        /\ UNCHANGED <<sent, status, out>>
    BY DEF PublisherJoins
  <1>2. Inside' = Inside /\ Told' = Told
    BY <1>1 DEF Inside, Told, Ended
  <1>3. Source["it"] = "nobody" /\ Source' = [Source EXCEPT !["it"] = "publisher"]
    BY <1>1 DEF Source, Name
  <1>4. Stream!Publish("it", "publisher")
    BY <1>2, <1>3 DEF Stream!Publish
  <1> QED
    BY <1>4 DEF StreamStep, Stream!Next, Name

LEMMA EndImplements ==
  ASSUME IInv, PublisherLeaves
  PROVE  StreamStep
  <1>1. /\ publishing /\ publishing' = FALSE /\ status' = status
        /\ sent' = Append(sent, "eof") /\ Len(sent) < MaxEvents
        /\ out' = [q \in Players |-> IF status[q] = "out" THEN out[q]
                                     ELSE Append(out[q], Len(sent'))]
    BY DEF PublisherLeaves
  <1>2. Len(sent') \in Nat /\ sent'[Len(sent')] = "eof" /\ out \in [Players -> Seq(Nat)]
    BY <1>1, EventFacts DEF IInv, Typed
  <1>3. ASSUME NEW q \in Players, status[q] # "out"
        PROVE  Ended(q)'
    <2>1. out'[q] = Append(out[q], Len(sent')) /\ out[q] \in Seq(Nat)
      BY <1>1, <1>2, <1>3
    <2>2. /\ Len(out'[q]) = Len(out[q]) + 1 /\ Len(out[q]) \in Nat
          /\ out'[q][Len(out[q]) + 1] = Len(sent')
      BY <1>2, <2>1, AppendFacts
    <2>3. out'[q] # <<>> /\ out'[q][Len(out'[q])] = Len(sent')
      BY <2>2
    <2> QED
      BY <1>2, <2>3 DEF Ended
  <1>4. Inside' = Inside /\ Told' = [Told EXCEPT !["it"] = Inside["it"]]
    <2>1. {q \in Players : status'[q] # "out" /\ Ended(q)'} = {q \in Players : status[q] # "out"}
      BY <1>1, <1>3
    <2> QED
      BY <1>1, <2>1 DEF Inside, Told, Name
  <1>5. Source["it"] # "nobody" /\ Source' = [Source EXCEPT !["it"] = "nobody"]
    BY <1>1 DEF Source, Name
  <1>6. Stream!End("it")
    BY <1>4, <1>5 DEF Stream!End
  <1> QED
    BY <1>6 DEF StreamStep, Stream!Next, Name

LEMMA JoinsImplements ==
  ASSUME IInv, NEW q \in Players, Joins(q)
  PROVE  StreamStep
  <1>1. /\ status[q] = "out" /\ out[q] = <<>> /\ status' = [status EXCEPT ![q] = "waiting"]
        /\ UNCHANGED <<sent, publishing, out>>
        /\ status \in [Players -> {"out", "waiting", "flowing"}]
    BY DEF Joins, IInv, Typed
  <1>2. \A p \in Players : Ended(p)' <=> Ended(p)
    BY <1>1 DEF Ended
  <1>3. ~Ended(q)
    BY <1>1 DEF Ended
  <1>4. /\ Inside' = [Inside EXCEPT !["it"] = Inside["it"] \cup {q}]
        /\ q \notin Inside["it"]
    BY <1>1 DEF Inside, Name
  <1>5. Told' = Told
    <2>1. \A p \in Players : status'[p] # "out" /\ Ended(p)' <=> status[p] # "out" /\ Ended(p)
      BY <1>1, <1>2, <1>3
    <2> QED
      BY <2>1 DEF Told
  <1>6. Source' = Source
    BY <1>1 DEF Source
  <1>7. Stream!Play("it", q)
    BY <1>4, <1>5, <1>6 DEF Stream!Play
  <1> QED
    BY <1>7 DEF StreamStep, Stream!Next, Name

LEMMA LeavesImplements ==
  ASSUME IInv, NEW q \in Players, Leaves(q)
  PROVE  StreamStep
  <1>1. /\ status[q] # "out" /\ status' = [status EXCEPT ![q] = "out"]
        /\ UNCHANGED <<sent, publishing, out>>
        /\ status \in [Players -> {"out", "waiting", "flowing"}]
    BY DEF Leaves, IInv, Typed
  <1>2. \A p \in Players : Ended(p)' <=> Ended(p)
    BY <1>1 DEF Ended
  <1>3. /\ Inside' = [Inside EXCEPT !["it"] = Inside["it"] \ {q}]
        /\ q \in Inside["it"]
    BY <1>1 DEF Inside, Name
  <1>4. Told' = [Told EXCEPT !["it"] = Told["it"] \ {q}]
    <2>1. {p \in Players : status'[p] # "out" /\ Ended(p)'}
            = {p \in Players : status[p] # "out" /\ Ended(p)} \ {q}
      BY <1>1, <1>2
    <2> QED
      BY <2>1 DEF Told, Name
  <1>5. Source' = Source
    BY <1>1 DEF Source
  <1>6. Stream!Leave("it", q)
    BY <1>3, <1>4, <1>5 DEF Stream!Leave
  <1> QED
    BY <1>6 DEF StreamStep, Stream!Next, Name

\* After a packet every player has it, or the cache with it, last.
LEMMA ResumeImplements ==
  ASSUME IInv, NEW k \in Kinds, Send(k)
  PROVE  StreamStep
  <1>1. /\ publishing /\ publishing' = publishing /\ sent' = Append(sent, k)
        /\ Len(sent) < MaxEvents /\ Relay(Len(sent'))
        /\ status \in [Players -> {"out", "waiting", "flowing"}]
        /\ out \in [Players -> Seq(Nat)]
    BY DEF Send, IInv, Typed
  <1>2. Len(sent') \in Nat /\ sent'[Len(sent')] = k /\ k # "eof"
    BY <1>1, EventFacts DEF IInv, Kinds, Headers, Frames
  <1>3. ASSUME NEW q \in Players, status[q] # "out"
        PROVE  ~Ended(q)'
    <2>1. CASE status[q] = "waiting"
      <3>1. out'[q] = out[q] \o Burst
        BY <1>1, <2>1 DEF Relay
      <3>2. /\ Burst \in Seq(Nat) /\ Len(Burst) > 0
            /\ \A i \in 1 .. Len(Burst) : Burst[i] \in Of(sent', Kinds)
        BY BurstFacts DEF IInv
      <3>3. out'[q][Len(out'[q])] = Burst[Len(Burst)]
        BY <1>1, <3>1, <3>2, LastFacts
      <3>4. Len(Burst) \in 1 .. Len(Burst)
        BY <3>2
      <3>5. sent'[out'[q][Len(out'[q])]] \in Kinds
        BY <3>2, <3>3, <3>4 DEF Of
      <3> QED
        BY <3>5 DEF Ended, Kinds, Headers, Frames
    <2>2. CASE status[q] = "flowing"
      <3>1. out'[q] = Append(out[q], Len(sent')) /\ out[q] \in Seq(Nat)
        BY <1>1, <2>2 DEF Relay
      <3>2. /\ Len(out'[q]) = Len(out[q]) + 1
            /\ out'[q][Len(out[q]) + 1] = Len(sent')
        BY <1>2, <3>1, AppendFacts
      <3> QED
        BY <1>2, <3>2 DEF Ended
    <2> QED
      BY <1>1, <1>3, <2>1, <2>2
  <1>4. \A q \in Players : status'[q] # "out" <=> status[q] # "out"
    BY <1>1 DEF Relay
  <1>5. Inside' = Inside
    BY <1>4 DEF Inside
  <1>6. Told' = [Told EXCEPT !["it"] = {}]
    <2>1. {q \in Players : status'[q] # "out" /\ Ended(q)'} = {}
      BY <1>3, <1>4
    <2> QED
      BY <2>1 DEF Told, Name
  <1>7. Source' = Source /\ Source["it"] # "nobody"
    BY <1>1 DEF Source, Name
  <1>8. Stream!Resume("it")
    BY <1>5, <1>6, <1>7 DEF Stream!Resume
  <1> QED
    BY <1>8 DEF StreamStep, Stream!Next, Name

\* The relay implements LiveStreams: the end of the stream reaches all its players
\* at once, and only packets of a next publisher follow it.
THEOREM Implementation == Spec => ImplementsLiveStreams
  <1>1. Init => Stream!Init
    <2> SUFFICES ASSUME Init PROVE Stream!Init
      OBVIOUS
    <2>1. Source = [n \in Name |-> "nobody"]
      BY DEF Init, Source
    <2>2. Inside = [n \in Name |-> {}] /\ Told = [n \in Name |-> {}]
      BY DEF Init, Inside, Told
    <2> QED
      BY <2>1, <2>2 DEF Stream!Init
  <1>2. IInv /\ [Next]_vars => StreamStep
    <2>1. ASSUME UNCHANGED vars PROVE StreamStep
      <3>1. Source' = Source /\ Inside' = Inside /\ Told' = Told
        BY <2>1 DEF vars, Source, Inside, Told, Ended
      <3> QED
        BY <3>1 DEF StreamStep, Stream!vars
    <2> QED
      BY <2>1, PublishImplements, EndImplements, JoinsImplements,
         LeavesImplements, ResumeImplements
         DEF Next
  <1> QED
    BY <1>1, <1>2, Invariance, PTL
       DEF Spec, ImplementsLiveStreams, Stream!Spec, StreamStep

=============================================================================
