------------------------ MODULE RtmpHandshakeProofs ------------------------
(***************************************************************************)
(* Proofs about RtmpHandshake for any bytes.  SignedInv says what          *)
(* a client with a digest was answered and what the server keeps of it,    *)
(* EchoedInv what any other was; ReplyInv says what c2 can be.             *)
(***************************************************************************)
EXTENDS RtmpHandshake, TLAPS

Summed(m) == m.sum \in [Bases -> Nat]

IsMessage(m) ==
  m = [by |-> m.by, time |-> m.time, zero |-> m.zero, sum |-> m.sum, digests |-> m.digests]

\* A client with a digest has it where one of the schemas says.
HelloInv ==
  /\ Summed(c1) /\ IsMessage(c1)
  /\ c1.digests # {} => c1.zero # 0 /\ \E b \in Bases : FoundAt(c1, RTMP_PARTIAL_CLIENT_KEY, b)

EarlyInv ==
  /\ phase \in {"idle", "sent", "c2", "done", "closed"}
  /\ phase \in {"idle", "sent"} =>
       s1 = NoMessage /\ c2 = NoMessage /\ sdigest = Unset /\ cdigest = Unset /\ failed = "none"
  /\ phase \in {"idle", "sent", "c2"} => verdict = "none"
  /\ phase \in {"c2", "done"} /\ failed = "send" => s1 = NoMessage

SignedInv ==
  Answered /\ ~old =>
    /\ \E d \in c1.digests : cdigest = Rekey(RTMP_SERVER_KEY, d.digest)
    /\ s1.digests = {[at |-> WriteOffs(s1),
                      digest |-> Hmac(RTMP_PARTIAL_SERVER_KEY, s1, c1_size, WriteOffs(s1))]}
    /\ sdigest = Rekey(RTMP_CLIENT_KEY, DigestAt(s1, WriteOffs(s1)))
    /\ [at |-> Last, digest |-> Hmac(cdigest, s2, Last, -1)] \in s2.digests

EchoedInv ==
  Answered /\ old => Echoed /\ (c1.digests # {} => failed # "none") /\ s1.digests = {}

ReplyInv ==
  /\ Summed(s1) /\ IsMessage(s1) /\ Summed(c2)
  /\ phase = "c2" /\ c2.by = "client" =>
       /\ Answered /\ ~old
       /\ c2.digests = {[at |-> Last, digest |-> Hmac(sdigest, c2, Last, -1)]}
  /\ phase = "c2" /\ c2.by # "client" => c2 = NoMessage \/ c2.digests = s1.digests

IInv == HelloInv /\ EarlyInv /\ SignedInv /\ EchoedInv /\ ReplyInv /\ SignedIsValid

-----------------------------------------------------------------------------
(* Digests *)

LEMMA ModRange == \A n \in Nat : n % 728 \in 0 .. 727
  OBVIOUS

LEMMA PlacedWithin ==
  ASSUME NEW m, Summed(m), NEW b \in Bases
  PROVE  Offs(m, b) \in b + 4 .. b + 731
  <1>1. m.sum[b] \in Nat
    BY DEF Summed
  <1>2. PICK k \in 0 .. 727 : k = m.sum[b] % 728
    BY <1>1, ModRange
  <1>3. Offs(m, b) = k + b + 4
    BY <1>2 DEF Offs
  <1>4. b \in Nat
    BY DEF Bases
  <1> QED
    BY <1>3, <1>4

\* Digests are read and written at the same place, though said in two ways.
LEMMA WrittenWhereRead ==
  ASSUME NEW m, Summed(m)
  PROVE  WriteOffs(m) = Offs(m, 8)
  <1>1. m.sum[8] \in Nat
    BY DEF Summed, Bases
  <1>2. PICK k \in 0 .. 727 : k = m.sum[8] % 728
    BY <1>1, ModRange
  <1>3. Offs(m, 8) = k + 8 + 4 /\ WriteOffs(m) = k + 0 + 12
    BY <1>2 DEF Offs, WriteOffs
  <1> QED
    BY <1>3

\* The two places a message has for a digest do not meet, and lie within it.
LEMMA Places ==
  ASSUME NEW m, Summed(m)
  PROVE  /\ \A b \in Bases : Offs(m, b) \in b + 4 .. Last
         /\ Offs(m, 8) + KEYLEN <= 772
         /\ WriteOffs(m) = Offs(m, 8)
         /\ WriteOffs(m) \in 12 .. 772 - KEYLEN
         /\ Offs(m, 8) # Offs(m, 772)
         /\ Offs(m, 8) # Last /\ Offs(m, 772) # Last
  <1>1. 8 \in Bases /\ 772 \in Bases
    BY DEF Bases
  <1>2. Offs(m, 8) \in 12 .. 739 /\ Offs(m, 772) \in 776 .. 1503
    BY <1>1, PlacedWithin
  <1>3. WriteOffs(m) = Offs(m, 8)
    BY WrittenWhereRead
  <1>4. Last = 1504 /\ KEYLEN = 32
    BY DEF Last, c1_size, KEYLEN
  <1> DEFINE x == Offs(m, 8)
             y == Offs(m, 772)
  <1>5. x \in 12 .. 739 /\ y \in 776 .. 1503
    BY <1>2
  <1> HIDE DEF x, y
  <1>6. x \in 8 + 4 .. Last /\ x + KEYLEN <= 772 /\ x \in 12 .. 772 - KEYLEN
    BY <1>4, <1>5
  <1>7. y \in 772 + 4 .. Last
    BY <1>4, <1>5
  <1>8. x # y /\ x # Last /\ y # Last
    <2>1. x \in Int /\ y \in Int /\ Last \in Int /\ x < y /\ y < Last
      BY <1>4, <1>5
    <2> QED
      BY <2>1
  <1>9. \A b \in Bases : Offs(m, b) \in b + 4 .. Last
    <2>1. Offs(m, 8) \in 8 + 4 .. Last
      BY <1>6 DEF x
    <2>2. Offs(m, 772) \in 772 + 4 .. Last
      BY <1>7 DEF y
    <2>3. \A b \in Bases : b = 8 \/ b = 772
      BY DEF Bases
    <2> TAKE b \in Bases
    <2>4. CASE b = 8
      BY <2>1, <2>4
    <2>5. CASE b = 772
      BY <2>2, <2>5
    <2> QED
      BY <2>3, <2>4, <2>5
  <1> QED
    BY <1>3, <1>6, <1>8, <1>9 DEF x, y

LEMMA FindFacts ==
  ASSUME NEW m, Summed(m), NEW key, NEW bases
  PROVE  /\ FindDigest(m, key, bases) # -1 =>
              \E b \in Bases : FindDigest(m, key, bases) = Offs(m, b) /\ FoundAt(m, key, b)
         /\ (\E b \in bases \cap Bases : FoundAt(m, key, b)) => FindDigest(m, key, bases) # -1
  <1>1. Offs(m, 8) # -1 /\ Offs(m, 772) # -1
    BY Places DEF Bases
  <1> QED
    BY <1>1 DEF FindDigest, Bases

LEMMA Kept ==
  ASSUME NEW m, NEW n, NEW key, NEW size, NEW skip,
         n.by = m.by, n.time = m.time, n.zero = m.zero, n.sum = m.sum,
         {d \in n.digests : d.at < size /\ d.at # skip} = {d \in m.digests : d.at < size /\ d.at # skip}
  PROVE  Hmac(key, n, size, skip) = Hmac(key, m, size, skip)
  BY DEF Hmac

\* A digest is put into a message that has none.
LEMMA PutFacts ==
  ASSUME NEW by, NEW time, NEW zero, NEW sum, NEW at \in Nat, NEW digest, NEW m, NEW n,
         m = Random(by, time, zero, sum), n = Put(m, at, digest)
  PROVE  /\ n.by = by /\ n.time = time /\ n.zero = zero /\ n.sum = sum
         /\ n.digests = {[at |-> at, digest |-> digest]}
         /\ m.by = by /\ m.time = time /\ m.zero = zero /\ m.sum = sum /\ m.digests = {}
         /\ \A b : Offs(n, b) = Offs(m, b)
         /\ WriteOffs(n) = WriteOffs(m)
         /\ \A key, size : Hmac(key, n, size, at) = Hmac(key, m, size, at)
         /\ \A key, skip : Hmac(key, n, at, skip) = Hmac(key, m, at, skip)
  <1>1. /\ n.by = by /\ n.time = time /\ n.zero = zero /\ n.sum = sum
        /\ n.digests = {[at |-> at, digest |-> digest]}
        /\ m.by = by /\ m.time = time /\ m.zero = zero /\ m.sum = sum /\ m.digests = {}
    BY DEF Random, Put
  <1>2. \A b : Offs(n, b) = Offs(m, b) /\ WriteOffs(n) = WriteOffs(m)
    BY <1>1 DEF Offs, WriteOffs
  <1>3. \A size : {d \in n.digests : d.at < size /\ d.at # at} = {d \in m.digests : d.at < size /\ d.at # at}
    BY <1>1
  <1>4. \A skip : {d \in n.digests : d.at < at /\ d.at # skip} = {d \in m.digests : d.at < at /\ d.at # skip}
    BY <1>1
  <1>5. \A key, size : Hmac(key, n, size, at) = Hmac(key, m, size, at)
    BY <1>1, <1>3, Kept
  <1>6. \A key, skip : Hmac(key, n, at, skip) = Hmac(key, m, at, skip)
    BY <1>1, <1>4, Kept
  <1> QED
    BY <1>1, <1>2, <1>5, <1>6

-----------------------------------------------------------------------------
(* The steps *)

LEMMA InitInvariant == Init => IInv
  <1> SUFFICES ASSUME Init
               PROVE  IInv
    OBVIOUS
  <1>1. /\ c1 = NoMessage /\ s1 = NoMessage /\ c2 = NoMessage /\ phase = "idle"
        /\ sdigest = Unset /\ cdigest = Unset /\ failed = "none" /\ verdict = "none"
    BY DEF Init
  <1>2. Summed(NoMessage) /\ IsMessage(NoMessage) /\ NoMessage.digests = {}
    BY DEF Summed, IsMessage, NoMessage
  <1> QED
    BY <1>1, <1>2 DEF IInv, HelloInv, EarlyInv, SignedInv, EchoedInv, ReplyInv, SignedIsValid,
                      Answered

LEMMA SumsAreNat == \A sum \in [Bases -> Sums] : sum \in [Bases -> Nat]
  <1>1. Sums \subseteq Nat
    BY DEF Sums
  <1> QED
    BY <1>1

LEMMA RandomFacts ==
  ASSUME NEW by, NEW time, NEW zero, NEW sum \in [Bases -> Sums], NEW m,
         m = Random(by, time, zero, sum)
  PROVE  Summed(m) /\ IsMessage(m) /\ m.digests = {} /\ m.by = by /\ m.zero = zero
  <1>1. sum \in [Bases -> Nat]
    BY SumsAreNat
  <1> QED
    BY <1>1 DEF Random, Summed, IsMessage

LEMMA PutMessage ==
  ASSUME NEW by, NEW time, NEW zero, NEW sum \in [Bases -> Sums], NEW m, NEW n, NEW at, NEW digest,
         m = Random(by, time, zero, sum), n = Put(m, at, digest)
  PROVE  Summed(n) /\ IsMessage(n)
  <1>1. sum \in [Bases -> Nat]
    BY SumsAreNat
  <1> QED
    BY <1>1 DEF Random, Put, Summed, IsMessage

\* A message that is signed where its schema says is found to be.
LEMMA SignedIsFound ==
  ASSUME NEW by, NEW time, NEW zero, NEW sum \in [Bases -> Sums], NEW m, NEW n, NEW key,
         NEW b \in Bases, m = Random(by, time, zero, sum),
         n = Put(m, Offs(m, b), Hmac(key, m, c1_size, Offs(m, b)))
  PROVE  FoundAt(n, key, b)
  <1>1. Summed(m)
    BY RandomFacts
  <1>2. Offs(m, b) \in Nat
    BY <1>1, Places DEF Bases, Last, c1_size, KEYLEN
  <1>3. /\ n.digests = {[at |-> Offs(m, b), digest |-> Hmac(key, m, c1_size, Offs(m, b))]}
        /\ Offs(n, b) = Offs(m, b)
        /\ Hmac(key, n, c1_size, Offs(m, b)) = Hmac(key, m, c1_size, Offs(m, b))
    BY <1>2, PutFacts
  <1> QED
    BY <1>3 DEF FoundAt

LEMMA HelloInvariant == IInv /\ ClientHello => IInv'
  <1> SUFFICES ASSUME IInv, ClientHello
               PROVE  IInv'
    OBVIOUS
  <1>1. /\ phase = "idle" /\ phase' = "sent" /\ c2' = c2 /\ verdict' = verdict /\ failed' = failed
        /\ s1' = s1 /\ s2' = s2 /\ old' = old /\ cdigest' = cdigest /\ sdigest' = sdigest
    BY DEF ClientHello, server
  <1>2. PICK zero \in {0, 1}, sum \in [Bases -> Sums], base \in Bases :
          LET m == Random("client", 1, zero, sum)
              digest == Hmac(RTMP_PARTIAL_CLIENT_KEY, m, c1_size, Offs(m, base))
          IN  \/ c1' = m
              \/ zero # 0 /\ c1' = Put(m, Offs(m, base), digest)
    BY DEF ClientHello
  <1>3. HelloInv'
    <2>1. CASE c1' = Random("client", 1, zero, sum)
      BY <2>1, RandomFacts DEF HelloInv
    <2>2. ASSUME NEW m, m = Random("client", 1, zero, sum), zero # 0,
                 c1' = Put(m, Offs(m, base), Hmac(RTMP_PARTIAL_CLIENT_KEY, m, c1_size, Offs(m, base)))
          PROVE  HelloInv'
      <3>1. Summed(c1') /\ IsMessage(c1')
        BY <2>2, PutMessage
      <3>2. FoundAt(c1', RTMP_PARTIAL_CLIENT_KEY, base)
        BY <2>2, SignedIsFound
      <3>3. c1'.zero = zero
        BY <2>2 DEF Put, Random
      <3> QED
        BY <2>2, <3>1, <3>2, <3>3 DEF HelloInv
    <2> QED
      BY <1>2, <2>1, <2>2
  <1> QED
    BY <1>1, <1>3 DEF IInv, EarlyInv, SignedInv, EchoedInv, ReplyInv, SignedIsValid, Answered

LEMMA CloseInvariant ==
  ASSUME IInv, NEW what, Close(what)
  PROVE  IInv'
  <1>1. phase' = "closed" /\ c1' = c1 /\ s1' = s1 /\ c2' = c2 /\ verdict' = verdict
    BY DEF Close, client, server
  <1> QED
    BY <1>1 DEF IInv, HelloInv, EarlyInv, SignedInv, EchoedInv, ReplyInv, SignedIsValid, Answered

\* A search with HMAC at work finds the digest of a client that has one.
LEMMA ParseFacts ==
  ASSUME HelloInv, NEW bases, ParseC1(bases)
  PROVE  /\ old' \in BOOLEAN
         /\ old' /\ c1.digests # {} => bases # Bases /\ c1.zero # 0
         /\ ~old' => \E d \in c1.digests : cdigest' = Rekey(RTMP_SERVER_KEY, d.digest)
  <1> DEFINE offs == FindDigest(c1, RTMP_PARTIAL_CLIENT_KEY, bases)
  <1>1. /\ old' = IsOld(offs)
        /\ cdigest' = IF IsOld(offs) \/ offs = -1 THEN cdigest
                      ELSE Rekey(RTMP_SERVER_KEY, DigestAt(c1, offs))
    BY DEF ParseC1
  <1>2. /\ offs # -1 => \E b \in Bases : offs = Offs(c1, b) /\ FoundAt(c1, RTMP_PARTIAL_CLIENT_KEY, b)
        /\ (\E b \in bases \cap Bases : FoundAt(c1, RTMP_PARTIAL_CLIENT_KEY, b)) => offs # -1
    BY FindFacts DEF HelloInv
  <1> HIDE DEF offs
  <1>3. old' \in BOOLEAN
    BY <1>1 DEF IsOld
  <1>4. ASSUME old', c1.digests # {}
        PROVE  bases # Bases /\ c1.zero # 0
    BY <1>1, <1>2, <1>4 DEF IsOld, HelloInv
  <1>5. ASSUME ~old'
        PROVE  \E d \in c1.digests : cdigest' = Rekey(RTMP_SERVER_KEY, d.digest)
    <2>1. offs # -1 /\ cdigest' = Rekey(RTMP_SERVER_KEY, DigestAt(c1, offs))
      BY <1>1, <1>5 DEF IsOld
    <2>2. \E d \in c1.digests : d.at = offs
      BY <1>2, <2>1 DEF FoundAt
    <2>3. (CHOOSE d \in c1.digests : d.at = offs) \in c1.digests
      BY <2>2
    <2> QED
      BY <2>1, <2>3 DEF DigestAt
  <1> QED
    BY <1>3, <1>4, <1>5

LEMMA AnswerInvariant == IInv /\ HandleC0C1 => IInv'
  <1> SUFFICES ASSUME IInv, HandleC0C1
               PROVE  IInv'
    OBVIOUS
  <1>1. /\ phase = "sent" /\ phase' = "c2" /\ c2' = c2 /\ verdict' = verdict /\ c1' = c1
        /\ SendOld \/ SendSigned
    BY DEF HandleC0C1, client
  <1>2. PICK bases \in SUBSET Bases :
          /\ ParseC1(bases)
          /\ failed' = IF c1.zero # 0 /\ bases # Bases THEN "parse" ELSE "none"
    BY DEF HandleC0C1
  <1>3. /\ HelloInv /\ HelloInv' /\ c2 = NoMessage /\ sdigest = Unset /\ verdict = "none"
        /\ failed' # "send" /\ failed' \in {"parse", "none"}
    BY <1>1, <1>2 DEF IInv, EarlyInv, HelloInv
  <1>4. /\ old' /\ c1.digests # {} => failed' # "none"
        /\ ~old' => \E d \in c1.digests : cdigest' = Rekey(RTMP_SERVER_KEY, d.digest)
    BY <1>2, <1>3, ParseFacts
  <1>5. SignedIsValid' /\ EarlyInv'
    BY <1>1, <1>3 DEF SignedIsValid, EarlyInv
  <1>6. NoMessage.by # "client" /\ Summed(NoMessage)
    BY DEF NoMessage, Summed
  <1>7. CASE SendOld
    <2>1. PICK sum \in [Bases -> Sums] : s1' = Random("server", 0, 0, sum)
      BY <1>7 DEF SendOld
    <2>2. Summed(s1') /\ IsMessage(s1') /\ s1'.digests = {} /\ s1'.zero = 0
      BY <2>1, RandomFacts
    <2>3. old' /\ s2' = [c1 EXCEPT !.zero = 0]
      BY <1>7 DEF SendOld
    <2>4. s2'.by = c1.by /\ s2'.time = c1.time /\ s2'.sum = c1.sum /\ s2'.digests = c1.digests
      BY <1>3, <2>3 DEF HelloInv, IsMessage
    <2> QED
      BY <1>1, <1>3, <1>4, <1>5, <1>6, <2>2, <2>3, <2>4
      DEF IInv, SignedInv, EchoedInv, ReplyInv, Echoed
  <1>8. CASE SendSigned
    <2>1. ~old'
      BY <1>8 DEF SendSigned
    <2>2. PICK sum \in [Bases -> Sums] :
            s1' = SignedS1(sum) /\ sdigest' = SDigest(SignedS1(sum))
      BY <1>8 DEF SendSigned
    <2>3. ASSUME NEW m, m = Random("server", c1.time, 1, sum)
          PROVE  /\ Summed(s1') /\ IsMessage(s1')
                 /\ s1'.digests = {[at |-> WriteOffs(s1'),
                                   digest |-> Hmac(RTMP_PARTIAL_SERVER_KEY, s1', c1_size, WriteOffs(s1'))]}
                 /\ sdigest' = Rekey(RTMP_CLIENT_KEY, DigestAt(s1', WriteOffs(s1')))
      <3>1. s1' = Put(m, WriteOffs(m), Hmac(RTMP_PARTIAL_SERVER_KEY, m, c1_size, WriteOffs(m)))
        BY <2>2, <2>3 DEF SignedS1
      <3>2. Summed(m) /\ WriteOffs(m) \in Nat
        BY <2>3, RandomFacts, Places DEF KEYLEN
      <3>3. Summed(s1') /\ IsMessage(s1')
        BY <2>3, <3>1, PutMessage
      <3>4. /\ s1'.digests = {[at |-> WriteOffs(m),
                              digest |-> Hmac(RTMP_PARTIAL_SERVER_KEY, m, c1_size, WriteOffs(m))]}
            /\ WriteOffs(s1') = WriteOffs(m)
            /\ Hmac(RTMP_PARTIAL_SERVER_KEY, s1', c1_size, WriteOffs(m))
                 = Hmac(RTMP_PARTIAL_SERVER_KEY, m, c1_size, WriteOffs(m))
        BY <2>3, <3>1, <3>2, PutFacts
      <3>5. sdigest' = SDigest(s1')
        BY <2>2
      <3> QED
        BY <3>3, <3>4, <3>5 DEF SDigest
    <2>4. [at |-> Last, digest |-> Hmac(cdigest', s2', Last, -1)] \in s2'.digests
      <3>1. s2' = LET m == Random("server", 2, 2, [b \in Bases |-> 0])
                  IN  Put(m, Last, Hmac(cdigest', m, Last, -1))
        BY <1>8 DEF SendSigned
      <3>2. ASSUME NEW m, m = Random("server", 2, 2, [b \in Bases |-> 0])
            PROVE  [at |-> Last, digest |-> Hmac(cdigest', s2', Last, -1)] \in s2'.digests
        <4>1. s2' = Put(m, Last, Hmac(cdigest', m, Last, -1)) /\ Last \in Nat
          BY <3>1, <3>2 DEF Last, c1_size, KEYLEN
        <4>2. /\ s2'.digests = {[at |-> Last, digest |-> Hmac(cdigest', m, Last, -1)]}
              /\ Hmac(cdigest', s2', Last, -1) = Hmac(cdigest', m, Last, -1)
          BY <3>2, <4>1, PutFacts
        <4> QED
          BY <4>2
      <3> QED
        BY <3>2
    <2>5. /\ Summed(s1') /\ IsMessage(s1')
          /\ s1'.digests = {[at |-> WriteOffs(s1'),
                            digest |-> Hmac(RTMP_PARTIAL_SERVER_KEY, s1', c1_size, WriteOffs(s1'))]}
          /\ sdigest' = Rekey(RTMP_CLIENT_KEY, DigestAt(s1', WriteOffs(s1')))
      BY <2>3
    <2>6. SignedInv'
      BY <1>1, <1>4, <2>1, <2>4, <2>5 DEF SignedInv
    <2> QED
      BY <1>1, <1>3, <1>5, <1>6, <2>1, <2>5, <2>6 DEF IInv, EchoedInv, ReplyInv
  <1> QED
    BY <1>1, <1>7, <1>8

LEMMA SendFailsInvariant == IInv /\ SendFails => IInv'
  <1> SUFFICES ASSUME IInv, SendFails
               PROVE  IInv'
    OBVIOUS
  <1>1. /\ phase = "sent" /\ phase' = "c2" /\ c2' = c2 /\ verdict' = verdict /\ c1' = c1
        /\ s1' = s1 /\ failed' = "send"
    BY DEF SendFails, client
  <1>2. c2 = NoMessage /\ s1 = NoMessage /\ verdict = "none"
    BY <1>1 DEF IInv, EarlyInv
  <1>3. NoMessage.by # "client"
    BY DEF NoMessage
  <1> QED
    BY <1>1, <1>2, <1>3
    DEF IInv, HelloInv, EarlyInv, SignedInv, EchoedInv, ReplyInv, SignedIsValid, Answered

\* Whoever finds the server's digest finds the one that it keeps the key of.
LEMMA ServersKey ==
  ASSUME IInv, Answered, ~old, NEW b \in Bases, FoundAt(s1, RTMP_PARTIAL_SERVER_KEY, b)
  PROVE  Offs(s1, b) = WriteOffs(s1)
  BY DEF IInv, SignedInv, FoundAt

LEMMA ReplyInvariant == IInv /\ ClientReplies => IInv'
  <1> SUFFICES ASSUME IInv, ClientReplies
               PROVE  IInv'
    OBVIOUS
  <1>1. /\ phase = "c2" /\ c2 = NoMessage /\ phase' = phase /\ verdict' = verdict /\ failed' = failed
        /\ c1' = c1 /\ s1' = s1 /\ s2' = s2 /\ old' = old /\ cdigest' = cdigest /\ sdigest' = sdigest
    BY DEF ClientReplies, client, server
  <1>2. verdict = "none" /\ IsMessage(s1) /\ Summed(s1)
    BY <1>1 DEF IInv, EarlyInv, ReplyInv
  <1>3. HelloInv' /\ EarlyInv' /\ SignedInv' /\ EchoedInv' /\ SignedIsValid'
    BY <1>1, <1>2
    DEF IInv, HelloInv, EarlyInv, SignedInv, EchoedInv, Echoed, SignedIsValid, Answered
  <1>4. CASE c2' = [s1 EXCEPT !.by = "echo"]
    <2>1. Summed(c2') /\ c2'.by # "client" /\ c2'.digests = s1.digests
      BY <1>2, <1>4 DEF IsMessage, Summed
    <2> QED
      BY <1>1, <1>2, <1>3, <2>1 DEF IInv, ReplyInv
  <1>5. ASSUME s1 # NoMessage, c1.digests # {}, ServersDigest # -1, NEW sum \in [Bases -> Sums], NEW m,
               m = Random("client", 2, 1, sum),
               c2' = Put(m, Last, Hmac(Rekey(RTMP_CLIENT_KEY, DigestAt(s1, ServersDigest)), m, Last, -1))
        PROVE  IInv'
    <2>1. PICK b \in Bases : ServersDigest = Offs(s1, b) /\ FoundAt(s1, RTMP_PARTIAL_SERVER_KEY, b)
      BY <1>2, <1>5, FindFacts DEF ServersDigest
    <2>2. Answered
      BY <1>1, <1>5 DEF IInv, EarlyInv, Answered
    <2>3. ~old
      BY <2>1, <2>2 DEF IInv, EchoedInv, FoundAt
    <2>4. sdigest = Rekey(RTMP_CLIENT_KEY, DigestAt(s1, ServersDigest))
      BY <2>1, <2>2, <2>3, ServersKey DEF IInv, SignedInv
    <2>5. c2' = Put(m, Last, Hmac(sdigest, m, Last, -1)) /\ Last \in Nat
      BY <1>5, <2>4 DEF Last, c1_size, KEYLEN
    <2>6. /\ c2'.digests = {[at |-> Last, digest |-> Hmac(sdigest, m, Last, -1)]}
          /\ Hmac(sdigest, c2', Last, -1) = Hmac(sdigest, m, Last, -1)
      BY <1>5, <2>5, PutFacts
    <2>7. Summed(c2')
      BY <1>5, <2>5, PutMessage
    <2>8. c2'.by = "client" /\ Answered'
      BY <1>1, <1>5, <2>2, <2>5 DEF Put, Random, Answered
    <2> QED
      BY <1>1, <1>2, <1>3, <2>3, <2>6, <2>7, <2>8 DEF IInv, ReplyInv
  <1> QED
    BY <1>4, <1>5 DEF ClientReplies

LEMMA RekeyIsNoKey == \A key, digest : Rekey(key, digest) # RTMP_PARTIAL_SERVER_KEY
  <1>1. \A key, digest : Rekey(key, digest)[1] = "hmac"
    BY DEF Rekey
  <1>2. RTMP_PARTIAL_SERVER_KEY[1] # "hmac"
    BY DEF RTMP_PARTIAL_SERVER_KEY
  <1> QED
    BY <1>1, <1>2

\* A c2 the client signed is found valid, and no other is.
LEMMA VerdictFacts ==
  ASSUME IInv, phase = "c2", c2 # NoMessage, ~old, NEW bases
  PROVE  C2Valid(c2, bases) <=> c2.by = "client"
  <1>1. Summed(c2)
    BY DEF IInv, ReplyInv
  <1>2. CASE c2.by = "client"
    <2>1. c2.digests = {[at |-> Last, digest |-> Hmac(sdigest, c2, Last, -1)]}
      BY <1>2 DEF IInv, ReplyInv
    <2>2. \A b \in Bases : Offs(c2, b) # Last
      <3>1. Offs(c2, 8) # Last /\ Offs(c2, 772) # Last
        BY <1>1, Places
      <3> QED
        BY <3>1 DEF Bases
    <2>3. FindDigest(c2, sdigest, bases) = -1
      BY <1>1, <2>1, <2>2, FindFacts DEF FoundAt
    <2> QED
      BY <1>2, <2>1, <2>3 DEF C2Valid, C2Place
  <1>3. CASE c2.by # "client"
    <2>1. c2.digests = s1.digests
      BY <1>3 DEF IInv, ReplyInv
    <2>2. CASE failed = "send"
      <3>1. c2.digests = {}
        BY <2>1, <2>2 DEF IInv, EarlyInv, NoMessage
      <3> QED
        BY <1>3, <3>1 DEF C2Valid
    <2>3. CASE failed # "send"
      <3>1. Answered
        BY <2>3 DEF Answered
      <3>2. \A d \in c2.digests : d.digest = Hmac(RTMP_PARTIAL_SERVER_KEY, s1, c1_size, WriteOffs(s1))
        BY <2>1, <3>1 DEF IInv, SignedInv
      <3>3. sdigest # RTMP_PARTIAL_SERVER_KEY
        <4>1. sdigest = Rekey(RTMP_CLIENT_KEY, DigestAt(s1, WriteOffs(s1)))
          BY <3>1 DEF IInv, SignedInv
        <4> QED
          BY <4>1, RekeyIsNoKey
      <3>4. \A at : Hmac(sdigest, c2, at, -1)
                      # Hmac(RTMP_PARTIAL_SERVER_KEY, s1, c1_size, WriteOffs(s1))
        BY <3>3 DEF Hmac
      <3> QED
        BY <1>3, <3>2, <3>4 DEF C2Valid
    <2> QED
      BY <2>2, <2>3
  <1> QED
    BY <1>2, <1>3

LEMMA VerdictInvariant == IInv /\ HandleC2 => IInv'
  <1> SUFFICES ASSUME IInv, HandleC2
               PROVE  IInv'
    OBVIOUS
  <1>1. /\ phase = "c2" /\ c2 # NoMessage /\ phase' = "done" /\ c2' = c2 /\ failed' = failed
        /\ c1' = c1 /\ s1' = s1 /\ s2' = s2 /\ old' = old /\ cdigest' = cdigest /\ sdigest' = sdigest
        /\ \E bases \in SUBSET Bases :
             verdict' = IF old THEN "skipped"
                        ELSE IF C2Valid(c2, bases) THEN "valid" ELSE "invalid"
    BY DEF HandleC2, client, server
  <1>2. SignedIsValid'
    BY <1>1, VerdictFacts DEF SignedIsValid
  <1> QED
    BY <1>1, <1>2
    DEF IInv, HelloInv, EarlyInv, SignedInv, EchoedInv, Echoed, ReplyInv, Answered

LEMMA StepInvariant == IInv /\ [Next]_vars => IInv'
  <1> SUFFICES ASSUME IInv, [Next]_vars
               PROVE  IInv'
    OBVIOUS
  <1>1. CASE ClientHello
    BY <1>1, HelloInvariant
  <1>2. CASE ClientReplies
    BY <1>2, ReplyInvariant
  <1>3. CASE BadVersion
    BY <1>3, CloseInvariant DEF BadVersion
  <1>4. CASE DigestFails
    BY <1>4, CloseInvariant DEF DigestFails
  <1>5. CASE HandleC0C1
    BY <1>5, AnswerInvariant
  <1>6. CASE SendFails
    BY <1>6, SendFailsInvariant
  <1>7. CASE HandleC2
    BY <1>7, VerdictInvariant
  <1>8. CASE C2Fails
    BY <1>8, CloseInvariant DEF C2Fails
  <1>9. CASE UNCHANGED vars
    <2>1. /\ phase' = phase /\ c1' = c1 /\ s1' = s1 /\ s2' = s2 /\ old' = old /\ cdigest' = cdigest
          /\ sdigest' = sdigest /\ c2' = c2 /\ verdict' = verdict /\ failed' = failed
      BY <1>9 DEF vars, client, server
    <2> QED
      BY <2>1 DEF IInv, HelloInv, EarlyInv, SignedInv, EchoedInv, Echoed, ReplyInv, SignedIsValid,
                  Answered
  <1> QED
    BY <1>1, <1>2, <1>3, <1>4, <1>5, <1>6, <1>7, <1>8, <1>9 DEF Next

\* In every reachable state what was sent belongs to one kind of handshake.
THEOREM Invariance == Spec => []IInv
  BY InitInvariant, StepInvariant, PTL DEF Spec

-----------------------------------------------------------------------------
(* The properties *)

\* Digests are looked for and written within the message, away from the bytes
\* that place them, whatever these bytes are.
THEOREM DigestsStayInside == Spec => []PlacesInside
  <1>1. IInv => PlacesInside
    <2> SUFFICES ASSUME IInv, NEW m \in {c1, s1, c2}
                 PROVE  /\ \A b \in Bases : Offs(m, b) \in b + 4 .. Last
                        /\ Offs(m, 8) + KEYLEN <= 772
                        /\ WriteOffs(m) \in 12 .. 772 - KEYLEN
      BY DEF PlacesInside
    <2>1. Summed(m)
      BY DEF IInv, HelloInv, ReplyInv
    <2> QED
      BY <2>1, Places
  <1> QED
    BY <1>1, Invariance, PTL

\* A client is answered in one kind of handshake, and one with a digest in its own
\* as long as HMAC works.
THEOREM AnsweredInItsKind == Spec => []AnsweredInKind
  <1>1. IInv => AnsweredInKind
    <2> SUFFICES ASSUME IInv, Answered
                 PROVE  Verified \/ (Echoed /\ (c1.digests # {} => failed # "none"))
      BY DEF AnsweredInKind
    <2>1. CASE old
      BY <2>1 DEF IInv, EchoedInv
    <2>2. CASE ~old
      <3>1. Summed(s1)
        BY DEF IInv, ReplyInv
      <3>2. FoundAt(s1, RTMP_PARTIAL_SERVER_KEY, 8)
        <4>1. WriteOffs(s1) = Offs(s1, 8)
          BY <3>1, Places
        <4> QED
          BY <2>2, <4>1 DEF IInv, SignedInv, FoundAt
      <3>3. ServersDigest # -1
        BY <3>1, <3>2, FindFacts DEF ServersDigest, Bases
      <3>4. PICK d \in c1.digests : cdigest = Rekey(RTMP_SERVER_KEY, d.digest)
        BY <2>2 DEF IInv, SignedInv
      <3>5. [at |-> Last, digest |-> Hmac(Rekey(RTMP_SERVER_KEY, d.digest), s2, Last, -1)] \in s2.digests
        BY <2>2, <3>4 DEF IInv, SignedInv
      <3>6. \E e \in c1.digests :
              [at |-> Last, digest |-> Hmac(Rekey(RTMP_SERVER_KEY, e.digest), s2, Last, -1)]
                \in s2.digests
        <4> WITNESS d \in c1.digests
        <4> QED
          BY <3>5
      <3>7. Verified
        BY <3>3, <3>6, Zenon DEF Verified
      <3> QED
        BY <3>7
    <2> QED
      BY <2>1, <2>2
  <1> QED
    BY <1>1, Invariance, PTL

LEMMA KeysStep == IInv /\ IInv' /\ KeysWritten /\ [Next]_vars => KeysWritten'
  <1> SUFFICES ASSUME IInv, IInv', KeysWritten, [Next]_vars
               PROVE  KeysWritten'
    OBVIOUS
  <1>0. \A key, digest : Rekey(key, digest) # Unset
    BY DEF Rekey, Unset
  <1>1. CASE ClientHello \/ ClientReplies \/ UNCHANGED vars
    <2>1. /\ old' = old /\ cdigest' = cdigest /\ sdigest' = sdigest /\ s1' = s1
          /\ verdict' = verdict /\ failed' = failed /\ (phase' = phase \/ phase' = "sent")
      BY <1>1 DEF ClientHello, ClientReplies, vars, client, server
    <2> QED
      BY <2>1 DEF KeysWritten
  <1>2. CASE BadVersion \/ DigestFails \/ C2Fails
    <2>1. phase' = "closed" /\ verdict' = verdict /\ sdigest' = sdigest
      BY <1>2 DEF BadVersion, DigestFails, C2Fails, Close, server
    <2> QED
      BY <2>1 DEF KeysWritten
  <1>3. CASE HandleC0C1
    <2>1. phase = "sent" /\ verdict' = verdict /\ phase' = "c2" /\ failed' # "send"
      BY <1>3 DEF HandleC0C1
    <2>2. verdict' # "valid"
      BY <2>1 DEF IInv, EarlyInv
    <2>3. ~old' => cdigest' # Unset /\ sdigest' # Unset
      BY <1>0, <2>1 DEF IInv, SignedInv, Answered
    <2> QED
      BY <2>1, <2>2, <2>3 DEF KeysWritten
  <1>4. CASE SendFails
    <2>1. /\ phase = "sent" /\ verdict' = verdict /\ failed' = "send" /\ s1' = s1
          /\ \E bases \in SUBSET Bases : ParseC1(bases)
      BY <1>4 DEF SendFails
    <2>2. s1' = NoMessage /\ verdict' # "valid"
      BY <2>1 DEF IInv, EarlyInv
    <2>3. ~old' => cdigest' # Unset
      BY <1>0, <2>1, ParseFacts DEF IInv
    <2> QED
      BY <2>1, <2>2, <2>3 DEF KeysWritten
  <1>5. CASE HandleC2
    <2>1. /\ phase = "c2" /\ c2 # NoMessage /\ failed' = failed /\ s1' = s1
          /\ old' = old /\ cdigest' = cdigest /\ sdigest' = sdigest
          /\ \E bases \in SUBSET Bases :
               verdict' = IF old THEN "skipped"
                          ELSE IF C2Valid(c2, bases) THEN "valid" ELSE "invalid"
      BY <1>5 DEF HandleC2, server
    <2>2. ASSUME verdict' = "valid"
          PROVE  sdigest # Unset
      <3>1. ~old /\ c2.by = "client"
        BY <2>1, <2>2, VerdictFacts
      <3>2. Answered
        BY <2>1, <3>1 DEF IInv, ReplyInv
      <3> QED
        BY <1>0, <3>1, <3>2 DEF IInv, SignedInv
    <2> QED
      BY <2>1, <2>2 DEF KeysWritten
  <1> QED
    BY <1>1, <1>2, <1>3, <1>4, <1>5 DEF Next

\* The server's keys were written before they are used, but for that of c2 after a
\* failed send; no c2 is found valid by a key that never was.
THEOREM KeysAreWritten == Spec => []KeysWritten
  <1>1. Init => KeysWritten
    BY DEF Init, KeysWritten
  <1> QED
    BY <1>1, Invariance, InitInvariant, StepInvariant, KeysStep, PTL DEF Spec

\* A c2 is found valid exactly if the client signed it.
THEOREM SignedMeansValid == Spec => []SignedIsValid
  <1>1. IInv => SignedIsValid
    BY DEF IInv
  <1> QED
    BY <1>1, Invariance, PTL
=============================================================================
