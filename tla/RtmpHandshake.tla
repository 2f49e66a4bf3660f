--------------------------- MODULE RtmpHandshake ---------------------------
(***************************************************************************)
(* The messages of the RTMP handshake: which kind of handshake the server  *)
(* takes a client's c1 for, what it answers, and what it makes of c2.      *)
(* (RtmpChunks has how the messages arrive.)                               *)
(*                                                                         *)
(* A message of 1536 bytes is known by who made it (by), its first two     *)
(* words (time, zero), the sums of the four bytes that place its digest in *)
(* the two schemas (sum), and the digests in it, each at its place.  HMAC  *)
(* is a constructor: two digests are equal if key and data are.            *)
(*                                                                         *)
(* OpenSSL may fail anywhere.  The messages are too many to enumerate; the *)
(* properties are proved in RtmpHandshakeProofs.                           *)
(***************************************************************************)
EXTENDS Integers

\* The sums of four bytes.
Sums == 0 .. 4 * 255

c1_size == 1536
KEYLEN == 32
Bases == {8, 772}

VARIABLES
  phase,      \* "idle": nothing sent; "sent": c0 and c1 under way; "c2": the
              \* server waits for c2; "done", "closed"
  c0, c1,     \* what the client sent; NoMessage before it did
  s1, s2,     \* what it was sent
  c2,
  old,        \* rtmp_handshake::old
  cdigest, sdigest,
  verdict,    \* what parse_c2 found: "none", "skipped", "valid", "invalid"
  failed      \* where OpenSSL failed: "none", "parse", "send"

client == <<c0, c1>>
server == <<s1, s2, old, cdigest, sdigest>>
vars == <<phase, client, server, c2, verdict, failed>>

NoMessage ==
  [by |-> "nobody", time |-> 0, zero |-> 0, sum |-> [b \in Bases |-> 0], digests |-> {}]
Unset == <<"unset">>

Init ==
  /\ phase = "idle"
  /\ c0 = 0 /\ c1 = NoMessage
  /\ s1 = NoMessage /\ s2 = NoMessage
  /\ c2 = NoMessage
  /\ old = FALSE
  /\ cdigest = Unset /\ sdigest = Unset
  /\ verdict = "none"
  /\ failed = "none"

-----------------------------------------------------------------------------
(* Digests *)

\* hmac_sha256 over a message's first size bytes without the digest at skip.
Hmac(key, m, size, skip) ==
  <<"hmac", key, <<m.by, m.time, m.zero, m.sum, size, skip>>,
    {d \in m.digests : d.at < size /\ d.at # skip}>>

\* hmac_sha256 over a digest; nullptr for skip.
Rekey(key, digest) == <<"hmac", key, digest>>

RTMP_SERVER_KEY == <<"server">>
RTMP_CLIENT_KEY == <<"client">>
RTMP_PARTIAL_SERVER_KEY == <<"server, partial">>
RTMP_PARTIAL_CLIENT_KEY == <<"client, partial">>

\* Where the digest of a message is, in the schema that starts at base.
Offs(m, base) == (m.sum[base] % 728) + base + 4

DigestAt(m, at) == (CHOOSE d \in m.digests : d.at = at).digest

FoundAt(m, key, base) ==
  [at |-> Offs(m, base), digest |-> Hmac(key, m, c1_size, Offs(m, base))] \in m.digests

\* find_digest with the one base, then with the other, as far as HMAC works.
FindDigest(m, key, bases) ==
  IF 772 \in bases /\ FoundAt(m, key, 772) THEN Offs(m, 772)
  ELSE IF 8 \in bases /\ FoundAt(m, key, 8) THEN Offs(m, 8)
  ELSE -1

\* write_digest takes base 0 and the bytes 8 to 11.
WriteOffs(m) == (m.sum[8] % 728) + 0 + 12

Put(m, at, digest) == [m EXCEPT !.digests = @ \cup {[at |-> at, digest |-> digest]}]

Random(by, time, zero, sum) ==
  [by |-> by, time |-> time, zero |-> zero, sum |-> sum, digests |-> {}]

Last == c1_size - KEYLEN

-----------------------------------------------------------------------------
(* The client *)

\* A client without a version, one with a version and no digest, and one with
\* a digest in either schema.
ClientHello ==
  /\ phase = "idle"
  /\ phase' = "sent"
  /\ c0' \in {3, 6}
  /\ \E zero \in {0, 1}, sum \in [Bases -> Sums], base \in Bases :
       LET m == Random("client", 1, zero, sum)
           digest == Hmac(RTMP_PARTIAL_CLIENT_KEY, m, c1_size, Offs(m, base))
       IN  \/ c1' = m
           \/ zero # 0 /\ c1' = Put(m, Offs(m, base), digest)
  /\ UNCHANGED <<server, c2, verdict, failed>>

\* Where the client finds the server's digest.
ServersDigest == FindDigest(s1, RTMP_PARTIAL_SERVER_KEY, Bases)

\* A client with a digest that finds the server's signs its c2; any other
\* returns s1.  Some do so without looking, or have sent anything with c1.
ClientReplies ==
  /\ phase = "c2"
  /\ c2 = NoMessage
  /\ \/ c2' = [s1 EXCEPT !.by = "echo"]
     \/ /\ s1 # NoMessage
        /\ c1.digests # {}
        /\ ServersDigest # -1
        /\ \E sum \in [Bases -> Sums] :
             LET m == Random("client", 2, 1, sum)
                 key == Rekey(RTMP_CLIENT_KEY, DigestAt(s1, ServersDigest))
             IN  c2' = Put(m, Last, Hmac(key, m, Last, -1))
  /\ UNCHANGED <<phase, client, server, verdict, failed>>

-----------------------------------------------------------------------------
(* rtmp_session::handle: c0 and c1 *)

Close(what) ==
  /\ phase' = "closed"
  /\ failed' = what
  /\ UNCHANGED <<client, server, c2, verdict>>

BadVersion ==
  /\ phase = "sent"
  /\ c0 # 3
  /\ Close(failed)

\* cdigest cannot be made: the session ends.
DigestFails ==
  /\ phase = "sent"
  /\ c0 = 3
  /\ c1.zero # 0
  /\ FindDigest(c1, RTMP_PARTIAL_CLIENT_KEY, Bases) # -1
  /\ Close("parse")

IsOld(offs) == c1.zero = 0 \/ offs = -1

\* parse_c1, with HMAC working for the search in these schemas.
ParseC1(bases) ==
  LET offs == FindDigest(c1, RTMP_PARTIAL_CLIENT_KEY, bases)
  IN  /\ old' = IsOld(offs)
      /\ cdigest' = IF IsOld(offs) \/ offs = -1 THEN cdigest
                    ELSE Rekey(RTMP_SERVER_KEY, DigestAt(c1, offs))

SDigest(m) == Rekey(RTMP_CLIENT_KEY, DigestAt(m, WriteOffs(m)))

\* s1 for a client with a digest: its time, and a digest in the first schema.
SignedS1(sum) ==
  LET m == Random("server", c1.time, 1, sum)
  IN  Put(m, WriteOffs(m), Hmac(RTMP_PARTIAL_SERVER_KEY, m, c1_size, WriteOffs(m)))

\* send_s0s1s2 to a client without digest: s2 is its c1, the version erased.
SendOld ==
  /\ old'
  /\ \E sum \in [Bases -> Sums] : s1' = Random("server", 0, 0, sum)
  /\ s2' = [c1 EXCEPT !.zero = 0]
  /\ UNCHANGED sdigest

\* ... and to one with a digest: s1 is signed for anybody, s2 for it.
SendSigned ==
  /\ ~old'
  /\ \E sum \in [Bases -> Sums] :
       s1' = SignedS1(sum) /\ sdigest' = SDigest(SignedS1(sum))
  /\ LET m == Random("server", 2, 2, [b \in Bases |-> 0])
     IN  s2' = Put(m, Last, Hmac(cdigest', m, Last, -1))

HandleC0C1 ==
  /\ phase = "sent"
  /\ c0 = 3
  /\ phase' = "c2"
  /\ \E bases \in SUBSET Bases :
       /\ ParseC1(bases)
       /\ failed' = IF c1.zero # 0 /\ bases # Bases THEN "parse" ELSE "none"
  /\ SendOld \/ SendSigned
  /\ UNCHANGED <<client, c2, verdict>>

\* send_s0s1s2 fails and sends nothing, perhaps after it wrote sdigest; handle
\* takes no notice and waits for c2.
SendFails ==
  /\ phase = "sent"
  /\ c0 = 3
  /\ phase' = "c2"
  /\ \E bases \in SUBSET Bases : ParseC1(bases)
  /\ failed' = "send"
  /\ \/ UNCHANGED sdigest
     \/ ~old' /\ \E sum \in [Bases -> Sums] : sdigest' = SDigest(SignedS1(sum))
  /\ UNCHANGED <<client, c2, verdict, s1, s2>>

-----------------------------------------------------------------------------
(* rtmp_session::handle: c2 *)

\* Where parse_c2 looks for the digest, HMAC working in these schemas, and whether
\* it is that of what is before.
C2Place(m, bases) ==
  LET offs == FindDigest(m, sdigest, bases) IN IF offs = -1 THEN Last ELSE offs
C2Valid(m, bases) ==
  LET at == C2Place(m, bases)
  IN  [at |-> at, digest |-> Hmac(sdigest, m, at, -1)] \in m.digests

\* A c2 that is not valid is logged; the session goes on.
HandleC2 ==
  /\ phase = "c2"
  /\ c2 # NoMessage
  /\ phase' = "done"
  /\ \E bases \in SUBSET Bases :
       verdict' = IF old THEN "skipped"
                  ELSE IF C2Valid(c2, bases) THEN "valid" ELSE "invalid"
  /\ UNCHANGED <<client, server, c2, failed>>

C2Fails ==
  /\ phase = "c2"
  /\ c2 # NoMessage
  /\ ~old
  /\ Close("parse")

-----------------------------------------------------------------------------

Next ==
  \/ ClientHello \/ ClientReplies
  \/ BadVersion \/ DigestFails \/ HandleC0C1 \/ SendFails
  \/ HandleC2 \/ C2Fails

Spec == Init /\ [][Next]_vars

-----------------------------------------------------------------------------
(* Properties *)

Answered == phase \in {"c2", "done"} /\ failed # "send"

\* Wherever the server looks for a digest or writes one, it is within the message,
\* and it covers none of the bytes that say where a digest is.
PlacesInside ==
  \A m \in {c1, s1, c2} :
    /\ \A b \in Bases : Offs(m, b) \in b + 4 .. Last
    /\ Offs(m, 8) + KEYLEN <= 772
    /\ WriteOffs(m) \in 12 .. 772 - KEYLEN

\* What a client with a digest checks: the server's, and that s2 is made of its own.
Verified ==
  /\ ServersDigest # -1
  /\ \E d \in c1.digests :
       LET key == Rekey(RTMP_SERVER_KEY, d.digest)
       IN  [at |-> Last, digest |-> Hmac(key, s2, Last, -1)] \in s2.digests

\* What any other client checks.
Echoed ==
  /\ s1.zero = 0
  /\ s2.by = c1.by /\ s2.time = c1.time /\ s2.sum = c1.sum /\ s2.digests = c1.digests

\* A client is answered in one of the two kinds of handshake, s1 and s2 alike, and
\* one with a digest, in whichever schema, in its own unless HMAC failed.
AnsweredInKind ==
  Answered =>
    /\ Verified \/ Echoed
    /\ c1.digests # {} /\ failed = "none" => Verified

\* The keys of a session with a client that has a digest.  That of s2 was written,
\* and so was that of c2, but after a send_s0s1s2 that failed and sent nothing: c2 is
\* then checked with a key that never was, and not found valid, as whoever was sent
\* nothing has no key to sign it with.
KeysWritten ==
  /\ phase \in {"c2", "done"} /\ ~old =>
       /\ cdigest # Unset
       /\ sdigest = Unset => failed = "send" /\ s1 = NoMessage
  /\ verdict = "valid" => sdigest # Unset

\* c2 is found valid exactly if the client has signed it.
SignedIsValid ==
  verdict \in {"valid", "invalid"} => (verdict = "valid" <=> c2.by = "client")
=============================================================================
