-------------------------------- MODULE Amf0 --------------------------------
(***************************************************************************)
(* The codec of command messages: values are written into a SimpleBuffer   *)
(* and read from it again, as handle_command_message does: the name of the *)
(* command, its number, and then an object (or an array).  A peer builds   *)
(* that object by put, property by property.                               *)
(*                                                                         *)
(* Bytes are smaller than in the code, Radix values instead of 256: what   *)
(* two bytes hold, and when their sign bit is set, scales with it.         *)
(* Names and texts are of one character, over and over: what matters is    *)
(* whether they differ, and their length.  A length with the sign bit set  *)
(* stops a build with assertions; where it goes on without, the value is   *)
(* not read.  Variant marks a definition with a plausible mistake, used by *)
(* no action.                                                              *)
(***************************************************************************)
EXTENDS Integers, Sequences, SequencesExt

CONSTANTS
  Radix,      \* values of a byte
  Lengths,    \* of the names and texts
  MaxPuts,    \* bounds on the calls of put, and on objects within objects
  MaxDepth

\* Two bytes that begin with a marker or a character have no sign bit.
ASSUME RadixAssumption == Radix \in Nat /\ Radix > 23

\* Markers; the reader does not know a date.
NUMBER == 0
BOOLEAN_ == 1
STRING_ == 2
OBJECT == 3
NULL == 5
ECMA_ARRAY == 8
OBJECT_END == 9
DATE == 11
Composite == {OBJECT, ECMA_ARRAY}

Value(marker, bytes, properties) ==
  [marker |-> marker, bytes |-> bytes, properties |-> properties]

\* A null pointer: the value of a property that was not understood.
Nothing == Value(Radix - 1, <<>>, <<>>)

\* A character is no marker that the reader knows.
Char == 10
Text(n) == [i \in 1 .. n |-> Char]
Fixed == [m \in {NUMBER, BOOLEAN_, NULL, DATE} |->
            CASE m = NUMBER -> 8 [] m = BOOLEAN_ -> 1 [] m = NULL -> 0 [] m = DATE -> 10]

-----------------------------------------------------------------------------
(* Writing *)

Two(n) == <<(n \div Radix) % Radix, n % Radix>>

\* An earlier property of that name is erased.
Put(properties, name, value) ==
  Append(SelectSeq(properties, LAMBDA p : p.name # name), [name |-> name, value |-> value])

\* Variant: the end of an object is the end of the message.
EndLess == <<>>

End == Two(0) \o <<OBJECT_END>>

RECURSIVE Write(_)

WriteProperty(p) == Two(Len(p.name)) \o p.name \o Write(p.value)

WriteObject(v) ==
  FlattenSeq([i \in DOMAIN v.properties |-> WriteProperty(v.properties[i])]) \o End

WriteEcmaArray(v) == <<0, 0>> \o Two(Len(v.properties)) \o WriteObject(v)

WriteString(v) == Two(Len(v.bytes)) \o v.bytes

Write(v) ==
  <<v.marker>> \o
  CASE v.marker = STRING_ -> WriteString(v)
    [] v.marker = OBJECT -> WriteObject(v)
    [] v.marker = ECMA_ARRAY -> WriteEcmaArray(v)
    [] OTHER -> v.bytes

-----------------------------------------------------------------------------
(* Reading: each gives what it made of the buffer s, and the rest of s *)

Rest(s, n) == SubSeq(s, n + 1, Len(s))
Require(s, n) == 0 <= n /\ n <= Len(s)

Result(ok, value, rest) == [ok |-> ok, value |-> value, rest |-> rest]

\* int16_t: beyond the half of its range a length is negative.
Signed(n) == IF n < (Radix * Radix) \div 2 THEN n ELSE n - Radix * Radix
Length(s) == Signed(s[1] * Radix + s[2])

\* What follows the marker of a number, a boolean or a null.
ReadFixed(m, s) ==
  IF Require(s, Fixed[m])
  THEN Result(TRUE, Value(m, SubSeq(s, 1, Fixed[m]), <<>>), Rest(s, Fixed[m]))
  ELSE Result(FALSE, Value(m, <<>>, <<>>), s)

ReadString(s) ==
  LET t == Rest(s, 2)
  IN  CASE ~Require(s, 2) -> Result(FALSE, Value(STRING_, <<>>, <<>>), s)
        [] Require(s, 2) /\ ~Require(t, Length(s)) -> Result(FALSE, Value(STRING_, <<>>, <<>>), t)
        [] OTHER -> Result(TRUE, Value(STRING_, SubSeq(t, 1, Length(s)), <<>>), Rest(t, Length(s)))

RECURSIVE Read(_, _), ReadObject(_, _)

\* create_amf0data: it takes nothing when it does not know the marker.
Create(s) ==
  IF s # <<>> /\ Head(s) \in (DOMAIN Fixed \ {DATE}) \cup Composite \cup {STRING_}
  THEN LET d == Read(Head(s), s) IN IF d.ok THEN d ELSE [d EXCEPT !.value = Nothing]
  ELSE Result(FALSE, Nothing, s)

\* The loop over the properties, put into v.  It ends with the buffer, too; after
\* an error, v has the properties before it.
ReadObject(v, s) ==
  LET n == Length(s)
      t == Rest(s, 2)
      d == Create(Rest(t, n))
  IN  CASE s = <<>> -> Result(TRUE, v, s)
        [] s # <<>> /\ ~Require(s, 2) -> Result(FALSE, v, s)
        [] Require(s, 2) /\ ~Require(t, n) -> Result(FALSE, v, t)
        [] Require(s, 2) /\ n = 0 -> Result(t # <<>> /\ Head(t) = OBJECT_END, v, Rest(t, 1))
        [] OTHER -> ReadObject([v EXCEPT !.properties = Put(@, SubSeq(t, 1, n), d.value)], d.rest)

\* The count is not used.
ReadEcmaArray(v, s) ==
  IF Require(s, 4) THEN ReadObject(v, Rest(s, 4)) ELSE Result(FALSE, v, s)

\* The read of the class with marker m.
Read(m, s) ==
  LET v == Value(m, <<>>, <<>>)
  IN  IF s = <<>> THEN Result(FALSE, v, s)
      ELSE IF Head(s) # m THEN Result(FALSE, v, Tail(s))
      ELSE CASE m = OBJECT -> ReadObject(v, Tail(s))
             [] m = ECMA_ARRAY -> ReadEcmaArray(v, Tail(s))
             [] m = STRING_ -> ReadString(Tail(s))
             [] OTHER -> ReadFixed(m, Tail(s))

-----------------------------------------------------------------------------
VARIABLES
  object,      \* what the peer builds
  puts, depth, \* calls of put, and objects within it, so far
  sent,        \* the values of the message, none before it is sent
  buf,         \* SimpleBuffer: what is left to be read
  got          \* the results of reading so far

vars == <<object, puts, depth, sent, buf, got>>

\* A date whose bytes, taken for what they are not, spell a property of the name
\* Text(1), and the end of its object.
Misleading == Value(DATE, <<0>> \o Two(1) \o Text(1) \o <<NULL>> \o End \o <<1, 1>>, <<>>)

Values ==
  {Value(m, [i \in 1 .. Fixed[m] |-> 1], <<>>) : m \in DOMAIN Fixed} \cup
  {Value(STRING_, Text(n), <<>>) : n \in Lengths} \cup {Misleading}

\* The name of the command and its number.
Command == <<Value(STRING_, Text(1), <<>>), Value(NUMBER, [i \in 1 .. 8 |-> 1], <<>>)>>

Init ==
  /\ object = Value(OBJECT, <<>>, <<>>)
  /\ puts = 0 /\ depth = 0
  /\ sent = <<>> /\ buf = <<>> /\ got = <<>>

PutProperty(n, value) ==
  /\ sent = <<>> /\ puts < MaxPuts
  /\ object' = [object EXCEPT !.properties = Put(@, Text(n), value)]
  /\ puts' = puts + 1
  /\ UNCHANGED <<depth, sent, buf, got>>

\* What was built so far becomes a property of another object, which may have one.
PutInto(n, m, before) ==
  /\ sent = <<>> /\ depth < MaxDepth
  /\ object' = Value(OBJECT, <<>>, Put(before, Text(n), [object EXCEPT !.marker = m]))
  /\ depth' = depth + 1
  /\ UNCHANGED <<puts, sent, buf, got>>

Send(m) ==
  /\ sent = <<>>
  /\ sent' = Append(Command, [object EXCEPT !.marker = m])
  /\ buf' = FlattenSeq([i \in DOMAIN sent' |-> Write(sent'[i])])
  /\ UNCHANGED <<object, puts, depth, got>>

\* The next read of handle_command_message, of the class that it expects.
ReadNext ==
  /\ Len(got) < Len(sent)
  /\ LET next == Read(sent[Len(got) + 1].marker, buf)
     IN  got' = Append(got, next.value) /\ buf' = next.rest
  /\ UNCHANGED <<object, puts, depth, sent>>

Next ==
  \/ \E n \in Lengths, v \in Values : PutProperty(n, v)
  \/ \E n \in Lengths, m \in Composite, before \in {<<>>, <<[name |-> Text(1), value |-> Command[1]]>>} :
       PutInto(n, m, before)
  \/ \E m \in Composite : Send(m)
  \/ ReadNext

Spec == Init /\ [][Next]_vars

-----------------------------------------------------------------------------
(* Properties *)

\* The longest text that two bytes can tell the length of.
Longest == (Radix * Radix) \div 2 - 1

RECURSIVE Readable(_)
Readable(p) ==
  /\ Len(p.name) \in 1 .. Longest
  /\ p.value.marker # DATE /\ Len(p.value.bytes) <= Longest
  /\ \A i \in DOMAIN p.value.properties : Readable(p.value.properties[i])

\* What is read is what was written, and nothing is left, if every name and text
\* in it is short enough, every name is one, and every value is of a kind that the
\* reader knows.  If not, the bytes of the first that is not are taken for other
\* properties; the names before it are still there, though one of these may have
\* replaced the value.
RoundTrip ==
  Len(got) = 3 =>
    LET written == sent[3].properties
        read == got[3].properties
        n == CHOOSE k \in 0 .. Len(written) :
               /\ \A i \in 1 .. k : Readable(written[i])
               /\ k < Len(written) => ~Readable(written[k + 1])
    IN  /\ SubSeq(got, 1, 2) = Command
        /\ \A i \in 1 .. n : \E j \in DOMAIN read : read[j].name = written[i].name
        /\ n = Len(written) => got = sent /\ buf = <<>>
=============================================================================
